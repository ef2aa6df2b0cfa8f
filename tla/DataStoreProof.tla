--------------------------- MODULE DataStoreProof ----------------------------
(***************************************************************************)
(* The data directory for any number of tasks and processes, each of which *)
(* may end after any step.                                                 *)
(*                                                                         *)
(* Beside the types, the invariant has a part for each thing the tasks     *)
(* share.  The redaction key belongs to the task that created the file and *)
(* is never written again once it is whole.  The private key, the public   *)
(* key and the key of a certificate are keys of signers.  A capture is     *)
(* saved after its blobs and audited after it is saved.  The audit log is  *)
(* written by the holder of a mutex, who without an overlap is the only    *)
(* task that has read the last hash.                                       *)
(***************************************************************************)
EXTENDS DataStore, FiniteSetTheorems, TLAPS

Processes == {Process[t] : t \in Tasks}
Pcs == {"start", "create", "write", "before", "after", "blobs", "save", "captures",
        "audit", "append", "private", "public"} \union Ended
Entities == [refs : SUBSET Blobs, key : Tasks \union {Short, None}, redacted : BOOLEAN]
Lines == (Seq(Tasks) \ {<<>>}) \union {Garbage}

ControlTypes ==
    /\ kind \in [Tasks -> Kinds] /\ pc \in [Tasks -> Pcs]
    /\ mutex \in [Processes -> Tasks \union {None}]

KeyTypes ==
    /\ redaction \in [of : Tasks, whole : BOOLEAN] \union {NoFile}
    /\ private \in Tasks \union {NoFile} /\ public \in Tasks \union {NoFile}
    /\ key \in [Tasks -> Tasks \union {Short, None}]
    /\ signers \subseteq Tasks /\ IsFiniteSet(signers)

EntityTypes ==
    /\ blobs \subseteq Blobs /\ analyses \subseteq Tasks
    /\ captures \in [Tasks -> Entities \union {NoFile}]
    /\ refs \in [Tasks -> SUBSET Blobs] /\ names \in [Tasks -> Seq(Tasks)]

LogTypes ==
    /\ log \in Seq(Lines) /\ ended \in BOOLEAN
    /\ seen \in [Tasks -> Seq(Tasks)]
    /\ cuts \subseteq {"torn", "bare"} /\ overlap \in BOOLEAN

\* The types of the variables.
TypeOK == ControlTypes /\ KeyTypes /\ EntityTypes /\ LogTypes

\* Which steps belong to which kind of task.
PcInv ==
    \A t \in Tasks :
      /\ pc[t] \in {"create", "write", "before", "after"} => kind[t] = "capture"
      /\ pc[t] \in {"blobs", "save"} => kind[t] = "bundle"
      /\ pc[t] = "captures" => kind[t] = "diagnostic"
      /\ pc[t] \in {"audit", "append"} => kind[t] # "certificate"
      /\ pc[t] \in {"private", "public"} => kind[t] = "certificate"

\* A whole key stays; the one that is not belongs to the task that writes it.
KeyInv ==
    /\ \A t \in Tasks : pc[t] = "write" => redaction = [of |-> t, whole |-> FALSE]
    /\ \A t \in Tasks : kind[t] = "capture" /\ key[t] \in Tasks =>
         redaction = [of |-> key[t], whole |-> TRUE]
    /\ FingerprintsAgree

\* Everyone's keys are keys of signers, and one that is done has published its own.
SignInv ==
    /\ private # NoFile => private \in signers
    /\ public # NoFile => public \in signers
    /\ \A t \in signers : kind[t] = "certificate" /\ pc[t] \in {"public", "done", "failed"}
    /\ \A t \in Tasks : pc[t] = "public" => t \in signers
    /\ \A t \in Tasks : pc[t] \in {"private", "public"} => key[t] = t
    /\ \A t \in Tasks : kind[t] = "certificate" /\ pc[t] = "done" => key[t] \in signers
    /\ \A t \in signers : pc[t] = "done" => public # NoFile

\* What an audit event of t names.
Saved(t) == captures[t] # NoFile /\ (kind[t] = "diagnostic" => t \in analyses)

SaveInv ==
    /\ \A t \in Tasks : kind[t] = "capture" \/ pc[t] = "save" => refs[t] \subseteq blobs
    /\ \A t \in Tasks : captures[t] # NoFile => captures[t].refs \subseteq blobs
    /\ \A t \in Tasks : pc[t] = "captures" =>
         captures[t] # NoFile \/ (names[t] # <<>> /\ Head(names[t]) = t)
    /\ \A t \in Tasks : pc[t] \in {"audit", "append"} => Saved(t)
    /\ \A i \in DOMAIN log : log[i] # Garbage => Saved(Last(log[i]))

\* The mutex is held by the task inside the append.
MutexInv ==
    /\ \A t \in Tasks : pc[t] = "append" <=> mutex[Process[t]] = t
    /\ ~overlap => \A s, t \in Tasks : pc[s] = "append" /\ pc[t] = "append" => s = t

LastHash == IF log = <<>> THEN <<>> ELSE Last(log)

\* t has a line that can be read.
Logged(t) == \E i \in DOMAIN log : log[i] # Garbage /\ Last(log[i]) = t

Acked == \A t \in Tasks : pc[t] = "done" /\ kind[t] # "certificate" => Logged(t)

LogInv ==
    /\ ~ended => log # <<>>
    /\ cuts = {} => ended /\ Acked
    /\ cuts = {} /\ ~overlap =>
         VerifyAudit /\ \A t \in Tasks : pc[t] = "append" => seen[t] = LastHash
    /\ cuts = {"torn"} /\ ~overlap =>
         /\ \E i \in DOMAIN log : log[i] = Garbage
         /\ Acked
         /\ \A t \in Tasks : pc[t] # "append"

StoreInv == TypeOK /\ PcInv /\ KeyInv /\ SignInv /\ SaveInv /\ MutexInv /\ LogInv

-----------------------------------------------------------------------------
(* Lines and the log.                                                      *)

\* What WriteLine and WriteCut make of the log: what is there stays, the line
\* comes behind it or, when the last line has no newline, both become garbage.
LEMMA ExtendedLog ==
    ASSUME LogTypes, ~ended => log # <<>>, NEW line \in Lines
    PROVE  /\ Extended(line) \in Seq(Lines) /\ Extended(line) # <<>>
           /\ ended => /\ Len(Extended(line)) = Len(log) + 1
                       /\ Extended(line)[Len(log) + 1] = line
                       /\ \A i \in DOMAIN log : Extended(line)[i] = log[i]
           /\ ~ended => \A i \in DOMAIN Extended(line) :
                          Extended(line)[i] = Garbage \/ (i \in DOMAIN log /\ Extended(line)[i] = log[i])
<1>1. log \in Seq(Lines) /\ Garbage \in Lines
  BY DEF LogTypes, Lines
<1>2. CASE ended
  BY <1>1, <1>2 DEF Extended
<1>3. CASE ~ended
  <2>1. Front(log) \in Seq(Lines) /\ \A i \in DOMAIN Front(log) : i \in DOMAIN log /\ Front(log)[i] = log[i]
    BY <1>1, <1>3 DEF Front
  <2>2. Extended(line) = Append(Front(log), Garbage)
    BY <1>3 DEF Extended
  <2>3. \A i \in DOMAIN Append(Front(log), Garbage) :
          \/ Append(Front(log), Garbage)[i] = Garbage
          \/ i \in DOMAIN Front(log) /\ Append(Front(log), Garbage)[i] = Front(log)[i]
    BY <1>1, <2>1
  <2> QED
    BY <1>1, <1>3, <2>1, <2>2, <2>3
<1> QED
  BY <1>2, <1>3

\* A line t writes behind a hash is a line, its event is t.
LEMMA LineOf ==
    ASSUME NEW h \in Seq(Tasks), NEW t \in Tasks
    PROVE  /\ Append(h, t) \in Lines /\ Append(h, t) # Garbage
           /\ Last(Append(h, t)) = t /\ Front(Append(h, t)) = h
<1>1. Append(h, t) \in Seq(Tasks) /\ Append(h, t) # <<>>
  <2>1. Append(h, t) \in Seq(Tasks) /\ Len(Append(h, t)) = Len(h) + 1 /\ Len(h) \in Nat
    OBVIOUS
  <2> QED
    BY <2>1
<1>2. Last(Append(h, t)) = t
  BY DEF Last
<1>3. Front(Append(h, t)) = h
  BY DEF Front
<1> QED
  BY <1>1, <1>2, <1>3, DataStoreAssumption DEF Lines

\* The hash that ReadLast finds.
LEMMA LastHashType ==
    ASSUME LogTypes, Garbage \notin Range(log)
    PROVE  LastHash \in Seq(Tasks)
<1>1. CASE log = <<>>
  BY <1>1 DEF LastHash
<1>2. CASE log # <<>>
  <2>1. Len(log) \in DOMAIN log /\ log[Len(log)] \in Lines
    BY <1>2 DEF LogTypes
  <2>2. log[Len(log)] # Garbage
    BY <2>1 DEF Range
  <2> QED
    BY <1>2, <2>1, <2>2 DEF LastHash, Last, Lines
<1> QED
  BY <1>1, <1>2

-----------------------------------------------------------------------------
(* Types.                                                                  *)

Step(t) ==
    \/ ReadKey(t) \/ CreateKey(t) \/ WriteKey(t)
    \/ \E b \in Blobs : PutBlob(t, b)
    \/ RunCommand(t) \/ SaveCapture(t)
    \/ ReadBundle(t) \/ ImportBlobs(t) \/ ImportCapture(t)
    \/ ReadDiagnostic(t) \/ SaveRedacted(t) \/ SaveAnalysis(t)
    \/ ReadLast(t) \/ WriteLine(t) \/ WriteCut(t)
    \/ ReadSigningKey(t) \/ WritePrivate(t) \/ WritePublic(t)
    \/ Fail(t)

KeyStep(t) ==
    \/ ReadKey(t) \/ CreateKey(t) \/ WriteKey(t)
    \/ ReadSigningKey(t) \/ WritePrivate(t) \/ WritePublic(t)

EntityStep(t) ==
    \/ \E b \in Blobs : PutBlob(t, b)
    \/ SaveCapture(t) \/ ReadBundle(t) \/ ImportBlobs(t) \/ ImportCapture(t)
    \/ ReadDiagnostic(t) \/ SaveRedacted(t) \/ SaveAnalysis(t)

LogStep(t) == ReadLast(t) \/ WriteLine(t) \/ WriteCut(t)

\* The variables a step leaves alone.
LEMMA Frames ==
    ASSUME NEW t \in Tasks, Step(t)
    PROVE  /\ kind' = kind
           /\ KeyStep(t) \/ UNCHANGED <<redaction, private, public, key, signers>>
           /\ EntityStep(t) \/ UNCHANGED <<blobs, analyses, captures, refs, names>>
           /\ LogStep(t) \/ UNCHANGED <<log, ended, seen, cuts, overlap>>
           /\ LogStep(t) \/ Fail(t) \/ mutex' = mutex
<1> USE DEF files, local, history
<1>1. CASE KeyStep(t)
  BY <1>1 DEF KeyStep, ReadKey, CreateKey, WriteKey, ReadSigningKey, WritePrivate, WritePublic
<1>2. CASE EntityStep(t)
  BY <1>2 DEF EntityStep, PutBlob, SaveCapture, ReadBundle, ImportBlobs, ImportCapture,
              ReadDiagnostic, SaveRedacted, SaveAnalysis, Save
<1>3. CASE LogStep(t)
  BY <1>3 DEF LogStep, ReadLast, WriteLine, WriteCut
<1>4. CASE RunCommand(t) \/ Fail(t)
  BY <1>4 DEF RunCommand, Fail
<1> QED
  BY <1>1, <1>2, <1>3, <1>4 DEF Step, KeyStep, EntityStep, LogStep

\* A task moves only itself, along the steps of its kind.
\* A task moves only itself.
LEMMA Moves ==
    ASSUME ControlTypes, NEW t \in Tasks, Step(t)
    PROVE  /\ pc' \in [Tasks -> Pcs]
           /\ \A s \in Tasks : s # t => pc'[s] = pc[s]
<1> USE DEF ControlTypes, Goto, Pcs, Ended
<1>1. CASE KeyStep(t)
  BY <1>1 DEF KeyStep, ReadKey, CreateKey, WriteKey, ReadSigningKey, WritePrivate, WritePublic
<1>2. CASE EntityStep(t)
  BY <1>2 DEF EntityStep, PutBlob, SaveCapture, ReadBundle, ImportBlobs, ImportCapture,
              ReadDiagnostic, SaveRedacted, SaveAnalysis, Save
<1>3. CASE LogStep(t)
  BY <1>3 DEF LogStep, ReadLast, WriteLine, WriteCut
<1>4. CASE RunCommand(t) \/ Fail(t)
  BY <1>4 DEF RunCommand, Fail
<1> QED
  BY <1>1, <1>2, <1>3, <1>4 DEF Step, KeyStep, EntityStep, LogStep

\* The types, group by group.
LEMMA ControlTypesNext ==
    ASSUME ControlTypes, NEW t \in Tasks, Step(t)
    PROVE  ControlTypes'
<1>1. pc' \in [Tasks -> Pcs] /\ kind' \in [Tasks -> Kinds]
  BY Moves, Frames DEF ControlTypes
<1>2. mutex' \in [Processes -> Tasks \union {None}]
  <2> USE DEF ControlTypes, Processes
  <2>1. CASE ReadLast(t)
    BY <2>1 DEF ReadLast
  <2>2. CASE WriteLine(t) \/ WriteCut(t)
    BY <2>2 DEF WriteLine, WriteCut
  <2>3. CASE Fail(t)
    BY <2>3 DEF Fail
  <2> QED
    BY <2>1, <2>2, <2>3, Frames DEF LogStep
<1> QED
  BY <1>1, <1>2 DEF ControlTypes

\* Every step keeps the types of the key files.
LEMMA KeyTypesNext ==
    ASSUME KeyTypes, NEW t \in Tasks, Step(t)
    PROVE  KeyTypes'
<1> USE DEF KeyTypes
<1>1. CASE UNCHANGED <<redaction, private, public, key, signers>>
  BY <1>1
<1>2. CASE ReadKey(t)
  BY <1>2, DataStoreAssumption DEF ReadKey, files, history
<1>3. CASE CreateKey(t)
  <2>1. redaction' \in [of : Tasks, whole : BOOLEAN] \union {NoFile}
    <3>1. [of |-> t, whole |-> FALSE] \in [of : Tasks, whole : BOOLEAN]
      OBVIOUS
    <3>2. redaction' = redaction \/ redaction' = [of |-> t, whole |-> FALSE]
      BY <1>3 DEF CreateKey
    <3> QED
      BY <3>1, <3>2
  <2>2. key' \in [Tasks -> Tasks \union {Short, None}]
    BY <1>3 DEF CreateKey
  <2> QED
    BY <1>3, <2>1, <2>2 DEF CreateKey, history
<1>4. CASE WriteKey(t)
  BY <1>4 DEF WriteKey, history
<1>5. CASE ReadSigningKey(t)
  BY <1>5 DEF ReadSigningKey, files, history
<1>6. CASE WritePrivate(t)
  <2>1. IsFiniteSet(signers')
    BY <1>6, FS_AddElement DEF WritePrivate
  <2> QED
    BY <1>6, <2>1 DEF WritePrivate, local
<1>7. CASE WritePublic(t)
  BY <1>7 DEF WritePublic, local, history
<1> QED
  BY <1>1, <1>2, <1>3, <1>4, <1>5, <1>6, <1>7, Frames DEF KeyStep

\* Every step keeps the types of the entities.
LEMMA EntityTypesNext ==
    ASSUME EntityTypes, KeyTypes, NEW t \in Tasks, Step(t)
    PROVE  EntityTypes'
<1> USE DEF EntityTypes, files, local
<1>1. CASE UNCHANGED <<blobs, analyses, captures, refs, names>>
  BY <1>1
<1>2. CASE \E b \in Blobs : PutBlob(t, b)
  BY <1>2 DEF PutBlob
<1>3. CASE SaveCapture(t)
  <2>1. [refs |-> refs[t], key |-> key[t], redacted |-> FALSE] \in Entities
    BY DEF Entities, KeyTypes
  <2> QED
    BY <1>3, <2>1 DEF SaveCapture, Save
<1>4. CASE ImportCapture(t)
  <2>1. [refs |-> refs[t], key |-> None, redacted |-> FALSE] \in Entities
    BY DEF Entities
  <2> QED
    BY <1>4, <2>1 DEF ImportCapture, Save
<1>5. CASE ReadBundle(t)
  BY <1>5 DEF ReadBundle
<1>6. CASE ImportBlobs(t)
  BY <1>6 DEF ImportBlobs
<1>7. CASE ReadDiagnostic(t)
  BY <1>7 DEF ReadDiagnostic
<1>8. CASE SaveRedacted(t)
  <2>1. Redacted \in Entities
    BY DEF Entities, Redacted
  <2>2. Head(names[t]) \in Tasks /\ Tail(names[t]) \in Seq(Tasks)
    BY <1>8 DEF SaveRedacted
  <2>3. captures' \in [Tasks -> Entities \union {NoFile}]
    BY <1>8, <2>1, <2>2 DEF SaveRedacted, Save
  <2>4. names' \in [Tasks -> Seq(Tasks)]
    BY <1>8, <2>2 DEF SaveRedacted
  <2> QED
    BY <1>8, <2>3, <2>4 DEF SaveRedacted, Save
<1>9. CASE SaveAnalysis(t)
  BY <1>9 DEF SaveAnalysis
<1> QED
  BY <1>1, <1>2, <1>3, <1>4, <1>5, <1>6, <1>7, <1>8, <1>9, Frames DEF EntityStep

\* Every step keeps the types of the log.
LEMMA LogTypesNext ==
    ASSUME LogTypes, ~ended => log # <<>>, NEW t \in Tasks, Step(t)
    PROVE  LogTypes'
<1> USE DEF LogTypes
<1>1. CASE UNCHANGED <<log, ended, seen, cuts, overlap>>
  BY <1>1
<1>2. CASE ReadLast(t)
  <2>1. Garbage \notin Range(log) => LastHash \in Seq(Tasks)
    BY LastHashType
  <2>2. seen' \in [Tasks -> Seq(Tasks)]
    BY <1>2, <2>1 DEF ReadLast, LastHash
  <2> QED
    BY <1>2, <2>2 DEF ReadLast, files
<1>3. Append(seen[t], t) \in Lines /\ Garbage \in Lines
  BY LineOf DEF Lines
<1>4. CASE WriteLine(t)
  <2>1. log' \in Seq(Lines)
    BY <1>4, <1>3, ExtendedLog DEF WriteLine
  <2> QED
    BY <1>4, <2>1 DEF WriteLine, local, history
<1>5. CASE WriteCut(t)
  <2>1. log' \in Seq(Lines)
    BY <1>5, <1>3, ExtendedLog DEF WriteCut
  <2> QED
    BY <1>5, <2>1 DEF WriteCut, local
<1> QED
  BY <1>1, <1>2, <1>4, <1>5, Frames DEF LogStep

\* A step preserves the types.
LEMMA TypesNext ==
    ASSUME TypeOK, LogInv, NEW t \in Tasks, Step(t)
    PROVE  TypeOK'
BY ControlTypesNext, KeyTypesNext, EntityTypesNext, LogTypesNext DEF TypeOK, LogInv

\* The steps by which a task gets where the invariant says something of it.
LEMMA Arrivals ==
    ASSUME ControlTypes, NEW t \in Tasks, Step(t)
    PROVE  /\ pc'[t] = "write" => CreateKey(t)
           /\ pc'[t] = "private" => ReadSigningKey(t)
           /\ pc'[t] = "public" => WritePrivate(t)
           /\ pc'[t] = "save" => ImportBlobs(t)
           /\ pc'[t] = "captures" => ReadDiagnostic(t) \/ SaveRedacted(t)
           /\ pc'[t] = "audit" => SaveCapture(t) \/ ImportCapture(t) \/ SaveAnalysis(t)
           /\ pc'[t] = "append" => ReadLast(t)
           /\ pc'[t] = "done" => WriteLine(t) \/ ReadSigningKey(t) \/ WritePublic(t)
<1> USE DEF ControlTypes, Goto
<1>1. CASE ReadKey(t) \/ CreateKey(t) \/ WriteKey(t)
  BY <1>1 DEF ReadKey, CreateKey, WriteKey
<1>2. CASE ReadSigningKey(t) \/ WritePrivate(t) \/ WritePublic(t)
  BY <1>2 DEF ReadSigningKey, WritePrivate, WritePublic
<1>3. CASE \E b \in Blobs : PutBlob(t, b)
  BY <1>3 DEF PutBlob
<1>4. CASE SaveCapture(t) \/ ImportCapture(t) \/ SaveAnalysis(t)
  BY <1>4 DEF SaveCapture, ImportCapture, SaveAnalysis, Save
<1>5. CASE ReadBundle(t) \/ ImportBlobs(t)
  BY <1>5 DEF ReadBundle, ImportBlobs
<1>6. CASE ReadDiagnostic(t) \/ SaveRedacted(t)
  BY <1>6 DEF ReadDiagnostic, SaveRedacted, Save
<1>7. CASE ReadLast(t) \/ WriteLine(t) \/ WriteCut(t)
  BY <1>7 DEF ReadLast, WriteLine, WriteCut
<1>8. CASE RunCommand(t) \/ Fail(t)
  BY <1>8 DEF RunCommand, Fail
<1> QED
  BY <1>1, <1>2, <1>3, <1>4, <1>5, <1>6, <1>7, <1>8 DEF Step

\* A step leads to a step of the same kind of task.
LEMMA PcInvNext ==
    ASSUME ControlTypes, PcInv, NEW t \in Tasks, Step(t)
    PROVE  PcInv'
<1>1. kind' = kind /\ \A s \in Tasks : s # t => pc'[s] = pc[s]
  BY Frames, Moves
<1>2. SUFFICES (/\ pc[t] \in {"create", "write", "before", "after"} => kind[t] = "capture"
                /\ pc[t] \in {"blobs", "save"} => kind[t] = "bundle"
                /\ pc[t] = "captures" => kind[t] = "diagnostic"
                /\ pc[t] \in {"audit", "append"} => kind[t] # "certificate"
                /\ pc[t] \in {"private", "public"} => kind[t] = "certificate")'
  BY <1>1 DEF PcInv
<1> USE DEF ControlTypes, Goto, At, PcInv
<1>3. CASE KeyStep(t)
  BY <1>1, <1>3 DEF KeyStep, ReadKey, CreateKey, WriteKey, ReadSigningKey, WritePrivate, WritePublic
<1>4. CASE EntityStep(t)
  BY <1>1, <1>4 DEF EntityStep, PutBlob, SaveCapture, ReadBundle, ImportBlobs, ImportCapture,
              ReadDiagnostic, SaveRedacted, SaveAnalysis, Save
<1>5. CASE LogStep(t)
  BY <1>1, <1>5 DEF LogStep, ReadLast, WriteLine, WriteCut
<1>6. CASE RunCommand(t) \/ Fail(t)
  BY <1>1, <1>6 DEF RunCommand, Fail
<1> QED
  BY <1>3, <1>4, <1>5, <1>6 DEF Step, KeyStep, EntityStep, LogStep

-----------------------------------------------------------------------------
(* The keys.                                                               *)

\* One redaction key: O_EXCL has one winner, and nobody replaces the file.
LEMMA KeyInvNext ==
    ASSUME TypeOK, PcInv, KeyInv, NEW t \in Tasks, Step(t)
    PROVE  KeyInv'
<1>1. kind' = kind /\ \A s \in Tasks : s # t => pc'[s] = pc[s]
  BY Frames, Moves DEF TypeOK
<1>2. pc'[t] = "write" => CreateKey(t)
  BY Arrivals DEF TypeOK
<1>k. /\ key \in [Tasks -> Tasks \union {Short, None}]
      /\ redaction \in [of : Tasks, whole : BOOLEAN] \union {NoFile}
      /\ captures \in [Tasks -> Entities \union {NoFile}]
  BY DEF TypeOK, KeyTypes, EntityTypes
<1>n. /\ \A s \in Tasks, w \in BOOLEAN : [of |-> s, whole |-> w] # NoFile
      /\ Short \notin Tasks /\ None \notin Tasks
  BY DataStoreAssumption
<1>u. CASE UNCHANGED <<redaction, key, captures>> /\ pc'[t] # "write"
  BY <1>1, <1>u DEF KeyInv, FingerprintsAgree
<1>3. CASE ReadKey(t)
  <2>1. captures' = captures /\ redaction' = redaction
    BY <1>3 DEF ReadKey, files
  <2>2. \/ key' = key
        \/ /\ redaction # NoFile /\ redaction.whole
           /\ key' = [key EXCEPT ![t] = redaction.of]
    BY <1>3 DEF ReadKey
  <2>3. pc'[t] # "write"
    BY <1>2, <1>3 DEF ReadKey, CreateKey, At
  <2>4. redaction # NoFile /\ redaction.whole => redaction = [of |-> redaction.of, whole |-> TRUE]
    BY <1>k
  <2> QED
    BY <1>1, <1>k, <2>1, <2>2, <2>3, <2>4 DEF KeyInv, FingerprintsAgree
<1>4. CASE CreateKey(t)
  <2>1. captures' = captures
    BY <1>4 DEF CreateKey
  <2>2. CASE redaction = NoFile
    <3>1. redaction' = [of |-> t, whole |-> FALSE] /\ key' = key
      BY <1>4, <2>2 DEF CreateKey
    <3>2. \A s \in Tasks : pc[s] # "write"
      BY <2>2, <1>n DEF KeyInv
    <3>3. \A s \in Tasks : kind[s] = "capture" => key[s] \notin Tasks
      BY <2>2, <1>n DEF KeyInv
    <3>4. \A s \in Tasks : ~(captures[s] # NoFile /\ captures[s].key \in Tasks)
      BY <2>2, <1>n DEF KeyInv, FingerprintsAgree
    <3> QED
      BY <1>1, <2>1, <3>1, <3>2, <3>3, <3>4 DEF KeyInv, FingerprintsAgree
  <2>3. CASE redaction # NoFile
    <3>1. /\ redaction' = redaction
          /\ key' = [key EXCEPT ![t] = IF redaction.whole THEN redaction.of ELSE Short]
          /\ pc' = [pc EXCEPT ![t] = "before"]
      BY <1>4, <2>3 DEF CreateKey, Goto
    <3>2. redaction.whole => redaction = [of |-> redaction.of, whole |-> TRUE]
      BY <1>k, <2>3
    <3>3. pc'[t] # "write"
      BY <3>1 DEF TypeOK, ControlTypes
    <3> QED
      BY <1>1, <1>k, <1>n, <2>1, <3>1, <3>2, <3>3 DEF KeyInv, FingerprintsAgree
  <2> QED
    BY <2>2, <2>3
<1>5. CASE WriteKey(t)
  <2>1. captures' = captures /\ redaction' = [of |-> t, whole |-> TRUE]
        /\ key' = [key EXCEPT ![t] = t]
    BY <1>5 DEF WriteKey
  <2>2. redaction = [of |-> t, whole |-> FALSE]
    BY <1>5 DEF WriteKey, At, KeyInv
  <2>3. \A s \in Tasks : redaction # [of |-> s, whole |-> TRUE]
    BY <2>2
  <2>4. \A s \in Tasks : s # t => redaction # [of |-> s, whole |-> FALSE]
    BY <2>2
  <2>5. pc'[t] # "write"
    BY <1>2, <1>5 DEF WriteKey, CreateKey, At
  <2>6. \A s \in Tasks : pc'[s] # "write"
    BY <1>1, <2>4, <2>5 DEF KeyInv
  <2>7. \A s \in Tasks : kind[s] = "capture" => key[s] \notin Tasks
    BY <2>3 DEF KeyInv
  <2>8. \A s \in Tasks : ~(captures[s] # NoFile /\ captures[s].key \in Tasks)
    BY <2>3 DEF KeyInv, FingerprintsAgree
  <2> QED
    BY <1>1, <1>k, <2>1, <2>6, <2>7, <2>8 DEF KeyInv, FingerprintsAgree
<1>6. CASE ReadSigningKey(t)
  <2>1. captures' = captures /\ redaction' = redaction /\ kind[t] = "certificate"
        /\ \A s \in Tasks : s # t => key'[s] = key[s]
    BY <1>6, <1>k DEF ReadSigningKey, files, At
  <2>2. pc'[t] # "write"
    BY <1>2, <1>6 DEF ReadSigningKey, CreateKey, At
  <2> QED
    BY <1>1, <2>1, <2>2 DEF KeyInv, FingerprintsAgree
<1>7. CASE SaveCapture(t) \/ ImportCapture(t) \/ SaveRedacted(t)
  <2>1. pc'[t] # "write" /\ redaction' = redaction /\ key' = key
    BY <1>2, <1>7 DEF SaveCapture, ImportCapture, SaveRedacted, CreateKey, At, Save, local
  <2>2. \E id \in Tasks : \E v \in Entities :
          /\ captures' = [captures EXCEPT ![id] = v]
          /\ v.key = None \/ (v.key = key[t] /\ kind[t] = "capture")
    <3>1. CASE SaveCapture(t)
      <4> DEFINE v == [refs |-> refs[t], key |-> key[t], redacted |-> FALSE]
      <4>1. v \in Entities /\ v.key = key[t]
        BY <1>k DEF Entities, TypeOK, EntityTypes
      <4>2. captures' = [captures EXCEPT ![t] = v] /\ kind[t] = "capture"
        BY <3>1 DEF SaveCapture, Save, At
      <4> HIDE DEF v
      <4> QED
        BY <4>1, <4>2
    <3>2. CASE ImportCapture(t)
      <4> DEFINE v == [refs |-> refs[t], key |-> None, redacted |-> FALSE]
      <4>1. v \in Entities /\ v.key = None
        BY DEF Entities, TypeOK, EntityTypes
      <4>2. captures' = [captures EXCEPT ![t] = v]
        BY <3>2 DEF ImportCapture, Save
      <4> HIDE DEF v
      <4> QED
        BY <4>1, <4>2
    <3>3. CASE SaveRedacted(t)
      <4>1. Redacted \in Entities /\ Redacted.key = None
        BY DEF Entities, Redacted
      <4>2. captures' = [captures EXCEPT ![Head(names[t])] = Redacted] /\ names[t] # <<>>
        BY <3>3 DEF SaveRedacted, Save
      <4>3. Head(names[t]) \in Tasks
        BY <4>2 DEF TypeOK, EntityTypes
      <4> QED
        BY <4>1, <4>2, <4>3
    <3> QED
      BY <1>7, <3>1, <3>2, <3>3
  <2>3. PICK id \in Tasks, v \in Entities :
          /\ captures' = [captures EXCEPT ![id] = v]
          /\ v.key = None \/ (v.key = key[t] /\ kind[t] = "capture")
    BY <2>2
  <2>4. v.key \in Tasks => redaction = [of |-> v.key, whole |-> TRUE]
    BY <2>3, <1>n DEF KeyInv
  <2> QED
    BY <1>1, <1>k, <2>1, <2>3, <2>4 DEF KeyInv, FingerprintsAgree
<1> QED
  <2>1. WritePrivate(t) \/ WritePublic(t) => UNCHANGED <<redaction, key, captures>>
    BY DEF WritePrivate, WritePublic, local
  <2>2. WritePrivate(t) \/ WritePublic(t) => ~CreateKey(t)
    BY DEF WritePrivate, WritePublic, CreateKey, At
  <2>3. \/ SaveCapture(t) \/ ImportCapture(t) \/ SaveRedacted(t)
        \/ captures' = captures
    BY Frames DEF EntityStep, PutBlob, ReadBundle, ImportBlobs, ReadDiagnostic, SaveAnalysis, files
  <2> QED
    BY <1>2, <1>u, <1>3, <1>4, <1>5, <1>6, <1>7, <2>1, <2>2, <2>3, Frames DEF KeyStep

\* The signing keys in use and in the files are keys of signers.
LEMMA SignInvNext ==
    ASSUME TypeOK, PcInv, SignInv, NEW t \in Tasks, Step(t)
    PROVE  SignInv'
<1>1. kind' = kind /\ \A s \in Tasks : s # t => pc'[s] = pc[s]
  BY Frames, Moves DEF TypeOK
<1>2. /\ pc'[t] = "private" => ReadSigningKey(t)
      /\ pc'[t] = "public" => WritePrivate(t)
      /\ pc'[t] = "done" => WriteLine(t) \/ ReadSigningKey(t) \/ WritePublic(t)
  BY Arrivals DEF TypeOK
<1>k. /\ key \in [Tasks -> Tasks \union {Short, None}]
      /\ private \in Tasks \union {NoFile} /\ public \in Tasks \union {NoFile}
      /\ signers \subseteq Tasks /\ NoFile \notin Tasks
      /\ pc \in [Tasks -> Pcs]
  BY DataStoreAssumption DEF TypeOK, KeyTypes, ControlTypes
<1>3. CASE ReadSigningKey(t)
  <2>1. /\ kind[t] = "certificate" /\ pc[t] = "start"
        /\ UNCHANGED <<private, public, signers>>
    BY <1>3 DEF ReadSigningKey, At, files, history
  <2>2. t \notin signers
    BY <2>1 DEF SignInv
  <2>3. CASE private # NoFile
    <3>1. key' = [key EXCEPT ![t] = private] /\ pc' = [pc EXCEPT ![t] = "done"]
      BY <1>3, <2>3 DEF ReadSigningKey, Goto
    <3> QED
      BY <1>1, <1>k, <2>1, <2>2, <2>3, <3>1 DEF SignInv
  <2>4. CASE private = NoFile
    <3>1. key' = [key EXCEPT ![t] = t] /\ pc' = [pc EXCEPT ![t] = "private"]
      BY <1>3, <2>4 DEF ReadSigningKey, Goto
    <3> QED
      BY <1>1, <1>k, <2>1, <2>2, <2>4, <3>1 DEF SignInv
  <2> QED
    BY <2>3, <2>4
<1>4. CASE WritePrivate(t)
  <2>1. /\ kind[t] = "certificate" /\ pc[t] = "private"
        /\ private' = t /\ signers' = signers \union {t}
        /\ public' = public /\ key' = key
        /\ pc' = [pc EXCEPT ![t] = "public"]
    BY <1>4 DEF WritePrivate, At, local, Goto
  <2> QED
    BY <1>1, <1>k, <2>1 DEF SignInv
<1>5. CASE WritePublic(t)
  <2>1. /\ kind[t] = "certificate" /\ pc[t] = "public"
        /\ public' = t
        /\ private' = private /\ key' = key /\ signers' = signers
        /\ pc' = [pc EXCEPT ![t] = "done"]
    BY <1>5 DEF WritePublic, At, local, history, Goto
  <2> QED
    BY <1>1, <1>k, <2>1 DEF SignInv
<1>6. CASE UNCHANGED <<private, public, signers>> /\ ~ReadSigningKey(t) /\ ~WritePublic(t) /\ ~WritePrivate(t)
  <2>1. /\ pc'[t] \notin {"private", "public"}
        /\ pc'[t] = "done" => kind[t] # "certificate"
    BY <1>2, <1>6 DEF WriteLine, PcInv
  <2>2. \A s \in Tasks : kind[s] = "certificate" => key'[s] = key[s]
    BY <1>k, <1>6, Frames DEF KeyStep, ReadKey, CreateKey, WriteKey, At
  <2>3. t \in signers => pc'[t] = "failed" \/ pc'[t] = pc[t]
    <3> SUFFICES ASSUME t \in signers PROVE pc'[t] = "failed" \/ pc'[t] = pc[t]
      OBVIOUS
    <3>1. kind[t] = "certificate" /\ pc[t] \in {"public", "done", "failed"}
      BY DEF SignInv
    <3>2. ~KeyStep(t) /\ ~EntityStep(t)
      BY <3>1, <1>6 DEF KeyStep, EntityStep, ReadKey, CreateKey, WriteKey, PutBlob, SaveCapture,
           ReadBundle, ImportBlobs, ImportCapture, ReadDiagnostic, SaveRedacted, SaveAnalysis, At
    <3>3. ~LogStep(t) /\ ~RunCommand(t)
      BY <3>1 DEF LogStep, ReadLast, WriteLine, WriteCut, RunCommand, At
    <3>4. Fail(t)
      BY <3>2, <3>3 DEF Step, KeyStep, EntityStep, LogStep
    <3> QED
      BY <3>4, <1>k DEF Fail, Goto
  <2>4. \A s \in Tasks : pc'[s] \in {"private", "public"} => s # t /\ pc[s] = pc'[s] /\ kind[s] = "certificate"
    BY <1>1, <2>1 DEF PcInv
  <2>5. \A s \in Tasks : kind[s] = "certificate" /\ pc'[s] = "done" => s # t /\ pc[s] = pc'[s]
    BY <1>1, <2>1
  <2>6. \A s \in signers : pc'[s] = "done" => pc[s] = "done"
    BY <1>1, <1>k, <2>3
  <2>7. \A s \in signers : pc'[s] \in {"public", "done", "failed"}
    BY <1>1, <1>k, <2>3 DEF SignInv
  <2> QED
    BY <1>1, <1>k, <1>6, <2>2, <2>4, <2>5, <2>6, <2>7 DEF SignInv
<1> QED
  <2>1. ReadKey(t) \/ CreateKey(t) \/ WriteKey(t) => UNCHANGED <<private, public, signers>>
    BY DEF ReadKey, CreateKey, WriteKey, files, history
  <2>2. ReadKey(t) \/ CreateKey(t) \/ WriteKey(t) => ~ReadSigningKey(t) /\ ~WritePublic(t) /\ ~WritePrivate(t)
    BY DEF ReadKey, CreateKey, WriteKey, ReadSigningKey, WritePublic, WritePrivate, At
  <2> QED
    BY <1>3, <1>4, <1>5, <1>6, <2>1, <2>2, Frames DEF KeyStep

-----------------------------------------------------------------------------
(* What is saved stays, and comes before its event.                        *)

\* What the three saving steps write, and where.
LEMMA SaveWrites ==
    ASSUME TypeOK, SaveInv, NEW t \in Tasks, SaveCapture(t) \/ ImportCapture(t) \/ SaveRedacted(t)
    PROVE  \E id \in Tasks, v \in Entities :
             /\ captures' = [captures EXCEPT ![id] = v]
             /\ v.refs \subseteq blobs
             /\ SaveCapture(t) \/ ImportCapture(t) => id = t
             /\ SaveRedacted(t) => id = Head(names[t])
<1>1. CASE SaveCapture(t)
  <2> DEFINE v == [refs |-> refs[t], key |-> key[t], redacted |-> FALSE]
  <2>1. v \in Entities /\ v.refs = refs[t]
    BY DEF Entities, TypeOK, EntityTypes, KeyTypes
  <2>2. captures' = [captures EXCEPT ![t] = v] /\ kind[t] = "capture"
    BY <1>1 DEF SaveCapture, Save, At
  <2>3. ~SaveRedacted(t)
    BY <1>1 DEF SaveCapture, SaveRedacted, At
  <2> HIDE DEF v
  <2> QED
    BY <2>1, <2>2, <2>3 DEF SaveInv
<1>2. CASE ImportCapture(t)
  <2> DEFINE v == [refs |-> refs[t], key |-> None, redacted |-> FALSE]
  <2>1. v \in Entities /\ v.refs = refs[t]
    BY DEF Entities, TypeOK, EntityTypes
  <2>2. captures' = [captures EXCEPT ![t] = v] /\ pc[t] = "save"
    BY <1>2 DEF ImportCapture, Save, At
  <2>3. ~SaveRedacted(t)
    BY <1>2 DEF ImportCapture, SaveRedacted, At
  <2> HIDE DEF v
  <2> QED
    BY <2>1, <2>2, <2>3 DEF SaveInv
<1>3. CASE SaveRedacted(t)
  <2>1. Redacted \in Entities /\ Redacted.refs = {}
    BY DEF Entities, Redacted
  <2>2. captures' = [captures EXCEPT ![Head(names[t])] = Redacted] /\ names[t] # <<>>
    BY <1>3 DEF SaveRedacted, Save
  <2>3. Head(names[t]) \in Tasks
    BY <2>2 DEF TypeOK, EntityTypes
  <2>4. ~SaveCapture(t) /\ ~ImportCapture(t)
    BY <1>3 DEF SaveCapture, ImportCapture, SaveRedacted, At
  <2> QED
    BY <2>1, <2>2, <2>3, <2>4
<1> QED
  BY <1>1, <1>2, <1>3

\* Blobs, captures and analyses are not removed.
LEMMA NothingRemoved ==
    ASSUME TypeOK, SaveInv, NEW t \in Tasks, Step(t)
    PROVE  /\ blobs \subseteq blobs' /\ analyses \subseteq analyses'
           /\ \A s \in Tasks : captures[s] # NoFile => captures'[s] # NoFile
           /\ \A s \in Tasks : Saved(s) => Saved(s)'
<1>1. /\ \E b \in Blobs : PutBlob(t, b)
      => UNCHANGED <<captures, analyses>> /\ blobs \subseteq blobs'
  BY DEF PutBlob
<1>2. SaveCapture(t) \/ ImportCapture(t) \/ SaveRedacted(t) => UNCHANGED <<blobs, analyses>>
  BY DEF SaveCapture, ImportCapture, SaveRedacted, Save
<1>3. ReadBundle(t) \/ ReadDiagnostic(t) => UNCHANGED <<blobs, captures, analyses>>
  BY DEF ReadBundle, ReadDiagnostic, files
<1>4. ImportBlobs(t) => UNCHANGED <<captures, analyses>> /\ blobs \subseteq blobs'
  BY DEF ImportBlobs
<1>5. SaveAnalysis(t) => UNCHANGED <<blobs, captures>> /\ analyses \subseteq analyses'
  BY DEF SaveAnalysis
<1>6. blobs \subseteq blobs' /\ analyses \subseteq analyses'
  BY <1>1, <1>2, <1>3, <1>4, <1>5, Frames DEF EntityStep
<1>7. \A s \in Tasks : captures[s] # NoFile => captures'[s] # NoFile
  <2>1. CASE SaveCapture(t) \/ ImportCapture(t) \/ SaveRedacted(t)
    <3>1. PICK id \in Tasks, v \in Entities : captures' = [captures EXCEPT ![id] = v]
      BY <2>1, SaveWrites
    <3>2. v # NoFile
      BY DataStoreAssumption DEF Entities
    <3> QED
      BY <3>1, <3>2 DEF TypeOK, EntityTypes
  <2> QED
    BY <2>1, <1>1, <1>3, <1>4, <1>5, Frames DEF EntityStep
<1>8. kind' = kind
  BY Frames
<1> QED
  BY <1>6, <1>7, <1>8 DEF Saved

\* Every line that can be read was there before, or is the line of a task
\* inside the append.
LEMMA NewLines ==
    ASSUME TypeOK, LogInv, NEW t \in Tasks, Step(t), NEW i \in DOMAIN log', log'[i] # Garbage
    PROVE  \/ i \in DOMAIN log /\ log'[i] = log[i]
           \/ pc[t] = "append" /\ log'[i] = Append(seen[t], t)
<1>1. CASE log' = log
  BY <1>1
<1>2. CASE WriteLine(t) \/ WriteCut(t)
  <2>1. pc[t] = "append"
    BY <1>2 DEF WriteLine, WriteCut
  <2>2. PICK line \in {Garbage, Append(seen[t], t)} : log' = Extended(line)
    BY <1>2 DEF WriteLine, WriteCut
  <2>3. line \in Lines
    BY LineOf DEF Lines, TypeOK, LogTypes
  <2>4. LogTypes /\ (~ended => log # <<>>)
    BY DEF TypeOK, LogInv
  <2>5. CASE ended
    <3>1. log' = Append(log, line) /\ log \in Seq(Lines)
      BY <2>2, <2>4, <2>5 DEF Extended, LogTypes
    <3>2. i \in 1..(Len(log) + 1)
      BY <3>1, <2>3
    <3>3. CASE i = Len(log) + 1
      <4>1. log'[i] = line
        BY <3>1, <3>3, <2>3
      <4> QED
        BY <4>1, <2>1, <2>2
    <3>4. CASE i \in 1..Len(log)
      BY <3>1, <3>4, <2>3
    <3> QED
      BY <3>1, <3>2, <3>3, <3>4
  <2>6. CASE ~ended
    BY <2>2, <2>3, <2>4, <2>6, ExtendedLog
  <2> QED
    BY <2>5, <2>6
<1> QED
  BY <1>1, <1>2, Frames DEF LogStep, ReadLast, files

\* Blobs before captures, captures before events.
LEMMA SaveInvNext ==
    ASSUME TypeOK, PcInv, SaveInv, LogInv, NEW t \in Tasks, Step(t)
    PROVE  SaveInv'
<1>1. kind' = kind /\ \A s \in Tasks : s # t => pc'[s] = pc[s]
  BY Frames, Moves DEF TypeOK
<1>2. /\ pc'[t] = "save" => ImportBlobs(t)
      /\ pc'[t] = "captures" => ReadDiagnostic(t) \/ SaveRedacted(t)
      /\ pc'[t] = "audit" => SaveCapture(t) \/ ImportCapture(t) \/ SaveAnalysis(t)
      /\ pc'[t] = "append" => ReadLast(t)
  BY Arrivals DEF TypeOK
<1>3. /\ blobs \subseteq blobs'
      /\ \A s \in Tasks : captures[s] # NoFile => captures'[s] # NoFile
      /\ \A s \in Tasks : Saved(s) => Saved(s)'
  BY NothingRemoved
<1>t. /\ refs \in [Tasks -> SUBSET Blobs] /\ names \in [Tasks -> Seq(Tasks)]
      /\ captures \in [Tasks -> Entities \union {NoFile}]
      /\ \A v \in Entities : v # NoFile
  BY DataStoreAssumption DEF TypeOK, EntityTypes, Entities
<1>4. \A s \in Tasks : kind'[s] = "capture" \/ pc'[s] = "save" => refs'[s] \subseteq blobs'
  <2>1. CASE \E b \in Blobs : PutBlob(t, b)
    <3>1. PICK b \in Blobs : PutBlob(t, b)
      BY <2>1
    <3>2. /\ pc' = pc /\ blobs' = blobs \union {b}
          /\ refs' = [refs EXCEPT ![t] = IF pc[t] = "after" THEN @ \union {b} ELSE @]
      BY <3>1 DEF PutBlob
    <3> QED
      BY <1>1, <1>t, <3>2 DEF SaveInv
  <2>2. CASE ReadBundle(t)
    <3>1. kind[t] = "bundle" /\ \A s \in Tasks : s # t => refs'[s] = refs[s]
      BY <2>2, <1>t DEF ReadBundle, At
    <3>2. pc'[t] # "save"
      BY <2>2, <1>2 DEF ReadBundle, ImportBlobs, At
    <3> QED
      BY <1>1, <1>3, <3>1, <3>2 DEF SaveInv
  <2>3. CASE refs' = refs
    <3>1. pc'[t] = "save" => refs[t] \subseteq blobs'
      <4> SUFFICES ASSUME pc'[t] = "save" PROVE refs[t] \subseteq blobs'
        OBVIOUS
      <4>1. ImportBlobs(t)
        BY <1>2
      <4>2. pc' # [pc EXCEPT ![t] = "failed"]
        BY DEF TypeOK, ControlTypes
      <4> QED
        BY <4>1, <4>2 DEF ImportBlobs, Goto
    <3> QED
      BY <1>1, <1>3, <2>3, <3>1 DEF SaveInv
  <2> QED
    BY <2>1, <2>2, <2>3, Frames DEF EntityStep, SaveCapture, ImportCapture, SaveRedacted, ImportBlobs,
         ReadDiagnostic, SaveAnalysis, local
<1>5. \A s \in Tasks : captures'[s] # NoFile => captures'[s].refs \subseteq blobs'
  <2>1. CASE SaveCapture(t) \/ ImportCapture(t) \/ SaveRedacted(t)
    <3>1. PICK id \in Tasks, v \in Entities :
            captures' = [captures EXCEPT ![id] = v] /\ v.refs \subseteq blobs
      BY <2>1, SaveWrites
    <3> QED
      BY <1>3, <1>t, <3>1 DEF SaveInv
  <2>2. CASE captures' = captures
    BY <1>3, <2>2 DEF SaveInv
  <2> QED
    BY <2>1, <2>2, Frames DEF EntityStep, PutBlob, ReadBundle, ImportBlobs, ReadDiagnostic, SaveAnalysis, files
<1>6. \A s \in Tasks : pc'[s] = "captures" =>
        captures'[s] # NoFile \/ (names'[s] # <<>> /\ Head(names'[s]) = s)
  <2>1. \A s \in Tasks : s # t => names'[s] = names[s]
    BY <1>t, Frames DEF EntityStep, PutBlob, SaveCapture, ImportCapture, ReadBundle, ImportBlobs,
       ReadDiagnostic, SaveRedacted, SaveAnalysis, local
  <2>2. CASE ReadDiagnostic(t)
    <3>1. PICK bad \in Tasks : names' = [names EXCEPT ![t] = <<t, bad>>]
      BY <2>2 DEF ReadDiagnostic
    <3>2. names'[t] # <<>> /\ Head(names'[t]) = t
      BY <1>t, <3>1
    <3> QED
      BY <1>1, <1>3, <2>1, <3>2 DEF SaveInv
  <2>3. CASE SaveRedacted(t)
    <3>1. pc[t] = "captures"
      BY <2>3 DEF SaveRedacted, At
    <3>2. CASE captures[t] # NoFile
      BY <1>1, <1>3, <2>1, <3>2 DEF SaveInv
    <3>3. CASE captures[t] = NoFile
      <4>1. Head(names[t]) = t
        BY <3>1, <3>3 DEF SaveInv
      <4>2. PICK v \in Entities : captures' = [captures EXCEPT ![t] = v]
        BY <2>3, <4>1, SaveWrites
      <4>3. captures'[t] # NoFile
        BY <1>t, <4>2
      <4> QED
        BY <1>1, <1>3, <2>1, <4>3 DEF SaveInv
    <3> QED
      BY <3>2, <3>3
  <2>4. CASE pc'[t] # "captures"
    BY <1>1, <1>3, <2>1, <2>4 DEF SaveInv
  <2> QED
    BY <1>2, <2>2, <2>3, <2>4
<1>7. \A s \in Tasks : pc'[s] \in {"audit", "append"} => Saved(s)'
  <2>1. CASE SaveCapture(t) \/ ImportCapture(t)
    <3>1. PICK v \in Entities : captures' = [captures EXCEPT ![t] = v]
      BY <2>1, SaveWrites
    <3>2. captures'[t] # NoFile /\ kind[t] # "diagnostic"
      BY <1>t, <2>1, <3>1 DEF SaveCapture, ImportCapture, At
    <3>3. Saved(t)'
      BY <1>1, <3>2 DEF Saved
    <3> QED
      BY <1>1, <1>3, <3>3 DEF SaveInv
  <2>2. CASE SaveAnalysis(t)
    <3>1. captures[t] # NoFile /\ captures' = captures /\ t \in analyses'
      BY <2>2 DEF SaveAnalysis, SaveInv, At
    <3>2. Saved(t)'
      BY <3>1 DEF Saved
    <3> QED
      BY <1>1, <1>3, <3>2 DEF SaveInv
  <2>3. CASE ReadLast(t)
    <3>1. pc[t] = "audit"
      BY <2>3 DEF ReadLast
    <3> QED
      BY <1>1, <1>3, <3>1 DEF SaveInv
  <2>4. CASE pc'[t] \notin {"audit", "append"}
    BY <1>1, <1>3, <2>4 DEF SaveInv
  <2> QED
    BY <1>2, <2>1, <2>2, <2>3, <2>4
<1>8. ASSUME NEW i \in DOMAIN log', log'[i] # Garbage
      PROVE  /\ captures'[Last(log'[i])] # NoFile
             /\ kind'[Last(log'[i])] = "diagnostic" => Last(log'[i]) \in analyses'
  <2>1. CASE i \in DOMAIN log /\ log'[i] = log[i]
    <3>1. log[i] \in Seq(Tasks) /\ log[i] # <<>>
      BY <1>8, <2>1 DEF TypeOK, LogTypes, Lines
    <3>2. Last(log[i]) \in Tasks
      BY <3>1 DEF Last
    <3>3. Saved(Last(log[i]))
      BY <1>8, <2>1 DEF SaveInv
    <3> DEFINE e == Last(log[i])
    <3>4. e \in Tasks /\ Saved(e)
      BY <3>2, <3>3
    <3>5. e = Last(log'[i])
      BY <2>1
    <3> HIDE DEF e
    <3>6. captures'[e] # NoFile /\ (kind'[e] = "diagnostic" => e \in analyses')
      BY <3>4, <1>3 DEF Saved
    <3> QED
      BY <3>5, <3>6 DEF Saved
  <2>2. CASE pc[t] = "append" /\ log'[i] = Append(seen[t], t)
    <3>1. Last(log'[i]) = t
      BY <2>2, LineOf DEF TypeOK, LogTypes
    <3>2. Saved(t)'
      BY <1>3, <2>2 DEF SaveInv
    <3> QED
      BY <3>1, <3>2 DEF Saved
  <2> QED
    BY <1>8, <2>1, <2>2, NewLines
<1>9. (\A i \in DOMAIN log : log[i] # Garbage => Saved(Last(log[i])))'
  BY <1>8 DEF Saved
<1> QED
  BY <1>4, <1>5, <1>6, <1>7, <1>9 DEF SaveInv

-----------------------------------------------------------------------------
(* The mutex and the log.                                                  *)

\* The mutex, and overlap, tell who is inside the append.
LEMMA MutexInvNext ==
    ASSUME TypeOK, MutexInv, NEW t \in Tasks, Step(t)
    PROVE  MutexInv'
<1>1. \A s \in Tasks : s # t => pc'[s] = pc[s]
  BY Moves DEF TypeOK
<1>2. pc'[t] = "append" => ReadLast(t)
  BY Arrivals DEF TypeOK
<1>t. /\ pc \in [Tasks -> Pcs] /\ mutex \in [Processes -> Tasks \union {None}]
      /\ \A s \in Tasks : Process[s] \in Processes /\ s # None
  BY DataStoreAssumption DEF TypeOK, ControlTypes, Processes
<1>3. CASE ReadLast(t) /\ Garbage \notin Range(log)
  <2>1. /\ pc' = [pc EXCEPT ![t] = "append"]
        /\ mutex' = [mutex EXCEPT ![Process[t]] = t]
        /\ mutex[Process[t]] = None
        /\ overlap' = (overlap \/ \E p \in DOMAIN mutex : Appending(p))
    BY <1>3 DEF ReadLast, Goto, Unlocked
  <2>2. \A s \in Tasks : pc'[s] = "append" <=> mutex'[Process[s]] = s
    BY <1>t, <2>1 DEF MutexInv
  <2>3. ASSUME ~overlap', NEW s \in Tasks, pc'[s] = "append"
        PROVE  s = t
    <3>1. \A p \in Processes : mutex[p] = None
      BY <1>t, <2>1, <2>3 DEF Appending
    <3> QED
      BY <1>t, <1>1, <2>3, <3>1 DEF MutexInv
  <2> QED
    BY <2>2, <2>3 DEF MutexInv
<1>4. CASE WriteLine(t) \/ WriteCut(t) \/ Fail(t)
  <2>1. /\ overlap' = overlap
        /\ pc'[t] # "append"
        /\ \A s \in Tasks : mutex'[Process[s]] =
             IF Process[s] = Process[t] /\ mutex[Process[s]] = t THEN None ELSE mutex[Process[s]]
    <3>1. CASE WriteLine(t) \/ WriteCut(t)
      <4>1. mutex[Process[t]] = t
        BY <3>1 DEF WriteLine, WriteCut, MutexInv
      <4>2. mutex' = [mutex EXCEPT ![Process[t]] = None] /\ overlap' = overlap
        BY <3>1 DEF WriteLine, WriteCut, history
      <4>3. pc'[t] # "append"
        BY <3>1, <1>2, <1>t DEF WriteLine, WriteCut, ReadLast
      <4> QED
        BY <1>t, <4>1, <4>2, <4>3
    <3>2. CASE Fail(t)
      BY <3>2, <1>t DEF Fail, Goto, history
    <3> QED
      BY <1>4, <3>1, <3>2
  <2> QED
    BY <1>1, <1>t, <2>1 DEF MutexInv
<1>5. CASE UNCHANGED <<mutex, overlap>> /\ pc'[t] # "append" /\ pc[t] # "append"
  BY <1>1, <1>5 DEF MutexInv
<1>6. ReadLast(t) /\ Garbage \in Range(log) => UNCHANGED <<mutex, overlap>> /\ pc'[t] # "append" /\ pc[t] # "append"
  BY <1>t DEF ReadLast, Goto
<1>7. KeyStep(t) \/ EntityStep(t) \/ RunCommand(t) => pc[t] # "append"
  BY DEF KeyStep, EntityStep, ReadKey, CreateKey, WriteKey, ReadSigningKey, WritePrivate, WritePublic,
         PutBlob, SaveCapture, ReadBundle, ImportBlobs, ImportCapture, ReadDiagnostic, SaveRedacted,
         SaveAnalysis, RunCommand, At
<1> QED
  BY <1>2, <1>3, <1>4, <1>5, <1>6, <1>7, Frames DEF Step, KeyStep, EntityStep, LogStep

\* The steps that leave the log alone.
LEMMA LogInvQuiet ==
    ASSUME TypeOK, LogInv, NEW t \in Tasks, Step(t),
           UNCHANGED <<log, ended, seen, cuts, overlap>>,
           pc'[t] # "append",
           pc'[t] = "done" => kind[t] = "certificate"
    PROVE  LogInv'
<1>1. kind' = kind /\ \A s \in Tasks : s # t => pc'[s] = pc[s]
  BY Frames, Moves DEF TypeOK
<1>2. VerifyAudit' = VerifyAudit /\ LastHash' = LastHash
  BY DEF VerifyAudit, LastHash
<1>3. Acked => Acked'
  BY <1>1 DEF Acked, Logged
<1> QED
  BY <1>1, <1>2, <1>3 DEF LogInv

\* The chain, and what a cut write does to it.
LEMMA LogInvNext ==
    ASSUME TypeOK, PcInv, MutexInv, LogInv, NEW t \in Tasks, Step(t)
    PROVE  LogInv'
<1>1. kind' = kind /\ \A s \in Tasks : s # t => pc'[s] = pc[s]
  BY Frames, Moves DEF TypeOK
<1>t. /\ pc \in [Tasks -> Pcs] /\ log \in Seq(Lines) /\ seen \in [Tasks -> Seq(Tasks)]
      /\ mutex \in [Processes -> Tasks \union {None}]
      /\ cuts \subseteq {"torn", "bare"} /\ overlap \in BOOLEAN /\ ended \in BOOLEAN
      /\ \A s \in Tasks : Process[s] \in Processes /\ s # None
  BY DataStoreAssumption DEF TypeOK, ControlTypes, LogTypes, Processes
<1>l. Append(seen[t], t) \in Lines /\ Append(seen[t], t) # Garbage
      /\ Last(Append(seen[t], t)) = t /\ Front(Append(seen[t], t)) = seen[t] /\ Garbage \in Lines
  BY <1>t, LineOf DEF Lines
<1>e. ~ended => log # <<>>
  BY DEF LogInv
<1>2. CASE ReadLast(t) /\ Garbage \in Range(log)
  <2>1. UNCHANGED <<log, ended, seen, cuts, overlap>> /\ pc'[t] = "failed"
    BY <1>2, <1>t DEF ReadLast, Goto, files
  <2> QED
    BY <2>1, LogInvQuiet
<1>3. CASE ReadLast(t) /\ Garbage \notin Range(log)
  <2>1. /\ UNCHANGED <<log, ended, cuts>>
        /\ pc' = [pc EXCEPT ![t] = "append"]
        /\ seen' = [seen EXCEPT ![t] = LastHash]
        /\ overlap' = (overlap \/ \E p \in DOMAIN mutex : Appending(p))
    BY <1>3 DEF ReadLast, Goto, files, LastHash
  <2>2. VerifyAudit' = VerifyAudit /\ LastHash' = LastHash
    BY <2>1 DEF VerifyAudit, LastHash
  <2>3. Acked => Acked'
    BY <1>1, <1>t, <2>1 DEF Acked, Logged
  <2>4. \A i \in DOMAIN log : log[i] # Garbage
    BY <1>3 DEF Range
  <2> QED
    BY <1>1, <1>t, <2>1, <2>2, <2>3, <2>4 DEF LogInv
<1>4. CASE WriteLine(t)
  <2>1. /\ log' = Extended(Append(seen[t], t)) /\ ended' = TRUE
        /\ UNCHANGED <<seen, cuts, overlap>> /\ pc[t] = "append"
        /\ pc'[t] # "append"
    BY <1>4, <1>t DEF WriteLine, local, history, Goto
  <2>2. log' # <<>>
    BY <2>1, <1>e, <1>l, ExtendedLog DEF TypeOK
  <2>3. CASE cuts = {}
    <3>1. /\ ended /\ Acked
          /\ log' = Append(log, Append(seen[t], t))
      BY <2>1, <2>3 DEF LogInv, Extended
    <3>2. /\ Len(log') = Len(log) + 1 /\ DOMAIN log' = 1..(Len(log) + 1) /\ DOMAIN log = 1..Len(log)
          /\ Len(log) \in Nat
          /\ log'[Len(log) + 1] = Append(seen[t], t)
          /\ \A i \in DOMAIN log : log'[i] = log[i]
      BY <1>t, <1>l, <3>1
    <3>3. Acked'
      BY <1>1, <1>l, <3>1, <3>2 DEF Acked, Logged
    <3>4. ASSUME ~overlap PROVE VerifyAudit' /\ \A s \in Tasks : pc'[s] # "append"
      <4>1. VerifyAudit /\ seen[t] = LastHash
        BY <2>1, <2>3, <3>4 DEF LogInv
      <4>2. \A s \in Tasks : pc'[s] # "append"
        BY <1>1, <2>1, <3>4 DEF MutexInv
      <4>3. LastHash = IF Len(log) = 0 THEN <<>> ELSE log[Len(log)]
        BY <1>t DEF LastHash, Last
      <4>4. \A i \in 1..(Len(log) + 1) : /\ log'[i] # Garbage
                                         /\ Front(log'[i]) = IF i = 1 THEN <<>> ELSE log'[i - 1]
        <5> SUFFICES ASSUME NEW i \in 1..(Len(log) + 1)
                     PROVE  /\ log'[i] # Garbage
                            /\ Front(log'[i]) = IF i = 1 THEN <<>> ELSE log'[i - 1]
          OBVIOUS
        <5>1. CASE i = Len(log) + 1
          <6>1. log'[i] # Garbage /\ Front(log'[i]) = LastHash
            BY <1>l, <3>2, <4>1, <5>1
          <6>2. LastHash = IF i = 1 THEN <<>> ELSE log'[i - 1]
            BY <3>2, <4>3, <5>1
          <6> QED
            BY <6>1, <6>2
        <5>2. CASE i \in 1..Len(log)
          <6>1. log[i] # Garbage /\ Front(log[i]) = IF i = 1 THEN <<>> ELSE log[i - 1]
            BY <3>2, <4>1, <5>2 DEF VerifyAudit
          <6>2. log'[i] = log[i] /\ (i # 1 => log'[i - 1] = log[i - 1])
            BY <3>2, <5>2
          <6> QED
            BY <6>1, <6>2
        <5> QED
          BY <3>2, <5>1, <5>2
      <4> QED
        BY <3>2, <4>2, <4>4 DEF VerifyAudit
    <3> QED
      BY <2>1, <2>2, <2>3, <3>3, <3>4 DEF LogInv
  <2>4. CASE cuts # {}
    <3>1. cuts = {"torn"} => overlap
      BY <2>1 DEF LogInv
    <3> QED
      BY <2>1, <2>2, <2>4, <3>1 DEF LogInv
  <2> QED
    BY <2>3, <2>4
<1>5. CASE WriteCut(t)
  <2>1. PICK c \in {"torn", "bare"} :
          /\ log' = Extended(IF c = "torn" THEN Garbage ELSE Append(seen[t], t))
          /\ cuts' = cuts \union {c}
    BY <1>5 DEF WriteCut
  <2>2. /\ UNCHANGED <<seen, overlap>> /\ pc[t] = "append" /\ pc'[t] = "failed"
    BY <1>5, <1>t DEF WriteCut, local, Goto
  <2>3. log' # <<>>
    BY <2>1, <1>e, <1>l, ExtendedLog DEF TypeOK
  <2>4. CASE cuts' = {"torn"} /\ ~overlap
    <3>1. c = "torn"
      BY <2>1, <2>4
    <3>2. cuts = {}
      <4>1. cuts = {} \/ cuts = {"torn"}
        BY <1>t, <2>1, <2>4
      <4> QED
        BY <2>2, <2>4, <4>1 DEF LogInv
    <3>3. ended /\ Acked /\ log' = Append(log, Garbage)
      BY <2>1, <3>1, <3>2 DEF LogInv, Extended
    <3>4. /\ Len(log) + 1 \in DOMAIN log' /\ log'[Len(log) + 1] = Garbage
          /\ \A i \in DOMAIN log : i \in DOMAIN log' /\ log'[i] = log[i]
      BY <1>t, <1>l, <3>3
    <3>5. Acked'
      BY <1>1, <2>2, <3>3, <3>4 DEF Acked, Logged
    <3>6. \A s \in Tasks : pc'[s] # "append"
      BY <1>1, <2>2, <2>4 DEF MutexInv
    <3> QED
      BY <2>1, <2>3, <2>4, <3>1, <3>4, <3>5, <3>6 DEF LogInv
  <2>5. CASE ~(cuts' = {"torn"} /\ ~overlap)
    BY <2>1, <2>2, <2>3, <2>5 DEF LogInv
  <2> QED
    BY <2>4, <2>5
<1>6. CASE ~LogStep(t)
  <2>1. pc'[t] # "append" /\ (pc'[t] = "done" => kind[t] = "certificate")
    BY <1>6, Arrivals DEF TypeOK, LogStep, ReadSigningKey, WritePublic, At
  <2> QED
    BY <1>6, <2>1, Frames, LogInvQuiet
<1> QED
  BY <1>2, <1>3, <1>4, <1>5, <1>6 DEF LogStep

-----------------------------------------------------------------------------
(* The invariant and what follows from it.                                 *)

\* The empty data directory.
LEMMA StoreInvInit == ASSUME Init PROVE StoreInv
<1>1. /\ pc \in [Tasks -> Pcs] /\ \A t \in Tasks : pc[t] \in {"start", "failed"}
  BY DEF Init, Pcs, Ended
<1>2. ControlTypes
  BY <1>1 DEF Init, ControlTypes, Processes
<1>3. KeyTypes
  BY FS_EmptySet DEF Init, KeyTypes
<1>4. EntityTypes
  BY DEF Init, EntityTypes
<1>5. LogTypes
  <2>1. log \in Seq(Lines) /\ seen \in [Tasks -> Seq(Tasks)]
    BY DEF Init
  <2>2. ended \in BOOLEAN /\ overlap \in BOOLEAN /\ cuts \subseteq {"torn", "bare"}
    BY DEF Init
  <2> QED
    BY <2>1, <2>2 DEF LogTypes
<1>6. PcInv
  BY <1>1 DEF PcInv
<1>7. KeyInv
  BY <1>1, DataStoreAssumption DEF Init, KeyInv, FingerprintsAgree
<1>8. SignInv
  BY <1>1 DEF Init, SignInv
<1>9. SaveInv
  BY <1>1 DEF Init, SaveInv
<1>10. MutexInv
  <2>1. \A t \in Tasks : mutex[Process[t]] = None /\ t # None
    BY DataStoreAssumption DEF Init
  <2> QED
    BY <1>1, <2>1 DEF MutexInv
<1>11. LogInv
  <2>1. log = <<>> /\ ended /\ cuts = {}
    BY DEF Init
  <2> QED
    BY <1>1, <2>1 DEF LogInv, VerifyAudit, Acked
<1> QED
  BY <1>2, <1>3, <1>4, <1>5, <1>6, <1>7, <1>8, <1>9, <1>10, <1>11 DEF StoreInv, TypeOK

\* Every step of every task.
LEMMA StoreInvNext == ASSUME StoreInv, [Next]_vars PROVE StoreInv'
<1>1. CASE Next
  <2>1. PICK t \in Tasks : Step(t)
    BY <1>1 DEF Next, Step
  <2> QED
    BY <2>1, TypesNext, PcInvNext, KeyInvNext, SignInvNext, SaveInvNext, MutexInvNext, LogInvNext
       DEF StoreInv, TypeOK
<1>2. CASE UNCHANGED vars
  BY <1>2 DEF vars, files, local, history, StoreInv, TypeOK, ControlTypes, KeyTypes, EntityTypes, LogTypes,
       PcInv, KeyInv, FingerprintsAgree, SignInv, SaveInv, Saved, MutexInv, LogInv, Acked, Logged, VerifyAudit,
       LastHash
<1> QED
  BY <1>1, <1>2

\* The invariant holds for any number of tasks and processes: types, who wrote
\* which key, what is on disk before an event names it, who is in the append.
THEOREM StoreInvariant == Spec => []StoreInv
BY StoreInvInit, StoreInvNext, PTL DEF Spec

\* An event of the log that can be read.
LEMMA ReadableLogged == ASSUME TypeOK PROVE \A t \in Tasks : t \in Readable <=> Logged(t)
BY DEF Readable, Logged, Range

\* The events of the log are events of tasks.
LEMMA ReadableTasks == ASSUME TypeOK, NEW t \in Readable PROVE t \in Tasks /\ Logged(t)
<1>1. PICK i \in DOMAIN log : log[i] # Garbage /\ t = Last(log[i])
  BY DEF Readable, Range
<1>2. log[i] \in Seq(Tasks) /\ log[i] # <<>>
  BY <1>1 DEF TypeOK, LogTypes, Lines
<1> QED
  BY <1>1, <1>2 DEF Last, Logged

\* AuditedIsComplete for any number of tasks: SaveCapture, ImportBundle and
\* ImportDiagnostic write what an event names before AppendAudit writes the event.
THEOREM CompleteAudit == Spec => []AuditedIsComplete
<1>1. StoreInv => AuditedIsComplete
  BY ReadableTasks DEF StoreInv, SaveInv, Saved, Logged, AuditedIsComplete, Exported
<1> QED
  BY <1>1, StoreInvariant, PTL

\* AckedReadable for any number of tasks: the event AppendAudit acknowledged is a
\* line of events.jsonl that lastAudit parses.
THEOREM AckedEvents == Spec => []AckedReadable
<1>1. StoreInv => AckedReadable
  BY ReadableLogged DEF StoreInv, LogInv, Acked, AckedReadable
<1> QED
  BY <1>1, StoreInvariant, PTL

\* ChainHolds for any number of tasks: the mutex around appendAuditLocked keeps
\* the hash chain that VerifyAudit checks.
THEOREM ChainKept == Spec => []ChainHolds
<1>1. StoreInv => ChainHolds
  BY DEF StoreInv, LogInv, ChainHolds
<1> QED
  BY <1>1, StoreInvariant, PTL

\* FingerprintsAgree for any number of captures racing in
\* loadOrCreateRedactionKey, in any number of processes.
THEOREM OneRedactionKey == Spec => []FingerprintsAgree
<1>1. StoreInv => FingerprintsAgree
  BY DEF StoreInv, KeyInv
<1> QED
  BY <1>1, StoreInvariant, PTL

\* SigningKeyAgrees for any number of certificates: with one signer, its key is
\* the key of every certificate and of the public key file.
THEOREM CertificatesVerify == Spec => []SigningKeyAgrees
<1>1. ASSUME StoreInv, Cardinality(signers) <= 1, \A t \in signers : pc[t] = "done",
             NEW t \in Tasks, kind[t] = "certificate", pc[t] = "done"
      PROVE  CertificateVerified(t)
  <2>1. \A x, y \in signers : x = y
    <3> SUFFICES ASSUME NEW x \in signers, NEW y \in signers, x # y PROVE FALSE
      OBVIOUS
    <3>1. IsFiniteSet(signers)
      BY <1>1 DEF StoreInv, TypeOK, KeyTypes
    <3>2. /\ IsFiniteSet({x}) /\ Cardinality({x}) = 1
      BY FS_Singleton
    <3>3. Cardinality({x} \union {y}) = 2
      BY <3>2, FS_AddElement
    <3>4. Cardinality({x} \union {y}) <= Cardinality(signers)
      BY <3>1, FS_Subset
    <3>5. Cardinality(signers) \in Nat
      BY ONLY <3>1, FS_CardinalityType
    <3>6. Cardinality(signers) <= 1
      BY <1>1
    <3> QED
      BY ONLY <3>3, <3>4, <3>5, <3>6
  <2>2. key[t] \in signers /\ pc[key[t]] = "done"
    BY <1>1 DEF StoreInv, SignInv
  <2>3. public # NoFile /\ public \in signers
    BY <1>1, <2>2 DEF StoreInv, SignInv
  <2> QED
    BY <2>1, <2>2, <2>3 DEF CertificateVerified
<1>2. StoreInv => SigningKeyAgrees
  BY <1>1 DEF SigningKeyAgrees
<1> QED
  BY <1>2, StoreInvariant, PTL
=============================================================================
