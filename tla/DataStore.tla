------------------------------ MODULE DataStore ------------------------------
(***************************************************************************)
(* The data directory of the command line and the daemon, and the tasks    *)
(* that write it: a capture (internal/capture/capture.go), the import of a *)
(* capture bundle (internal/artifact/bundle.go) or of a diagnostic bundle  *)
(* (diagnostic.go), and the signing of a certificate (certificate.go).     *)
(* Analyses, jobs and the experiment cache are in Engine and JobQueue.     *)
(*                                                                         *)
(* The tasks of one process share a Store and its mutex, which is all that *)
(* serialises them; the daemon and a command line share only the files.    *)
(* Entity and blob files are replaced whole (writeFileAtomic) and never    *)
(* removed.  A task may end after any of its steps, by an error or because *)
(* its process died, and a write that is cut leaves a part of itself where *)
(* the file is not replaced by a rename.                                   *)
(*                                                                         *)
(* A task stands for the identifier of the capture it makes, for the keys  *)
(* it generates and for its audit event.  A hash is the sequence of events *)
(* it commits to, and a line of events.jsonl is its hash, or Garbage when  *)
(* it cannot be parsed.                                                    *)
(***************************************************************************)
EXTENDS Integers, FiniteSets, Sequences, SequencesExt

CONSTANTS
    Tasks,
    Process,    \* [Tasks -> processes]
    Daemon,     \* the process of the daemon, which only captures
    Blobs,      \* file contents
    MaxActive,  \* bound on the tasks of one behaviour
    NoFile,     \* a file that is not there
    Short,      \* a redaction key of less than 32 bytes
    Garbage,    \* a line json.Unmarshal refuses
    None

Kinds == {"capture", "bundle", "diagnostic", "certificate"}

ASSUME DataStoreAssumption ==
    /\ {NoFile, Short, None} \intersect Tasks = {}
    /\ NoFile \notin [of : Tasks, whole : BOOLEAN]
    /\ NoFile \notin [refs : SUBSET Blobs, key : Tasks \union {Short, None}, redacted : BOOLEAN]
    /\ Garbage \notin Seq(Tasks)
    /\ MaxActive \in Nat

VARIABLES
    kind,       \* input: what each task does
    pc,
    mutex,      \* process -> the task inside appendAuditLocked
    redaction,  \* keys/redaction_hmac.key: whose key, and whether all of it
    private,    \* keys/causal_ed25519_private.pem
    public,     \* keys/causal_ed25519_public.pem
    blobs,      \* blobs/sha256
    captures,   \* captures/*.json
    analyses,   \* analyses/*.json that a diagnostic bundle brought
    log,        \* audit/events.jsonl
    ended,      \* whether its last line has its newline
    key,        \* the key a capture or a certificate uses
    refs,       \* the blobs the capture's manifest, or the bundle, names
    names,      \* the captures a diagnostic bundle has still to save
    seen,       \* the last hash a task found in the log
    cuts,       \* history: what writes that were cut left behind
    overlap,    \* history: two processes were inside an append at once
    signers     \* history: the tasks that wrote the private key

files == <<redaction, private, public, blobs, captures, analyses, log, ended>>
local == <<key, refs, names, seen>>
history == <<cuts, overlap, signers>>
vars == <<kind, pc, mutex, files, local, history>>

Redacted == [refs |-> {}, key |-> None, redacted |-> TRUE]
Ended == {"done", "failed"}

Init ==
    /\ kind \in [Tasks -> Kinds]
    /\ \A t \in Tasks : Process[t] = Daemon => kind[t] = "capture"
    /\ \E S \in SUBSET Tasks :
         /\ Cardinality(S) = MaxActive
         /\ \A t \in Tasks \ S : kind[t] = "capture"
         /\ pc = [t \in Tasks |-> IF t \in S THEN "start" ELSE "failed"]
    /\ mutex = [p \in {Process[t] : t \in Tasks} |-> None]
    /\ redaction = NoFile /\ private = NoFile /\ public = NoFile
    /\ blobs = {} /\ captures = [t \in Tasks |-> NoFile] /\ analyses = {}
    /\ log = <<>> /\ ended = TRUE
    /\ key = [t \in Tasks |-> None] /\ refs = [t \in Tasks |-> {}]
    /\ names = [t \in Tasks |-> <<>>] /\ seen = [t \in Tasks |-> <<>>]
    /\ cuts = {} /\ overlap = FALSE /\ signers = {}

At(t, k, p) == kind[t] = k /\ pc[t] = p
Goto(t, p) == pc' = [pc EXCEPT ![t] = p]

\* The store's operations take the mutex of their process.
Unlocked(t) == mutex[Process[t]] = None

-----------------------------------------------------------------------------
(* loadOrCreateRedactionKey.                                               *)

ReadKey(t) ==
    /\ At(t, "capture", "start")
    /\ \/ redaction = NoFile /\ Goto(t, "create") /\ UNCHANGED key
       \/ /\ redaction # NoFile /\ redaction.whole
          /\ key' = [key EXCEPT ![t] = redaction.of]
          /\ Goto(t, "before")
       \/ /\ redaction # NoFile /\ ~redaction.whole   \* "redaction key is too short"
          /\ Goto(t, "failed") /\ UNCHANGED key
    /\ UNCHANGED <<kind, mutex, files, refs, names, seen, history>>

\* The file opened without O_EXCL.
CreateKeyAnyway(t) ==
    /\ At(t, "capture", "create")
    /\ redaction' = [of |-> t, whole |-> FALSE] /\ Goto(t, "write")
    /\ UNCHANGED <<kind, mutex, private, public, blobs, captures, analyses, log, ended,
                   local, history>>

\* O_EXCL has one winner; a loser takes what the file holds by then.
CreateKey(t) ==
    /\ At(t, "capture", "create")
    /\ IF redaction = NoFile
       THEN /\ redaction' = [of |-> t, whole |-> FALSE]
            /\ Goto(t, "write") /\ UNCHANGED key
       ELSE /\ key' = [key EXCEPT ![t] = IF redaction.whole THEN redaction.of ELSE Short]
            /\ Goto(t, "before") /\ UNCHANGED redaction
    /\ UNCHANGED <<kind, mutex, private, public, blobs, captures, analyses, log, ended,
                   refs, names, seen, history>>

\* The bytes are written; the sync or the close may still fail.
WriteKey(t) ==
    /\ At(t, "capture", "write")
    /\ redaction' = [of |-> t, whole |-> TRUE]
    /\ key' = [key EXCEPT ![t] = t]
    /\ Goto(t, "before") \/ Goto(t, "failed")
    /\ UNCHANGED <<kind, mutex, private, public, blobs, captures, analyses, log, ended,
                   refs, names, seen, history>>

-----------------------------------------------------------------------------
(* PutBlob and SaveCapture.                                                *)

\* A blob whose write failed is listed all the same.
PutBlobIgnored(t, b) ==
    /\ pc[t] \in {"before", "after"} /\ Unlocked(t)
    /\ blobs' \in {blobs, blobs \union {b}}
    /\ refs' = [refs EXCEPT ![t] = IF pc[t] = "after" THEN @ \union {b} ELSE @]
    /\ UNCHANGED <<kind, pc, mutex, redaction, private, public, captures, analyses, log, ended,
                   key, names, seen, history>>

\* A scan stores the content of one more file; the manifest of the second scan
\* is the one the capture is compared by.
PutBlob(t, b) ==
    /\ pc[t] \in {"before", "after"} /\ Unlocked(t)
    /\ blobs' = blobs \union {b}
    /\ refs' = [refs EXCEPT ![t] = IF pc[t] = "after" THEN @ \union {b} ELSE @]
    /\ UNCHANGED <<kind, pc, mutex, redaction, private, public, captures, analyses, log, ended,
                   key, names, seen, history>>

\* The first scan is over and the command has run, whatever came of it.
RunCommand(t) ==
    /\ At(t, "capture", "before")
    /\ Goto(t, "after")
    /\ UNCHANGED <<kind, mutex, files, local, history>>

\* saveEntity: the file of capture id is replaced, if there was one.
Save(t, id, value, next) ==
    /\ Unlocked(t)
    /\ captures' = [captures EXCEPT ![id] = value]
    /\ Goto(t, next)
    /\ UNCHANGED <<kind, mutex, redaction, private, public, blobs, analyses, log, ended, history>>

SaveCapture(t) ==
    /\ At(t, "capture", "after")
    /\ Save(t, t, [refs |-> refs[t], key |-> key[t], redacted |-> FALSE], "audit")
    /\ UNCHANGED local

-----------------------------------------------------------------------------
(* ImportBundle: everything is validated, then the blobs, the capture and  *)
(* the audit event are written.                                            *)

\* A bundle as ExportCapture writes it declares every blob of the capture.
ReadBundle(t) ==
    /\ At(t, "bundle", "start")
    /\ \E S \in SUBSET Blobs : refs' = [refs EXCEPT ![t] = S]
    /\ Goto(t, "blobs")
    /\ UNCHANGED <<kind, mutex, files, key, names, seen, history>>

\* The declared blobs, in their order; the first error ends the import.
ImportBlobs(t) ==
    /\ At(t, "bundle", "blobs") /\ Unlocked(t)
    /\ \/ /\ blobs' = blobs \union refs[t] /\ Goto(t, "save")
       \/ /\ \E S \in SUBSET refs[t] : blobs' = blobs \union S
          /\ Goto(t, "failed")
    /\ UNCHANGED <<kind, mutex, redaction, private, public, captures, analyses, log, ended,
                   local, history>>

ImportCapture(t) ==
    /\ At(t, "bundle", "save")
    /\ Save(t, t, [refs |-> refs[t], key |-> None, redacted |-> FALSE], "audit")
    /\ UNCHANGED local

-----------------------------------------------------------------------------
(* ImportDiagnostic: both captures, the analysis, the audit event.  The    *)
(* captures in the bundle keep their identifiers and have lost their blobs.*)

\* The bundle comes from elsewhere or from this very store.
ReadDiagnostic(t) ==
    /\ At(t, "diagnostic", "start")
    /\ \E bad \in Tasks : names' = [names EXCEPT ![t] = <<t, bad>>]
    /\ Goto(t, "captures")
    /\ UNCHANGED <<kind, mutex, files, key, refs, seen, history>>

SaveRedacted(t) ==
    /\ At(t, "diagnostic", "captures")
    /\ names[t] # <<>>
    /\ Save(t, Head(names[t]), Redacted, "captures")
    /\ names' = [names EXCEPT ![t] = Tail(@)]
    /\ UNCHANGED <<key, refs, seen>>

SaveAnalysis(t) ==
    /\ At(t, "diagnostic", "captures") /\ Unlocked(t)
    /\ names[t] = <<>>
    /\ analyses' = analyses \union {t}
    /\ Goto(t, "audit")
    /\ UNCHANGED <<kind, mutex, redaction, private, public, blobs, captures, log, ended,
                   local, history>>

-----------------------------------------------------------------------------
(* AppendAudit.                                                            *)

Appending(p) == mutex[p] # None

\* AppendAudit without its lock.
ReadLastUnlocked(t) ==
    /\ pc[t] = "audit"
    /\ Garbage \notin Range(log)
    /\ seen' = [seen EXCEPT ![t] = IF log = <<>> THEN <<>> ELSE Last(log)]
    /\ Goto(t, "append") /\ mutex' = [mutex EXCEPT ![Process[t]] = t]
    /\ overlap' = (overlap \/ \E p \in DOMAIN mutex \ {Process[t]} : Appending(p))
    /\ UNCHANGED <<kind, files, key, refs, names, cuts, signers>>

\* lastAudit parses every line.
ReadLast(t) ==
    /\ pc[t] = "audit" /\ Unlocked(t)
    /\ IF Garbage \in Range(log)
       THEN Goto(t, "failed") /\ UNCHANGED <<mutex, seen, overlap>>
       ELSE /\ seen' = [seen EXCEPT ![t] = IF log = <<>> THEN <<>> ELSE Last(log)]
            /\ Goto(t, "append") /\ mutex' = [mutex EXCEPT ![Process[t]] = t]
            /\ overlap' = (overlap \/ \E p \in DOMAIN mutex : Appending(p))
    /\ UNCHANGED <<kind, files, key, refs, names, cuts, signers>>

\* What is written goes behind the last newline: after a line that has none,
\* the two are one line.
Extended(line) ==
    IF ended THEN Append(log, line) ELSE Append(Front(log), Garbage)

\* The line written with its newline, and synced or not.
WriteLine(t) ==
    /\ pc[t] = "append"
    /\ log' = Extended(Append(seen[t], t)) /\ ended' = TRUE
    /\ Goto(t, "done") \/ Goto(t, "failed")
    /\ mutex' = [mutex EXCEPT ![Process[t]] = None]
    /\ UNCHANGED <<kind, redaction, private, public, blobs, captures, analyses, local, history>>

\* The write is cut inside the line, or between it and its newline.
WriteCut(t) ==
    /\ pc[t] = "append"
    /\ \E c \in {"torn", "bare"} :
         /\ log' = Extended(IF c = "torn" THEN Garbage ELSE Append(seen[t], t))
         /\ cuts' = cuts \union {c}
    /\ ended' = FALSE
    /\ Goto(t, "failed")
    /\ mutex' = [mutex EXCEPT ![Process[t]] = None]
    /\ UNCHANGED <<kind, redaction, private, public, blobs, captures, analyses, local,
                   overlap, signers>>

-----------------------------------------------------------------------------
(* loadOrCreateSigningKey and the certificate.                             *)

ReadSigningKey(t) ==
    /\ At(t, "certificate", "start")
    /\ \/ /\ private # NoFile
          /\ key' = [key EXCEPT ![t] = private] /\ Goto(t, "done")
       \/ /\ private = NoFile
          /\ key' = [key EXCEPT ![t] = t] /\ Goto(t, "private")
    /\ UNCHANGED <<kind, mutex, files, refs, names, seen, history>>

WritePrivate(t) ==
    /\ At(t, "certificate", "private")
    /\ private' = t /\ signers' = signers \union {t}
    /\ Goto(t, "public")
    /\ UNCHANGED <<kind, mutex, redaction, public, blobs, captures, analyses, log, ended,
                   local, cuts, overlap>>

\* The public key not written when the file cannot be.
WritePublicIgnored(t) ==
    /\ At(t, "certificate", "public")
    /\ public' \in {public, t}
    /\ Goto(t, "done")
    /\ UNCHANGED <<kind, mutex, redaction, private, blobs, captures, analyses, log, ended,
                   local, history>>

\* The certificate is signed and returned after that.
WritePublic(t) ==
    /\ At(t, "certificate", "public")
    /\ public' = t
    /\ Goto(t, "done")
    /\ UNCHANGED <<kind, mutex, redaction, private, blobs, captures, analyses, log, ended,
                   local, history>>

-----------------------------------------------------------------------------
(* What readers of the store need, whenever they come.                     *)

\* ExportCapture succeeds: GetBlob finds every blob of the capture.
Exported(id) == captures[id] # NoFile /\ captures[id].refs \subseteq blobs

\* VerifyCertificate accepts the certificate of t for the public key file.
CertificateVerified(t) == public # NoFile /\ key[t] = public

-----------------------------------------------------------------------------
\* A task ends before its next step: an error, or the death of its process.
Fail(t) ==
    /\ pc[t] \notin Ended \union {"start"}
    /\ Goto(t, "failed")
    /\ mutex' = [mutex EXCEPT ![Process[t]] = IF @ = t THEN None ELSE @]
    /\ UNCHANGED <<kind, files, local, history>>

Next ==
    \E t \in Tasks :
      \/ ReadKey(t) \/ CreateKey(t) \/ WriteKey(t)
      \/ \E b \in Blobs : PutBlob(t, b)
      \/ RunCommand(t) \/ SaveCapture(t)
      \/ ReadBundle(t) \/ ImportBlobs(t) \/ ImportCapture(t)
      \/ ReadDiagnostic(t) \/ SaveRedacted(t) \/ SaveAnalysis(t)
      \/ ReadLast(t) \/ WriteLine(t) \/ WriteCut(t)
      \/ ReadSigningKey(t) \/ WritePrivate(t) \/ WritePublic(t)
      \/ Fail(t)

Spec == Init /\ [][Next]_vars
-----------------------------------------------------------------------------
(* Properties.                                                             *)

\* The events a reader of the log can still parse.
Readable == {Last(line) : line \in Range(log) \ {Garbage}}

\* The audit log never names what is not there: the capture or the analysis of
\* an event is saved, and every blob of a capture that no diagnostic bundle has
\* replaced by its redacted copy can be read, so that it can be exported and its
\* world rebuilt, however its task ended.
AuditedIsComplete ==
    /\ \A t \in Readable :
         /\ kind[t] = "diagnostic" => t \in analyses
         /\ captures[t] # NoFile
    /\ \A t \in Tasks : captures[t] # NoFile => Exported(t)

\* A task that was told its event was appended finds it in the log, through
\* failures and races: a torn line stops the log instead of swallowing what
\* comes after it.  Lost are only events written behind a line without its
\* newline, or behind a torn line by a process that had read the log before.
AckedReadable ==
    cuts = {} \/ (cuts = {"torn"} /\ ~overlap)
      => \A t \in Tasks : pc[t] = "done" /\ kind[t] # "certificate" => t \in Readable

\* What VerifyAudit reports.
VerifyAudit ==
    \A i \in DOMAIN log :
      /\ log[i] # Garbage
      /\ Front(log[i]) = IF i = 1 THEN <<>> ELSE log[i - 1]

\* The mutex of the store keeps the chain: whatever the workers of a process do,
\* and however processes take turns, the log verifies unless a write was cut or
\* two processes were inside an append at the same time.
ChainHolds == cuts = {} /\ ~overlap => VerifyAudit

\* The secrets of two captures of one store are fingerprinted with one key, the
\* one on disk, however many captures raced to create it, unless a loser of that
\* race read the file before the winner had written it.
FingerprintsAgree ==
    \A t \in Tasks :
      captures[t] # NoFile /\ captures[t].key \in Tasks
        => redaction = [of |-> captures[t].key, whole |-> TRUE]

\* A certificate carries the key of the public key file, so that a reader who
\* trusts that file accepts it, unless two tasks generated a key at once or the
\* one that did ended between the two files.
SigningKeyAgrees ==
    /\ Cardinality(signers) <= 1
    /\ \A t \in signers : pc[t] = "done"
    => \A t \in Tasks : kind[t] = "certificate" /\ pc[t] = "done" => CertificateVerified(t)
=============================================================================
