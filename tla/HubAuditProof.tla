---------------------------- MODULE HubAuditProof ----------------------------
(***************************************************************************)
(* HubAudit keeps AppendOnlyLog's promise, for every set of events, every  *)
(* segment size and every limit on segments and entries; and what the log  *)
(* is when it is open and when it can be opened, for every history of      *)
(* failures, stops and edits.                                              *)
(*                                                                         *)
(* The first invariant, LogInv, says how far the three copies of the head  *)
(* can be apart: the checkpoint's, the one in memory and the one last      *)
(* reported.  They are equal whenever an operation may begin, so the state *)
(* an operation prepares is at most one entry ahead; a checkpoint that is  *)
(* ahead of what was reported belongs to a process that has failed or      *)
(* stopped.  The second one, further down, follows the files as well.      *)
(***************************************************************************)
EXTENDS HubAudit, TLAPS, FiniteSetTheorems, WellFoundedInduction

Fields == {"anchor", "head", "segs"}

\* b is a, or a and one entry more.
OneAhead(a, b) == b = a \/ \E e \in Events : b = Append(a, e)

ShapeInv ==
    /\ DOMAIN mem = Fields /\ DOMAIN next = Fields
    /\ state = NoState \/ DOMAIN state = Fields
    /\ state.head \in Hashes /\ acked \in Hashes
    /\ pc \in {"idle", "commit", "remove"}
    /\ status \in {"stopped", "open"} /\ fault \in BOOLEAN

\* Nothing is under way in a process that stopped or failed.
IdleInv ==
    /\ status = "stopped" => pc = "idle" /\ ~fault
    /\ fault => pc = "idle"

HeadInv ==
    /\ pc = "idle" /\ status = "open" /\ ~fault => mem.head = state.head /\ acked = state.head
    /\ pc = "commit" => /\ mem.head = state.head /\ acked = state.head
                        /\ OneAhead(state.head, next.head)
    /\ pc = "remove" => mem.head = state.head
    /\ OneAhead(acked, state.head)

LogInv == ShapeInv /\ IdleInv /\ HeadInv

-----------------------------------------------------------------------------
(* Pruning and appending as the head sees them.                            *)

\* pruned moves the anchor and drops segments; the head stays.
LEMMA PrunedHead ==
    ASSUME NEW st, DOMAIN st = Fields, NEW old
    PROVE  DOMAIN Pruned(st, old).st = Fields /\ Pruned(st, old).st.head = st.head
  BY DEF Pruned, Dropped, Fields

\* The state Append prepares has the new entry's hash as its head.
LEMMA ExtendedHead ==
    ASSUME DOMAIN mem = Fields, NEW s, NEW h
    PROVE  DOMAIN Extended(s, h) = Fields /\ Extended(s, h).head = h
  BY DEF Extended, Fields

\* An entry that is appended to a hash gives a hash.
LEMMA OneAheadHash ==
    ASSUME NEW a \in Hashes, NEW b, OneAhead(a, b)
    PROVE  b \in Hashes
  BY DEF OneAhead, Hashes

-----------------------------------------------------------------------------
(* The invariant.                                                          *)

\* The heads of the two initial states.
LEMMA EmptyHead ==
    /\ DOMAIN Empty = Fields /\ Empty.head = <<>> /\ NoState.head = <<>>
    /\ <<>> \in Hashes
  BY DEF Empty, NoState, Fields, Hashes

\* A fresh log is its history.
LEMMA InitLogInv == Init => LogInv
<1> SUFFICES ASSUME Init PROVE LogInv
  OBVIOUS
<1>1. ShapeInv
  BY EmptyHead DEF Init, ShapeInv
<1>2. IdleInv
  BY DEF Init, IdleInv
<1>3. HeadInv
  BY EmptyHead DEF Init, HeadInv, OneAhead
<1> QED
  BY <1>1, <1>2, <1>3 DEF LogInv

\* An append keeps the open log equal to its history.
LEMMA AppendEntryLogInv ==
    ASSUME LogInv, NEW e \in Events, NEW old, AppendEntry(e, old)
    PROVE  LogInv'
<1> DEFINE h == Append(mem.head, e)
           p == Pruned(Extended(CurrentSegment(old), h), old)
<1>1. mem.head = state.head /\ acked = state.head /\ DOMAIN mem = Fields /\ ~fault /\ status = "open"
  BY DEF LogInv, ShapeInv, HeadInv, AppendEntry, Ready
<1>2. DOMAIN next' = Fields /\ next'.head = Append(state.head, e)
  <2>1. DOMAIN Extended(CurrentSegment(old), h) = Fields /\ Extended(CurrentSegment(old), h).head = h
    BY <1>1, ExtendedHead
  <2>2. DOMAIN p.st = Fields /\ p.st.head = h
    BY <2>1, PrunedHead
  <2>3. next' = p.st
    BY DEF AppendEntry
  <2> QED
    BY <2>2, <2>3, <1>1
<1>3. UNCHANGED <<state, mem, fault, status, acked>> /\ pc' = "commit"
  BY DEF AppendEntry, history
<1>4. ShapeInv'
  BY <1>2, <1>3 DEF LogInv, ShapeInv
<1>5. IdleInv'
  BY <1>1, <1>3 DEF IdleInv
<1>6. HeadInv'
  <2>1. OneAhead(state.head, next.head)'
    BY <1>2, <1>3 DEF OneAhead
  <2>2. OneAhead(acked, state.head)'
    BY <1>3 DEF LogInv, HeadInv, OneAhead
  <2> QED
    BY <1>1, <1>3, <2>1, <2>2 DEF HeadInv
<1> QED
  BY <1>4, <1>5, <1>6 DEF LogInv

\* So does a purge, whether it ends or fails.
LEMMA PurgeExpiredLogInv ==
    ASSUME LogInv, NEW old, PurgeExpired(old)
    PROVE  LogInv'
<1>1. mem.head = state.head /\ acked = state.head /\ DOMAIN mem = Fields /\ ~fault /\ status = "open"
  BY DEF LogInv, ShapeInv, HeadInv, PurgeExpired, Ready
<1>2. DOMAIN next' = Fields /\ next'.head = state.head
  BY <1>1, PrunedHead DEF PurgeExpired
<1>3. UNCHANGED <<state, mem, fault, status, acked>> /\ pc' = "commit"
  BY DEF PurgeExpired, history, files
<1>4. ShapeInv'
  BY <1>2, <1>3 DEF LogInv, ShapeInv
<1>5. IdleInv'
  BY <1>1, <1>3 DEF IdleInv
<1>6. HeadInv'
  BY <1>1, <1>2, <1>3 DEF HeadInv, OneAhead
<1> QED
  BY <1>4, <1>5, <1>6 DEF LogInv

\* commit: the checkpoint is replaced, or may have been, and the segments go.
LEMMA CommitLogInv ==
    ASSUME LogInv, Commit \/ CommitFails \/ RemoveSegment \/ RemoveFails \/ Return
    PROVE  LogInv'
<1>1. CASE Commit
  <2>1. state'.head \in Hashes
    BY <1>1, OneAheadHash DEF LogInv, ShapeInv, HeadInv, Commit
  <2>2. ShapeInv' /\ IdleInv'
    BY <1>1, <2>1 DEF LogInv, ShapeInv, IdleInv, Commit, history
  <2>3. HeadInv'
    BY <1>1 DEF LogInv, HeadInv, OneAhead, Commit, history
  <2> QED
    BY <2>2, <2>3 DEF LogInv
<1>2. CASE CommitFails
  <2>1. state'.head \in Hashes
    BY <1>2, OneAheadHash DEF LogInv, ShapeInv, HeadInv, CommitFails
  <2>2. status = "open"
    BY <1>2 DEF LogInv, ShapeInv, IdleInv, CommitFails
  <2>3. ShapeInv' /\ IdleInv'
    BY <1>2, <2>1, <2>2 DEF LogInv, ShapeInv, IdleInv, CommitFails
  <2>4. HeadInv'
    BY <1>2 DEF LogInv, HeadInv, OneAhead, CommitFails
  <2> QED
    BY <2>3, <2>4 DEF LogInv
<1>3. CASE RemoveSegment
  BY <1>3 DEF LogInv, ShapeInv, IdleInv, HeadInv, OneAhead, RemoveSegment, history
<1>4. CASE RemoveFails
  BY <1>4 DEF LogInv, ShapeInv, IdleInv, HeadInv, OneAhead, RemoveFails, history, files
<1>5. CASE Return
  BY <1>5 DEF LogInv, ShapeInv, IdleInv, HeadInv, OneAhead, Return, files
<1> QED
  BY <1>1, <1>2, <1>3, <1>4, <1>5

\* Opening, verifying, stopping and editing a log.
LEMMA RestartLogInv ==
    ASSUME LogInv,
           \/ OpenAudit \/ OpenAuditFirst \/ OpenAuditFirstFails \/ OpenAuditRefuses
           \/ OpenAuditFails \/ VerifyAudit \/ Stop
           \/ \E s \in DOMAIN disk : Damage(s)
    PROVE  LogInv'
<1>1. CASE OpenAudit
  <2>1. DOMAIN state = Fields /\ ~fault /\ pc = "idle"
    BY <1>1 DEF LogInv, ShapeInv, IdleInv, OpenAudit, Accepts
  <2>2. mem' = state /\ acked' = state.head /\ status' = "open" /\ UNCHANGED <<state, fault, pc, next>>
    BY <1>1 DEF OpenAudit
  <2> QED
    BY <2>1, <2>2 DEF LogInv, ShapeInv, IdleInv, HeadInv, OneAhead
<1>2. CASE OpenAuditFirst
  <2>1. state'.head = <<>> /\ mem' = Empty /\ state' = Empty /\ acked' = <<>> /\ status' = "open"
        /\ UNCHANGED <<fault, pc, next>> /\ ~fault /\ pc = "idle"
    BY <1>2, EmptyHead DEF LogInv, IdleInv, OpenAuditFirst
  <2> QED
    BY <2>1, EmptyHead DEF LogInv, ShapeInv, IdleInv, HeadInv, OneAhead
<1>3. CASE OpenAuditFirstFails
  <2>1. state'.head = state.head /\ (state' = state \/ state' = Empty)
    BY <1>3, EmptyHead DEF OpenAuditFirstFails
  <2>2. UNCHANGED <<mem, fault, pc, next, status, acked>> /\ status = "stopped"
    BY <1>3 DEF OpenAuditFirstFails, memory
  <2> QED
    BY <2>1, <2>2, EmptyHead DEF LogInv, ShapeInv, IdleInv, HeadInv, OneAhead
<1>4. CASE OpenAuditRefuses \/ OpenAuditFails \/ \E s \in DOMAIN disk : Damage(s)
  <2>1. UNCHANGED <<state, mem, fault, pc, next, status, acked>>
    BY <1>4 DEF OpenAuditRefuses, OpenAuditFails, Damage, memory, history, files
  <2> QED
    BY <2>1 DEF LogInv, ShapeInv, IdleInv, HeadInv, OneAhead
<1>5. CASE VerifyAudit
  <2>1. UNCHANGED <<state, mem, fault, pc, next, status>> /\ acked' = state.head /\ status = "stopped"
    BY <1>5 DEF VerifyAudit, memory
  <2> QED
    BY <2>1 DEF LogInv, ShapeInv, IdleInv, HeadInv, OneAhead
<1>6. CASE Stop
  BY <1>6, EmptyHead DEF LogInv, ShapeInv, IdleInv, HeadInv, OneAhead, Stop
<1> QED
  BY <1>1, <1>2, <1>3, <1>4, <1>5, <1>6

\* Every step keeps the open log.
LEMMA NextLogInv == LogInv /\ [Next]_vars => LogInv'
<1> SUFFICES ASSUME LogInv, [Next]_vars PROVE LogInv'
  OBVIOUS
<1>1. ASSUME NEW e \in Events, NEW old, AppendFails(e, old) PROVE LogInv'
  <2>1. UNCHANGED <<state, mem, pc, next, status, acked>> /\ fault' = TRUE /\ status = "open" /\ pc = "idle"
    BY <1>1 DEF AppendFails, Ready
  <2> QED
    BY <2>1 DEF LogInv, ShapeInv, IdleInv, HeadInv, OneAhead
<1>2. CASE UNCHANGED vars
  BY <1>2 DEF vars, files, memory, history, LogInv, ShapeInv, IdleInv, HeadInv, OneAhead
<1> QED
  BY <1>1, <1>2, AppendEntryLogInv, PurgeExpiredLogInv, CommitLogInv, RestartLogInv DEF Next

\* The copies of the head stay as close as LogInv says.
THEOREM LogInvariant == Spec => []LogInv
  BY InitLogInv, NextLogInv, PTL DEF Spec

-----------------------------------------------------------------------------
(* What follows.                                                           *)

\* An entry that Append reported stays committed, for every instance.
THEOREM AckedEntriesKept == Spec => []AckedKept
<1>1. LogInv => AckedKept
  <2> SUFFICES ASSUME LogInv PROVE IsPrefix(acked, state.head)
    BY DEF AckedKept
  <2>1. acked \in Seq(Events)
    BY DEF LogInv, ShapeInv, Hashes
  <2>2. CASE state.head = acked
    BY <2>1, <2>2 DEF IsPrefix
  <2>3. ASSUME NEW e \in Events, state.head = Append(acked, e)
        PROVE  IsPrefix(acked, state.head)
    BY <2>1, <2>3 DEF IsPrefix
  <2> QED
    BY <2>2, <2>3 DEF LogInv, HeadInv, OneAhead
<1> QED
  BY <1>1, LogInvariant, PTL

\* Every step of the segments, the checkpoint and the recovery is a step of the
\* append-only log, or none of its business.
LEMMA StepImplements ==
    ASSUME LogInv, [Next]_vars
    PROVE  [Promise!Next]_<<state.head, acked, status = "open" /\ ~fault>>
<1> USE DEF Promise!Next, Promise!Add, Promise!Report, Promise!Fail, Promise!Open, Promise!Extensions
<1>1. ASSUME NEW old, PurgeExpired(old) \/ \E e \in Events : AppendEntry(e, old)
      PROVE  UNCHANGED <<state.head, acked, status = "open" /\ ~fault>>
  <2>1. UNCHANGED <<state, acked, status, fault>>
    BY <1>1 DEF AppendEntry, PurgeExpired, history, files
  <2> QED
    BY <2>1
<1>2. ASSUME NEW e \in Events, NEW old, AppendFails(e, old) PROVE Promise!Fail
  BY <1>2 DEF AppendFails
<1>3. CASE Commit
  BY <1>3 DEF Commit, LogInv, IdleInv, HeadInv, OneAhead, ShapeInv, history
<1>4. CASE CommitFails
  BY <1>4 DEF CommitFails, LogInv, IdleInv, HeadInv, OneAhead, ShapeInv
<1>5. CASE RemoveFails
  BY <1>5 DEF RemoveFails, history, files
<1>6. CASE Return
  BY <1>6 DEF Return, LogInv, HeadInv, files
<1>7. CASE OpenAudit
  BY <1>7 DEF OpenAudit, LogInv, IdleInv
<1>8. CASE OpenAuditFirst
  BY <1>8, EmptyHead DEF OpenAuditFirst, LogInv, IdleInv
<1>9. CASE VerifyAudit
  BY <1>9 DEF VerifyAudit, memory
<1>10. CASE Stop
  BY <1>10 DEF Stop
<1>11. CASE \/ RemoveSegment \/ OpenAuditFirstFails \/ OpenAuditRefuses \/ OpenAuditFails
            \/ (\E s \in DOMAIN disk : Damage(s)) \/ UNCHANGED vars
  <2>1. state'.head = state.head
    BY <1>11, EmptyHead DEF RemoveSegment, OpenAuditFirstFails, OpenAuditRefuses, OpenAuditFails,
                            Damage, vars, files
  <2>2. UNCHANGED <<acked, status, fault>>
    BY <1>11 DEF RemoveSegment, OpenAuditFirstFails, OpenAuditRefuses, OpenAuditFails,
                 Damage, vars, memory, history
  <2> QED
    BY <2>1, <2>2
<1> QED
  BY <1>1, <1>2, <1>3, <1>4, <1>5, <1>6, <1>7, <1>8, <1>9, <1>10, <1>11 DEF Next

\* The refinement: HubAudit implements AppendOnlyLog for every value of the
\* constants.
THEOREM LogImplements == Spec => ImplementsAppendOnlyLog
<1>1. Init => Promise!Init
  BY EmptyHead DEF Init, Promise!Init
<1> QED
  BY <1>1, StepImplements, LogInvariant, PTL DEF Spec, ImplementsAppendOnlyLog, Promise!Spec

-----------------------------------------------------------------------------
(***************************************************************************)
(* The segment files.                                                      *)
(*                                                                         *)
(* A directory is clean for a checkpoint when every segment the checkpoint *)
(* names holds the committed lines and every other file is older than the  *)
(* anchor.  OpenAudit accepts exactly the clean ones (AcceptsClean): each  *)
(* line names the hash of the one before it, so the last hash of a segment *)
(* determines the lines, by induction upwards and downwards along the      *)
(* segment.  An operation keeps the directory clean except between the     *)
(* write of a line and its checkpoint; that is the interval `cut' records. *)
(***************************************************************************)

(* The invariant.                                                          *)

\* What a checkpoint says of a segment.
Segments == [start : Nat, last : Hashes]

\* A checkpoint is sound: its segments follow one another from the anchor to
\* the head, each named by the number of its first line.
Sound(st) ==
    /\ DOMAIN st = Fields
    /\ st.anchor \in Hashes /\ st.head \in Hashes
    /\ st.segs \in Seq(Segments)
    /\ \A k \in 1..Len(st.segs) :
         /\ st.segs[k].start = Len(Previous(st, k)) + 1
         /\ st.segs[k].start <= Len(st.segs[k].last)
         /\ IsPrefix(Previous(st, k), st.segs[k].last)
         /\ Len(st.anchor) < st.segs[k].start
         /\ Len(st.segs[k].last) <= Len(st.head)
    /\ \A j, k \in 1..Len(st.segs) : j < k => Len(st.segs[j].last) < st.segs[k].start
    /\ st.head = Previous(st, Len(st.segs) + 1)
    /\ Len(st.anchor) <= Len(st.head)

\* ... and it names no more segments than are retained.
Kept(st) == Sound(st) /\ Len(st.segs) <= MaxSegments

\* The files d hold, for every segment of st, the lines st commits.
Holds(d, st) ==
    \A k \in 1..Len(st.segs) :
       /\ st.segs[k].start \in DOMAIN d
       /\ d[st.segs[k].start] = [lines |-> Chain(Previous(st, k), st.segs[k].last), torn |-> FALSE]

\* ... and nothing else but what is older than the anchor.
Clean(d, st) ==
    /\ Holds(d, st)
    /\ \A s \in DOMAIN d \ Starts(st) : s <= Len(st.anchor)

\* What OpenAudit accepts: a clean directory, or none at all.
Openable ==
    IF state = NoState THEN DOMAIN disk = {} /\ ~tmp ELSE Clean(disk, state)

\* A segment file.
Files == [lines : Seq(Hashes), torn : BOOLEAN]

\* A directory: files named by numbers.
Directory(d) ==
    /\ DOMAIN d \subseteq Nat /\ IsFiniteSet(DOMAIN d)
    /\ d \in [DOMAIN d -> Files]

\* The types of what LogInv does not look at.
FileTypes ==
    /\ Directory(disk)
    /\ tmp \in BOOLEAN /\ cut \in BOOLEAN /\ damaged \in BOOLEAN /\ refused \in BOOLEAN

\* The checkpoint on disk is sound, and an open log has one.
StateInv ==
    /\ state = NoState \/ Kept(state)
    /\ status = "open" => state # NoState

\* Between operations the process knows the checkpoint, and the directory has
\* its segments and nothing else.
ReadyInv ==
    Ready => mem = state /\ Holds(disk, state) /\ DOMAIN disk \subseteq Starts(state)

\* The files are those of st and those it has given up, all before its anchor.
Prunes(d, st, doomed) ==
    /\ Kept(st)
    /\ Holds(d, st)
    /\ doomed \in Seq(Nat)
    /\ \A i \in 1..Len(doomed) : doomed[i] <= Len(st.anchor)
    /\ \A s \in DOMAIN d : s \in Starts(st) \/ \E i \in 1..Len(doomed) : s = doomed[i]

\* Before the checkpoint is replaced: the files are already those of the new
\* one; they are clean for the old one when no entry was added.
CommitInv ==
    pc = "commit" =>
      /\ Prunes(disk, next, removed)
      /\ Clean(disk, state) <=> next.head = state.head

\* While pruned segments are removed, the checkpoint is in place.
RemoveInv == pc = "remove" => state = next /\ mem = next /\ Prunes(disk, next, removed)

\* An undamaged log that stopped or failed can be opened unless its last line
\* was cut from its checkpoint.
CauseInv ==
    /\ ~damaged /\ status = "open" /\ ~fault => ~cut
    /\ ~damaged /\ (status = "stopped" \/ fault) => (Openable <=> ~cut)
    /\ refused => cut \/ damaged

\* The inductive invariant, beside LogInv.
RecoveryInv ==
    /\ FileTypes
    /\ StateInv
    /\ ReadyInv
    /\ CommitInv
    /\ RemoveInv
    /\ CauseInv
    /\ FilesBounded

-----------------------------------------------------------------------------
(* Naturals and sequences.                                                 *)

\* A set of naturals has a least element: what takes the place of induction.
LEMMA LeastElement ==
    ASSUME NEW T \in SUBSET Nat, T # {}
    PROVE  \E x \in T : \A y \in T : x <= y
<1>1. IsWellFoundedOn(OpToRel(<, Nat), Nat)
  BY NatLessThanWellFounded
<1>2. \E x \in T : \A y \in T : ~(<<y, x>> \in OpToRel(<, Nat))
  BY <1>1, WFMin
<1>3. PICK x \in T : \A y \in T : ~(<<y, x>> \in OpToRel(<, Nat))
  BY <1>2
<1>4. \A y \in T : ~(y < x)
  BY <1>3 DEF OpToRel
<1> QED
  BY <1>4

\* Induction from 1 up to m, for a set.
LEMMA Upward ==
    ASSUME NEW T, NEW m \in Nat \ {0}, 1 \in T,
           \A k \in 1..(m - 1) : k \in T => k + 1 \in T
    PROVE  \A k \in 1..m : k \in T
<1> DEFINE Wrong == {k \in 1..m : k \notin T}
<1> SUFFICES ASSUME Wrong # {} PROVE FALSE
  OBVIOUS
<1>1. Wrong \in SUBSET Nat
  OBVIOUS
<1>2. PICK k \in Wrong : \A j \in Wrong : k <= j
  BY <1>1, LeastElement
<1>3. k \in 1..m /\ k \notin T /\ k # 1
  BY <1>2
<1>4. k - 1 \in 1..(m - 1) /\ (k - 1) + 1 = k /\ k - 1 \in 1..m
  BY <1>3
<1>5. k - 1 \notin T
  BY <1>3, <1>4
<1>6. k - 1 \in Wrong
  BY <1>4, <1>5
<1> QED
  BY <1>2, <1>3, <1>6

\* Induction from m down to 1.
LEMMA Downward ==
    ASSUME NEW T, NEW m \in Nat \ {0}, m \in T,
           \A k \in 1..(m - 1) : k + 1 \in T => k \in T
    PROVE  \A k \in 1..m : k \in T
<1> DEFINE U == {j \in 1..m : m + 1 - j \in T}
<1>1. 1 \in U
  OBVIOUS
<1>2. ASSUME NEW j \in 1..(m - 1), j \in U PROVE j + 1 \in U
  <2>1. m - j \in 1..(m - 1) /\ (m - j) + 1 = m + 1 - j /\ m + 1 - (j + 1) = m - j /\ j + 1 \in 1..m
    OBVIOUS
  <2>2. (m - j) + 1 \in T
    BY <1>2, <2>1
  <2>3. m - j \in T
    BY <2>1, <2>2
  <2> QED
    BY <2>1, <2>3
<1>3. \A j \in 1..m : j \in U
  <2> HIDE DEF U
  <2> QED
    BY <1>1, <1>2, Upward
<1> SUFFICES ASSUME NEW k \in 1..m PROVE k \in T
  OBVIOUS
<1>4. m + 1 - k \in 1..m /\ m + 1 - (m + 1 - k) = k
  OBVIOUS
<1> QED
  BY <1>3, <1>4

\* Two sequences with the same elements in the same places are the same.
LEMMA SameSequence ==
    ASSUME NEW S, NEW s \in Seq(S), NEW t \in Seq(S), Len(s) = Len(t),
           \A i \in 1..Len(s) : s[i] = t[i]
    PROVE  s = t
  OBVIOUS

\* The first m elements of a sequence.
LEMMA Initial ==
    ASSUME NEW S, NEW s \in Seq(S), NEW m \in Nat, m <= Len(s)
    PROVE  /\ SubSeq(s, 1, m) \in Seq(S)
           /\ Len(SubSeq(s, 1, m)) = m
           /\ \A i \in 1..m : SubSeq(s, 1, m)[i] = s[i]
  OBVIOUS

\* A non-empty sequence without its last element.
LEMMA FrontOf ==
    ASSUME NEW S, NEW s \in Seq(S), s # <<>>
    PROVE  /\ Len(s) \in Nat \ {0}
           /\ Front(s) \in Seq(S)
           /\ Len(Front(s)) = Len(s) - 1
           /\ \A i \in 1..(Len(s) - 1) : Front(s)[i] = s[i]
           /\ Last(s) = s[Len(s)]
<1>1. Len(s) \in Nat /\ Len(s) # 0
  OBVIOUS
<1>2. PICK m \in Nat : m = Len(s) - 1
  BY <1>1
<1>3. Front(s) = SubSeq(s, 1, m)
  BY <1>2 DEF Front
<1>4. Last(s) = s[Len(s)]
  BY DEF Last
<1>5. Front(s) \in Seq(S) /\ Len(Front(s)) = m /\ \A i \in 1..m : Front(s)[i] = s[i]
  BY <1>1, <1>2, <1>3, Initial
<1> HIDE DEF Front, Last
<1> QED
  BY <1>1, <1>2, <1>4, <1>5

\* A prefix, element by element.
LEMMA PrefixOf ==
    ASSUME NEW S, NEW s \in Seq(S), NEW t \in Seq(S)
    PROVE  IsPrefix(s, t) <=> Len(s) <= Len(t) /\ \A i \in 1..Len(s) : s[i] = t[i]
<1>1. Len(s) \in Nat
  OBVIOUS
<1>2. ASSUME IsPrefix(s, t)
      PROVE  Len(s) <= Len(t) /\ \A i \in 1..Len(s) : s[i] = t[i]
  <2>1. Len(s) <= Len(t) /\ SubSeq(s, 1, Len(s)) = SubSeq(t, 1, Len(s))
    BY <1>2 DEF IsPrefix
  <2> QED
    BY <1>1, <2>1, Initial
<1>3. ASSUME Len(s) <= Len(t), \A i \in 1..Len(s) : s[i] = t[i]
      PROVE  IsPrefix(s, t)
  <2>1. SubSeq(s, 1, Len(s)) = SubSeq(t, 1, Len(s))
    BY <1>1, <1>3, Initial, SameSequence
  <2> QED
    BY <1>3, <2>1 DEF IsPrefix
<1> QED
  BY <1>2, <1>3

\* The length of a hash is the number of entries it commits to.
LEMMA HashLength == ASSUME NEW h \in Hashes PROVE Len(h) \in Nat
  BY DEF Hashes

\* Hashes of one length that agree everywhere are one hash.
LEMMA SameHash ==
    ASSUME NEW g \in Hashes, NEW h \in Hashes, NEW m \in Nat, Len(g) = m, Len(h) = m,
           \A i \in 1..m : g[i] = h[i]
    PROVE  g = h
  BY SameSequence DEF Hashes

\* The hash a line names is the line's without its last entry.
LEMMA FrontHash ==
    ASSUME NEW h \in Hashes, h # <<>>, NEW m \in Int, Len(h) = m + 1
    PROVE  Front(h) \in Hashes /\ Len(Front(h)) = m /\ \A i \in 1..m : Front(h)[i] = h[i]
<1>1. h \in Seq(Events)
  BY DEF Hashes
<1>2. Len(h) - 1 = m
  BY <1>1
<1>3. /\ Front(h) \in Seq(Events) /\ Len(Front(h)) = Len(h) - 1
      /\ \A i \in 1..(Len(h) - 1) : Front(h)[i] = h[i]
  BY <1>1, FrontOf
<1> QED
  BY <1>2, <1>3 DEF Hashes

\* An earlier history, entry by entry.
LEMMA PrefixHash ==
    ASSUME NEW g \in Hashes, NEW h \in Hashes
    PROVE  IsPrefix(g, h) <=> Len(g) <= Len(h) /\ \A i \in 1..Len(g) : g[i] = h[i]
  BY PrefixOf DEF Hashes

\* The lines of a chain: each one entry longer than the one before.
LEMMA ChainLines ==
    ASSUME NEW p \in Hashes, NEW h \in Hashes, Len(p) <= Len(h)
    PROVE  /\ Chain(p, h) \in Seq(Hashes)
           /\ Len(Chain(p, h)) = Len(h) - Len(p)
           /\ \A i \in 1..(Len(h) - Len(p)) :
                /\ Chain(p, h)[i] \in Hashes
                /\ Len(Chain(p, h)[i]) = Len(p) + i
                /\ \A j \in 1..(Len(p) + i) : Chain(p, h)[i][j] = h[j]
<1>1. Len(p) \in Nat /\ Len(h) \in Nat
  BY DEF Hashes
<1>2. \A i \in 1..(Len(h) - Len(p)) : Chain(p, h)[i] = SubSeq(h, 1, Len(p) + i)
  BY DEF Chain
<1>3. ASSUME NEW i \in 1..(Len(h) - Len(p))
      PROVE  /\ Chain(p, h)[i] \in Hashes
             /\ Len(Chain(p, h)[i]) = Len(p) + i
             /\ \A j \in 1..(Len(p) + i) : Chain(p, h)[i][j] = h[j]
  <2>1. Len(p) + i \in Nat /\ Len(p) + i <= Len(h)
    BY <1>1
  <2>2. PICK m \in Nat : m = Len(p) + i /\ m <= Len(h)
    BY <2>1
  <2>3. PICK g : g = Chain(p, h)[i] /\ g = SubSeq(h, 1, m)
    BY <1>2, <2>2
  <2>4. g \in Hashes /\ Len(g) = m /\ \A j \in 1..m : g[j] = h[j]
    BY <2>2, <2>3, Initial DEF Hashes
  <2> QED
    BY <2>2, <2>3, <2>4
<1>4. Chain(p, h) \in Seq(Hashes) /\ Len(Chain(p, h)) = Len(h) - Len(p)
  <2>1. Chain(p, h) = [i \in 1..(Len(h) - Len(p)) |-> Chain(p, h)[i]]
    BY DEF Chain
  <2>2. Len(h) - Len(p) \in Nat
    BY <1>1
  <2> QED
    BY <1>3, <2>1, <2>2
<1> QED
  BY <1>3, <1>4

-----------------------------------------------------------------------------
(* What OpenAudit verifies in a segment.                                   *)

\* A line names the one before it, the first one what precedes the segment.
Linked(p, lines) ==
    \A i \in DOMAIN lines :
       lines[i] # <<>> /\ Front(lines[i]) = IF i = 1 THEN p ELSE lines[i - 1]

\* A line commits to one entry more than the line it names.
LEMMA LinkedLine ==
    ASSUME NEW p \in Hashes, NEW lines \in Seq(Hashes), Linked(p, lines), NEW i \in 1..Len(lines)
    PROVE  LET q == IF i = 1 THEN p ELSE lines[i - 1]
           IN  /\ lines[i] \in Hashes /\ q \in Hashes /\ Len(q) \in Nat
               /\ Len(lines[i]) = Len(q) + 1
               /\ \A j \in 1..Len(q) : lines[i][j] = q[j]
<1> DEFINE q == IF i = 1 THEN p ELSE lines[i - 1]
<1>1. Len(lines) \in Nat /\ i \in DOMAIN lines /\ lines[i] \in Hashes
  OBVIOUS
<1>2. lines[i] # <<>> /\ Front(lines[i]) = q
  BY <1>1 DEF Linked
<1>3. PICK m \in Int : Len(lines[i]) = m + 1
  <2>1. Len(lines[i]) \in Nat
    BY <1>1, HashLength
  <2>2. Len(lines[i]) - 1 \in Int /\ Len(lines[i]) = (Len(lines[i]) - 1) + 1
    BY <2>1
  <2> QED
    BY <2>2
<1>4. q \in Hashes /\ Len(q) = m /\ \A j \in 1..m : q[j] = lines[i][j]
  BY <1>1, <1>2, <1>3, FrontHash
<1>5. Len(q) \in Nat
  BY <1>4, HashLength
<1> HIDE DEF q
<1>6. /\ Len(lines[i]) = Len(q) + 1
      /\ \A j \in 1..Len(q) : lines[i][j] = q[j]
  BY <1>3, <1>4
<1> QED
  BY <1>1, <1>4, <1>5, <1>6 DEF q

\* Line i of a linked segment commits to i entries more than what precedes it.
LEMMA LinkedLengths ==
    ASSUME NEW p \in Hashes, NEW lines \in Seq(Hashes), Linked(p, lines)
    PROVE  \A i \in 1..Len(lines) : lines[i] \in Hashes /\ Len(lines[i]) = Len(p) + i
<1> DEFINE n == Len(lines)
           T == {i \in 1..n : Len(lines[i]) = Len(p) + i}
<1>1. n \in Nat /\ Len(p) \in Nat /\ \A i \in 1..n : lines[i] \in Hashes
  BY HashLength
<1> SUFFICES ASSUME n # 0 PROVE \A i \in 1..n : i \in T
  BY <1>1
<1>2. 1 \in T
  <2>1. 1 \in 1..n
    BY <1>1
  <2> QED
    BY <2>1, LinkedLine
<1>3. ASSUME NEW k \in 1..(n - 1), k \in T PROVE k + 1 \in T
  <2>1. k \in 1..n /\ k + 1 \in 1..n /\ k + 1 # 1 /\ (k + 1) - 1 = k
    BY <1>1
  <2>2. Len(lines[k + 1]) = Len(lines[k]) + 1
    BY <2>1, LinkedLine
  <2>3. Len(lines[k]) = Len(p) + k
    BY <1>3
  <2> QED
    BY <1>1, <2>1, <2>2, <2>3
<1> HIDE DEF T
<1> QED
  BY <1>1, <1>2, <1>3, Upward

\* ... and every line is an initial part of the last one.
LEMMA LinkedContents ==
    ASSUME NEW p \in Hashes, NEW lines \in Seq(Hashes), Linked(p, lines), lines # <<>>
    PROVE  \A i \in 1..Len(lines) : \A j \in 1..(Len(p) + i) : lines[i][j] = Last(lines)[j]
<1> DEFINE n == Len(lines)
           T == {i \in 1..n : \A j \in 1..(Len(p) + i) : lines[i][j] = lines[n][j]}
<1>1. n \in Nat \ {0} /\ Last(lines) = lines[n] /\ Len(p) \in Nat
  BY FrontOf, HashLength
<1>2. n \in T
  BY <1>1
<1>3. ASSUME NEW k \in 1..(n - 1), k + 1 \in T PROVE k \in T
  <2>1. k \in 1..n /\ k + 1 \in 1..n /\ k + 1 # 1 /\ (k + 1) - 1 = k
    BY <1>1
  <2>2. \A j \in 1..(Len(p) + (k + 1)) : lines[k + 1][j] = lines[n][j]
    BY <1>3
  <2>3. Len(lines[k]) = Len(p) + k
    BY <2>1, LinkedLengths
  <2>4. \A j \in 1..Len(lines[k]) : lines[k + 1][j] = lines[k][j]
    BY <2>1, LinkedLine
  <2>5. ASSUME NEW j \in 1..(Len(p) + k) PROVE lines[k][j] = lines[n][j]
    <3>1. j \in 1..(Len(p) + (k + 1))
      BY <1>1
    <3> QED
      BY <2>2, <2>3, <2>4, <3>1
  <2> QED
    BY <2>1, <2>5
<1>4. \A k \in 1..n : k \in T
  <2> HIDE DEF T
  <2> QED
    BY <1>1, <1>2, <1>3, Downward
<1> QED
  BY <1>1, <1>4

\* So the lines of a linked segment are determined by its last one.
LEMMA LinkedIsChain ==
    ASSUME NEW p \in Hashes, NEW lines \in Seq(Hashes), Linked(p, lines), lines # <<>>,
           NEW h, h = Last(lines)
    PROVE  lines = Chain(p, h)
<1>1. PICK n \in Nat \ {0} : n = Len(lines) /\ h = lines[n]
  BY FrontOf
<1>2. h \in Hashes /\ n \in 1..n
  BY <1>1
<1>3. Len(p) \in Nat /\ Len(h) = Len(p) + n
  <2>1. \A i \in 1..n : Len(lines[i]) = Len(p) + i
    BY <1>1, LinkedLengths
  <2>2. Len(lines[n]) = Len(p) + n
    BY <1>2, <2>1
  <2>3. Len(p) \in Nat
    BY HashLength
  <2> QED
    BY <1>1, <2>2, <2>3
<1>4. Len(h) - Len(p) = n /\ Len(p) <= Len(h)
  BY <1>3
<1>5. /\ Chain(p, h) \in Seq(Hashes) /\ Len(Chain(p, h)) = n
      /\ \A i \in 1..n : /\ Chain(p, h)[i] \in Hashes
                          /\ Len(Chain(p, h)[i]) = Len(p) + i
                          /\ \A j \in 1..(Len(p) + i) : Chain(p, h)[i][j] = h[j]
  <2>1. /\ Chain(p, h) \in Seq(Hashes)
        /\ Len(Chain(p, h)) = Len(h) - Len(p)
        /\ \A i \in 1..(Len(h) - Len(p)) :
             /\ Chain(p, h)[i] \in Hashes
             /\ Len(Chain(p, h)[i]) = Len(p) + i
             /\ \A j \in 1..(Len(p) + i) : Chain(p, h)[i][j] = h[j]
    BY ONLY <1>2, <1>4, p \in Hashes, ChainLines, Zenon
  <2> QED
    BY ONLY <1>4, <2>1, Zenon
<1>6. ASSUME NEW i \in 1..n PROVE lines[i] = Chain(p, h)[i]
  <2>1. lines[i] \in Hashes /\ Len(lines[i]) = Len(p) + i /\ Len(p) + i \in Nat
    BY <1>1, <1>3, LinkedLengths
  <2>2. \A j \in 1..(Len(p) + i) : lines[i][j] = h[j]
    BY <1>1, LinkedContents
  <2>3. PICK m \in Nat : m = Len(p) + i
    BY <2>1
  <2>4. PICK c \in Hashes : c = Chain(p, h)[i]
    BY <1>5
  <2>5. Len(c) = m /\ \A j \in 1..m : c[j] = h[j]
    BY <1>5, <2>3, <2>4
  <2>6. Len(lines[i]) = m /\ \A j \in 1..m : lines[i][j] = c[j]
    BY <2>1, <2>2, <2>3, <2>5
  <2>7. lines[i] = c
    BY <2>1, <2>5, <2>6, SameHash
  <2> QED
    BY <2>4, <2>7
<1> QED
  BY <1>1, <1>5, <1>6, SameSequence

\* The other way round: the lines of a chain are linked.
LEMMA ChainIsLinked ==
    ASSUME NEW p \in Hashes, NEW h \in Hashes, IsPrefix(p, h), Len(p) < Len(h)
    PROVE  /\ Linked(p, Chain(p, h)) /\ Chain(p, h) # <<>>
           /\ Last(Chain(p, h)) = h
<1>1. Len(p) \in Nat /\ Len(h) \in Nat
  BY HashLength
<1>2. PICK n \in Nat \ {0} : n = Len(h) - Len(p)
  BY <1>1
<1>3. PICK lines \in Seq(Hashes) :
        /\ lines = Chain(p, h) /\ Len(lines) = n
        /\ \A i \in 1..n : /\ lines[i] \in Hashes /\ Len(lines[i]) = Len(p) + i
                            /\ \A j \in 1..(Len(p) + i) : lines[i][j] = h[j]
  <2>1. /\ Chain(p, h) \in Seq(Hashes) /\ Len(Chain(p, h)) = n
        /\ \A i \in 1..n : /\ Chain(p, h)[i] \in Hashes
                            /\ Len(Chain(p, h)[i]) = Len(p) + i
                            /\ \A j \in 1..(Len(p) + i) : Chain(p, h)[i][j] = h[j]
    <3>1. Len(p) <= Len(h) /\ Len(h) - Len(p) = n
      BY <1>1, <1>2
    <3> QED
      BY <3>1, ChainLines
  <2> QED
    BY <2>1
<1>4. lines # <<>> /\ n \in 1..n /\ DOMAIN lines = 1..n
  BY <1>3
<1>5. Last(lines) = lines[n]
  BY <1>3, <1>4, FrontOf
<1>6. lines[n] = h
  BY <1>1, <1>2, <1>3, <1>4, SameHash
<1>7. ASSUME NEW i \in 1..n
      PROVE  lines[i] # <<>> /\ Front(lines[i]) = IF i = 1 THEN p ELSE lines[i - 1]
  <2>0. Len(p) + i - 1 \in Nat
    BY <1>1
  <2>1. PICK m \in Nat : m = Len(p) + i - 1
    BY <2>0
  <2>2. Len(lines[i]) = m + 1 /\ lines[i] \in Hashes /\ 1..m \subseteq 1..(Len(p) + i)
    BY <1>1, <1>3, <2>1
  <2>3. lines[i] # <<>>
    BY <2>2
  <2>4. Front(lines[i]) \in Hashes /\ Len(Front(lines[i])) = m /\ \A j \in 1..m : Front(lines[i])[j] = lines[i][j]
    <3>1. PICK g \in Hashes : g = lines[i] /\ g # <<>> /\ Len(g) = m + 1
      BY <2>2, <2>3
    <3>2. m \in Int
      OBVIOUS
    <3>3. Front(g) \in Hashes /\ Len(Front(g)) = m /\ \A j \in 1..m : Front(g)[j] = g[j]
      BY <3>1, <3>2, FrontHash
    <3> QED
      BY <3>1, <3>3
  <2>5. \A j \in 1..m : Front(lines[i])[j] = h[j]
    BY <1>3, <2>2, <2>4
  <2>6. CASE i = 1
    <3>1. Len(p) = m /\ \A j \in 1..m : p[j] = h[j]
      BY <1>1, <2>1, <2>6, PrefixHash
    <3> QED
      BY <2>3, <2>4, <2>5, <2>6, <3>1, SameHash
  <2>7. CASE i # 1
    <3>1. i - 1 \in 1..n /\ Len(p) + (i - 1) = m
      BY <1>1, <2>1, <2>7
    <3>2. lines[i - 1] \in Hashes /\ Len(lines[i - 1]) = m /\ \A j \in 1..m : lines[i - 1][j] = h[j]
      BY <1>3, <3>1
    <3> QED
      BY <2>3, <2>4, <2>5, <2>7, <3>2, SameHash
  <2> QED
    BY <2>6, <2>7
<1>8. Linked(p, lines)
  BY <1>4, <1>7 DEF Linked
<1> QED
  BY <1>3, <1>4, <1>5, <1>6, <1>8

\* The parts of a sound checkpoint.
LEMMA SoundSegment ==
    ASSUME NEW st, Sound(st), NEW k \in 1..Len(st.segs)
    PROVE  /\ Previous(st, k) \in Hashes /\ st.segs[k].last \in Hashes
           /\ st.segs[k].start \in Nat /\ st.segs[k].start = Len(Previous(st, k)) + 1
           /\ Len(Previous(st, k)) \in Nat /\ Len(st.segs[k].last) \in Nat
           /\ Len(Previous(st, k)) < Len(st.segs[k].last)
           /\ IsPrefix(Previous(st, k), st.segs[k].last)
<1>1. st.segs \in Seq(Segments) /\ st.anchor \in Hashes
  BY DEF Sound
<1>2. st.segs[k] \in Segments /\ k \in Int
  BY <1>1
<1>3. Previous(st, k) \in Hashes
  <2>1. CASE k = 1
    BY <1>1, <2>1 DEF Previous
  <2>2. CASE k # 1
    <3>1. k - 1 \in 1..Len(st.segs)
      BY <1>1, <2>2
    <3>2. st.segs[k - 1] \in Segments
      BY <1>1, <3>1
    <3> QED
      BY <2>2, <3>2 DEF Previous, Segments
  <2> QED
    BY <2>1, <2>2
<1>a. st.segs[k].start \in Nat /\ st.segs[k].last \in Hashes
  BY <1>2 DEF Segments
<1>4. Len(Previous(st, k)) \in Nat /\ Len(st.segs[k].last) \in Nat
  BY <1>a, <1>3, HashLength
<1>5. /\ st.segs[k].start = Len(Previous(st, k)) + 1
      /\ st.segs[k].start <= Len(st.segs[k].last)
      /\ IsPrefix(Previous(st, k), st.segs[k].last)
  BY DEF Sound
<1> QED
  BY <1>a, <1>3, <1>4, <1>5

\* OpenAudit's check of a segment succeeds exactly on the file the checkpoint
\* describes.
LEMMA VerifiedIsHeld ==
    ASSUME FileTypes, Sound(state), NEW k \in 1..Len(state.segs)
    PROVE  SegmentVerified(state, k) <=>
             /\ state.segs[k].start \in DOMAIN disk
             /\ disk[state.segs[k].start]
                  = [lines |-> Chain(Previous(state, k), state.segs[k].last), torn |-> FALSE]
<1> DEFINE p == Previous(state, k)
           s == state.segs[k].start
           h == state.segs[k].last
           f == [lines |-> Chain(p, h), torn |-> FALSE]
<1>1. /\ p \in Hashes /\ h \in Hashes /\ s = Len(p) + 1
      /\ IsPrefix(p, h) /\ Len(p) < Len(h)
  BY SoundSegment
<1> HIDE DEF p, h
<1>2. ASSUME SegmentVerified(state, k)
      PROVE  s \in DOMAIN disk /\ disk[s] = f
  <2>1. s \in DOMAIN disk
    BY <1>2 DEF SegmentVerified
  <2>2. disk[s] \in [lines : Seq(Hashes), torn : BOOLEAN]
    BY <2>1 DEF FileTypes, Directory, Files
  <2>3. PICK lines \in Seq(Hashes) : disk[s].lines = lines
    BY <2>2
  <2>4. lines # <<>> /\ ~disk[s].torn /\ Last(lines) = h /\ Linked(p, lines)
    BY <1>2, <2>3 DEF SegmentVerified, Linked, p, h
  <2>5. lines = Chain(p, h)
    BY <1>1, <2>4, LinkedIsChain
  <2>6. disk[s].torn = FALSE
    BY <2>2, <2>4
  <2> QED
    BY <2>1, <2>2, <2>3, <2>5, <2>6
<1>3. ASSUME s \in DOMAIN disk, disk[s] = f
      PROVE  SegmentVerified(state, k)
  <2>1. disk[s].lines = Chain(p, h) /\ ~disk[s].torn
    BY <1>3
  <2>2. Linked(p, disk[s].lines) /\ disk[s].lines # <<>> /\ Last(disk[s].lines) = h
    BY <1>1, <2>1, ChainIsLinked
  <2> QED
    BY <1>1, <1>3, <2>1, <2>2 DEF SegmentVerified, Linked, p, h
<1> QED
  BY <1>2, <1>3 DEF p, h

\* What OpenAudit accepts is a clean directory, and it accepts every one.
LEMMA AcceptsClean ==
    ASSUME FileTypes, state # NoState, Sound(state)
    PROVE  Accepts <=> Clean(disk, state)
<1>1. Len(state.anchor) <= Len(state.head) /\ state.head = Previous(state, Len(state.segs) + 1)
  BY DEF Sound
<1>2. DOMAIN state.segs = 1..Len(state.segs)
  BY DEF Sound
<1>3. ChainVerified <=> Holds(disk, state)
  BY <1>1, <1>2, VerifiedIsHeld DEF ChainVerified, Holds
<1>4. Uncommitted = {} <=> \A s \in DOMAIN disk \ Starts(state) : s <= Len(state.anchor)
  BY DEF Uncommitted, Leftover
<1> QED
  BY <1>3, <1>4 DEF Accepts, Clean

\* A segment's start is no other segment's, nor that of a pruned or a future one.
LEMMA StartsOf ==
    ASSUME NEW st, Sound(st)
    PROVE  /\ \A k \in 1..Len(st.segs) : st.segs[k].start \in Starts(st)
           /\ \A s \in Starts(st) : \E k \in 1..Len(st.segs) : s = st.segs[k].start
           /\ \A j, k \in 1..Len(st.segs) : st.segs[j].start = st.segs[k].start => j = k
           /\ \A s \in Starts(st) : s \in Nat /\ Len(st.anchor) < s /\ s <= Len(st.head)
           /\ Len(st.anchor) \in Nat /\ Len(st.head) \in Nat /\ Len(st.segs) \in Nat
<1>1. DOMAIN st.segs = 1..Len(st.segs) /\ Len(st.segs) \in Nat
  BY DEF Sound
<1>2. Len(st.anchor) \in Nat /\ Len(st.head) \in Nat
  BY HashLength DEF Sound
<1>3. /\ \A k \in 1..Len(st.segs) : st.segs[k].start \in Starts(st)
      /\ \A s \in Starts(st) : \E k \in 1..Len(st.segs) : s = st.segs[k].start
  BY <1>1 DEF Starts
<1>4. ASSUME NEW j \in 1..Len(st.segs), NEW k \in 1..Len(st.segs), j < k
      PROVE  st.segs[j].start # st.segs[k].start
  <2>1. Len(st.segs[j].last) < st.segs[k].start /\ st.segs[j].start <= Len(st.segs[j].last)
    BY <1>4 DEF Sound
  <2>2. Len(st.segs[j].last) \in Nat /\ st.segs[j].start \in Nat /\ st.segs[k].start \in Nat
    BY SoundSegment
  <2> QED
    BY <2>1, <2>2
<1>5. \A j, k \in 1..Len(st.segs) : st.segs[j].start = st.segs[k].start => j = k
  BY <1>1, <1>4
<1>6. ASSUME NEW k \in 1..Len(st.segs)
      PROVE  st.segs[k].start \in Nat /\ Len(st.anchor) < st.segs[k].start
             /\ st.segs[k].start <= Len(st.head)
  <2>1. /\ Len(st.anchor) < st.segs[k].start /\ Len(st.segs[k].last) <= Len(st.head)
        /\ st.segs[k].start <= Len(st.segs[k].last)
    BY DEF Sound
  <2>2. Len(st.segs[k].last) \in Nat /\ st.segs[k].start \in Nat
    BY SoundSegment
  <2> QED
    BY <1>2, <2>1, <2>2
<1> QED
  BY <1>1, <1>2, <1>3, <1>5, <1>6

\* There are no more starts than segments.
LEMMA StartsCount ==
    ASSUME NEW st, Sound(st)
    PROVE  IsFiniteSet(Starts(st)) /\ Cardinality(Starts(st)) <= Len(st.segs)
<1>1. PICK n \in Nat : n = Len(st.segs)
  BY StartsOf
<1> DEFINE f == [k \in 1..n |-> st.segs[k].start]
<1>2. /\ \A k \in 1..n : f[k] \in Starts(st)
      /\ \A s \in Starts(st) : \E k \in 1..n : f[k] = s
  BY <1>1, StartsOf
<1>3. f \in Surjection(1..n, Starts(st))
  BY <1>2 DEF Surjection
<1>4. IsFiniteSet(1..n) /\ Cardinality(1..n) = n
  BY FS_Interval
<1> HIDE DEF f
<1>5. IsFiniteSet(Starts(st)) /\ Cardinality(Starts(st)) <= n
  BY <1>3, <1>4, FS_Surjection
<1> QED
  BY <1>1, <1>5

-----------------------------------------------------------------------------
(* pruned.                                                                 *)

\* The end of a sequence after its first k elements.
LEMMA EndOf ==
    ASSUME NEW S, NEW s \in Seq(S), NEW k \in 0..Len(s)
    PROVE  /\ SubSeq(s, k + 1, Len(s)) \in Seq(S)
           /\ Len(SubSeq(s, k + 1, Len(s))) = Len(s) - k
           /\ \A i \in 1..(Len(s) - k) : SubSeq(s, k + 1, Len(s))[i] = s[i + k]
  OBVIOUS

\* What dropping the first k segments leaves.
Remainder(st, k, d) ==
    /\ DOMAIN d = Fields /\ d.head = st.head
    /\ d.anchor = IF k = 0 THEN st.anchor ELSE st.segs[k].last
    /\ d.segs \in Seq(Segments) /\ Len(d.segs) = Len(st.segs) - k
    /\ \A j \in 1..Len(d.segs) : j + k \in 1..Len(st.segs) /\ d.segs[j] = st.segs[j + k]
    /\ \A j \in 1..(Len(d.segs) + 1) : Previous(d, j) = Previous(st, j + k)

\* Dropped leaves such a checkpoint.
LEMMA DroppedParts ==
    ASSUME NEW st, Sound(st), NEW k \in 0..Len(st.segs), NEW d, d = Dropped(st, k).st
    PROVE  Remainder(st, k, d)
<1>1. d = [st EXCEPT !.segs = SubSeq(@, k + 1, Len(@)),
                     !.anchor = IF k = 0 THEN @ ELSE st.segs[k].last]
  BY DEF Dropped
<1>2. DOMAIN st = Fields
  BY DEF Sound
<1>3. /\ DOMAIN d = Fields /\ d.head = st.head
      /\ d.anchor = IF k = 0 THEN st.anchor ELSE st.segs[k].last
      /\ d.segs = SubSeq(st.segs, k + 1, Len(st.segs))
  BY <1>1, <1>2 DEF Fields
<1>4. PICK n \in Nat : n = Len(st.segs)
  BY StartsOf
<1>5. st.segs \in Seq(Segments)
  BY DEF Sound
<1>6. /\ d.segs \in Seq(Segments) /\ Len(d.segs) = n - k
      /\ \A j \in 1..(n - k) : d.segs[j] = st.segs[j + k]
  BY <1>3, <1>4, <1>5, EndOf
<1>7. \A j \in 1..(n - k) : j + k \in 1..n
  BY <1>4
<1>8. ASSUME NEW j \in 1..((n - k) + 1) PROVE Previous(d, j) = Previous(st, j + k)
  <2>1. CASE j = 1
    <3>1. Previous(d, j) = IF k = 0 THEN st.anchor ELSE st.segs[k].last
      BY <1>3, <2>1 DEF Previous
    <3>2. j + k = 1 <=> k = 0
      BY <2>1
    <3>3. (j + k) - 1 = k
      BY <2>1
    <3> QED
      BY <3>1, <3>2, <3>3 DEF Previous
  <2>2. CASE j # 1
    <3>1. j - 1 \in 1..(n - k) /\ (j - 1) + k = (j + k) - 1 /\ j + k # 1
      BY <1>4, <2>2
    <3>2. d.segs[j - 1] = st.segs[(j + k) - 1]
      BY <1>6, <3>1
    <3> QED
      BY <2>2, <3>1, <3>2 DEF Previous
  <2> QED
    BY <2>1, <2>2
<1> QED
  BY <1>3, <1>4, <1>6, <1>7, <1>8 DEF Remainder

\* It is sound again.
LEMMA DroppedSound ==
    ASSUME NEW st, Sound(st), NEW k \in 0..Len(st.segs), NEW d, d = Dropped(st, k).st
    PROVE  Sound(d)
<1>1. PICK n \in Nat : n = Len(st.segs)
  BY StartsOf
<1>r. Remainder(st, k, d)
  BY DroppedParts
<1>0. /\ Len(d.segs) = Len(st.segs) - k
      /\ \A j \in 1..Len(d.segs) : j + k \in 1..Len(st.segs) /\ d.segs[j] = st.segs[j + k]
      /\ \A j \in 1..(Len(d.segs) + 1) : Previous(d, j) = Previous(st, j + k)
  BY <1>r DEF Remainder
<1>2. PICK m \in Nat : m = n - k /\ m = Len(d.segs)
  <2>1. n - k \in Nat
    BY <1>1
  <2> QED
    BY <1>0, <1>1, <2>1
<1>3. /\ DOMAIN d = Fields /\ d.head = st.head
      /\ d.anchor = IF k = 0 THEN st.anchor ELSE st.segs[k].last
      /\ d.segs \in Seq(Segments)
  BY <1>r DEF Remainder
<1>4. /\ \A j \in 1..m : j + k \in 1..n /\ d.segs[j] = st.segs[j + k]
      /\ \A j \in 1..(m + 1) : Previous(d, j) = Previous(st, j + k)
  BY <1>0, <1>1, <1>2
<1>5. d.anchor \in Hashes /\ d.head \in Hashes /\ Len(d.anchor) <= Len(d.head)
  <2>1. CASE k = 0
    BY <1>3, <2>1 DEF Sound
  <2>2. CASE k # 0
    <3>1. k \in 1..Len(st.segs)
      BY <1>1, <2>2
    <3>2. st.segs[k].last \in Hashes
      BY <3>1, SoundSegment
    <3>3. Len(st.segs[k].last) <= Len(st.head) /\ st.head \in Hashes
      BY <3>1 DEF Sound
    <3> QED
      BY <1>3, <2>2, <3>2, <3>3
  <2> QED
    BY <2>1, <2>2
<1>6. ASSUME NEW j \in 1..m
      PROVE  /\ d.segs[j].start = Len(Previous(d, j)) + 1
             /\ d.segs[j].start <= Len(d.segs[j].last)
             /\ IsPrefix(Previous(d, j), d.segs[j].last)
             /\ Len(d.anchor) < d.segs[j].start
             /\ Len(d.segs[j].last) <= Len(d.head)
  <2>1. PICK i \in 1..Len(st.segs) : i = j + k /\ d.segs[j] = st.segs[i]
    BY <1>1, <1>4
  <2>2. Previous(d, j) = Previous(st, i)
    BY <1>2, <1>4, <2>1
  <2>3. /\ st.segs[i].start = Len(Previous(st, i)) + 1
        /\ st.segs[i].start <= Len(st.segs[i].last)
        /\ IsPrefix(Previous(st, i), st.segs[i].last)
        /\ Len(st.anchor) < st.segs[i].start
        /\ Len(st.segs[i].last) <= Len(st.head)
    BY DEF Sound
  <2>4. Len(d.anchor) < st.segs[i].start
    <3>1. CASE k = 0
      BY <1>3, <2>3, <3>1
    <3>2. CASE k # 0
      <4>1. k \in 1..Len(st.segs) /\ k < i
        BY <1>1, <2>1, <3>2
      <4>2. Len(st.segs[k].last) < st.segs[i].start
        BY <4>1 DEF Sound
      <4> QED
        BY <1>3, <3>2, <4>2
    <3> QED
      BY <3>1, <3>2
  <2> QED
    BY <1>3, <2>1, <2>2, <2>3, <2>4
<1>7. ASSUME NEW i \in 1..m, NEW j \in 1..m, i < j
      PROVE  Len(d.segs[i].last) < d.segs[j].start
  <2>1. i + k \in 1..Len(st.segs) /\ j + k \in 1..Len(st.segs) /\ i + k < j + k
    BY <1>1, <1>4, <1>7
  <2>2. Len(st.segs[i + k].last) < st.segs[j + k].start
    BY <2>1 DEF Sound
  <2> QED
    BY <1>4, <2>2
<1>8. d.head = Previous(d, m + 1)
  <2>1. m + 1 \in 1..(m + 1) /\ (m + 1) + k = n + 1
    BY <1>1, <1>2
  <2>2. st.head = Previous(st, n + 1)
    BY <1>1 DEF Sound
  <2> QED
    BY <1>3, <1>4, <2>1, <2>2
<1> QED
  BY <1>2, <1>3, <1>5, <1>6, <1>7, <1>8 DEF Sound

\* The files still hold what is kept, and what is not kept is to be removed and
\* older than the new anchor.
LEMMA DroppedFiles ==
    ASSUME NEW st, Sound(st), NEW k \in 0..Len(st.segs), Len(st.segs) - k <= MaxSegments,
           NEW d, d = Dropped(st, k).st, NEW gone, gone = Dropped(st, k).removed,
           NEW f, Holds(f, st), DOMAIN f \subseteq Starts(st)
    PROVE  Prunes(f, d, gone)
<1>r. Remainder(st, k, d)
  BY DroppedParts
<1>0. /\ Len(d.segs) = Len(st.segs) - k
      /\ \A j \in 1..Len(d.segs) : j + k \in 1..Len(st.segs) /\ d.segs[j] = st.segs[j + k]
      /\ \A j \in 1..(Len(d.segs) + 1) : Previous(d, j) = Previous(st, j + k)
      /\ d.anchor = IF k = 0 THEN st.anchor ELSE st.segs[k].last
  BY <1>r DEF Remainder
<1>1. PICK n \in Nat : n = Len(st.segs)
  BY StartsOf
<1>3. PICK m \in Nat : m = n - k /\ m = Len(d.segs)
  <2>1. n - k \in Nat
    BY <1>1
  <2> QED
    BY <1>0, <1>1, <2>1
<1>4. /\ \A j \in 1..m : j + k \in 1..n /\ d.segs[j] = st.segs[j + k]
      /\ \A j \in 1..(m + 1) : Previous(d, j) = Previous(st, j + k)
  BY <1>0, <1>1, <1>3
<1>5. Holds(f, d)
  <2> SUFFICES ASSUME NEW j \in 1..m
               PROVE  /\ d.segs[j].start \in DOMAIN f
                      /\ f[d.segs[j].start]
                           = [lines |-> Chain(Previous(d, j), d.segs[j].last), torn |-> FALSE]
    BY <1>3 DEF Holds
  <2>1. PICK i \in 1..Len(st.segs) : i = j + k /\ d.segs[j] = st.segs[i]
    BY <1>1, <1>4
  <2>2. Previous(d, j) = Previous(st, i)
    BY <1>3, <1>4, <2>1
  <2>3. /\ st.segs[i].start \in DOMAIN f
        /\ f[st.segs[i].start]
             = [lines |-> Chain(Previous(st, i), st.segs[i].last), torn |-> FALSE]
    BY DEF Holds
  <2> QED
    BY <2>1, <2>2, <2>3
<1>6. gone = [j \in 1..k |-> st.segs[j].start]
  BY DEF Dropped
<1>7. k \in Nat /\ \A j \in 1..k : j \in 1..Len(st.segs)
  BY <1>1
<1>8. \A j \in 1..k : st.segs[j].start \in Nat
  BY <1>7, SoundSegment
<1>9. gone \in Seq(Nat) /\ Len(gone) = k
  BY <1>6, <1>7, <1>8
<1>10. ASSUME NEW i \in 1..k PROVE gone[i] <= Len(d.anchor)
  <2>1. i \in 1..Len(st.segs) /\ k \in 1..Len(st.segs) /\ k # 0
    BY <1>1, <1>7
  <2>2. /\ st.segs[i].start <= Len(st.segs[i].last)
        /\ i < k => Len(st.segs[i].last) < st.segs[k].start
        /\ st.segs[k].start <= Len(st.segs[k].last)
    BY <2>1 DEF Sound
  <2>3. /\ Len(st.segs[i].last) \in Nat /\ st.segs[i].start \in Nat
        /\ Len(st.segs[k].last) \in Nat /\ st.segs[k].start \in Nat
    BY <2>1, SoundSegment
  <2>4. i = k \/ i < k
    BY <1>7
  <2>5. st.segs[i].start <= Len(st.segs[k].last)
    <3>1. PICK a \in Nat, b \in Nat, c \in Nat, e \in Nat :
            /\ a = st.segs[i].start /\ b = Len(st.segs[i].last)
            /\ c = st.segs[k].start /\ e = Len(st.segs[k].last)
      BY <2>3
    <3>2. a <= b /\ (i < k => b < c) /\ c <= e
      BY <2>2, <3>1
    <3>3. i = k => a = c
      BY <3>1
    <3>4. a <= e
      BY <2>4, <3>2, <3>3
    <3> QED
      BY <3>1, <3>4
  <2> QED
    BY <1>0, <1>6, <2>1, <2>5
<1>11. ASSUME NEW s \in DOMAIN f
       PROVE  s \in Starts(d) \/ \E i \in 1..k : s = gone[i]
  <2>1. PICK i \in 1..n : s = st.segs[i].start
    BY <1>1, StartsOf
  <2>2. CASE i <= k
    <3>1. i \in 1..k
      BY <2>2
    <3> QED
      BY <1>6, <2>1, <3>1
  <2>3. CASE ~(i <= k)
    <3>1. i - k \in 1..m /\ (i - k) + k = i
      BY <1>1, <1>3, <2>3
    <3>2. d.segs[i - k].start = s
      BY <1>4, <2>1, <3>1
    <3>3. Sound(d)
      BY DroppedSound
    <3> QED
      BY <1>3, <3>1, <3>2, <3>3, StartsOf
  <2> QED
    BY <2>2, <2>3
<1>12. Kept(d)
  BY <1>0, DroppedSound DEF Kept
<1> QED
  BY <1>5, <1>9, <1>10, <1>11, <1>12 DEF Prunes

\* pruned drops just enough segments to come back under the limit.
LEMMA PrunedIs ==
    ASSUME NEW st, Sound(st), NEW old
    PROVE  \E k \in 0..Len(st.segs) : /\ Pruned(st, old) = Dropped(st, k)
                                      /\ Len(st.segs) - k <= MaxSegments
<1>1. PICK n \in Nat : n = Len(st.segs)
  BY StartsOf
<1> DEFINE Enough == {k \in 0..n : Stays(st, old, k)}
           Least(k) == Stays(st, old, k) /\ \A j \in 0..(k - 1) : ~Stays(st, old, j)
<1>2. n \in Enough /\ Enough \in SUBSET Nat
  BY <1>1, HubAuditAssumption DEF Stays
<1>3. PICK k \in Enough : \A j \in Enough : k <= j
  BY <1>2, LeastElement
<1>4. k \in 0..n /\ Stays(st, old, k)
  BY <1>3
<1>5. ASSUME NEW j \in 0..(k - 1), Stays(st, old, j) PROVE FALSE
  <2>1. j \in 0..n /\ ~(k <= j)
    BY <1>4
  <2> QED
    BY <1>3, <1>5, <2>1
<1>6. \E i \in 0..n : Least(i)
  BY <1>4, <1>5
<1> DEFINE c == CHOOSE i \in 0..n : Least(i)
<1>7. c \in 0..n /\ Least(c)
  <2> HIDE DEF Least
  <2> QED
    BY <1>6
<1>8. Pruned(st, old) = Dropped(st, c)
  BY <1>1 DEF Pruned
<1>9. n - c <= MaxSegments
  BY <1>1, <1>7 DEF Stays
<1> QED
  BY <1>1, <1>7, <1>8, <1>9

\* So what an operation prepares from sound files is what commit needs.
LEMMA PrunedPrunes ==
    ASSUME NEW st, Sound(st), NEW old, NEW f, Holds(f, st), DOMAIN f \subseteq Starts(st)
    PROVE  Prunes(f, Pruned(st, old).st, Pruned(st, old).removed)
<1>1. PICK k \in 0..Len(st.segs) : /\ Pruned(st, old) = Dropped(st, k)
                                   /\ Len(st.segs) - k <= MaxSegments
  BY PrunedIs
<1> QED
  BY <1>1, DroppedFiles

-----------------------------------------------------------------------------
(* Append.                                                                 *)

\* e is st with line h as the last line of segment s, its number m.
Grown(st, m, s, h, e) ==
    /\ DOMAIN e = Fields /\ e.anchor = st.anchor /\ e.head = h
    /\ e.segs \in Seq(Segments) /\ Len(e.segs) = m
    /\ \A j \in 1..(m - 1) : e.segs[j] = st.segs[j]
    /\ e.segs[m].start = s /\ e.segs[m].last = h

\* The segment is the last one of st or a new one after it.
Place(st, m, s) ==
    /\ m \in Nat \ {0}
    /\ \/ m = Len(st.segs) /\ s = st.segs[m].start
       \/ m = Len(st.segs) + 1 /\ s = Len(st.head) + 1

\* CurrentSegment is one of the two.
LEMMA CurrentPlace ==
    ASSUME Sound(mem), NEW old, NEW s, s = CurrentSegment(old)
    PROVE  /\ s \in Nat
           /\ \E m \in Nat : /\ Place(mem, m, s)
                             /\ s \in Starts(mem) <=> m = Len(mem.segs)
<1>1. PICK n \in Nat : n = Len(mem.segs)
  BY StartsOf
<1>2. CASE s = Len(mem.head) + 1
  <2>1. s \notin Starts(mem) /\ s \in Nat
    BY <1>2, StartsOf
  <2>2. n + 1 \in Nat /\ n + 1 # 0 /\ n + 1 # n
    OBVIOUS
  <2> QED
    BY <1>1, <1>2, <2>1, <2>2 DEF Place
<1>3. CASE n # 0 /\ s = mem.segs[n].start
  <2>1. n \in 1..Len(mem.segs)
    BY <1>1, <1>3
  <2>2. s \in Starts(mem) /\ s \in Nat
    BY <1>3, <2>1, StartsOf
  <2> QED
    BY <1>1, <1>3, <2>2 DEF Place
<1> QED
  BY <1>1, <1>2, <1>3 DEF CurrentSegment

\* The state Append prepares.
LEMMA ExtendedGrown ==
    ASSUME Sound(mem), NEW m \in Nat, NEW s, Place(mem, m, s),
           s \in Starts(mem) <=> m = Len(mem.segs), NEW h \in Hashes
    PROVE  Grown(mem, m, s, h, Extended(s, h))
<1>1. PICK n \in Nat : n = Len(mem.segs)
  BY StartsOf
<1> DEFINE kept == IF s \in Starts(mem) THEN Front(mem.segs) ELSE mem.segs
           r == [start |-> s, last |-> h]
           e == Extended(s, h)
<1>2. m # 0 /\ mem.segs \in Seq(Segments) /\ DOMAIN mem = Fields
  BY DEF Place, Sound
<1>3. /\ kept \in Seq(Segments) /\ Len(kept) = m - 1
      /\ \A j \in 1..(m - 1) : kept[j] = mem.segs[j]
  <2>1. CASE m = n
    <3>1. mem.segs # <<>> /\ kept = Front(mem.segs)
      BY <1>1, <1>2, <2>1
    <3> QED
      BY <1>1, <1>2, <2>1, <3>1, FrontOf
  <2>2. CASE m # n
    <3>1. m - 1 = n /\ kept = mem.segs
      BY <1>1, <2>2 DEF Place
    <3> QED
      BY <1>1, <1>2, <3>1
  <2> QED
    BY <2>1, <2>2
<1>4. s \in Nat
  <2>1. CASE m = n
    <3>1. m \in 1..Len(mem.segs) /\ s = mem.segs[m].start
      BY <1>1, <1>2, <2>1 DEF Place
    <3> QED
      BY <3>1, SoundSegment
  <2>2. CASE m # n
    BY <1>1, <2>2, StartsOf DEF Place
  <2> QED
    BY <2>1, <2>2
<1>5. r \in Segments /\ r.start = s /\ r.last = h
  BY <1>4 DEF Segments
<1>6. e = [mem EXCEPT !.head = h, !.segs = Append(kept, r)]
  BY DEF Extended
<1> HIDE DEF kept, r, e
<1>7. DOMAIN e = Fields /\ e.anchor = mem.anchor /\ e.head = h /\ e.segs = Append(kept, r)
  BY <1>2, <1>6 DEF Fields
<1>8. /\ e.segs \in Seq(Segments) /\ Len(e.segs) = m
      /\ \A j \in 1..(m - 1) : e.segs[j] = mem.segs[j]
      /\ e.segs[m] = r
  BY <1>2, <1>3, <1>5, <1>7
<1> QED
  BY <1>5, <1>7, <1>8 DEF Grown, e

\* What precedes a segment is the same before and after.
LEMMA GrownPrevious ==
    ASSUME NEW st, Sound(st), NEW m \in Nat, NEW s, Place(st, m, s), NEW h, NEW e, Grown(st, m, s, h, e)
    PROVE  /\ \A j \in 1..m : Previous(e, j) = Previous(st, j)
           /\ Previous(e, m + 1) = h
           /\ Previous(st, m) \in Hashes /\ IsPrefix(Previous(st, m), st.head)
           /\ s = Len(Previous(st, m)) + 1
<1>1. PICK n \in Nat : n = Len(st.segs)
  BY StartsOf
<1>2. m # 0 /\ (m = n \/ m = n + 1)
  BY <1>1 DEF Place
<1>3. ASSUME NEW j \in 1..m PROVE Previous(e, j) = Previous(st, j)
  <2>1. CASE j = 1
    BY <2>1 DEF Previous, Grown
  <2>2. CASE j # 1
    <3>1. j - 1 \in 1..(m - 1)
      BY <2>2
    <3> QED
      BY <2>2, <3>1 DEF Previous, Grown
  <2> QED
    BY <2>1, <2>2
<1>4. Previous(e, m + 1) = h
  <2>1. m + 1 # 1 /\ (m + 1) - 1 = m
    BY <1>2
  <2> QED
    BY <2>1 DEF Previous, Grown
<1>5. Previous(st, n + 1) = st.head /\ st.head \in Hashes
  BY <1>1 DEF Sound
<1>6. /\ Previous(st, m) \in Hashes /\ IsPrefix(Previous(st, m), st.head)
      /\ s = Len(Previous(st, m)) + 1
  <2>1. CASE m = n
    <3>1. m \in 1..Len(st.segs) /\ s = st.segs[m].start
      BY <1>1, <1>2, <2>1 DEF Place
    <3>2. Previous(st, n + 1) = st.segs[n].last
      <4>1. n + 1 # 1 /\ (n + 1) - 1 = n
        BY <1>2, <2>1
      <4> QED
        BY <4>1 DEF Previous
    <3> QED
      BY <1>5, <2>1, <3>1, <3>2, SoundSegment
  <2>2. CASE m = n + 1
    <3>1. IsPrefix(st.head, st.head)
      BY <1>5, PrefixHash, HashLength
    <3>2. s = Len(st.head) + 1
      BY <1>1, <2>2 DEF Place
    <3> QED
      BY <1>5, <2>2, <3>1, <3>2
  <2> QED
    BY <1>2, <2>1, <2>2
<1> QED
  BY <1>3, <1>4, <1>6

\* The state Append prepares is sound.
LEMMA GrownSound ==
    ASSUME NEW st, Sound(st), NEW m \in Nat, NEW s, Place(st, m, s),
           NEW h \in Hashes, Len(h) = Len(st.head) + 1, IsPrefix(st.head, h),
           NEW e, Grown(st, m, s, h, e)
    PROVE  Sound(e) /\ IsPrefix(Previous(st, m), h)
<1>1. PICK n \in Nat : n = Len(st.segs)
  BY StartsOf
<1>2. m # 0 /\ (m = n \/ m = n + 1)
  BY <1>1 DEF Place
<1>3. /\ DOMAIN e = Fields /\ e.anchor = st.anchor /\ e.head = h
      /\ e.segs \in Seq(Segments) /\ Len(e.segs) = m
      /\ \A j \in 1..(m - 1) : e.segs[j] = st.segs[j]
      /\ e.segs[m].start = s /\ e.segs[m].last = h
  BY DEF Grown
<1>4. /\ \A j \in 1..m : Previous(e, j) = Previous(st, j)
      /\ Previous(e, m + 1) = h
      /\ Previous(st, m) \in Hashes /\ IsPrefix(Previous(st, m), st.head)
      /\ s = Len(Previous(st, m)) + 1
  BY GrownPrevious
<1>5. /\ st.anchor \in Hashes /\ st.head \in Hashes
      /\ Len(st.anchor) \in Nat /\ Len(st.head) \in Nat /\ Len(h) \in Nat
      /\ Len(st.anchor) <= Len(st.head) /\ Len(Previous(st, m)) \in Nat
  BY <1>4, HashLength DEF Sound
<1>6. IsPrefix(Previous(st, m), h) /\ Len(Previous(st, m)) <= Len(st.head)
  <2>1. PICK p \in Hashes : p = Previous(st, m)
    BY <1>4
  <2>2. PICK g \in Hashes : g = st.head
    BY <1>5
  <2>3. Len(p) <= Len(g) /\ \A i \in 1..Len(p) : p[i] = g[i]
    BY <1>4, <2>1, <2>2, PrefixHash
  <2>4. Len(g) <= Len(h) /\ \A i \in 1..Len(g) : g[i] = h[i]
    BY <2>2, PrefixHash
  <2>5. Len(p) \in Nat /\ Len(g) \in Nat
    BY HashLength
  <2>6. Len(p) <= Len(h) /\ \A i \in 1..Len(p) : p[i] = h[i]
    BY <1>5, <2>3, <2>4, <2>5
  <2> QED
    BY <2>1, <2>2, <2>3, <2>6, PrefixHash
<1>7. \A j \in 1..(m - 1) : j \in 1..Len(st.segs) /\ j \in 1..m
  BY <1>1, <1>2
<1>8. s \in Nat /\ s <= Len(h) /\ Len(st.anchor) < s
  <2>1. s \in Nat /\ s <= Len(h)
    BY <1>4, <1>5, <1>6
  <2>2. CASE m = n
    <3>1. m \in 1..Len(st.segs) /\ s = st.segs[m].start
      BY <1>1, <1>2, <2>2 DEF Place
    <3> QED
      BY <2>1, <3>1 DEF Sound
  <2>3. CASE m = n + 1
    <3>1. s = Len(st.head) + 1
      BY <1>1, <2>3 DEF Place
    <3> QED
      BY <1>5, <2>1, <3>1
  <2> QED
    BY <1>2, <2>2, <2>3
<1>9. ASSUME NEW j \in 1..m
      PROVE  /\ e.segs[j].start = Len(Previous(e, j)) + 1
             /\ e.segs[j].start <= Len(e.segs[j].last)
             /\ IsPrefix(Previous(e, j), e.segs[j].last)
             /\ Len(e.anchor) < e.segs[j].start
             /\ Len(e.segs[j].last) <= Len(e.head)
  <2>1. CASE j = m
    BY <1>3, <1>4, <1>5, <1>6, <1>8, <2>1
  <2>2. CASE j # m
    <3>1. j \in 1..(m - 1) /\ j \in 1..Len(st.segs)
      BY <1>7, <2>2
    <3>2. e.segs[j] = st.segs[j] /\ Previous(e, j) = Previous(st, j)
      BY <1>3, <1>4, <3>1
    <3>3. /\ st.segs[j].start = Len(Previous(st, j)) + 1
          /\ st.segs[j].start <= Len(st.segs[j].last)
          /\ IsPrefix(Previous(st, j), st.segs[j].last)
          /\ Len(st.anchor) < st.segs[j].start
          /\ Len(st.segs[j].last) <= Len(st.head)
      BY <3>1 DEF Sound
    <3>4. Len(st.segs[j].last) \in Nat
      BY <3>1, SoundSegment
    <3>5. Len(st.segs[j].last) <= Len(h)
      <4>1. PICK k : k = Len(st.segs[j].last)
        OBVIOUS
      <4>2. k \in Nat /\ k <= Len(st.head)
        BY <3>3, <3>4, <4>1, Zenon
      <4>3. k <= Len(h)
        BY <1>5, <4>2
      <4> QED
        BY <4>1, <4>3, Zenon
    <3> QED
      BY <1>3, <3>2, <3>3, <3>5
  <2> QED
    BY <2>1, <2>2
<1>10. ASSUME NEW i \in 1..m, NEW j \in 1..m, i < j
       PROVE  Len(e.segs[i].last) < e.segs[j].start
  <2>1. i \in 1..(m - 1) /\ i \in 1..Len(st.segs) /\ e.segs[i] = st.segs[i]
    <3>1. i \in 1..(m - 1)
      BY <1>10
    <3> QED
      BY <1>3, <1>7, <3>1
  <2>2. CASE j = m /\ m = n
    <3>1. m \in 1..Len(st.segs) /\ s = st.segs[m].start
      BY <1>1, <1>2, <2>2 DEF Place
    <3>2. Len(st.segs[i].last) < st.segs[m].start
      BY <1>10, <2>1, <2>2, <3>1 DEF Sound
    <3> QED
      BY <1>3, <2>1, <2>2, <3>1, <3>2
  <2>3. CASE j = m /\ m = n + 1
    <3>1. s = Len(st.head) + 1
      BY <1>1, <2>3 DEF Place
    <3>2. Len(st.segs[i].last) <= Len(st.head)
      BY <2>1 DEF Sound
    <3>3. Len(st.segs[i].last) \in Nat
      BY <2>1, SoundSegment
    <3> QED
      BY <1>3, <1>5, <2>1, <2>3, <3>1, <3>2, <3>3
  <2>4. CASE j # m
    <3>1. j \in 1..(m - 1) /\ j \in 1..Len(st.segs)
      BY <1>7, <2>4
    <3>2. e.segs[j] = st.segs[j]
      BY <1>3, <3>1
    <3> QED
      BY <1>10, <2>1, <3>1, <3>2 DEF Sound
  <2> QED
    BY <1>2, <2>2, <2>3, <2>4
<1>11. e.anchor \in Hashes /\ e.head \in Hashes /\ Len(e.anchor) <= Len(e.head)
       /\ e.head = Previous(e, m + 1)
  BY <1>3, <1>4, <1>5
<1>12. Sound(e)
  BY <1>3, <1>9, <1>10, <1>11 DEF Sound
<1> QED
  BY <1>6, <1>12

\* A chain and one line more.
LEMMA ChainAppend ==
    ASSUME NEW p \in Hashes, NEW q \in Hashes, NEW h \in Hashes,
           Len(p) <= Len(q), Len(h) = Len(q) + 1, IsPrefix(q, h)
    PROVE  Append(Chain(p, q), h) = Chain(p, h)
<1>1. Len(p) \in Nat /\ Len(q) \in Nat /\ Len(h) \in Nat
  BY HashLength
<1>2. PICK n \in Nat : n = Len(q) - Len(p)
  <2>1. Len(q) - Len(p) \in Nat
    BY <1>1
  <2> QED
    BY <2>1
<1>3. Len(h) - Len(p) = n + 1 /\ Len(p) <= Len(h)
  BY <1>1, <1>2
<1>4. PICK a \in Seq(Hashes) :
        /\ a = Chain(p, q) /\ Len(a) = n
        /\ \A i \in 1..n : /\ a[i] \in Hashes /\ Len(a[i]) = Len(p) + i
                           /\ \A j \in 1..(Len(p) + i) : a[i][j] = q[j]
  <2>1. /\ Chain(p, q) \in Seq(Hashes) /\ Len(Chain(p, q)) = n
        /\ \A i \in 1..n : /\ Chain(p, q)[i] \in Hashes
                           /\ Len(Chain(p, q)[i]) = Len(p) + i
                           /\ \A j \in 1..(Len(p) + i) : Chain(p, q)[i][j] = q[j]
    BY <1>2, ChainLines
  <2> QED
    BY <2>1
<1>5. PICK b \in Seq(Hashes) :
        /\ b = Chain(p, h) /\ Len(b) = n + 1
        /\ \A i \in 1..(n + 1) : /\ b[i] \in Hashes /\ Len(b[i]) = Len(p) + i
                                 /\ \A j \in 1..(Len(p) + i) : b[i][j] = h[j]
  <2>1. PICK k \in Nat : k = n + 1 /\ Len(h) - Len(p) = k
    BY <1>3
  <2>a. k = Len(h) - Len(p) /\ Len(p) <= Len(h)
    BY <1>3, <2>1
  <2>2. /\ Chain(p, h) \in Seq(Hashes) /\ Len(Chain(p, h)) = k
        /\ \A i \in 1..k : /\ Chain(p, h)[i] \in Hashes
                            /\ Len(Chain(p, h)[i]) = Len(p) + i
                            /\ \A j \in 1..(Len(p) + i) : Chain(p, h)[i][j] = h[j]
    BY <2>a, ChainLines
  <2> QED
    BY <2>1, <2>2
<1>6. \A j \in 1..Len(q) : q[j] = h[j]
  BY PrefixHash
<1>7. PICK c \in Seq(Hashes) : /\ c = Append(a, h) /\ Len(c) = n + 1 /\ c[n + 1] = h
                               /\ \A i \in 1..n : c[i] = a[i]
  <2>1. /\ Append(a, h) \in Seq(Hashes) /\ Len(Append(a, h)) = n + 1
        /\ Append(a, h)[n + 1] = h /\ \A i \in 1..n : Append(a, h)[i] = a[i]
    BY <1>4
  <2> QED
    BY <2>1
<1>8. ASSUME NEW i \in 1..(n + 1) PROVE c[i] = b[i]
  <2>1. PICK l \in Nat : l = Len(p) + i
    <3>1. Len(p) + i \in Nat
      BY <1>1
    <3> QED
      BY <3>1
  <2>2. PICK y \in Hashes : y = b[i] /\ Len(y) = l /\ \A j \in 1..l : y[j] = h[j]
    BY <1>5, <2>1
  <2>3. CASE i = n + 1
    <3>1. Len(h) = l
      BY <1>1, <1>2, <2>1, <2>3
    <3>2. y = h
      BY <2>2, <3>1, SameHash
    <3> QED
      BY <1>7, <2>2, <2>3, <3>2
  <2>4. CASE i # n + 1
    <3>1. i \in 1..n
      BY <2>4
    <3>2. PICK x \in Hashes : x = a[i] /\ Len(x) = l /\ \A j \in 1..l : x[j] = q[j]
      BY <1>4, <2>1, <3>1
    <3>3. \A j \in 1..l : j \in 1..Len(q)
      BY <1>1, <1>2, <2>1, <3>1
    <3>4. x = y
      <4>1. \A j \in 1..l : x[j] = y[j]
        BY <1>6, <2>2, <3>2, <3>3
      <4> QED
        BY <2>2, <3>2, <4>1, SameHash
    <3> QED
      BY <1>7, <2>2, <3>1, <3>2, <3>4
  <2> QED
    BY <2>3, <2>4
<1>9. c = b
  BY <1>5, <1>7, <1>8, SameSequence
<1> QED
  BY <1>4, <1>5, <1>7, <1>9

\* A chain from a hash to itself is empty.
LEMMA ChainEmpty ==
    ASSUME NEW p \in Hashes
    PROVE  Chain(p, p) = <<>>
<1>1. Len(p) \in Nat /\ Len(p) <= Len(p) /\ Len(p) - Len(p) = 0
  BY HashLength
<1>2. Chain(p, p) \in Seq(Hashes) /\ Len(Chain(p, p)) = 0
  BY <1>1, ChainLines
<1> QED
  BY <1>2

\* What the checkpoint commits to the segment a line goes to.
LEMMA PlaceFile ==
    ASSUME NEW st, Sound(st), NEW m \in Nat, NEW s, Place(st, m, s), m = Len(st.segs),
           NEW f, Holds(f, st)
    PROVE  /\ s \in DOMAIN f
           /\ f[s] = [lines |-> Chain(Previous(st, m), st.head), torn |-> FALSE]
<1>1. PICK n \in Nat : n = Len(st.segs)
  BY StartsOf
<1>2. m \in 1..Len(st.segs) /\ s = st.segs[m].start
  BY <1>1 DEF Place
<1>3. st.segs[m].last = st.head
  <2>1. st.head = Previous(st, m + 1)
    BY DEF Sound
  <2>2. m + 1 # 1 /\ (m + 1) - 1 = m
    BY <1>2
  <2> QED
    BY <2>1, <2>2 DEF Previous
<1> QED
  BY <1>2, <1>3 DEF Holds

\* One more line in a file.
LEMMA LineAdded ==
    ASSUME NEW f, NEW a, NEW t, f = [lines |-> a, torn |-> t], NEW h, NEW b, Append(a, h) = b
    PROVE  [f EXCEPT !.lines = Append(@, h)] = [lines |-> b, torn |-> t]
  OBVIOUS

\* The file after the write of the line.
WithLine(s, h) == [Before(s) EXCEPT !.lines = Append(@, h)]

\* It holds the lines of the segment up to the new head.
LEMMA AppendFile ==
    ASSUME Sound(mem), Holds(disk, mem), NEW m \in Nat, NEW s, Place(mem, m, s),
           s \in Starts(mem) <=> m = Len(mem.segs),
           NEW h \in Hashes, Len(h) = Len(mem.head) + 1, IsPrefix(mem.head, h)
    PROVE  WithLine(s, h) = [lines |-> Chain(Previous(mem, m), h), torn |-> FALSE]
<1>0. PICK f : f = Before(s)
  OBVIOUS
<1> SUFFICES [f EXCEPT !.lines = Append(@, h)]
               = [lines |-> Chain(Previous(mem, m), h), torn |-> FALSE]
  BY <1>0, Zenon DEF WithLine
<1>t. PICK t : t = FALSE
  OBVIOUS
<1>1. mem.head \in Hashes /\ Len(mem.head) \in Nat /\ Len(mem.head) <= Len(mem.head)
  BY HashLength DEF Sound
<1>2. CASE m = Len(mem.segs)
  <2>1. Before(s) = [lines |-> Chain(Previous(mem, m), mem.head), torn |-> FALSE]
    BY <1>2, PlaceFile DEF Before
  <2>2. Previous(mem, m) \in Hashes /\ Len(Previous(mem, m)) <= Len(mem.head)
    <3>1. m \in 1..Len(mem.segs)
      BY <1>2 DEF Place
    <3>2. Previous(mem, m) \in Hashes /\ Len(Previous(mem, m)) < Len(mem.segs[m].last)
          /\ Len(Previous(mem, m)) \in Nat /\ Len(mem.segs[m].last) \in Nat
      BY <3>1, SoundSegment
    <3>3. Len(mem.segs[m].last) <= Len(mem.head)
      BY <3>1 DEF Sound
    <3> QED
      BY <1>1, <3>2, <3>3
  <2>3. Append(Chain(Previous(mem, m), mem.head), h) = Chain(Previous(mem, m), h)
    BY <1>1, <2>2, ChainAppend
  <2> QED
    <3>1. f = [lines |-> Chain(Previous(mem, m), mem.head), torn |-> t]
      BY <1>0, <1>t, <2>1, Zenon
    <3>2. [f EXCEPT !.lines = Append(@, h)] = [lines |-> Chain(Previous(mem, m), h), torn |-> t]
      <4>1. PICK a : a = Chain(Previous(mem, m), mem.head)
        OBVIOUS
      <4>2. PICK b : b = Chain(Previous(mem, m), h)
        OBVIOUS
      <4>3. f = [lines |-> a, torn |-> t] /\ Append(a, h) = b
        BY <2>3, <3>1, <4>1, <4>2, Zenon
      <4>4. [f EXCEPT !.lines = Append(@, h)] = [lines |-> b, torn |-> t]
        BY ONLY <4>3, SMTT(20)
      <4> QED
        BY <4>2, <4>4, Zenon
    <3> QED
      BY <1>t, <3>2, Zenon
<1>3. CASE m # Len(mem.segs)
  <2>1. Before(s) = [lines |-> <<>>, torn |-> FALSE]
    BY <1>3 DEF Before, NewFile
  <2>2. Previous(mem, m) = mem.head
    BY <1>3 DEF Place, Sound
  <2>3. Append(Chain(mem.head, mem.head), h) = Chain(mem.head, h)
    BY <1>1, ChainAppend
  <2>4. Append(<<>>, h) = Chain(mem.head, h)
    BY <1>1, <2>3, ChainEmpty
  <2> QED
    <3>1. f = [lines |-> <<>>, torn |-> t]
      BY <1>0, <1>t, <2>1, Zenon
    <3>2. [f EXCEPT !.lines = Append(@, h)] = [lines |-> Chain(mem.head, h), torn |-> t]
      BY <2>4, <3>1, LineAdded
    <3> QED
      BY <1>t, <2>2, <3>2, Zenon
<1> QED
  BY <1>2, <1>3

\* The directory after the write holds what Append will commit.
LEMMA GrownFiles ==
    ASSUME NEW st, Sound(st), NEW m \in Nat, NEW s, Place(st, m, s),
           NEW h, NEW e, Grown(st, m, s, h, e), Sound(e),
           NEW f, Holds(f, st), DOMAIN f \subseteq Starts(st),
           NEW g, DOMAIN g = DOMAIN f \union {s}, \A t \in DOMAIN f \ {s} : g[t] = f[t],
           g[s] = [lines |-> Chain(Previous(st, m), h), torn |-> FALSE]
    PROVE  Holds(g, e) /\ DOMAIN g \subseteq Starts(e)
<1>1. PICK n \in Nat : n = Len(st.segs)
  BY StartsOf
<1>2. m # 0 /\ (m = n \/ m = n + 1) /\ (m = n => s = st.segs[m].start)
  BY <1>1 DEF Place
<1>3. /\ Len(e.segs) = m
      /\ \A j \in 1..(m - 1) : e.segs[j] = st.segs[j]
      /\ e.segs[m].start = s /\ e.segs[m].last = h
      /\ \A j \in 1..m : Previous(e, j) = Previous(st, j)
  BY GrownPrevious DEF Grown
<1>4. m \in 1..m /\ \A j \in 1..(m - 1) : j \in 1..Len(st.segs) /\ j \in 1..m
  BY <1>1, <1>2
<1>5. Holds(g, e)
  <2> SUFFICES ASSUME NEW j \in 1..m
               PROVE  /\ e.segs[j].start \in DOMAIN g
                      /\ g[e.segs[j].start]
                           = [lines |-> Chain(Previous(e, j), e.segs[j].last), torn |-> FALSE]
    BY <1>3 DEF Holds
  <2>1. CASE j = m
    BY <1>3, <1>4, <2>1
  <2>2. CASE j # m
    <3>1. j \in 1..(m - 1) /\ j \in 1..Len(st.segs)
      BY <1>4, <2>2
    <3>2. e.segs[j] = st.segs[j] /\ Previous(e, j) = Previous(st, j)
      BY <1>3, <3>1
    <3>3. /\ st.segs[j].start \in DOMAIN f
          /\ f[st.segs[j].start]
               = [lines |-> Chain(Previous(st, j), st.segs[j].last), torn |-> FALSE]
      BY <3>1 DEF Holds
    <3>4. e.segs[j].start # s
      BY <1>3, <1>4, <2>2, StartsOf
    <3> QED
      BY <3>2, <3>3, <3>4
  <2> QED
    BY <2>1, <2>2
<1>6. s \in Starts(e) /\ \A j \in 1..m : e.segs[j].start \in Starts(e)
  BY <1>3, <1>4, StartsOf
<1>7. ASSUME NEW t \in DOMAIN f PROVE t \in Starts(e)
  <2>1. PICK i \in 1..n : t = st.segs[i].start
    BY <1>1, StartsOf
  <2>2. CASE i = m
    BY <1>2, <1>6, <2>1, <2>2
  <2>3. CASE i # m
    <3>1. i \in 1..(m - 1)
      BY <1>2, <2>3
    <3> QED
      BY <1>3, <1>4, <1>6, <2>1, <3>1
  <2> QED
    BY <2>2, <2>3
<1> QED
  BY <1>5, <1>6, <1>7

\* A directory with a file that is not the one the checkpoint commits, or with a
\* file it does not know, is not clean.
LEMMA Dirty ==
    ASSUME NEW st, Sound(st), NEW m \in Nat, NEW s, Place(st, m, s),
           NEW g, s \in DOMAIN g,
           m = Len(st.segs) =>
             g[s] # [lines |-> Chain(Previous(st, m), st.head), torn |-> FALSE]
    PROVE  ~Clean(g, st)
<1>1. CASE m = Len(st.segs)
  BY <1>1, PlaceFile DEF Clean
<1>2. CASE m # Len(st.segs)
  <2>1. s = Len(st.head) + 1
    BY <1>2 DEF Place
  <2>2. Len(st.anchor) <= Len(st.head) /\ Len(st.anchor) \in Nat /\ Len(st.head) \in Nat
    BY StartsOf DEF Sound
  <2>3. s \notin Starts(st)
    BY <2>1, <2>2, StartsOf
  <2>4. ~(s <= Len(st.anchor))
    BY <2>1, <2>2
  <2> QED
    BY <2>3, <2>4 DEF Clean
<1> QED
  BY <1>1, <1>2

\* A line more makes another file.
LEMMA LongerChain ==
    ASSUME NEW p \in Hashes, NEW q \in Hashes, NEW h \in Hashes,
           Len(p) <= Len(q), Len(h) = Len(q) + 1
    PROVE  Chain(p, h) # Chain(p, q)
<1>1. Len(p) \in Nat /\ Len(q) \in Nat /\ Len(h) \in Nat /\ Len(p) <= Len(h)
  BY HashLength
<1>2. Len(Chain(p, h)) = Len(h) - Len(p) /\ Len(Chain(p, q)) = Len(q) - Len(p)
  BY <1>1, ChainLines
<1> QED
  BY <1>1, <1>2

-----------------------------------------------------------------------------
(* Directories.                                                            *)

\* A file is written.
LEMMA WithFile ==
    ASSUME Directory(disk), NEW s \in Nat, NEW f \in Files
    PROVE  /\ Directory(With(s, f))
           /\ DOMAIN With(s, f) = DOMAIN disk \union {s}
           /\ With(s, f)[s] = f /\ \A t \in DOMAIN disk \ {s} : With(s, f)[t] = disk[t]
           /\ Cardinality(DOMAIN With(s, f)) <= Cardinality(DOMAIN disk) + 1
           /\ s \in DOMAIN disk => Cardinality(DOMAIN With(s, f)) <= Cardinality(DOMAIN disk)
<1>1. /\ DOMAIN With(s, f) = DOMAIN disk \union {s}
      /\ With(s, f)[s] = f /\ \A t \in DOMAIN disk \ {s} : With(s, f)[t] = disk[t]
  BY DEF With
<1>2. With(s, f) \in [DOMAIN disk \union {s} -> Files]
  BY DEF With, Directory
<1>3. IsFiniteSet(DOMAIN disk) /\ Cardinality(DOMAIN disk) \in Nat
  BY FS_CardinalityType DEF Directory
<1>4. /\ IsFiniteSet(DOMAIN disk \union {s})
      /\ Cardinality(DOMAIN disk \union {s})
           = IF s \in DOMAIN disk THEN Cardinality(DOMAIN disk) ELSE Cardinality(DOMAIN disk) + 1
  BY <1>3, FS_AddElement
<1>5. Directory(With(s, f))
  BY <1>1, <1>2, <1>4 DEF Directory
<1> QED
  BY <1>1, <1>3, <1>4, <1>5

\* Files are removed.
LEMMA WithoutFiles ==
    ASSUME Directory(disk), NEW S
    PROVE  /\ Directory(Without(S))
           /\ DOMAIN Without(S) = DOMAIN disk \ S
           /\ \A t \in DOMAIN disk \ S : Without(S)[t] = disk[t]
           /\ Cardinality(DOMAIN Without(S)) <= Cardinality(DOMAIN disk)
<1>1. /\ DOMAIN Without(S) = DOMAIN disk \ S
      /\ \A t \in DOMAIN disk \ S : Without(S)[t] = disk[t]
  BY DEF Without
<1>2. Without(S) \in [DOMAIN disk \ S -> Files]
  BY DEF Without, Directory
<1>3. DOMAIN disk \ S \in SUBSET DOMAIN disk /\ IsFiniteSet(DOMAIN disk)
  BY DEF Directory
<1>4. IsFiniteSet(DOMAIN disk \ S) /\ Cardinality(DOMAIN disk \ S) <= Cardinality(DOMAIN disk)
  BY <1>3, FS_Subset
<1>5. Directory(Without(S))
  BY <1>1, <1>2, <1>4 DEF Directory
<1> QED
  BY <1>1, <1>4, <1>5

\* Removing what is no segment of a checkpoint leaves its files alone.
LEMMA HoldsWithout ==
    ASSUME Directory(disk), NEW st, Sound(st), Holds(disk, st), NEW S, S \intersect Starts(st) = {}
    PROVE  Holds(Without(S), st)
<1> SUFFICES ASSUME NEW k \in 1..Len(st.segs)
             PROVE  /\ st.segs[k].start \in DOMAIN Without(S)
                    /\ Without(S)[st.segs[k].start] = disk[st.segs[k].start]
  BY DEF Holds
<1>1. st.segs[k].start \in DOMAIN disk /\ st.segs[k].start \notin S
  BY StartsOf DEF Holds
<1> QED
  BY <1>1, WithoutFiles

-----------------------------------------------------------------------------
(* The invariant is kept: operations.                                      *)

\* The hash of an entry after another hash.
LEMMA NextHash ==
    ASSUME NEW g \in Hashes, NEW e \in Events
    PROVE  /\ Append(g, e) \in Hashes /\ Len(Append(g, e)) = Len(g) + 1
           /\ Append(g, e) # g /\ IsPrefix(g, Append(g, e))
<1>1. Append(g, e) \in Hashes /\ Len(Append(g, e)) = Len(g) + 1 /\ Len(g) \in Nat
      /\ \A i \in 1..Len(g) : g[i] = Append(g, e)[i]
  BY DEF Hashes
<1>2. Len(g) <= Len(Append(g, e)) /\ Append(g, e) # g
  BY <1>1
<1> QED
  BY <1>1, <1>2, PrefixHash

\* Where an operation may begin.
LEMMA ReadyFacts ==
    ASSUME RecoveryInv, LogInv, Ready
    PROVE  /\ status = "open" /\ pc = "idle" /\ ~fault
           /\ mem = state /\ state # NoState /\ Kept(state) /\ Sound(mem)
           /\ Holds(disk, mem) /\ DOMAIN disk \subseteq Starts(mem)
           /\ Clean(disk, state)
           /\ Cardinality(DOMAIN disk) <= MaxSegments
           /\ ~damaged => ~cut
           /\ mem.head \in Hashes
<1>1. status = "open" /\ pc = "idle" /\ ~fault /\ state # NoState
  BY DEF Ready, RecoveryInv, StateInv
<1>2. mem = state /\ Kept(state) /\ Holds(disk, state) /\ DOMAIN disk \subseteq Starts(state)
  BY <1>1 DEF RecoveryInv, StateInv, ReadyInv
<1>3. Sound(state) /\ Len(state.segs) <= MaxSegments /\ Len(state.segs) \in Nat /\ state.head \in Hashes
  BY <1>2, StartsOf DEF Kept, Sound
<1>4. Cardinality(DOMAIN disk) <= MaxSegments
  <2>1. IsFiniteSet(Starts(state)) /\ Cardinality(Starts(state)) <= Len(state.segs)
    BY <1>3, StartsCount
  <2>2. DOMAIN disk \in SUBSET Starts(state)
    BY <1>2
  <2>3. /\ Cardinality(Starts(state)) \in Nat /\ Cardinality(DOMAIN disk) \in Nat
        /\ Cardinality(DOMAIN disk) <= Cardinality(Starts(state))
    BY <2>1, <2>2, FS_Subset, FS_CardinalityType
  <2> QED
    BY <1>3, <2>1, <2>3, HubAuditAssumption
<1>5. Clean(disk, state)
  BY <1>2 DEF Clean
<1>6. ~damaged => ~cut
  BY <1>1 DEF RecoveryInv, CauseInv
<1> QED
  BY <1>1, <1>2, <1>3, <1>4, <1>5, <1>6

\* The bound of the files is an integer.
LEMMA Count ==
    ASSUME NEW d, Directory(d)
    PROVE  Cardinality(DOMAIN d) \in Nat /\ MaxSegments \in Nat
  BY FS_CardinalityType, HubAuditAssumption DEF Directory

\* The segment file a line goes to, before the write.
LEMMA BeforeFile ==
    ASSUME Directory(disk), Sound(mem), Holds(disk, mem), NEW s
    PROVE  /\ s \in Starts(mem) => s \in DOMAIN disk
           /\ Before(s) \in Files
<1>1. ASSUME s \in Starts(mem) PROVE s \in DOMAIN disk
  <2>1. PICK k \in 1..Len(mem.segs) : s = mem.segs[k].start
    BY <1>1, StartsOf
  <2> QED
    BY <2>1 DEF Holds
<1>2. NewFile \in Files
  <2>1. <<>> \in Seq(Hashes)
    OBVIOUS
  <2> QED
    BY <2>1 DEF NewFile, Files
<1>3. \A t \in DOMAIN disk : disk[t] \in Files
  BY DEF Directory
<1> QED
  BY <1>1, <1>2, <1>3 DEF Before

\* Append writes its line: what it prepares matches the files, and without its
\* checkpoint the line would keep the log from being opened.
LEMMA AppendEntryRecovers ==
    ASSUME RecoveryInv, LogInv, NEW e \in Events, NEW old, AppendEntry(e, old)
    PROVE  RecoveryInv'
<1>1. Ready
  BY DEF AppendEntry
<1>2. /\ status = "open" /\ pc = "idle" /\ ~fault
      /\ mem = state /\ state # NoState /\ Kept(state) /\ Sound(mem)
      /\ Holds(disk, mem) /\ DOMAIN disk \subseteq Starts(mem)
      /\ Cardinality(DOMAIN disk) <= MaxSegments
      /\ ~damaged => ~cut
      /\ mem.head \in Hashes
  BY <1>1, ReadyFacts
<1>3. PICK h \in Hashes : /\ h = Append(mem.head, e) /\ Len(h) = Len(mem.head) + 1
                          /\ h # mem.head /\ IsPrefix(mem.head, h)
  BY <1>2, NextHash
<1>4. PICK s \in Nat : s = CurrentSegment(old)
  BY <1>2, CurrentPlace
<1>5. PICK m \in Nat : Place(mem, m, s) /\ (s \in Starts(mem) <=> m = Len(mem.segs))
  BY <1>2, <1>4, CurrentPlace
<1>6. PICK x : x = Extended(s, h)
  OBVIOUS
<1>7. Grown(mem, m, s, h, x)
  BY <1>2, <1>5, <1>6, ExtendedGrown
<1>8. Sound(x) /\ IsPrefix(Previous(mem, m), h)
  BY <1>2, <1>3, <1>5, <1>7, GrownSound
<1>9. PICK f : f = WithLine(s, h)
  OBVIOUS
<1>10. f = [lines |-> Chain(Previous(mem, m), h), torn |-> FALSE]
  BY <1>2, <1>3, <1>5, <1>9, AppendFile
<1>11. /\ disk' = With(s, f)
       /\ next' = Pruned(x, old).st /\ removed' = Pruned(x, old).removed
       /\ pc' = "commit"
       /\ UNCHANGED <<state, tmp, mem, fault, status, acked, cut, damaged, refused>>
  BY <1>3, <1>4, <1>6, <1>9 DEF AppendEntry, history, WithLine
<1>12. Directory(disk)
  BY DEF RecoveryInv, FileTypes
<1>13. /\ Previous(mem, m) \in Hashes /\ Len(Previous(mem, m)) \in Nat
       /\ Len(Previous(mem, m)) <= Len(mem.head) /\ Len(mem.head) \in Nat
  <2>1. Previous(mem, m) \in Hashes /\ IsPrefix(Previous(mem, m), mem.head)
    BY <1>2, <1>5, <1>7, GrownPrevious
  <2> QED
    BY <1>2, <2>1, PrefixHash, HashLength
<1>14. f \in Files
  <2>0. Len(Previous(mem, m)) <= Len(h)
    BY <1>3, <1>13
  <2>1. Chain(Previous(mem, m), h) \in Seq(Hashes)
    BY <1>13, <2>0, ChainLines
  <2> QED
    BY <1>10, <2>1 DEF Files
<1>15. /\ Directory(disk') /\ DOMAIN disk' = DOMAIN disk \union {s}
       /\ disk'[s] = f /\ \A t \in DOMAIN disk \ {s} : disk'[t] = disk[t]
       /\ Cardinality(DOMAIN disk') <= Cardinality(DOMAIN disk) + 1
  BY <1>11, <1>12, <1>14, WithFile
<1>16. Holds(disk', x) /\ DOMAIN disk' \subseteq Starts(x)
  BY <1>2, <1>5, <1>7, <1>8, <1>10, <1>15, GrownFiles
<1>17. Prunes(disk', next', removed')
  BY <1>8, <1>11, <1>16, PrunedPrunes
<1>18. ~Clean(disk', state)
  <2>1. Chain(Previous(mem, m), h) # Chain(Previous(mem, m), mem.head)
    BY <1>2, <1>3, <1>13, LongerChain
  <2>2. f # [lines |-> Chain(Previous(mem, m), mem.head), torn |-> FALSE]
    BY <1>10, <2>1
  <2>3. s \in DOMAIN disk' /\ Sound(state)
    BY <1>2, <1>15
  <2> QED
    BY <1>2, <1>5, <1>15, <2>2, <2>3, Dirty
<1>19. next'.head # state.head
  <2>1. DOMAIN x = Fields /\ x.head = h
    BY <1>7 DEF Grown
  <2> QED
    BY <1>2, <1>3, <1>11, <2>1, PrunedHead
<1>20. FileTypes'
  BY <1>11, <1>15 DEF RecoveryInv, FileTypes, Directory
<1>21. StateInv'
  BY <1>11 DEF RecoveryInv, StateInv, Kept, Sound, Previous
<1>22. ReadyInv' /\ RemoveInv'
  BY <1>11 DEF ReadyInv, RemoveInv, Ready
<1>23. CommitInv'
  BY <1>11, <1>17, <1>18, <1>19 DEF CommitInv
<1>24. CauseInv'
  BY <1>2, <1>11 DEF RecoveryInv, CauseInv
<1>25. FilesBounded'
  <2>1. Cardinality(DOMAIN disk) \in Nat /\ Cardinality(DOMAIN disk') \in Nat /\ MaxSegments \in Nat
    BY <1>12, <1>15, Count
  <2> QED
    BY <1>2, <1>15, <2>1 DEF FilesBounded
<1> QED
  BY <1>20, <1>21, <1>22, <1>23, <1>24, <1>25 DEF RecoveryInv

\* Append fails: a line or a part of it, or a new file, keeps the log from being
\* opened again; if nothing was written it can be.
LEMMA AppendFailsRecovers ==
    ASSUME RecoveryInv, LogInv, NEW e \in Events, NEW old, AppendFails(e, old)
    PROVE  RecoveryInv'
<1>1. Ready
  BY DEF AppendFails
<1>2. /\ status = "open" /\ pc = "idle" /\ ~fault
      /\ mem = state /\ state # NoState /\ Kept(state) /\ Sound(mem)
      /\ Holds(disk, mem) /\ DOMAIN disk \subseteq Starts(mem) /\ Clean(disk, state)
      /\ Cardinality(DOMAIN disk) <= MaxSegments
      /\ ~damaged => ~cut
      /\ mem.head \in Hashes
  BY <1>1, ReadyFacts
<1>3. PICK h \in Hashes : /\ h = Append(mem.head, e) /\ Len(h) = Len(mem.head) + 1
                          /\ h # mem.head /\ IsPrefix(mem.head, h)
  BY <1>2, NextHash
<1>4. PICK s \in Nat : s = CurrentSegment(old)
  BY <1>2, CurrentPlace
<1>5. PICK m \in Nat : Place(mem, m, s) /\ (s \in Starts(mem) <=> m = Len(mem.segs))
  BY <1>2, <1>4, CurrentPlace
<1>6. Directory(disk) /\ Cardinality(DOMAIN disk) \in Nat /\ MaxSegments \in Nat
  BY Count DEF RecoveryInv, FileTypes
<1>7. /\ fault' = TRUE
      /\ UNCHANGED <<state, tmp, mem, pc, next, removed, status, acked, damaged, refused>>
  BY DEF AppendFails
<1> DEFINE part == [Before(s) EXCEPT !.torn = TRUE]
           good == [lines |-> Chain(Previous(mem, m), mem.head), torn |-> FALSE]
<1>8. \/ UNCHANGED <<disk, cut>>
      \/ /\ \E f \in {Before(s), part, WithLine(s, h)} : disk' = With(s, f)
         /\ cut' = (cut \/ disk' # disk)
  BY <1>3, <1>4 DEF AppendFails, WithLine
<1>9. Before(s) \in Files /\ (s \in Starts(mem) => s \in DOMAIN disk)
  BY <1>2, <1>6, BeforeFile
<1>10. part \in Files /\ part.torn
  <2>1. Before(s).lines \in Seq(Hashes) /\ DOMAIN Before(s) = {"lines", "torn"}
    BY <1>9 DEF Files
  <2> QED
    BY <1>9, <2>1 DEF Files
<1> HIDE DEF part
<1>11. WithLine(s, h) \in Files /\ WithLine(s, h) # good
  <2>1. WithLine(s, h) = [lines |-> Chain(Previous(mem, m), h), torn |-> FALSE]
    BY <1>2, <1>3, <1>5, AppendFile
  <2>2. /\ Previous(mem, m) \in Hashes /\ Len(Previous(mem, m)) \in Nat
        /\ Len(Previous(mem, m)) <= Len(mem.head) /\ Len(mem.head) \in Nat
    <3>1. Previous(mem, m) \in Hashes /\ IsPrefix(Previous(mem, m), mem.head)
      <4>1. Grown(mem, m, s, h, Extended(s, h))
        BY <1>2, <1>5, ExtendedGrown
      <4> QED
        BY <1>2, <1>5, <4>1, GrownPrevious
    <3> QED
      BY <1>2, <3>1, PrefixHash, HashLength
  <2>3. Len(Previous(mem, m)) <= Len(h)
    BY <1>3, <2>2
  <2>4. Chain(Previous(mem, m), h) \in Seq(Hashes)
    BY <2>2, <2>3, ChainLines
  <2>5. Chain(Previous(mem, m), h) # Chain(Previous(mem, m), mem.head)
    BY <1>2, <1>3, <2>2, LongerChain
  <2> QED
    BY <2>1, <2>4, <2>5 DEF Files
<1>12. ASSUME NEW f \in Files, disk' = With(s, f),
              s \in Starts(mem) => f # good \/ f = disk[s]
       PROVE  /\ Directory(disk') /\ Cardinality(DOMAIN disk') <= MaxSegments + 1
              /\ disk' # disk => ~Clean(disk', state)
  <2>1. /\ Directory(disk') /\ DOMAIN disk' = DOMAIN disk \union {s}
        /\ disk'[s] = f /\ \A t \in DOMAIN disk \ {s} : disk'[t] = disk[t]
        /\ Cardinality(DOMAIN disk') <= Cardinality(DOMAIN disk) + 1
    BY <1>6, <1>12, WithFile
  <2>2. Cardinality(DOMAIN disk') \in Nat
    BY <2>1, Count
  <2>3. Cardinality(DOMAIN disk') <= MaxSegments + 1
    BY <1>2, <1>6, <2>1, <2>2
  <2>4. ASSUME disk' # disk PROVE ~Clean(disk', state)
    <3>1. CASE s \in Starts(mem) /\ f = disk[s]
      <4>1. DOMAIN disk' = DOMAIN disk /\ \A t \in DOMAIN disk : disk'[t] = disk[t]
        BY <1>9, <2>1, <3>1
      <4>2. disk' = disk
        BY <1>6, <2>1, <4>1 DEF Directory
      <4> QED
        BY <2>4, <4>2
    <3>2. CASE s \notin Starts(mem) \/ f # good
      <4>1. s \in DOMAIN disk' /\ (m = Len(mem.segs) => disk'[s] # good)
        BY <1>5, <2>1, <3>2
      <4> QED
        BY <1>2, <1>5, <4>1, Dirty
    <3> QED
      BY <1>12, <3>1, <3>2
  <2> QED
    BY <2>1, <2>3, <2>4
<1>13. /\ Directory(disk') /\ Cardinality(DOMAIN disk') <= MaxSegments + 1
       /\ disk' # disk => ~Clean(disk', state)
  <2>1. CASE UNCHANGED disk
    BY <1>2, <1>6, <2>1
  <2>2. CASE disk' = With(s, Before(s))
    <3>1. s \in Starts(mem) => Before(s) = disk[s]
      BY DEF Before
    <3> QED
      BY <1>9, <1>12, <2>2, <3>1
  <2>3. CASE disk' = With(s, part)
    BY <1>10, <1>12, <2>3
  <2>4. CASE disk' = With(s, WithLine(s, h))
    BY <1>11, <1>12, <2>4
  <2> QED
    BY <1>8, <2>1, <2>2, <2>3, <2>4
<1>14. cut' = (cut \/ disk' # disk)
  BY <1>8 DEF RecoveryInv, FileTypes
<1>15. FileTypes'
  BY <1>7, <1>13, <1>14 DEF RecoveryInv, FileTypes, Directory
<1>16. StateInv'
  BY <1>7 DEF RecoveryInv, StateInv, Kept, Sound, Previous
<1>17. ReadyInv' /\ CommitInv' /\ RemoveInv'
  BY <1>2, <1>7 DEF ReadyInv, CommitInv, RemoveInv, Ready
<1>18. CauseInv'
  <2>1. ASSUME ~damaged' PROVE Openable' <=> ~cut'
    <3>1. ~cut /\ state' # NoState /\ state' = state
      BY <1>2, <1>7, <2>1
    <3>2. Openable' <=> Clean(disk', state)
      BY <3>1 DEF Openable
    <3>3. CASE disk' = disk
      BY <1>2, <1>14, <3>1, <3>2, <3>3
    <3>4. CASE disk' # disk
      BY <1>13, <1>14, <3>2, <3>4
    <3> QED
      BY <3>3, <3>4
  <2>2. refused' => cut' \/ damaged'
    BY <1>7, <1>14 DEF RecoveryInv, CauseInv
  <2> QED
    BY <1>7, <2>1, <2>2 DEF CauseInv
<1>19. FilesBounded'
  BY <1>13 DEF FilesBounded
<1> QED
  BY <1>15, <1>16, <1>17, <1>18, <1>19 DEF RecoveryInv

\* PurgeExpired prepares a checkpoint with the same head: until it is written the
\* old one still matches the files.
LEMMA PurgeExpiredRecovers ==
    ASSUME RecoveryInv, LogInv, NEW old, PurgeExpired(old)
    PROVE  RecoveryInv'
<1>1. Ready
  BY DEF PurgeExpired
<1>2. /\ status = "open" /\ pc = "idle" /\ ~fault
      /\ mem = state /\ Sound(mem)
      /\ Holds(disk, mem) /\ DOMAIN disk \subseteq Starts(mem) /\ Clean(disk, state)
  BY <1>1, ReadyFacts
<1>3. /\ next' = Pruned(mem, old).st /\ removed' = Pruned(mem, old).removed /\ pc' = "commit"
      /\ UNCHANGED <<disk, state, tmp, mem, fault, status, cut, damaged, refused>>
  BY DEF PurgeExpired, files, history
<1>4. Prunes(disk, next', removed')
  BY <1>2, <1>3, PrunedPrunes
<1>5. next'.head = state.head
  <2>1. DOMAIN mem = Fields
    BY <1>2 DEF Sound
  <2> QED
    BY <1>2, <1>3, <2>1, PrunedHead
<1>6. CommitInv'
  BY <1>2, <1>3, <1>4, <1>5 DEF CommitInv
<1>7. ReadyInv' /\ RemoveInv'
  BY <1>3 DEF ReadyInv, RemoveInv, Ready
<1>8. FileTypes' /\ StateInv' /\ FilesBounded'
  BY <1>3 DEF RecoveryInv, FileTypes, Directory, StateInv, Kept, Sound, Previous, FilesBounded
<1>9. CauseInv'
  BY <1>2, <1>3 DEF RecoveryInv, CauseInv
<1> QED
  BY <1>6, <1>7, <1>8, <1>9 DEF RecoveryInv

-----------------------------------------------------------------------------
(* The invariant is kept: commit.                                          *)

\* What commit leaves to remove is older than the anchor.
LEMMA PrunesClean ==
    ASSUME NEW d, NEW st, NEW doomed, Prunes(d, st, doomed)
    PROVE  Clean(d, st) /\ Kept(st) /\ st # NoState
<1>1. Kept(st) /\ DOMAIN st = Fields
  BY DEF Prunes, Kept, Sound
<1>2. st # NoState
  BY <1>1 DEF NoState, Fields
<1>3. Clean(d, st)
  BY DEF Prunes, Clean
<1> QED
  BY <1>1, <1>2, <1>3

\* A step of commit that leaves the files alone.
LEMMA CommitRecovers ==
    ASSUME RecoveryInv, LogInv, Commit \/ CommitFails \/ RemoveFails \/ Return
    PROVE  RecoveryInv'
<1>1. pc # "idle" /\ status = "open" /\ ~fault
  BY DEF Commit, CommitFails, RemoveFails, Return, LogInv, ShapeInv, IdleInv
<1>2. (~damaged => ~cut) /\ state # NoState
  BY <1>1 DEF RecoveryInv, CauseInv, StateInv
<1>3. UNCHANGED <<disk, damaged, refused, status>>
  BY DEF Commit, CommitFails, RemoveFails, Return, files, history
<1>4. FilesBounded' /\ Directory(disk)'
  BY <1>3 DEF RecoveryInv, FilesBounded, FileTypes, Directory
<1>5. CASE Commit
  <2>1. Prunes(disk, next, removed)
    BY <1>5 DEF Commit, RecoveryInv, CommitInv
  <2>2. /\ state' = next /\ mem' = next /\ next' = next /\ pc' = "remove"
        /\ UNCHANGED <<disk, tmp, fault, removed, status, cut, damaged, refused>>
    BY <1>5 DEF Commit, history
  <2>3. Kept(next) /\ next # NoState
    BY <2>1, PrunesClean
  <2>4. FileTypes' /\ ReadyInv' /\ CommitInv'
    BY <1>4, <2>2 DEF RecoveryInv, FileTypes, ReadyInv, CommitInv, Ready
  <2>5. StateInv'
    BY <2>2, <2>3 DEF StateInv
  <2>6. RemoveInv'
    BY <2>1, <2>2 DEF RemoveInv
  <2>7. CauseInv'
    BY <1>1, <1>2, <2>2 DEF RecoveryInv, CauseInv
  <2> QED
    BY <1>4, <2>4, <2>5, <2>6, <2>7 DEF RecoveryInv
<1>6. CASE CommitFails
  <2>1. Prunes(disk, next, removed) /\ (Clean(disk, state) <=> next.head = state.head) /\ pc = "commit"
    BY <1>6 DEF CommitFails, RecoveryInv, CommitInv
  <2>2. fault' /\ pc' = "idle" /\ fault' = TRUE
    BY <1>6 DEF CommitFails
  <2>3. Kept(next) /\ next # NoState /\ Clean(disk, next)
    BY <2>1, PrunesClean
  <2>4. ReadyInv' /\ CommitInv' /\ RemoveInv'
    BY <2>2 DEF ReadyInv, CommitInv, RemoveInv, Ready
  <2>5. CASE cut' = (cut \/ Pending) /\ tmp' \in {tmp, TRUE} /\ UNCHANGED state
    <3>1. FileTypes'
      BY <1>3, <1>4, <2>5 DEF RecoveryInv, FileTypes, Pending
    <3>2. StateInv'
      BY <1>3, <2>5 DEF RecoveryInv, StateInv, Kept, Sound, Previous
    <3>3. ASSUME ~damaged' PROVE Openable' <=> ~cut'
      <4>1. Openable' <=> Clean(disk, state)
        BY <1>2, <1>3, <2>5 DEF Openable
      <4>2. ~cut
        BY <1>2, <1>3, <3>3
      <4> QED
        BY <2>1, <2>5, <4>1, <4>2 DEF Pending
    <3>4. CauseInv'
      BY <1>3, <2>2, <2>5, <3>3 DEF RecoveryInv, CauseInv
    <3> QED
      BY <1>4, <2>4, <3>1, <3>2, <3>4 DEF RecoveryInv
  <2>6. CASE state' = next /\ UNCHANGED <<cut, tmp>>
    <3>1. FileTypes'
      BY <1>3, <1>4, <2>6 DEF RecoveryInv, FileTypes
    <3>2. StateInv'
      BY <2>3, <2>6 DEF StateInv
    <3>3. ASSUME ~damaged' PROVE Openable' <=> ~cut'
      <4>1. Openable' <=> Clean(disk, next)
        BY <1>3, <2>3, <2>6 DEF Openable
      <4>2. ~cut
        BY <1>2, <1>3, <3>3
      <4> QED
        BY <2>3, <2>6, <4>1, <4>2
    <3>4. CauseInv'
      BY <1>3, <2>2, <2>6, <3>3 DEF RecoveryInv, CauseInv
    <3> QED
      BY <1>4, <2>4, <3>1, <3>2, <3>4 DEF RecoveryInv
  <2> QED
    BY <1>6, <2>5, <2>6 DEF CommitFails
<1>7. CASE RemoveFails
  <2>1. Prunes(disk, next, removed) /\ state = next
    BY <1>7 DEF RemoveFails, RecoveryInv, RemoveInv
  <2>2. fault' = TRUE /\ pc' = "idle" /\ UNCHANGED <<disk, state, tmp, status, cut, damaged, refused>>
    BY <1>7 DEF RemoveFails, files, history
  <2>3. Clean(disk, state)
    BY <2>1, PrunesClean
  <2>4. FileTypes' /\ ReadyInv' /\ CommitInv' /\ RemoveInv'
    BY <1>4, <2>2 DEF RecoveryInv, FileTypes, ReadyInv, CommitInv, RemoveInv, Ready
  <2>5. StateInv'
    BY <2>2 DEF RecoveryInv, StateInv, Kept, Sound, Previous
  <2>6. Openable'
    BY <1>2, <2>2, <2>3 DEF Openable
  <2>7. CauseInv'
    BY <1>2, <2>2, <2>6 DEF RecoveryInv, CauseInv
  <2> QED
    BY <1>4, <2>4, <2>5, <2>7 DEF RecoveryInv
<1>8. CASE Return
  <2>1. Prunes(disk, next, removed) /\ state = next /\ mem = next /\ removed = <<>>
    BY <1>8 DEF Return, RecoveryInv, RemoveInv
  <2>2. pc' = "idle" /\ UNCHANGED <<disk, state, tmp, mem, fault, status, cut, damaged, refused>>
    BY <1>8 DEF Return, files
  <2>3. Holds(disk, state) /\ DOMAIN disk \subseteq Starts(state)
    BY <2>1 DEF Prunes
  <2>4. FileTypes' /\ CommitInv' /\ RemoveInv'
    BY <1>4, <2>2 DEF RecoveryInv, FileTypes, CommitInv, RemoveInv
  <2>5. StateInv'
    BY <2>2 DEF RecoveryInv, StateInv, Kept, Sound, Previous
  <2>6. ReadyInv'
    BY <2>1, <2>2, <2>3 DEF ReadyInv
  <2>7. CauseInv'
    BY <1>1, <1>2, <2>2 DEF RecoveryInv, CauseInv
  <2> QED
    BY <1>4, <2>4, <2>5, <2>6, <2>7 DEF RecoveryInv
<1> QED
  BY <1>5, <1>6, <1>7, <1>8

\* A pruned segment is removed.
LEMMA RemoveSegmentRecovers ==
    ASSUME RecoveryInv, LogInv, RemoveSegment
    PROVE  RecoveryInv'
<1>1. pc = "remove" /\ status = "open" /\ ~fault
  BY DEF RemoveSegment, LogInv, ShapeInv, IdleInv
<1>2. Prunes(disk, next, removed) /\ state = next /\ mem = next /\ removed # <<>>
  BY DEF RemoveSegment, RecoveryInv, RemoveInv
<1>3. /\ disk' = Without({Head(removed)}) /\ removed' = Tail(removed)
      /\ UNCHANGED <<state, tmp, mem, fault, pc, next, status, cut, damaged, refused>>
  BY DEF RemoveSegment, history
<1>4. Directory(disk) /\ Cardinality(DOMAIN disk) <= MaxSegments + 1
  BY DEF RecoveryInv, FileTypes, FilesBounded
<1>5. /\ Directory(disk') /\ DOMAIN disk' = DOMAIN disk \ {Head(removed)}
      /\ Cardinality(DOMAIN disk') <= Cardinality(DOMAIN disk)
  BY <1>3, <1>4, WithoutFiles
<1>6. PICK l \in Nat : l = Len(removed)
  BY <1>2 DEF Prunes
<1>7. /\ removed \in Seq(Nat) /\ l # 0 /\ Head(removed) = removed[1]
      /\ Tail(removed) \in Seq(Nat) /\ Len(Tail(removed)) = l - 1
      /\ \A i \in 1..(l - 1) : Tail(removed)[i] = removed[i + 1]
  BY <1>2, <1>6 DEF Prunes
<1>8. /\ Kept(next) /\ Sound(next) /\ Holds(disk, next)
      /\ \A i \in 1..l : removed[i] <= Len(next.anchor)
      /\ \A s \in DOMAIN disk : s \in Starts(next) \/ \E i \in 1..l : s = removed[i]
  BY <1>2, <1>6 DEF Prunes, Kept
<1>9. {Head(removed)} \intersect Starts(next) = {}
  <2>1. removed[1] \in Nat /\ removed[1] <= Len(next.anchor)
    BY <1>6, <1>7, <1>8
  <2> QED
    BY <1>7, <1>8, <2>1, StartsOf
<1>10. Holds(disk', next)
  BY <1>3, <1>4, <1>8, <1>9, HoldsWithout
<1>11. ASSUME NEW s \in DOMAIN disk', s \notin Starts(next)
       PROVE  \E i \in 1..(l - 1) : s = Tail(removed)[i]
  <2>1. PICK i \in 1..l : s = removed[i]
    BY <1>5, <1>8, <1>11
  <2>2. i # 1
    BY <1>5, <1>7, <2>1
  <2>3. i - 1 \in 1..(l - 1) /\ (i - 1) + 1 = i
    BY <2>2
  <2> QED
    BY <1>7, <2>1, <2>3
<1>12. \A i \in 1..(l - 1) : Tail(removed)[i] <= Len(next.anchor)
  <2> SUFFICES ASSUME NEW i \in 1..(l - 1) PROVE Tail(removed)[i] <= Len(next.anchor)
    OBVIOUS
  <2>1. i + 1 \in 1..l
    OBVIOUS
  <2> QED
    BY <1>7, <1>8, <2>1
<1>13. Prunes(disk', next, Tail(removed))
  BY <1>7, <1>8, <1>10, <1>11, <1>12 DEF Prunes
<1>14. FileTypes' /\ ReadyInv' /\ CommitInv'
  BY <1>1, <1>3, <1>5 DEF RecoveryInv, FileTypes, Directory, ReadyInv, CommitInv, Ready
<1>15. StateInv'
  BY <1>3 DEF RecoveryInv, StateInv, Kept, Sound, Previous
<1>16. RemoveInv'
  BY <1>2, <1>3, <1>13 DEF RemoveInv
<1>17. CauseInv'
  BY <1>1, <1>3 DEF RecoveryInv, CauseInv
<1>18. FilesBounded'
  <2>1. Cardinality(DOMAIN disk) \in Nat /\ Cardinality(DOMAIN disk') \in Nat /\ MaxSegments \in Nat
    BY <1>4, <1>5, Count
  <2> QED
    BY <1>4, <1>5, <2>1 DEF FilesBounded
<1> QED
  BY <1>14, <1>15, <1>16, <1>17, <1>18 DEF RecoveryInv

-----------------------------------------------------------------------------
(* The invariant is kept: opening, stopping, editing.                      *)

\* In a stopped log nothing is under way.
LEMMA StoppedFacts ==
    ASSUME RecoveryInv, LogInv, status = "stopped"
    PROVE  /\ pc = "idle" /\ ~fault /\ Directory(disk)
           /\ Cardinality(DOMAIN disk) <= MaxSegments + 1
           /\ state = NoState \/ (Kept(state) /\ Sound(state))
           /\ ~damaged => (Openable <=> ~cut)
  BY DEF RecoveryInv, LogInv, IdleInv, FileTypes, FilesBounded, StateInv, Kept, CauseInv

\* Removing leftovers leaves a clean directory clean.
LEMMA CleanWithout ==
    ASSUME Directory(disk), Sound(state), Clean(disk, state), NEW S, S \subseteq Leftover
    PROVE  Holds(Without(S), state) /\ Clean(Without(S), state)
<1>1. S \intersect Starts(state) = {}
  BY DEF Leftover
<1>2. Holds(Without(S), state)
  BY <1>1, HoldsWithout DEF Clean
<1>3. DOMAIN Without(S) = DOMAIN disk \ S
  BY WithoutFiles
<1> QED
  BY <1>2, <1>3 DEF Clean

\* Steps of a log that stays stopped: the type of the files, their number, what
\* may be opened, and the cause of a refusal are all that is left to show.
LEMMA StaysStopped ==
    ASSUME RecoveryInv, LogInv, status = "stopped",
           UNCHANGED <<mem, fault, pc, next, removed, status>>,
           FileTypes', FilesBounded', state' = NoState \/ Kept(state'),
           ~damaged' => (Openable' <=> ~cut'),
           refused' => cut' \/ damaged'
    PROVE  RecoveryInv'
<1>1. pc' = "idle" /\ fault' = FALSE /\ status' = "stopped"
  BY StoppedFacts DEF LogInv, ShapeInv
<1>2. StateInv'
  BY <1>1 DEF StateInv
<1>3. ReadyInv' /\ CommitInv' /\ RemoveInv'
  BY <1>1 DEF ReadyInv, CommitInv, RemoveInv, Ready
<1>4. CauseInv'
  BY <1>1 DEF CauseInv
<1> QED
  BY <1>2, <1>3, <1>4 DEF RecoveryInv

\* An empty checkpoint describes an empty directory.
LEMMA EmptyKept ==
    ASSUME DOMAIN disk = {}
    PROVE  /\ Kept(Empty) /\ Empty # NoState
           /\ Holds(disk, Empty) /\ Clean(disk, Empty) /\ DOMAIN disk \subseteq Starts(Empty)
<1>1. /\ Empty.anchor = <<>> /\ Empty.head = <<>> /\ Empty.segs = <<>> /\ DOMAIN Empty = Fields
      /\ Len(Empty.segs) = 0 /\ Len(Empty.anchor) = 0
  BY DEF Empty, Fields
<1>2. <<>> \in Hashes /\ Empty.segs \in Seq(Segments)
  BY <1>1 DEF Hashes
<1>3. Previous(Empty, Len(Empty.segs) + 1) = Empty.head
  BY <1>1 DEF Previous
<1>4. Sound(Empty)
  BY <1>1, <1>2, <1>3 DEF Sound
<1>5. Kept(Empty)
  BY <1>1, <1>4, HubAuditAssumption DEF Kept
<1>6. Empty # NoState
  BY DEF Empty, NoState
<1>7. Holds(disk, Empty)
  BY <1>1 DEF Holds
<1> QED
  BY <1>5, <1>6, <1>7 DEF Clean

\* OpenAudit takes over a clean directory and tidies it.
LEMMA OpenAuditRecovers ==
    ASSUME RecoveryInv, LogInv, OpenAudit
    PROVE  RecoveryInv'
<1>1. status = "stopped" /\ Accepts /\ state # NoState
  BY DEF OpenAudit, Accepts
<1>2. /\ pc = "idle" /\ ~fault /\ Directory(disk) /\ Kept(state) /\ Sound(state)
      /\ Cardinality(DOMAIN disk) <= MaxSegments + 1
      /\ ~damaged => (Openable <=> ~cut)
  BY <1>1, StoppedFacts
<1>3. Clean(disk, state)
  BY <1>1, <1>2, AcceptsClean DEF RecoveryInv
<1>4. ~damaged => ~cut
  BY <1>1, <1>2, <1>3 DEF Openable
<1>5. /\ disk' = Without(Leftover) /\ tmp' = FALSE /\ status' = "open" /\ mem' = state
      /\ refused' = FALSE /\ UNCHANGED <<state, fault, pc, next, removed, cut, damaged>>
  BY DEF OpenAudit
<1>6. /\ Directory(disk') /\ DOMAIN disk' = DOMAIN disk \ Leftover
      /\ Cardinality(DOMAIN disk') <= Cardinality(DOMAIN disk)
  BY <1>2, <1>5, WithoutFiles
<1>7. Holds(disk', state)
  BY <1>2, <1>3, <1>5, CleanWithout
<1>8. DOMAIN disk' \subseteq Starts(state)
  BY <1>3, <1>6 DEF Clean, Leftover
<1>9. FileTypes'
  BY <1>5, <1>6 DEF RecoveryInv, FileTypes, Directory
<1>10. StateInv'
  BY <1>1, <1>2, <1>5 DEF StateInv, Kept, Sound, Previous
<1>11. ReadyInv'
  BY <1>5, <1>7, <1>8 DEF ReadyInv
<1>12. CommitInv' /\ RemoveInv'
  BY <1>2, <1>5 DEF CommitInv, RemoveInv
<1>13. CauseInv'
  BY <1>2, <1>4, <1>5 DEF CauseInv
<1>14. FilesBounded'
  <2>1. Cardinality(DOMAIN disk) \in Nat /\ Cardinality(DOMAIN disk') \in Nat /\ MaxSegments \in Nat
    BY <1>2, <1>6, Count
  <2> QED
    BY <1>2, <1>6, <2>1 DEF FilesBounded
<1> QED
  BY <1>9, <1>10, <1>11, <1>12, <1>13, <1>14 DEF RecoveryInv

\* A first start.
LEMMA OpenFirstRecovers ==
    ASSUME RecoveryInv, LogInv, OpenAuditFirst \/ OpenAuditFirstFails
    PROVE  RecoveryInv'
<1>1. status = "stopped" /\ state = NoState /\ DOMAIN disk = {} /\ ~tmp
  BY DEF OpenAuditFirst, OpenAuditFirstFails
<1>2. /\ pc = "idle" /\ ~fault /\ Directory(disk)
      /\ ~damaged => (Openable <=> ~cut)
  BY <1>1, StoppedFacts
<1>3. Openable /\ (~damaged => ~cut)
  BY <1>1, <1>2 DEF Openable
<1>4. /\ Kept(Empty) /\ Empty # NoState
      /\ Holds(disk, Empty) /\ Clean(disk, Empty) /\ DOMAIN disk \subseteq Starts(Empty)
  BY <1>1, EmptyKept
<1>5. UNCHANGED <<disk, damaged, fault, pc, next, removed>>
  BY DEF OpenAuditFirst, OpenAuditFirstFails, memory
<1>6. FilesBounded' /\ Directory(disk)'
  BY <1>5 DEF RecoveryInv, FilesBounded, FileTypes, Directory
<1>7. CASE OpenAuditFirst
  <2>1. /\ state' = Empty /\ status' = "open" /\ mem' = Empty /\ refused' = FALSE
        /\ UNCHANGED <<tmp, cut>>
    BY <1>7 DEF OpenAuditFirst
  <2>2. FileTypes'
    BY <1>5, <1>6, <2>1 DEF RecoveryInv, FileTypes
  <2>3. StateInv' /\ ReadyInv'
    BY <1>4, <1>5, <2>1 DEF StateInv, ReadyInv
  <2>4. CommitInv' /\ RemoveInv'
    BY <1>2, <1>5 DEF CommitInv, RemoveInv
  <2>5. CauseInv'
    BY <1>2, <1>3, <1>5, <2>1 DEF CauseInv
  <2> QED
    BY <1>6, <2>2, <2>3, <2>4, <2>5 DEF RecoveryInv
<1>8. CASE OpenAuditFirstFails
  <2>1. UNCHANGED <<mem, fault, pc, next, removed, status, refused>>
    BY <1>8 DEF OpenAuditFirstFails, memory
  <2>2. CASE tmp' = TRUE /\ cut' = TRUE /\ UNCHANGED state
    <3>1. ~Openable'
      BY <1>1, <2>2 DEF Openable
    <3>2. FileTypes'
      BY <1>5, <1>6, <2>1, <2>2 DEF RecoveryInv, FileTypes
    <3>3. refused' => cut' \/ damaged'
      BY <2>2
    <3>4. state' = NoState
      BY <1>1, <2>2
    <3> QED
      BY <1>1, <1>6, <2>1, <2>2, <3>1, <3>2, <3>3, <3>4, StaysStopped
  <2>3. CASE state' = Empty /\ UNCHANGED <<tmp, cut>>
    <3>1. Openable'
      BY <1>4, <1>5, <2>3 DEF Openable
    <3>2. FileTypes'
      BY <1>5, <1>6, <2>1, <2>3 DEF RecoveryInv, FileTypes
    <3>3. refused' => cut' \/ damaged'
      BY <1>5, <2>1, <2>3 DEF RecoveryInv, CauseInv
    <3>4. Kept(state')
      BY <1>4, <2>3
    <3>5. ~damaged' => ~cut'
      BY <1>3, <1>5, <2>3
    <3> QED
      BY <1>1, <1>6, <2>1, <3>1, <3>2, <3>3, <3>4, <3>5, StaysStopped
  <2> QED
    BY <1>8, <2>2, <2>3 DEF OpenAuditFirstFails
<1> QED
  BY <1>7, <1>8

\* A refusal has a cause, and the cause stays.
LEMMA RefusalRecovers ==
    ASSUME RecoveryInv, LogInv, OpenAuditRefuses
    PROVE  RecoveryInv'
<1>1. status = "stopped" /\ refused' = TRUE
      /\ UNCHANGED <<mem, fault, pc, next, removed, status, cut, damaged, state>>
  BY DEF OpenAuditRefuses, memory, history, files
<1>2. /\ Directory(disk) /\ Cardinality(DOMAIN disk) <= MaxSegments + 1
      /\ state = NoState \/ (Kept(state) /\ Sound(state))
      /\ ~damaged => (Openable <=> ~cut)
  BY <1>1, StoppedFacts
<1>3. FileTypes /\ tmp \in BOOLEAN
  BY DEF RecoveryInv, FileTypes
<1>4. CASE \/ state = NoState /\ (tmp \/ DOMAIN disk # {}) /\ UNCHANGED files
           \/ state # NoState /\ ~ChainVerified /\ UNCHANGED files
  <2>1. ~Openable
    <3>1. CASE state = NoState /\ (tmp \/ DOMAIN disk # {})
      BY <3>1 DEF Openable
    <3>2. CASE state # NoState /\ ~ChainVerified
      <4>1. ~Accepts
        BY <3>2 DEF Accepts
      <4> QED
        BY <1>2, <1>3, <3>2, <4>1, AcceptsClean DEF Openable
    <3> QED
      BY <1>4, <3>1, <3>2
  <2>2. UNCHANGED <<disk, tmp, state>>
    BY <1>4 DEF files
  <2>3. Openable' <=> Openable
    BY <2>2 DEF Openable
  <2>4. FileTypes' /\ FilesBounded'
    BY <1>1, <1>2, <2>2 DEF RecoveryInv, FileTypes, FilesBounded, Directory
  <2>5. damaged' \/ cut'
    BY <1>1, <1>2, <2>1 DEF RecoveryInv, FileTypes
  <2>6. ~damaged' => (Openable' <=> ~cut')
    BY <2>1, <2>3, <2>5
  <2>7. state' = NoState \/ Kept(state')
    BY <1>2, <2>2
  <2> QED
    BY <1>1, <2>4, <2>5, <2>6, <2>7, StaysStopped
<1>5. ASSUME state # NoState, ChainVerified, Uncommitted # {},
             NEW S \in SUBSET Leftover, disk' = Without(S), tmp' \in {tmp, FALSE}
      PROVE  RecoveryInv'
  <2>1. ~Openable
    <3>1. ~Accepts
      BY <1>5 DEF Accepts
    <3> QED
      BY <1>2, <1>3, <1>5, <3>1, AcceptsClean DEF Openable
  <2>2. /\ Directory(disk') /\ DOMAIN disk' = DOMAIN disk \ S
        /\ Cardinality(DOMAIN disk') <= Cardinality(DOMAIN disk)
    BY <1>2, <1>5, WithoutFiles
  <2>3. ~Openable'
    <3>1. PICK u : u \in Uncommitted
      BY <1>5
    <3>2. u \in DOMAIN disk' \ Starts(state) /\ ~(u <= Len(state.anchor))
      BY <1>5, <2>2, <3>1 DEF Uncommitted, Leftover
    <3>3. ~Clean(disk', state)
      BY <3>2 DEF Clean
    <3> QED
      BY <1>1, <1>5, <3>3 DEF Openable
  <2>4. damaged' \/ cut'
    BY <1>1, <1>2, <2>1 DEF RecoveryInv, FileTypes
  <2>5. FileTypes'
    BY <1>1, <1>5, <2>2 DEF RecoveryInv, FileTypes, Directory
  <2>6. FilesBounded'
    <3>1. Cardinality(DOMAIN disk) \in Nat /\ Cardinality(DOMAIN disk') \in Nat /\ MaxSegments \in Nat
      BY <1>2, <2>2, Count
    <3> QED
      BY <1>2, <2>2, <3>1 DEF FilesBounded
  <2>7. state' = NoState \/ Kept(state')
    BY <1>1, <1>2
  <2>8. ~damaged' => (Openable' <=> ~cut')
    BY <2>3, <2>4
  <2> QED
    BY <1>1, <2>4, <2>5, <2>6, <2>7, <2>8, StaysStopped
<1> QED
  BY <1>4, <1>5 DEF OpenAuditRefuses

\* OpenAudit fails while it tidies, or audit-verify tidies.
LEMMA TidyRecovers ==
    ASSUME RecoveryInv, LogInv, OpenAuditFails \/ VerifyAudit
    PROVE  RecoveryInv'
<1>1. /\ status = "stopped" /\ Accepts /\ state # NoState
      /\ UNCHANGED <<mem, fault, pc, next, removed, status, cut, damaged, state>>
  BY DEF OpenAuditFails, VerifyAudit, Accepts, memory, history
<1>2. PICK S \in SUBSET Leftover : disk' = Without(S)
  BY DEF OpenAuditFails, VerifyAudit
<1>3. tmp' \in {tmp, FALSE} /\ refused' \in {refused, FALSE}
  BY DEF OpenAuditFails, VerifyAudit
<1>4. /\ Directory(disk) /\ Kept(state) /\ Sound(state)
      /\ Cardinality(DOMAIN disk) <= MaxSegments + 1
      /\ ~damaged => (Openable <=> ~cut)
  BY <1>1, StoppedFacts
<1>5. Clean(disk, state)
  BY <1>1, <1>4, AcceptsClean DEF RecoveryInv
<1>6. ~damaged => ~cut
  BY <1>1, <1>4, <1>5 DEF Openable
<1>7. /\ Directory(disk') /\ Cardinality(DOMAIN disk') <= Cardinality(DOMAIN disk)
      /\ Clean(disk', state)
  BY <1>2, <1>4, <1>5, WithoutFiles, CleanWithout
<1>8. Openable'
  BY <1>1, <1>7 DEF Openable
<1>9. FileTypes'
  BY <1>1, <1>3, <1>7 DEF RecoveryInv, FileTypes, Directory
<1>10. FilesBounded'
  <2>1. Cardinality(DOMAIN disk) \in Nat /\ Cardinality(DOMAIN disk') \in Nat /\ MaxSegments \in Nat
    BY <1>4, <1>7, Count
  <2> QED
    BY <1>4, <1>7, <2>1 DEF FilesBounded
<1>11. refused' => cut' \/ damaged'
  BY <1>1, <1>3 DEF RecoveryInv, CauseInv
<1>12. ~damaged' => (Openable' <=> ~cut')
  BY <1>1, <1>6, <1>8
<1>13. Kept(state')
  BY <1>1, <1>4
<1> QED
  BY <1>1, <1>9, <1>10, <1>11, <1>12, <1>13, StaysStopped

\* A process stops or is killed, wherever its operation is.
LEMMA StopRecovers ==
    ASSUME RecoveryInv, LogInv, Stop
    PROVE  RecoveryInv'
<1>1. /\ status = "open" /\ status' = "stopped" /\ fault' = FALSE /\ pc' = "idle"
      /\ tmp' \in {tmp, tmp \/ pc = "commit"} /\ cut' = (cut \/ Pending)
      /\ UNCHANGED <<disk, state, damaged, refused>>
  BY DEF Stop
<1>2. state # NoState /\ pc \in {"idle", "commit", "remove"} /\ fault \in BOOLEAN
  BY <1>1 DEF RecoveryInv, StateInv, LogInv, ShapeInv
<1>3. Openable' <=> Clean(disk, state)
  BY <1>1, <1>2 DEF Openable
<1>4. ASSUME ~damaged PROVE Clean(disk, state) <=> ~cut'
  <2>1. CASE fault
    <3>1. pc = "idle" /\ ~Pending
      BY <2>1 DEF LogInv, IdleInv, Pending
    <3>2. Openable <=> ~cut
      BY <1>4, <2>1 DEF RecoveryInv, CauseInv
    <3> QED
      BY <1>1, <1>2, <3>1, <3>2 DEF Openable
  <2>2. CASE ~fault
    <3>1. ~cut
      BY <1>1, <1>4, <2>2 DEF RecoveryInv, CauseInv
    <3>2. CASE pc = "idle"
      <4>1. Clean(disk, state) /\ ~Pending
        BY <1>1, <2>2, <3>2, ReadyFacts DEF Ready, Pending
      <4> QED
        BY <1>1, <3>1, <4>1
    <3>3. CASE pc = "commit"
      <4>1. Clean(disk, state) <=> next.head = state.head
        BY <3>3 DEF RecoveryInv, CommitInv
      <4> QED
        BY <1>1, <3>1, <3>3, <4>1 DEF Pending
    <3>4. CASE pc = "remove"
      <4>1. Clean(disk, state)
        BY <3>4, PrunesClean DEF RecoveryInv, RemoveInv
      <4> QED
        BY <1>1, <3>1, <3>4, <4>1 DEF Pending
    <3> QED
      BY <1>2, <3>2, <3>3, <3>4
  <2> QED
    BY <2>1, <2>2
<1>5. FileTypes'
  <2>1. tmp' \in BOOLEAN /\ cut' \in BOOLEAN
    BY <1>1 DEF RecoveryInv, FileTypes, Pending
  <2> QED
    BY <1>1, <2>1 DEF RecoveryInv, FileTypes, Directory
<1>6. StateInv'
  BY <1>1 DEF RecoveryInv, StateInv, Kept, Sound, Previous
<1>7. ReadyInv' /\ CommitInv' /\ RemoveInv'
  BY <1>1 DEF ReadyInv, CommitInv, RemoveInv, Ready
<1>8. CauseInv'
  BY <1>1, <1>3, <1>4 DEF RecoveryInv, CauseInv
<1>9. FilesBounded'
  BY <1>1 DEF RecoveryInv, FilesBounded
<1> QED
  BY <1>5, <1>6, <1>7, <1>8, <1>9 DEF RecoveryInv

\* An edited file is still a file of lines.
LEMMA EditedFile ==
    ASSUME NEW f \in Files, NEW g \in Edited(f)
    PROVE  g \in Files
<1>1. PICK lines \in Seq(Hashes) : lines = f.lines
  BY DEF Files
<1>2. DOMAIN f = {"lines", "torn"} /\ f.torn \in BOOLEAN
  BY DEF Files
<1>3. [f EXCEPT !.torn = TRUE] \in Files
  BY <1>1, <1>2 DEF Files
<1>4. ASSUME NEW l \in Seq(Hashes) PROVE [f EXCEPT !.lines = l] \in Files
  BY <1>2 DEF Files
<1>5. SubSeq(lines, 1, Len(lines) - 1) \in Seq(Hashes)
  OBVIOUS
<1>6. ASSUME NEW i, NEW e \in Events
      PROVE  [k \in DOMAIN lines |->
                [j \in DOMAIN lines[k] |-> IF j = i THEN e ELSE lines[k][j]]] \in Seq(Hashes)
  <2>1. ASSUME NEW k \in DOMAIN lines
        PROVE  [j \in DOMAIN lines[k] |-> IF j = i THEN e ELSE lines[k][j]] \in Hashes
    <3>1. PICK h \in Seq(Events) : h = lines[k]
      BY DEF Hashes
    <3>2. [j \in DOMAIN h |-> IF j = i THEN e ELSE h[j]] \in Seq(Events)
      <4>1. Len(h) \in Nat /\ DOMAIN h = 1..Len(h)
        OBVIOUS
      <4>2. \A j \in 1..Len(h) : (IF j = i THEN e ELSE h[j]) \in Events
        OBVIOUS
      <4> QED
        BY <4>1, <4>2
    <3> QED
      BY <3>1, <3>2 DEF Hashes
  <2>2. Len(lines) \in Nat /\ DOMAIN lines = 1..Len(lines)
    OBVIOUS
  <2> QED
    BY <2>1, <2>2
<1>7. CASE g = [f EXCEPT !.torn = TRUE]
  BY <1>3, <1>7
<1>8. CASE g = [f EXCEPT !.lines = SubSeq(@, 1, Len(@) - 1)]
  <2>1. g = [f EXCEPT !.lines = SubSeq(lines, 1, Len(lines) - 1)]
    BY <1>1, <1>8
  <2> QED
    BY <1>4, <1>5, <2>1
<1>9. ASSUME NEW i \in 1..MaxEntries, NEW e \in Events,
             g = [f EXCEPT !.lines = [k \in DOMAIN f.lines |->
                    [j \in DOMAIN f.lines[k] |-> IF j = i THEN e ELSE f.lines[k][j]]]]
      PROVE  g \in Files
  <2> DEFINE l == [k \in DOMAIN lines |->
                     [j \in DOMAIN lines[k] |-> IF j = i THEN e ELSE lines[k][j]]]
  <2>1. l \in Seq(Hashes)
    BY <1>6
  <2>2. g = [f EXCEPT !.lines = l]
    BY <1>1, <1>9
  <2> HIDE DEF l
  <2> QED
    BY <1>4, <2>1, <2>2
<1> QED
  BY <1>7, <1>8, <1>9 DEF Edited

\* Somebody edits a segment of a stopped log.
LEMMA DamageRecovers ==
    ASSUME RecoveryInv, LogInv, NEW s \in DOMAIN disk, Damage(s)
    PROVE  RecoveryInv'
<1>1. /\ status = "stopped" /\ damaged' = TRUE
      /\ UNCHANGED <<state, tmp, mem, fault, pc, next, removed, status, cut, refused>>
  BY DEF Damage, memory
<1>2. /\ Directory(disk) /\ Cardinality(DOMAIN disk) <= MaxSegments + 1
      /\ state = NoState \/ Kept(state)
  BY <1>1, StoppedFacts
<1>3. Directory(disk') /\ Cardinality(DOMAIN disk') <= Cardinality(DOMAIN disk)
  <2>1. CASE disk' = Without({s})
    BY <1>2, <2>1, WithoutFiles
  <2>2. ASSUME NEW f \in Edited(disk[s]), disk' = With(s, f)
        PROVE  Directory(disk') /\ Cardinality(DOMAIN disk') <= Cardinality(DOMAIN disk)
    <3>1. s \in Nat /\ disk[s] \in Files
      BY <1>2 DEF Directory
    <3>2. f \in Files
      BY <3>1, EditedFile
    <3> QED
      BY <1>2, <2>2, <3>1, <3>2, WithFile
  <2> QED
    BY <2>1, <2>2 DEF Damage
<1>4. FilesBounded'
  <2>1. Cardinality(DOMAIN disk) \in Nat /\ Cardinality(DOMAIN disk') \in Nat /\ MaxSegments \in Nat
    BY <1>2, <1>3, Count
  <2> QED
    BY <1>2, <1>3, <2>1 DEF FilesBounded
<1>5. FileTypes'
  BY <1>1, <1>3 DEF RecoveryInv, FileTypes, Directory
<1>6. state' = NoState \/ Kept(state')
  BY <1>1, <1>2
<1> QED
  BY <1>1, <1>4, <1>5, <1>6, StaysStopped

\* An empty directory, before the first start.
LEMMA InitRecovers == Init => RecoveryInv
<1> SUFFICES ASSUME Init PROVE RecoveryInv
  OBVIOUS
<1>1. DOMAIN disk = {} /\ state = NoState /\ ~tmp /\ pc = "idle" /\ status = "stopped" /\ ~fault
      /\ tmp = FALSE /\ cut = FALSE /\ damaged = FALSE /\ refused = FALSE
  BY DEF Init
<1>2. IsFiniteSet(DOMAIN disk) /\ Cardinality(DOMAIN disk) = 0
  BY <1>1, FS_EmptySet
<1>3. Directory(disk)
  BY <1>1, <1>2 DEF Init, Directory
<1>4. FilesBounded
  BY <1>2, HubAuditAssumption DEF FilesBounded
<1> QED
  BY <1>1, <1>3, <1>4 DEF RecoveryInv, FileTypes, StateInv, ReadyInv, CommitInv, RemoveInv,
                          CauseInv, Openable, Ready

\* Every step keeps the invariant, beside LogInv.
LEMMA NextRecovers == RecoveryInv /\ LogInv /\ [Next]_vars => RecoveryInv'
<1> SUFFICES ASSUME RecoveryInv, LogInv, [Next]_vars PROVE RecoveryInv'
  OBVIOUS
<1>1. CASE UNCHANGED vars
  <2>1. UNCHANGED <<disk, state, tmp, mem, fault, pc, next, removed, status, acked, cut, damaged, refused>>
    BY <1>1 DEF vars, files, memory, history
  <2>2. FileTypes' /\ FilesBounded'
    BY <2>1 DEF RecoveryInv, FileTypes, Directory, FilesBounded
  <2>3. StateInv' /\ ReadyInv' /\ CommitInv' /\ RemoveInv' /\ CauseInv'
    BY <2>1 DEF RecoveryInv, StateInv, ReadyInv, CommitInv, RemoveInv, CauseInv, Openable, Ready
  <2> QED
    BY <2>2, <2>3 DEF RecoveryInv
<1> QED
  BY <1>1, AppendEntryRecovers, AppendFailsRecovers, PurgeExpiredRecovers, CommitRecovers,
     RemoveSegmentRecovers, OpenAuditRecovers, OpenFirstRecovers, RefusalRecovers, TidyRecovers,
     StopRecovers, DamageRecovers DEF Next

-----------------------------------------------------------------------------
(* What follows.                                                           *)

\* The files, the checkpoint and the memory of the log stay in step, and what is
\* out of step has a cause.
THEOREM RecoveryInvariant == Spec => []RecoveryInv
  BY InitRecovers, NextRecovers, LogInvariant, PTL DEF Spec

\* A log that takes appends is, whole, what its checkpoint says, for every
\* segment size, every limit and every history of failures, stops and edits.
THEOREM OpenLogs == Spec => []OpenLogIsHistory
<1>1. RecoveryInv /\ LogInv => OpenLogIsHistory
  <2> SUFFICES ASSUME RecoveryInv, LogInv, Ready
               PROVE  /\ mem = state
                      /\ DOMAIN disk = Starts(mem)
                      /\ \A k \in DOMAIN mem.segs :
                           /\ IsPrefix(Previous(mem, k), mem.segs[k].last)
                           /\ disk[mem.segs[k].start]
                                = [lines |-> Chain(Previous(mem, k), mem.segs[k].last), torn |-> FALSE]
                      /\ mem.head = Previous(mem, Len(mem.segs) + 1)
    BY DEF OpenLogIsHistory
  <2>1. mem = state /\ Sound(mem) /\ Holds(disk, mem) /\ DOMAIN disk \subseteq Starts(mem)
    BY ReadyFacts
  <2>2. DOMAIN mem.segs = 1..Len(mem.segs)
    BY <2>1 DEF Sound
  <2>3. Starts(mem) \subseteq DOMAIN disk
    <3> SUFFICES ASSUME NEW s \in Starts(mem) PROVE s \in DOMAIN disk
      OBVIOUS
    <3>1. PICK k \in 1..Len(mem.segs) : s = mem.segs[k].start
      BY <2>1, StartsOf
    <3> QED
      BY <2>1, <3>1 DEF Holds
  <2>4. ASSUME NEW k \in 1..Len(mem.segs)
        PROVE  /\ IsPrefix(Previous(mem, k), mem.segs[k].last)
               /\ disk[mem.segs[k].start]
                    = [lines |-> Chain(Previous(mem, k), mem.segs[k].last), torn |-> FALSE]
    BY <2>1 DEF Sound, Holds
  <2>5. mem.head = Previous(mem, Len(mem.segs) + 1)
    BY <2>1 DEF Sound
  <2> QED
    BY <2>1, <2>2, <2>3, <2>4, <2>5
<1> QED
  BY <1>1, RecoveryInvariant, LogInvariant, PTL

\* OpenAudit refuses only what was edited or cut short before its checkpoint,
\* wherever commit was stopped or failed.
THEOREM Refusals == Spec => []RefusedForCause
<1>1. RecoveryInv => RefusedForCause
  BY DEF RecoveryInv, CauseInv, RefusedForCause
<1> QED
  BY <1>1, RecoveryInvariant, PTL

\* An uncommitted tail is never accepted or discarded: the log takes no entry
\* again, in this process or in a later one.
THEOREM Tails == Spec => []TailNeverSwallowed
<1>1. RecoveryInv /\ LogInv => TailNeverSwallowed
  BY DEF RecoveryInv, CauseInv, TailNeverSwallowed, LogInv, ShapeInv
<1> QED
  BY <1>1, RecoveryInvariant, LogInvariant, PTL

\* The directory holds at most one file more than the segments to retain.
THEOREM DirectoryBounded == Spec => []FilesBounded
<1>1. RecoveryInv => FilesBounded
  BY DEF RecoveryInv
<1> QED
  BY <1>1, RecoveryInvariant, PTL
=============================================================================
