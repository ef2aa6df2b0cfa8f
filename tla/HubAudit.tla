------------------------------ MODULE HubAudit ------------------------------
(***************************************************************************)
(* The hub's audit log (internal/hub/audit.go): a directory of segment     *)
(* files whose lines form a hash chain, and a checkpoint file state.json   *)
(* that commits the head of the chain, the segments that are retained and  *)
(* the anchor, the last line of the newest segment that was pruned.        *)
(*                                                                         *)
(* A hash is the sequence of the events it commits to (no collisions), ""  *)
(* is <<>>, and the sequence number of an entry is the length of its hash. *)
(* A line is its hash: Front is the entry's Previous and Last its Event.   *)
(* A segment is named by the number of its first line.                     *)
(*                                                                         *)
(* Append and PurgeExpired hold a mutex, so the operations of one process  *)
(* never overlap; the process may stop between any two writes of one, and  *)
(* each write may fail.  The outcomes of a write the process did not       *)
(* survive are those of a write that failed.                               *)
(***************************************************************************)
EXTENDS Integers, FiniteSets, Sequences, SequencesExt

CONSTANTS
    Events,       \* audit events that validateAuditEvent accepts
    SegmentSize,  \* lines that fit in segmentBytes
    MaxSegments,  \* maxSegments
    MaxEntries    \* bound on the entries ever appended

ASSUME HubAuditAssumption ==
    /\ SegmentSize \in Nat \ {0}
    /\ MaxSegments \in Nat \ {0}
    /\ MaxEntries \in Nat

VARIABLES
    disk,      \* start of a segment file -> its complete lines, and a torn end
    state,     \* state.json
    tmp,       \* a .tmp- file of atomicWrite was left behind
    mem,       \* AuditLog.state
    status,    \* "stopped" or "open": whether a process holds .audit.lock
    fault,     \* AuditLog.fault
    pc,        \* the step of commit the operation under way is at
    next,      \* the state that operation commits
    removed,   \* the segments it has still to remove
    acked,     \* history: the head at the last operation that returned nil
    cut,       \* history: a line was written that no checkpoint committed, or
               \* the first checkpoint was cut short
    damaged,   \* history: somebody edited the segments of a stopped log
    refused    \* the last OpenAudit or VerifyAudit found the log invalid

files == <<disk, state, tmp>>
memory == <<mem, fault, pc, next, removed>>
history == <<acked, cut, damaged>>
vars == <<files, memory, status, history, refused>>

Hashes == Seq(Events)

Empty == [anchor |-> <<>>, head |-> <<>>, segs |-> <<>>]
NoState == [anchor |-> <<>>, head |-> <<>>]

NewFile == [lines |-> <<>>, torn |-> FALSE]

Init ==
    /\ disk = [s \in {} |-> NewFile]
    /\ state = NoState /\ tmp = FALSE
    /\ mem = Empty /\ fault = FALSE /\ pc = "idle" /\ next = Empty /\ removed = <<>>
    /\ status = "stopped"
    /\ acked = <<>> /\ cut = FALSE /\ damaged = FALSE /\ refused = FALSE

-----------------------------------------------------------------------------
(* Append and PurgeExpired.                                                *)

Without(S) == [s \in DOMAIN disk \ S |-> disk[s]]
With(s, f) == [t \in DOMAIN disk \union {s} |-> IF t = s THEN f ELSE disk[t]]

\* The anchor left where it was.
DroppedSameAnchor(st, k) ==
    [st |-> [st EXCEPT !.segs = SubSeq(@, k + 1, Len(@))],
     removed |-> [j \in 1..k |-> st.segs[j].start]]

\* The first k segments dropped, and the anchor moved to the last line of them.
Dropped(st, k) ==
    [st |-> [st EXCEPT !.segs = SubSeq(@, k + 1, Len(@)),
                       !.anchor = IF k = 0 THEN @ ELSE st.segs[k].last],
     removed |-> [j \in 1..k |-> st.segs[j].start]]

\* The limit compared once too late.
StaysLate(st, old, k) ==
    LET n == Len(st.segs) IN
    n - k <= MaxSegments + 1 /\ (k < n => st.segs[k + 1].start \notin old)

\* pruned drops the oldest segment while there are too many, or it is past
\* retention.  old is the set of segments that are: time, a clock that was set
\* back and SetRetention may make it any set.
Stays(st, old, k) ==
    LET n == Len(st.segs) IN
    n - k <= MaxSegments /\ (k < n => st.segs[k + 1].start \notin old)

Pruned(st, old) ==
    Dropped(st, CHOOSE k \in 0..Len(st.segs) :
                  Stays(st, old, k) /\ \A j \in 0..(k - 1) : ~Stays(st, old, j))

Starts(st) == {st.segs[k].start : k \in DOMAIN st.segs}

Ready == status = "open" /\ pc = "idle" /\ ~fault

\* The segment the next line goes to: the last one, or a new one when there is
\* none, the last one is full or past retention.
CurrentSegment(old) ==
    LET n == Len(mem.segs) IN
    IF \/ n = 0
       \/ Len(disk[mem.segs[n].start].lines) >= SegmentSize
       \/ mem.segs[n].start \in old
    THEN Len(mem.head) + 1
    ELSE mem.segs[n].start

\* The state Append commits for a line h in segment s, before pruning.
Extended(s, h) ==
    LET kept == IF s \in Starts(mem) THEN Front(mem.segs) ELSE mem.segs
    IN  [mem EXCEPT !.head = h, !.segs = Append(kept, [start |-> s, last |-> h])]

\* A segment file is opened with O_EXCL when it is new.
Before(s) == IF s \in Starts(mem) THEN disk[s] ELSE NewFile

AppendEntry(e, old) ==
    /\ Ready
    /\ Len(mem.head) < MaxEntries
    /\ LET h == Append(mem.head, e)
           s == CurrentSegment(old)
           p == Pruned(Extended(s, h), old)
       IN  /\ s \in Starts(mem) <=> s \in DOMAIN disk
           /\ disk' = With(s, [Before(s) EXCEPT !.lines = Append(@, h)])
           /\ next' = p.st
           /\ removed' = p.removed
    /\ pc' = "commit"
    /\ UNCHANGED <<state, tmp, mem, fault, status, history, refused>>

\* The open, the write or the sync fails: the file holds nothing of the line, a
\* part of it or all of it.
AppendFails(e, old) ==
    /\ Ready
    /\ Len(mem.head) < MaxEntries
    /\ LET s == CurrentSegment(old) IN
       \/ UNCHANGED <<disk, cut>>
       \/ /\ disk' \in {With(s, Before(s)),
                        With(s, [Before(s) EXCEPT !.torn = TRUE]),
                        With(s, [Before(s) EXCEPT !.lines = Append(@, Append(mem.head, e))])}
          /\ cut' = (cut \/ disk' # disk)
    /\ fault' = TRUE
    /\ UNCHANGED <<state, tmp, mem, pc, next, removed, status, acked, damaged, refused>>

PurgeExpired(old) ==
    /\ Ready
    /\ LET p == Pruned(mem, old) IN
       /\ p.removed # <<>>
       /\ next' = p.st
       /\ removed' = p.removed
    /\ pc' = "commit"
    /\ UNCHANGED <<files, mem, fault, status, history, refused>>

-----------------------------------------------------------------------------
(* commit: replace state.json, then remove the pruned segments.            *)

\* A commit whose next head is new would leave an uncommitted line behind.
Pending == pc = "commit" /\ next.head # state.head

Commit ==
    /\ pc = "commit"
    /\ state' = next
    /\ mem' = next
    /\ pc' = "remove"
    /\ UNCHANGED <<disk, tmp, fault, next, removed, status, history, refused>>

\* The failure of atomicWrite ignored.
CommitFailsQuiet ==
    /\ pc = "commit"
    /\ pc' = "remove"
    /\ mem' = next
    /\ UNCHANGED <<files, fault, next, removed, status, history, refused>>

\* atomicWrite fails before the rename, its temporary file removed or not, or
\* only in the directory sync after it.
CommitFails ==
    /\ pc = "commit"
    /\ \/ cut' = (cut \/ Pending) /\ tmp' \in {tmp, TRUE} /\ UNCHANGED state
       \/ state' = next /\ UNCHANGED <<cut, tmp>>
    /\ fault' = TRUE
    /\ pc' = "idle"
    /\ UNCHANGED <<disk, mem, next, removed, status, acked, damaged, refused>>

RemoveSegment ==
    /\ pc = "remove" /\ removed # <<>>
    /\ disk' = Without({Head(removed)})
    /\ removed' = Tail(removed)
    /\ UNCHANGED <<state, tmp, mem, fault, pc, next, status, history, refused>>

RemoveFails ==
    /\ pc = "remove"
    /\ fault' = TRUE
    /\ pc' = "idle"
    /\ UNCHANGED <<files, mem, next, removed, status, history, refused>>

Return ==
    /\ pc = "remove" /\ removed = <<>>
    /\ pc' = "idle"
    /\ acked' = mem.head
    /\ UNCHANGED <<files, mem, fault, next, removed, status, cut, damaged, refused>>

-----------------------------------------------------------------------------
(* OpenAudit, VerifyAudit, Close.                                          *)

\* What precedes segment k in the chain.
Previous(st, k) == IF k = 1 THEN st.anchor ELSE st.segs[k - 1].last

\* The chain is checked, the committed ends are not.
SegmentChained(st, k) ==
    LET s == st.segs[k].start IN
    /\ s \in DOMAIN disk
    /\ \A i \in DOMAIN disk[s].lines :
         Front(disk[s].lines[i]) = IF i = 1 THEN Previous(st, k) ELSE disk[s].lines[i - 1]

\* Every line names the one before it, and the last is the one committed.
SegmentVerified(st, k) ==
    LET s == st.segs[k].start IN
    /\ s = Len(Previous(st, k)) + 1
    /\ s \in DOMAIN disk
    /\ LET lines == disk[s].lines IN
       /\ lines # <<>> /\ ~disk[s].torn
       /\ \A i \in DOMAIN lines :
            /\ lines[i] # <<>>
            /\ Front(lines[i]) = IF i = 1 THEN Previous(st, k) ELSE lines[i - 1]
       /\ Last(lines) = st.segs[k].last

\* The segment whose only line is the anchor taken for an uncommitted one.
LeftoverStrict == {s \in DOMAIN disk \ Starts(state) : s < Len(state.anchor)}

\* The segments older than the anchor: what a commit that was cut short after
\* state.json left behind.
Leftover == {s \in DOMAIN disk \ Starts(state) : s <= Len(state.anchor)}

ChainVerified ==
    /\ Len(state.anchor) <= Len(state.head)
    /\ \A k \in DOMAIN state.segs : SegmentVerified(state, k)
    /\ state.head = Previous(state, Len(state.segs) + 1)

Uncommitted == DOMAIN disk \ (Starts(state) \union Leftover)

Accepts == state # NoState /\ ChainVerified /\ Uncommitted = {}

\* The checks passed: the leftovers are removed and the log is open.
OpenAudit ==
    /\ status = "stopped"
    /\ Accepts
    /\ disk' = Without(Leftover) /\ tmp' = FALSE
    /\ status' = "open" /\ mem' = state /\ acked' = state.head /\ refused' = FALSE
    /\ UNCHANGED <<state, fault, pc, next, removed, cut, damaged>>

\* A first start: an empty directory is given an empty checkpoint.
OpenAuditFirst ==
    /\ status = "stopped"
    /\ state = NoState /\ DOMAIN disk = {} /\ ~tmp
    /\ state' = Empty
    /\ status' = "open" /\ mem' = Empty /\ acked' = <<>> /\ refused' = FALSE
    /\ UNCHANGED <<disk, tmp, fault, pc, next, removed, cut, damaged>>

\* The first checkpoint fails or the process stops in it: it may leave its
\* temporary file or, the rename done, the checkpoint.
OpenAuditFirstFails ==
    /\ status = "stopped"
    /\ state = NoState /\ DOMAIN disk = {} /\ ~tmp
    /\ \/ tmp' = TRUE /\ cut' = TRUE /\ UNCHANGED state
       \/ state' = Empty /\ UNCHANGED <<tmp, cut>>
    /\ UNCHANGED <<disk, memory, status, acked, damaged, refused>>

\* Verification fails.  The directory is scanned last, in no order, so leftovers
\* may be gone before the file is met that nobody committed.
OpenAuditRefuses ==
    /\ status = "stopped"
    /\ \/ /\ state = NoState /\ (tmp \/ DOMAIN disk # {})
          /\ UNCHANGED files
       \/ /\ state # NoState /\ ~ChainVerified
          /\ UNCHANGED files
       \/ /\ state # NoState /\ ChainVerified /\ Uncommitted # {}
          /\ \E S \in SUBSET Leftover : disk' = Without(S)
          /\ tmp' \in {tmp, FALSE}
          /\ UNCHANGED state
    /\ refused' = TRUE
    /\ UNCHANGED <<memory, status, history>>

\* A leftover cannot be removed, or the process stops while it removes them.
OpenAuditFails ==
    /\ status = "stopped"
    /\ Accepts
    /\ \E S \in SUBSET Leftover : disk' = Without(S)
    /\ tmp' \in {tmp, FALSE}
    /\ UNCHANGED <<state, memory, status, history, refused>>

\* audit-verify opens the log of a stopped hub, leftovers removed, and closes it.
VerifyAudit ==
    /\ status = "stopped"
    /\ Accepts
    /\ disk' = Without(Leftover) /\ tmp' = FALSE
    /\ acked' = state.head /\ refused' = FALSE
    /\ UNCHANGED <<state, memory, status, cut, damaged>>

\* The operation under way survives the process.
StopKeeps ==
    /\ status = "open"
    /\ status' = "stopped"
    /\ UNCHANGED <<files, memory, history, refused>>

\* Close waits for the mutex; a process that is killed does not.  A kill in
\* atomicWrite leaves its temporary file.
Stop ==
    /\ status = "open"
    /\ status' = "stopped"
    /\ fault' = FALSE /\ pc' = "idle" /\ next' = Empty /\ removed' = <<>> /\ mem' = Empty
    /\ tmp' \in {tmp, tmp \/ pc = "commit"}
    /\ cut' = (cut \/ Pending)
    /\ UNCHANGED <<disk, state, acked, damaged, refused>>

\* An edited segment: the last line or its end dropped, or an event changed and
\* every hash after it in the segment computed anew.
Edited(f) ==
    {[f EXCEPT !.torn = TRUE], [f EXCEPT !.lines = SubSeq(@, 1, Len(@) - 1)]}
    \union {[f EXCEPT !.lines = [k \in DOMAIN f.lines |->
                [j \in DOMAIN f.lines[k] |-> IF j = i THEN e ELSE f.lines[k][j]]]]
            : i \in 1..MaxEntries, e \in Events}

Damage(s) ==
    /\ status = "stopped" /\ ~damaged
    /\ s \in DOMAIN disk
    /\ disk' \in {Without({s})} \union {With(s, f) : f \in Edited(disk[s])}
    /\ disk' # disk
    /\ damaged' = TRUE
    /\ UNCHANGED <<state, tmp, memory, status, acked, cut, refused>>

Next ==
    \/ \E e \in Events, old \in SUBSET Starts(mem) :
         AppendEntry(e, old) \/ AppendFails(e, old)
    \/ \E old \in SUBSET Starts(mem) : PurgeExpired(old)
    \/ Commit \/ CommitFails \/ RemoveSegment \/ RemoveFails \/ Return
    \/ OpenAudit \/ OpenAuditFirst \/ OpenAuditFirstFails \/ OpenAuditRefuses
    \/ OpenAuditFails \/ VerifyAudit \/ Stop
    \/ \E s \in DOMAIN disk : Damage(s)

Spec == Init /\ [][Next]_vars
-----------------------------------------------------------------------------
(* Properties.                                                             *)

\* The lines of the chain after hash p up to hash h.
Chain(p, h) == [i \in 1..(Len(h) - Len(p)) |-> SubSeq(h, 1, Len(p) + i)]

\* A log that takes appends is, whole, what its checkpoint says: no segment file
\* but the retained ones, and in them every line of one chain from the anchor to
\* the committed head, whatever was cut short, left behind or edited before
\* OpenAudit accepted the directory.
OpenLogIsHistory ==
    Ready =>
      /\ mem = state
      /\ DOMAIN disk = Starts(mem)
      /\ \A k \in DOMAIN mem.segs :
           /\ IsPrefix(Previous(mem, k), mem.segs[k].last)
           /\ disk[mem.segs[k].start]
                = [lines |-> Chain(Previous(mem, k), mem.segs[k].last), torn |-> FALSE]
      /\ mem.head = Previous(mem, Len(mem.segs) + 1)

\* The promise to the hub's handlers: whatever the checkpoint commits is an
\* append-only log.
Promise == INSTANCE AppendOnlyLog
             WITH log <- state.head, serving <- (status = "open" /\ ~fault)

\* The segments, the checkpoint and the recovery implement that log: through
\* rotation, pruning, failed writes, stops between two writes and restarts the
\* committed chain only grows, one entry per append, never more than one entry
\* ahead of what was reported, and not at all between a failure and a restart.
ImplementsAppendOnlyLog == Promise!Spec

\* An entry that Append reported as written stays committed: the head of the
\* checkpoint on disk extends every head that was ever reported, through failed
\* writes, stops in the middle of a commit, pruning and restarts.
AckedKept == acked # <<>> => IsPrefix(acked, state.head)

\* OpenAudit never refuses a directory because of where commit stopped: a stop
\* or a failure while pruned segments are removed, after the rename or in a
\* purge is recovered from.  What it refuses was edited, or holds an append (or
\* a first start) that was cut short before its checkpoint.
RefusedForCause == refused => cut \/ damaged

\* docs/hub-access.md: startup refuses an uncommitted tail rather than accepting
\* or discarding it.  Once an append was cut short the log takes no entry again,
\* in this process or in a later one.
TailNeverSwallowed == cut /\ ~damaged => status = "stopped" \/ fault

\* Rotation and clean-up bound the directory at every moment: the retained
\* segments and the one being started.
FilesBounded == Cardinality(DOMAIN disk) <= MaxSegments + 1
=============================================================================
