---------------------------- MODULE AppendOnlyLog ----------------------------
(***************************************************************************)
(* What an audit log promises its callers: a sequence that only grows, one *)
(* entry per call, of which the entries that were reported as written are  *)
(* all but at most the last.  A log that failed takes no entry until it is *)
(* opened again, and the entry it failed in may have been kept or not.     *)
(***************************************************************************)
EXTENDS Naturals, Sequences

CONSTANT Events

VARIABLES
    log,      \* the entries that were committed
    acked,    \* those that a caller was told of
    serving   \* whether the log takes entries

Extensions == {Append(log, e) : e \in Events}

Init == log = <<>> /\ acked = <<>> /\ serving = FALSE

\* An entry is committed, the one before it having been reported.
Add ==
    /\ serving /\ acked = log
    /\ log' \in Extensions
    /\ UNCHANGED <<acked, serving>>

Report == acked' = log /\ UNCHANGED <<log, serving>>

Fail ==
    /\ serving' = FALSE
    /\ log' = log \/ (serving /\ acked = log /\ log' \in Extensions)
    /\ UNCHANGED acked

Open == serving' = TRUE /\ acked' = log /\ UNCHANGED log

Next == Add \/ Report \/ Fail \/ Open

Spec == Init /\ [][Next]_<<log, acked, serving>>
=============================================================================
