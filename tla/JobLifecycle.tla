---------------------------- MODULE JobLifecycle ----------------------------
(***************************************************************************)
(* What the queue promises about each job, whatever workers, leases and    *)
(* restarts do: it is accepted once, it is started at most MaxAttempts     *)
(* times and only from the queue, a start that is abandoned puts it back   *)
(* while attempts are left and fails it otherwise, and it ends once.       *)
(***************************************************************************)
EXTENDS Naturals

CONSTANTS Jobs, MaxAttempts

VARIABLES state, attempts

Init ==
    /\ state = [j \in Jobs |-> "absent"]
    /\ attempts = [j \in Jobs |-> 0]

Accept(j) ==
    /\ state[j] = "absent"
    /\ state' = [state EXCEPT ![j] = "queued"]
    /\ UNCHANGED attempts

Start(j) ==
    /\ state[j] = "queued"
    /\ attempts[j] < MaxAttempts
    /\ state' = [state EXCEPT ![j] = "running"]
    /\ attempts' = [attempts EXCEPT ![j] = @ + 1]

Finish(j) ==
    /\ state[j] = "running"
    /\ \E s \in {"succeeded", "failed"} : state' = [state EXCEPT ![j] = s]
    /\ UNCHANGED attempts

\* Several jobs may be taken back in one step.
Abandon(R) ==
    /\ \A j \in R : state[j] = "running"
    /\ state' = [j \in Jobs |->
                   IF j \notin R THEN state[j]
                   ELSE IF attempts[j] < MaxAttempts THEN "queued" ELSE "failed"]
    /\ UNCHANGED attempts

Next ==
    \/ \E j \in Jobs : Accept(j) \/ Start(j) \/ Finish(j)
    \/ \E R \in SUBSET Jobs : Abandon(R)

Spec == Init /\ [][Next]_<<state, attempts>>
=============================================================================
