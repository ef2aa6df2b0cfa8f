---------------------------- MODULE JobQueueProof ----------------------------
(***************************************************************************)
(* The queue's leases, for any number of jobs, workers, attempts, crashes  *)
(* and failed writes: who owns a job, how often it is started, that it     *)
(* ends once, and that the queue implements JobLifecycle.                  *)
(***************************************************************************)
EXTENDS JobQueue, FiniteSetTheorems, TLAPS

\* A worker that executes holds a job.
HeldInv == \A w \in Workers : at[w] \in {"run", "complete"} => held[w] \in Jobs

\* The inductive invariant.  HeldInv ties a worker to its job and the lease
\* parts to each other; without LeasesAndAttempts a job could be taken back
\* that nobody runs, without OwnerHoldsLatestClaim an execution that lost its
\* lease could finish the next one.
QueueInv ==
    /\ TypeOK
    /\ HeldInv
    /\ OwnerHoldsLatestClaim
    /\ LeasesAndAttempts

USE DEF jobVars, workerVars, history

\* The empty store satisfies the invariant.
LEMMA InitQueue == Init => QueueInv
<1> SUFFICES ASSUME Init PROVE QueueInv
  OBVIOUS
<1>1. TypeOK
  BY DEF Init, TypeOK, States
<1>2. HeldInv /\ OwnerHoldsLatestClaim
  BY DEF Init, HeldInv, OwnerHoldsLatestClaim
<1>3. LeasesAndAttempts
  BY JobAssumption DEF Init, LeasesAndAttempts
<1> QED
  BY <1>1, <1>2, <1>3 DEF QueueInv

\* Accepting a job touches an absent one only.
LEMMA CreateStep ==
    ASSUME QueueInv, NEW k \in Keys, NEW d \in Digests, NEW j \in Jobs, Create(k, d, j),
           UNCHANGED <<workerVars, stopping, crashes>>,
           wake' \in BOOLEAN, replies' \in [Keys -> SUBSET (Digests \X Jobs)]
    PROVE  QueueInv'
<1>1. TypeOK'
  BY DEF Create, QueueInv, TypeOK, States
<1>2. HeldInv' /\ OwnerHoldsLatestClaim'
  BY DEF Create, QueueInv, TypeOK, HeldInv, OwnerHoldsLatestClaim
<1>3. LeasesAndAttempts'
  BY JobAssumption DEF Create, QueueInv, TypeOK, LeasesAndAttempts
<1> QED
  BY <1>1, <1>2, <1>3 DEF QueueInv

\* A client's request: a new job or the one its key is bound to.
LEMMA ClientStep == QueueInv /\ Client => QueueInv'
<1> SUFFICES ASSUME QueueInv, Client PROVE QueueInv'
  OBVIOUS
<1>1. ASSUME NEW k \in Keys, NEW d \in Digests, NEW j \in Jobs, Enqueue(k, d, j)
      PROVE  QueueInv'
  BY <1>1, CreateStep DEF Enqueue, Reply, QueueInv, TypeOK
<1>2. ASSUME NEW k \in Keys, NEW d \in Digests, NEW j \in Jobs, EnqueueUnaudited(k, d, j)
      PROVE  QueueInv'
  BY <1>2, CreateStep DEF EnqueueUnaudited, QueueInv, TypeOK
<1>3. ASSUME NEW k \in Keys, NEW d \in Digests, EnqueueExisting(k, d)
      PROVE  QueueInv'
  <2>1. <<d, record[k].job>> \in Digests \X Jobs
    <3>1. record[k] \in [digest : Digests, job : Jobs]
      BY <1>3 DEF EnqueueExisting, QueueInv, TypeOK
    <3> QED
      BY <3>1
  <2>2. TypeOK'
    BY <1>3, <2>1 DEF EnqueueExisting, Reply, QueueInv, TypeOK
  <2>3. HeldInv' /\ OwnerHoldsLatestClaim' /\ LeasesAndAttempts'
    BY <1>3 DEF EnqueueExisting, QueueInv, HeldInv, OwnerHoldsLatestClaim, LeasesAndAttempts
  <2> QED
    BY <2>2, <2>3 DEF QueueInv
<1>4. ASSUME NEW k \in Keys, NEW j \in Jobs, EnqueueOrphan(k, j)
      PROVE  QueueInv'
  <2>1. TypeOK'
    BY <1>4 DEF EnqueueOrphan, Orphan, QueueInv, TypeOK, States
  <2>2. HeldInv' /\ OwnerHoldsLatestClaim'
    BY <1>4 DEF EnqueueOrphan, Orphan, QueueInv, TypeOK, HeldInv, OwnerHoldsLatestClaim
  <2>3. LeasesAndAttempts'
    BY <1>4, JobAssumption DEF EnqueueOrphan, Orphan, QueueInv, TypeOK, LeasesAndAttempts
  <2> QED
    BY <2>1, <2>2, <2>3 DEF QueueInv
<1> QED
  BY <1>1, <1>2, <1>3, <1>4 DEF Client

\* A lease is given to a queued job with attempts left, and its owner is the
\* one worker that may act on it.
LEMMA LeaseEffect ==
    ASSUME QueueInv, NEW w \in Workers, NEW j \in Jobs, Lease(w, j)
    PROVE  /\ LeasesAndAttempts'
           /\ state' \in [Jobs -> States] /\ owner' \in [Jobs -> Workers \union {None}]
           /\ expired' \in [Jobs -> BOOLEAN] /\ attempts' \in [Jobs -> Nat]
           /\ attempts'[j] = attempts[j] + 1 /\ owner'[j] = w
           /\ \A i \in Jobs \ {j} : attempts'[i] = attempts[i] /\ owner'[i] = owner[i]
                                    /\ state'[i] = state[i]
<1>1. /\ state' \in [Jobs -> States] /\ owner' \in [Jobs -> Workers \union {None}]
      /\ expired' \in [Jobs -> BOOLEAN] /\ attempts' \in [Jobs -> Nat]
      /\ attempts'[j] = attempts[j] + 1 /\ owner'[j] = w
      /\ \A i \in Jobs \ {j} : attempts'[i] = attempts[i] /\ owner'[i] = owner[i]
                               /\ state'[i] = state[i]
  BY DEF Lease, QueueInv, TypeOK, States
<1>2. LeasesAndAttempts'
  BY JobAssumption, NoneAssumption DEF Lease, Claimable, QueueInv, TypeOK, LeasesAndAttempts
<1> QED
  BY <1>1, <1>2

\* ClaimNextJob, with its audit event or without.
LEMMA ClaimStep ==
    ASSUME QueueInv, NEW w \in Workers, NEW j \in Jobs,
           ClaimNextJob(w, j) \/ ClaimUnaudited(w, j)
    PROVE  QueueInv'
<1>1. CASE ClaimNextJob(w, j)
  <2>1. Lease(w, j)
    BY <1>1 DEF ClaimNextJob
  <2>2. TypeOK'
    BY <1>1, <2>1, LeaseEffect DEF ClaimNextJob, QueueInv, TypeOK
  <2>3. HeldInv'
    BY <1>1 DEF ClaimNextJob, QueueInv, TypeOK, HeldInv
  <2>4. OwnerHoldsLatestClaim'
    BY <1>1, <2>1, LeaseEffect
       DEF ClaimNextJob, QueueInv, TypeOK, HeldInv, OwnerHoldsLatestClaim
  <2> QED
    BY <2>1, <2>2, <2>3, <2>4, LeaseEffect DEF QueueInv
<1>2. CASE ClaimUnaudited(w, j)
  <2>1. Lease(w, j)
    BY <1>2 DEF ClaimUnaudited
  <2>2. TypeOK'
    BY <1>2, <2>1, LeaseEffect DEF ClaimUnaudited, QueueInv, TypeOK
  <2>3. HeldInv'
    BY <1>2 DEF ClaimUnaudited, QueueInv, TypeOK, HeldInv
  <2>4. OwnerHoldsLatestClaim'
    BY <1>2, <2>1, LeaseEffect
       DEF ClaimUnaudited, QueueInv, TypeOK, HeldInv, OwnerHoldsLatestClaim
  <2> QED
    BY <2>1, <2>2, <2>3, <2>4, LeaseEffect DEF QueueInv
<1> QED
  BY <1>1, <1>2

\* A worker that only moves on, or whose context is cut, changes no job.
LEMMA MoveStep ==
    ASSUME QueueInv, NEW w \in Workers,
           WakeUp(w) \/ Leave(w) \/ ClaimNothing(w) \/ HeartbeatFails(w) \/ HandlerReturns(w)
    PROVE  QueueInv'
<1> USE DEF WakeUp, Leave, ClaimNothing, HeartbeatFails, HandlerReturns
<1>0. /\ wake' \in BOOLEAN /\ cut' \in [Workers -> BOOLEAN] /\ ok' \in [Workers -> BOOLEAN]
      /\ at' \in [Workers -> {"wait", "claim", "run", "complete", "gone"}]
      /\ UNCHANGED <<state, owner, expired, attempts, record, held, claimed, stopping,
                     crashes, origin, replies>>
  <2>1. wake' \in BOOLEAN
    BY DEF QueueInv, TypeOK
  <2>2. cut' \in [Workers -> BOOLEAN] /\ ok' \in [Workers -> BOOLEAN]
    BY DEF QueueInv, TypeOK
  <2> QED
    BY <2>1, <2>2 DEF QueueInv, TypeOK
<1>1. TypeOK'
  BY <1>0 DEF QueueInv, TypeOK
<1>a. ASSUME NEW v \in Workers, at'[v] \in {"run", "complete"}
      PROVE  at[v] \in {"run", "complete"}
  BY <1>a DEF QueueInv, TypeOK
<1>2. HeldInv' /\ OwnerHoldsLatestClaim'
  BY <1>0, <1>a DEF QueueInv, HeldInv, OwnerHoldsLatestClaim
<1>3. LeasesAndAttempts'
  BY DEF QueueInv, LeasesAndAttempts
<1> QED
  BY <1>1, <1>2, <1>3 DEF QueueInv

\* HeartbeatJob renews a lease its caller owns.
LEMMA HeartbeatStep ==
    ASSUME QueueInv, NEW w \in Workers, Heartbeat(w)
    PROVE  QueueInv'
<1>1. TypeOK'
  BY DEF Heartbeat, QueueInv, TypeOK
<1>2. HeldInv' /\ OwnerHoldsLatestClaim'
  BY DEF Heartbeat, QueueInv, HeldInv, OwnerHoldsLatestClaim
<1>3. LeasesAndAttempts'
  BY DEF Heartbeat, QueueInv, TypeOK, LeasesAndAttempts
<1> QED
  BY <1>1, <1>2, <1>3 DEF QueueInv

\* CompleteJob ends a job its caller owns, or changes none.
LEMMA CompleteStep ==
    ASSUME QueueInv, NEW w \in Workers, CompleteJob(w)
    PROVE  QueueInv'
<1>1. held[w] \in Jobs
  BY DEF CompleteJob, QueueInv, HeldInv
<1>2. TypeOK'
  BY <1>1 DEF CompleteJob, QueueInv, TypeOK, States
<1>3. HeldInv' /\ OwnerHoldsLatestClaim'
  BY <1>1, NoneAssumption DEF CompleteJob, QueueInv, TypeOK, HeldInv, OwnerHoldsLatestClaim
<1>4. LeasesAndAttempts'
  BY <1>1, NoneAssumption DEF CompleteJob, Owns, QueueInv, TypeOK, LeasesAndAttempts
<1> QED
  BY <1>2, <1>3, <1>4 DEF QueueInv

\* A lease runs out, or the reaper takes jobs with such leases back.
LEMMA LeaseStep ==
    ASSUME QueueInv, (\E j \in Jobs : Expire(j)) \/ RequeueExpiredJobs
    PROVE  QueueInv'
<1>1. CASE \E j \in Jobs : Expire(j)
  <2>1. TypeOK'
    BY <1>1 DEF Expire, QueueInv, TypeOK
  <2>2. HeldInv' /\ OwnerHoldsLatestClaim'
    BY <1>1 DEF Expire, QueueInv, HeldInv, OwnerHoldsLatestClaim
  <2>3. LeasesAndAttempts'
    BY <1>1 DEF Expire, QueueInv, TypeOK, LeasesAndAttempts
  <2> QED
    BY <2>1, <2>2, <2>3 DEF QueueInv
<1>2. CASE RequeueExpiredJobs
  <2> DEFINE due == {j \in Jobs : state[j] = "running" /\ expired[j]}
  <2>1. PICK R \in SUBSET due :
          /\ state' = [j \in Jobs |-> IF j \in R THEN TakenBack(j) ELSE state[j]]
          /\ owner' = [j \in Jobs |-> IF j \in R THEN None ELSE owner[j]]
          /\ expired' = [j \in Jobs |-> expired[j] /\ j \notin R]
          /\ wake' = TRUE
          /\ UNCHANGED <<attempts, record, workerVars, stopping, crashes, history>>
    BY <1>2 DEF RequeueExpiredJobs
  <2>2. TypeOK'
    BY <2>1 DEF TakenBack, QueueInv, TypeOK, States
  <2>3. HeldInv' /\ OwnerHoldsLatestClaim'
    BY <2>1, NoneAssumption DEF QueueInv, TypeOK, HeldInv, OwnerHoldsLatestClaim
  <2>4. LeasesAndAttempts'
    <3>1. ASSUME NEW j \in Jobs \ R
          PROVE  state'[j] = state[j] /\ owner'[j] = owner[j] /\ attempts'[j] = attempts[j]
                 /\ (expired'[j] => expired[j])
      BY <2>1, <3>1 DEF QueueInv, TypeOK
    <3>2. ASSUME NEW j \in R
          PROVE  state'[j] = TakenBack(j) /\ owner'[j] = None /\ ~expired'[j]
                 /\ attempts'[j] = attempts[j] /\ j \in Jobs /\ attempts[j] \in Nat
      BY <2>1, <3>2 DEF QueueInv, TypeOK
    <3>3. ASSUME NEW j \in Jobs
          PROVE  /\ (owner'[j] # None) <=> (state'[j] = "running")
                 /\ expired'[j] => state'[j] = "running"
                 /\ attempts'[j] <= MaxAttempts
                 /\ state'[j] = "queued" => attempts'[j] < MaxAttempts
                 /\ state'[j] = "absent" => attempts'[j] = 0
      <4>1. CASE j \in R
        BY <3>2, <4>1, JobAssumption DEF TakenBack, QueueInv, LeasesAndAttempts
      <4>2. CASE j \notin R
        BY <3>1, <4>2 DEF QueueInv, LeasesAndAttempts
      <4> QED
        BY <4>1, <4>2
    <3> QED
      BY <3>3 DEF LeasesAndAttempts
  <2> QED
    BY <2>2, <2>3, <2>4 DEF QueueInv
<1> QED
  BY <1>1, <1>2

\* A shutdown, and the ways the process can end: the workers of the next one
\* hold nothing.
LEMMA ProcessStep == QueueInv /\ Process => QueueInv'
<1> SUFFICES ASSUME QueueInv, Process PROVE QueueInv'
  OBVIOUS
<1>1. CASE Shutdown
  <2>1. TypeOK'
    BY <1>1 DEF Shutdown, QueueInv, TypeOK
  <2> QED
    BY <1>1, <2>1 DEF Shutdown, QueueInv, HeldInv, OwnerHoldsLatestClaim, LeasesAndAttempts
<1>2. ASSUME Restarted
      PROVE  /\ HeldInv' /\ OwnerHoldsLatestClaim'
             /\ wake' \in BOOLEAN /\ stopping' \in BOOLEAN /\ crashes' \in Nat
             /\ at' \in [Workers -> {"wait", "claim", "run", "complete", "gone"}]
             /\ held' \in [Workers -> Jobs \union {None}]
             /\ claimed' \in [Workers -> Nat]
             /\ cut' \in [Workers -> BOOLEAN] /\ ok' \in [Workers -> BOOLEAN]
  <2>1. HeldInv' /\ OwnerHoldsLatestClaim'
    BY <1>2 DEF Restarted, HeldInv, OwnerHoldsLatestClaim
  <2>2. crashes' \in Nat /\ claimed' \in [Workers -> Nat]
    BY <1>2 DEF Restarted, QueueInv, TypeOK
  <2>3. cut' \in [Workers -> BOOLEAN] /\ ok' \in [Workers -> BOOLEAN]
    BY <1>2 DEF Restarted
  <2> QED
    BY <1>2, <2>1, <2>2, <2>3 DEF Restarted
<1>3. CASE Restart
  <2>1. TypeOK'
    BY <1>2, <1>3 DEF Restart, QueueInv, TypeOK
  <2> QED
    BY <1>2, <1>3, <2>1 DEF Restart, QueueInv, LeasesAndAttempts
<1>4. ASSUME NEW k \in Keys, NEW j \in Jobs, RestartInCreate(k, j) PROVE QueueInv'
  <2>1. TypeOK'
    BY <1>2, <1>4 DEF RestartInCreate, Orphan, QueueInv, TypeOK, States
  <2>2. LeasesAndAttempts'
    BY <1>4, JobAssumption DEF RestartInCreate, Orphan, QueueInv, TypeOK, LeasesAndAttempts
  <2> QED
    BY <1>2, <1>4, <2>1, <2>2 DEF RestartInCreate, Orphan, QueueInv
<1>5. ASSUME NEW w \in Workers, NEW j \in Jobs, RestartInClaim(w, j) PROVE QueueInv'
  <2>1. TypeOK'
    BY <1>2, <1>5, LeaseEffect DEF RestartInClaim, QueueInv, TypeOK
  <2> QED
    BY <1>2, <1>5, <2>1, LeaseEffect DEF RestartInClaim, QueueInv
<1> QED
  BY <1>1, <1>3, <1>4, <1>5 DEF Process

\* Every step keeps the invariant.
LEMMA NextQueue == QueueInv /\ [Next]_vars => QueueInv'
<1> SUFFICES ASSUME QueueInv, [Next]_vars PROVE QueueInv'
  OBVIOUS
<1>1. ASSUME NEW w \in Workers, Worker(w) PROVE QueueInv'
  BY <1>1, ClaimStep, MoveStep, HeartbeatStep, CompleteStep DEF Worker
<1>2. CASE UNCHANGED vars
  BY <1>2 DEF vars, QueueInv, TypeOK, HeldInv, OwnerHoldsLatestClaim, LeasesAndAttempts
<1> QED
  BY <1>1, <1>2, ClientStep, LeaseStep, ProcessStep DEF Next

\* QueueInv is inductive: it holds in every state of the queue.
THEOREM QueueInvariant == Spec => []QueueInv
<1>1. Init => QueueInv
  BY InitQueue
<1> QED
  BY <1>1, NextQueue, PTL DEF Spec

\* Every variable of the queue keeps its type.
THEOREM QueueTypes == Spec => []TypeOK
<1>1. QueueInv => TypeOK
  BY DEF QueueInv
<1> QED
  BY <1>1, QueueInvariant, PTL

\* Only the execution with the latest claim can renew or complete a job, for
\* any number of workers, expiries, restarts and failed writes.
THEOREM OwnersHoldLatestClaim == Spec => []OwnerHoldsLatestClaim
<1>1. QueueInv => OwnerHoldsLatestClaim
  BY DEF QueueInv
<1> QED
  BY <1>1, QueueInvariant, PTL

\* Leases belong to running jobs, and no job is left queued without attempts.
THEOREM LeasesAreKept == Spec => []LeasesAndAttempts
<1>1. QueueInv => LeasesAndAttempts
  BY DEF QueueInv
<1> QED
  BY <1>1, QueueInvariant, PTL

-----------------------------------------------------------------------------
(* The lifecycle.                                                          *)

\* Every step of the queue, seen on states and attempts alone, is a step of
\* the lifecycle or changes neither.
LEMMA LifecycleStep ==
    ASSUME QueueInv, [Next]_vars
    PROVE  Lifecycle!Next \/ UNCHANGED <<state, attempts>>
<1> DEFINE Goal == Lifecycle!Next \/ UNCHANGED <<state, attempts>>
<1>1. ASSUME NEW j \in Jobs, state[j] = "absent", UNCHANGED attempts,
             state' = [state EXCEPT ![j] = "queued"]
      PROVE  Goal
  BY <1>1 DEF Lifecycle!Next, Lifecycle!Accept
<1>2. ASSUME NEW w \in Workers, NEW j \in Jobs, Lease(w, j)
      PROVE  Goal
  BY <1>2 DEF Lease, Claimable, Lifecycle!Next, Lifecycle!Start
<1>3. CASE Client
  BY <1>1, <1>3 DEF Client, Enqueue, EnqueueUnaudited, EnqueueExisting, EnqueueOrphan,
                      Create, Orphan
<1>4. ASSUME NEW w \in Workers, Worker(w)
      PROVE  Goal
  <2>1. CASE CompleteJob(w)
    <3>1. held[w] \in Jobs
      BY <2>1 DEF CompleteJob, QueueInv, HeldInv
    <3>2. CASE UNCHANGED jobVars
      BY <3>2
    <3>3. CASE /\ Owns(w) /\ UNCHANGED attempts
               /\ state' = [state EXCEPT ![held[w]] = IF ok[w] THEN "succeeded" ELSE "failed"]
      BY <3>1, <3>3 DEF Owns, Lifecycle!Next, Lifecycle!Finish
    <3> QED
      BY <2>1, <3>2, <3>3 DEF CompleteJob
  <2>2. ASSUME NEW j \in Jobs, ClaimNextJob(w, j) \/ ClaimUnaudited(w, j)
        PROVE  Goal
    BY <1>2, <2>2 DEF ClaimNextJob, ClaimUnaudited
  <2>3. CASE \/ WakeUp(w) \/ Leave(w) \/ ClaimNothing(w) \/ Heartbeat(w)
             \/ HeartbeatFails(w) \/ HandlerReturns(w)
    BY <2>3 DEF WakeUp, Leave, ClaimNothing, Heartbeat, HeartbeatFails, HandlerReturns
  <2> QED
    BY <1>4, <2>1, <2>2, <2>3 DEF Worker
<1>5. CASE RequeueExpiredJobs
  <2>1. PICK R \in SUBSET Jobs :
          /\ \A j \in R : state[j] = "running"
          /\ state' = [j \in Jobs |-> IF j \in R THEN TakenBack(j) ELSE state[j]]
          /\ UNCHANGED attempts
    BY <1>5 DEF RequeueExpiredJobs
  <2>2. \A j \in R : TakenBack(j) = IF attempts[j] < MaxAttempts THEN "queued" ELSE "failed"
    BY JobAssumption DEF TakenBack, QueueInv, TypeOK
  <2>3. Lifecycle!Abandon(R)
    BY <2>1, <2>2 DEF Lifecycle!Abandon
  <2> QED
    BY <2>3 DEF Lifecycle!Next
<1>6. CASE Process
  BY <1>1, <1>2, <1>6 DEF Process, Shutdown, Restart, RestartInCreate, RestartInClaim,
                              Orphan
<1>7. CASE \E j \in Jobs : Expire(j)
  BY <1>7 DEF Expire
<1>8. CASE UNCHANGED vars
  BY <1>8 DEF vars
<1> QED
  BY <1>3, <1>4, <1>5, <1>6, <1>7, <1>8 DEF Next

\* The queue implements the lifecycle, whatever the workers, the reaper, the
\* faults and the restarts do.
THEOREM QueueImplementsLifecycle == Spec => ImplementsLifecycle
<1>1. Init => Lifecycle!Init
  BY DEF Init, Lifecycle!Init
<1>2. QueueInv /\ [Next]_vars => [Lifecycle!Next]_<<state, attempts>>
  BY LifecycleStep
<1> QED
  BY <1>1, <1>2, QueueInvariant, PTL DEF Spec, ImplementsLifecycle, Lifecycle!Spec

\* A job that has ended stays as it ended.
THEOREM TerminalsAreStable == Spec => TerminalStable
<1>1. ASSUME QueueInv, Lifecycle!Next \/ UNCHANGED <<state, attempts>>, NEW j \in Jobs,
             state[j] \in Terminal
      PROVE  state'[j] = state[j]
  BY <1>1 DEF Lifecycle!Next, Lifecycle!Accept, Lifecycle!Start, Lifecycle!Finish,
              Lifecycle!Abandon, Terminal, QueueInv, TypeOK
<1>2. QueueInv /\ [Next]_vars =>
        [\A j \in Jobs : state[j] \in Terminal => state'[j] = state[j]]_vars
  BY <1>1, LifecycleStep
<1> QED
  BY <1>2, QueueInvariant, PTL DEF Spec, TerminalStable

-----------------------------------------------------------------------------
(* Idempotency.                                                            *)

\* No step but a creation touches the records, the origins or an absent job.
LEMMA RepliesKept ==
    ASSUME QueueInv, RepliesAgree, UNCHANGED <<record, origin, replies>>,
           \A j \in Jobs : state[j] # "absent" => state'[j] # "absent"
    PROVE  RepliesAgree'
<1>1. ASSUME NEW k \in Keys, record[k] # NoRecord
      PROVE  record[k].job \in Jobs
  BY <1>1 DEF QueueInv, TypeOK
<1> QED
  BY <1>1 DEF RepliesAgree

\* A creation binds a key that had no record to a job that was absent, so it
\* disturbs no other binding.
LEMMA RepliesCreate ==
    ASSUME QueueInv, RepliesAgree, NEW k \in Keys, NEW d \in Digests, NEW j \in Jobs,
           Create(k, d, j), Reply(k, d, j) \/ UNCHANGED replies
    PROVE  RepliesAgree'
<1>1. ASSUME NEW q \in Keys, record[q] # NoRecord
      PROVE  record[q].job \in Jobs
  BY <1>1 DEF QueueInv, TypeOK
<1>2. record[k] = NoRecord /\ replies[k] = {}
  <2>1. ASSUME NEW r \in replies[k] PROVE FALSE
    <3>1. r \in Digests \X Jobs
      BY <2>1 DEF QueueInv, TypeOK
    <3>2. [digest |-> r[1], job |-> r[2]] = NoRecord
      BY <2>1 DEF Create, RepliesAgree
    <3>3. r[2] = None
      BY <3>2 DEF NoRecord
    <3> QED
      BY <3>1, <3>3, NoneAssumption
  <2> QED
    BY <2>1 DEF Create
<1>3. /\ record'[k] = [digest |-> d, job |-> j]
      /\ \A r \in replies'[k] : r = <<d, j>>
      /\ state'[j] = "queued" /\ origin'[j] = k
  BY <1>2 DEF Create, Reply, QueueInv, TypeOK
<1>4. ASSUME NEW q \in Keys \ {k}
      PROVE  /\ record'[q] = record[q] /\ replies'[q] = replies[q]
             /\ record[q] # NoRecord =>
                  state'[record[q].job] = state[record[q].job]
                  /\ origin'[record[q].job] = origin[record[q].job]
  <2>1. record'[q] = record[q] /\ replies'[q] = replies[q]
    BY <1>4 DEF Create, Reply, QueueInv, TypeOK
  <2>2. record[q] # NoRecord => record[q].job # j
    BY <1>4 DEF Create, RepliesAgree
  <2> QED
    BY <1>1, <2>1, <2>2 DEF Create, QueueInv, TypeOK
<1>5. ASSUME NEW q \in Keys
      PROVE  /\ \A r \in replies'[q] : record'[q] = [digest |-> r[1], job |-> r[2]]
             /\ record'[q] # NoRecord => state'[record'[q].job] # "absent"
                                         /\ origin'[record'[q].job] = q
  <2>1. CASE q = k
    BY <1>3, <2>1
  <2>2. CASE q # k
    BY <1>4, <2>2 DEF RepliesAgree
  <2> QED
    BY <2>1, <2>2
<1> QED
  BY <1>5 DEF RepliesAgree

\* Whatever clients were told for a key stays true for ever, across retries,
\* failed writes and restarts.
THEOREM RepliesStayTrue == Spec => []RepliesAgree
<1>1. Init => RepliesAgree
  BY DEF Init, RepliesAgree
<1>2. QueueInv /\ RepliesAgree /\ [Next]_vars => RepliesAgree'
  <2> SUFFICES ASSUME QueueInv, RepliesAgree, [Next]_vars PROVE RepliesAgree'
    OBVIOUS
  <2>1. ASSUME NEW k \in Keys, NEW d \in Digests, NEW j \in Jobs,
               Enqueue(k, d, j) \/ EnqueueUnaudited(k, d, j)
        PROVE  RepliesAgree'
    BY <2>1, RepliesCreate DEF Enqueue, EnqueueUnaudited
  <2>2. ASSUME NEW k \in Keys, NEW d \in Digests, EnqueueExisting(k, d)
        PROVE  RepliesAgree'
    <3>1. record[k] \in [digest : Digests, job : Jobs] /\ record[k].digest = d
      BY <2>2 DEF EnqueueExisting, QueueInv, TypeOK
    <3>2. record[k] = [digest |-> d, job |-> record[k].job]
      BY <3>1
    <3>3. UNCHANGED <<record, state, origin>>
          /\ replies' = [replies EXCEPT ![k] = @ \union {<<d, record[k].job>>}]
      BY <2>2 DEF EnqueueExisting, Reply
    <3>4. ASSUME NEW q \in Keys, NEW r \in replies'[q]
          PROVE  r \in replies[q] \/ (q = k /\ r = <<d, record[k].job>>)
      BY <3>3, <3>4 DEF QueueInv, TypeOK
    <3>5. ASSUME NEW q \in Keys, NEW r \in replies'[q]
          PROVE  record[q] = [digest |-> r[1], job |-> r[2]]
      BY <3>2, <3>4, <3>5 DEF RepliesAgree
    <3> QED
      BY <3>3, <3>5 DEF RepliesAgree
  <2>3. ASSUME Lifecycle!Next \/ UNCHANGED <<state, attempts>>, NEW j \in Jobs,
               state[j] # "absent"
        PROVE  state'[j] # "absent"
    BY <2>3 DEF Lifecycle!Next, Lifecycle!Accept, Lifecycle!Start, Lifecycle!Finish,
                Lifecycle!Abandon, QueueInv, TypeOK
  <2>4. ASSUME UNCHANGED <<record, origin, replies>> PROVE RepliesAgree'
    BY <2>3, <2>4, LifecycleStep, RepliesKept
  <2>5. ASSUME NEW w \in Workers, Worker(w) PROVE UNCHANGED <<record, origin, replies>>
    BY <2>5 DEF Worker, WakeUp, Leave, ClaimNextJob, ClaimUnaudited, ClaimNothing,
                Heartbeat, HeartbeatFails, HandlerReturns, CompleteJob
  <2>6. ASSUME NEW k \in Keys, NEW j \in Jobs, EnqueueOrphan(k, j) \/ RestartInCreate(k, j)
        PROVE  RepliesAgree'
    <3>1. UNCHANGED <<record, replies>> /\ state[j] = "absent"
          /\ state' = [state EXCEPT ![j] = "queued"] /\ origin' = [origin EXCEPT ![j] = k]
      BY <2>6 DEF EnqueueOrphan, RestartInCreate, Orphan
    <3>2. ASSUME NEW q \in Keys, record[q] # NoRecord
          PROVE  record[q].job \in Jobs /\ record[q].job # j
      BY <3>1, <3>2 DEF RepliesAgree, QueueInv, TypeOK
    <3> QED
      BY <3>1, <3>2 DEF RepliesAgree, QueueInv, TypeOK
  <2>7. CASE Shutdown \/ Restart \/ \E w \in Workers, j \in Jobs : RestartInClaim(w, j)
    BY <2>4, <2>7 DEF Shutdown, Restart, RestartInClaim
  <2>8. CASE RequeueExpiredJobs \/ (\E j \in Jobs : Expire(j)) \/ UNCHANGED vars
    BY <2>4, <2>8 DEF RequeueExpiredJobs, Expire, vars
  <2> QED
    BY <2>1, <2>2, <2>4, <2>5, <2>6, <2>7, <2>8 DEF Next, Client, Process
<1> QED
  BY <1>1, <1>2, QueueInvariant, PTL DEF Spec

-----------------------------------------------------------------------------
(* Jobs per key.                                                           *)

\* The jobs that were created for a key.
JobsOf(k) == {j \in Jobs : origin[j] = k}

\* Without failing writes a key that has no record yet has a job only for each
\* time the process died between a job and its record.
KeyInv ==
    ~Faults => \A k \in Keys :
                 Cardinality(JobsOf(k)) <= (IF record[k] = NoRecord THEN 0 ELSE 1) + crashes

\* The jobs of a key are finitely many.
LEMMA FiniteJobs ==
    ASSUME NEW S \in SUBSET Jobs
    PROVE  IsFiniteSet(S) /\ Cardinality(S) \in Nat
  BY JobAssumption, FS_Subset, FS_CardinalityType

\* A new job is one more for its key and none for another.
LEMMA JobAdded ==
    ASSUME QueueInv, NEW k \in Keys, NEW j \in Jobs, origin' = [origin EXCEPT ![j] = k]
    PROVE  /\ Cardinality(JobsOf(k)') <= Cardinality(JobsOf(k)) + 1
           /\ \A q \in Keys \ {k} : Cardinality(JobsOf(q)') <= Cardinality(JobsOf(q))
<1>1. origin \in [Jobs -> Keys \union {None}]
  BY DEF QueueInv, TypeOK
<1>2. \A i \in Jobs : origin'[i] = IF i = j THEN k ELSE origin[i]
  BY <1>1
<1>3. JobsOf(k)' \subseteq JobsOf(k) \union {j} /\ JobsOf(k) \union {j} \in SUBSET Jobs
  BY <1>2 DEF JobsOf
<1>4. \A q \in Keys \ {k} : JobsOf(q)' \subseteq JobsOf(q) /\ JobsOf(q) \in SUBSET Jobs
  BY <1>2 DEF JobsOf
<1>5. JobsOf(k)' \in SUBSET Jobs /\ JobsOf(k) \in SUBSET Jobs
  BY <1>3
<1> HIDE DEF JobsOf
<1>6. Cardinality(JobsOf(k) \union {j}) <= Cardinality(JobsOf(k)) + 1
  <2>1. IsFiniteSet(JobsOf(k)) /\ Cardinality(JobsOf(k)) \in Nat
    BY <1>5, FiniteJobs
  <2>2. Cardinality(JobsOf(k) \union {j})
          = IF j \in JobsOf(k) THEN Cardinality(JobsOf(k)) ELSE Cardinality(JobsOf(k)) + 1
    BY <2>1, FS_AddElement
  <2> QED
    BY <2>1, <2>2
<1>7. Cardinality(JobsOf(k)') <= Cardinality(JobsOf(k) \union {j})
  BY <1>3, FiniteJobs, FS_Subset
<1>8. /\ Cardinality(JobsOf(k)) \in Nat /\ Cardinality(JobsOf(k)') \in Nat
      /\ Cardinality(JobsOf(k) \union {j}) \in Nat
  BY <1>3, <1>5, FiniteJobs
<1>9. \A q \in Keys \ {k} : Cardinality(JobsOf(q)') <= Cardinality(JobsOf(q))
  BY <1>4, FiniteJobs, FS_Subset
<1> QED
  BY <1>6, <1>7, <1>8, <1>9

\* A step that creates no job and no record keeps the count.
LEMMA KeysKept ==
    ASSUME QueueInv, KeyInv, UNCHANGED <<record, origin>>, crashes' \in Nat, crashes <= crashes'
    PROVE  KeyInv'
<1> SUFFICES ASSUME ~Faults, NEW k \in Keys
             PROVE  Cardinality(JobsOf(k)') <= (IF record'[k] = NoRecord THEN 0 ELSE 1) + crashes'
  BY DEF KeyInv
<1>1. JobsOf(k)' = JobsOf(k) /\ JobsOf(k) \in SUBSET Jobs
  BY DEF JobsOf
<1>2. Cardinality(JobsOf(k)) <= (IF record[k] = NoRecord THEN 0 ELSE 1) + crashes
  BY DEF KeyInv
<1>3. Cardinality(JobsOf(k)) \in Nat /\ crashes \in Nat
  BY <1>1, FiniteJobs DEF QueueInv, TypeOK
<1> QED
  BY <1>1, <1>2, <1>3

\* A job and its record: the key had none before.
LEMMA KeysCreate ==
    ASSUME QueueInv, KeyInv, NEW k \in Keys, NEW d \in Digests, NEW j \in Jobs,
           Create(k, d, j), UNCHANGED crashes
    PROVE  KeyInv'
<1> SUFFICES ASSUME ~Faults, NEW q \in Keys
             PROVE  Cardinality(JobsOf(q)') <= (IF record'[q] = NoRecord THEN 0 ELSE 1) + crashes'
  BY DEF KeyInv
<1>1. /\ Cardinality(JobsOf(k)') <= Cardinality(JobsOf(k)) + 1
      /\ \A p \in Keys \ {k} : Cardinality(JobsOf(p)') <= Cardinality(JobsOf(p))
  BY JobAdded DEF Create
<1>2. Cardinality(JobsOf(q)) <= (IF record[q] = NoRecord THEN 0 ELSE 1) + crashes
  BY DEF KeyInv
<1>3. Cardinality(JobsOf(q)) \in Nat /\ Cardinality(JobsOf(q)') \in Nat /\ crashes \in Nat
  <2>1. JobsOf(q) \in SUBSET Jobs /\ JobsOf(q)' \in SUBSET Jobs
    BY DEF JobsOf
  <2> QED
    BY <2>1, FiniteJobs DEF QueueInv, TypeOK
<1>4. CASE q = k
  <2>1. record[q] = NoRecord /\ record'[q] = [digest |-> d, job |-> j]
    BY <1>4 DEF Create, QueueInv, TypeOK
  <2>2. record'[q] # NoRecord
    BY <2>1, NoneAssumption DEF NoRecord
  <2> QED
    BY <1>1, <1>2, <1>3, <1>4, <2>1, <2>2
<1>5. CASE q # k
  <2>1. record'[q] = record[q]
    BY <1>5 DEF Create, QueueInv, TypeOK
  <2> QED
    BY <1>1, <1>2, <1>3, <1>5, <2>1
<1> QED
  BY <1>4, <1>5

\* A job without its record: a death of the process pays for it.
LEMMA KeysOrphan ==
    ASSUME QueueInv, KeyInv, NEW k \in Keys, NEW j \in Jobs, RestartInCreate(k, j)
    PROVE  KeyInv'
<1> SUFFICES ASSUME ~Faults, NEW q \in Keys
             PROVE  Cardinality(JobsOf(q)') <= (IF record'[q] = NoRecord THEN 0 ELSE 1) + crashes'
  BY DEF KeyInv
<1>1. /\ Cardinality(JobsOf(k)') <= Cardinality(JobsOf(k)) + 1
      /\ \A p \in Keys \ {k} : Cardinality(JobsOf(p)') <= Cardinality(JobsOf(p))
  BY JobAdded DEF RestartInCreate, Orphan
<1>2. Cardinality(JobsOf(q)) <= (IF record[q] = NoRecord THEN 0 ELSE 1) + crashes
  BY DEF KeyInv
<1>3. Cardinality(JobsOf(q)) \in Nat /\ Cardinality(JobsOf(q)') \in Nat /\ crashes \in Nat
  <2>1. JobsOf(q) \in SUBSET Jobs /\ JobsOf(q)' \in SUBSET Jobs
    BY DEF JobsOf
  <2> QED
    BY <2>1, FiniteJobs DEF QueueInv, TypeOK
<1>4. record'[q] = record[q] /\ crashes' = crashes + 1
  BY DEF RestartInCreate, Orphan, Restarted
<1>5. Cardinality(JobsOf(q)') <= Cardinality(JobsOf(q)) + 1
  BY <1>1, <1>3
<1> QED
  BY <1>2, <1>3, <1>4, <1>5

\* A key has one job, however often clients retry, and one more at most for each
\* death of the process between the job file and the record, for any number of
\* jobs, keys, requests, workers and restarts.
THEOREM JobsPerKey == Spec => []OneJobPerKey
<1>1. Init => KeyInv
  <2> SUFFICES ASSUME Init, NEW k \in Keys
               PROVE  Cardinality(JobsOf(k)) <= (IF record[k] = NoRecord THEN 0 ELSE 1) + crashes
    BY DEF KeyInv
  <2>1. JobsOf(k) = {} /\ record[k] = NoRecord /\ crashes = 0
    BY NoneAssumption DEF Init, JobsOf
  <2> QED
    BY <2>1, FS_EmptySet
<1>2. QueueInv /\ KeyInv /\ [Next]_vars => KeyInv'
  <2> SUFFICES ASSUME QueueInv, KeyInv, [Next]_vars PROVE KeyInv'
    OBVIOUS
  <2>1. crashes \in Nat
    BY DEF QueueInv, TypeOK
  <2>2. ASSUME UNCHANGED <<record, origin>>, crashes' = crashes \/ crashes' = crashes + 1
        PROVE  KeyInv'
    BY <2>1, <2>2, KeysKept
  <2>3. CASE Client
    <3>1. ASSUME NEW k \in Keys, NEW d \in Digests, NEW j \in Jobs,
                 Enqueue(k, d, j) \/ EnqueueUnaudited(k, d, j)
          PROVE  KeyInv'
      BY <3>1, KeysCreate DEF Enqueue, EnqueueUnaudited
    <3>2. ASSUME NEW k \in Keys, NEW d \in Digests, EnqueueExisting(k, d)
          PROVE  KeyInv'
      BY <2>2, <3>2 DEF EnqueueExisting
    <3>3. ASSUME NEW k \in Keys, NEW j \in Jobs, EnqueueOrphan(k, j)
          PROVE  KeyInv'
      BY <3>3 DEF EnqueueOrphan, KeyInv
    <3> QED
      BY <2>3, <3>1, <3>2, <3>3 DEF Client
  <2>4. ASSUME NEW w \in Workers, Worker(w) PROVE UNCHANGED <<record, origin, crashes>>
    BY <2>4 DEF Worker, WakeUp, Leave, ClaimNextJob, ClaimUnaudited, ClaimNothing,
                Heartbeat, HeartbeatFails, HandlerReturns, CompleteJob
  <2>5. CASE Shutdown \/ Restart \/ \E w \in Workers, j \in Jobs : RestartInClaim(w, j)
    BY <2>2, <2>5 DEF Shutdown, Restart, RestartInClaim, Restarted
  <2>6. ASSUME NEW k \in Keys, NEW j \in Jobs, RestartInCreate(k, j) PROVE KeyInv'
    BY <2>6, KeysOrphan
  <2>7. CASE RequeueExpiredJobs \/ (\E j \in Jobs : Expire(j)) \/ UNCHANGED vars
    BY <2>2, <2>7 DEF RequeueExpiredJobs, Expire, vars
  <2> QED
    BY <2>2, <2>3, <2>4, <2>5, <2>6, <2>7 DEF Next, Process
<1>3. QueueInv /\ KeyInv => OneJobPerKey
  <2> SUFFICES ASSUME QueueInv, KeyInv, ~Faults, NEW k \in Keys
               PROVE  Cardinality({j \in Jobs : origin[j] = k}) <= 1 + crashes
    BY DEF OneJobPerKey
  <2>1. JobsOf(k) \in SUBSET Jobs /\ JobsOf(k) = {j \in Jobs : origin[j] = k}
    BY DEF JobsOf
  <2>2. Cardinality(JobsOf(k)) <= (IF record[k] = NoRecord THEN 0 ELSE 1) + crashes
    BY DEF KeyInv
  <2>3. Cardinality(JobsOf(k)) \in Nat /\ crashes \in Nat
    BY <2>1, FiniteJobs DEF QueueInv, TypeOK
  <2>4. Cardinality(JobsOf(k)) <= 1 + crashes
    BY <2>2, <2>3
  <2> QED
    BY <2>1, <2>4, Zenon
<1> QED
  BY <1>1, <1>2, <1>3, QueueInvariant, PTL DEF Spec
=============================================================================
