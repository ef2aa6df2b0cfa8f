------------------------------ MODULE JobQueue ------------------------------
(***************************************************************************)
(* The job queue: jobs and idempotency records in the store                *)
(* (internal/store/store.go) and the workers, heartbeats and reaper of the *)
(* manager (internal/jobs/manager.go) that run the service's handlers.     *)
(*                                                                         *)
(* Every store operation runs under the store's mutex, so it is one step;  *)
(* a step that writes several files has one variant for each point at      *)
(* which a write may fail or the process may die.  Time is abstract: a     *)
(* lease is fresh or expired, it may expire whenever nobody has renewed    *)
(* it, and tickers may fire at any time.  A job is the rank of its random  *)
(* ID among all IDs, which is the order in which ClaimNextJob looks.       *)
(***************************************************************************)
EXTENDS Naturals, FiniteSets

CONSTANTS
    Jobs,         \* job IDs, a set of numbers; its size bounds the accepted jobs
    Workers,      \* worker-1, worker-2, ...
    Keys,         \* principal + route + idempotency key
    Digests,      \* canonical request digests
    MaxAttempts,  \* Config.MaxAttempts
    MaxCrashes,   \* bound: how often the process dies
    Stops,        \* whether the daemon is asked to shut down
    Faults,       \* whether a write or an audit append may fail
    None          \* no worker, no job, no digest

ASSUME JobAssumption ==
    /\ Jobs \subseteq Nat /\ IsFiniteSet(Jobs)
    /\ MaxAttempts \in Nat \ {0}
    /\ MaxCrashes \in Nat
    /\ Stops \in BOOLEAN /\ Faults \in BOOLEAN

ASSUME NoneAssumption == None \notin Workers /\ None \notin Jobs /\ None \notin Keys

VARIABLES
    state,     \* Job.State of jobs/<id>.json, "absent" without the file
    owner,     \* Job.LeaseOwner
    expired,   \* Job.LeaseExpires is in the past
    attempts,  \* Job.Attempts
    record,    \* idempotency/<digest>.json: the digest and the job it is bound to
    wake,      \* the manager's wake channel, of capacity 1
    at,        \* where each worker stands
    held,      \* the job it executes
    claimed,   \* history: the attempt it claimed the job for
    cut,       \* its handler's context, jobCtx, is done
    ok,        \* its handler returned without an error
    stopping,  \* ctx.Done() of the daemon
    crashes,   \* history: how often the process died
    origin,    \* history: the key each job was created for
    replies    \* history: what clients were told, per key

jobVars    == <<state, owner, expired, attempts>>
workerVars == <<at, held, claimed, cut, ok>>
history    == <<origin, replies>>
vars == <<jobVars, record, wake, workerVars, stopping, crashes, history>>

States == {"absent", "queued", "running", "succeeded", "failed"}
Terminal == {"succeeded", "failed"}
NoRecord == [digest |-> None, job |-> None]

-----------------------------------------------------------------------------
(* Accepting jobs.                                                         *)

\* Variant of Create: the record is not looked up.
CreateAgain(k, d, j) ==
    /\ state[j] = "absent"
    /\ state' = [state EXCEPT ![j] = "queued"]
    /\ record' = [record EXCEPT ![k] = [digest |-> d, job |-> j]]
    /\ origin' = [origin EXCEPT ![j] = k]
    /\ UNCHANGED <<owner, expired, attempts>>

\* CreateJobIdempotent for a key it has not seen: the job file, then the
\* idempotency record.
Create(k, d, j) ==
    /\ record[k] = NoRecord
    /\ state[j] = "absent"
    /\ state' = [state EXCEPT ![j] = "queued"]
    /\ record' = [record EXCEPT ![k] = [digest |-> d, job |-> j]]
    /\ origin' = [origin EXCEPT ![j] = k]
    /\ UNCHANGED <<owner, expired, attempts>>

Reply(k, d, j) == replies' = [replies EXCEPT ![k] = @ \union {<<d, j>>}]

\* Enqueue of a new job: created, audited, the workers notified.
Enqueue(k, d, j) ==
    /\ Create(k, d, j)
    /\ Reply(k, d, j)
    /\ wake' = TRUE
    /\ UNCHANGED <<workerVars, stopping, crashes>>

\* The audit append fails: the client gets an error for a job that exists, and
\* nobody is notified.
EnqueueUnaudited(k, d, j) ==
    /\ Faults
    /\ Create(k, d, j)
    /\ UNCHANGED <<wake, workerVars, stopping, crashes, replies>>

\* A job file without a record that names it.
Orphan(k, j) ==
    /\ record[k] = NoRecord
    /\ state[j] = "absent"
    /\ state' = [state EXCEPT ![j] = "queued"]
    /\ origin' = [origin EXCEPT ![j] = k]
    /\ UNCHANGED <<owner, expired, attempts, record, replies>>

\* The record cannot be written, and the job file cannot be removed again: the
\* error of that removal is dropped.
EnqueueOrphan(k, j) ==
    /\ Faults
    /\ Orphan(k, j)
    /\ UNCHANGED <<wake, workerVars, stopping, crashes>>

\* Variant of EnqueueExisting: the request digest is not compared.
EnqueueAnyDigest(k, d) ==
    /\ record[k] # NoRecord
    /\ Reply(k, d, record[k].job)
    /\ wake' = TRUE
    /\ UNCHANGED <<jobVars, record, workerVars, stopping, crashes, origin>>

\* Enqueue of a key that is bound already: the same request gets its job back,
\* another one a conflict.
EnqueueExisting(k, d) ==
    /\ record[k] # NoRecord
    /\ record[k].digest = d
    /\ Reply(k, d, record[k].job)
    /\ wake' = TRUE
    /\ UNCHANGED <<jobVars, record, workerVars, stopping, crashes, origin>>

-----------------------------------------------------------------------------
(* The workers.                                                            *)

\* worker's select: a notification or its ticker sends it into the claim loop.
WakeUp(w) ==
    /\ at[w] = "wait"
    /\ at' = [at EXCEPT ![w] = "claim"]
    /\ wake' \in {FALSE, wake}
    /\ UNCHANGED <<jobVars, record, held, claimed, cut, ok, stopping, crashes, history>>

\* The same select on a done context.
Leave(w) ==
    /\ at[w] = "wait"
    /\ stopping
    /\ at' = [at EXCEPT ![w] = "gone"]
    /\ UNCHANGED <<jobVars, record, wake, held, claimed, cut, ok, stopping, crashes, history>>

\* Variants of Claimable: a failed job is retried; the last attempt is not made.
ClaimableFailed(j) == state[j] \in {"queued", "failed"} /\ attempts[j] < MaxAttempts
ClaimableBelow(j) == state[j] = "queued" /\ attempts[j] + 1 < MaxAttempts

\* The jobs ClaimNextJob does not pass over.
Claimable(j) == state[j] = "queued" /\ attempts[j] < MaxAttempts

\* The job file ClaimNextJob writes: running, with owner, lease and attempt.
Lease(w, j) ==
    /\ Claimable(j)
    /\ \A i \in Jobs : Claimable(i) => j <= i
    /\ state' = [state EXCEPT ![j] = "running"]
    /\ owner' = [owner EXCEPT ![j] = w]
    /\ expired' = [expired EXCEPT ![j] = FALSE]
    /\ attempts' = [attempts EXCEPT ![j] = @ + 1]

\* ClaimNextJob, then execute up to the call of the handler.  Every kind that
\* Enqueue accepts has its handler, so execute's first return is not taken.
ClaimNextJob(w, j) ==
    /\ at[w] = "claim"
    /\ Lease(w, j)
    /\ at' = [at EXCEPT ![w] = "run"]
    /\ held' = [held EXCEPT ![w] = j]
    /\ claimed' = [claimed EXCEPT ![w] = attempts[j] + 1]
    /\ cut' = [cut EXCEPT ![w] = stopping]
    /\ UNCHANGED <<record, wake, ok, stopping, crashes, history>>

\* The audit append fails after the write: the job is running and leased to a
\* worker that goes back to waiting.
ClaimUnaudited(w, j) ==
    /\ Faults
    /\ at[w] = "claim"
    /\ Lease(w, j)
    /\ at' = [at EXCEPT ![w] = "wait"]
    /\ UNCHANGED <<record, wake, held, claimed, cut, ok, stopping, crashes, history>>

\* Nothing to claim, or the claim failed before it wrote.
ClaimNothing(w) ==
    /\ at[w] = "claim"
    /\ (\A j \in Jobs : ~Claimable(j)) \/ Faults
    /\ at' = [at EXCEPT ![w] = "wait"]
    /\ UNCHANGED <<jobVars, record, wake, held, claimed, cut, ok, stopping, crashes, history>>

\* What HeartbeatJob and CompleteJob ask of the job file.
Owns(w) == state[held[w]] = "running" /\ owner[held[w]] = w

\* Variant of Heartbeat: it takes a lost lease back.
HeartbeatReclaims(w) ==
    /\ at[w] \in {"run", "complete"}
    /\ ~cut[w] \/ stopping
    /\ state[held[w]] = "running"
    /\ owner' = [owner EXCEPT ![held[w]] = w]
    /\ expired' = [expired EXCEPT ![held[w]] = FALSE]
    /\ UNCHANGED <<state, attempts, record, wake, workerVars, stopping, crashes, history>>

\* HeartbeatJob from the goroutine beside the handler.  A tick that is due may
\* still win the select when the handler has returned or the daemon stops.
Heartbeat(w) ==
    /\ at[w] \in {"run", "complete"}
    /\ ~cut[w] \/ stopping
    /\ Owns(w)
    /\ expired' = [expired EXCEPT ![held[w]] = FALSE]
    /\ UNCHANGED <<state, owner, attempts, record, wake, workerVars, stopping, crashes, history>>

\* A heartbeat that fails, because the lease is someone else's or the write
\* fails, cancels the handler's context.
HeartbeatFails(w) ==
    /\ at[w] \in {"run", "complete"}
    /\ ~cut[w]
    /\ ~Owns(w) \/ Faults
    /\ cut' = [cut EXCEPT ![w] = TRUE]
    /\ UNCHANGED <<jobVars, record, wake, at, held, claimed, ok, stopping, crashes, history>>

\* The handler returns, with an error or without; execute stops the heartbeat.
HandlerReturns(w) ==
    /\ at[w] = "run"
    /\ at' = [at EXCEPT ![w] = "complete"]
    /\ \E b \in BOOLEAN : ok' = [ok EXCEPT ![w] = b]
    /\ UNCHANGED <<jobVars, record, wake, held, claimed, cut, stopping, crashes, history>>

\* CompleteJob.  Its error, like that of its audit append, is dropped: the
\* worker goes on to the next claim whether it still owned the job or not.
CompleteJob(w) ==
    /\ at[w] = "complete"
    /\ at' = [at EXCEPT ![w] = "claim"]
    /\ held' = [held EXCEPT ![w] = None]
    /\ cut' = [cut EXCEPT ![w] = FALSE]
    /\ ok' = [ok EXCEPT ![w] = FALSE]
    /\ claimed' = [claimed EXCEPT ![w] = 0]
    /\ LET j == held[w] IN
       \/ /\ Owns(w)
          /\ state' = [state EXCEPT ![j] = IF ok[w] THEN "succeeded" ELSE "failed"]
          /\ owner' = [owner EXCEPT ![j] = None]
          /\ expired' = [expired EXCEPT ![j] = FALSE]
          /\ UNCHANGED attempts
       \/ /\ ~Owns(w) \/ Faults
          /\ UNCHANGED jobVars
    /\ UNCHANGED <<record, wake, stopping, crashes, origin, replies>>

-----------------------------------------------------------------------------
(* Leases and the reaper.                                                  *)

\* A lease nobody renewed in time.
Expire(j) ==
    /\ state[j] = "running"
    /\ ~expired[j]
    /\ expired' = [expired EXCEPT ![j] = TRUE]
    /\ UNCHANGED <<state, owner, attempts, record, wake, workerVars, stopping, crashes, history>>

\* Variant of TakenBack: one attempt more than ClaimNextJob allows.
TakenBackOneMore(j) == IF attempts[j] > MaxAttempts THEN "failed" ELSE "queued"

\* What becomes of a job whose lease has expired.
TakenBack(j) == IF attempts[j] >= MaxAttempts THEN "failed" ELSE "queued"

\* RequeueExpiredJobs, in the order of the files; a failed write ends it early.
\* reaper notifies the workers when it changed anything.
RequeueExpiredJobs ==
    LET due == {j \in Jobs : state[j] = "running" /\ expired[j]}
    IN  \E R \in SUBSET due \ {{}} :
          /\ R = due \/ (Faults /\ \A j \in R, i \in due : i <= j => i \in R)
          /\ state' = [j \in Jobs |-> IF j \in R THEN TakenBack(j) ELSE state[j]]
          /\ owner' = [j \in Jobs |-> IF j \in R THEN None ELSE owner[j]]
          /\ expired' = [j \in Jobs |-> expired[j] /\ j \notin R]
          /\ wake' = TRUE
          /\ UNCHANGED <<attempts, record, workerVars, stopping, crashes, history>>

-----------------------------------------------------------------------------
(* The process.                                                            *)

\* SIGINT or SIGTERM: the context of the manager, and of every handler under
\* it, is done.
Shutdown ==
    /\ Stops
    /\ ~stopping
    /\ stopping' = TRUE
    /\ cut' = [w \in Workers |-> at[w] = "run" \/ cut[w]]
    /\ UNCHANGED <<jobVars, record, wake, at, held, claimed, ok, crashes, history>>

\* The process ends, after a shutdown without waiting for its workers, and a
\* new one opens the store with workers of the same names.
Restarted ==
    /\ crashes < MaxCrashes
    /\ crashes' = crashes + 1
    /\ at' = [w \in Workers |-> "wait"]
    /\ held' = [w \in Workers |-> None]
    /\ claimed' = [w \in Workers |-> 0]
    /\ cut' = [w \in Workers |-> FALSE]
    /\ ok' = [w \in Workers |-> FALSE]
    /\ wake' = FALSE
    /\ stopping' = FALSE

Restart ==
    /\ Restarted
    /\ UNCHANGED <<jobVars, record, history>>

\* The process ends inside CreateJobIdempotent, between its two writes.
RestartInCreate(k, j) ==
    /\ Restarted
    /\ Orphan(k, j)

\* The process ends inside ClaimNextJob, after its write.
RestartInClaim(w, j) ==
    /\ Restarted
    /\ at[w] = "claim"
    /\ Lease(w, j)
    /\ UNCHANGED <<record, history>>

-----------------------------------------------------------------------------

Init ==
    /\ state = [j \in Jobs |-> "absent"]
    /\ owner = [j \in Jobs |-> None]
    /\ expired = [j \in Jobs |-> FALSE]
    /\ attempts = [j \in Jobs |-> 0]
    /\ record = [k \in Keys |-> NoRecord]
    /\ wake = FALSE
    /\ at = [w \in Workers |-> "wait"]
    /\ held = [w \in Workers |-> None]
    /\ claimed = [w \in Workers |-> 0]
    /\ cut = [w \in Workers |-> FALSE]
    /\ ok = [w \in Workers |-> FALSE]
    /\ stopping = FALSE
    /\ crashes = 0
    /\ origin = [j \in Jobs |-> None]
    /\ replies = [k \in Keys |-> {}]

Client ==
    \/ \E k \in Keys, d \in Digests, j \in Jobs : Enqueue(k, d, j) \/ EnqueueUnaudited(k, d, j)
    \/ \E k \in Keys, d \in Digests : EnqueueExisting(k, d)
    \/ \E k \in Keys, j \in Jobs : EnqueueOrphan(k, j)

Worker(w) ==
    \/ WakeUp(w)
    \/ Leave(w)
    \/ \E j \in Jobs : ClaimNextJob(w, j) \/ ClaimUnaudited(w, j)
    \/ ClaimNothing(w)
    \/ Heartbeat(w)
    \/ HeartbeatFails(w)
    \/ HandlerReturns(w)
    \/ CompleteJob(w)

Process ==
    \/ Shutdown
    \/ Restart
    \/ \E k \in Keys, j \in Jobs : RestartInCreate(k, j)
    \/ \E w \in Workers, j \in Jobs : RestartInClaim(w, j)

Next ==
    \/ Client
    \/ \E w \in Workers : Worker(w)
    \/ \E j \in Jobs : Expire(j)
    \/ RequeueExpiredJobs
    \/ Process

Spec == Init /\ [][Next]_vars

\* A lease that no handler renews any more runs out.
ExpireUnattended(j) ==
    /\ \A w \in Workers : at[w] \in {"run", "complete"} => held[w] # j
    /\ Expire(j)

\* Tickers fire, handlers return (every command has a timeout), a worker with
\* something to do does it, and time passes.
Fairness ==
    /\ \A w \in Workers :
         /\ WF_vars(WakeUp(w))
         /\ WF_vars(ClaimNothing(w) \/ \E j \in Jobs : ClaimNextJob(w, j))
         /\ WF_vars(HandlerReturns(w))
         /\ WF_vars(CompleteJob(w))
    /\ \A j \in Jobs : WF_vars(ExpireUnattended(j))
    /\ WF_vars(RequeueExpiredJobs)

FairSpec == Spec /\ Fairness

-----------------------------------------------------------------------------
(* Properties.                                                             *)

\* Every variable keeps its type, and a worker executes a job that exists.
TypeOK ==
    /\ state \in [Jobs -> States]
    /\ owner \in [Jobs -> Workers \union {None}]
    /\ expired \in [Jobs -> BOOLEAN]
    /\ attempts \in [Jobs -> Nat]
    /\ record \in [Keys -> [digest : Digests, job : Jobs] \union {NoRecord}]
    /\ wake \in BOOLEAN
    /\ at \in [Workers -> {"wait", "claim", "run", "complete", "gone"}]
    /\ held \in [Workers -> Jobs \union {None}]
    /\ claimed \in [Workers -> Nat]
    /\ cut \in [Workers -> BOOLEAN]
    /\ ok \in [Workers -> BOOLEAN]
    /\ stopping \in BOOLEAN
    /\ crashes \in Nat
    /\ origin \in [Jobs -> Keys \union {None}]
    /\ replies \in [Keys -> SUBSET (Digests \X Jobs)]

\* A worker that the store takes for the owner of the job it executes holds
\* the latest claim of that job: no execution whose lease was given to someone
\* else can renew or complete it (HeartbeatJob and CompleteJob compare names
\* only, and the names come back after a restart).
OwnerHoldsLatestClaim ==
    \A w \in Workers : \A j \in Jobs :
       /\ at[w] \in {"run", "complete"} /\ held[w] = j
       /\ state[j] = "running" /\ owner[j] = w
       => claimed[w] = attempts[j]

\* A lease belongs to a running job and nobody else's, and a job is never left
\* queued with its attempts used up, where ClaimNextJob would pass it over for
\* ever (RequeueExpiredJobs and ClaimNextJob apply the same limit).
LeasesAndAttempts ==
    \A j \in Jobs :
       /\ (owner[j] # None) <=> (state[j] = "running")
       /\ expired[j] => state[j] = "running"
       /\ attempts[j] <= MaxAttempts
       /\ state[j] = "queued" => attempts[j] < MaxAttempts
       /\ state[j] = "absent" => attempts[j] = 0

\* A job that has ended keeps its outcome: no late worker, reaper or restart
\* revives or rewrites it.
TerminalStable ==
    [][\A j \in Jobs : state[j] \in Terminal => state'[j] = state[j]]_vars

\* Whatever a client was told for a key stays true: every reply names the one
\* request and the one job its record is bound to, and that job exists, also
\* after failed writes, restarts and retries (CreateJobIdempotent).
RepliesAgree ==
    \A k \in Keys :
       /\ \A r \in replies[k] : record[k] = [digest |-> r[1], job |-> r[2]]
       /\ record[k] # NoRecord => state[record[k].job] # "absent"
                                  /\ origin[record[k].job] = k

\* A key has one job, however often its client retries and whatever became of
\* the job (docs/architecture.md: "Idempotency prevents duplicate accepted
\* mutations"), and one more for each time the process died between the job file
\* and the record; a record that cannot be written is not counted here.
OneJobPerKey ==
    ~Faults => \A k \in Keys : Cardinality({j \in Jobs : origin[j] = k}) <= 1 + crashes

\* A job that was accepted ends, whoever crashes or loses a lease on the way:
\* the reaper takes it back or gives it up.
JobsEnd ==
    \A j \in Jobs : state[j] \in {"queued", "running"} ~> state[j] \in Terminal

\* The queue keeps what JobLifecycle promises: whatever workers, reaper and
\* restarts do, each of their steps accepts, starts, finishes or takes back
\* jobs as that specification allows, or changes no job.
Lifecycle == INSTANCE JobLifecycle
ImplementsLifecycle == Lifecycle!Spec
=============================================================================
