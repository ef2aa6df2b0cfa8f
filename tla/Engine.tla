------------------------------- MODULE Engine -------------------------------
(***************************************************************************)
(* The experiment engine: Analyze (internal/experiment/engine.go), the     *)
(* delta debugging it drives (ddmin.go), the experiment cache it consults  *)
(* (cache.go, internal/store/experiment_cache.go) and the process runner   *)
(* underneath (internal/runner/runner.go), at the grain of one runWorld    *)
(* per step, so that a cancelled context, a crash or an eviction can fall  *)
(* between any two runs.                                                   *)
(*                                                                         *)
(* A factor is its position in the list Compare returns, sorted by ID.     *)
(* Every candidate DDMin builds is a subsequence of that list, so it is    *)
(* the set of its positions.  A world is a base capture and the set of     *)
(* factors taken from the other capture; {} is the unmodified base, which  *)
(* only the baselines run, so the set also tells the two kinds apart.      *)
(* analysis.Experiments is the set of its records, each with the           *)
(* repetition that produced it, and its length.                            *)
(***************************************************************************)
EXTENDS Naturals, FiniteSets

CONSTANTS
    MaxFactors,      \* Analyses have 0..MaxFactors factors
    Repetitions,     \* Request.Repetitions
    MaxExperiments,  \* Request.MaxExperiments
    Arguments,       \* len(Request.Good.Command.Arguments)
    MaxAnalyses,     \* bound: how many times Analyze is called
    Flaky,           \* whether a world's outcome may differ between its runs
    Timeouts,        \* whether a run may exceed its timeout
    Cancellation,    \* whether the caller may cancel the context
    Faults           \* whether the machine may fail a step or crash

ASSUME EngineAssumption ==
    /\ MaxFactors \in Nat
    /\ Repetitions \in Nat \ {0}
    /\ MaxExperiments \in Nat \ {0}
    /\ Arguments \in Nat \ {0}
    /\ MaxAnalyses \in Nat
    /\ Flaky \in BOOLEAN /\ Timeouts \in BOOLEAN
    /\ Cancellation \in BOOLEAN /\ Faults \in BOOLEAN

VARIABLES
    factors,      \* the factors of the two captures, 1..k
    identical,    \* whether the two captures have the same cache identity
    world,        \* environment: the outcome each world has shown so far
    cache,        \* experiment-cache/*.json
    attempt,      \* calls of Analyze so far
    phase,        \* where Analyze stands
    rep,          \* repetitions done by the verifyBaseline or runIntervention
    current,      \* DDMin's current, afterwards Analyze's minimized
    n,            \* DDMin's granularity
    idx,          \* the chunk (or complement) DDMin tests
    tests,        \* DDMin's experiments
    budget,       \* DDMin's budget
    todo,         \* the factors verifyMinimality has yet to leave out
    minUsed,      \* verifyMinimality's len(records)
    used,         \* len(analysis.Experiments)
    experiments,  \* the set of analysis.Experiments
    status,       \* analysis.Status
    causal,       \* analysis.CausalFactors
    cancelled,    \* ctx.Err() # nil
    failed,       \* history: a run of this analysis produced no result
    refuted,      \* history: verifyMinimality found a smaller repair
    saved,        \* analyses/*.json
    audited       \* the analysis events of the audit log

captures == <<factors, identical>>
ddmin    == <<current, n, idx, tests, budget>>
minimal  == <<todo, minUsed>>
verdict  == <<status, causal>>
durable  == <<saved, audited>>
vars == <<captures, world, cache, attempt, phase, rep, ddmin, minimal, used,
          experiments, verdict, cancelled, failed, refuted, durable>>

-----------------------------------------------------------------------------
(* Values.                                                                 *)

Bases == {"good", "bad"}
Factors == 1..MaxFactors

\* What a run shows: the oracle's answer, whether it ran into its timeout, and
\* (history, the code keeps no such flag) whether it was left to finish.
Outcomes == [passed : BOOLEAN, timedOut : BOOLEAN, complete : BOOLEAN]
NoEntry == [none |-> TRUE]
Keys == Bases \X SUBSET Factors

Records == [base : Bases, factors : SUBSET Factors, rep : Nat \ {0},
            passed : BOOLEAN, complete : BOOLEAN, hit : BOOLEAN]

Statuses == {"UNPROVEN", "SUPPORTED", "PROVEN"}
Phases == {"idle", "good", "bad", "plan", "loop", "chunk", "complement",
           "reverse", "minimal", "save", "audit"}

\* The world the command really sees: captures with the same identity are the
\* same world.
WorldOf(base, S) == <<IF identical THEN "good" ELSE base, S>>

\* Variant of CacheKey: a key that leaves the base capture out.
CacheKeyBaseless(base, S) == <<"good", S>>

\* experimentCacheKey: capture IDs are left out of it, so two captures of the
\* same world share the key of their baselines.
CacheKey(base, S) == <<IF identical THEN "good" ELSE base, S>>

-----------------------------------------------------------------------------
(* runWorld: the cache, then the runner, then the oracle.                  *)

\* The oracle answers on whatever the run left behind.  A run under a
\* cancelled context is killed, unless it ends first, but its result is an
\* ordinary one: ExitCode -1, TimedOut false, the output so far.
RunOutcomes(w) ==
    LET killed == {o \in Outcomes : ~o.complete /\ ~o.timedOut}
        finished == IF ~Flaky /\ world[w] # NoEntry
                    THEN {world[w]}
                    ELSE {o \in Outcomes : o.complete /\ (o.timedOut => Timeouts)}
    IN  IF cancelled THEN killed \union finished ELSE finished

\* cached is the entry LoadExperimentCache returns; a result that did not time
\* out is saved, and a failure to save it is ignored.
CacheHit(key, o) ==
    /\ cache[key] # NoEntry
    /\ o = cache[key]
    /\ UNCHANGED <<cache, world>>

FreshRun(key, w, o) ==
    /\ cache[key] = NoEntry
    /\ o \in RunOutcomes(w)
    /\ world' = IF o.complete THEN [world EXCEPT ![w] = o] ELSE world
    /\ \E stored \in BOOLEAN :
         /\ stored => ~o.timedOut
         /\ ~stored => o.timedOut \/ Faults
         /\ cache' = IF stored THEN [cache EXCEPT ![key] = o] ELSE cache

\* runWorld with a result: base with the factors S taken from the other
\* capture, as the next repetition.
RunWorld(base, S, o) ==
    /\ \/ CacheHit(CacheKey(base, S), o)
       \/ FreshRun(CacheKey(base, S), WorldOf(base, S), o)
    /\ used' = used + 1
    /\ experiments' = experiments \union
         {[base |-> base, factors |-> S, rep |-> rep + 1,
           passed |-> o.passed, complete |-> o.complete,
           hit |-> cache[CacheKey(base, S)] # NoEntry]}
    /\ UNCHANGED failed

\* runWorld without one: the directory or the materialization failed before
\* there was a process.  Its empty record is appended all the same.
RunFails(base, S) ==
    /\ Faults
    /\ cache[CacheKey(base, S)] = NoEntry
    /\ used' = used + 1
    /\ failed' = TRUE
    /\ UNCHANGED <<cache, world, experiments>>

\* analysis.Status and CausalFactors, then finish.
Conclude(s, c) ==
    /\ phase' = "save"
    /\ status' = s
    /\ causal' = c

Unproven == Conclude("UNPROVEN", {})

-----------------------------------------------------------------------------
(* Analyze up to the search.                                               *)

Analyze ==
    /\ phase = "idle"
    /\ attempt < MaxAnalyses
    /\ attempt' = attempt + 1
    /\ cancelled' \in {FALSE, Cancellation}
    /\ phase' = IF cancelled' THEN "save" ELSE "good"
    /\ UNCHANGED <<captures, world, cache, rep, ddmin, minimal, used, experiments,
                   verdict, failed, refuted, durable>>

\* verifyBaseline: the good world must pass every repetition, the bad one
\* must fail every repetition.
VerifyBaseline(base) ==
    /\ phase = base
    /\ \/ \E o \in Outcomes :
            /\ RunWorld(base, {}, o)
            /\ IF o.passed # (base = "good")
               THEN Unproven /\ UNCHANGED rep
               ELSE /\ IF rep + 1 < Repetitions
                       THEN rep' = rep + 1 /\ UNCHANGED phase
                       ELSE /\ rep' = 0
                            /\ phase' = IF base = "good" THEN "bad" ELSE "plan"
                    /\ UNCHANGED verdict
       \/ RunFails(base, {}) /\ Unproven /\ UNCHANGED rep
    /\ UNCHANGED <<captures, attempt, ddmin, minimal, cancelled, refuted, durable>>

\* The checks between the baselines and DDMin, and DDMin's first assignments.
PlanSearch ==
    /\ phase = "plan"
    /\ IF factors = {} \/ used >= MaxExperiments
       THEN Unproven /\ UNCHANGED ddmin
       ELSE /\ phase' = "loop"
            /\ current' = factors
            /\ n' = 2
            /\ tests' = 0
            /\ budget' = MaxExperiments - used
            /\ UNCHANGED <<verdict, idx>>
    /\ UNCHANGED <<captures, world, cache, attempt, rep, minimal, used,
                   experiments, cancelled, failed, refuted, durable>>

-----------------------------------------------------------------------------
(* DDMin.                                                                  *)

Larger(a, b) == IF a >= b THEN a ELSE b
Smaller(a, b) == IF a <= b THEN a ELSE b

\* Variant of ChunkStart: the remainder is not spread over the first chunks.
ChunkStartEven(items, parts, k) == k * (Cardinality(items) \div parts)

\* split: parts chunks of consecutive items, the first len % parts of them one
\* longer than the others.
Parts(items, parts) == Smaller(parts, Cardinality(items))
ChunkStart(items, parts, k) ==
    k * (Cardinality(items) \div parts) + Smaller(k, Cardinality(items) % parts)
Rank(items, x) == Cardinality({y \in items : y < x})
Chunk(items, parts, k) ==
    {x \in items : /\ ChunkStart(items, parts, k - 1) <= Rank(items, x)
                   /\ Rank(items, x) < ChunkStart(items, parts, k)}

\* The candidate under test: a chunk, or what subtract leaves without it.
Candidate ==
    LET chunk == Chunk(current, Parts(current, n), idx)
    IN  IF phase = "chunk" THEN chunk ELSE current \ chunk

\* The head of the loop.
DDMinLoop ==
    /\ phase = "loop"
    /\ IF Cardinality(current) < 2
       THEN phase' = "reverse" /\ UNCHANGED <<idx, verdict>>
       ELSE IF tests >= budget
            THEN Unproven /\ UNCHANGED idx
            ELSE phase' = "chunk" /\ idx' = 1 /\ UNCHANGED verdict
    /\ UNCHANGED <<captures, world, cache, attempt, rep, current, n, tests, budget,
                   minimal, used, experiments, cancelled, failed, refuted, durable>>

\* Variant of BudgetLeft: one candidate too many.
BudgetLeftInclusive == rep = 0 => tests <= budget

\* The budget is counted in candidates and looked at before each of them.
BudgetLeft == rep = 0 => tests < budget

DDMinExhausted ==
    /\ phase \in {"chunk", "complement"}
    /\ ~BudgetLeft
    /\ Unproven
    /\ UNCHANGED <<captures, world, cache, attempt, rep, ddmin, minimal, used,
                   experiments, cancelled, failed, refuted, durable>>

\* Variant of NextCandidate: the search gives up one granularity too early.
NextCandidateCoarse ==
    IF idx < Parts(current, n)
    THEN idx' = idx + 1 /\ UNCHANGED <<phase, n>>
    ELSE IF phase = "chunk"
         THEN phase' = "complement" /\ idx' = 1 /\ UNCHANGED n
         ELSE IF n * 2 > Cardinality(current)
              THEN phase' = "reverse" /\ UNCHANGED <<idx, n>>
              ELSE n' = n * 2 /\ phase' = "loop" /\ UNCHANGED idx

\* A candidate that does not repair the bad world: the next chunk, then the
\* complements, then a finer split or the end of the search.
NextCandidate ==
    IF idx < Parts(current, n)
    THEN idx' = idx + 1 /\ UNCHANGED <<phase, n>>
    ELSE IF phase = "chunk"
         THEN phase' = "complement" /\ idx' = 1 /\ UNCHANGED n
         ELSE IF n >= Cardinality(current)
              THEN phase' = "reverse" /\ UNCHANGED <<idx, n>>
              ELSE /\ n' = Smaller(Cardinality(current), n * 2)
                   /\ phase' = "loop"
                   /\ UNCHANGED idx

\* Variant of Reduce: a complement that repaired the world is taken for its chunk.
ReduceToChunk ==
    /\ current' = Chunk(current, Parts(current, n), idx)
    /\ n' = Larger(2, n - 1)
    /\ phase' = "loop"
    /\ UNCHANGED idx

\* A candidate that repaired it in every repetition.
Reduce ==
    /\ current' = Candidate
    /\ n' = Larger(2, n - 1)
    /\ phase' = "loop"
    /\ UNCHANGED idx

\* test(candidate), one repetition of runIntervention on the bad world.
DDMinTest ==
    /\ phase \in {"chunk", "complement"}
    /\ BudgetLeft
    /\ tests' = IF rep = 0 THEN tests + 1 ELSE tests
    /\ \/ \E o \in Outcomes :
            /\ RunWorld("bad", Candidate, o)
            /\ IF ~o.passed
               THEN NextCandidate /\ rep' = 0 /\ UNCHANGED current
               ELSE IF rep + 1 < Repetitions
                    THEN rep' = rep + 1 /\ UNCHANGED <<phase, current, n, idx>>
                    ELSE Reduce /\ rep' = 0
            /\ UNCHANGED verdict
       \/ RunFails("bad", Candidate) /\ Unproven /\ UNCHANGED <<rep, current, n, idx>>
    /\ UNCHANGED <<captures, attempt, budget, minimal, cancelled, refuted, durable>>

-----------------------------------------------------------------------------
(* Reverse verification and minimality.                                    *)

\* One repetition of the opposite intervention: the good world with the
\* minimized factors taken from the bad one must fail.
Reverse ==
    /\ phase = "reverse"
    /\ IF rep = 0 /\ (current = {} \/ used + Repetitions > MaxExperiments)
       THEN Unproven /\ UNCHANGED <<rep, todo, cache, world, used, experiments, failed>>
       ELSE \/ \E o \in Outcomes :
                 /\ RunWorld("good", current, o)
                 /\ IF o.passed
                    THEN Conclude("SUPPORTED", current) /\ UNCHANGED <<rep, todo>>
                    ELSE /\ IF rep + 1 < Repetitions
                            THEN rep' = rep + 1 /\ UNCHANGED <<phase, todo>>
                            ELSE rep' = 0 /\ phase' = "minimal" /\ todo' = current
                         /\ UNCHANGED verdict
            \/ RunFails("good", current) /\ Unproven /\ UNCHANGED <<rep, todo>>
    /\ UNCHANGED <<captures, attempt, ddmin, minUsed, cancelled, refuted, durable>>

\* verifyMinimality leaves the factors out one at a time, in order; the empty
\* subset is not run.
Omitted == CHOOSE x \in todo : \A y \in todo : x <= y

MinimalityExhausted == rep = 0 /\ minUsed + Arguments >= MaxExperiments

\* Variant of OmitNext: the loop stays on the same factor.
OmitSame == todo' = todo

OmitNext == todo' = todo \ {Omitted}

VerifyMinimality ==
    /\ phase = "minimal"
    /\ todo # {}
    /\ IF MinimalityExhausted
       THEN /\ Conclude("SUPPORTED", current)
            /\ UNCHANGED <<rep, todo, minUsed, cache, world, used, experiments,
                           failed, refuted>>
       ELSE IF current = {Omitted}
       THEN /\ OmitNext
            /\ UNCHANGED <<phase, rep, minUsed, verdict, cache, world, used,
                           experiments, failed, refuted>>
       ELSE /\ minUsed' = minUsed + 1
            /\ \/ \E o \in Outcomes :
                    /\ RunWorld("bad", current \ {Omitted}, o)
                    /\ IF ~o.passed
                       THEN /\ rep' = 0
                            /\ OmitNext
                            /\ UNCHANGED <<phase, verdict, refuted>>
                       ELSE IF rep + 1 < Repetitions
                       THEN rep' = rep + 1 /\ UNCHANGED <<phase, todo, verdict, refuted>>
                       ELSE /\ Conclude("SUPPORTED", current)
                            /\ refuted' = TRUE
                            /\ UNCHANGED <<rep, todo>>
               \/ /\ RunFails("bad", current \ {Omitted})
                  /\ IF cancelled THEN Unproven ELSE Conclude("SUPPORTED", current)
                  /\ UNCHANGED <<rep, todo, refuted>>
    /\ UNCHANGED <<captures, attempt, ddmin, cancelled, durable>>

\* Nothing is left to omit: the only way to PROVEN.
Prove ==
    /\ phase = "minimal"
    /\ todo = {}
    /\ Conclude("PROVEN", current)
    /\ UNCHANGED <<captures, world, cache, attempt, rep, ddmin, minimal, used,
                   experiments, cancelled, failed, refuted, durable>>

-----------------------------------------------------------------------------
(* finish, and the environment.                                            *)

\* Analyze returns, or its process dies: its variables are gone.
Return ==
    /\ phase' = "idle"
    /\ rep' = 0 /\ used' = 0 /\ minUsed' = 0
    /\ experiments' = {} /\ todo' = {}
    /\ status' = "UNPROVEN" /\ causal' = {}
    /\ cancelled' = FALSE /\ failed' = FALSE /\ refuted' = FALSE
    /\ current' = {} /\ n' = 2 /\ idx' = 1 /\ tests' = 0 /\ budget' = 0

\* Variant of SaveAnalysis: its error is ignored.
SaveIgnored ==
    /\ phase = "save"
    /\ \/ saved' = saved \union
               {[status |-> status, causal |-> causal, failed |-> failed]}
       \/ Faults /\ UNCHANGED saved
    /\ phase' = "audit"
    /\ UNCHANGED <<captures, world, cache, attempt, rep, ddmin, minimal, used,
                   experiments, verdict, cancelled, failed, refuted, audited>>

\* SaveAnalysis; without it Analyze returns an error and nothing is kept.
SaveAnalysis ==
    /\ phase = "save"
    /\ \/ /\ saved' = saved \union
               {[status |-> status, causal |-> causal, failed |-> failed]}
          /\ phase' = "audit"
          /\ UNCHANGED <<rep, ddmin, minimal, used, experiments, verdict,
                         cancelled, failed, refuted>>
       \/ Faults /\ Return /\ UNCHANGED saved
    /\ UNCHANGED <<captures, world, cache, attempt, audited>>

\* AppendAudit; without it Analyze returns an error although the file is there.
AuditAnalysis ==
    /\ phase = "audit"
    /\ \/ audited' = audited \union
                        {[status |-> status, causal |-> Cardinality(causal)]}
       \/ Faults /\ UNCHANGED audited
    /\ Return
    /\ UNCHANGED <<captures, world, cache, attempt, saved>>

\* The caller cancels the context, or its job loses its lease.
Cancel ==
    /\ Cancellation
    /\ ~cancelled
    /\ phase # "idle"
    /\ cancelled' = TRUE
    /\ UNCHANGED <<captures, world, cache, attempt, phase, rep, ddmin, minimal, used,
                   experiments, verdict, failed, refuted, durable>>

\* The process dies; files stay.
Crash ==
    /\ Faults
    /\ phase # "idle"
    /\ Return
    /\ UNCHANGED <<captures, world, cache, attempt, durable>>

\* pruneExperimentCacheLocked, run by the saves of other analyses.
Evict ==
    /\ Faults
    /\ \E key \in Keys :
         /\ cache[key] # NoEntry
         /\ cache' = [cache EXCEPT ![key] = NoEntry]
    /\ UNCHANGED <<captures, world, attempt, phase, rep, ddmin, minimal, used,
                   experiments, verdict, cancelled, failed, refuted, durable>>

Init ==
    /\ \E k \in 0..MaxFactors : factors = 1..k
    /\ identical \in BOOLEAN
    /\ identical => factors = {}
    /\ world = [key \in Keys |-> NoEntry]
    /\ cache = [key \in Keys |-> NoEntry]
    /\ attempt = 0 /\ phase = "idle" /\ rep = 0
    /\ current = {} /\ n = 2 /\ idx = 1 /\ tests = 0 /\ budget = 0
    /\ todo = {} /\ minUsed = 0 /\ used = 0 /\ experiments = {}
    /\ status = "UNPROVEN" /\ causal = {}
    /\ cancelled = FALSE /\ failed = FALSE /\ refuted = FALSE
    /\ saved = {} /\ audited = {}

Step ==
    \/ \E base \in Bases : VerifyBaseline(base)
    \/ PlanSearch
    \/ DDMinLoop
    \/ DDMinExhausted
    \/ DDMinTest
    \/ Reverse
    \/ VerifyMinimality
    \/ Prove
    \/ SaveAnalysis
    \/ AuditAnalysis

Next == Analyze \/ Step \/ Cancel \/ Crash \/ Evict

Spec == Init /\ [][Next]_vars

\* A goroutine that is not waiting for anything is run again; a run ends,
\* because it has a timeout.
FairSpec == Spec /\ WF_vars(Step)
-----------------------------------------------------------------------------
(* Properties.                                                             *)

\* Every variable keeps its type: candidates are sets of factors, counters are
\* naturals, cache entries are outcomes, records are well formed.
TypeOK ==
    /\ factors \subseteq Factors /\ identical \in BOOLEAN
    /\ world \in [Keys -> Outcomes \union {NoEntry}]
    /\ cache \in [Keys -> Outcomes \union {NoEntry}]
    /\ attempt \in Nat /\ phase \in Phases /\ rep \in Nat
    /\ current \subseteq factors /\ n \in Nat /\ n >= 2 /\ idx \in Nat
    /\ tests \in Nat /\ budget \in Nat
    /\ todo \subseteq current /\ minUsed \in Nat /\ used \in Nat
    /\ experiments \subseteq Records
    /\ status \in Statuses /\ causal \subseteq factors
    /\ cancelled \in BOOLEAN /\ failed \in BOOLEAN /\ refuted \in BOOLEAN
    /\ saved \subseteq [status : Statuses, causal : SUBSET Factors, failed : BOOLEAN]
    /\ audited \subseteq [status : Statuses, causal : Nat]

\* The analysis holds an answer of the oracle for this world, in repetition r.
Shown(base, S, r, passed) ==
    \E e \in experiments : /\ e.base = base /\ e.factors = S
                           /\ e.rep = r /\ e.passed = passed

Repeated(base, S, passed) == \A r \in 1..Repetitions : Shown(base, S, r, passed)

StableBaselines == Repeated("good", {}, TRUE) /\ Repeated("bad", {}, FALSE)

\* The search kept a smaller set only on repairs it saw in every repetition.
ReductionRepaired(C) == C # factors => Repeated("bad", C, TRUE)

\* Every set smaller by one factor was seen not to repair the bad world.
OneMinimal(C) ==
    \A x \in C : C # {x} => \E r \in 1..Repetitions : Shown("bad", C \ {x}, r, FALSE)

\* What an analysis concludes is in its own record.  A PROVEN has stable
\* baselines, a repair for the set it names (unless the search never left the
\* whole factor set), the reverse failure in every repetition, and a failing
\* run for every set with one factor less; a SUPPORTED has at least the first
\* two (Analyze's ladder of early returns, engine.go:95-192).
VerdictHasEvidence ==
    /\ status # "UNPROVEN" => StableBaselines /\ ReductionRepaired(causal)
    /\ status = "PROVEN" => Repeated("good", causal, FALSE) /\ OneMinimal(causal)
    /\ status = "UNPROVEN" => causal = {}

\* finish writes the analysis before its audit event: the log never names a
\* verdict that no saved analysis has, whichever step fails and wherever the
\* process dies.
AuditedWasSaved ==
    \A e \in audited : \E a \in saved :
       a.status = e.status /\ Cardinality(a.causal) = e.causal

\* Every split DDMin tests is a partition of current into non-empty chunks that
\* leave something out, so every candidate it hands to the test is smaller than
\* current and not empty (split and subtract, ddmin.go:70-104): the search
\* never runs the unmodified bad world again and never loops on one set.
SplitPartitions ==
    phase \in {"chunk", "complement"} =>
       LET p == Parts(current, n)
           chunk(k) == Chunk(current, p, k)
       IN  /\ idx \in 1..p
           /\ UNION {chunk(k) : k \in 1..p} = current
           /\ \A k \in 1..p : chunk(k) # {} /\ chunk(k) # current
           /\ \A j, k \in 1..p : j # k => chunk(j) \intersect chunk(k) = {}

\* With a command whose worlds always answer alike, DDMin's result is already
\* 1-minimal, so verifyMinimality (engine.go:314-335) never finds the smaller
\* repair it looks for, whatever was evicted, timed out or failed in between.
MinimalityAgrees == ~refuted

\* With such a command, any two analyses of the same captures that met no
\* execution error save the same verdict and the same factors, whatever the
\* experiment cache held when they ran (docs/determinism.md: cache failures do
\* not change an analysis result).
AnalysesAgree ==
    \A a, b \in saved :
       ~a.failed /\ ~b.failed => a.status = b.status /\ a.causal = b.causal

\* How far the runs of one analysis can go: DDMin's budget counts candidates,
\* each of which is run up to Repetitions times; once the reverse check is
\* passed only verifyMinimality's runs may come on top of the budget.
ExperimentBound ==
    /\ tests <= budget
    /\ used <= Repetitions * (3 + tests + Cardinality(current))
    /\ status # "UNPROVEN" => used <= MaxExperiments + Repetitions * Cardinality(current)

\* Analyze always returns: DDMin reaches the end of its search or of its
\* budget under any answers, and every later loop is finite.
Terminates == phase # "idle" ~> phase = "idle"

-----------------------------------------------------------------------------
(* What the documentation says of the engine.                              *)

\* docs/user-guide.md:77 and docs/ci-baselines.md:131: an interrupted analysis is
\* UNPROVEN, cancellation must not become proof.  A PROVEN analysis rests on
\* runs that were left to finish.
ProofFromFinishedRuns ==
    status = "PROVEN" => \A e \in experiments : e.complete
=============================================================================
