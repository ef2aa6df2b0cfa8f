----------------------------- MODULE EngineProof -----------------------------
(***************************************************************************)
(* Engine's verdicts rest on recorded evidence, for every number of        *)
(* factors, repetitions and experiments, with flaky commands, timeouts,    *)
(* cancellation, crashes and cache evictions at any point.                 *)
(***************************************************************************)
EXTENDS Engine, FiniteSetTheorems, TLAPS

-----------------------------------------------------------------------------
(* The inductive invariant: what each phase of Analyze may rely on.        *)

\* Repetitions 1..rep of the runs now under way have all answered alike.
SoFar(base, S, passed) == \A r \in 1..rep : Shown(base, S, r, passed)

Running == {"good", "bad", "chunk", "complement", "reverse", "minimal"}
Searched == {"loop", "chunk", "complement", "reverse", "minimal"}

RepInv ==
    /\ phase \in Running => rep < Repetitions
    /\ phase \in {"idle", "plan", "loop"} => rep = 0
    /\ phase \notin {"minimal", "save", "audit"} => todo = {}

BaselineInv ==
    /\ phase = "good" => SoFar("good", {}, TRUE)
    /\ phase = "bad" => Repeated("good", {}, TRUE) /\ SoFar("bad", {}, FALSE)
    /\ phase \in Searched \union {"plan"} => StableBaselines

SearchInv ==
    /\ phase \in Searched => ReductionRepaired(current)
    /\ phase \in {"chunk", "complement"} => SoFar("bad", Candidate, TRUE)

ReverseInv ==
    /\ phase = "reverse" => SoFar("good", current, FALSE)
    /\ phase = "minimal" => Repeated("good", current, FALSE)

MinimalInv ==
    phase = "minimal" =>
       \A x \in current \ todo : current # {x} =>
          \E r \in 1..Repetitions : Shown("bad", current \ {x}, r, FALSE)

VerdictInv ==
    /\ phase \notin {"save", "audit"} => status = "UNPROVEN" /\ causal = {}
    /\ VerdictHasEvidence

EvidenceInv ==
    /\ TypeOK
    /\ RepInv
    /\ BaselineInv
    /\ SearchInv
    /\ ReverseInv
    /\ MinimalInv
    /\ VerdictInv

-----------------------------------------------------------------------------
(* Facts about the operators.                                              *)

\* A set of factors is finite, so its length is a natural number.
LEMMA FactorSets ==
    ASSUME NEW S \in SUBSET Factors
    PROVE  IsFiniteSet(S) /\ Cardinality(S) \in Nat
<1>1. IsFiniteSet(Factors)
  BY FS_Interval, EngineAssumption DEF Factors
<1>2. IsFiniteSet(S)
  BY <1>1, FS_Subset
<1> QED
  BY <1>2, FS_CardinalityType

\* What DDMin tests is part of current: neither split nor subtract invents a
\* factor.
LEMMA CandidateSubset == Candidate \subseteq current
  BY DEF Candidate, Chunk

RunEffect(base, S, passed) ==
    /\ world' \in [Keys -> Outcomes \union {NoEntry}]
    /\ cache' \in [Keys -> Outcomes \union {NoEntry}]
    /\ used' \in Nat /\ failed' \in BOOLEAN
    /\ experiments' \subseteq Records
    /\ experiments \subseteq experiments'
    /\ \E e \in experiments' : /\ e.base = base /\ e.factors = S
                               /\ e.rep = rep + 1 /\ e.passed = passed

\* runWorld with a result leaves well-formed files and appends a record of the
\* world, the repetition and the answer; it drops none.
LEMMA RunWorldEffect ==
    ASSUME TypeOK, NEW base \in Bases, NEW S \in SUBSET Factors,
           NEW o \in Outcomes, RunWorld(base, S, o)
    PROVE  RunEffect(base, S, o.passed)
<1> DEFINE key == CacheKey(base, S)
           w == WorldOf(base, S)
<1>1. key \in Keys /\ w \in Keys
  BY DEF CacheKey, WorldOf, Keys, Bases
<1>2. /\ world' \in [Keys -> Outcomes \union {NoEntry}]
      /\ cache' \in [Keys -> Outcomes \union {NoEntry}]
  <2>1. CASE CacheHit(key, o)
    BY <2>1 DEF CacheHit, TypeOK
  <2>2. CASE FreshRun(key, w, o)
    BY <2>2, <1>1 DEF FreshRun, TypeOK
  <2> QED
    BY <2>1, <2>2 DEF RunWorld
<1>3. PICK h \in BOOLEAN : experiments' = experiments \union
         {[base |-> base, factors |-> S, rep |-> rep + 1,
           passed |-> o.passed, complete |-> o.complete, hit |-> h]}
  BY DEF RunWorld
<1> DEFINE e == [base |-> base, factors |-> S, rep |-> rep + 1,
                 passed |-> o.passed, complete |-> o.complete, hit |-> h]
<1>4. e \in Records
  BY DEF Records, Outcomes, TypeOK
<1>5. used' \in Nat /\ failed' \in BOOLEAN
  BY DEF RunWorld, TypeOK
<1>6. experiments' \subseteq Records /\ e \in experiments'
  BY <1>3, <1>4 DEF TypeOK
<1> QED
  BY <1>2, <1>3, <1>5, <1>6 DEF RunEffect

\* runWorld without a result changes no evidence.
LEMMA RunFailsEffect ==
    ASSUME TypeOK, NEW base, NEW S, RunFails(base, S)
    PROVE  used' \in Nat /\ failed' \in BOOLEAN /\ UNCHANGED <<world, cache, experiments>>
  BY DEF RunFails, TypeOK

\* Evidence is only ever added to: a run keeps what earlier ones showed.
LEMMA ShownGrows ==
    ASSUME experiments \subseteq experiments', NEW base, NEW S, NEW r, NEW passed,
           Shown(base, S, r, passed)
    PROVE  Shown(base, S, r, passed)'
  BY DEF Shown

-----------------------------------------------------------------------------
(* Init, and the steps that add no evidence.                               *)

\* Before the first analysis there is nothing to show.
LEMMA InitEvidence == Init => EvidenceInv
<1> SUFFICES ASSUME Init PROVE EvidenceInv
  OBVIOUS
<1>1. factors \subseteq Factors
  BY EngineAssumption DEF Init, Factors
<1>2. n \in Nat /\ n >= 2
  BY DEF Init
<1>3. TypeOK
  BY <1>1, <1>2 DEF Init, TypeOK, Phases, Statuses
<1> QED
  BY <1>3, EngineAssumption
     DEF Init, EvidenceInv, RepInv, BaselineInv, SearchInv, ReverseInv, MinimalInv,
         VerdictInv, VerdictHasEvidence, Running, Searched

\* Analyze starts with no records and a verdict of UNPROVEN.
LEMMA AnalyzeStep == EvidenceInv /\ Analyze => EvidenceInv'
<1> SUFFICES ASSUME EvidenceInv, Analyze PROVE EvidenceInv'
  OBVIOUS
<1>1. cancelled' \in BOOLEAN
  BY EngineAssumption DEF Analyze
<1>2. TypeOK'
  BY <1>1 DEF Analyze, EvidenceInv, TypeOK, Phases, captures, ddmin, minimal, verdict, durable
<1>3. /\ phase' \in {"good", "save"} /\ rep' = 0 /\ todo' = {}
      /\ status' = "UNPROVEN" /\ causal' = {}
  BY DEF Analyze, EvidenceInv, RepInv, VerdictInv, verdict, minimal
<1>4. RepInv'
  BY <1>3, EngineAssumption DEF RepInv, Running
<1>5. SoFar("good", {}, TRUE)'
  BY <1>3 DEF SoFar
<1>6. BaselineInv' /\ SearchInv'
  BY <1>3, <1>5 DEF BaselineInv, SearchInv, Searched
<1>7. ReverseInv' /\ MinimalInv' /\ VerdictInv'
  BY <1>3 DEF ReverseInv, MinimalInv, VerdictInv, VerdictHasEvidence
<1> QED
  BY <1>2, <1>4, <1>6, <1>7 DEF EvidenceInv

\* Once the verdict is reached nothing but the verdict is left to keep.
LEMMA Finished ==
    ASSUME phase' \in {"save", "audit"}, TypeOK', VerdictHasEvidence'
    PROVE  EvidenceInv'
  BY DEF EvidenceInv, RepInv, BaselineInv, SearchInv, ReverseInv, MinimalInv,
         VerdictInv, Running, Searched

\* UNPROVEN needs no evidence.
LEMMA FinishedUnproven ==
    ASSUME Unproven, TypeOK'
    PROVE  EvidenceInv'
<1>1. VerdictHasEvidence'
  BY DEF Unproven, Conclude, VerdictHasEvidence
<1> QED
  BY <1>1, Finished DEF Unproven, Conclude

\* Entering DDMin: the whole factor set is the first current, and the
\* baselines stay shown.
LEMMA PlanSearchStep == EvidenceInv /\ PlanSearch => EvidenceInv'
<1> SUFFICES ASSUME EvidenceInv, PlanSearch PROVE EvidenceInv'
  OBVIOUS
<1> USE DEF captures, ddmin, minimal, verdict, durable
<1>1. TypeOK'
  BY EngineAssumption
     DEF PlanSearch, Unproven, Conclude, EvidenceInv, TypeOK, Phases, Statuses
<1>2. CASE Unproven
  BY <1>1, <1>2, FinishedUnproven
<1>3. CASE ~Unproven
  <2>1. /\ phase = "plan" /\ phase' = "loop" /\ current' = factors /\ factors' = factors
        /\ rep' = rep /\ todo' = todo /\ experiments' = experiments
        /\ status' = status /\ causal' = causal
    BY <1>3 DEF PlanSearch
  <2>2. RepInv'
    BY <2>1 DEF EvidenceInv, RepInv, Running
  <2>3. StableBaselines'
    BY <2>1 DEF EvidenceInv, BaselineInv, StableBaselines, Repeated, Shown
  <2>4. BaselineInv' /\ SearchInv'
    BY <2>1, <2>3 DEF BaselineInv, SearchInv, ReductionRepaired
  <2>5. ReverseInv' /\ MinimalInv'
    BY <2>1 DEF ReverseInv, MinimalInv
  <2>6. VerdictInv'
    BY <2>1 DEF EvidenceInv, VerdictInv, VerdictHasEvidence
  <2> QED
    BY <1>1, <2>2, <2>4, <2>5, <2>6 DEF EvidenceInv
<1> QED
  BY <1>2, <1>3

\* The head of DDMin's loop runs nothing: it ends the search, gives up or
\* goes to the first chunk.
LEMMA DDMinLoopStep == EvidenceInv /\ DDMinLoop => EvidenceInv'
<1> SUFFICES ASSUME EvidenceInv, DDMinLoop PROVE EvidenceInv'
  OBVIOUS
<1> USE DEF captures, minimal, verdict, durable
<1>1. TypeOK'
  BY DEF DDMinLoop, Unproven, Conclude, EvidenceInv, TypeOK, Phases, Statuses
<1>2. CASE Unproven
  BY <1>1, <1>2, FinishedUnproven
<1>3. CASE ~Unproven
  <2>1. /\ phase = "loop" /\ phase' \in {"reverse", "chunk"}
        /\ current' = current /\ factors' = factors
        /\ rep' = rep /\ todo' = todo /\ experiments' = experiments
        /\ status' = status /\ causal' = causal
    BY <1>3 DEF DDMinLoop
  <2>2. rep' = 0 /\ RepInv'
    BY <2>1, EngineAssumption DEF EvidenceInv, RepInv, Running
  <2>3. StableBaselines' /\ ReductionRepaired(current)'
    BY <2>1 DEF EvidenceInv, BaselineInv, SearchInv, Searched, StableBaselines,
                ReductionRepaired, Repeated, Shown
  <2>4. SoFar("bad", Candidate, TRUE)' /\ SoFar("good", current, FALSE)'
    BY <2>2 DEF SoFar
  <2>5. BaselineInv' /\ SearchInv' /\ ReverseInv' /\ MinimalInv'
    BY <2>1, <2>3, <2>4 DEF BaselineInv, SearchInv, ReverseInv, MinimalInv
  <2>6. VerdictInv'
    BY <2>1 DEF EvidenceInv, VerdictInv, VerdictHasEvidence
  <2> QED
    BY <1>1, <2>2, <2>5, <2>6 DEF EvidenceInv
<1> QED
  BY <1>2, <1>3

\* Running out of budget concludes UNPROVEN.
LEMMA DDMinExhaustedStep == EvidenceInv /\ DDMinExhausted => EvidenceInv'
<1> SUFFICES ASSUME EvidenceInv, DDMinExhausted PROVE EvidenceInv'
  OBVIOUS
<1>1. TypeOK'
  BY DEF DDMinExhausted, Unproven, Conclude, EvidenceInv, TypeOK, Phases, Statuses,
         captures, ddmin, minimal, durable
<1> QED
  BY <1>1, FinishedUnproven DEF DDMinExhausted

\* Prove concludes from what the minimal phase has gathered.
LEMMA ProveStep == EvidenceInv /\ Prove => EvidenceInv'
<1> SUFFICES ASSUME EvidenceInv, Prove PROVE EvidenceInv'
  OBVIOUS
<1>1. TypeOK'
  BY DEF Prove, Conclude, EvidenceInv, TypeOK, Phases, Statuses, captures, ddmin,
         minimal, durable
<1>2. /\ phase = "minimal" /\ todo = {}
      /\ phase' = "save" /\ status' = "PROVEN" /\ causal' = current
      /\ factors' = factors /\ experiments' = experiments
  BY DEF Prove, Conclude, captures
<1>3. StableBaselines' /\ ReductionRepaired(causal)'
  BY <1>2 DEF EvidenceInv, BaselineInv, SearchInv, Searched, StableBaselines,
              ReductionRepaired, Repeated, Shown
<1>4. Repeated("good", causal, FALSE)'
  BY <1>2 DEF EvidenceInv, ReverseInv, Repeated, Shown
<1>5. OneMinimal(causal)'
  BY <1>2 DEF EvidenceInv, MinimalInv, OneMinimal, Shown
<1>6. VerdictHasEvidence'
  BY <1>2, <1>3, <1>4, <1>5 DEF VerdictHasEvidence
<1> QED
  BY <1>1, <1>2, <1>6, Finished

\* Returning, or crashing, leaves nothing that needs evidence.
LEMMA Returned ==
    ASSUME EvidenceInv, Return, UNCHANGED <<captures, attempt>>,
           world' \in [Keys -> Outcomes \union {NoEntry}],
           cache' \in [Keys -> Outcomes \union {NoEntry}],
           saved' \subseteq [status : Statuses, causal : SUBSET Factors, failed : BOOLEAN],
           audited' \subseteq [status : Statuses, causal : Nat]
    PROVE  EvidenceInv'
<1>0. n' \in Nat /\ n' >= 2
  BY DEF Return
<1>1. TypeOK'
  BY <1>0 DEF Return, EvidenceInv, TypeOK, Phases, Statuses, captures
<1>2. RepInv' /\ BaselineInv' /\ SearchInv' /\ ReverseInv' /\ MinimalInv'
  BY DEF Return, RepInv, BaselineInv, SearchInv, ReverseInv, MinimalInv, Running, Searched
<1>3. VerdictInv'
  BY DEF Return, VerdictInv, VerdictHasEvidence
<1> QED
  BY <1>1, <1>2, <1>3 DEF EvidenceInv

\* SaveAnalysis writes the verdict it was given, or fails and returns.
LEMMA SaveAnalysisStep == EvidenceInv /\ SaveAnalysis => EvidenceInv'
<1> SUFFICES ASSUME EvidenceInv, SaveAnalysis PROVE EvidenceInv'
  OBVIOUS
<1>1. [status |-> status, causal |-> causal, failed |-> failed]
        \in [status : Statuses, causal : SUBSET Factors, failed : BOOLEAN]
  BY DEF EvidenceInv, TypeOK
<1>2. CASE Return /\ UNCHANGED saved
  BY <1>2, Returned DEF SaveAnalysis, EvidenceInv, TypeOK
<1>3. CASE ~(Return /\ UNCHANGED saved)
  <2>1. /\ saved' = saved \union
              {[status |-> status, causal |-> causal, failed |-> failed]}
        /\ phase' = "audit"
        /\ UNCHANGED <<rep, ddmin, minimal, used, experiments, verdict,
                       cancelled, failed, refuted>>
        /\ UNCHANGED <<captures, world, cache, attempt, audited>>
    BY <1>3 DEF SaveAnalysis
  <2>2. TypeOK'
    BY <2>1, <1>1 DEF EvidenceInv, TypeOK, Phases, captures, ddmin, minimal, verdict
  <2>3. VerdictHasEvidence'
    BY <2>1 DEF EvidenceInv, VerdictInv, VerdictHasEvidence, StableBaselines,
                ReductionRepaired, OneMinimal, Repeated, Shown, captures, verdict
  <2> QED
    BY <2>1, <2>2, <2>3, Finished
<1> QED
  BY <1>2, <1>3

\* AppendAudit changes no evidence, and Analyze returns.
LEMMA AuditAnalysisStep == EvidenceInv /\ AuditAnalysis => EvidenceInv'
<1> SUFFICES ASSUME EvidenceInv, AuditAnalysis PROVE EvidenceInv'
  OBVIOUS
<1>1. Cardinality(causal) \in Nat
  BY FactorSets DEF EvidenceInv, TypeOK
<1>2. [status |-> status, causal |-> Cardinality(causal)] \in [status : Statuses, causal : Nat]
  BY <1>1 DEF EvidenceInv, TypeOK
<1>3. audited' \subseteq [status : Statuses, causal : Nat]
  BY <1>2 DEF AuditAnalysis, EvidenceInv, TypeOK
<1> QED
  BY <1>3, Returned DEF AuditAnalysis, EvidenceInv, TypeOK

\* A crash loses the analysis and keeps the files.
LEMMA CrashStep == EvidenceInv /\ Crash => EvidenceInv'
  BY Returned DEF Crash, EvidenceInv, TypeOK, durable

\* What the evidence is about: everything but the cache, the world and the
\* context.
Evidence == <<factors, phase, rep, current, n, idx, todo, experiments, status, causal>>

\* Steps that change no variable of the analysis keep the invariant.
LEMMA EvidenceUnchanged ==
    ASSUME EvidenceInv, TypeOK', UNCHANGED Evidence
    PROVE  EvidenceInv'
<1> USE DEF Evidence
<1>1. RepInv' /\ VerdictInv'
  <2>1. RepInv'
    BY DEF EvidenceInv, RepInv, Running
  <2>2. VerdictHasEvidence <=> VerdictHasEvidence'
    <3>1. StableBaselines <=> StableBaselines'
      BY DEF StableBaselines, Repeated, Shown
    <3>2. ReductionRepaired(causal) <=> ReductionRepaired(causal)'
      BY DEF ReductionRepaired, Repeated, Shown
    <3>3. Repeated("good", causal, FALSE) <=> Repeated("good", causal, FALSE)'
      BY DEF Repeated, Shown
    <3>4. OneMinimal(causal) <=> OneMinimal(causal)'
      BY DEF OneMinimal, Shown
    <3> QED
      BY <3>1, <3>2, <3>3, <3>4 DEF VerdictHasEvidence
  <2> QED
    BY <2>1, <2>2 DEF EvidenceInv, VerdictInv
<1>2. BaselineInv'
  BY DEF EvidenceInv, BaselineInv, StableBaselines, SoFar, Repeated, Shown
<1>3. SearchInv'
  BY DEF EvidenceInv, SearchInv, ReductionRepaired, Candidate, SoFar, Repeated, Shown
<1>4. ReverseInv' /\ MinimalInv'
  BY DEF EvidenceInv, ReverseInv, MinimalInv, SoFar, Repeated, Shown
<1> QED
  BY <1>1, <1>2, <1>3, <1>4 DEF EvidenceInv

\* Cancellation and eviction take no evidence away.
LEMMA EnvironmentStep == EvidenceInv /\ (Cancel \/ Evict \/ UNCHANGED vars) => EvidenceInv'
<1> SUFFICES ASSUME EvidenceInv, Cancel \/ Evict \/ UNCHANGED vars PROVE EvidenceInv'
  OBVIOUS
<1> USE DEF captures, ddmin, minimal, verdict, durable
<1>1. TypeOK'
  <2>1. CASE Cancel
    BY <2>1 DEF Cancel, EvidenceInv, TypeOK
  <2>2. CASE Evict
    BY <2>2 DEF Evict, EvidenceInv, TypeOK
  <2>3. CASE UNCHANGED vars
    BY <2>3 DEF vars, EvidenceInv, TypeOK
  <2> QED
    BY <2>1, <2>2, <2>3
<1>2. UNCHANGED Evidence
  BY DEF Cancel, Evict, vars, Evidence
<1> QED
  BY <1>1, <1>2, EvidenceUnchanged
-----------------------------------------------------------------------------
(* The steps that run a world.                                             *)

\* One more repetition: SoFar reaches from rep to rep + 1.
LEMMA OneMore ==
    ASSUME TypeOK, NEW base, NEW S, NEW passed, SoFar(base, S, passed),
           RunEffect(base, S, passed)
    PROVE  \A r \in 1..(rep + 1) : Shown(base, S, r, passed)'
<1> SUFFICES ASSUME NEW r \in 1..(rep + 1) PROVE Shown(base, S, r, passed)'
  OBVIOUS
<1>1. CASE r = rep + 1
  BY <1>1 DEF Shown, RunEffect
<1>2. CASE r # rep + 1
  <2>1. r \in 1..rep
    BY <1>2 DEF TypeOK
  <2> QED
    BY <2>1, ShownGrows DEF SoFar, RunEffect
<1> QED
  BY <1>1, <1>2

\* The evidence of finished phases stays when a run is appended.
LEMMA RepeatedGrows ==
    ASSUME experiments \subseteq experiments', NEW base, NEW S, NEW passed,
           Repeated(base, S, passed)
    PROVE  Repeated(base, S, passed)'
  BY ShownGrows DEF Repeated

\* Stable baselines stay shown when a run is appended.
LEMMA BaselinesGrow ==
    ASSUME experiments \subseteq experiments', StableBaselines
    PROVE  StableBaselines'
  BY RepeatedGrows DEF StableBaselines

\* verifyBaseline: each passing repetition is one more shown, the last one
\* completes the baseline, a wrong answer or a failed run concludes UNPROVEN.
LEMMA VerifyBaselineStep ==
    ASSUME EvidenceInv, NEW base \in Bases, VerifyBaseline(base)
    PROVE  EvidenceInv'
<1> USE DEF captures, ddmin, minimal, verdict, durable
<1>1. CASE RunFails(base, {}) /\ Unproven /\ UNCHANGED rep
  <2>1. TypeOK'
    BY <1>1, RunFailsEffect
       DEF VerifyBaseline, Unproven, Conclude, EvidenceInv, TypeOK, Phases, Statuses
  <2> QED
    BY <1>1, <2>1, FinishedUnproven
<1>2. ASSUME NEW o \in Outcomes, RunWorld(base, {}, o), o.passed # (base = "good"),
             Unproven, UNCHANGED rep
      PROVE  EvidenceInv'
  <2>1. TypeOK'
    BY <1>2, RunWorldEffect
       DEF RunEffect, VerifyBaseline, Unproven, Conclude, EvidenceInv, TypeOK, Phases, Statuses
  <2> QED
    BY <1>2, <2>1, FinishedUnproven
<1>3. ASSUME NEW o \in Outcomes, RunWorld(base, {}, o), o.passed = (base = "good"),
             IF rep + 1 < Repetitions
             THEN rep' = rep + 1 /\ UNCHANGED phase
             ELSE rep' = 0 /\ phase' = IF base = "good" THEN "bad" ELSE "plan",
             UNCHANGED verdict
      PROVE  EvidenceInv'
  <2>0. TypeOK /\ phase = base /\ rep < Repetitions /\ rep \in Nat
    BY DEF VerifyBaseline, EvidenceInv, RepInv, Running, Bases, TypeOK
  <2>1. RunEffect(base, {}, base = "good")
    <3>1. {} \in SUBSET Factors /\ RunWorld(base, {}, o)
      BY <1>3
    <3>2. RunEffect(base, {}, o.passed)
      BY <2>0, <3>1, RunWorldEffect
    <3> QED
      BY <1>3, <3>2, Zenon
  <2>2. TypeOK'
    <3>1. phase' \in Phases /\ rep' \in Nat
      BY <1>3, <2>0 DEF TypeOK, Phases, Bases
    <3> QED
      BY <1>3, <2>0, <2>1, <3>1 DEF RunEffect, VerifyBaseline, TypeOK
  <2>3. SoFar(base, {}, base = "good")
    BY <2>0 DEF EvidenceInv, BaselineInv, Bases
  <2>4. \A r \in 1..(rep + 1) : Shown(base, {}, r, base = "good")'
    BY <2>0, <2>1, <2>3, OneMore
  <2>5. base = "bad" => Repeated("good", {}, TRUE)'
    BY <2>0, <2>1, RepeatedGrows DEF EvidenceInv, BaselineInv, RunEffect
  <2>6. RepInv' /\ VerdictInv'
    <3>1. /\ phase' \in {"good", "bad", "plan"} /\ rep' < Repetitions
          /\ phase' = "plan" => rep' = 0
      BY <1>3, <2>0, EngineAssumption DEF Bases
    <3>3. todo' = {}
      BY <2>0 DEF VerifyBaseline, EvidenceInv, RepInv, Bases
    <3>2. status' = "UNPROVEN" /\ causal' = {}
      BY <1>3, <2>0 DEF EvidenceInv, VerdictInv, Bases
    <3> QED
      BY <3>1, <3>2, <3>3 DEF RepInv, Running, VerdictInv, VerdictHasEvidence
  <2>7. CASE rep + 1 < Repetitions
    <3>1. SoFar(base, {}, base = "good")'
      BY <1>3, <2>4, <2>7 DEF SoFar
    <3>2. phase' \in Bases /\ phase' = base
      BY <1>3, <2>0, <2>7
    <3> QED
      BY <2>2, <2>5, <2>6, <3>1, <3>2
         DEF EvidenceInv, BaselineInv, SearchInv, ReverseInv, MinimalInv, Searched, Bases
  <2>8. CASE rep + 1 >= Repetitions
    <3>1. Repeated(base, {}, base = "good")'
      BY <2>0, <2>4, <2>8, EngineAssumption DEF Repeated
    <3>2. SoFar("bad", {}, FALSE)'
      BY <1>3, <2>0, <2>8, EngineAssumption DEF SoFar
    <3>3. base = "bad" => StableBaselines'
      BY <2>5, <3>1 DEF StableBaselines
    <3>4. \/ base = "good" /\ phase' = "bad"
          \/ base = "bad" /\ phase' = "plan"
      BY <1>3, <2>0, <2>8, EngineAssumption DEF Bases
    <3> QED
      BY <2>2, <2>6, <3>1, <3>2, <3>3, <3>4
         DEF EvidenceInv, BaselineInv, SearchInv, ReverseInv, MinimalInv, Searched
  <2> QED
    BY <2>0, <2>7, <2>8, EngineAssumption
<1> QED
  BY <1>1, <1>2, <1>3 DEF VerifyBaseline

\* What the search has established survives further runs.
LEMMA SearchedGrows ==
    ASSUME EvidenceInv, phase \in Searched, experiments \subseteq experiments',
           factors' = factors, NEW C, C = current
    PROVE  StableBaselines' /\ ReductionRepaired(C)'
<1>1. StableBaselines /\ ReductionRepaired(C)
  BY DEF EvidenceInv, BaselineInv, SearchInv
<1>2. StableBaselines'
  BY <1>1, BaselinesGrow
<1>3. CASE C = factors
  BY <1>2, <1>3 DEF ReductionRepaired
<1>4. CASE C # factors
  <2>1. Repeated("bad", C, TRUE)'
    BY <1>1, <1>4, RepeatedGrows DEF ReductionRepaired
  <2> QED
    BY <1>2, <2>1 DEF ReductionRepaired
<1> QED
  BY <1>3, <1>4

\* SUPPORTED needs the baselines and the repair, which the search has.
LEMMA FinishedSupported ==
    ASSUME EvidenceInv, phase \in Searched, experiments \subseteq experiments',
           factors' = factors, Conclude("SUPPORTED", current), TypeOK'
    PROVE  EvidenceInv'
<1> PICK C : C = current
  OBVIOUS
<1>1. phase' = "save" /\ status' = "SUPPORTED" /\ causal' = C
  BY DEF Conclude
<1>2. StableBaselines' /\ ReductionRepaired(C)'
  BY SearchedGrows
<1>3. VerdictHasEvidence'
  BY <1>1, <1>2 DEF VerdictHasEvidence
<1> QED
  BY <1>1, <1>3, Finished

\* One repetition of a candidate: it fails and the search goes on, it passes
\* and is repeated, or it has passed every repetition and becomes current.
LEMMA DDMinTestStep == EvidenceInv /\ DDMinTest => EvidenceInv'
<1> SUFFICES ASSUME EvidenceInv, DDMinTest PROVE EvidenceInv'
  OBVIOUS
<1> USE DEF captures, minimal, verdict, durable
<1> PICK C : C = Candidate
  OBVIOUS
<1> PICK D : D = current
  OBVIOUS
<1>0. /\ TypeOK /\ phase \in {"chunk", "complement"} /\ phase \in Searched
      /\ rep < Repetitions /\ rep \in Nat /\ todo = {}
      /\ status = "UNPROVEN" /\ causal = {}
      /\ UNCHANGED <<factors, todo>>
  BY DEF DDMinTest, EvidenceInv, RepInv, Running, Searched, VerdictInv, TypeOK
<1>a. C \subseteq current /\ C \in SUBSET Factors /\ Cardinality(current) \in Nat
  BY <1>0, CandidateSubset, FactorSets DEF TypeOK
<1>b. SoFar("bad", C, TRUE)
  BY <1>0 DEF EvidenceInv, SearchInv
<1>1. CASE RunFails("bad", C) /\ Unproven /\ UNCHANGED <<rep, current, n, idx>>
  <2>1. TypeOK'
    BY <1>0, <1>1, RunFailsEffect
       DEF DDMinTest, Unproven, Conclude, TypeOK, Phases, Statuses
  <2> QED
    BY <1>1, <2>1, FinishedUnproven
<1>2. ASSUME NEW o \in Outcomes, RunWorld("bad", C, o), ~o.passed,
             NextCandidate, rep' = 0, UNCHANGED <<current, verdict>>
      PROVE  EvidenceInv'
  <2>1. RunEffect("bad", C, o.passed)
    BY <1>0, <1>a, <1>2, RunWorldEffect DEF Bases
  <2>2. phase' \in {"chunk", "complement", "reverse", "loop"} /\ n' \in Nat /\ n' >= 2 /\ idx' \in Nat
    BY <1>0, <1>a, <1>2 DEF NextCandidate, Smaller, TypeOK
  <2>3. TypeOK'
    BY <1>0, <1>2, <2>1, <2>2 DEF RunEffect, DDMinTest, TypeOK, Phases
  <2>4. StableBaselines' /\ ReductionRepaired(D)'
    BY <1>0, <2>1, SearchedGrows DEF RunEffect
  <2>5. ReductionRepaired(current)'
    BY <1>2, <2>4
  <2>6. SoFar("bad", Candidate, TRUE)' /\ SoFar("good", current, FALSE)'
    BY <1>2 DEF SoFar
  <2>7. RepInv' /\ VerdictInv'
    BY <1>0, <1>2, <2>2, EngineAssumption DEF RepInv, Running, VerdictInv, VerdictHasEvidence
  <2>8. BaselineInv' /\ SearchInv' /\ ReverseInv' /\ MinimalInv'
    BY <2>2, <2>4, <2>5, <2>6 DEF BaselineInv, SearchInv, ReverseInv, MinimalInv
  <2> QED
    BY <2>3, <2>7, <2>8 DEF EvidenceInv
<1>3. ASSUME NEW o \in Outcomes, RunWorld("bad", C, o), o.passed
      PROVE  RunEffect("bad", C, TRUE)
  <2>1. RunEffect("bad", C, o.passed)
    BY <1>0, <1>a, <1>3, RunWorldEffect DEF Bases
  <2>2. o.passed = TRUE
    BY <1>3 DEF Outcomes
  <2> QED
    BY <2>1, <2>2
<1>4. ASSUME RunEffect("bad", C, TRUE), rep + 1 < Repetitions,
             rep' = rep + 1, UNCHANGED <<phase, current, n, idx, verdict>>
      PROVE  EvidenceInv'
  <2>1. TypeOK'
    BY <1>0, <1>4 DEF RunEffect, DDMinTest, TypeOK
  <2>2. StableBaselines' /\ ReductionRepaired(D)'
    BY <1>0, <1>4, SearchedGrows DEF RunEffect
  <2>3. ReductionRepaired(current)'
    BY <1>4, <2>2
  <2>4. \A r \in 1..(rep + 1) : Shown("bad", C, r, TRUE)'
    BY <1>0, <1>b, <1>4, OneMore
  <2>5. Candidate' = C
    BY <1>4 DEF Candidate
  <2>6. SoFar("bad", Candidate, TRUE)'
    BY <1>4, <2>4, <2>5 DEF SoFar
  <2>7. RepInv' /\ VerdictInv'
    BY <1>0, <1>4 DEF RepInv, Running, VerdictInv, VerdictHasEvidence
  <2>8. BaselineInv' /\ SearchInv' /\ ReverseInv' /\ MinimalInv'
    BY <1>0, <1>4, <2>2, <2>3, <2>6 DEF BaselineInv, SearchInv, ReverseInv, MinimalInv
  <2> QED
    BY <2>1, <2>7, <2>8 DEF EvidenceInv
<1>5. ASSUME RunEffect("bad", C, TRUE), rep + 1 >= Repetitions,
             Reduce, rep' = 0, UNCHANGED verdict
      PROVE  EvidenceInv'
  <2>1. current' = C /\ phase' = "loop" /\ n' \in Nat /\ n' >= 2 /\ idx' = idx
    BY <1>0, <1>5 DEF Reduce, Larger, TypeOK
  <2>2. TypeOK'
    BY <1>0, <1>a, <1>5, <2>1 DEF RunEffect, DDMinTest, TypeOK, Phases
  <2>3. StableBaselines'
    BY <1>0, <1>5, SearchedGrows DEF RunEffect
  <2>4. \A r \in 1..(rep + 1) : Shown("bad", C, r, TRUE)'
    BY <1>0, <1>b, <1>5, OneMore
  <2>5. Repeated("bad", C, TRUE)'
    <3>1. Repetitions = rep + 1
      BY <1>0, <1>5, EngineAssumption
    <3> QED
      BY <2>4, <3>1 DEF Repeated
  <2>6. ReductionRepaired(current)'
    BY <2>1, <2>5 DEF ReductionRepaired
  <2>7. RepInv' /\ VerdictInv'
    BY <1>0, <1>5, <2>1 DEF RepInv, Running, VerdictInv, VerdictHasEvidence
  <2>8. BaselineInv' /\ SearchInv' /\ ReverseInv' /\ MinimalInv'
    BY <2>1, <2>3, <2>6 DEF BaselineInv, SearchInv, ReverseInv, MinimalInv
  <2> QED
    BY <2>2, <2>7, <2>8 DEF EvidenceInv
<1>6. ASSUME NEW o \in Outcomes, RunWorld("bad", C, o),
             IF ~o.passed
             THEN NextCandidate /\ rep' = 0 /\ UNCHANGED current
             ELSE IF rep + 1 < Repetitions
                  THEN rep' = rep + 1 /\ UNCHANGED <<phase, current, n, idx>>
                  ELSE Reduce /\ rep' = 0,
             UNCHANGED verdict
      PROVE  EvidenceInv'
  <2>1. CASE ~o.passed
    BY <1>2, <1>6, <2>1
  <2>2. CASE o.passed /\ rep + 1 < Repetitions
    BY <1>3, <1>4, <1>6, <2>2
  <2>3. CASE o.passed /\ rep + 1 >= Repetitions
    <3>1. ~(rep + 1 < Repetitions)
      BY <1>0, <2>3, EngineAssumption
    <3> QED
      BY <1>3, <1>5, <1>6, <2>3, <3>1
  <2> QED
    BY <1>0, <2>1, <2>2, <2>3, EngineAssumption
<1> QED
  BY <1>1, <1>6 DEF DDMinTest

\* The reverse intervention: each failing repetition is one more shown, the
\* last one opens the minimality checks, a passing one concludes SUPPORTED.
LEMMA ReverseStep == EvidenceInv /\ Reverse => EvidenceInv'
<1> SUFFICES ASSUME EvidenceInv, Reverse PROVE EvidenceInv'
  OBVIOUS
<1> USE DEF captures, ddmin, verdict, durable
<1> PICK D : D = current
  OBVIOUS
<1>0. /\ TypeOK /\ phase = "reverse" /\ phase \in Searched
      /\ rep < Repetitions /\ rep \in Nat /\ todo = {}
      /\ status = "UNPROVEN" /\ causal = {}
      /\ UNCHANGED <<factors, current>> /\ D \in SUBSET Factors
  BY DEF Reverse, EvidenceInv, RepInv, Running, Searched, VerdictInv, TypeOK
<1>a. SoFar("good", D, FALSE)
  BY <1>0 DEF EvidenceInv, ReverseInv
<1>1. ASSUME Unproven, used' \in Nat, failed' \in BOOLEAN,
             UNCHANGED <<rep, todo, cache, world, experiments>>
      PROVE  EvidenceInv'
  <2>1. TypeOK'
    BY <1>0, <1>1 DEF Reverse, Unproven, Conclude, TypeOK, Phases, Statuses
  <2> QED
    BY <1>1, <2>1, FinishedUnproven
<1>2. ASSUME NEW o \in Outcomes, RunWorld("good", D, o),
             Conclude("SUPPORTED", current), UNCHANGED <<rep, todo>>
      PROVE  EvidenceInv'
  <2>1. RunEffect("good", D, o.passed)
    BY <1>0, <1>2, RunWorldEffect DEF Bases
  <2>2. TypeOK'
    BY <1>0, <1>2, <2>1 DEF RunEffect, Reverse, Conclude, TypeOK, Phases, Statuses
  <2> QED
    BY <1>0, <1>2, <2>1, <2>2, FinishedSupported DEF RunEffect
<1>3. ASSUME NEW o \in Outcomes, RunWorld("good", D, o), ~o.passed
      PROVE  /\ RunEffect("good", D, FALSE)
             /\ \A r \in 1..(rep + 1) : Shown("good", D, r, FALSE)'
             /\ StableBaselines' /\ ReductionRepaired(D)'
  <2>1. RunEffect("good", D, o.passed)
    BY <1>0, <1>3, RunWorldEffect DEF Bases
  <2>2. o.passed = FALSE
    BY <1>3 DEF Outcomes
  <2>3. RunEffect("good", D, FALSE)
    BY <2>1, <2>2
  <2>4. \A r \in 1..(rep + 1) : Shown("good", D, r, FALSE)'
    BY <1>0, <1>a, <2>3, OneMore
  <2>5. StableBaselines' /\ ReductionRepaired(D)'
    BY <1>0, <2>3, SearchedGrows DEF RunEffect
  <2> QED
    BY <2>3, <2>4, <2>5
<1>4. ASSUME NEW o \in Outcomes, RunWorld("good", D, o), ~o.passed,
             rep + 1 < Repetitions, rep' = rep + 1, UNCHANGED <<phase, todo, verdict>>
      PROVE  EvidenceInv'
  <2>a. RunEffect("good", D, FALSE)
    BY <1>3, <1>4
  <2>1. TypeOK'
    BY <1>0, <1>4, <2>a DEF RunEffect, Reverse, TypeOK
  <2>2. SoFar("good", current, FALSE)' /\ ReductionRepaired(current)'
    BY <1>0, <1>3, <1>4 DEF SoFar
  <2>3. RepInv' /\ VerdictInv'
    BY <1>0, <1>4 DEF RepInv, Running, VerdictInv, VerdictHasEvidence
  <2>4. BaselineInv' /\ SearchInv' /\ ReverseInv' /\ MinimalInv'
    BY <1>0, <1>3, <1>4, <2>2 DEF BaselineInv, SearchInv, ReverseInv, MinimalInv
  <2> QED
    BY <2>1, <2>3, <2>4 DEF EvidenceInv
<1>5. ASSUME NEW o \in Outcomes, RunWorld("good", D, o), ~o.passed,
             ~(rep + 1 < Repetitions), rep' = 0, phase' = "minimal", todo' = current,
             UNCHANGED verdict
      PROVE  EvidenceInv'
  <2>1. TypeOK'
    BY <1>0, <1>3, <1>5 DEF RunEffect, Reverse, TypeOK, Phases
  <2>2. Repetitions = rep + 1
    BY <1>0, <1>5, EngineAssumption
  <2>3. Repeated("good", D, FALSE)'
    BY <1>3, <1>5, <2>2 DEF Repeated
  <2>4. Repeated("good", current, FALSE)' /\ ReductionRepaired(current)'
    BY <1>0, <1>3, <1>5, <2>3
  <2>5. RepInv' /\ VerdictInv'
    BY <1>0, <1>5, EngineAssumption DEF RepInv, Running, VerdictInv, VerdictHasEvidence
  <2>6. MinimalInv'
    BY <1>0, <1>5 DEF MinimalInv
  <2>7. BaselineInv' /\ SearchInv' /\ ReverseInv'
    BY <1>3, <1>5, <2>4 DEF BaselineInv, SearchInv, ReverseInv
  <2> QED
    BY <2>1, <2>5, <2>6, <2>7 DEF EvidenceInv
<1>6. CASE Unproven /\ UNCHANGED <<rep, todo, cache, world, used, experiments, failed>>
  BY <1>0, <1>1, <1>6 DEF TypeOK
<1>7. CASE RunFails("good", current) /\ Unproven /\ UNCHANGED <<rep, todo>>
  BY <1>0, <1>1, <1>7, RunFailsEffect
<1>8. ASSUME NEW o \in Outcomes, RunWorld("good", current, o),
             IF o.passed
             THEN Conclude("SUPPORTED", current) /\ UNCHANGED <<rep, todo>>
             ELSE /\ IF rep + 1 < Repetitions
                     THEN rep' = rep + 1 /\ UNCHANGED <<phase, todo>>
                     ELSE rep' = 0 /\ phase' = "minimal" /\ todo' = current
                  /\ UNCHANGED verdict
      PROVE  EvidenceInv'
  <2>1. CASE o.passed
    BY <1>2, <1>8, <2>1
  <2>2. CASE ~o.passed /\ rep + 1 < Repetitions
    BY <1>4, <1>8, <2>2
  <2>3. CASE ~o.passed /\ ~(rep + 1 < Repetitions)
    BY <1>5, <1>8, <2>3
  <2> QED
    BY <2>1, <2>2, <2>3
<1> QED
  BY <1>6, <1>7, <1>8 DEF Reverse

\* verifyMinimality: a factor leaves todo only with a failing run without it.
LEMMA VerifyMinimalityStep == EvidenceInv /\ VerifyMinimality => EvidenceInv'
<1> SUFFICES ASSUME EvidenceInv, VerifyMinimality PROVE EvidenceInv'
  OBVIOUS
<1> USE DEF captures, ddmin, verdict, durable
<1> PICK D : D = current
  OBVIOUS
<1> PICK x : x = Omitted
  OBVIOUS
<1> PICK left : left = todo
  OBVIOUS
<1>0. /\ TypeOK /\ phase = "minimal" /\ phase \in Searched
      /\ rep < Repetitions /\ rep \in Nat
      /\ status = "UNPROVEN" /\ causal = {}
      /\ UNCHANGED <<factors, current>> /\ D \ {x} \in SUBSET Factors
  BY DEF VerifyMinimality, EvidenceInv, RepInv, Running, Searched, VerdictInv, TypeOK
<1>a. Repeated("good", D, FALSE)
  BY <1>0 DEF EvidenceInv, ReverseInv
<1>b. \A y \in D \ left : D # {y} =>
         \E r \in 1..Repetitions : Shown("bad", D \ {y}, r, FALSE)
  BY <1>0 DEF EvidenceInv, MinimalInv

\* Concluding: the verdict is SUPPORTED, with the evidence of the search.
<1>1. ASSUME Conclude("SUPPORTED", current), experiments \subseteq experiments', TypeOK'
      PROVE  EvidenceInv'
  BY <1>0, <1>1, FinishedSupported

\* Going on: with rep' < Repetitions, todo' at most todo, and evidence for
\* whatever left todo.
<1>2. ASSUME experiments \subseteq experiments', TypeOK', phase' = "minimal",
             rep' < Repetitions, UNCHANGED verdict,
             \/ todo' = left
             \/ /\ todo' = left \ {x}
                /\ D # {x} => \E r \in 1..Repetitions : Shown("bad", D \ {x}, r, FALSE)'
      PROVE  EvidenceInv'
  <2>1. StableBaselines' /\ ReductionRepaired(D)'
    BY <1>0, <1>2, SearchedGrows
  <2>2. Repeated("good", D, FALSE)'
    BY <1>a, <1>2, RepeatedGrows
  <2>3. ASSUME NEW y \in D \ todo', D # {y}
        PROVE  \E r \in 1..Repetitions : Shown("bad", D \ {y}, r, FALSE)'
    <3>1. CASE y \notin left
      BY <1>b, <1>2, <2>3, <3>1, ShownGrows
    <3>2. CASE y \in left
      BY <1>2, <2>3, <3>2
    <3> QED
      BY <3>1, <3>2
  <2>4. MinimalInv'
    BY <1>0, <2>3 DEF MinimalInv
  <2>5. ReductionRepaired(current)' /\ Repeated("good", current, FALSE)'
    BY <1>0, <2>1, <2>2
  <2>6. BaselineInv' /\ SearchInv' /\ ReverseInv'
    BY <1>2, <2>1, <2>5 DEF BaselineInv, SearchInv, ReverseInv
  <2>7. RepInv' /\ VerdictInv'
    BY <1>0, <1>2 DEF RepInv, Running, VerdictInv, VerdictHasEvidence
  <2> QED
    BY <1>2, <2>4, <2>6, <2>7 DEF EvidenceInv
<1>3. CASE /\ Conclude("SUPPORTED", current)
           /\ UNCHANGED <<rep, todo, minUsed, cache, world, used, experiments,
                          failed, refuted>>
  <2>1. TypeOK'
    BY <1>0, <1>3 DEF VerifyMinimality, Conclude, TypeOK, Phases, Statuses
  <2> QED
    BY <1>1, <1>3, <2>1
<1>4. CASE /\ current = {Omitted}
           /\ todo' = todo \ {Omitted}
           /\ UNCHANGED <<phase, rep, minUsed, verdict, cache, world, used,
                          experiments, failed, refuted>>
  <2>1. TypeOK'
    BY <1>0, <1>4 DEF VerifyMinimality, TypeOK
  <2> QED
    BY <1>0, <1>2, <1>4, <2>1
<1>5. CASE /\ minUsed' = minUsed + 1
           /\ RunFails("bad", current \ {Omitted})
           /\ IF cancelled THEN Unproven ELSE Conclude("SUPPORTED", current)
           /\ UNCHANGED <<rep, todo, refuted>>
  <2>1. TypeOK'
    BY <1>0, <1>5, RunFailsEffect
       DEF VerifyMinimality, Unproven, Conclude, TypeOK, Phases, Statuses
  <2>2. experiments \subseteq experiments'
    BY <1>0, <1>5, RunFailsEffect
  <2> QED
    BY <1>1, <1>5, <2>1, <2>2, FinishedUnproven
<1>6. ASSUME NEW o \in Outcomes, minUsed' = minUsed + 1,
             RunWorld("bad", current \ {Omitted}, o),
             IF ~o.passed
             THEN /\ rep' = 0
                  /\ todo' = todo \ {Omitted}
                  /\ UNCHANGED <<phase, verdict, refuted>>
             ELSE IF rep + 1 < Repetitions
             THEN rep' = rep + 1 /\ UNCHANGED <<phase, todo, verdict, refuted>>
             ELSE /\ Conclude("SUPPORTED", current)
                  /\ refuted' = TRUE
                  /\ UNCHANGED <<rep, todo>>
      PROVE  EvidenceInv'
  <2>1. RunEffect("bad", D \ {x}, o.passed)
    <3>1. RunWorld("bad", D \ {x}, o)
      BY <1>6
    <3> QED
      BY <1>0, <3>1, RunWorldEffect DEF Bases
  <2>2. minUsed' \in Nat /\ experiments \subseteq experiments'
    BY <1>0, <1>6, <2>1 DEF TypeOK, RunEffect
  <2>3. CASE ~o.passed
    <3>1. TypeOK'
      BY <1>0, <1>6, <2>1, <2>2, <2>3 DEF RunEffect, VerifyMinimality, TypeOK
    <3>2. o.passed = FALSE
      BY <2>3 DEF Outcomes
    <3>3. RunEffect("bad", D \ {x}, FALSE)
      BY <2>1, <3>2
    <3> PICK k : k = rep + 1
      OBVIOUS
    <3>4. Shown("bad", D \ {x}, k, FALSE)' /\ k \in 1..Repetitions
      BY <1>0, <3>3, EngineAssumption DEF RunEffect, Shown
    <3> QED
      <4>1. /\ rep' = 0 /\ todo' = left \ {x}
            /\ phase' = "minimal" /\ UNCHANGED verdict
        BY <1>0, <1>6, <2>3
      <4>2. rep' < Repetitions
        BY <4>1, EngineAssumption
      <4> QED
        BY <1>2, <2>2, <3>1, <3>4, <4>1, <4>2
  <2>4. CASE o.passed /\ rep + 1 < Repetitions
    <3>1. TypeOK'
      BY <1>0, <1>6, <2>1, <2>2, <2>4 DEF RunEffect, VerifyMinimality, TypeOK
    <3> QED
      BY <1>0, <1>2, <1>6, <2>2, <2>4, <3>1
  <2>5. CASE o.passed /\ ~(rep + 1 < Repetitions)
    <3>1. TypeOK'
      BY <1>0, <1>6, <2>1, <2>2, <2>5
         DEF RunEffect, VerifyMinimality, Conclude, TypeOK, Phases, Statuses
    <3> QED
      BY <1>1, <1>6, <2>2, <2>5, <3>1
  <2> QED
    BY <2>3, <2>4, <2>5
<1> QED
  BY <1>3, <1>4, <1>5, <1>6 DEF VerifyMinimality, OmitNext
-----------------------------------------------------------------------------
(* The theorems.                                                           *)

\* Every step of the engine and of its environment keeps the invariant.
LEMMA NextEvidence == EvidenceInv /\ [Next]_vars => EvidenceInv'
<1> SUFFICES ASSUME EvidenceInv, [Next]_vars PROVE EvidenceInv'
  OBVIOUS
<1>1. CASE Step
  BY <1>1, VerifyBaselineStep, PlanSearchStep, DDMinLoopStep, DDMinExhaustedStep,
     DDMinTestStep, ReverseStep, VerifyMinimalityStep, ProveStep, SaveAnalysisStep,
     AuditAnalysisStep DEF Step
<1>2. CASE Analyze \/ Crash
  BY <1>2, AnalyzeStep, CrashStep
<1>3. CASE Cancel \/ Evict \/ UNCHANGED vars
  BY <1>3, EnvironmentStep
<1> QED
  BY <1>1, <1>2, <1>3 DEF Next

\* EvidenceInv is inductive: it holds in every state of every analysis.
THEOREM EvidenceInvariant == Spec => []EvidenceInv
  BY InitEvidence, NextEvidence, PTL DEF Spec

\* Type correctness of the engine (engine.go, ddmin.go, experiment_cache.go),
\* for any number of factors, repetitions and experiments: among it, that the
\* search never leaves the factors of the two captures.
THEOREM EngineTypes == Spec => []TypeOK
<1>1. EvidenceInv => TypeOK
  BY DEF EvidenceInv
<1> QED
  BY <1>1, EvidenceInvariant, PTL

\* Analyze reaches SUPPORTED and PROVEN (engine.go:161-192) only with the
\* baseline, repair, reverse and minimality runs behind them in the analysis,
\* for any number of factors and repetitions, any budget, any cache contents
\* and any interleaving of cancellation, crashes, faults and evictions.
THEOREM VerdictsHaveEvidence == Spec => []VerdictHasEvidence
<1>1. EvidenceInv => VerdictHasEvidence
  BY DEF EvidenceInv, VerdictInv
<1> QED
  BY <1>1, EvidenceInvariant, PTL

-----------------------------------------------------------------------------
(* The audit log names only saved analyses.                                *)

\* Between the two writes of finish the verdict is on disk.
SavedInv ==
    phase = "audit" =>
      \E a \in saved : a.status = status /\ a.causal = causal

\* The steps before finish write neither file and do not reach the audit.
LEMMA UnsavedSteps ==
    ASSUME EvidenceInv,
           \/ \E base \in Bases : VerifyBaseline(base)
           \/ PlanSearch \/ DDMinLoop \/ DDMinExhausted \/ DDMinTest
           \/ Reverse \/ VerifyMinimality \/ Prove \/ Analyze
    PROVE  phase' # "audit" /\ UNCHANGED <<saved, audited>>
<1> USE DEF durable, Unproven, Conclude
<1>1. CASE \E base \in Bases : VerifyBaseline(base)
  BY <1>1 DEF VerifyBaseline, Bases
<1>2. CASE PlanSearch \/ DDMinLoop \/ DDMinExhausted \/ Prove \/ Analyze
  BY <1>2 DEF PlanSearch, DDMinLoop, DDMinExhausted, Prove, Analyze
<1>3. CASE DDMinTest
  BY <1>3 DEF DDMinTest, NextCandidate, Reduce
<1>4. CASE Reverse \/ VerifyMinimality
  BY <1>4 DEF Reverse, VerifyMinimality, OmitNext
<1> QED
  BY <1>1, <1>2, <1>3, <1>4

\* Every step keeps the log behind the files.
LEMMA SavedStep ==
    ASSUME EvidenceInv, SavedInv, AuditedWasSaved, [Next]_vars
    PROVE  SavedInv' /\ AuditedWasSaved'
<1> USE DEF durable, verdict
<1>1. CASE UNCHANGED <<phase, saved, audited, verdict>>
  BY <1>1 DEF SavedInv, AuditedWasSaved
<1>2. CASE phase' # "audit" /\ UNCHANGED <<saved, audited>>
  BY <1>2 DEF SavedInv, AuditedWasSaved
<1>3. CASE SaveAnalysis
  <2>1. CASE saved' = saved \union {[status |-> status, causal |-> causal, failed |-> failed]}
             /\ phase' = "audit" /\ UNCHANGED <<verdict, audited>>
    <3>1. PICK a : a = [status |-> status, causal |-> causal, failed |-> failed]
      OBVIOUS
    <3>2. a.status = status /\ a.causal = causal
      BY <3>1
    <3>3. saved' = saved \union {a} /\ UNCHANGED <<status, causal, audited>>
      BY <2>1, <3>1
    <3> QED
      BY <3>2, <3>3 DEF SavedInv, AuditedWasSaved
  <2>2. CASE Return /\ UNCHANGED <<saved, audited>>
    BY <1>2, <2>2 DEF Return
  <2> QED
    BY <1>3, <2>1, <2>2 DEF SaveAnalysis
<1>4. CASE AuditAnalysis
  <2>1. phase = "audit" /\ phase' = "idle" /\ UNCHANGED saved
        /\ audited' \subseteq audited \union {[status |-> status, causal |-> Cardinality(causal)]}
    BY <1>4 DEF AuditAnalysis, Return
  <2>2. PICK a \in saved : a.status = status /\ a.causal = causal
    BY <2>1 DEF SavedInv
  <2>3. ASSUME NEW e \in audited'
        PROVE  \E b \in saved' : b.status = e.status /\ Cardinality(b.causal) = e.causal
    <3>1. CASE e \in audited
      BY <2>1, <3>1 DEF AuditedWasSaved
    <3>2. CASE e = [status |-> status, causal |-> Cardinality(causal)]
      BY <2>1, <2>2, <3>2
    <3> QED
      BY <2>1, <2>3, <3>1, <3>2
  <2> QED
    BY <2>1, <2>3 DEF SavedInv, AuditedWasSaved
<1>5. CASE Crash
  BY <1>2, <1>5 DEF Crash, Return
<1>6. CASE Cancel \/ Evict \/ UNCHANGED vars
  BY <1>1, <1>6 DEF Cancel, Evict, vars
<1> QED
  BY <1>2, <1>3, <1>4, <1>5, <1>6, UnsavedSteps DEF Next, Step

\* The audit log never names a verdict that no saved analysis has, whichever
\* write of finish fails and wherever the process dies.
THEOREM AuditFollowsSave == Spec => []AuditedWasSaved
<1>1. Init => SavedInv /\ AuditedWasSaved
  BY DEF Init, SavedInv, AuditedWasSaved
<1>2. EvidenceInv /\ (SavedInv /\ AuditedWasSaved) /\ [Next]_vars => (SavedInv /\ AuditedWasSaved)'
  BY SavedStep
<1> QED
  BY <1>1, <1>2, EvidenceInvariant, PTL DEF Spec

=============================================================================
