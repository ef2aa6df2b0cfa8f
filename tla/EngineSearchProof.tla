-------------------------- MODULE EngineSearchProof --------------------------
(***************************************************************************)
(* How Engine searches, for every number of factors, repetitions and       *)
(* experiments: split partitions, the runs of an analysis are bounded,     *)
(* and, with a command whose worlds always answer alike, the search ends   *)
(* in a 1-minimal set and all analyses come to the same verdict.           *)
(***************************************************************************)
EXTENDS EngineProof, WellFoundedInduction

-----------------------------------------------------------------------------
(* split: ranks, chunk boundaries and chunks.                              *)

\* A set of naturals has a least element.
LEMMA LeastElement ==
    ASSUME NEW T \in SUBSET Nat, T # {}
    PROVE  \E x \in T : \A y \in T : x <= y
<1>1. IsWellFoundedOn(OpToRel(<, Nat), Nat)
  BY NatLessThanWellFounded, Zenon
<1>2. \E x \in T : \A y \in T : ~(<<y, x>> \in OpToRel(<, Nat))
  BY <1>1, WFMin, Zenon
<1>3. PICK x \in T : \A y \in T : ~(<<y, x>> \in OpToRel(<, Nat))
  BY <1>2, Zenon
<1>4. \A y \in T : ~(y < x)
  BY <1>3 DEF OpToRel
<1> QED
  BY <1>4

\* The positions of the factors of a set are 0, 1, ... in their order.
LEMMA Ranks ==
    ASSUME NEW S \in SUBSET Factors, NEW C \in Nat, C = Cardinality(S)
    PROVE  /\ \A x \in S : Rank(S, x) \in 0..(C - 1)
           /\ \A x, y \in S : x # y => Rank(S, x) # Rank(S, y)
           /\ \A i \in 0..(C - 1) : \E x \in S : Rank(S, x) = i
<1> DEFINE Below(x) == {y \in S : y < x}
<1>1. IsFiniteSet(S) /\ S \subseteq Nat
  BY FactorSets, EngineAssumption DEF Factors
<1>2. \A x \in S : IsFiniteSet(Below(x)) /\ Cardinality(Below(x)) \in Nat
  BY <1>1, FactorSets
<1>3. ASSUME NEW x \in S PROVE Rank(S, x) \in 0..(C - 1)
  <2>1. Below(x) \in SUBSET S /\ x \notin Below(x)
    BY <1>1
  <2>a. Below(x) # S
    BY <2>1
  <2>2. Cardinality(Below(x)) <= C /\ Cardinality(Below(x)) # C
    <3> HIDE DEF Below
    <3> QED
      BY <1>1, <2>1, <2>a, FS_Subset
  <2>3. PICK i \in Nat : i = Cardinality(Below(x))
    BY <1>2
  <2>4. Rank(S, x) = i
    BY <2>3, Zenon DEF Rank
  <2>5. i <= C /\ i # C
    <3> HIDE DEF Below
    <3> QED
      BY <2>2, <2>3
  <2> QED
    BY <2>4, <2>5
<1>4. ASSUME NEW x \in S, NEW y \in S, x < y PROVE Rank(S, x) # Rank(S, y)
  <2>1. Below(x) \in SUBSET Below(y) /\ x \in Below(y) /\ x \notin Below(x)
    <3>1. x \in Nat /\ y \in Nat /\ \A z \in S : z \in Nat
      BY <1>1
    <3>2. \A z \in S : z < x => z < y
      BY <1>4, <3>1
    <3>3. ~(x < x)
      BY <3>1
    <3> QED
      BY <1>4, <3>2, <3>3, Zenon
  <2>2. Below(x) # Below(y)
    BY <2>1, Zenon
  <2>3. Cardinality(Below(x)) # Cardinality(Below(y))
    <3> HIDE DEF Below
    <3> QED
      BY <1>2, <2>1, <2>2, FS_Subset
  <2> QED
    BY <2>3 DEF Rank
<1>5. \A x, y \in S : x # y => Rank(S, x) # Rank(S, y)
  <2> SUFFICES ASSUME NEW x \in S, NEW y \in S, x # y PROVE Rank(S, x) # Rank(S, y)
    OBVIOUS
  <2>1. x < y \/ y < x
    BY <1>1
  <2> QED
    BY <1>4, <2>1
<1>6. \A i \in 0..(C - 1) : \E x \in S : Rank(S, x) = i
  <2> DEFINE f == [x \in S |-> Rank(S, x)]
  <2>1. f \in Injection(S, 0..(C - 1))
    BY <1>3, <1>5 DEF Injection, IsInjective
  <2>2. IsFiniteSet(0..(C - 1)) /\ Cardinality(0..(C - 1)) = C
    <3>1. C - 1 \in Int /\ 0 \in Int
      OBVIOUS
    <3>2. IsFiniteSet(0..(C - 1)) /\ Cardinality(0..(C - 1)) = IF 0 > C - 1 THEN 0 ELSE (C - 1) - 0 + 1
      BY <3>1, FS_Interval
    <3> QED
      BY <3>2
  <2>3. f \in Surjection(S, 0..(C - 1))
    <3> HIDE DEF f
    <3> QED
      BY <2>1, <2>2, FS_Injection
  <2> QED
    BY <2>3 DEF Surjection
<1> QED
  BY <1>3, <1>5, <1>6

\* The length of a list, shared out: quotient and remainder.
LEMMA Division ==
    ASSUME NEW C \in Nat, NEW p \in Nat \ {0}, p <= C
    PROVE  /\ C \div p \in Nat \ {0} /\ C % p \in 0..(p - 1)
           /\ C = p * (C \div p) + (C % p)
           /\ p = C => C \div p = 1 /\ C % p = 0
  OBVIOUS

\* split's boundaries rise from 0 to the length of the list.
LEMMA Boundaries ==
    ASSUME NEW S, NEW C \in Nat, C = Cardinality(S), NEW p \in Nat \ {0}, p <= C
    PROVE  /\ \A k \in 0..p : ChunkStart(S, p, k) \in Nat
           /\ ChunkStart(S, p, 0) = 0 /\ ChunkStart(S, p, p) = C
           /\ \A k \in 1..p : ChunkStart(S, p, k - 1) < ChunkStart(S, p, k)
           /\ \A j, k \in 0..p : j <= k => ChunkStart(S, p, j) <= ChunkStart(S, p, k)
           /\ p = C => \A k \in 0..p : ChunkStart(S, p, k) = k
<1>0. PICK q, r : q = C \div p /\ r = C % p
  OBVIOUS
<1>1. /\ q \in Nat \ {0} /\ r \in 0..(p - 1)
      /\ C = p * q + r /\ (p = C => q = 1 /\ r = 0)
  BY <1>0, Division
<1>2. ASSUME NEW k \in 0..p PROVE ChunkStart(S, p, k) = k * q + (IF k <= r THEN k ELSE r)
  <2>1. ChunkStart(S, p, k) = k * q + Smaller(k, r)
    BY <1>0 DEF ChunkStart
  <2> QED
    BY <2>1 DEF Smaller
<1>3. \A k \in 0..p : k * q \in Nat
  BY <1>1
<1>4. \A k \in 1..p : k * q = (k - 1) * q + q
  BY <1>1
<1>5. \A j, k \in 0..p : j <= k => j * q <= k * q
  BY <1>1
<1>6. 0 \in 0..p /\ p \in 0..p /\ 0 * q = 0
  BY <1>1
<1>a. \A k \in 0..p : ChunkStart(S, p, k) \in Nat
  BY <1>1, <1>2, <1>3
<1>b. ChunkStart(S, p, 0) = 0 /\ ChunkStart(S, p, p) = C
  BY <1>1, <1>2, <1>6
<1>c. ASSUME NEW k \in 1..p PROVE ChunkStart(S, p, k - 1) < ChunkStart(S, p, k)
  <2>1. k \in 0..p /\ k - 1 \in 0..p
    OBVIOUS
  <2>2. PICK a \in Nat, b \in Nat : a = (k - 1) * q /\ b = k * q /\ b = a + q
    BY <1>3, <1>4, <2>1
  <2>3. /\ ChunkStart(S, p, k - 1) = a + (IF k - 1 <= r THEN k - 1 ELSE r)
        /\ ChunkStart(S, p, k) = b + (IF k <= r THEN k ELSE r)
    BY <1>2, <2>1, <2>2
  <2> QED
    BY <1>1, <2>2, <2>3
<1>d. ASSUME NEW j \in 0..p, NEW k \in 0..p, j <= k
      PROVE  ChunkStart(S, p, j) <= ChunkStart(S, p, k)
  <2>1. PICK a \in Nat, b \in Nat : a = j * q /\ b = k * q /\ a <= b
    BY <1>3, <1>5, <1>d
  <2>2. /\ ChunkStart(S, p, j) = a + (IF j <= r THEN j ELSE r)
        /\ ChunkStart(S, p, k) = b + (IF k <= r THEN k ELSE r)
    BY <1>2, <2>1
  <2> QED
    BY <1>1, <1>d, <2>1, <2>2
<1>e. p = C => \A k \in 0..p : ChunkStart(S, p, k) = k
  BY <1>1, <1>2
<1> QED
  BY <1>a, <1>b, <1>c, <1>d, <1>e

\* Every element falls into a chunk.
LEMMA ChunkOf ==
    ASSUME NEW S \in SUBSET Factors, NEW p \in Nat \ {0}, p <= Cardinality(S), NEW x \in S
    PROVE  \E k \in 1..p : x \in Chunk(S, p, k)
<1>1. PICK C \in Nat : C = Cardinality(S)
  BY FactorSets
<1>2. PICK i \in Nat : i = Rank(S, x) /\ i < C
  BY <1>1, Ranks
<1> DEFINE T == {k \in 1..p : i < ChunkStart(S, p, k)}
<1>3. p \in T /\ T \in SUBSET Nat
  BY <1>1, <1>2, Boundaries
<1>4. PICK k \in T : \A j \in T : k <= j
  BY <1>3, LeastElement
<1>5. k \in 1..p /\ i < ChunkStart(S, p, k) /\ k - 1 \in 0..p
  BY <1>4
<1>6. ChunkStart(S, p, k - 1) <= i
  <2>1. CASE k = 1
    BY <1>1, <1>2, <2>1, Boundaries
  <2>2. CASE k # 1
    <3>1. k - 1 \in 1..p /\ ~(k <= k - 1)
      BY <1>5, <2>2
    <3>2. ~(i < ChunkStart(S, p, k - 1))
      BY <1>4, <3>1
    <3>3. ChunkStart(S, p, k - 1) \in Nat
      BY <1>1, <1>5, Boundaries
    <3> QED
      BY <1>2, <3>2, <3>3
  <2> QED
    BY <2>1, <2>2
<1> QED
  BY <1>2, <1>5, <1>6 DEF Chunk

\* No chunk is empty.
LEMMA ChunkFilled ==
    ASSUME NEW S \in SUBSET Factors, NEW p \in Nat \ {0}, p <= Cardinality(S), NEW k \in 1..p
    PROVE  Chunk(S, p, k) # {}
<1>1. PICK C \in Nat : C = Cardinality(S)
  BY FactorSets
<1>2. PICK a \in Nat, b \in Nat : /\ a = ChunkStart(S, p, k - 1) /\ b = ChunkStart(S, p, k)
                                  /\ a < b /\ b <= C
  <2>1. k \in 0..p /\ k - 1 \in 0..p /\ p \in 0..p /\ k <= p
    OBVIOUS
  <2> QED
    BY <1>1, <2>1, Boundaries
<1>3. a \in 0..(C - 1)
  BY <1>2
<1>4. PICK x \in S : Rank(S, x) = a
  BY <1>1, <1>3, Ranks
<1> QED
  BY <1>2, <1>4 DEF Chunk

\* Two chunks have nothing in common.
LEMMA ChunksApart ==
    ASSUME NEW S \in SUBSET Factors, NEW p \in Nat \ {0}, p <= Cardinality(S),
           NEW j \in 1..p, NEW k \in 1..p, j # k
    PROVE  Chunk(S, p, j) \intersect Chunk(S, p, k) = {}
<1>1. PICK C \in Nat : C = Cardinality(S)
  BY FactorSets
<1>2. ASSUME NEW g \in 1..p, NEW h \in 1..p, g < h, NEW x \in Chunk(S, p, g), x \in Chunk(S, p, h)
      PROVE  FALSE
  <2>1. g \in 0..p /\ h - 1 \in 0..p /\ g <= h - 1
    BY <1>2
  <2>2. PICK i \in Nat : i = Rank(S, x)
    BY <1>1, Ranks DEF Chunk
  <2>3. PICK a \in Nat, b \in Nat :
          a = ChunkStart(S, p, g) /\ b = ChunkStart(S, p, h - 1) /\ a <= b
    BY <1>1, <2>1, Boundaries
  <2>4. i < a /\ b <= i
    BY <1>2, <2>2, <2>3 DEF Chunk
  <2> QED
    BY <2>3, <2>4
<1>3. j < k \/ k < j
  OBVIOUS
<1> QED
  BY <1>2, <1>3

\* At the finest split the chunks are the single factors.
LEMMA FinestChunks ==
    ASSUME NEW S \in SUBSET Factors, S # {}, NEW x \in S
    PROVE  \E k \in 1..Cardinality(S) : Chunk(S, Cardinality(S), k) = {x}
<1>1. PICK C \in Nat : C = Cardinality(S)
  BY FactorSets
<1>2. PICK i \in 0..(C - 1) : i = Rank(S, x)
  BY <1>1, Ranks
<1>3. C \in Nat \ {0} /\ C <= C /\ i + 1 \in 1..C /\ i \in 0..C /\ i + 1 \in 0..C /\ (i + 1) - 1 = i
  BY <1>2
<1>4. ChunkStart(S, C, i) = i /\ ChunkStart(S, C, i + 1) = i + 1
  BY <1>1, <1>3, Boundaries
<1>5. \A y \in S : Rank(S, y) \in Nat /\ (Rank(S, y) = i <=> y = x)
  BY <1>1, <1>2, Ranks
<1>6. Chunk(S, C, i + 1) = {y \in S : i <= Rank(S, y) /\ Rank(S, y) < i + 1}
  BY <1>3, <1>4 DEF Chunk
<1>7. \A y \in S : (i <= Rank(S, y) /\ Rank(S, y) < i + 1) <=> y = x
  BY <1>5
<1>8. Chunk(S, C, i + 1) = {x}
  BY <1>6, <1>7
<1> QED
  BY <1>1, <1>3, <1>8

\* Before a candidate is tested there are at least two chunks, and idx is one.
SplitInv ==
    phase \in {"chunk", "complement"} =>
      Cardinality(current) >= 2 /\ idx \in 1..Parts(current, n)

\* The number of parts of a list of two or more.
LEMMA PartsOf ==
    ASSUME TypeOK, Cardinality(current) >= 2
    PROVE  /\ Cardinality(current) \in Nat /\ current \in SUBSET Factors
           /\ Parts(current, n) \in Nat \ {0}
           /\ 2 <= Parts(current, n) /\ Parts(current, n) <= Cardinality(current)
           /\ n >= Cardinality(current) => Parts(current, n) = Cardinality(current)
<1>1. current \in SUBSET Factors /\ n \in Nat /\ n >= 2
  BY DEF TypeOK
<1>2. PICK C \in Nat : C = Cardinality(current)
  BY <1>1, FactorSets
<1>3. Parts(current, n) = IF n <= C THEN n ELSE C
  BY <1>2 DEF Parts, Smaller
<1> QED
  BY <1>1, <1>2, <1>3

\* The head of the loop enters with two factors or more, and idx goes from one
\* chunk to the next.
LEMMA SplitStep ==
    ASSUME EvidenceInv, SplitInv, [Next]_vars
    PROVE  SplitInv'
<1> USE DEF captures, ddmin
<1>0. TypeOK
  BY DEF EvidenceInv
<1>1. CASE phase' \notin {"chunk", "complement"}
  BY <1>1 DEF SplitInv
<1>2. CASE UNCHANGED <<phase, current, n, idx>>
  BY <1>2 DEF SplitInv
<1>3. CASE DDMinLoop
  <2>1. CASE phase' = "chunk"
    <3>1. /\ idx' = 1 /\ UNCHANGED <<current, n>> /\ ~(Cardinality(current) < 2)
      BY <1>3, <2>1 DEF DDMinLoop, Unproven, Conclude
    <3>2. PICK C \in Nat : C = Cardinality(current)
      BY <1>0, FactorSets DEF TypeOK
    <3>3. Cardinality(current) >= 2
      BY <3>1, <3>2
    <3>4. 1 \in 1..Parts(current, n)
      BY <1>0, <3>3, PartsOf
    <3>5. Cardinality(current') >= 2 /\ idx' \in 1..Parts(current', n')
      BY <3>1, <3>3, <3>4, Zenon
    <3> QED
      BY <3>5 DEF SplitInv
  <2> QED
    BY <1>1, <1>3, <2>1 DEF DDMinLoop, Unproven, Conclude
<1>4. CASE DDMinTest
  <2>1. CASE NextCandidate /\ UNCHANGED current
    <3>1. phase \in {"chunk", "complement"}
      BY <1>4 DEF DDMinTest
    <3>2. /\ Cardinality(current) >= 2 /\ idx \in 1..Parts(current, n)
          /\ Parts(current, n) \in Nat \ {0}
      BY <1>0, <3>1, PartsOf DEF SplitInv
    <3>3. CASE idx < Parts(current, n)
      <4>1. idx' = idx + 1 /\ UNCHANGED <<phase, n, current>>
        BY <2>1, <3>3 DEF NextCandidate
      <4>2. idx + 1 \in 1..Parts(current, n)
        BY <3>2, <3>3
      <4>3. Cardinality(current') >= 2 /\ idx' \in 1..Parts(current', n')
        BY <3>2, <4>1, <4>2, Zenon
      <4> QED
        BY <4>3 DEF SplitInv
    <3>4. CASE ~(idx < Parts(current, n)) /\ phase = "chunk"
      <4>1. idx' = 1 /\ UNCHANGED <<n, current>>
        BY <2>1, <3>4 DEF NextCandidate
      <4>2. 1 \in 1..Parts(current, n)
        BY <3>2
      <4>3. Cardinality(current') >= 2 /\ idx' \in 1..Parts(current', n')
        BY <3>2, <4>1, <4>2, Zenon
      <4> QED
        BY <4>3 DEF SplitInv
    <3>5. CASE ~(idx < Parts(current, n)) /\ phase # "chunk"
      BY <1>1, <2>1, <3>5 DEF NextCandidate
    <3> QED
      BY <3>3, <3>4, <3>5
  <2>2. CASE Reduce \/ Unproven
    BY <1>1, <2>2 DEF Reduce, Unproven, Conclude
  <2> QED
    BY <1>2, <1>4, <2>1, <2>2 DEF DDMinTest
<1>5. CASE (\E base \in Bases : VerifyBaseline(base)) \/ PlanSearch \/ Prove \/ Analyze
  BY <1>1, <1>5 DEF VerifyBaseline, Bases, PlanSearch, Prove, Analyze, Unproven, Conclude
<1>6. CASE DDMinExhausted \/ Reverse \/ VerifyMinimality
  BY <1>1, <1>6 DEF DDMinExhausted, Reverse, VerifyMinimality, Unproven, Conclude
<1>7. CASE SaveAnalysis \/ AuditAnalysis \/ Crash
  BY <1>1, <1>7 DEF SaveAnalysis, AuditAnalysis, Crash, Return
<1>8. CASE Cancel \/ Evict \/ UNCHANGED vars
  BY <1>2, <1>8 DEF Cancel, Evict, vars
<1> QED
  BY <1>3, <1>4, <1>5, <1>6, <1>7, <1>8 DEF Next, Step

\* The split DDMin works through is in range in every state.
LEMMA SplitInvariant == Spec => []SplitInv
<1>1. Init => SplitInv
  BY DEF Init, SplitInv
<1>2. EvidenceInv /\ SplitInv /\ [Next]_vars => SplitInv'
  BY SplitStep
<1> QED
  BY <1>1, <1>2, EvidenceInvariant, PTL DEF Spec

\* What split makes of a list: chunks that cover it, that are disjoint and not
\* empty, and none of which is all of it.
Partition(S, p) ==
    /\ UNION {Chunk(S, p, k) : k \in 1..p} = S
    /\ \A k \in 1..p : Chunk(S, p, k) # {} /\ Chunk(S, p, k) # S
    /\ \A j, k \in 1..p : j # k => Chunk(S, p, j) \intersect Chunk(S, p, k) = {}

\* Two or more parts of a list that is long enough are a partition.
LEMMA SplitIsPartition ==
    ASSUME NEW S \in SUBSET Factors, NEW p \in Nat, 2 <= p, p <= Cardinality(S)
    PROVE  Partition(S, p)
<1>1. p \in Nat \ {0}
  OBVIOUS
<1>2. UNION {Chunk(S, p, k) : k \in 1..p} = S
  <2>1. \A k \in 1..p : Chunk(S, p, k) \subseteq S
    BY DEF Chunk
  <2>2. \A x \in S : \E k \in 1..p : x \in Chunk(S, p, k)
    BY <1>1, ChunkOf
  <2> QED
    BY <2>1, <2>2
<1>3. \A k \in 1..p : Chunk(S, p, k) # {}
  BY <1>1, ChunkFilled
<1>4. \A j, k \in 1..p : j # k => Chunk(S, p, j) \intersect Chunk(S, p, k) = {}
  BY <1>1, ChunksApart
<1>5. ASSUME NEW k \in 1..p PROVE Chunk(S, p, k) # S
  <2>1. PICK j \in 1..p : j # k
    OBVIOUS
  <2>2. Chunk(S, p, j) \subseteq S
    BY DEF Chunk
  <2> QED
    BY <1>3, <1>4, <2>1, <2>2
<1> QED
  BY <1>2, <1>3, <1>4, <1>5 DEF Partition

\* DDMin tests partitions, for lists of any length and every granularity.
THEOREM SplitsPartition == Spec => []SplitPartitions
<1>1. TypeOK /\ SplitInv => SplitPartitions
  <2> SUFFICES ASSUME TypeOK, SplitInv, phase \in {"chunk", "complement"}
               PROVE  idx \in 1..Parts(current, n) /\ Partition(current, Parts(current, n))
    BY Zenon DEF SplitPartitions, Partition
  <2>1. Cardinality(current) >= 2 /\ idx \in 1..Parts(current, n)
    BY DEF SplitInv
  <2>2. /\ current \in SUBSET Factors /\ Parts(current, n) \in Nat
        /\ 2 <= Parts(current, n) /\ Parts(current, n) <= Cardinality(current)
    BY <2>1, PartsOf
  <2> QED
    BY <2>1, <2>2, SplitIsPartition
<1> QED
  BY <1>1, SplitInvariant, EngineTypes, PTL

-----------------------------------------------------------------------------
(* How many runs an analysis makes.                                        *)

\* The worlds whose repetitions were counted in full: baselines, candidates,
\* the reverse intervention, omitted factors.  A candidate is counted when its
\* first repetition begins.
Rounds ==
    CASE phase = "good" -> 0
      [] phase = "bad" -> 1
      [] phase \in {"chunk", "complement"} /\ rep # 0 -> 1 + tests
      [] phase = "minimal" -> 3 + tests + Cardinality(current \ todo)
      [] OTHER -> 2 + tests

Working == Phases \ {"idle", "save", "audit"}

\* What a phase has used: the rounds and the repetitions of the one under way;
\* from the reverse intervention on also what its own limit leaves.
CountInv ==
    /\ tests <= budget
    /\ phase \in {"idle", "good", "bad", "plan"} => tests = 0
    /\ phase = "idle" => used = 0
    /\ phase \in Working => used <= Repetitions * Rounds + rep
    /\ phase = "reverse" /\ rep # 0 => used + Repetitions <= MaxExperiments + rep
    /\ phase = "minimal" =>
         used <= MaxExperiments + Repetitions * Cardinality(current \ todo) + rep
    /\ phase = "minimal" /\ rep # 0 => todo # {} /\ \A x : current # {x}
    /\ phase \in {"save", "audit"} => ExperimentBound

\* A product grows with its factor.
LEMMA Multiples ==
    ASSUME NEW c \in Nat
    PROVE  /\ Repetitions * c \in Nat
           /\ Repetitions * (c + 1) = Repetitions * c + Repetitions
           /\ \A d \in Nat : c <= d => Repetitions * c <= Repetitions * d
  BY EngineAssumption

\* One run more stays within the round, and a round within the next one.
LEMMA OneRun ==
    ASSUME NEW c \in Nat, NEW r \in Nat, r < Repetitions, NEW u \in Nat, NEW d \in Nat,
           NEW m \in Nat, u <= m + Repetitions * c + r, c < d
    PROVE  /\ u + 1 <= m + Repetitions * c + (r + 1)
           /\ u + 1 <= m + Repetitions * d
<1>1. PICK a \in Nat, b \in Nat, e \in Nat :
        a = Repetitions * c /\ b = Repetitions * (c + 1) /\ e = Repetitions * d
  <2>1. c + 1 \in Nat
    OBVIOUS
  <2>2. Repetitions * c \in Nat /\ Repetitions * (c + 1) \in Nat /\ Repetitions * d \in Nat
    BY <2>1, Multiples
  <2> QED
    BY <2>2
<1>2. b = a + Repetitions /\ b <= e
  BY <1>1, Multiples
<1>3. u <= m + a + r
  BY <1>1
<1>4. u + 1 <= m + a + (r + 1) /\ u + 1 <= m + e
  BY <1>2, <1>3, EngineAssumption
<1> QED
  BY <1>1, <1>4

\* Every run is counted, with or without a result.
LEMMA Counted ==
    ASSUME NEW base, NEW S, (\E o \in Outcomes : RunWorld(base, S, o)) \/ RunFails(base, S)
    PROVE  used' = used + 1
  BY DEF RunWorld, RunFails

\* Sizes of sets of factors.
LEMMA Sizes ==
    ASSUME TypeOK
    PROVE  /\ Cardinality(current) \in Nat /\ Cardinality(current \ todo) \in Nat
           /\ Cardinality(current \ todo) <= Cardinality(current)
           /\ used \in Nat /\ rep \in Nat /\ tests \in Nat /\ budget \in Nat
<1>1. current \in SUBSET Factors /\ current \ todo \in SUBSET Factors
  BY DEF TypeOK
<1>2. IsFiniteSet(current) /\ current \ todo \in SUBSET current
  BY <1>1, FactorSets
<1> QED
  BY <1>1, <1>2, FactorSets, FS_Subset DEF TypeOK

\* Concluding keeps within the bound of the phase that concludes.
LEMMA CountConcluded ==
    ASSUME phase' \in {"save", "audit"}, ExperimentBound'
    PROVE  CountInv'
  BY DEF CountInv, Working, ExperimentBound

\* UNPROVEN is concluded within the rounds of the baselines and the candidates.
LEMMA CountUnproven ==
    ASSUME EvidenceInv', Unproven, tests' <= budget', NEW d \in Nat,
           used' <= Repetitions * d, d <= 3 + tests'
    PROVE  CountInv'
<1>1. PICK C \in Nat : C = Cardinality(current')
  BY FactorSets DEF EvidenceInv, TypeOK
<1>2. PICK t \in Nat, u \in Nat : t = tests' /\ u = used'
  BY DEF EvidenceInv, TypeOK
<1>d. d <= 3 + t
  BY <1>2
<1>a. 3 + t + C \in Nat /\ d <= 3 + t + C
  BY <1>d
<1>3. PICK e \in Nat : e = 3 + t + C /\ d <= e
  BY <1>a
<1>4. PICK a \in Nat, b \in Nat : a = Repetitions * d /\ b = Repetitions * e /\ a <= b
  BY <1>3, Multiples
<1>5. u <= b
  BY <1>2, <1>4
<1>6. used' <= Repetitions * (3 + tests' + Cardinality(current'))
  BY <1>1, <1>2, <1>3, <1>4, <1>5
<1>7. status' = "UNPROVEN" /\ phase' = "save"
  BY DEF Unproven, Conclude
<1> QED
  BY <1>6, <1>7, CountConcluded DEF ExperimentBound

\* SUPPORTED and PROVEN within those of the omitted factors, too.
LEMMA CountConclude ==
    ASSUME EvidenceInv', phase' = "save", tests' <= budget', NEW k \in Nat,
           k <= Cardinality(current'), used' <= Repetitions * (3 + tests' + k),
           used' <= MaxExperiments + Repetitions * k
    PROVE  CountInv'
<1>1. PICK C \in Nat : C = Cardinality(current')
  BY FactorSets DEF EvidenceInv, TypeOK
<1>2. PICK t \in Nat, u \in Nat : t = tests' /\ u = used'
  BY DEF EvidenceInv, TypeOK
<1>a. 3 + t + k \in Nat /\ 3 + t + C \in Nat /\ 3 + t + k <= 3 + t + C /\ k <= C
  BY <1>1
<1>3. PICK g \in Nat, h \in Nat : g = 3 + t + k /\ h = 3 + t + C /\ g <= h /\ k <= C
  BY <1>a
<1>b. Repetitions * g \in Nat /\ Repetitions * h \in Nat /\ Repetitions * g <= Repetitions * h
  BY <1>3, Multiples
<1>4. PICK a \in Nat, b \in Nat : a = Repetitions * g /\ b = Repetitions * h /\ a <= b
  BY <1>b
<1>5. PICK e \in Nat, f \in Nat : e = Repetitions * k /\ f = Repetitions * C /\ e <= f
  BY <1>3, Multiples
<1>6. u <= b /\ u <= MaxExperiments + f
  <2>1. u <= a /\ u <= MaxExperiments + e
    BY <1>2, <1>3, <1>4, <1>5
  <2> QED
    BY <1>4, <1>5, <2>1, EngineAssumption
<1>7. /\ used' <= Repetitions * (3 + tests' + Cardinality(current'))
      /\ used' <= MaxExperiments + Repetitions * Cardinality(current')
  BY <1>1, <1>2, <1>3, <1>4, <1>5, <1>6
<1> QED
  BY <1>7, CountConcluded DEF ExperimentBound

\* The verifications of the baselines.
LEMMA CountBaseline ==
    ASSUME EvidenceInv, CountInv, EvidenceInv', NEW base \in Bases, VerifyBaseline(base)
    PROVE  CountInv'
<1> USE DEF ddmin, verdict
<1>1. TypeOK /\ phase = base /\ phase \in Working /\ rep < Repetitions /\ tests = 0
  BY DEF VerifyBaseline, EvidenceInv, RepInv, Running, Bases, Working, Phases, CountInv
<1>2. PICK c \in Nat : c = Rounds /\ c = (IF base = "good" THEN 0 ELSE 1)
  BY <1>1 DEF Rounds, Bases
<1>3. used' = used + 1 /\ UNCHANGED <<tests, budget, current>>
  BY Counted DEF VerifyBaseline
<1>4. /\ used \in Nat /\ rep \in Nat /\ Cardinality(current) \in Nat
  BY <1>1, Sizes
<1>5. used <= 0 + Repetitions * c + rep
  <2>1. used <= Repetitions * c + rep
    BY <1>1, <1>2 DEF CountInv
  <2> QED
    BY <1>2, <1>4, <2>1, EngineAssumption
<1>6. ASSUME NEW d \in Nat, c < d
      PROVE  used' <= Repetitions * c + (rep + 1) /\ used' <= Repetitions * d
  <2>1. used + 1 <= 0 + Repetitions * c + (rep + 1) /\ used + 1 <= 0 + Repetitions * d
    BY <1>1, <1>4, <1>5, <1>6, OneRun
  <2>2. Repetitions * c \in Nat /\ Repetitions * d \in Nat
    BY Multiples
  <2> QED
    BY <1>3, <2>1, <2>2
<1>7. CASE Unproven
  <2>1. used' <= Repetitions * 3 /\ 3 <= 3 + tests'
    BY <1>1, <1>2, <1>3, <1>6
  <2>2. tests' <= budget'
    BY <1>3 DEF CountInv
  <2> QED
    BY <1>7, <2>1, <2>2, CountUnproven
<1>8. CASE rep' = rep + 1 /\ UNCHANGED phase
  <2>1. Rounds' = c
    BY <1>1, <1>2, <1>8 DEF Rounds, Bases
  <2>2. used' <= Repetitions * c + rep'
    BY <1>6, <1>8
  <2>3. phase' = base /\ base \in {"good", "bad"}
    BY <1>1, <1>8 DEF Bases
  <2> QED
    BY <1>1, <1>3, <2>1, <2>2, <2>3 DEF CountInv, Working
<1>9. CASE rep' = 0 /\ phase' = IF base = "good" THEN "bad" ELSE "plan"
  <2>1. Rounds' = c + 1 /\ phase' \in {"bad", "plan"}
    BY <1>1, <1>2, <1>3, <1>9 DEF Rounds, Bases
  <2>2. used' <= Repetitions * (c + 1)
    BY <1>6
  <2>3. used' <= Repetitions * Rounds' + rep'
    BY <1>9, <2>1, <2>2, Multiples, EngineAssumption
  <2> QED
    BY <1>1, <1>3, <2>1, <2>3 DEF CountInv, Working
<1> QED
  BY <1>7, <1>8, <1>9 DEF VerifyBaseline

\* The steps that run nothing: what was used is within the rounds so far.
LEMMA CountPlan ==
    ASSUME EvidenceInv, CountInv, EvidenceInv', PlanSearch
    PROVE  CountInv'
<1> USE DEF ddmin
<1>1. phase = "plan" /\ rep = 0 /\ tests = 0 /\ used \in Nat /\ UNCHANGED <<used, rep>>
  BY DEF PlanSearch, EvidenceInv, RepInv, CountInv, TypeOK
<1>2. used <= Repetitions * 2
  <2>1. Rounds = 2 /\ phase \in Working
    BY <1>1 DEF Rounds, Working, Phases
  <2> QED
    BY <1>1, <2>1, EngineAssumption DEF CountInv
<1>3. CASE Unproven
  <2>1. tests' = tests /\ tests' <= budget'
    BY <1>3 DEF PlanSearch, CountInv, Unproven, Conclude
  <2> QED
    BY <1>1, <1>2, <1>3, <2>1, CountUnproven
<1>4. CASE ~Unproven
  <2>1. phase' = "loop" /\ tests' = 0 /\ budget' = MaxExperiments - used /\ ~(used >= MaxExperiments)
    BY <1>4 DEF PlanSearch
  <2>2. tests' <= budget'
    BY <1>1, <2>1, EngineAssumption
  <2>3. Rounds' = 2
    BY <2>1 DEF Rounds
  <2>4. used' <= Repetitions * Rounds' + rep'
    BY <1>1, <1>2, <2>3, EngineAssumption
  <2> QED
    BY <2>1, <2>2, <2>4 DEF CountInv
<1> QED
  BY <1>3, <1>4

\* The head of the loop, and the end of the budget.
LEMMA CountLoop ==
    ASSUME EvidenceInv, CountInv, EvidenceInv', DDMinLoop \/ DDMinExhausted
    PROVE  CountInv'
<1> USE DEF ddmin
<1>1. /\ rep = 0 /\ phase \in {"loop", "chunk", "complement"}
      /\ used \in Nat /\ tests \in Nat /\ UNCHANGED <<used, rep, tests, budget>>
  BY DEF DDMinLoop, DDMinExhausted, BudgetLeft, EvidenceInv, RepInv, TypeOK
<1>2. PICK c \in Nat : c = 2 + tests
  BY <1>1
<1>3. used <= Repetitions * c
  <2>1. Rounds = c /\ phase \in Working
    BY <1>1, <1>2 DEF Rounds, Working, Phases
  <2> QED
    BY <1>1, <2>1, Multiples DEF CountInv
<1>4. tests' <= budget'
  BY <1>1 DEF CountInv
<1>5. CASE Unproven
  BY <1>1, <1>2, <1>3, <1>4, <1>5, CountUnproven
<1>6. CASE ~Unproven
  <2>1. phase' \in {"reverse", "chunk"}
    BY <1>6 DEF DDMinLoop, DDMinExhausted
  <2>2. Rounds' = c
    BY <1>1, <1>2, <2>1 DEF Rounds
  <2>3. used' <= Repetitions * Rounds' + rep'
    BY <1>1, <1>3, <2>2, Multiples
  <2> QED
    BY <1>1, <1>4, <2>1, <2>3 DEF CountInv
<1> QED
  BY <1>5, <1>6

\* A candidate: counted with its first repetition.
LEMMA CountTest ==
    ASSUME EvidenceInv, CountInv, EvidenceInv', DDMinTest
    PROVE  CountInv'
<1> USE DEF ddmin, minimal
<1>1. /\ phase \in {"chunk", "complement"} /\ phase \in Working
      /\ rep < Repetitions /\ rep \in Nat /\ used \in Nat /\ tests \in Nat /\ budget \in Nat
  BY DEF DDMinTest, EvidenceInv, RepInv, Running, TypeOK, Working, Phases
<1>2. PICK c \in Nat : c = Rounds /\ c = IF rep = 0 THEN 2 + tests ELSE 1 + tests
  BY <1>1 DEF Rounds
<1>3. /\ used' = used + 1 /\ tests' = (IF rep = 0 THEN tests + 1 ELSE tests) /\ budget' = budget
      /\ (rep = 0 => tests < budget)
  BY Counted DEF DDMinTest, BudgetLeft
<1>4. c + 1 = 2 + tests' /\ tests' \in Nat /\ tests' <= budget'
  BY <1>1, <1>2, <1>3 DEF CountInv
<1>5. used' <= Repetitions * c + (rep + 1) /\ used' <= Repetitions * (c + 1)
  <2>1. used <= Repetitions * c + rep
    BY <1>1, <1>2 DEF CountInv
  <2>2. used + 1 <= 0 + Repetitions * c + (rep + 1) /\ used + 1 <= 0 + Repetitions * (c + 1)
    <3>1. used <= 0 + Repetitions * c + rep /\ c + 1 \in Nat /\ c < c + 1
      BY <2>1, Multiples
    <3> QED
      BY <1>1, <3>1, OneRun
  <2>3. Repetitions * c \in Nat /\ Repetitions * (c + 1) \in Nat
    BY Multiples, EngineAssumption
  <2> QED
    BY <1>3, <2>2, <2>3
<1>6. CASE Unproven
  <2>1. c + 1 \in Nat /\ c + 1 <= 3 + tests'
    <3>1. PICK t \in Nat : t = tests' /\ c + 1 = 2 + t
      BY <1>4
    <3>2. c + 1 = 2 + t
      BY <3>1
    <3>3. c + 1 \in Nat /\ c + 1 <= 3 + t
      BY <3>2
    <3> QED
      BY <3>1, <3>3
  <2> QED
    BY <1>4, <1>5, <1>6, <2>1, CountUnproven
<1>7. CASE rep' = 0 /\ (NextCandidate \/ Reduce)
  <2>1. phase' \in {"chunk", "complement", "reverse", "loop"}
    BY <1>1, <1>7 DEF NextCandidate, Reduce
  <2>2. Rounds' = c + 1
    BY <1>4, <1>7, <2>1 DEF Rounds
  <2>3. used' <= Repetitions * Rounds' + rep'
    BY <1>5, <1>7, <2>2, Multiples, EngineAssumption
  <2> QED
    BY <1>4, <1>7, <2>1, <2>3 DEF CountInv
<1>8. CASE rep' = rep + 1 /\ UNCHANGED phase
  <2>1. Rounds' = c
    BY <1>1, <1>4, <1>8 DEF Rounds
  <2>2. used' <= Repetitions * Rounds' + rep'
    BY <1>5, <1>8, <2>1
  <2> QED
    BY <1>1, <1>4, <1>8, <2>2 DEF CountInv
<1> QED
  BY <1>6, <1>7, <1>8 DEF DDMinTest

\* The reverse intervention: its first repetition makes sure that all of them
\* fit into the limit.
LEMMA CountReverse ==
    ASSUME EvidenceInv, CountInv, EvidenceInv', Reverse
    PROVE  CountInv'
<1> USE DEF ddmin
<1>1. /\ phase = "reverse" /\ phase \in Working
      /\ rep < Repetitions /\ rep \in Nat /\ used \in Nat /\ tests \in Nat
      /\ UNCHANGED <<tests, budget, current>> /\ tests' <= budget'
  BY DEF Reverse, EvidenceInv, RepInv, Running, TypeOK, Working, Phases, CountInv
<1>2. PICK c \in Nat : c = Rounds /\ c = 2 + tests
  BY <1>1 DEF Rounds
<1>3. used <= Repetitions * c + rep
  BY <1>1, <1>2 DEF CountInv
<1>4. CASE rep = 0 /\ (current = {} \/ used + Repetitions > MaxExperiments)
  <2>1. Unproven /\ used' = used
    BY <1>4 DEF Reverse
  <2>2. used' <= Repetitions * c /\ c <= 3 + tests'
    BY <1>1, <1>2, <1>3, <1>4, <2>1, Multiples
  <2> QED
    BY <1>1, <2>1, <2>2, CountUnproven
<1>5. CASE ~(rep = 0 /\ (current = {} \/ used + Repetitions > MaxExperiments))
  <2>1. used + Repetitions <= MaxExperiments + rep
    <3>1. CASE rep = 0
      BY <1>1, <1>5, <3>1, EngineAssumption
    <3>2. CASE rep # 0
      BY <1>1, <3>2 DEF CountInv
    <3> QED
      BY <3>1, <3>2
  <2>2. used' = used + 1
    BY <1>5, Counted DEF Reverse
  <2>3. used' <= Repetitions * c + (rep + 1) /\ used' <= Repetitions * (c + 1)
    <3>1. used <= 0 + Repetitions * c + rep /\ c + 1 \in Nat /\ c < c + 1
      BY <1>3, Multiples
    <3>2. used + 1 <= 0 + Repetitions * c + (rep + 1) /\ used + 1 <= 0 + Repetitions * (c + 1)
      BY <1>1, <3>1, OneRun
    <3>3. Repetitions * c \in Nat /\ Repetitions * (c + 1) \in Nat
      BY Multiples, EngineAssumption
    <3> QED
      BY <2>2, <3>2, <3>3
  <2>4. used' + Repetitions <= MaxExperiments + (rep + 1) /\ used' <= MaxExperiments
    BY <1>1, <2>1, <2>2, EngineAssumption
  <2>5. CASE Unproven
    <3>1. c + 1 \in Nat /\ c + 1 <= 3 + tests'
      BY <1>1, <1>2
    <3> QED
      BY <1>1, <2>3, <2>5, <3>1, CountUnproven
  <2>6. CASE Conclude("SUPPORTED", current)
    <3>1. 0 <= Cardinality(current') /\ Cardinality(current') \in Nat
      <4>1. Cardinality(current') \in Nat
        BY FactorSets DEF EvidenceInv, TypeOK
      <4> QED
        BY <4>1
    <3>2. used' <= Repetitions * (3 + tests' + 0) /\ used' <= MaxExperiments + Repetitions * 0
      <4>1. c + 1 = 3 + tests' + 0
        BY <1>1, <1>2
      <4>2. Repetitions * 0 = 0 /\ used' \in Nat
        BY <1>1, <2>2, EngineAssumption
      <4> QED
        BY <2>3, <2>4, <4>1, <4>2, EngineAssumption
    <3>3. phase' = "save"
      BY <2>6 DEF Conclude
    <3> QED
      BY <1>1, <3>1, <3>2, <3>3, CountConclude
  <2>7. CASE rep' = rep + 1 /\ UNCHANGED phase
    <3>1. Rounds' = c
      BY <1>1, <1>2, <2>7 DEF Rounds
    <3>2. used' <= Repetitions * Rounds' + rep' /\ used' + Repetitions <= MaxExperiments + rep'
      BY <2>3, <2>4, <2>7, <3>1
    <3> QED
      BY <1>1, <2>7, <3>2 DEF CountInv
  <2>8. CASE rep' = 0 /\ phase' = "minimal" /\ todo' = current
    <3>1. Cardinality(current' \ todo') = 0
      <4>1. current' \ todo' = {}
        BY <1>1, <2>8
      <4> QED
        BY <4>1, FS_EmptySet
    <3>2. Rounds' = c + 1
      BY <1>1, <1>2, <2>8, <3>1 DEF Rounds
    <3>3. used' <= Repetitions * Rounds' + rep'
      BY <2>3, <2>8, <3>2, Multiples, EngineAssumption
    <3>4. used' <= MaxExperiments + Repetitions * Cardinality(current' \ todo') + rep'
      BY <2>4, <2>8, <3>1, EngineAssumption
    <3> QED
      BY <1>1, <2>8, <3>3, <3>4 DEF CountInv
  <2> QED
    BY <1>5, <2>5, <2>6, <2>7, <2>8 DEF Reverse
<1> QED
  BY <1>4, <1>5

\* verifyMinimality takes the least of the factors it has yet to leave out.
LEMMA OmittedTodo ==
    ASSUME TypeOK, todo # {}
    PROVE  Omitted \in todo /\ Omitted \in current
<1>1. todo \in SUBSET Nat /\ todo \subseteq current
  BY EngineAssumption DEF TypeOK, Factors
<1>2. \E x \in todo : \A y \in todo : x <= y
  BY <1>1, LeastElement
<1>3. Omitted \in todo
  BY <1>2 DEF Omitted
<1> QED
  BY <1>1, <1>3

\* One factor less to leave out.
LEMMA OneOmitted ==
    ASSUME TypeOK, NEW x \in todo
    PROVE  /\ Cardinality(current \ (todo \ {x})) = Cardinality(current \ todo) + 1
           /\ Cardinality(current \ todo) + 1 <= Cardinality(current)
<1>1. todo \subseteq current /\ current \in SUBSET Factors
  BY DEF TypeOK
<1>2. current \ (todo \ {x}) = (current \ todo) \union {x} /\ x \notin current \ todo
  BY <1>1
<1>3. IsFiniteSet(current \ todo) /\ IsFiniteSet(current)
  BY <1>1, FactorSets
<1>4. Cardinality((current \ todo) \union {x}) = Cardinality(current \ todo) + 1
  BY <1>2, <1>3, FS_AddElement
<1>5. (current \ todo) \union {x} \in SUBSET current
  BY <1>1
<1>6. Cardinality((current \ todo) \union {x}) <= Cardinality(current)
  BY <1>3, <1>5, FS_Subset
<1> QED
  BY <1>2, <1>4, <1>6

\* What verifyMinimality has used, and one run of it more.
LEMMA MinimalUse ==
    ASSUME EvidenceInv, CountInv, phase = "minimal", NEW k \in Nat, k = Cardinality(current \ todo)
    PROVE  /\ used <= Repetitions * (3 + tests + k) + rep
           /\ used <= MaxExperiments + Repetitions * k + rep
           /\ used + 1 <= Repetitions * (3 + tests + k) + (rep + 1)
           /\ used + 1 <= Repetitions * (3 + tests + (k + 1))
           /\ used + 1 <= MaxExperiments + Repetitions * k + (rep + 1)
           /\ used + 1 <= MaxExperiments + Repetitions * (k + 1)
<1>1. PICK t \in Nat, u \in Nat, r \in Nat : t = tests /\ u = used /\ r = rep /\ r < Repetitions
  BY Sizes DEF EvidenceInv, RepInv, Running
<1>2. Rounds = 3 + tests + k /\ phase \in Working
  BY DEF Rounds, Working, Phases
<1>3. used <= Repetitions * (3 + tests + k) + rep /\ used <= MaxExperiments + Repetitions * k + rep
  BY <1>2 DEF CountInv
<1>4. 3 + t + k \in Nat
  BY <1>1
<1>5. PICK c \in Nat : c = 3 + t + k
  BY <1>4
<1>6. c + 1 \in Nat /\ c < c + 1 /\ k + 1 \in Nat /\ k < k + 1 /\ 3 + t + (k + 1) = c + 1
  BY <1>5
<1>7. u <= Repetitions * c + r /\ u <= MaxExperiments + Repetitions * k + r
  BY <1>1, <1>3, <1>5
<1>8. u <= 0 + Repetitions * c + r /\ 0 \in Nat /\ MaxExperiments \in Nat
  BY <1>7, Multiples, EngineAssumption
<1>9. /\ u + 1 <= 0 + Repetitions * c + (r + 1) /\ u + 1 <= 0 + Repetitions * (c + 1)
  BY <1>1, <1>6, <1>8, OneRun
<1>10. /\ u + 1 <= MaxExperiments + Repetitions * k + (r + 1)
       /\ u + 1 <= MaxExperiments + Repetitions * (k + 1)
  BY <1>1, <1>6, <1>7, <1>8, OneRun
<1>11. u + 1 <= Repetitions * c + (r + 1) /\ u + 1 <= Repetitions * (c + 1)
  BY <1>6, <1>9, Multiples
<1> QED
  BY <1>1, <1>3, <1>5, <1>6, <1>10, <1>11

\* The minimality checks: a round for every factor left out.
LEMMA CountMinimality ==
    ASSUME EvidenceInv, CountInv, EvidenceInv', VerifyMinimality
    PROVE  CountInv'
<1> USE DEF ddmin
<1>1. /\ TypeOK /\ phase = "minimal" /\ todo # {}
      /\ UNCHANGED <<tests, budget, current>> /\ tests' <= budget'
  BY DEF VerifyMinimality, EvidenceInv, CountInv
<1>2. PICK k \in Nat : k = Cardinality(current \ todo)
  BY <1>1, Sizes
<1>3. PICK t \in Nat, u \in Nat, r \in Nat, C \in Nat :
        t = tests /\ u = used /\ r = rep /\ C = Cardinality(current)
  BY <1>1, Sizes
<1>4. /\ u <= Repetitions * (3 + t + k) + r
      /\ u <= MaxExperiments + Repetitions * k + r
      /\ u + 1 <= Repetitions * (3 + t + k) + (r + 1)
      /\ u + 1 <= Repetitions * (3 + t + (k + 1))
      /\ u + 1 <= MaxExperiments + Repetitions * k + (r + 1)
      /\ u + 1 <= MaxExperiments + Repetitions * (k + 1)
  BY <1>1, <1>2, <1>3, MinimalUse
<1>5. /\ Omitted \in todo /\ Omitted \in current
      /\ Cardinality(current \ (todo \ {Omitted})) = k + 1 /\ k + 1 <= C
  BY <1>1, <1>2, <1>3, OmittedTodo, OneOmitted
<1>6. /\ current' = current /\ tests' = t /\ Cardinality(current') = C
  BY <1>1, <1>3
<1>7. k + 1 \in Nat /\ k <= C /\ 3 + t + k \in Nat /\ 3 + t + (k + 1) \in Nat
  <2>1. k + 1 <= C
    BY <1>5
  <2> QED
    BY <2>1
<1>8. CASE MinimalityExhausted
  <2>1. Conclude("SUPPORTED", current) /\ used' = u /\ r = 0
    BY <1>3, <1>8 DEF VerifyMinimality, MinimalityExhausted
  <2>2. used' <= Repetitions * (3 + t + k) /\ used' <= MaxExperiments + Repetitions * k
    <3>1. Repetitions * (3 + t + k) \in Nat /\ Repetitions * k \in Nat
      BY <1>7, Multiples
    <3> QED
      BY <1>4, <2>1, <3>1, EngineAssumption
  <2>3. used' <= Repetitions * (3 + tests' + k) /\ k <= Cardinality(current')
    BY <1>6, <1>7, <2>2
  <2>4. phase' = "save"
    BY <2>1 DEF Conclude
  <2> QED
    BY <1>1, <2>2, <2>3, <2>4, CountConclude
<1>9. CASE ~MinimalityExhausted /\ current = {Omitted}
  <2>1. todo' = todo \ {Omitted} /\ used' = u /\ rep' = r /\ phase' = "minimal"
    BY <1>1, <1>3, <1>9 DEF VerifyMinimality, OmitNext
  <2>2. r = 0
    BY <1>1, <1>3, <1>9 DEF CountInv
  <2>3. Cardinality(current' \ todo') = k + 1
    BY <1>5, <1>6, <2>1
  <2>4. Rounds' = 3 + t + (k + 1)
    BY <1>6, <2>1, <2>3 DEF Rounds
  <2>5. u <= Repetitions * (3 + t + (k + 1)) /\ u <= MaxExperiments + Repetitions * (k + 1)
    <3>1. Repetitions * (3 + t + (k + 1)) \in Nat /\ Repetitions * (k + 1) \in Nat
      BY <1>7, Multiples
    <3> QED
      BY <1>4, <3>1, EngineAssumption
  <2>6. /\ used' <= Repetitions * Rounds' + rep'
        /\ used' <= MaxExperiments + Repetitions * Cardinality(current' \ todo') + rep'
    <3>1. Repetitions * (3 + t + (k + 1)) \in Nat /\ Repetitions * (k + 1) \in Nat
      BY <1>7, Multiples
    <3>2. /\ u <= Repetitions * (3 + t + (k + 1)) + 0
          /\ u <= MaxExperiments + Repetitions * (k + 1) + 0
      BY <2>5, <3>1, EngineAssumption
    <3> QED
      BY <2>1, <2>2, <2>3, <2>4, <3>2
  <2> QED
    BY <1>1, <2>1, <2>2, <2>6 DEF CountInv
<1>10. CASE ~MinimalityExhausted /\ current # {Omitted}
  <2>1. used' = u + 1
    <3>1. (\E o \in Outcomes : RunWorld("bad", current \ {Omitted}, o))
          \/ RunFails("bad", current \ {Omitted})
      BY <1>10 DEF VerifyMinimality
    <3> QED
      BY <1>3, <3>1, Counted
  <2>2. CASE Unproven
    <3>2. used' <= Repetitions * (3 + tests' + (k + 1)) /\ k + 1 <= Cardinality(current')
      BY <1>4, <1>5, <1>6, <2>1
    <3>3. used' <= MaxExperiments + Repetitions * (k + 1) /\ phase' = "save"
      BY <1>4, <2>1, <2>2 DEF Unproven, Conclude
    <3> QED
      BY <1>1, <1>7, <3>2, <3>3, CountConclude
  <2>3. CASE Conclude("SUPPORTED", current)
    <3>2. used' <= Repetitions * (3 + tests' + (k + 1)) /\ k + 1 <= Cardinality(current')
      BY <1>4, <1>5, <1>6, <2>1
    <3>3. used' <= MaxExperiments + Repetitions * (k + 1) /\ phase' = "save"
      BY <1>4, <2>1, <2>3 DEF Conclude
    <3> QED
      BY <1>1, <1>7, <3>2, <3>3, CountConclude
  <2>4. CASE rep' = 0 /\ OmitNext /\ UNCHANGED phase
    <3>1. todo' = todo \ {Omitted} /\ phase' = "minimal"
      BY <1>1, <2>4 DEF OmitNext
    <3>2. Cardinality(current' \ todo') = k + 1
      BY <1>5, <1>6, <3>1
    <3>3. Rounds' = 3 + t + (k + 1)
      BY <1>6, <3>1, <3>2 DEF Rounds
    <3>4. Repetitions * (3 + t + (k + 1)) \in Nat /\ Repetitions * (k + 1) \in Nat
      BY <1>7, Multiples
    <3>5. /\ u + 1 <= Repetitions * (3 + t + (k + 1)) + 0
          /\ u + 1 <= MaxExperiments + Repetitions * (k + 1) + 0
      BY <1>4, <3>4, EngineAssumption
    <3>6. /\ used' <= Repetitions * Rounds' + rep'
          /\ used' <= MaxExperiments + Repetitions * Cardinality(current' \ todo') + rep'
      BY <2>1, <2>4, <3>2, <3>3, <3>5
    <3> QED
      BY <1>1, <2>4, <3>1, <3>6 DEF CountInv
  <2>5. CASE rep' = rep + 1 /\ UNCHANGED <<phase, todo>>
    <3>1. Cardinality(current' \ todo') = k /\ phase' = "minimal" /\ todo' # {} /\ rep' = r + 1
      BY <1>1, <1>2, <1>3, <1>6, <2>5
    <3>2. Rounds' = 3 + t + k
      BY <1>6, <3>1 DEF Rounds
    <3>3. /\ used' <= Repetitions * Rounds' + rep'
          /\ used' <= MaxExperiments + Repetitions * Cardinality(current' \ todo') + rep'
      BY <1>4, <2>1, <3>1, <3>2
    <3>4. \A x : current' # {x}
      BY <1>5, <1>6, <1>10
    <3> QED
      BY <1>1, <3>1, <3>3, <3>4 DEF CountInv
  <2>6. \/ Unproven \/ Conclude("SUPPORTED", current)
        \/ (rep' = 0 /\ OmitNext /\ UNCHANGED phase)
        \/ (rep' = rep + 1 /\ UNCHANGED <<phase, todo>>)
    BY <1>10 DEF VerifyMinimality
  <2> QED
    BY <2>2, <2>3, <2>4, <2>5, <2>6
<1> QED
  BY <1>8, <1>9, <1>10

\* Nothing is left to omit: every factor had its round.
LEMMA CountProve ==
    ASSUME EvidenceInv, CountInv, EvidenceInv', Prove
    PROVE  CountInv'
<1> USE DEF ddmin
<1>1. /\ TypeOK /\ phase = "minimal" /\ todo = {} /\ phase' = "save"
      /\ UNCHANGED <<tests, budget, current, used>> /\ tests' <= budget'
  BY DEF Prove, Conclude, EvidenceInv, CountInv
<1>2. PICK k \in Nat, t \in Nat, u \in Nat : k = Cardinality(current) /\ t = tests /\ u = used
  BY <1>1, Sizes
<1>3. current \ todo = current /\ rep = 0
  BY <1>1 DEF CountInv
<1>4. k = Cardinality(current \ todo)
  BY <1>2, <1>3
<1>5. u <= Repetitions * (3 + t + k) + 0 /\ u <= MaxExperiments + Repetitions * k + 0
  BY <1>1, <1>2, <1>3, <1>4, MinimalUse
<1>6. u <= Repetitions * (3 + t + k) /\ u <= MaxExperiments + Repetitions * k
  <2>1. 3 + t + k \in Nat
    OBVIOUS
  <2>2. Repetitions * (3 + t + k) \in Nat /\ Repetitions * k \in Nat
    BY <2>1, Multiples
  <2> QED
    BY <1>5, <2>2, EngineAssumption
<1>7. /\ used' <= Repetitions * (3 + tests' + k) /\ used' <= MaxExperiments + Repetitions * k
      /\ k <= Cardinality(current')
  BY <1>1, <1>2, <1>6
<1> QED
  BY <1>1, <1>7, CountConclude

\* finish, a crash, the next call and the environment.
LEMMA CountRest ==
    ASSUME EvidenceInv, CountInv, EvidenceInv',
           \/ Analyze \/ SaveAnalysis \/ AuditAnalysis \/ Crash
           \/ Cancel \/ Evict \/ UNCHANGED vars
    PROVE  CountInv'
<1> USE DEF ddmin, minimal, verdict
<1>1. CASE Return
  BY <1>1 DEF Return, CountInv, Working
<1>2. CASE UNCHANGED <<phase, rep, tests, budget, current, todo, used, status>>
  BY <1>2 DEF CountInv, Rounds, ExperimentBound
<1>3. CASE Analyze
  <2>1. /\ phase' \in {"good", "save"} /\ rep' = 0 /\ tests' = 0 /\ used' = 0
        /\ tests' <= budget' /\ status' = "UNPROVEN"
    BY <1>3 DEF Analyze, EvidenceInv, RepInv, VerdictInv, CountInv
  <2>2. CASE phase' = "good"
    <3>1. Rounds' = 0
      BY <2>2 DEF Rounds
    <3>2. used' <= Repetitions * Rounds' + rep'
      BY <2>1, <3>1, EngineAssumption
    <3> QED
      BY <2>1, <2>2, <3>2 DEF CountInv
  <2>3. CASE phase' = "save"
    <3>1. Cardinality(current') \in Nat
      BY FactorSets DEF EvidenceInv, TypeOK
    <3>2. 3 + tests' + Cardinality(current') \in Nat
      BY <2>1, <3>1
    <3>3. 0 <= Repetitions * (3 + tests' + Cardinality(current'))
      BY <3>2, Multiples
    <3> QED
      BY <2>1, <2>3, <3>3, CountConcluded DEF ExperimentBound
  <2> QED
    BY <2>1, <2>2, <2>3
<1>4. CASE SaveAnalysis /\ ~Return
  <2>1. phase = "save" /\ phase' = "audit" /\ UNCHANGED <<tests, budget, current, used, status>>
    BY <1>4 DEF SaveAnalysis
  <2>2. ExperimentBound'
    BY <2>1 DEF CountInv, ExperimentBound
  <2> QED
    BY <2>1, <2>2, CountConcluded
<1>5. CASE AuditAnalysis \/ Crash
  BY <1>1, <1>5 DEF AuditAnalysis, Crash
<1>6. CASE Cancel \/ Evict \/ UNCHANGED vars
  BY <1>2, <1>6 DEF Cancel, Evict, vars
<1> QED
  BY <1>1, <1>3, <1>4, <1>5, <1>6

\* How far the runs of an analysis go, for every number of factors, repetitions
\* and experiments, whatever the worlds answer and wherever runs fail.
THEOREM RunsBounded == Spec => []ExperimentBound
<1>1. Init => CountInv
  BY DEF Init, CountInv, Working
<1>2. EvidenceInv /\ EvidenceInv' /\ CountInv /\ [Next]_vars => CountInv'
  BY CountBaseline, CountPlan, CountLoop, CountTest, CountReverse, CountMinimality, CountProve,
     CountRest DEF Next, Step
<1>3. EvidenceInv /\ CountInv => ExperimentBound
  <2> SUFFICES ASSUME EvidenceInv, CountInv, phase \notin {"save", "audit"} PROVE ExperimentBound
    BY DEF CountInv
  <2>1. PICK t \in Nat, u \in Nat, r \in Nat, C \in Nat, k \in Nat :
          /\ t = tests /\ u = used /\ r = rep /\ C = Cardinality(current)
          /\ k = Cardinality(current \ todo) /\ k <= C
    BY Sizes DEF EvidenceInv
  <2>2. tests <= budget /\ status = "UNPROVEN"
    BY DEF CountInv, EvidenceInv, VerdictInv
  <2>3. 3 + t + C \in Nat
    BY <2>1
  <2>4. PICK b \in Nat : b = Repetitions * (3 + t + C)
    BY <2>3, Multiples
  <2>5. CASE phase = "idle"
    <3>1. u <= b
      BY <2>1, <2>5 DEF CountInv
    <3> QED
      BY <2>1, <2>2, <2>4, <3>1 DEF ExperimentBound
  <2>6. CASE phase # "idle"
    <3>1. phase \in Working
      BY <2>6 DEF EvidenceInv, TypeOK, Working
    <3>2. r < Repetitions
      BY <2>1, <2>6, EngineAssumption DEF EvidenceInv, RepInv, Running, TypeOK, Phases
    <3>3. PICK c \in Nat : c = Rounds /\ (c <= 2 + t \/ (phase = "minimal" /\ c = 3 + t + k))
      <4>1. Rounds \in {0, 1, 1 + t, 2 + t} \/ (phase = "minimal" /\ Rounds = 3 + t + k)
        BY <2>1 DEF Rounds
      <4>2. Rounds \in Nat /\ (Rounds <= 2 + t \/ (phase = "minimal" /\ Rounds = 3 + t + k))
        BY <4>1
      <4> QED
        BY <4>2
    <3>4. u <= Repetitions * c + r
      BY <2>1, <3>1, <3>3 DEF CountInv
    <3>5. CASE c <= 2 + t
      <4>1. c < 3 + t + C
        BY <3>5
      <4>2. u <= 0 + Repetitions * c + r
        BY <3>4, Multiples
      <4>3. u + 1 <= 0 + Repetitions * (3 + t + C)
        BY <2>3, <3>2, <4>1, <4>2, OneRun
      <4>4. u <= b
        BY <2>4, <4>3
      <4> QED
        BY <2>1, <2>2, <2>4, <4>4 DEF ExperimentBound
    <3>6. CASE phase = "minimal" /\ rep = 0
      <4>1. 3 + t + k \in Nat /\ 3 + t + k <= 3 + t + C
        BY <2>1
      <4>2. Repetitions * (3 + t + k) \in Nat /\ Repetitions * (3 + t + k) <= b
        BY <2>3, <2>4, <4>1, Multiples
      <4>3. u <= Repetitions * (3 + t + k) + 0
        BY <2>1, <3>6, MinimalUse
      <4>4. u <= b
        BY <4>2, <4>3
      <4> QED
        BY <2>1, <2>2, <2>4, <4>4 DEF ExperimentBound
    <3>7. CASE phase = "minimal" /\ rep # 0
      <4>1. todo # {}
        BY <3>7 DEF CountInv
      <4>2. k + 1 <= C
        BY <2>1, <4>1, OmittedTodo, OneOmitted DEF EvidenceInv
      <4>3. 3 + t + (k + 1) \in Nat /\ 3 + t + (k + 1) <= 3 + t + C
        BY <4>2
      <4>4. Repetitions * (3 + t + (k + 1)) \in Nat /\ Repetitions * (3 + t + (k + 1)) <= b
        BY <2>3, <2>4, <4>3, Multiples
      <4>5. u + 1 <= Repetitions * (3 + t + (k + 1))
        BY <2>1, <3>7, MinimalUse
      <4>6. u <= b
        BY <4>4, <4>5
      <4> QED
        BY <2>1, <2>2, <2>4, <4>6 DEF ExperimentBound
    <3> QED
      BY <3>3, <3>5, <3>6, <3>7
  <2> QED
    BY <2>5, <2>6
<1> QED
  BY <1>1, <1>2, <1>3, EvidenceInvariant, PTL DEF Spec

-----------------------------------------------------------------------------
(* With a command whose worlds always answer alike and a caller that does  *)
(* not cancel, DDMin's result is 1-minimal.                                *)

\* A cache entry holds what its world answers.
AnswersInv ==
    /\ ~cancelled
    /\ \A key \in Keys : cache[key] # NoEntry => cache[key] = world[key]

\* The bad world with the factors S taken from the good one has failed.
Refutes(S) ==
    /\ world[WorldOf("bad", S)] # NoEntry
    /\ ~world[WorldOf("bad", S)].passed

\* The complements before idx have failed; when the search ends every set that
\* is smaller by one factor has, and verifyMinimality finds no repair.
RefutedInv ==
    /\ phase = "complement" =>
         \A k \in 1..(idx - 1) : Refutes(current \ Chunk(current, Parts(current, n), k))
    /\ phase \in {"reverse", "minimal"} =>
         Cardinality(current) < 2 \/ \A x \in current : Refutes(current \ {x})
    /\ MinimalityAgrees

\* An outcome is not the missing entry.
LEMMA NoEntryApart == \A o \in Outcomes : o # NoEntry
  BY DEF Outcomes, NoEntry

\* Every set of factors makes a world.
LEMMA WorldIsKey ==
    ASSUME NEW base \in Bases, NEW S \in SUBSET Factors
    PROVE  WorldOf(base, S) \in Keys
  BY DEF WorldOf, Keys, Bases

\* What the worlds have answered stays, and so does what it refutes.
Remembered == \A key \in Keys : world[key] # NoEntry => world'[key] = world[key]

\* A set that failed once has failed for good.
LEMMA RefutesStays ==
    ASSUME NEW S \in SUBSET Factors, Refutes(S), Remembered, UNCHANGED identical
    PROVE  Refutes(S)'
<1>1. WorldOf("bad", S) \in Keys
  BY WorldIsKey DEF Bases
<1>2. WorldOf("bad", S)' = WorldOf("bad", S)
  BY DEF WorldOf
<1> QED
  BY <1>1, <1>2 DEF Refutes, Remembered

\* A run shows what its world answers, now and in every later run.
LEMMA RunAnswers ==
    ASSUME ~Flaky, TypeOK, AnswersInv, UNCHANGED <<identical, cancelled>>,
           NEW base \in Bases, NEW S \in SUBSET Factors,
           NEW o \in Outcomes, RunWorld(base, S, o)
    PROVE  AnswersInv' /\ Remembered /\ world'[WorldOf(base, S)] = o
<1> DEFINE w == WorldOf(base, S)
<1>1. w \in Keys /\ CacheKey(base, S) = w
  BY WorldIsKey DEF WorldOf, CacheKey
<1>2. /\ world \in [Keys -> Outcomes \union {NoEntry}] /\ cache \in [Keys -> Outcomes \union {NoEntry}]
      /\ ~cancelled'
  BY DEF TypeOK, AnswersInv
<1> HIDE DEF w
<1>3. CacheHit(w, o) \/ FreshRun(w, w, o)
  BY <1>1 DEF RunWorld, w
<1>4. CASE CacheHit(w, o)
  <2>1. world' = world /\ cache' = cache /\ world[w] = o
    BY <1>1, <1>4 DEF CacheHit, AnswersInv
  <2> QED
    BY <1>2, <2>1 DEF AnswersInv, Remembered, w
<1>5. CASE FreshRun(w, w, o)
  <2>1. IF world[w] # NoEntry THEN o = world[w] ELSE o.complete
    BY <1>5 DEF FreshRun, RunOutcomes, AnswersInv
  <2>2. world'[w] = o
    BY <1>1, <1>2, <1>5, <2>1, NoEntryApart DEF FreshRun
  <2>3. \A key \in Keys : key # w => world'[key] = world[key]
    BY <1>2, <1>5 DEF FreshRun
  <2>4. Remembered
    BY <2>1, <2>2, <2>3 DEF Remembered
  <2>5. \A key \in Keys : cache'[key] = cache[key] \/ (key = w /\ cache'[key] = o)
    BY <1>1, <1>2, <1>5 DEF FreshRun
  <2>6. \A key \in Keys : cache'[key] # NoEntry => cache'[key] = world'[key]
    <3> SUFFICES ASSUME NEW key \in Keys, cache'[key] # NoEntry
                 PROVE  cache'[key] = world'[key]
      OBVIOUS
    <3>1. CASE cache'[key] = cache[key] /\ key # w
      BY <2>3, <3>1 DEF AnswersInv
    <3>2. CASE cache'[key] = cache[key] /\ key = w
      BY <1>5, <3>2 DEF FreshRun
    <3> QED
      BY <2>2, <2>5, <3>1, <3>2
  <2> QED
    BY <1>2, <2>2, <2>4, <2>6 DEF AnswersInv, w
<1> QED
  BY <1>3, <1>4, <1>5

\* A run without a result leaves the worlds and the cache alone.
LEMMA RunFailsAnswers ==
    ASSUME AnswersInv, UNCHANGED cancelled, NEW base, NEW S, RunFails(base, S)
    PROVE  AnswersInv' /\ Remembered
  BY DEF AnswersInv, Remembered, RunFails

\* A failing run on the bad world refutes its set.
LEMMA RunRefutes ==
    ASSUME NEW S \in SUBSET Factors, NEW o \in Outcomes, ~o.passed,
           world'[WorldOf("bad", S)] = o, UNCHANGED identical
    PROVE  Refutes(S)'
<1>1. WorldOf("bad", S)' = WorldOf("bad", S)
  BY DEF WorldOf
<1> QED
  BY <1>1, NoEntryApart DEF Refutes

\* The sets DDMin and verifyMinimality run are sets of factors.
LEMMA TestedSets ==
    ASSUME TypeOK
    PROVE  /\ current \in SUBSET Factors /\ Candidate \in SUBSET Factors /\ {} \in SUBSET Factors
           /\ \A x : current \ {x} \in SUBSET Factors
           /\ \A T : current \ T \in SUBSET Factors
  BY CandidateSubset DEF TypeOK

\* Runs, evictions and crashes keep the cache true to the worlds, and the worlds
\* keep their answers.
LEMMA AnswersStep ==
    ASSUME ~Flaky, ~Cancellation, TypeOK, AnswersInv, [Next]_vars
    PROVE  AnswersInv' /\ Remembered /\ UNCHANGED captures
<1>1. CASE UNCHANGED <<captures, world, cache>> /\ ~cancelled'
  BY <1>1 DEF AnswersInv, Remembered, captures
<1>2. ASSUME NEW base \in Bases, NEW S \in SUBSET Factors, UNCHANGED captures, UNCHANGED cancelled,
             (\E o \in Outcomes : RunWorld(base, S, o)) \/ RunFails(base, S)
      PROVE  AnswersInv' /\ Remembered
  BY <1>2, RunAnswers, RunFailsAnswers DEF captures
<1>3. ASSUME NEW base \in Bases, VerifyBaseline(base) PROVE AnswersInv' /\ Remembered /\ UNCHANGED captures
  BY <1>2, <1>3, TestedSets DEF VerifyBaseline
<1>4. CASE DDMinTest
  BY <1>2, <1>4, TestedSets DEF DDMinTest, Bases
<1>5. CASE Reverse
  BY <1>1, <1>2, <1>5, TestedSets DEF Reverse, Bases, AnswersInv
<1>6. CASE VerifyMinimality
  BY <1>1, <1>2, <1>6, TestedSets DEF VerifyMinimality, Bases, AnswersInv
<1>7. CASE PlanSearch \/ DDMinLoop \/ DDMinExhausted \/ Prove
  BY <1>1, <1>7 DEF PlanSearch, DDMinLoop, DDMinExhausted, Prove, AnswersInv
<1>8. CASE SaveAnalysis \/ AuditAnalysis \/ Crash
  BY <1>1, <1>8 DEF SaveAnalysis, AuditAnalysis, Crash, Return, AnswersInv
<1>9. CASE Analyze \/ Cancel \/ UNCHANGED vars
  <2>1. Cancellation = FALSE /\ ~cancelled
    BY EngineAssumption DEF AnswersInv
  <2>2. CASE Analyze
    <3>1. ~cancelled'
      BY <2>1, <2>2, Zenon DEF Analyze
    <3> QED
      BY <1>1, <2>2, <3>1 DEF Analyze
  <2>3. CASE Cancel \/ UNCHANGED vars
    BY <1>1, <2>1, <2>3 DEF Cancel, vars
  <2> QED
    BY <1>9, <2>2, <2>3
<1>10. CASE Evict
  <2>1. PICK key \in Keys : cache' = [cache EXCEPT ![key] = NoEntry]
    BY <1>10 DEF Evict
  <2>2. \A k \in Keys : cache'[k] = NoEntry \/ cache'[k] = cache[k]
    BY <2>1 DEF TypeOK
  <2> QED
    BY <1>10, <2>2 DEF Evict, AnswersInv, Remembered, captures
<1> QED
  BY <1>3, <1>4, <1>5, <1>6, <1>7, <1>8, <1>9, <1>10 DEF Next, Step

\* What was refuted for the current set stays refuted while the set stays.
LEMMA RefutedStays ==
    ASSUME EvidenceInv, RefutedInv, Remembered, UNCHANGED captures,
           UNCHANGED <<current, n, idx, refuted>>, phase' = phase \/ phase' \notin {"complement", "reverse", "minimal"}
           \/ (phase = "reverse" /\ phase' = "minimal")
    PROVE  RefutedInv'
<1>1. TypeOK /\ UNCHANGED identical
  BY DEF EvidenceInv, captures
<1>2. ASSUME NEW T, Refutes(current \ T) PROVE Refutes(current \ T)'
  BY <1>1, <1>2, RefutesStays, TestedSets
<1>3. phase' = "complement" =>
        \A k \in 1..(idx - 1) : Refutes(current \ Chunk(current, Parts(current, n), k))'
  BY <1>2 DEF RefutedInv
<1>4. phase' \in {"reverse", "minimal"} =>
        Cardinality(current) < 2 \/ \A x \in current : Refutes(current \ {x})'
  BY <1>2 DEF RefutedInv
<1> QED
  BY <1>3, <1>4 DEF RefutedInv, MinimalityAgrees

\* A candidate: the complements tested so far and, after the last one of the
\* finest split, all sets that are smaller by one factor.
LEMMA RefutedTest ==
    ASSUME ~Flaky, EvidenceInv, SplitInv, AnswersInv, RefutedInv, Remembered, DDMinTest
    PROVE  RefutedInv'
<1> USE DEF captures
<1>1. /\ TypeOK /\ phase \in {"chunk", "complement"} /\ UNCHANGED <<identical, refuted, cancelled>>
      /\ UNCHANGED captures
  BY DEF DDMinTest, EvidenceInv
<1>2. CASE phase' \notin {"complement", "reverse", "minimal"}
  BY <1>1, <1>2 DEF RefutedInv, MinimalityAgrees
<1>3. CASE UNCHANGED <<phase, current, n, idx>>
  BY <1>1, <1>3, RefutedStays
<1>4. CASE phase = "chunk" /\ NextCandidate /\ UNCHANGED current
  <2>1. CASE idx < Parts(current, n)
    BY <1>2, <1>4, <2>1 DEF NextCandidate
  <2>2. CASE ~(idx < Parts(current, n))
    <3>1. phase' = "complement" /\ idx' = 1
      BY <1>4, <2>2 DEF NextCandidate
    <3>2. 1..(idx' - 1) = {}
      BY <3>1
    <3> QED
      BY <1>1, <3>1, <3>2 DEF RefutedInv, MinimalityAgrees
  <2> QED
    BY <2>1, <2>2
<1>5. ASSUME NEW o \in Outcomes, RunWorld("bad", Candidate, o), ~o.passed,
             phase = "complement", NextCandidate, UNCHANGED current
      PROVE  RefutedInv'
  <2>1. PICK C \in Nat, p \in Nat, cur \in SUBSET Factors :
          /\ C = Cardinality(current) /\ p = Parts(current, n) /\ cur = current
          /\ C >= 2 /\ idx \in 1..p /\ (n >= C => p = C)
    BY <1>1, PartsOf DEF SplitInv
  <2>2. PICK i \in 1..p : i = idx
    BY <2>1
  <2>3. \A k : cur \ Chunk(cur, p, k) \in SUBSET Factors
    BY <2>1
  <2>4. Refutes(cur \ Chunk(cur, p, i))'
    <3>1. PICK S \in SUBSET Factors : S = cur \ Chunk(cur, p, i)
      BY <2>3
    <3>2. Candidate = S
      BY <1>5, <2>1, <2>2, <3>1 DEF Candidate
    <3>3. RunWorld("bad", S, o) /\ "bad" \in Bases
      BY <1>5, <3>2 DEF Bases
    <3>4. world'[WorldOf("bad", S)] = o
      BY <1>1, <3>3, RunAnswers
    <3>5. Refutes(S)'
      BY <1>1, <1>5, <3>4, RunRefutes
    <3> QED
      BY <3>1, <3>5
  <2>5. \A k \in 1..i : Refutes(cur \ Chunk(cur, p, k))'
    <3> SUFFICES ASSUME NEW k \in 1..i PROVE Refutes(cur \ Chunk(cur, p, k))'
      OBVIOUS
    <3>1. CASE k = i
      BY <2>4, <3>1
    <3>2. CASE k # i
      <4>1. k \in 1..(i - 1)
        BY <3>2
      <4>2. Refutes(cur \ Chunk(cur, p, k))
        BY <1>5, <2>1, <2>2, <4>1 DEF RefutedInv
      <4> QED
        BY <1>1, <2>3, <4>2, RefutesStays
    <3> QED
      BY <3>1, <3>2
  <2>6. CASE i < p
    <3>1. idx' = i + 1 /\ phase' = "complement" /\ current' = cur /\ n' = n
      BY <1>5, <2>1, <2>2, <2>6 DEF NextCandidate
    <3>2. Parts(current', n') = p /\ idx' - 1 = i
      BY <2>1, <3>1
    <3>3. \A k \in 1..(idx' - 1) : Refutes(current \ Chunk(current, Parts(current, n), k))'
      BY <2>5, <3>1, <3>2
    <3> QED
      BY <1>1, <3>1, <3>3 DEF RefutedInv, MinimalityAgrees
  <2>7. CASE ~(i < p) /\ n >= C
    <3>1. phase' = "reverse" /\ current' = cur /\ i = p /\ p = C
      BY <1>5, <2>1, <2>2, <2>7 DEF NextCandidate
    <3>2. ASSUME NEW x \in cur PROVE Refutes(cur \ {x})'
      <4>1. PICK k \in 1..C : Chunk(cur, C, k) = {x}
        BY <2>1, FinestChunks
      <4> QED
        BY <2>5, <3>1, <4>1
    <3>3. \A x \in current' : Refutes(current \ {x})'
      BY <3>1, <3>2
    <3> QED
      BY <1>1, <3>1, <3>3 DEF RefutedInv, MinimalityAgrees
  <2>8. CASE ~(i < p) /\ ~(n >= C)
    <3>1. phase' = "loop"
      BY <1>5, <2>1, <2>2, <2>8 DEF NextCandidate
    <3> QED
      BY <1>2, <3>1
  <2> QED
    BY <2>6, <2>7, <2>8
<1> QED
  BY <1>2, <1>3, <1>4, <1>5 DEF DDMinTest, Reduce, Unproven, Conclude

\* verifyMinimality runs only sets that have failed before: it finds no repair.
LEMMA RefutedMinimality ==
    ASSUME ~Flaky, EvidenceInv, AnswersInv, RefutedInv, Remembered, VerifyMinimality
    PROVE  RefutedInv'
<1> USE DEF captures
<1>1. /\ TypeOK /\ phase = "minimal" /\ todo # {} /\ UNCHANGED <<identical, current, n, idx, cancelled>>
      /\ UNCHANGED captures /\ phase' \in {"minimal", "save"}
  BY DEF VerifyMinimality, EvidenceInv, ddmin, Conclude, Unproven
<1>2. ~refuted
  BY DEF RefutedInv, MinimalityAgrees
<1>3. ASSUME current # {Omitted}, NEW o \in Outcomes, RunWorld("bad", current \ {Omitted}, o)
      PROVE  ~o.passed
  <2>1. PICK S \in SUBSET Factors, w \in Keys : S = current \ {Omitted} /\ w = WorldOf("bad", S)
    BY <1>1, TestedSets, WorldIsKey DEF Bases
  <2>2. world'[w] = o
    BY <1>1, <1>3, <2>1, RunAnswers DEF Bases
  <2>3. Omitted \in current
    BY <1>1, OmittedTodo
  <2>4. ~(Cardinality(current) < 2)
    <3>1. IsFiniteSet(current) /\ Cardinality(current) \in Nat
      BY <1>1, FactorSets, TestedSets
    <3>2. PICK x : x = Omitted
      OBVIOUS
    <3>3. PICK cur : cur = current /\ IsFiniteSet(cur) /\ x \in cur /\ cur # {x}
      BY <1>3, <2>3, <3>1, <3>2
    <3>4. Cardinality(cur) # 0 /\ Cardinality(cur) # 1
      BY <3>3, FS_EmptySet, FS_Singleton
    <3> QED
      BY <3>1, <3>3, <3>4
  <2>5. Refutes(S)
    BY <1>1, <2>1, <2>3, <2>4 DEF RefutedInv
  <2>6. world'[w] = world[w] /\ ~world[w].passed
    BY <2>1, <2>5 DEF Refutes, Remembered
  <2> QED
    BY <2>2, <2>6
<1>4. UNCHANGED refuted
  BY <1>3 DEF VerifyMinimality
<1> QED
  BY <1>1, <1>4, RefutedStays

\* Every step keeps the refutations.
LEMMA RefutedStep ==
    ASSUME ~Flaky, EvidenceInv, SplitInv, AnswersInv, RefutedInv, Remembered, UNCHANGED captures,
           [Next]_vars
    PROVE  RefutedInv'
<1>1. CASE phase' \notin {"complement", "reverse", "minimal"} /\ ~refuted'
  BY <1>1 DEF RefutedInv, MinimalityAgrees
<1>2. ~refuted
  BY DEF RefutedInv, MinimalityAgrees
<1>3. CASE DDMinLoop
  <2>1. CASE phase' = "reverse"
    <3>1. Cardinality(current') < 2 /\ ~refuted'
      BY <1>2, <1>3, <2>1 DEF DDMinLoop, Unproven, Conclude
    <3> QED
      BY <2>1, <3>1 DEF RefutedInv, MinimalityAgrees
  <2> QED
    BY <1>1, <1>2, <1>3, <2>1 DEF DDMinLoop, Unproven, Conclude
<1>4. CASE Reverse
  <2>1. /\ UNCHANGED <<current, n, idx, refuted>> /\ phase = "reverse"
        /\ phase' \in {"reverse", "minimal", "save"}
    BY <1>4 DEF Reverse, Unproven, Conclude, ddmin
  <2> QED
    BY <2>1, RefutedStays
<1>5. CASE (\E base \in Bases : VerifyBaseline(base)) \/ PlanSearch \/ Prove \/ Analyze \/ DDMinExhausted
  BY <1>1, <1>2, <1>5 DEF VerifyBaseline, Bases, PlanSearch, Prove, Analyze, DDMinExhausted, Unproven, Conclude
<1>6. CASE SaveAnalysis \/ AuditAnalysis \/ Crash
  BY <1>1, <1>2, <1>6 DEF SaveAnalysis, AuditAnalysis, Crash, Return
<1>7. CASE Cancel \/ Evict \/ UNCHANGED vars
  <2>1. UNCHANGED <<phase, current, n, idx, refuted>>
    BY <1>7 DEF Cancel, Evict, vars, ddmin
  <2> QED
    BY <2>1, RefutedStays
<1> QED
  BY <1>3, <1>4, <1>5, <1>6, <1>7, RefutedTest, RefutedMinimality DEF Next, Step

\* The cache is true to the worlds in every state.
LEMMA AnswersInvariant ==
    ASSUME ~Flaky, ~Cancellation
    PROVE  Spec => []AnswersInv
<1>1. Init => AnswersInv
  BY DEF Init, AnswersInv
<1>2. TypeOK /\ AnswersInv /\ [Next]_vars => AnswersInv'
  BY AnswersStep
<1> QED
  BY <1>1, <1>2, EngineTypes, PTL DEF Spec

\* With a command whose worlds always answer alike and a caller that does not
\* cancel, verifyMinimality never finds the smaller repair it looks for: for
\* every number of factors and repetitions, whatever was evicted, timed out,
\* failed or crashed in this analysis or an earlier one.
THEOREM SearchIsMinimal ==
    ASSUME ~Flaky, ~Cancellation
    PROVE  Spec => []MinimalityAgrees
<1>1. Init => RefutedInv
  BY DEF Init, RefutedInv, MinimalityAgrees
<1>2. EvidenceInv /\ SplitInv /\ AnswersInv /\ RefutedInv /\ [Next]_vars => RefutedInv'
  <2> SUFFICES ASSUME EvidenceInv, SplitInv, AnswersInv, RefutedInv, [Next]_vars PROVE RefutedInv'
    OBVIOUS
  <2>1. Remembered /\ UNCHANGED captures
    BY AnswersStep DEF EvidenceInv
  <2> QED
    BY <2>1, RefutedStep
<1>3. RefutedInv => MinimalityAgrees
  BY DEF RefutedInv
<1> QED
  BY <1>1, <1>2, <1>3, EvidenceInvariant, SplitInvariant, AnswersInvariant, PTL DEF Spec

-----------------------------------------------------------------------------
(* Analyze as a function of what the worlds answer.                        *)

\* What decides how an analysis goes on: its variables, without the record of
\* its runs and the history.
At(ph, r, u, d, m, v) ==
    [phase |-> ph, rep |-> r, used |-> u, search |-> d, checks |-> m, verdict |-> v]

Control == At(phase, rep, used, ddmin, minimal, verdict)

Verdicts == Statuses \X (SUBSET Factors)

Controls ==
    [phase : Working \union {"save"}, rep : Nat, used : Nat,
     search : (SUBSET Factors) \X Nat \X Nat \X Nat \X Nat,
     checks : (SUBSET Factors) \X Nat, verdict : Verdicts]

\* Its parts.
Set(c) == c.search[1]
Grain(c) == c.search[2]
Index(c) == c.search[3]
Tests(c) == c.search[4]
Budget(c) == c.search[5]
Left(c) == c.checks[1]
Checks(c) == c.checks[2]

\* Where every analysis begins.
NoVerdict == <<"UNPROVEN", {}>>
Start == At("good", 0, 0, <<{}, 2, 1, 0, 0>>, <<{}, 0>>, NoVerdict)

Ended(c, r, v) == At("save", c.rep, c.used + r, c.search, c.checks, v)

Again(c) == At(c.phase, c.rep + 1, c.used + 1, c.search, c.checks, c.verdict)

\* One step of Analyze in each phase, after a run that passed or did not.
AfterBaseline(c, passed) ==
    IF passed # (c.phase = "good") THEN Ended(c, 1, NoVerdict)
    ELSE IF c.rep + 1 < Repetitions THEN Again(c)
    ELSE At(IF c.phase = "good" THEN "bad" ELSE "plan", 0, c.used + 1, c.search, c.checks, c.verdict)

AfterPlan(F, c) ==
    IF F = {} \/ c.used >= MaxExperiments THEN Ended(c, 0, NoVerdict)
    ELSE At("loop", c.rep, c.used, <<F, 2, Index(c), 0, MaxExperiments - c.used>>,
            c.checks, c.verdict)

AfterLoop(c) ==
    IF Cardinality(Set(c)) < 2 THEN At("reverse", c.rep, c.used, c.search, c.checks, c.verdict)
    ELSE IF Tests(c) >= Budget(c) THEN Ended(c, 0, NoVerdict)
    ELSE At("chunk", c.rep, c.used, <<Set(c), Grain(c), 1, Tests(c), Budget(c)>>, c.checks, c.verdict)

Tested(c) ==
    LET chunk == Chunk(Set(c), Parts(Set(c), Grain(c)), Index(c))
    IN  IF c.phase = "chunk" THEN chunk ELSE Set(c) \ chunk

\* A candidate was run: DDMin's variables are s, g, i afterwards.
Moved(c, ph, r, s, g, i) ==
    At(ph, r, c.used + 1, <<s, g, i, IF c.rep = 0 THEN Tests(c) + 1 ELSE Tests(c), Budget(c)>>,
       c.checks, c.verdict)

AfterFailure(c) ==
    IF Index(c) < Parts(Set(c), Grain(c))
    THEN Moved(c, c.phase, 0, Set(c), Grain(c), Index(c) + 1)
    ELSE IF c.phase = "chunk" THEN Moved(c, "complement", 0, Set(c), Grain(c), 1)
    ELSE IF Grain(c) >= Cardinality(Set(c)) THEN Moved(c, "reverse", 0, Set(c), Grain(c), Index(c))
    ELSE Moved(c, "loop", 0, Set(c), Smaller(Cardinality(Set(c)), Grain(c) * 2), Index(c))

AfterTest(c, passed) ==
    IF c.rep = 0 /\ ~(Tests(c) < Budget(c)) THEN Ended(c, 0, NoVerdict)
    ELSE IF ~passed THEN AfterFailure(c)
    ELSE IF c.rep + 1 < Repetitions THEN Moved(c, c.phase, c.rep + 1, Set(c), Grain(c), Index(c))
    ELSE Moved(c, "loop", 0, Tested(c), Larger(2, Grain(c) - 1), Index(c))

AfterReverse(c, passed) ==
    IF c.rep = 0 /\ (Set(c) = {} \/ c.used + Repetitions > MaxExperiments)
    THEN Ended(c, 0, NoVerdict)
    ELSE IF passed THEN Ended(c, 1, <<"SUPPORTED", Set(c)>>)
    ELSE IF c.rep + 1 < Repetitions THEN Again(c)
    ELSE At("minimal", 0, c.used + 1, c.search, <<Set(c), Checks(c)>>, c.verdict)

First(c) == CHOOSE x \in Left(c) : \A y \in Left(c) : x <= y

AfterMinimality(c, passed) ==
    LET ran(ph, r, t, v) == At(ph, r, c.used + 1, c.search, <<t, Checks(c) + 1>>, v)
    IN  IF Left(c) = {} THEN Ended(c, 0, <<"PROVEN", Set(c)>>)
        ELSE IF c.rep = 0 /\ Checks(c) + Arguments >= MaxExperiments
        THEN Ended(c, 0, <<"SUPPORTED", Set(c)>>)
        ELSE IF Set(c) = {First(c)}
        THEN At("minimal", c.rep, c.used, c.search, <<Left(c) \ {First(c)}, Checks(c)>>, c.verdict)
        ELSE IF ~passed THEN ran("minimal", 0, Left(c) \ {First(c)}, c.verdict)
        ELSE IF c.rep + 1 < Repetitions THEN ran("minimal", c.rep + 1, Left(c), c.verdict)
        ELSE ran("save", c.rep, Left(c), <<"SUPPORTED", Set(c)>>)

\* The next step, when the captures differ in the factors F and the worlds answer V.
After(F, V, c) ==
    CASE c.phase \in Bases -> AfterBaseline(c, V[<<c.phase, {}>>])
      [] c.phase = "plan" -> AfterPlan(F, c)
      [] c.phase = "loop" -> AfterLoop(c)
      [] c.phase \in {"chunk", "complement"} -> AfterTest(c, V[<<"bad", Tested(c)>>])
      [] c.phase = "reverse" -> AfterReverse(c, V[<<"good", Set(c)>>])
      [] c.phase = "minimal" -> AfterMinimality(c, V[<<"bad", Set(c) \ {First(c)}>>])

\* V answers as the worlds have answered so far.
Agrees(V) ==
    \A base \in Bases, S \in SUBSET Factors :
       world[WorldOf(base, S)] # NoEntry => V[<<base, S>>] = world[WorldOf(base, S)].passed

\* G tells of every state the verdicts it leads to.
Foretells(F, V, G) ==
    /\ \A c \in Controls : c.phase = "save" => G[c] = {c.verdict}
    /\ \A c \in Controls : c.phase # "save" /\ After(F, V, c) \in Controls => G[c] = G[After(F, V, c)]

\* An idle engine has no analysis under way.
IdleInv ==
    phase = "idle" => At("good", rep, used, ddmin, minimal, verdict) = Start /\ ~failed

\* An analysis that met no execution error leads where Start led, and so did
\* every such analysis that was saved.
ForetoldInv ==
    \A V \in [Keys -> BOOLEAN], G \in [Controls -> SUBSET Verdicts] : Agrees(V) /\ Foretells(factors, V, G) =>
       /\ phase \notin {"idle", "audit"} /\ ~failed => G[Control] = G[Start]
       /\ \A a \in saved : ~a.failed => G[Start] = {<<a.status, a.causal>>}

\* What Foretells asks of G, for any process with states X that goes from c to
\* next[c] and ends in E.
Tells(X, Y, E, next, verdictOf, G) ==
    /\ G \in [X -> SUBSET Y]
    /\ \A c \in E : G[c] = {verdictOf[c]}
    /\ \A c \in X \ E : next[c] \in X => G[c] = G[next[c]]

\* A state of a deterministic process leads to one verdict at most, and the
\* next state leads to the same.
LEMMA Foretelling ==
    ASSUME NEW X, NEW Y, NEW E \in SUBSET X, NEW next, NEW verdictOf,
           \A c \in E : verdictOf[c] \in Y
    PROVE  \E G : Tells(X, Y, E, next, verdictOf, G)
<1> DEFINE Closed(v, P) == /\ \A c \in E : verdictOf[c] = v => c \in P
                           /\ \A c \in X \ E : next[c] \in P => c \in P
           Leads(v) == {c \in X : \A P \in SUBSET X : Closed(v, P) => c \in P}
           G == [c \in X |-> {v \in Y : c \in Leads(v)}]
<1>1. ASSUME NEW v PROVE Closed(v, Leads(v))
  <2>1. ASSUME NEW c \in E, verdictOf[c] = v PROVE c \in Leads(v)
    BY <2>1
  <2>2. ASSUME NEW c \in X \ E, next[c] \in Leads(v) PROVE c \in Leads(v)
    <3> SUFFICES ASSUME NEW P \in SUBSET X, Closed(v, P) PROVE c \in P
      OBVIOUS
    <3>1. next[c] \in P
      BY <2>2
    <3> QED
      BY <3>1
  <2> QED
    BY <2>1, <2>2
<1>2. ASSUME NEW v, NEW P \in SUBSET X, Closed(v, P) PROVE Leads(v) \in SUBSET P
  BY <1>2
<1>3. ASSUME NEW v, NEW c \in E, verdictOf[c] # v PROVE c \notin Leads(v)
  <2> DEFINE P == Leads(v) \ {c}
  <2>1. Leads(v) \in SUBSET X
    OBVIOUS
  <2> HIDE DEF Leads
  <2>2. Closed(v, P)
    BY <1>1, <1>3
  <2>3. P \in SUBSET X
    BY <2>1
  <2>4. Leads(v) \in SUBSET P
    BY <1>2, <2>2, <2>3
  <2> QED
    BY <2>4
<1>4. ASSUME NEW v, NEW c \in X \ E, next[c] \notin Leads(v) PROVE c \notin Leads(v)
  <2> DEFINE P == Leads(v) \ {c}
  <2>1. Leads(v) \in SUBSET X
    OBVIOUS
  <2> HIDE DEF Leads
  <2>2. Closed(v, P)
    BY <1>1, <1>4
  <2>3. P \in SUBSET X
    BY <2>1
  <2>4. Leads(v) \in SUBSET P
    BY <1>2, <2>2, <2>3
  <2> QED
    BY <2>4
<1> HIDE DEF Leads
<1>5. G \in [X -> SUBSET Y]
  OBVIOUS
<1>6. ASSUME NEW c \in E PROVE G[c] = {verdictOf[c]}
  <2>1. \A v \in Y : c \in Leads(v) <=> v = verdictOf[c]
    BY <1>1, <1>3
  <2> QED
    BY <2>1
<1>7. ASSUME NEW c \in X \ E, next[c] \in X PROVE G[c] = G[next[c]]
  <2>1. \A v \in Y : c \in Leads(v) <=> next[c] \in Leads(v)
    BY <1>1, <1>4
  <2>2. {v \in Y : c \in Leads(v)} = {v \in Y : next[c] \in Leads(v)}
    BY <2>1
  <2> QED
    BY <1>7, <2>2
<1>8. Tells(X, Y, E, next, verdictOf, G)
  BY <1>5, <1>6, <1>7 DEF Tells
<1> QED
  BY <1>8

\* The parts of the state of an analysis.
LEMMA ControlParts ==
    /\ Control.phase = phase /\ Control.rep = rep /\ Control.used = used
    /\ Control.search = ddmin /\ Control.checks = minimal /\ Control.verdict = verdict
    /\ Set(Control) = current /\ Grain(Control) = n /\ Index(Control) = idx
    /\ Tests(Control) = tests /\ Budget(Control) = budget
    /\ Left(Control) = todo /\ Checks(Control) = minUsed
  BY DEF Control, At, Set, Grain, Index, Tests, Budget, Left, Checks, ddmin, minimal, verdict

\* The next state, from its parts.
LEMMA NextControl ==
    ASSUME NEW ph, NEW r, NEW u, NEW d, NEW m, NEW v,
           phase' = ph, rep' = r, used' = u, ddmin' = d, minimal' = m, verdict' = v
    PROVE  Control' = At(ph, r, u, d, m, v)
<1>1. Control' = At(phase', rep', used', ddmin', minimal', verdict')
  BY DEF Control, At
<1> QED
  BY <1>1

\* A run shows what V answers.
LEMMA RunAgrees ==
    ASSUME ~Flaky, TypeOK, AnswersInv, UNCHANGED <<identical, cancelled>>,
           NEW base \in Bases, NEW S \in SUBSET Factors,
           NEW o \in Outcomes, RunWorld(base, S, o), NEW V, Agrees(V)'
    PROVE  o.passed = V[<<base, S>>] /\ used' = used + 1
<1>1. world'[WorldOf(base, S)] = o
  BY RunAnswers
<1>2. WorldOf(base, S)' = WorldOf(base, S)
  BY DEF WorldOf
<1> QED
  BY <1>1, <1>2, NoEntryApart DEF Agrees, RunWorld

\* Each action takes the step that After computes.
LEMMA BaselineFollows ==
    ASSUME ~Flaky, TypeOK, AnswersInv, NEW base \in Bases, VerifyBaseline(base), ~failed',
           NEW V, Agrees(V)'
    PROVE  Control' = After(factors, V, Control)
<1>1. /\ phase = base /\ UNCHANGED <<identical, cancelled, ddmin, minimal>>
  BY DEF VerifyBaseline, captures
<1>2. ~RunFails(base, {})
  BY DEF RunFails
<1>3. PICK o \in Outcomes :
        /\ RunWorld(base, {}, o)
        /\ IF o.passed # (base = "good")
           THEN Unproven /\ UNCHANGED rep
           ELSE /\ IF rep + 1 < Repetitions
                   THEN rep' = rep + 1 /\ UNCHANGED phase
                   ELSE /\ rep' = 0
                        /\ phase' = IF base = "good" THEN "bad" ELSE "plan"
                /\ UNCHANGED verdict
  BY <1>2 DEF VerifyBaseline
<1>4. PICK p : p = V[<<base, {}>>] /\ o.passed = p /\ used' = used + 1
  BY <1>1, <1>3, RunAgrees
<1>5. After(factors, V, Control) = AfterBaseline(Control, p)
  BY <1>1, <1>4, ControlParts DEF After, Bases
<1>6. CASE p # (base = "good")
  <2>1. AfterBaseline(Control, p) = At("save", rep, used + 1, ddmin, minimal, NoVerdict)
    BY <1>1, <1>6, ControlParts DEF AfterBaseline, Ended
  <2>2. phase' = "save" /\ rep' = rep /\ verdict' = NoVerdict
    BY <1>3, <1>4, <1>6 DEF Unproven, Conclude, NoVerdict, verdict
  <2> QED
    BY <1>1, <1>4, <1>5, <2>1, <2>2, NextControl
<1>7. CASE ~(p # (base = "good")) /\ rep + 1 < Repetitions
  <2>1. AfterBaseline(Control, p) = At(phase, rep + 1, used + 1, ddmin, minimal, verdict)
    BY <1>1, <1>7, ControlParts DEF AfterBaseline, Again
  <2> QED
    BY <1>1, <1>3, <1>4, <1>5, <1>7, <2>1, NextControl
<1>8. CASE ~(p # (base = "good")) /\ ~(rep + 1 < Repetitions)
  <2>1. AfterBaseline(Control, p) = At(IF phase = "good" THEN "bad" ELSE "plan", 0, used + 1, ddmin, minimal, verdict)
    BY <1>1, <1>8, ControlParts DEF AfterBaseline
  <2> QED
    BY <1>1, <1>3, <1>4, <1>5, <1>8, <2>1, NextControl
<1> QED
  BY <1>6, <1>7, <1>8

\* The checks before the search, as After sees them.
LEMMA PlanFollows ==
    ASSUME TypeOK, PlanSearch, NEW V
    PROVE  Control' = After(factors, V, Control)
<1>1. phase = "plan" /\ UNCHANGED <<rep, minimal, used>>
  BY DEF PlanSearch
<1>2. After(factors, V, Control) = AfterPlan(factors, Control)
  BY <1>1, ControlParts DEF After, Bases
<1>3. CASE factors = {} \/ used >= MaxExperiments
  <2>1. AfterPlan(factors, Control) = At("save", rep, used + 0, ddmin, minimal, NoVerdict)
    BY <1>3, ControlParts DEF AfterPlan, Ended
  <2>2. phase' = "save" /\ verdict' = NoVerdict /\ UNCHANGED ddmin /\ used' = used + 0
    BY <1>1, <1>3 DEF PlanSearch, Unproven, Conclude, NoVerdict, verdict, TypeOK
  <2> QED
    BY <1>1, <1>2, <2>1, <2>2, NextControl
<1>4. CASE ~(factors = {} \/ used >= MaxExperiments)
  <2>1. AfterPlan(factors, Control)
          = At("loop", rep, used, <<factors, 2, idx, 0, MaxExperiments - used>>, minimal, verdict)
    BY <1>4, ControlParts DEF AfterPlan
  <2>2. /\ phase' = "loop" /\ UNCHANGED verdict
        /\ ddmin' = <<factors, 2, idx, 0, MaxExperiments - used>>
    BY <1>4 DEF PlanSearch, ddmin
  <2> QED
    BY <1>1, <1>2, <2>1, <2>2, NextControl
<1> QED
  BY <1>3, <1>4

\* The head of DDMin's loop, as After sees it.
LEMMA LoopFollows ==
    ASSUME TypeOK, DDMinLoop, NEW V
    PROVE  Control' = After(factors, V, Control)
<1>1. phase = "loop" /\ UNCHANGED <<rep, minimal, used, current, n, tests, budget>>
  BY DEF DDMinLoop
<1>2. After(factors, V, Control) = AfterLoop(Control)
  BY <1>1, ControlParts DEF After, Bases
<1>3. CASE Cardinality(current) < 2
  <2>1. AfterLoop(Control) = At("reverse", rep, used, ddmin, minimal, verdict)
    BY <1>3, ControlParts DEF AfterLoop
  <2>2. phase' = "reverse" /\ UNCHANGED verdict /\ UNCHANGED ddmin
    BY <1>1, <1>3 DEF DDMinLoop, ddmin
  <2> QED
    BY <1>1, <1>2, <2>1, <2>2, NextControl
<1>4. CASE ~(Cardinality(current) < 2) /\ tests >= budget
  <2>1. AfterLoop(Control) = At("save", rep, used + 0, ddmin, minimal, NoVerdict)
    BY <1>4, ControlParts DEF AfterLoop, Ended
  <2>2. phase' = "save" /\ verdict' = NoVerdict /\ UNCHANGED ddmin /\ used' = used + 0
    BY <1>1, <1>4 DEF DDMinLoop, ddmin, Unproven, Conclude, NoVerdict, verdict, TypeOK
  <2> QED
    BY <1>1, <1>2, <2>1, <2>2, NextControl
<1>5. CASE ~(Cardinality(current) < 2) /\ ~(tests >= budget)
  <2>1. AfterLoop(Control) = At("chunk", rep, used, <<current, n, 1, tests, budget>>, minimal, verdict)
    BY <1>5, ControlParts DEF AfterLoop
  <2>2. phase' = "chunk" /\ UNCHANGED verdict /\ ddmin' = <<current, n, 1, tests, budget>>
    BY <1>1, <1>5 DEF DDMinLoop, ddmin
  <2> QED
    BY <1>1, <1>2, <2>1, <2>2, NextControl
<1> QED
  BY <1>3, <1>4, <1>5

\* DDMin's candidate, as After sees it.
LEMMA TestedIsCandidate == Tested(Control) = Candidate
  BY ControlParts DEF Tested, Candidate

\* An exhausted budget, as After sees it.
LEMMA ExhaustedFollows ==
    ASSUME TypeOK, DDMinExhausted, NEW V
    PROVE  Control' = After(factors, V, Control)
<1>1. /\ phase \in {"chunk", "complement"} /\ UNCHANGED <<rep, minimal, used, ddmin>>
      /\ rep = 0 /\ ~(tests < budget) /\ phase' = "save" /\ verdict' = NoVerdict
  BY DEF DDMinExhausted, BudgetLeft, Unproven, Conclude, NoVerdict, verdict
<1>2. PICK p : After(factors, V, Control) = AfterTest(Control, p)
  BY <1>1, ControlParts DEF After, Bases
<1>3. AfterTest(Control, p) = At("save", rep, used + 0, ddmin, minimal, NoVerdict)
  BY <1>1, ControlParts DEF AfterTest, Ended
<1>4. used' = used + 0
  BY <1>1 DEF TypeOK
<1> QED
  BY <1>1, <1>2, <1>3, <1>4, NextControl

\* A candidate's run, as After sees it.
LEMMA TestFollows ==
    ASSUME ~Flaky, TypeOK, AnswersInv, DDMinTest, ~failed', NEW V, Agrees(V)'
    PROVE  Control' = After(factors, V, Control)
<1>1. /\ phase \in {"chunk", "complement"} /\ UNCHANGED <<identical, cancelled, budget, minimal>>
      /\ tests' = IF rep = 0 THEN tests + 1 ELSE tests
      /\ ~(rep = 0 /\ ~(tests < budget))
  BY DEF DDMinTest, captures, BudgetLeft
<1>2. ~RunFails("bad", Candidate)
  BY DEF RunFails
<1>3. PICK o \in Outcomes :
        /\ RunWorld("bad", Candidate, o)
        /\ IF ~o.passed
           THEN NextCandidate /\ rep' = 0 /\ UNCHANGED current
           ELSE IF rep + 1 < Repetitions
                THEN rep' = rep + 1 /\ UNCHANGED <<phase, current, n, idx>>
                ELSE Reduce /\ rep' = 0
        /\ UNCHANGED verdict
  BY <1>2 DEF DDMinTest
<1>4. PICK p : p = V[<<"bad", Candidate>>] /\ o.passed = p /\ used' = used + 1
  BY <1>1, <1>3, RunAgrees, TestedSets DEF Bases
<1>5. After(factors, V, Control) = AfterTest(Control, p)
  BY <1>1, <1>4, ControlParts, TestedIsCandidate DEF After, Bases
<1>6. PICK t : t = (IF rep = 0 THEN tests + 1 ELSE tests)
  OBVIOUS
<1>7. ASSUME NEW ph, NEW r, NEW s, NEW g, NEW i
      PROVE  Moved(Control, ph, r, s, g, i) = At(ph, r, used + 1, <<s, g, i, t, budget>>, minimal, verdict)
  BY <1>6, ControlParts DEF Moved
<1>8. ASSUME NEW ph, NEW r, NEW s, NEW g, NEW i, phase' = ph, rep' = r, current' = s, n' = g, idx' = i
      PROVE  Control' = Moved(Control, ph, r, s, g, i)
  <2>1. ddmin' = <<s, g, i, t, budget>>
    BY <1>1, <1>6, <1>8 DEF ddmin
  <2>2. Control' = At(ph, r, used + 1, <<s, g, i, t, budget>>, minimal, verdict)
    BY <1>1, <1>3, <1>4, <1>8, <2>1, NextControl
  <2> QED
    BY <1>7, <2>2
<1>9. CASE ~p
  <2>0. AfterTest(Control, p) = AfterFailure(Control) /\ NextCandidate /\ rep' = 0 /\ current' = current
    BY <1>1, <1>3, <1>4, <1>9, ControlParts DEF AfterTest
  <2>1. CASE idx < Parts(current, n)
    <3>1. AfterFailure(Control) = Moved(Control, phase, 0, current, n, idx + 1)
      BY <2>1, ControlParts DEF AfterFailure
    <3>2. phase' = phase /\ n' = n /\ idx' = idx + 1
      BY <2>0, <2>1 DEF NextCandidate
    <3> QED
      BY <1>5, <1>8, <2>0, <3>1, <3>2
  <2>2. CASE ~(idx < Parts(current, n)) /\ phase = "chunk"
    <3>1. AfterFailure(Control) = Moved(Control, "complement", 0, current, n, 1)
      BY <2>2, ControlParts DEF AfterFailure
    <3>2. phase' = "complement" /\ n' = n /\ idx' = 1
      BY <2>0, <2>2 DEF NextCandidate
    <3> QED
      BY <1>5, <1>8, <2>0, <3>1, <3>2
  <2>3. CASE ~(idx < Parts(current, n)) /\ phase # "chunk" /\ n >= Cardinality(current)
    <3>1. AfterFailure(Control) = Moved(Control, "reverse", 0, current, n, idx)
      BY <2>3, ControlParts DEF AfterFailure
    <3>2. phase' = "reverse" /\ n' = n /\ idx' = idx
      BY <2>0, <2>3 DEF NextCandidate
    <3> QED
      BY <1>5, <1>8, <2>0, <3>1, <3>2
  <2>4. CASE ~(idx < Parts(current, n)) /\ phase # "chunk" /\ ~(n >= Cardinality(current))
    <3>1. AfterFailure(Control) = Moved(Control, "loop", 0, current, Smaller(Cardinality(current), n * 2), idx)
      BY <2>4, ControlParts DEF AfterFailure
    <3>2. phase' = "loop" /\ n' = Smaller(Cardinality(current), n * 2) /\ idx' = idx
      BY <2>0, <2>4 DEF NextCandidate
    <3> QED
      BY <1>5, <1>8, <2>0, <3>1, <3>2
  <2> QED
    BY <2>1, <2>2, <2>3, <2>4
<1>10. CASE p /\ rep + 1 < Repetitions
  <2>1. AfterTest(Control, p) = Moved(Control, phase, rep + 1, current, n, idx)
    BY <1>1, <1>10, ControlParts DEF AfterTest
  <2> QED
    BY <1>3, <1>4, <1>5, <1>8, <1>10, <2>1
<1>11. CASE p /\ ~(rep + 1 < Repetitions)
  <2>1. AfterTest(Control, p) = Moved(Control, "loop", 0, Candidate, Larger(2, n - 1), idx)
    BY <1>1, <1>11, ControlParts, TestedIsCandidate DEF AfterTest
  <2>2. Reduce /\ rep' = 0
    BY <1>3, <1>4, <1>11
  <2> QED
    BY <1>5, <1>8, <2>1, <2>2 DEF Reduce
<1> QED
  BY <1>9, <1>10, <1>11

\* The opposite intervention, as After sees it.
LEMMA ReverseFollows ==
    ASSUME ~Flaky, TypeOK, AnswersInv, Reverse, ~failed', NEW V, Agrees(V)'
    PROVE  Control' = After(factors, V, Control)
<1>1. /\ phase = "reverse" /\ UNCHANGED <<identical, cancelled, ddmin, minUsed>>
  BY DEF Reverse, captures
<1>2. ~RunFails("good", current)
  BY DEF RunFails
<1>3. PICK p : p = V[<<"good", current>>]
  OBVIOUS
<1>4. After(factors, V, Control) = AfterReverse(Control, p)
  BY <1>1, <1>3, ControlParts DEF After, Bases
<1>5. CASE rep = 0 /\ (current = {} \/ used + Repetitions > MaxExperiments)
  <2>1. AfterReverse(Control, p) = At("save", rep, used + 0, ddmin, minimal, NoVerdict)
    BY <1>5, ControlParts DEF AfterReverse, Ended
  <2>2. Unproven /\ UNCHANGED <<rep, todo, used>>
    BY <1>5 DEF Reverse
  <2>3. phase' = "save" /\ verdict' = NoVerdict /\ minimal' = minimal /\ used' = used + 0 /\ rep' = rep
    BY <1>1, <2>2 DEF Unproven, Conclude, NoVerdict, verdict, minimal, TypeOK
  <2> QED
    BY <1>1, <1>4, <2>1, <2>3, NextControl
<1>6. CASE ~(rep = 0 /\ (current = {} \/ used + Repetitions > MaxExperiments))
  <2>1. PICK o \in Outcomes :
          /\ RunWorld("good", current, o)
          /\ IF o.passed
             THEN Conclude("SUPPORTED", current) /\ UNCHANGED <<rep, todo>>
             ELSE /\ IF rep + 1 < Repetitions
                     THEN rep' = rep + 1 /\ UNCHANGED <<phase, todo>>
                     ELSE rep' = 0 /\ phase' = "minimal" /\ todo' = current
                  /\ UNCHANGED verdict
    BY <1>2, <1>6 DEF Reverse
  <2>2. o.passed = p /\ used' = used + 1
    BY <1>1, <1>3, <2>1, RunAgrees, TestedSets DEF Bases
  <2>3. CASE p
    <3>1. AfterReverse(Control, p) = At("save", rep, used + 1, ddmin, minimal, <<"SUPPORTED", current>>)
      BY <1>6, <2>3, ControlParts DEF AfterReverse, Ended
    <3>2. phase' = "save" /\ verdict' = <<"SUPPORTED", current>> /\ minimal' = minimal /\ rep' = rep
      BY <1>1, <2>1, <2>2, <2>3 DEF Conclude, verdict, minimal
    <3> QED
      BY <1>1, <1>4, <2>2, <3>1, <3>2, NextControl
  <2>4. CASE ~p /\ rep + 1 < Repetitions
    <3>1. AfterReverse(Control, p) = At(phase, rep + 1, used + 1, ddmin, minimal, verdict)
      BY <1>6, <2>4, ControlParts DEF AfterReverse, Again
    <3>2. phase' = phase /\ verdict' = verdict /\ minimal' = minimal /\ rep' = rep + 1
      BY <1>1, <2>1, <2>2, <2>4 DEF minimal
    <3> QED
      BY <1>1, <1>4, <2>2, <3>1, <3>2, NextControl
  <2>5. CASE ~p /\ ~(rep + 1 < Repetitions)
    <3>1. AfterReverse(Control, p) = At("minimal", 0, used + 1, ddmin, <<current, minUsed>>, verdict)
      BY <1>6, <2>5, ControlParts DEF AfterReverse
    <3>2. phase' = "minimal" /\ verdict' = verdict /\ minimal' = <<current, minUsed>> /\ rep' = 0
      BY <1>1, <2>1, <2>2, <2>5 DEF minimal
    <3> QED
      BY <1>1, <1>4, <2>2, <3>1, <3>2, NextControl
  <2> QED
    BY <2>3, <2>4, <2>5
<1> QED
  BY <1>5, <1>6

\* Nothing left to omit, as After sees it.
LEMMA ProveFollows ==
    ASSUME TypeOK, Prove, NEW V
    PROVE  Control' = After(factors, V, Control)
<1>1. /\ phase = "minimal" /\ todo = {} /\ UNCHANGED <<rep, minimal, used, ddmin>>
      /\ phase' = "save" /\ verdict' = <<"PROVEN", current>> /\ used' = used + 0
  BY DEF Prove, Conclude, verdict, TypeOK
<1>2. PICK p : After(factors, V, Control) = AfterMinimality(Control, p)
  BY <1>1, ControlParts DEF After, Bases
<1>3. AfterMinimality(Control, p) = At("save", rep, used + 0, ddmin, minimal, <<"PROVEN", current>>)
  BY <1>1, ControlParts DEF AfterMinimality, Ended
<1> QED
  BY <1>1, <1>2, <1>3, NextControl

\* The factor verifyMinimality leaves out, as After sees it.
LEMMA FirstIsOmitted == First(Control) = Omitted
  BY ControlParts DEF First, Omitted

\* The run without a factor, as After sees it.
LEMMA MinimalityFollows ==
    ASSUME ~Flaky, TypeOK, AnswersInv, VerifyMinimality, ~failed', NEW V, Agrees(V)'
    PROVE  Control' = After(factors, V, Control)
<1>1. /\ phase = "minimal" /\ todo # {} /\ UNCHANGED <<identical, cancelled, ddmin>>
  BY DEF VerifyMinimality, captures
<1>2. ~RunFails("bad", current \ {Omitted})
  BY DEF RunFails
<1>3. PICK p : p = V[<<"bad", current \ {Omitted}>>]
  OBVIOUS
<1>4. After(factors, V, Control) = AfterMinimality(Control, p)
  BY <1>1, <1>3, ControlParts, FirstIsOmitted DEF After, Bases
<1>5. CASE MinimalityExhausted
  <2>1. AfterMinimality(Control, p) = At("save", rep, used + 0, ddmin, minimal, <<"SUPPORTED", current>>)
    BY <1>1, <1>5, ControlParts DEF AfterMinimality, MinimalityExhausted, Ended
  <2>2. /\ phase' = "save" /\ verdict' = <<"SUPPORTED", current>> /\ minimal' = minimal
        /\ used' = used + 0 /\ rep' = rep
    BY <1>1, <1>5 DEF VerifyMinimality, Conclude, verdict, minimal, TypeOK
  <2> QED
    BY <1>1, <1>4, <2>1, <2>2, NextControl
<1>6. CASE ~MinimalityExhausted /\ current = {Omitted}
  <2>1. AfterMinimality(Control, p) = At("minimal", rep, used, ddmin, <<todo \ {Omitted}, minUsed>>, verdict)
    BY <1>1, <1>6, ControlParts, FirstIsOmitted DEF AfterMinimality, MinimalityExhausted
  <2>2. /\ phase' = "minimal" /\ verdict' = verdict /\ minimal' = <<todo \ {Omitted}, minUsed>>
        /\ used' = used /\ rep' = rep
    BY <1>1, <1>6 DEF VerifyMinimality, OmitNext, minimal
  <2> QED
    BY <1>1, <1>4, <2>1, <2>2, NextControl
<1>7. CASE ~MinimalityExhausted /\ current # {Omitted}
  <2>1. PICK o \in Outcomes :
          /\ RunWorld("bad", current \ {Omitted}, o)
          /\ IF ~o.passed
             THEN /\ rep' = 0
                  /\ OmitNext
                  /\ UNCHANGED <<phase, verdict, refuted>>
             ELSE IF rep + 1 < Repetitions
             THEN rep' = rep + 1 /\ UNCHANGED <<phase, todo, verdict, refuted>>
             ELSE /\ Conclude("SUPPORTED", current)
                  /\ refuted' = TRUE
                  /\ UNCHANGED <<rep, todo>>
    BY <1>2, <1>7 DEF VerifyMinimality
  <2>2. o.passed = p /\ used' = used + 1 /\ minUsed' = minUsed + 1
    BY <1>1, <1>3, <1>7, <2>1, RunAgrees, TestedSets DEF Bases, VerifyMinimality
  <2>3. CASE ~p
    <3>1. AfterMinimality(Control, p)
            = At("minimal", 0, used + 1, ddmin, <<todo \ {Omitted}, minUsed + 1>>, verdict)
      BY <1>1, <1>7, <2>3, ControlParts, FirstIsOmitted DEF AfterMinimality, MinimalityExhausted
    <3>2. /\ phase' = "minimal" /\ verdict' = verdict /\ rep' = 0
          /\ minimal' = <<todo \ {Omitted}, minUsed + 1>>
      BY <1>1, <2>1, <2>2, <2>3 DEF minimal, OmitNext
    <3> QED
      BY <1>1, <1>4, <2>2, <3>1, <3>2, NextControl
  <2>4. CASE p /\ rep + 1 < Repetitions
    <3>1. AfterMinimality(Control, p)
            = At("minimal", rep + 1, used + 1, ddmin, <<todo, minUsed + 1>>, verdict)
      BY <1>1, <1>7, <2>4, ControlParts, FirstIsOmitted DEF AfterMinimality, MinimalityExhausted
    <3>2. /\ phase' = "minimal" /\ verdict' = verdict /\ rep' = rep + 1
          /\ minimal' = <<todo, minUsed + 1>>
      BY <1>1, <2>1, <2>2, <2>4 DEF minimal
    <3> QED
      BY <1>1, <1>4, <2>2, <3>1, <3>2, NextControl
  <2>5. CASE p /\ ~(rep + 1 < Repetitions)
    <3>1. AfterMinimality(Control, p)
            = At("save", rep, used + 1, ddmin, <<todo, minUsed + 1>>, <<"SUPPORTED", current>>)
      BY <1>1, <1>7, <2>5, ControlParts, FirstIsOmitted DEF AfterMinimality, MinimalityExhausted
    <3>2. /\ phase' = "save" /\ verdict' = <<"SUPPORTED", current>> /\ rep' = rep
          /\ minimal' = <<todo, minUsed + 1>>
      BY <1>1, <2>1, <2>2, <2>5 DEF minimal, Conclude, verdict
    <3> QED
      BY <1>1, <1>4, <2>2, <3>1, <3>2, NextControl
  <2> QED
    BY <2>3, <2>4, <2>5
<1> QED
  BY <1>5, <1>6, <1>7

\* The state of an analysis under way is one of those After works on.
LEMMA ControlTyped == TypeOK /\ phase \notin {"idle", "audit"} => Control \in Controls
<1> SUFFICES ASSUME TypeOK, phase \notin {"idle", "audit"} PROVE Control \in Controls
  OBVIOUS
<1>1. phase \in Working \union {"save"} /\ current \in SUBSET Factors /\ todo \in SUBSET Factors
  BY DEF TypeOK, Working
<1>2. ddmin \in (SUBSET Factors) \X Nat \X Nat \X Nat \X Nat
  BY <1>1 DEF TypeOK, ddmin
<1>3. minimal \in (SUBSET Factors) \X Nat /\ verdict \in Verdicts
  BY <1>1 DEF TypeOK, minimal, verdict, Verdicts
<1> QED
  BY <1>1, <1>2, <1>3 DEF TypeOK, Control, At, Controls

\* After a return nothing of the analysis is left.
LEMMA IdleStep ==
    ASSUME IdleInv, TypeOK, [Next]_vars
    PROVE  IdleInv'
<1>1. CASE phase' # "idle"
  BY <1>1 DEF IdleInv
<1>2. CASE Return
  <2>1. ddmin' = <<{}, 2, 1, 0, 0>> /\ minimal' = <<{}, 0>> /\ verdict' = NoVerdict
    BY <1>2 DEF Return, ddmin, minimal, verdict, NoVerdict
  <2>2. rep' = 0 /\ used' = 0 /\ ~failed'
    BY <1>2 DEF Return
  <2> QED
    BY <2>1, <2>2 DEF IdleInv, Start
<1>3. CASE UNCHANGED <<phase, rep, used, ddmin, minimal, verdict, failed>>
  BY <1>3 DEF IdleInv
<1>4. CASE (\E base \in Bases : VerifyBaseline(base)) \/ PlanSearch \/ Prove \/ Analyze \/ DDMinExhausted \/ DDMinLoop
  BY <1>1, <1>4 DEF VerifyBaseline, Bases, PlanSearch, Prove, Analyze, DDMinExhausted, DDMinLoop, Unproven, Conclude
<1>5. CASE DDMinTest \/ Reverse \/ VerifyMinimality
  BY <1>1, <1>5 DEF DDMinTest, Reverse, VerifyMinimality, Unproven, Conclude, NextCandidate, Reduce
<1>6. CASE SaveAnalysis \/ AuditAnalysis \/ Crash
  BY <1>1, <1>2, <1>6 DEF SaveAnalysis, AuditAnalysis, Crash
<1>7. CASE Cancel \/ Evict \/ UNCHANGED vars
  BY <1>3, <1>7 DEF Cancel, Evict, vars
<1> QED
  BY <1>4, <1>5, <1>6, <1>7 DEF Next, Step

\* The steps of Analyze up to its save.
Searching ==
    \/ \E base \in Bases : VerifyBaseline(base)
    \/ PlanSearch \/ DDMinLoop \/ DDMinExhausted \/ DDMinTest
    \/ Reverse \/ VerifyMinimality \/ Prove

\* Every step up to the save is After's, unless a run produced no result.
LEMMA SearchingFollows ==
    ASSUME ~Flaky, TypeOK, AnswersInv, Searching, ~failed', NEW V, Agrees(V)'
    PROVE  /\ Control' = After(factors, V, Control)
           /\ phase \in Working /\ phase' \notin {"idle", "audit"} /\ ~failed /\ saved' = saved
<1>1. Control' = After(factors, V, Control)
  BY BaselineFollows, PlanFollows, LoopFollows, ExhaustedFollows, TestFollows, ReverseFollows,
     MinimalityFollows, ProveFollows DEF Searching
<1>2. ASSUME NEW base, NEW S, (\E o \in Outcomes : RunWorld(base, S, o)) \/ RunFails(base, S)
      PROVE  ~failed
  BY <1>2 DEF RunWorld, RunFails
<1>3. ~failed
  BY <1>2 DEF Searching, VerifyBaseline, PlanSearch, DDMinLoop, DDMinExhausted, DDMinTest,
     Reverse, VerifyMinimality, Prove
<1>4. saved' = saved
  BY DEF Searching, VerifyBaseline, PlanSearch, DDMinLoop, DDMinExhausted, DDMinTest,
     Reverse, VerifyMinimality, Prove, durable
<1>5. phase \in Working
  BY DEF Searching, VerifyBaseline, Bases, PlanSearch, DDMinLoop, DDMinExhausted, DDMinTest,
     Reverse, VerifyMinimality, Prove, Working, Phases
<1>6. phase' \notin {"idle", "audit"}
  <2>1. CASE phase' = phase
    BY <1>5, <2>1 DEF Working
  <2>2. CASE phase' = "save"
    BY <2>2
  <2>3. CASE (\E base \in Bases : VerifyBaseline(base)) \/ PlanSearch \/ DDMinLoop \/ Reverse
    BY <2>1, <2>2, <2>3 DEF VerifyBaseline, PlanSearch, DDMinLoop, Reverse, Unproven, Conclude
  <2>4. CASE DDMinExhausted \/ VerifyMinimality \/ Prove
    BY <2>1, <2>2, <2>4 DEF DDMinExhausted, VerifyMinimality, Prove, Unproven, Conclude
  <2>5. CASE DDMinTest
    BY <2>1, <2>2, <2>5 DEF DDMinTest, Unproven, Conclude, NextCandidate, Reduce
  <2> QED
    BY <2>3, <2>4, <2>5 DEF Searching
<1> QED
  BY <1>1, <1>3, <1>4, <1>5, <1>6

\* The worlds only add answers, so a V that agrees with them later agrees now.
LEMMA AgreesBefore ==
    ASSUME Remembered, UNCHANGED identical, NEW V, Agrees(V)'
    PROVE  Agrees(V)
<1> SUFFICES ASSUME NEW base \in Bases, NEW S \in SUBSET Factors, world[WorldOf(base, S)] # NoEntry
             PROVE  V[<<base, S>>] = world[WorldOf(base, S)].passed
  BY DEF Agrees
<1>1. WorldOf(base, S)' = WorldOf(base, S) /\ WorldOf(base, S) \in Keys
  BY WorldIsKey DEF WorldOf
<1>2. world'[WorldOf(base, S)] = world[WorldOf(base, S)]
  BY <1>1 DEF Remembered
<1> QED
  BY <1>1, <1>2 DEF Agrees

\* A step leads where the state before it led; a saved verdict is where it led.
LEMMA ForetoldStep ==
    ASSUME ~Flaky, ~Cancellation, TypeOK, TypeOK', AnswersInv, IdleInv, ForetoldInv, [Next]_vars
    PROVE  ForetoldInv'
<1>0. Remembered /\ UNCHANGED captures /\ UNCHANGED identical /\ UNCHANGED factors
  BY AnswersStep DEF captures
<1> SUFFICES ASSUME NEW V \in [Keys -> BOOLEAN], NEW G \in [Controls -> SUBSET Verdicts],
                    Agrees(V)', Foretells(factors, V, G)
             PROVE  /\ phase' \notin {"idle", "audit"} /\ ~failed' => G[Control'] = G[Start]
                    /\ \A a \in saved' : ~a.failed => G[Start] = {<<a.status, a.causal>>}
  BY <1>0 DEF ForetoldInv
<1>1. Agrees(V)
  BY <1>0, AgreesBefore
<1>2. /\ phase \notin {"idle", "audit"} /\ ~failed => G[Control] = G[Start]
      /\ \A a \in saved : ~a.failed => G[Start] = {<<a.status, a.causal>>}
  BY <1>1 DEF ForetoldInv
<1>3. CASE Searching
  <2>1. CASE failed'
    <3>1. saved' = saved
      BY <1>3 DEF Searching, VerifyBaseline, PlanSearch, DDMinLoop, DDMinExhausted, DDMinTest,
         Reverse, VerifyMinimality, Prove, durable
    <3> QED
      BY <1>2, <2>1, <3>1
  <2>2. CASE ~failed'
    <3>1. /\ Control' = After(factors, V, Control)
          /\ phase \in Working /\ phase' \notin {"idle", "audit"} /\ ~failed /\ saved' = saved
      BY <1>3, <2>2, SearchingFollows
    <3>2. Control \in Controls /\ Control.phase # "save"
      BY <3>1, ControlTyped, ControlParts DEF Working, Phases
    <3>3. Control' \in Controls
      <4>1. (TypeOK /\ phase \notin {"idle", "audit"} => Control \in Controls)'
        BY ControlTyped, PTL
      <4> QED
        BY <3>1, <4>1
    <3>4. G[Control] = G[Control']
      BY <3>1, <3>2, <3>3 DEF Foretells
    <3>5. G[Control] = G[Start]
      BY <1>2, <3>1 DEF Working
    <3> QED
      BY <1>2, <3>1, <3>4, <3>5
  <2> QED
    BY <2>1, <2>2
<1>4. CASE Analyze
  <2>1. UNCHANGED <<rep, used, ddmin, minimal, verdict, saved>> /\ phase = "idle"
    BY <1>4 DEF Analyze, durable
  <2>2. phase' = "good"
    <3>1. Cancellation = FALSE
      BY EngineAssumption
    <3>2. cancelled' = FALSE
      BY <1>4, <3>1, Zenon DEF Analyze
    <3> QED
      BY <1>4, <3>2 DEF Analyze
  <2>3. Control' = At("good", rep, used, ddmin, minimal, verdict)
    BY <2>1, <2>2, NextControl
  <2>4. Control' = Start
    BY <2>1, <2>3 DEF IdleInv
  <2> QED
    BY <1>2, <2>1, <2>4
<1>5. CASE SaveAnalysis
  <2>1. phase = "save" /\ phase' \in {"audit", "idle"}
    BY <1>5 DEF SaveAnalysis, Return
  <2>2. ~failed => G[Start] = {<<status, causal>>}
    <3>1. Control \in Controls /\ Control.phase = "save" /\ Control.verdict = <<status, causal>>
      BY <2>1, ControlTyped, ControlParts DEF verdict
    <3>2. G[Control] = {<<status, causal>>}
      BY <3>1 DEF Foretells
    <3> QED
      BY <1>2, <2>1, <3>2
  <2>3. \A a \in saved' : a \in saved \/ a = [status |-> status, causal |-> causal, failed |-> failed]
    BY <1>5 DEF SaveAnalysis
  <2> QED
    BY <1>2, <2>1, <2>2, <2>3
<1>6. CASE AuditAnalysis \/ Crash
  BY <1>2, <1>6 DEF AuditAnalysis, Crash, Return, durable
<1>7. CASE Cancel \/ Evict \/ UNCHANGED vars
  <2>1. UNCHANGED <<phase, rep, used, ddmin, minimal, verdict, failed, saved>>
    BY <1>7 DEF Cancel, Evict, vars, durable
  <2>2. Control' = Control
    BY <2>1 DEF Control
  <2> QED
    BY <1>2, <2>1, <2>2
<1> QED
  BY <1>3, <1>4, <1>5, <1>6, <1>7 DEF Next, Step, Searching

\* There is a V that agrees with the worlds, and a G that foretells its verdicts.
LEMMA ForetoldAgree ==
    ASSUME TypeOK, ForetoldInv
    PROVE  AnalysesAgree
<1>1. PICK V \in [Keys -> BOOLEAN] : Agrees(V)
  <2> DEFINE W == [key \in Keys |-> world[WorldOf(key[1], key[2])] # NoEntry
                                    /\ world[WorldOf(key[1], key[2])].passed]
  <2>1. W \in [Keys -> BOOLEAN]
    OBVIOUS
  <2>2. ASSUME NEW base \in Bases, NEW S \in SUBSET Factors, world[WorldOf(base, S)] # NoEntry
        PROVE  W[<<base, S>>] = world[WorldOf(base, S)].passed
    <3>1. <<base, S>> \in Keys /\ WorldOf(base, S) \in Keys
      BY WorldIsKey DEF Keys
    <3>2. world[WorldOf(base, S)].passed \in BOOLEAN
      BY <2>2, <3>1 DEF TypeOK, Outcomes
    <3> QED
      BY <2>2, <3>1, <3>2
  <2> QED
    BY <2>1, <2>2 DEF Agrees
<1>2. PICK G \in [Controls -> SUBSET Verdicts] : Foretells(factors, V, G)
  <2>1. PICK X, Y, E, next, verdictOf :
          /\ X = Controls /\ Y = Verdicts /\ E = {c \in Controls : c.phase = "save"}
          /\ next = [c \in Controls |-> After(factors, V, c)]
          /\ verdictOf = [c \in Controls |-> c.verdict]
    OBVIOUS
  <2>2. E \in SUBSET X /\ \A c \in E : verdictOf[c] \in Y
    BY <2>1 DEF Controls
  <2>3. PICK G : Tells(X, Y, E, next, verdictOf, G)
    BY <2>2, Foretelling
  <2>4. Foretells(factors, V, G)
    BY <2>1, <2>3 DEF Foretells, Tells
  <2> QED
    BY <2>1, <2>3, <2>4 DEF Tells
<1>3. \A a \in saved : ~a.failed => G[Start] = {<<a.status, a.causal>>}
  BY <1>1, <1>2 DEF ForetoldInv
<1>4. ASSUME NEW a \in saved, NEW b \in saved, ~a.failed, ~b.failed
      PROVE  a.status = b.status /\ a.causal = b.causal
  <2>1. {<<a.status, a.causal>>} = {<<b.status, b.causal>>}
    BY <1>3, <1>4
  <2>2. <<a.status, a.causal>> = <<b.status, b.causal>>
    BY <2>1
  <2> QED
    BY <2>2
<1> QED
  BY <1>4 DEF AnalysesAgree

\* With a command whose worlds always answer alike and a caller that does not
\* cancel, any two analyses without an execution error save the same verdict
\* and the same factors, for every number of factors, repetitions, experiments
\* and calls, whatever the experiment cache held, lost or failed to store, and
\* wherever the process died in between.
THEOREM VerdictsAgree ==
    ASSUME ~Flaky, ~Cancellation
    PROVE  Spec => []AnalysesAgree
<1>1. Init => IdleInv /\ ForetoldInv
  BY DEF Init, IdleInv, ForetoldInv, Start, NoVerdict, ddmin, minimal, verdict
<1>2. TypeOK /\ IdleInv /\ [Next]_vars => IdleInv'
  BY IdleStep
<1>3. TypeOK /\ TypeOK' /\ AnswersInv /\ IdleInv /\ ForetoldInv /\ [Next]_vars => ForetoldInv'
  BY ForetoldStep
<1>4. TypeOK /\ ForetoldInv => AnalysesAgree
  BY ForetoldAgree
<1> QED
  BY <1>1, <1>2, <1>3, <1>4, EngineTypes, AnswersInvariant, PTL DEF Spec
=============================================================================
