----------------------------- MODULE WorldsProof -----------------------------
(***************************************************************************)
(* What Worlds promises, for trees of any number of paths, any number of   *)
(* variables and factors, and any order of the factors' identifiers.       *)
(*                                                                         *)
(* The state invariant is simple: captures are scans, factors are          *)
(* differences, a run is what runWorld makes of them.  The work is in the  *)
(* loops over Apply.  ApplyAll is a recursive function; it is shown to     *)
(* exist (BuiltExists), so it goes through its paths one by one, and what  *)
(* it has built after i of them is then found by induction on i: a part of *)
(* the manifest for Materialize, a mixture of both captures for plain      *)
(* factors, and a tree that differs from the base in bounded places only   *)
(* for any factors.                                                        *)
(***************************************************************************)
EXTENDS Worlds, TLAPS, FiniteSetTheorems, SequenceTheorems, WellFoundedInduction

-----------------------------------------------------------------------------
(* Induction.                                                              *)

\* A set of naturals has a least element: what takes the place of induction.
LEMMA LeastElement ==
    ASSUME NEW T \in SUBSET Nat, T # {}
    PROVE  \E x \in T : \A y \in T : x <= y
<1>1. IsWellFoundedOn(OpToRel(<, Nat), Nat)
  BY NatLessThanWellFounded
<1>2. \E x \in T : \A y \in T : ~(<<y, x>> \in OpToRel(<, Nat))
  BY <1>1, WFMin
<1>3. PICK x \in T : \A y \in T : ~(<<y, x>> \in OpToRel(<, Nat))
  BY <1>2
<1>4. \A y \in T : ~(y < x)
  BY <1>3 DEF OpToRel
<1> QED
  BY <1>4

\* Induction from 0 up to n, for a set.
LEMMA UpTo ==
    ASSUME NEW T, NEW n \in Nat, 0 \in T,
           \A k \in 1..n : k - 1 \in T => k \in T
    PROVE  \A k \in 0..n : k \in T
<1> DEFINE Wrong == {k \in 0..n : k \notin T}
<1> SUFFICES ASSUME Wrong # {} PROVE FALSE
  OBVIOUS
<1>1. Wrong \in SUBSET Nat
  OBVIOUS
<1>2. PICK k \in Wrong : \A j \in Wrong : k <= j
  BY <1>1, LeastElement
<1>3. k \in 1..n /\ k \notin T
  BY <1>2
<1>4. k - 1 \notin T /\ k - 1 \in 0..n
  BY <1>3
<1> QED
  BY <1>2, <1>3, <1>4

-----------------------------------------------------------------------------
(* The loops over Apply.                                                   *)

\* The tree after one more path.
One(t, p, S, entries) == IF p \in S THEN Apply(t, p, entries[p]) ELSE t

\* The equation that built satisfies, up to k.
IsBuilt(b, k, tree, order, S, entries) ==
    b = [i \in 0..k |-> IF i = 0 THEN tree
                        ELSE IF order[i] \in S THEN Apply(b[i - 1], order[i], entries[order[i]])
                             ELSE b[i - 1]]

\* ApplyAll goes through the paths one by one: the recursive function it is
\* defined by exists.
LEMMA BuiltExists ==
    ASSUME NEW tree, NEW order, NEW n \in Nat, NEW S, NEW entries
    PROVE  \E b : IsBuilt(b, n, tree, order, S, entries)
<1> DEFINE T == {k \in 0..n : \E b : IsBuilt(b, k, tree, order, S, entries)}
<1>1. 0 \in T
  <2>1. IsBuilt([i \in 0..0 |-> tree], 0, tree, order, S, entries)
    BY DEF IsBuilt
  <2> QED
    BY <2>1
<1>2. ASSUME NEW k \in 1..n, k - 1 \in T PROVE k \in T
  <2>1. PICK b : IsBuilt(b, k - 1, tree, order, S, entries)
    BY <1>2
  <2> DEFINE c == [i \in 0..k |-> IF i = k THEN One(b[k - 1], order[k], S, entries) ELSE b[i]]
  <2>2. \A i \in 0..(k - 1) : c[i] = b[i]
    OBVIOUS
  <2>3. c[k] = IF order[k] \in S THEN Apply(c[k - 1], order[k], entries[order[k]]) ELSE c[k - 1]
    BY <2>2 DEF One
  <2>4. ASSUME NEW i \in 0..(k - 1)
        PROVE  c[i] = IF i = 0 THEN tree
                      ELSE IF order[i] \in S THEN Apply(c[i - 1], order[i], entries[order[i]])
                           ELSE c[i - 1]
    <3>1. b[i] = IF i = 0 THEN tree
                 ELSE IF order[i] \in S THEN Apply(b[i - 1], order[i], entries[order[i]])
                      ELSE b[i - 1]
      BY <2>1 DEF IsBuilt
    <3>2. i # 0 => c[i - 1] = b[i - 1]
      BY <2>2
    <3> QED
      BY <2>2, <3>1, <3>2
  <2>5. ASSUME NEW i \in 0..k
        PROVE  c[i] = IF i = 0 THEN tree
                      ELSE IF order[i] \in S THEN Apply(c[i - 1], order[i], entries[order[i]])
                           ELSE c[i - 1]
    <3> HIDE DEF c
    <3>1. CASE i = k
      BY <1>2, <2>3, <3>1
    <3>2. CASE i # k
      BY <2>4, <3>2
    <3> QED
      BY <3>1, <3>2
  <2>6. IsBuilt(c, k, tree, order, S, entries)
    <3>1. c = [i \in 0..k |-> c[i]]
      OBVIOUS
    <3> HIDE DEF c
    <3>2. [i \in 0..k |-> c[i]]
            = [i \in 0..k |-> IF i = 0 THEN tree
                 ELSE IF order[i] \in S THEN Apply(c[i - 1], order[i], entries[order[i]])
                      ELSE c[i - 1]]
      BY <2>5, Zenon
    <3> QED
      BY <3>1, <3>2, Zenon DEF IsBuilt
  <2> QED
    BY <2>6
<1>3. \A k \in 0..n : k \in T
  <2> HIDE DEF T
  <2> QED
    BY <1>1, <1>2, UpTo
<1> QED
  BY <1>3

\* b[i] is the tree after i paths, and the last one is the result.
Builds(b, n, tree, order, S, entries) ==
    /\ b[0] = tree
    /\ \A i \in 1..n : b[i] = One(b[i - 1], order[i], S, entries)
    /\ ApplyAll(tree, order, S, entries) = b[n]

\* So there is a sequence of trees that it goes through.
LEMMA ApplyAllSteps ==
    ASSUME NEW tree, NEW order, NEW n \in Nat, n = Len(order), NEW S, NEW entries
    PROVE  \E b : Builds(b, n, tree, order, S, entries)
<1>1. PICK b : b = CHOOSE c : IsBuilt(c, n, tree, order, S, entries)
  OBVIOUS
<1>2. IsBuilt(b, n, tree, order, S, entries)
  BY <1>1, BuiltExists, Zenon
<1>3. ApplyAll(tree, order, S, entries) = b[n]
  BY <1>1, Zenon DEF ApplyAll, IsBuilt
<1>4. b[0] = tree /\ \A i \in 1..n : b[i] = One(b[i - 1], order[i], S, entries)
  BY <1>2 DEF IsBuilt, One
<1> QED
  BY <1>3, <1>4 DEF Builds

-----------------------------------------------------------------------------
(* Paths.                                                                  *)

\* A path has one or two names, its directory is a path, and it is none of
\* the places outside the tree.
LEMMA PathFacts ==
    ASSUME NEW p \in Paths
    PROVE  /\ Len(p) = 1 \/ Len(p) = 2
           /\ Top(p) \in Paths /\ Len(Top(p)) = 1
           /\ p # Missing /\ p # Dangling /\ p # NotDir
  BY WorldsAssumption DEF Top

\* The paths are those Materialize goes through.
LEMMA PathIndex ==
    /\ Len(PathOrder) \in Nat
    /\ \A i \in 1..Len(PathOrder) : PathOrder[i] \in Paths
    /\ \A p \in Paths : \E i \in 1..Len(PathOrder) : PathOrder[i] = p
<1>1. PathOrder \in Seq(Seq(STRING)) /\ Paths = {PathOrder[i] : i \in DOMAIN PathOrder}
  BY WorldsAssumption, Zenon DEF Paths, Range
<1>2. Len(PathOrder) \in Nat /\ DOMAIN PathOrder = 1..Len(PathOrder)
  BY <1>1
<1> QED
  BY <1>1, <1>2

\* A shorter path comes first.
LEMMA ShorterFirst ==
    ASSUME NEW i \in 1..Len(PathOrder), NEW j \in 1..Len(PathOrder),
           Len(PathOrder[i]) = 1, Len(PathOrder[j]) = 2
    PROVE  i < j
<1> SUFFICES ASSUME ~(i < j) PROVE FALSE
  OBVIOUS
<1>1. i # j
  OBVIOUS
<1>2. j < i
  BY <1>1, PathIndex
<1>3. Len(PathOrder[j]) <= Len(PathOrder[i])
  BY <1>2, WorldsAssumption
<1> QED
  BY <1>3

-----------------------------------------------------------------------------
(* One Apply.                                                              *)

\* An entry whose directory is there is applied at its own path.
LEMMA WhereItself ==
    ASSUME NEW t, NEW p \in Paths, Len(p) = 1 \/ t[Top(p)].type = "dir"
    PROVE  Where(t, p) = p
  BY DEF Where

\* There it replaces what was, or is refused.
LEMMA ApplyThere ==
    ASSUME NEW t, t # None, NEW p \in Paths, Len(p) = 1 \/ t[Top(p)].type = "dir", NEW e
    PROVE  Apply(t, p, e) = IF Supported(e) THEN [Removed(t, p) EXCEPT ![p] = e] ELSE None
<1>1. Where(t, p) = p /\ p # Missing /\ p # Dangling /\ p # NotDir
  BY WhereItself, PathFacts
<1> QED
  BY <1>1, Zenon DEF Apply, Failed

\* After an error nothing is applied.
LEMMA ApplyFailed ==
    ASSUME NEW p, NEW e
    PROVE  Apply(None, p, e) = None
<1>1. NotDir # Missing /\ NotDir # Dangling /\ NotDir \notin Paths
  BY PathFacts DEF NotDir, Missing, Dangling
<1> QED
  BY <1>1, Zenon DEF Apply, Failed

\* The whole loop.
LEMMA ApplyAllFailed ==
    ASSUME NEW order, Len(order) \in Nat, NEW S, NEW entries
    PROVE  ApplyAll(None, order, S, entries) = None
<1>1. PICK n \in Nat : n = Len(order)
  OBVIOUS
<1>2. PICK b : Builds(b, n, None, order, S, entries)
  BY <1>1, ApplyAllSteps
<1> DEFINE T == {i \in 0..n : b[i] = None}
<1>3. 0 \in T
  BY <1>2 DEF Builds
<1>4. ASSUME NEW i \in 1..n, i - 1 \in T PROVE i \in T
  BY <1>2, <1>4, ApplyFailed DEF One, Builds
<1>5. \A i \in 0..n : i \in T
  <2> HIDE DEF T
  <2> QED
    BY <1>3, <1>4, UpTo
<1> QED
  BY <1>2, <1>5 DEF Builds

\* A loop over nothing.
LEMMA ApplyAllNone ==
    ASSUME NEW tree, NEW order, Len(order) \in Nat, NEW entries
    PROVE  ApplyAll(tree, order, {}, entries) = tree
<1>1. PICK n \in Nat : n = Len(order)
  OBVIOUS
<1>2. PICK b : Builds(b, n, tree, order, {}, entries)
  BY <1>1, ApplyAllSteps
<1> DEFINE T == {i \in 0..n : b[i] = tree}
<1>3. 0 \in T
  BY <1>2 DEF Builds
<1>4. ASSUME NEW i \in 1..n, i - 1 \in T PROVE i \in T
  BY <1>2, <1>4 DEF One, Builds
<1>5. \A i \in 0..n : i \in T
  <2> HIDE DEF T
  <2> QED
    BY <1>3, <1>4, UpTo
<1> QED
  BY <1>2, <1>5 DEF Builds

-----------------------------------------------------------------------------
(* Materialize.                                                            *)

\* A manifest: what can be built is what can be on disk.
Manifest(m) ==
    /\ m \in [Paths -> {m[p] : p \in Paths}]
    /\ IsTree(m)
    /\ \A p \in Paths : Supported(m[p]) => m[p] \in Things

\* The first i paths of the manifest.
Part(m, i) == [p \in Paths |-> IF \E j \in 1..i : PathOrder[j] = p THEN m[p] ELSE Absent]

AllSupported(m, i) == \A j \in 1..i : Supported(m[PathOrder[j]])

\* Nothing is something that can be applied.
LEMMA AbsentFacts == Supported(Absent) /\ Absent \in Things
<1>1. Absent.type = "absent"
  BY DEF Absent
<1>2. Supported(Absent)
  BY <1>1 DEF Supported
<1>3. Absent \in Things
  BY DEF Things
<1> QED
  BY <1>2, <1>3

\* What has been built of a manifest is a tree and not the error.
LEMMA PartIsTree ==
    ASSUME NEW m, Manifest(m), NEW i \in 0..Len(PathOrder), AllSupported(m, i)
    PROVE  Part(m, i) \in [Paths -> Things] /\ Part(m, i) # None
<1>1. ASSUME NEW p \in Paths PROVE Part(m, i)[p] \in Things
  <2>1. CASE \E j \in 1..i : PathOrder[j] = p
    <3>1. PICK j \in 1..i : PathOrder[j] = p
      BY <2>1
    <3>2. Supported(m[p])
      BY <3>1 DEF AllSupported
    <3> QED
      BY <2>1, <3>2 DEF Part, Manifest
  <2>2. CASE ~ \E j \in 1..i : PathOrder[j] = p
    BY <2>2, AbsentFacts DEF Part
  <2> QED
    BY <2>1, <2>2
<1>2. Part(m, i) = [p \in Paths |-> Part(m, i)[p]]
  BY DEF Part
<1>3. Part(m, i) \in [Paths -> Things]
  BY <1>1, <1>2
<1> QED
  BY <1>3, WorldsAssumption

\* One entry more.  Its directory, if it is in one, was made before, and what is
\* in it comes later.
LEMMA PartStep ==
    ASSUME NEW m, Manifest(m), NEW i \in 1..Len(PathOrder), AllSupported(m, i - 1)
    PROVE  One(Part(m, i - 1), PathOrder[i], Present(m), m)
             = IF Supported(m[PathOrder[i]]) THEN Part(m, i) ELSE None
<1>1. PICK p \in Paths : p = PathOrder[i]
  BY PathIndex
<1>2. i - 1 \in 0..Len(PathOrder) /\ i \in Nat
  BY PathIndex
<1>3. ASSUME NEW q \in Paths, q # p
      PROVE  Part(m, i)[q] = Part(m, i - 1)[q]
  <2>1. (\E j \in 1..i : PathOrder[j] = q) <=> (\E j \in 1..(i - 1) : PathOrder[j] = q)
    BY <1>1, <1>2, <1>3
  <2> QED
    BY <2>1 DEF Part
<1>4. Part(m, i)[p] = m[p]
  BY <1>1, <1>2 DEF Part
<1>5. CASE m[p] = Absent
  <2>1. Part(m, i - 1)[p] = Absent
    BY <1>5 DEF Part
  <2>2. \A q \in Paths : Part(m, i)[q] = Part(m, i - 1)[q]
    BY <1>3, <1>4, <1>5, <2>1
  <2>3. Part(m, i) = Part(m, i - 1)
    BY <2>2 DEF Part
  <2>4. p \notin Present(m)
    BY <1>5 DEF Present
  <2> QED
    BY <1>1, <1>5, <2>3, <2>4, AbsentFacts DEF One
<1>6. CASE m[p] # Absent
  <2>1. Len(p) = 1 \/ Part(m, i - 1)[Top(p)].type = "dir"
    <3> SUFFICES ASSUME Len(p) = 2 PROVE Part(m, i - 1)[Top(p)].type = "dir"
      BY PathFacts
    <3>1. m[Top(p)].type = "dir"
      BY <1>6 DEF Manifest, IsTree
    <3>2. PICK j \in 1..Len(PathOrder) : PathOrder[j] = Top(p)
      BY PathFacts, PathIndex
    <3>3. j < i
      BY <1>1, <3>2, PathFacts, ShorterFirst
    <3>4. j \in 1..(i - 1)
      BY <1>2, <3>3
    <3> QED
      BY <3>1, <3>2, <3>4, PathFacts DEF Part
  <2>2. Apply(Part(m, i - 1), p, m[p])
          = IF Supported(m[p]) THEN [Removed(Part(m, i - 1), p) EXCEPT ![p] = m[p]] ELSE None
    BY <1>2, <2>1, PartIsTree, ApplyThere
  <2>3. ASSUME NEW q \in Paths, q # p PROVE Removed(Part(m, i - 1), p)[q] = Part(m, i - 1)[q]
    <3>1. CASE ~Below(p, q)
      BY <2>3, <3>1 DEF Removed
    <3>2. CASE Below(p, q)
      <4>1. Len(q) = 2 /\ Len(p) = 1
        BY <3>2, PathFacts DEF Below
      <4>2. ~ \E j \in 1..(i - 1) : PathOrder[j] = q
        <5> SUFFICES ASSUME NEW j \in 1..(i - 1), PathOrder[j] = q PROVE FALSE
          OBVIOUS
        <5>1. j \in 1..Len(PathOrder) /\ ~(i < j)
          BY <1>2
        <5> QED
          BY <1>1, <4>1, <5>1, ShorterFirst
      <4> QED
        BY <3>2, <4>2 DEF Removed, Part
    <3> QED
      BY <3>1, <3>2
  <2>4. [Removed(Part(m, i - 1), p) EXCEPT ![p] = m[p]] = Part(m, i)
    <3>1. \A q \in Paths : [Removed(Part(m, i - 1), p) EXCEPT ![p] = m[p]][q] = Part(m, i)[q]
      BY <1>3, <1>4, <2>3 DEF Removed
    <3> QED
      BY <3>1 DEF Removed, Part
  <2>5. p \in Present(m)
    BY <1>6 DEF Present
  <2> QED
    BY <1>1, <2>2, <2>4, <2>5 DEF One
<1> QED
  BY <1>5, <1>6

\* Materialize rebuilds a manifest of supported entries and refuses another.
LEMMA Materialized ==
    ASSUME NEW m, Manifest(m)
    PROVE  Materialize(m) = IF \A p \in Paths : Supported(m[p]) THEN m ELSE None
<1>1. PICK n \in Nat : n = Len(PathOrder)
  BY PathIndex
<1>2. PICK b : Builds(b, n, EmptyTree, PathOrder, Present(m), m)
  BY <1>1, ApplyAllSteps
<1> DEFINE T == {i \in 0..n : b[i] = IF AllSupported(m, i) THEN Part(m, i) ELSE None}
<1>3. 0 \in T
  <2>1. b[0] = EmptyTree
    BY <1>2 DEF Builds
  <2>2. Part(m, 0) = EmptyTree
    BY DEF Part, EmptyTree
  <2>3. AllSupported(m, 0)
    BY DEF AllSupported
  <2> QED
    BY <2>1, <2>2, <2>3
<1>4. ASSUME NEW i \in 1..n, i - 1 \in T PROVE i \in T
  <2>1. b[i] = One(b[i - 1], PathOrder[i], Present(m), m)
    BY <1>2 DEF Builds
  <2>2. b[i - 1] = IF AllSupported(m, i - 1) THEN Part(m, i - 1) ELSE None
    BY <1>4
  <2>3. AllSupported(m, i) <=> AllSupported(m, i - 1) /\ Supported(m[PathOrder[i]])
    <3>1. 1..i = 1..(i - 1) \union {i}
      OBVIOUS
    <3> QED
      BY <3>1 DEF AllSupported
  <2>4. CASE AllSupported(m, i - 1)
    BY <1>1, <2>1, <2>2, <2>3, <2>4, PartStep
  <2>5. CASE ~AllSupported(m, i - 1)
    <3>1. b[i] = None
      BY <2>1, <2>2, <2>5, ApplyFailed DEF One
    <3> QED
      BY <2>3, <2>5, <3>1
  <2> QED
    BY <2>4, <2>5
<1>5. \A i \in 0..n : i \in T
  <2> HIDE DEF T
  <2> QED
    BY <1>3, <1>4, UpTo
<1>6. Materialize(m) = IF AllSupported(m, n) THEN Part(m, n) ELSE None
  BY <1>2, <1>5 DEF Builds, Materialize
<1>7. AllSupported(m, n) <=> \A p \in Paths : Supported(m[p])
  BY <1>1, PathIndex DEF AllSupported
<1>8. Part(m, n) = m
  <2>1. \A p \in Paths : Part(m, n)[p] = m[p]
    BY <1>1, PathIndex DEF Part
  <2> QED
    BY <2>1 DEF Part, Manifest
<1> QED
  BY <1>6, <1>7, <1>8

-----------------------------------------------------------------------------
(* An intervention.                                                        *)

\* A path that can be replaced without touching another.
Alone(from, to, p) ==
    /\ from[p].type # "dir" /\ to[p].type # "dir"
    /\ Len(p) = 2 => from[Top(p)].type = "dir"

\* from with the paths of S replaced as far as the first i factors name them.
Mix(from, to, S, order, i) ==
    [p \in Paths |-> IF p \in S /\ \E j \in 1..i : order[j] = p THEN to[p] ELSE from[p]]

\* What is applied: supported entries that replace nothing but themselves.
Intervention(from, to, S) ==
    /\ from \in [Paths -> Things] /\ IsTree(from)
    /\ S \subseteq Paths
    /\ \A p \in S : /\ Alone(from, to, p)
                    /\ Supported(to[p]) /\ to[p] \in Things

\* What an intervention has made of the base is a tree and not the error.
LEMMA MixIsTree ==
    ASSUME NEW from, NEW to, NEW S, Intervention(from, to, S), NEW order, NEW i
    PROVE  Mix(from, to, S, order, i) \in [Paths -> Things] /\ Mix(from, to, S, order, i) # None
<1>1. \A p \in Paths : Mix(from, to, S, order, i)[p] \in Things
  BY DEF Mix, Intervention
<1>2. Mix(from, to, S, order, i) = [p \in Paths |-> Mix(from, to, S, order, i)[p]]
  BY DEF Mix
<1>3. Mix(from, to, S, order, i) \in [Paths -> Things]
  BY <1>1, <1>2
<1> QED
  BY <1>3, WorldsAssumption

\* The directory of a factor stays, and a factor has nothing below it.
LEMMA MixStep ==
    ASSUME NEW from, NEW to, NEW S, Intervention(from, to, S), NEW order, NEW i \in Nat \ {0}
    PROVE  One(Mix(from, to, S, order, i - 1), order[i], S, to) = Mix(from, to, S, order, i)
<1>1. PICK p : p = order[i]
  OBVIOUS
<1>2. PICK t : t = Mix(from, to, S, order, i - 1)
  OBVIOUS
<1>3. ASSUME NEW q \in Paths, q # p \/ q \notin S
      PROVE  Mix(from, to, S, order, i)[q] = t[q]
  <2>1. CASE q \notin S
    BY <1>2, <2>1 DEF Mix
  <2>2. CASE q # p
    <3>1. (\E j \in 1..i : order[j] = q) <=> (\E j \in 1..(i - 1) : order[j] = q)
      BY <1>1, <2>2
    <3> QED
      BY <1>2, <3>1 DEF Mix
  <2> QED
    BY <1>3, <2>1, <2>2
<1>4. CASE p \notin S
  <2>1. \A q \in Paths : Mix(from, to, S, order, i)[q] = t[q]
    BY <1>3, <1>4
  <2>2. Mix(from, to, S, order, i) = t
    BY <1>2, <2>1 DEF Mix
  <2> QED
    BY <1>1, <1>2, <1>4, <2>2 DEF One
<1>5. CASE p \in S
  <2>1. p \in Paths /\ Alone(from, to, p) /\ Supported(to[p])
    BY <1>5 DEF Intervention
  <2>2. Len(p) = 1 \/ t[Top(p)].type = "dir"
    <3> SUFFICES ASSUME Len(p) = 2 PROVE t[Top(p)].type = "dir"
      BY <2>1, PathFacts
    <3>1. from[Top(p)].type = "dir" /\ Top(p) \in Paths
      BY <2>1, PathFacts DEF Alone
    <3>2. Top(p) \notin S
      BY <3>1 DEF Intervention, Alone
    <3> QED
      BY <1>2, <3>1, <3>2 DEF Mix
  <2>3. t # None
    BY <1>2, MixIsTree
  <2>4. Apply(t, p, to[p]) = [Removed(t, p) EXCEPT ![p] = to[p]]
    BY <2>1, <2>2, <2>3, ApplyThere
  <2>5. ASSUME NEW q \in Paths, q # p PROVE Removed(t, p)[q] = t[q]
    <3>1. CASE ~Below(p, q)
      BY <2>5, <3>1 DEF Removed
    <3>2. CASE Below(p, q)
      <4>1. Len(q) = 2 /\ Top(q) = p
        BY <3>2 DEF Below
      <4>2. from[p].type # "dir"
        BY <2>1 DEF Alone
      <4>3. from[q] = Absent
        BY <4>1, <4>2 DEF Intervention, IsTree
      <4>4. q \notin S
        BY <4>1, <4>2 DEF Intervention, Alone
      <4>5. t[q] = Absent
        BY <1>2, <4>3, <4>4 DEF Mix
      <4> QED
        BY <3>2, <4>5 DEF Removed
    <3> QED
      BY <3>1, <3>2
  <2>6. Mix(from, to, S, order, i)[p] = to[p]
    BY <1>1, <1>5, <2>1 DEF Mix
  <2>7. [Removed(t, p) EXCEPT ![p] = to[p]] = Mix(from, to, S, order, i)
    <3>1. \A q \in Paths : [Removed(t, p) EXCEPT ![p] = to[p]][q] = Mix(from, to, S, order, i)[q]
      BY <1>3, <2>5, <2>6 DEF Removed
    <3> QED
      BY <3>1 DEF Removed, Mix
  <2> QED
    BY <1>1, <1>2, <1>5, <2>4, <2>7 DEF One
<1> QED
  BY <1>4, <1>5

\* All of the factors of S, whatever their order.
LEMMA Intervened ==
    ASSUME NEW from, NEW to, NEW S, Intervention(from, to, S),
           NEW order, Len(order) \in Nat, \A p \in S : \E j \in 1..Len(order) : order[j] = p
    PROVE  ApplyAll(from, order, S, to) = [p \in Paths |-> IF p \in S THEN to[p] ELSE from[p]]
<1>1. PICK n \in Nat : n = Len(order)
  OBVIOUS
<1>2. PICK b : Builds(b, n, from, order, S, to)
  BY <1>1, ApplyAllSteps
<1> DEFINE T == {i \in 0..n : b[i] = Mix(from, to, S, order, i)}
<1>3. 0 \in T
  <2>1. \A p \in Paths : Mix(from, to, S, order, 0)[p] = from[p]
    BY DEF Mix
  <2>2. Mix(from, to, S, order, 0) = from
    BY <2>1 DEF Mix, Intervention
  <2> QED
    BY <1>2, <2>2 DEF Builds
<1>4. ASSUME NEW i \in 1..n, i - 1 \in T PROVE i \in T
  BY <1>2, <1>4, MixStep DEF Builds
<1>5. \A i \in 0..n : i \in T
  <2> HIDE DEF T
  <2> QED
    BY <1>3, <1>4, UpTo
<1>6. Mix(from, to, S, order, n) = [p \in Paths |-> IF p \in S THEN to[p] ELSE from[p]]
  <2>1. \A p \in Paths : (p \in S /\ \E j \in 1..n : order[j] = p) <=> p \in S
    BY <1>1
  <2> QED
    BY <2>1 DEF Mix
<1> QED
  BY <1>2, <1>5, <1>6 DEF Builds

-----------------------------------------------------------------------------
(* The invariant.                                                          *)

\* A capture is what the scan, the redaction and the oracle made of the disk.
CaptureInv ==
    /\ disk \in [Sides -> Trees] /\ DOMAIN capture = Sides
    /\ \A s \in Sides : capture[s] # None =>
         /\ capture[s].tree = Scan(disk[s])
         /\ capture[s].env = Environment(environ[s])
         /\ capture[s].bound => capture[s].passed = EvaluateManifest(Scan(disk[s]))
         /\ ~capture[s].bound => capture[s].passed = Evaluate(disk[s])

\* Factors are differences that can be intervened on: all of them, unless a
\* boundary says otherwise.
FactorInv ==
    boundaries # {} =>
      /\ \A s \in Sides : capture[s] # None
      /\ Len(factors) \in Nat /\ DOMAIN factors = 1..Len(factors)
      /\ Range(factors) \subseteq EnvFactors \union TreeFactors
      /\ boundaries = {"compared"} =>
           /\ EnvFactors \union TreeFactors \subseteq Range(factors)
           /\ \A v \in Variables : EnvDiffers(v) => v \in EnvFactors
           /\ \A p \in Paths : TreeDiffers(p) => p \in TreeFactors

\* A run is the base with the selected factors.
RunInv ==
    /\ boundaries = {} => run = None
    /\ run # None =>
         /\ run.base \in Sides /\ run.selected \subseteq Range(factors)
         /\ run.tree = ApplyTree(Materialize(From.tree), run.selected, Other(run.base))
         /\ run.env = ApplyEnv(From.env, run.selected, Other(run.base))
         /\ run.passed = (run.tree # Failed /\ Evaluate(run.tree))

WorldsInv == CaptureInv /\ FactorInv /\ RunInv

\* The differences are finitely many.
LEMMA FiniteFactors ==
    ASSUME NEW V \in SUBSET Variables, NEW P \in SUBSET Paths
    PROVE  /\ IsFiniteSet(V) /\ Cardinality(V) \in Nat
           /\ IsFiniteSet(P) /\ Cardinality(P) \in Nat
<1>1. IsFiniteSet(V)
  BY WorldsAssumption, FS_Subset
<1>2. IsFiniteSet(Paths)
  <2>1. IsFiniteSet(1..Len(PathOrder))
    BY PathIndex, FS_Interval
  <2>2. PathOrder \in Surjection(1..Len(PathOrder), Paths)
    <3>1. PathOrder \in [1..Len(PathOrder) -> Paths]
      BY PathIndex, WorldsAssumption
    <3> QED
      BY <3>1, PathIndex DEF Surjection
  <2> QED
    BY <2>1, <2>2, FS_Surjection
<1>3. IsFiniteSet(P)
  BY <1>2, FS_Subset
<1> QED
  BY <1>1, <1>3, FS_CardinalityType

\* The list of the factors as Compare keeps it.
Kept(e, t) == SubSeq(e \o t, 1, IF Len(e \o t) > MaxFactors THEN MaxFactors ELSE Len(e \o t))

FactorList(f, E, P) ==
    /\ Len(f) \in Nat /\ DOMAIN f = 1..Len(f)
    /\ Range(f) \subseteq E \union P
    /\ Cardinality(E) + Cardinality(P) <= MaxFactors => E \union P \subseteq Range(f)

\* It names factors only, and within the limit it names all of them.
LEMMA OrderedFactors ==
    ASSUME NEW E, NEW P, Cardinality(E) \in Nat, Cardinality(P) \in Nat,
           NEW e \in Orders(E), NEW t \in Orders(P)
    PROVE  FactorList(Kept(e, t), E, P)
<1>0. PICK f : f = Kept(e, t)
  OBVIOUS
<1>1. PICK a \in Nat : a = Cardinality(E)
  OBVIOUS
<1>2. PICK c \in Nat : c = Cardinality(P)
  OBVIOUS
<1>3. e \in [1..a -> E] /\ t \in [1..c -> P]
  BY <1>1, <1>2 DEF Orders
<1>4. (\A x \in E : \E i \in 1..a : e[i] = x) /\ (\A x \in P : \E i \in 1..c : t[i] = x)
  BY <1>1, <1>2, <1>3 DEF Orders, Range
<1>5. e \in Seq(E) /\ Len(e) = a /\ t \in Seq(P) /\ Len(t) = c
  BY <1>3
<1>6. PICK q : q = e \o t
  OBVIOUS
<1>7. /\ q \in Seq(E \union P) /\ Len(q) = a + c
      /\ \A i \in 1..a : q[i] = e[i]
      /\ \A i \in 1..c : q[a + i] = t[i]
  <2>1. PICK U : U = E \union P
    OBVIOUS
  <2>2. e \in Seq(U) /\ t \in Seq(U)
    BY <1>5, <2>1
  <2>3. q \in Seq(U)
    BY ONLY <1>6, <2>2
  <2>4. Len(q) = a + c
    <3>1. Len(e \o t) = Len(e) + Len(t)
      BY <2>2, ConcatProperties
    <3> QED
      BY <1>5, <1>6, <3>1, Zenon
  <2>5. \A i \in 1..a : q[i] = e[i]
    BY ONLY <1>5, <1>6, <2>2, a \in Nat, c \in Nat
  <2>6. \A i \in 1..c : q[a + i] = t[i]
    BY ONLY <1>5, <1>6, <2>2, a \in Nat, c \in Nat
  <2> QED
    BY <2>1, <2>3, <2>4, <2>5, <2>6
<1>8. PICK k \in Nat : k = (IF Len(q) > MaxFactors THEN MaxFactors ELSE Len(q)) /\ k <= Len(q)
  BY <1>7, WorldsAssumption
<1>9. f = SubSeq(q, 1, k)
  BY <1>0, <1>6, <1>8 DEF Kept
<1>10. f \in Seq(E \union P) /\ Len(f) = k /\ \A i \in 1..k : f[i] = q[i]
  BY <1>7, <1>8, <1>9
<1>11. DOMAIN f = 1..k /\ \A i \in 1..k : f[i] \in E \union P
  BY <1>10
<1>12. Range(f) = {f[i] : i \in 1..k}
  BY <1>11 DEF Range
<1>13. ASSUME Cardinality(E) + Cardinality(P) <= MaxFactors
       PROVE  E \union P \subseteq Range(f)
  <2>1. k = a + c
    BY <1>1, <1>2, <1>7, <1>8, <1>13, WorldsAssumption
  <2>2. ASSUME NEW x \in E PROVE x \in Range(f)
    <3>1. PICK i \in 1..a : e[i] = x
      BY <1>4
    <3>2. i \in 1..k /\ f[i] = x
      BY <1>7, <1>10, <2>1, <3>1
    <3> QED
      BY <1>12, <3>2
  <2>3. ASSUME NEW x \in P PROVE x \in Range(f)
    <3>1. PICK i \in 1..c : t[i] = x
      BY <1>4
    <3>2. a + i \in 1..k /\ f[a + i] = x
      BY <1>7, <1>10, <2>1, <3>1
    <3> QED
      BY <1>12, <3>2
  <2> QED
    BY <2>2, <2>3
<1> QED
  BY <1>0, <1>10, <1>11, <1>12, <1>13 DEF FactorList

-----------------------------------------------------------------------------
(* Every step keeps the invariant.                                         *)

\* It holds initially: there is nothing to say yet.
LEMMA InitInv == Init => WorldsInv
<1> SUFFICES ASSUME Init PROVE WorldsInv
  OBVIOUS
<1>1. CaptureInv
  BY DEF Init, CaptureInv
<1>2. FactorInv /\ RunInv
  BY DEF Init, FactorInv, RunInv
<1> QED
  BY <1>1, <1>2 DEF WorldsInv

\* A capture is made before the comparison.
LEMMA CapturedInv ==
    ASSUME WorldsInv, NEW s \in Sides, NEW bound, NEW passed, Captured(s, bound, passed),
           bound => passed = EvaluateManifest(Scan(disk[s])),
           ~bound => passed = Evaluate(disk[s])
    PROVE  WorldsInv'
<1>1. /\ capture[s] = None
      /\ capture' = [capture EXCEPT ![s] = [tree |-> Scan(disk[s]), env |-> Environment(environ[s]),
                                            bound |-> bound, passed |-> passed]]
      /\ UNCHANGED <<disk, environ, factors, boundaries, run>>
  BY DEF Captured
<1>2. boundaries = {} /\ run = None
  BY <1>1 DEF WorldsInv, FactorInv, RunInv
<1>3. CaptureInv'
  <2>1. (disk \in [Sides -> Trees] /\ DOMAIN capture = Sides)'
    BY <1>1 DEF WorldsInv, CaptureInv, Trees, Things, IsTree
  <2>2. ASSUME NEW r \in Sides, capture'[r] # None
        PROVE  /\ capture'[r].tree = Scan(disk[r])
               /\ capture'[r].env = Environment(environ[r])
               /\ capture'[r].bound => capture'[r].passed = EvaluateManifest(Scan(disk[r]))
               /\ ~capture'[r].bound => capture'[r].passed = Evaluate(disk[r])
    <3>1. CASE r = s
      <4>1. capture'[r] = [tree |-> Scan(disk[s]), env |-> Environment(environ[s]),
                           bound |-> bound, passed |-> passed]
        BY <1>1, <3>1 DEF WorldsInv, CaptureInv
      <4>2. /\ capture'[r].tree = Scan(disk[s]) /\ capture'[r].env = Environment(environ[s])
            /\ capture'[r].bound = bound /\ capture'[r].passed = passed
        BY <4>1
      <4> QED
        BY <3>1, <4>2, Zenon
    <3>2. CASE r # s
      <4>1. capture'[r] = capture[r]
        BY <1>1, <3>2 DEF WorldsInv, CaptureInv
      <4> QED
        BY <2>2, <4>1, Zenon DEF WorldsInv, CaptureInv
    <3> QED
      BY <3>1, <3>2
  <2> QED
    BY <1>1, <2>1, <2>2 DEF CaptureInv
<1>4. FactorInv' /\ RunInv'
  BY <1>1, <1>2 DEF FactorInv, RunInv
<1> QED
  BY <1>3, <1>4 DEF WorldsInv

\* Both ways of capturing record their own oracle's answer.
LEMMA CaptureStep ==
    ASSUME WorldsInv, NEW s \in Sides, Capture(s) \/ CaptureWithBinding(s)
    PROVE  WorldsInv'
<1>1. CASE Capture(s)
  BY <1>1, CapturedInv DEF Capture
<1>2. CASE CaptureWithBinding(s)
  BY <1>2, CapturedInv DEF CaptureWithBinding
<1> QED
  BY <1>1, <1>2

\* The captures stay what they are in every later step.
LEMMA CapturesStay ==
    ASSUME CaptureInv, UNCHANGED <<disk, environ, capture>>
    PROVE  CaptureInv'
  BY DEF CaptureInv

\* Compare lists the factors and says what it leaves out.
LEMMA CompareStep ==
    ASSUME WorldsInv, Compare
    PROVE  WorldsInv'
<1>1. /\ capture["good"] # None /\ capture["bad"] # None /\ run = None
      /\ UNCHANGED <<disk, environ, capture, run>>
  BY DEF Compare
<1>2. /\ EnvFactors' = EnvFactors /\ TreeFactors' = TreeFactors
      /\ \A v : EnvDiffers(v)' <=> EnvDiffers(v)
      /\ \A p : TreeDiffers(p)' <=> TreeDiffers(p)
  BY <1>1 DEF EnvFactors, TreeFactors, EnvDiffers, TreeDiffers, IsSecret, TreeSupported
<1>3. EnvFactors \in SUBSET Variables /\ TreeFactors \in SUBSET Paths
  BY DEF EnvFactors, TreeFactors
<1>4. PICK e \in Orders(EnvFactors), t \in Orders(TreeFactors) :
         factors' = SubSeq(e \o t, 1, IF Len(e \o t) > MaxFactors THEN MaxFactors ELSE Len(e \o t))
  BY DEF Compare
<1>5. /\ Len(factors') \in Nat /\ DOMAIN factors' = 1..Len(factors')
      /\ Range(factors') \subseteq EnvFactors \union TreeFactors
      /\ Cardinality(EnvFactors) + Cardinality(TreeFactors) <= MaxFactors =>
           EnvFactors \union TreeFactors \subseteq Range(factors')
  <2>1. factors' = Kept(e, t)
    BY <1>4, Zenon DEF Kept
  <2>2. Cardinality(EnvFactors) \in Nat /\ Cardinality(TreeFactors) \in Nat
    BY <1>3, FiniteFactors
  <2>3. FactorList(factors', EnvFactors, TreeFactors)
    BY <1>4, <2>1, <2>2, OrderedFactors
  <2> QED
    BY <2>3, Zenon DEF FactorList
<1>6. boundaries' # {}
  BY DEF Compare
<1>7. ASSUME boundaries' = {"compared"}
      PROVE  /\ Cardinality(EnvFactors) + Cardinality(TreeFactors) <= MaxFactors
             /\ \A v \in Variables : EnvDiffers(v) => v \in EnvFactors
             /\ \A p \in Paths : TreeDiffers(p) => p \in TreeFactors
  <2>1. "secret" \notin boundaries' /\ "unsupported" \notin boundaries' /\ "limit" \notin boundaries'
    BY <1>7
  <2>2. ~(Cardinality(EnvFactors) + Cardinality(TreeFactors) > MaxFactors)
    BY <2>1 DEF Compare
  <2>3. ~ \E v \in Variables : EnvDiffers(v) /\ IsSecret(v)
    BY <2>1 DEF Compare
  <2>4. ~ \E p \in Paths : TreeDiffers(p) /\ ~TreeSupported(p)
    BY <2>1 DEF Compare
  <2>5. Cardinality(EnvFactors) + Cardinality(TreeFactors) <= MaxFactors
    BY <1>3, <2>2, FiniteFactors, WorldsAssumption
  <2> QED
    BY <2>3, <2>4, <2>5 DEF EnvFactors, TreeFactors
<1>8. FactorInv'
  BY <1>1, <1>2, <1>5, <1>7 DEF FactorInv, Sides
<1>9. RunInv'
  BY <1>1, <1>6 DEF RunInv
<1>10. CaptureInv'
  BY <1>1, CapturesStay DEF WorldsInv
<1> QED
  BY <1>8, <1>9, <1>10 DEF WorldsInv

\* Nothing but the run changes.
LEMMA FactorsStay ==
    ASSUME FactorInv, UNCHANGED <<capture, factors, boundaries>>
    PROVE  FactorInv'
  BY DEF FactorInv, EnvFactors, TreeFactors, EnvDiffers, TreeDiffers, IsSecret, TreeSupported

\* runWorld builds the world it records.
LEMMA RunStep ==
    ASSUME WorldsInv, NEW base \in Sides, NEW S \in SUBSET Range(factors), RunWorld(base, S)
    PROVE  WorldsInv'
<1>1. boundaries # {} /\ UNCHANGED <<disk, environ, capture, factors, boundaries>>
  BY DEF RunWorld
<1>2. PICK built : built = ApplyTree(Materialize(capture[base].tree), S, Other(base))
  OBVIOUS
<1>3. run' = [base |-> base, selected |-> S, tree |-> built,
              env |-> ApplyEnv(capture[base].env, S, Other(base)),
              passed |-> built # Failed /\ Evaluate(built)]
  BY <1>2, Zenon DEF RunWorld
<1>4. /\ run'.base = base /\ run'.selected = S /\ run'.tree = built
      /\ run'.env = ApplyEnv(capture[base].env, S, Other(base))
      /\ run'.passed = (built # Failed /\ Evaluate(built))
  BY <1>3, Zenon
<1>5. RunInv'
  <2>1. boundaries' # {}
    BY <1>1
  <2>2. run'.base \in Sides /\ run'.selected \subseteq Range(factors')
    BY <1>1, <1>4
  <2>3. (run.tree = ApplyTree(Materialize(From.tree), run.selected, Other(run.base)))'
    BY <1>1, <1>2, <1>4 DEF ApplyTree, From
  <2>4. (run.env = ApplyEnv(From.env, run.selected, Other(run.base)))'
    BY <1>1, <1>4 DEF ApplyEnv, From
  <2>5. run'.passed = (run'.tree # Failed /\ Evaluate(run'.tree))
    BY <1>4, Zenon
  <2> QED
    BY <2>1, <2>2, <2>3, <2>4, <2>5, Zenon DEF RunInv
<1> QED
  BY <1>1, <1>5, CapturesStay, FactorsStay DEF WorldsInv

\* And so does a step that changes nothing.
LEMMA StutterStep ==
    ASSUME WorldsInv, UNCHANGED vars
    PROVE  WorldsInv'
<1>1. UNCHANGED <<disk, environ, capture, factors, boundaries, run>>
  BY DEF vars
<1>2. RunInv'
  BY <1>1 DEF WorldsInv, RunInv, From, ApplyTree, ApplyEnv
<1> QED
  BY <1>1, <1>2, CapturesStay, FactorsStay DEF WorldsInv

\* Captures, factors and the last run are what the code made them from, in
\* every reachable state.
THEOREM WorldsInvariant == Spec => []WorldsInv
<1>1. Init => WorldsInv
  BY InitInv
<1>2. WorldsInv /\ [Next]_vars => WorldsInv'
  <2> SUFFICES ASSUME WorldsInv, [Next]_vars PROVE WorldsInv'
    OBVIOUS
  <2>1. CASE \E s \in Sides : Capture(s) \/ CaptureWithBinding(s)
    BY <2>1, CaptureStep
  <2>2. CASE Compare
    BY <2>2, CompareStep
  <2>3. CASE \E base \in Sides : \E S \in SUBSET Range(factors) : RunWorld(base, S)
    BY <2>3, RunStep
  <2>4. CASE UNCHANGED vars
    BY <2>4, StutterStep
  <2> QED
    BY <2>1, <2>2, <2>3, <2>4 DEF Next
<1> QED
  BY <1>1, <1>2, PTL DEF Spec

-----------------------------------------------------------------------------
(* What the scan leaves of a tree.                                         *)

\* The scan changes nothing it supports and hides nothing.
LEMMA EntryFacts ==
    ASSUME NEW o
    PROVE  /\ Supported(ScanEntry(o)) => ScanEntry(o) = o
           /\ ScanEntry(o) # Absent => o # Absent
           /\ o.type = "dir" => ScanEntry(o) = o
<1>1. CASE o.type = "hardlink"
  <2>1. ScanEntry(o).type = "unsupported"
    BY <1>1 DEF ScanEntry
  <2> QED
    BY <1>1, <2>1 DEF Supported, Absent
<1>2. CASE o.type = "escape"
  <2>1. ScanEntry(o).type = "unsupported"
    BY <1>2 DEF ScanEntry
  <2> QED
    BY <1>2, <2>1 DEF Supported, Absent
<1>3. CASE o.type # "hardlink" /\ o.type # "escape"
  BY <1>3 DEF ScanEntry
<1> QED
  BY <1>1, <1>2, <1>3

\* A capture's manifest; what it can rebuild of it is what was on disk.
LEMMA ScanFacts ==
    ASSUME NEW d \in Trees, NEW m, m = Scan(d)
    PROVE  /\ Manifest(m)
           /\ \A p \in Paths : Supported(m[p]) => m[p] = d[p]
           /\ (\A p \in Paths : Supported(m[p])) => m = d
<1>1. d \in [Paths -> Things] /\ IsTree(d)
  BY DEF Trees
<1>2. m = [p \in Paths |-> ScanEntry(d[p])]
  BY DEF Scan
<1>3. \A p \in Paths : m[p] = ScanEntry(d[p])
  BY <1>2
<1>4. \A p \in Paths : Supported(m[p]) => m[p] = d[p] /\ m[p] \in Things
  BY <1>1, <1>3, EntryFacts
<1>5. IsTree(m)
  <2> SUFFICES ASSUME NEW p \in Paths, m[p] # Absent, Len(p) = 2
               PROVE  m[Top(p)].type = "dir"
    BY DEF IsTree
  <2>1. d[p] # Absent
    BY <1>3, EntryFacts
  <2>2. d[Top(p)].type = "dir" /\ Top(p) \in Paths
    BY <1>1, <2>1, PathFacts DEF IsTree
  <2> QED
    BY <1>3, <2>2, EntryFacts
<1>6. m \in [Paths -> {m[p] : p \in Paths}]
  BY <1>2
<1>7. Manifest(m)
  BY <1>4, <1>5, <1>6 DEF Manifest
<1>8. ASSUME \A p \in Paths : Supported(m[p]) PROVE m = d
  <2>1. \A p \in Paths : m[p] = d[p]
    BY <1>4, <1>8
  <2> QED
    BY <1>1, <1>6, <2>1
<1> QED
  BY <1>4, <1>7, <1>8

-----------------------------------------------------------------------------
(* The run in terms of its base and the other capture.                     *)

\* There are two sides.
LEMMA SidesOf ==
    ASSUME NEW s \in Sides
    PROVE  Other(s) \in Sides /\ Sides = {s, Other(s)} /\ Other(s) # s
  BY DEF Sides, Other

\* Both captures of a run are scans of their disks.
LEMMA RunFacts ==
    ASSUME WorldsInv, run # None
    PROVE  /\ run.base \in Sides /\ Other(run.base) \in Sides
           /\ From # None /\ From.tree = Scan(disk[run.base])
           /\ From.env = Environment(environ[run.base])
           /\ To # None /\ To.tree = Scan(disk[Other(run.base)])
           /\ To.env = Environment(environ[Other(run.base)])
           /\ disk[run.base] \in Trees /\ disk[Other(run.base)] \in Trees
<1>1. run.base \in Sides /\ boundaries # {}
  BY DEF WorldsInv, RunInv
<1>2. Other(run.base) \in Sides
  BY <1>1, SidesOf
<1> QED
  BY <1>1, <1>2 DEF WorldsInv, CaptureInv, FactorInv, From, To

\* The tree of a run, and that it selects among the factors.
LEMMA RunTree ==
    ASSUME WorldsInv, run # None
    PROVE  /\ Len(factors) \in Nat
           /\ run.tree = ApplyAll(Materialize(From.tree), factors,
                                  run.selected \intersect Paths, To.tree)
           /\ \A p \in run.selected : \E j \in 1..Len(factors) : factors[j] = p
<1>1. /\ run.selected \subseteq Range(factors) /\ boundaries # {}
      /\ run.tree = ApplyTree(Materialize(From.tree), run.selected, Other(run.base))
  BY DEF WorldsInv, RunInv
<1>2. Len(factors) \in Nat /\ DOMAIN factors = 1..Len(factors)
  BY <1>1 DEF WorldsInv, FactorInv
<1>3. \A p \in run.selected : \E j \in 1..Len(factors) : factors[j] = p
  BY <1>1, <1>2 DEF Range
<1> QED
  BY <1>1, <1>2, <1>3, Zenon DEF ApplyTree, To

\* What can be selected, seen from the base.
LEMMA SelectedFacts ==
    ASSUME WorldsInv, run # None
    PROVE  /\ \A p \in run.selected \intersect Paths :
                From.tree[p] # To.tree[p] /\ Supported(From.tree[p]) /\ Supported(To.tree[p])
           /\ \A v \in run.selected \intersect Variables :
                From.env[v] # To.env[v] /\ From.env[v][1] # "redacted" /\ To.env[v][1] # "redacted"
<1>1. PICK s : s = run.base
  OBVIOUS
<1>2. s \in Sides /\ Other(s) \in Sides /\ Sides = {s, Other(s)}
  BY <1>1, RunFacts, SidesOf
<1>3. From = capture[s] /\ To = capture[Other(s)]
  BY <1>1 DEF From, To
<1>4. run.selected \subseteq EnvFactors \union TreeFactors
  BY DEF WorldsInv, RunInv, FactorInv
<1>5. ASSUME NEW p \in run.selected \intersect Paths
      PROVE  From.tree[p] # To.tree[p] /\ Supported(From.tree[p]) /\ Supported(To.tree[p])
  <2>1. p \in TreeFactors
    BY <1>4, WorldsAssumption DEF EnvFactors
  <2>2. TreeDiffers(p) /\ TreeSupported(p)
    BY <2>1 DEF TreeFactors
  <2>3. capture[s].tree[p] # capture[Other(s)].tree[p]
    BY <1>2, <2>2 DEF TreeDiffers, Sides, Other
  <2>4. Supported(capture[s].tree[p]) /\ Supported(capture[Other(s)].tree[p])
    BY <1>2, <2>2 DEF TreeSupported
  <2> QED
    BY <1>3, <2>3, <2>4
<1>6. ASSUME NEW v \in run.selected \intersect Variables
      PROVE  From.env[v] # To.env[v] /\ From.env[v][1] # "redacted" /\ To.env[v][1] # "redacted"
  <2>1. v \in EnvFactors
    BY <1>4, WorldsAssumption DEF TreeFactors
  <2>2. EnvDiffers(v) /\ ~IsSecret(v)
    BY <2>1 DEF EnvFactors
  <2>3. capture[s].env[v] # capture[Other(s)].env[v]
    BY <1>2, <2>2 DEF EnvDiffers, Sides, Other
  <2>4. capture[s].env[v][1] # "redacted" /\ capture[Other(s)].env[v][1] # "redacted"
    BY <1>2, <2>2 DEF IsSecret
  <2> QED
    BY <1>3, <2>3, <2>4
<1> QED
  BY <1>5, <1>6

\* The base of a run is rebuilt if its entries are supported.
LEMMA BaseFacts ==
    ASSUME WorldsInv, run # None
    PROVE  /\ Manifest(From.tree) /\ Manifest(To.tree)
           /\ Materialize(From.tree)
                = IF \A p \in Paths : Supported(From.tree[p]) THEN From.tree ELSE None
           /\ (\A p \in Paths : Supported(From.tree[p])) => From.tree = disk[run.base]
           /\ (\A p \in Paths : Supported(To.tree[p])) => To.tree = disk[Other(run.base)]
<1>1. /\ disk[run.base] \in Trees /\ From.tree = Scan(disk[run.base])
      /\ disk[Other(run.base)] \in Trees /\ To.tree = Scan(disk[Other(run.base)])
  BY RunFacts
<1>2. /\ Manifest(From.tree)
      /\ (\A p \in Paths : Supported(From.tree[p])) => From.tree = disk[run.base]
  BY <1>1, ScanFacts
<1>3. /\ Manifest(To.tree)
      /\ (\A p \in Paths : Supported(To.tree[p])) => To.tree = disk[Other(run.base)]
  BY <1>1, ScanFacts
<1>4. Materialize(From.tree) = IF \A p \in Paths : Supported(From.tree[p]) THEN From.tree ELSE None
  BY <1>2, Materialized
<1> QED
  BY <1>2, <1>3, <1>4

\* A base that was built has supported entries only.
LEMMA BuiltBase ==
    ASSUME WorldsInv, Built
    PROVE  /\ \A p \in Paths : Supported(From.tree[p])
           /\ run.tree = ApplyAll(From.tree, factors, run.selected \intersect Paths, To.tree)
<1>1. run # None /\ run.tree # None
  BY DEF Built, Failed
<1>2. /\ Len(factors) \in Nat
      /\ run.tree = ApplyAll(Materialize(From.tree), factors, run.selected \intersect Paths, To.tree)
  BY <1>1, RunTree
<1>3. Materialize(From.tree) # None
  BY <1>1, <1>2, ApplyAllFailed
<1>4. Materialize(From.tree)
        = IF \A p \in Paths : Supported(From.tree[p]) THEN From.tree ELSE None
  BY <1>1, BaseFacts
<1>5. \A p \in Paths : Supported(From.tree[p])
  BY <1>3, <1>4
<1>6. Materialize(From.tree) = From.tree
  BY <1>4, <1>5
<1> QED
  BY <1>2, <1>5, <1>6

\* The environment of a run.
LEMMA EnvOf ==
    ASSUME WorldsInv, run # None
    PROVE  run.env = [v \in Variables |-> IF v \in run.selected THEN To.env[v] ELSE From.env[v]]
  BY DEF WorldsInv, RunInv, ApplyEnv, To

\* An environment is a function, and a secret that is not redacted is not set.
LEMMA EnvFacts ==
    ASSUME NEW env, NEW e, e = Environment(env)
    PROVE  /\ e = [v \in Variables |-> e[v]]
           /\ \A v \in Secrets : e[v][1] # "redacted" => e[v] = <<"value", None>>
<1>1. ASSUME NEW v \in Variables
      PROVE  e[v] = IF v \in Secrets /\ env[v] # None
                    THEN <<"redacted", env[v]>> ELSE <<"value", env[v]>>
  BY DEF Environment
<1>2. e = [v \in Variables |-> e[v]]
  BY DEF Environment
<1>3. ASSUME NEW v \in Secrets, e[v][1] # "redacted" PROVE e[v] = <<"value", None>>
  <2>1. v \in Variables
    BY WorldsAssumption
  <2>2. env[v] = None
    <3> SUFFICES ASSUME env[v] # None PROVE FALSE
      OBVIOUS
    <3>1. e[v] = <<"redacted", env[v]>>
      BY <1>1, <2>1
    <3> QED
      BY <1>3, <3>1
  <2> QED
    BY <1>1, <2>1, <2>2
<1> QED
  BY <1>2, <1>3

-----------------------------------------------------------------------------
(* The properties.                                                         *)

\* BaselineIsCapture for trees of any number of paths.
THEOREM Baselines == Spec => []BaselineIsCapture
<1>1. ASSUME WorldsInv, run # None, run.selected = {}
      PROVE  IF \A p \in Paths : Supported(From.tree[p])
             THEN run.tree = disk[run.base] /\ run.env = From.env
             ELSE run.tree = Failed
  <2>1. run.tree = Materialize(From.tree)
    <3>1. /\ Len(factors) \in Nat
          /\ run.tree = ApplyAll(Materialize(From.tree), factors, {}, To.tree)
      <4>1. run.selected \intersect Paths = {}
        BY <1>1
      <4> QED
        BY <1>1, <4>1, RunTree
    <3> QED
      BY <3>1, ApplyAllNone
  <2>2. run.env = From.env
    <3>1. run.env = [v \in Variables |-> From.env[v]]
      BY <1>1, EnvOf
    <3>2. From.env = [v \in Variables |-> From.env[v]]
      BY <1>1, RunFacts, EnvFacts
    <3> QED
      BY <3>1, <3>2
  <2>3. /\ Materialize(From.tree)
             = IF \A p \in Paths : Supported(From.tree[p]) THEN From.tree ELSE None
        /\ (\A p \in Paths : Supported(From.tree[p])) => From.tree = disk[run.base]
    BY <1>1, BaseFacts
  <2> QED
    BY <2>1, <2>2, <2>3 DEF Failed
<1>2. WorldsInv => BaselineIsCapture
  BY <1>1 DEF BaselineIsCapture
<1> QED
  BY <1>2, WorldsInvariant, PTL

\* The tree of an experiment with plain factors.
LEMMA PlainTree ==
    ASSUME WorldsInv, Built, \A p \in run.selected \intersect Paths : Plain(p)
    PROVE  run.tree = [p \in Paths |-> IF p \in run.selected THEN To.tree[p] ELSE From.tree[p]]
<1>1. PICK from, to, S : from = From.tree /\ to = To.tree /\ S = run.selected \intersect Paths
  OBVIOUS
<1>2. run # None /\ (\A p \in Paths : Supported(from[p])) /\ run.tree = ApplyAll(from, factors, S, to)
  BY <1>1, BuiltBase DEF Built
<1>3. Manifest(from) /\ Manifest(to)
  BY <1>1, <1>2, BaseFacts
<1>4. from \in [Paths -> Things] /\ IsTree(from)
  BY <1>2, <1>3 DEF Manifest
<1>5. ASSUME NEW p \in S
      PROVE  Alone(from, to, p) /\ Supported(to[p]) /\ to[p] \in Things
  <2>1. Plain(p) /\ p \in Paths /\ p \in run.selected
    BY <1>1
  <2>2. Alone(from, to, p)
    BY <1>1, <2>1 DEF Alone, Plain
  <2>3. Supported(to[p])
    BY <1>1, <1>2, SelectedFacts
  <2> QED
    BY <1>3, <2>1, <2>2, <2>3 DEF Manifest
<1>6. Intervention(from, to, S)
  BY <1>1, <1>4, <1>5 DEF Intervention
<1>7. Len(factors) \in Nat /\ \A p \in S : \E j \in 1..Len(factors) : factors[j] = p
  BY <1>1, <1>2, RunTree
<1>8. run.tree = [p \in Paths |-> IF p \in S THEN to[p] ELSE from[p]]
  BY <1>2, <1>6, <1>7, Intervened
<1> QED
  BY <1>1, <1>8

\* InterventionIsExact for any number of factors, in any order.
THEOREM Interventions == Spec => []InterventionIsExact
<1>1. ASSUME WorldsInv, run # None
      PROVE  run.env = [v \in Variables |->
                         IF v \in run.selected \ Secrets THEN To.env[v] ELSE From.env[v]]
  <2>1. ASSUME NEW v \in Secrets PROVE v \notin run.selected
    <3> SUFFICES ASSUME v \in run.selected PROVE FALSE
      OBVIOUS
    <3>1. From.env[v] # To.env[v] /\ From.env[v][1] # "redacted" /\ To.env[v][1] # "redacted"
      BY <1>1, SelectedFacts, WorldsAssumption
    <3>2. From.env[v] = <<"value", None>>
      BY <1>1, <3>1, RunFacts, EnvFacts
    <3>3. To.env[v] = <<"value", None>>
      BY <1>1, <3>1, RunFacts, EnvFacts
    <3> QED
      BY <3>1, <3>2, <3>3
  <2>2. run.env = [v \in Variables |-> IF v \in run.selected THEN To.env[v] ELSE From.env[v]]
    BY <1>1, EnvOf
  <2>3. run.selected \ Secrets = run.selected
    BY <2>1
  <2> QED
    BY <2>2, <2>3
<1>2. WorldsInv => InterventionIsExact
  BY <1>1, PlainTree DEF InterventionIsExact
<1> QED
  BY <1>2, WorldsInvariant, PTL

\* FactorsAccountForDifference for any trees and environments and any limit.
THEOREM Differences == Spec => []FactorsAccountForDifference
<1>1. ASSUME WorldsInv, Built, run.selected = Range(factors),
             \A p \in run.selected \intersect Paths : Plain(p), boundaries = {"compared"}
      PROVE  run.tree = disk[Other(run.base)] /\ run.env = To.env
  <2>1. run # None /\ boundaries # {}
    BY <1>1 DEF Built
  <2>2. run.base \in Sides /\ Sides = {run.base, Other(run.base)}
    BY <1>1, <2>1, RunFacts, SidesOf
  <2>3. /\ EnvFactors \union TreeFactors \subseteq run.selected
        /\ \A v \in Variables : EnvDiffers(v) => v \in EnvFactors
        /\ \A p \in Paths : TreeDiffers(p) => p \in TreeFactors
    BY <1>1, <2>1 DEF WorldsInv, FactorInv
  <2>4. \A p \in Paths : p \notin run.selected => From.tree[p] = To.tree[p]
    BY <2>2, <2>3 DEF TreeDiffers, From, To, Sides, Other
  <2>5. \A v \in Variables : v \notin run.selected => From.env[v] = To.env[v]
    BY <2>2, <2>3 DEF EnvDiffers, From, To, Sides, Other
  <2>6. run.tree = To.tree
    <3>1. run.tree = [p \in Paths |-> IF p \in run.selected THEN To.tree[p] ELSE From.tree[p]]
      BY <1>1, PlainTree
    <3>2. run.tree = [p \in Paths |-> To.tree[p]]
      BY <2>4, <3>1
    <3>3. To.tree = [p \in Paths |-> To.tree[p]]
      BY <1>1, <2>1, BaseFacts DEF Manifest
    <3> QED
      BY <3>2, <3>3
  <2>7. \A p \in Paths : Supported(To.tree[p])
    <3>1. \A p \in Paths : Supported(From.tree[p])
      BY <1>1, BuiltBase
    <3> QED
      BY <1>1, <2>1, <2>4, <3>1, SelectedFacts
  <2>8. To.tree = disk[Other(run.base)]
    BY <1>1, <2>1, <2>7, BaseFacts
  <2>9. run.env = To.env
    <3>1. run.env = [v \in Variables |-> IF v \in run.selected THEN To.env[v] ELSE From.env[v]]
      BY <1>1, <2>1, EnvOf
    <3>2. run.env = [v \in Variables |-> To.env[v]]
      BY <2>5, <3>1
    <3>3. To.env = [v \in Variables |-> To.env[v]]
      BY <1>1, <2>1, RunFacts, EnvFacts
    <3> QED
      BY <3>2, <3>3
  <2> QED
    BY <2>6, <2>8, <2>9
<1>2. WorldsInv => FactorsAccountForDifference
  BY <1>1 DEF FactorsAccountForDifference
<1> QED
  BY <1>2, WorldsInvariant, PTL

\* Without links on the way the directory and the manifest give one answer.
LEMMA SameAnswer ==
    ASSUME NEW d \in Trees, \A p \in Paths : Supported(d[p]),
           d[OracleFile].type # "symlink", d[Top(OracleFile)].type # "symlink"
    PROVE  Evaluate(d) <=> EvaluateManifest(d)
<1>1. PICK o : o = d[OracleFile]
  OBVIOUS
<1>2. d \in [Paths -> Things] /\ IsTree(d) /\ OracleFile \in Paths /\ OracleContent # None
  BY WorldsAssumption DEF Trees
<1>3. o \in Things /\ o = [type |-> o.type, value |-> o.value]
  BY <1>1, <1>2, WorldsAssumption
<1>4. o.type # "hardlink" /\ o.type # "symlink"
  BY <1>1, <1>2 DEF Supported
<1>5. ReadFile(d, OracleFile) = IF o.type = "file" THEN o.value ELSE None
  <2>1. CASE Len(OracleFile) = 1 \/ d[Top(OracleFile)].type = "dir"
    <3>1. Where(d, OracleFile) = OracleFile
      BY <1>2, <2>1, WhereItself
    <3> QED
      BY <1>1, <1>2, <1>4, <3>1 DEF ReadFile
  <2>2. CASE ~(Len(OracleFile) = 1 \/ d[Top(OracleFile)].type = "dir")
    <3>1. o = Absent
      BY <1>1, <1>2, <2>2, PathFacts DEF IsTree
    <3>2. Where(d, OracleFile) = Missing \/ Where(d, OracleFile) = NotDir
      BY <2>2 DEF Where
    <3>3. Missing \notin Paths /\ NotDir \notin Paths
      BY PathFacts
    <3>4. Absent.type = "absent" /\ Absent.value = None
      BY DEF Absent
    <3> QED
      BY <3>1, <3>2, <3>3, <3>4 DEF ReadFile
  <2> QED
    BY <2>1, <2>2
<1>6. Evaluate(d) <=> o.type = "file" /\ o.value = OracleContent
  BY <1>2, <1>5 DEF Evaluate
<1>7. EvaluateManifest(d) <=> o.type = "file" /\ o.value = OracleContent
  BY <1>1, <1>3 DEF EvaluateManifest
<1> QED
  BY <1>6, <1>7

\* OraclesAgree for any oracle file and content.
THEOREM Oracles == Spec => []OraclesAgree
<1>1. ASSUME WorldsInv, Built, run.selected = {},
             ~(From.bound /\ \E p \in {OracleFile, Top(OracleFile)} : From.tree[p].type = "symlink")
      PROVE  run.passed = From.passed
  <2>1. run # None /\ run.tree # Failed
    BY <1>1 DEF Built
  <2>2. PICK d \in Trees : d = disk[run.base]
    BY <1>1, <2>1, RunFacts
  <2>3. \A p \in Paths : Supported(From.tree[p])
    BY <1>1, BuiltBase
  <2>4. From.tree = d /\ From.tree = Scan(d)
    BY <1>1, <2>1, <2>2, <2>3, BaseFacts, RunFacts
  <2>5. run.tree = d
    <3>1. run.selected \intersect Paths = {}
      BY <1>1
    <3>2. run.tree = ApplyAll(From.tree, factors, {}, To.tree) /\ Len(factors) \in Nat
      BY <1>1, <2>1, <3>1, BuiltBase, RunTree
    <3> QED
      BY <2>4, <3>2, ApplyAllNone
  <2>6. run.passed = Evaluate(d)
    <3>1. run.passed = (run.tree # Failed /\ Evaluate(run.tree))
      BY <1>1, <2>1, Zenon DEF WorldsInv, RunInv
    <3>2. PICK x : x = (run.tree # Failed /\ Evaluate(run.tree))
      OBVIOUS
    <3>3. x = Evaluate(d)
      BY <2>1, <2>5, <3>2 DEF Evaluate
    <3>4. run.passed = x
      BY <3>1, <3>2, Zenon
    <3> QED
      BY <3>3, <3>4, Zenon
  <2>7. /\ From.bound => From.passed = EvaluateManifest(Scan(disk[run.base]))
        /\ ~From.bound => From.passed = Evaluate(disk[run.base])
    <3>1. run.base \in Sides /\ From # None
      BY <1>1, <2>1, RunFacts
    <3> QED
      BY <1>1, <3>1, Zenon DEF WorldsInv, CaptureInv, From
  <2>8. CASE From.bound
    <3>1. d[OracleFile].type # "symlink" /\ d[Top(OracleFile)].type # "symlink"
      BY <1>1, <2>4, <2>8
    <3>2. Evaluate(d) <=> EvaluateManifest(d)
      BY <2>3, <2>4, <3>1, SameAnswer
    <3>3. Evaluate(d) = EvaluateManifest(d)
      BY <3>2 DEF Evaluate, EvaluateManifest
    <3>4. From.passed = EvaluateManifest(d)
      BY <2>2, <2>4, <2>7, <2>8, Zenon
    <3> QED
      BY <2>6, <3>3, <3>4, Zenon
  <2>9. CASE ~From.bound
    BY <2>2, <2>6, <2>7, <2>9, Zenon
  <2> QED
    BY <2>8, <2>9
<1>2. WorldsInv => OraclesAgree
  BY <1>1 DEF OraclesAgree
<1> QED
  BY <1>2, WorldsInvariant, PTL

-----------------------------------------------------------------------------
(* Locality.                                                               *)

\* Where an entry is written, if it is.
LEMMA WhereCases ==
    ASSUME NEW t, NEW p \in Paths, NEW w, w = Where(t, p)
    PROVE  \/ w = p
           \/ w = Missing /\ Len(p) = 2 /\ t[Top(p)] = Absent
           \/ w = Dangling \/ w = NotDir
           \/ Len(p) = 2 /\ t[Top(p)].type = "symlink" /\ w = <<t[Top(p)].value, p[2]>>
<1>1. CASE Len(p) = 1 \/ t[Top(p)].type = "dir"
  BY <1>1, WhereItself
<1>2. CASE ~(Len(p) = 1 \/ t[Top(p)].type = "dir")
  <2>1. Len(p) = 2
    BY <1>2, PathFacts
  <2>2. Absent.type # "symlink" /\ Absent.type # "dir"
    BY DEF Absent
  <2> QED
    BY <1>2, <2>1, <2>2, Zenon DEF Where
<1> QED
  BY <1>1, <1>2

\* What an Apply does to a tree, if it returns one.
Applied(u, t, p, e) ==
    \/ u = t
    \/ /\ Len(p) = 2 /\ t[Top(p)] = Absent
       /\ u = [t EXCEPT ![Top(p)] = [type |-> "dir", value |-> DefaultMode], ![p] = e]
    \/ u = [Removed(t, p) EXCEPT ![p] = e]
    \/ \E w \in Paths : /\ Len(p) = 2 /\ t[Top(p)].type = "symlink"
                        /\ w = <<t[Top(p)].value, p[2]>>
                        /\ u = [Removed(t, w) EXCEPT ![w] = e]

\* It changes nothing, adds the missing directory, or replaces one path: its
\* own or the one behind a link.
LEMMA ApplyCases ==
    ASSUME NEW t, NEW p \in Paths, NEW e, NEW u, u = Apply(t, p, e), u # None
    PROVE  Applied(u, t, p, e)
<1>1. t # None
  BY ApplyFailed
<1>2. PICK w : w = Where(t, p)
  OBVIOUS
<1>3. Missing \notin Paths /\ Dangling \notin Paths /\ NotDir \notin Paths
      /\ Missing # Dangling /\ Missing # NotDir /\ Dangling # NotDir
  BY PathFacts DEF Missing, Dangling, NotDir
<1>4. \/ u = t
      \/ w = Missing
         /\ u = [t EXCEPT ![Top(p)] = [type |-> "dir", value |-> DefaultMode], ![p] = e]
      \/ w \in Paths /\ u = [Removed(t, w) EXCEPT ![w] = e]
  BY <1>1, <1>2, <1>3, Zenon DEF Apply, Failed
<1>5. \/ w = p
      \/ w = Missing /\ Len(p) = 2 /\ t[Top(p)] = Absent
      \/ w = Dangling \/ w = NotDir
      \/ Len(p) = 2 /\ t[Top(p)].type = "symlink" /\ w = <<t[Top(p)].value, p[2]>>
  BY <1>2, WhereCases
<1>6. w = Missing => Len(p) = 2 /\ t[Top(p)] = Absent
  <2>1. ASSUME NEW a, NEW c PROVE <<a, c>> # Missing
    BY DEF Missing
  <2> QED
    BY <1>3, <1>5, <2>1
<1> QED
  BY <1>3, <1>4, <1>5, <1>6, Zenon DEF Applied

\* What the factors S of from and to may change, as Touched says of a run.
MayChange(from, to, S, q) ==
    \/ q \in S \/ Top(q) \in S
    \/ \E p \in S : \/ q = Top(p) /\ from[q] = Absent
                    \/ \E m \in {from, to} : Len(p) = 2 /\ m[Top(p)].type = "symlink"
                                             /\ q = <<m[Top(p)].value, p[2]>>

\* A tree that differs from from there only, with the links of from and to.
Local(t, from, to, S) ==
    /\ t = [q \in Paths |-> t[q]]
    /\ \A q \in Paths : t[q] # from[q] => MayChange(from, to, S, q)
    /\ \A q \in Paths : Len(q) = 1 /\ t[q].type = "symlink" => t[q] \in {from[q], to[q]}

\* One factor keeps it so.
LEMMA LocalStep ==
    ASSUME NEW from, NEW to, NEW S \in SUBSET Paths, NEW p \in S, NEW t, Local(t, from, to, S),
           NEW u, u = Apply(t, p, to[p]), u # None
    PROVE  Local(u, from, to, S)
<1>1. p \in Paths /\ Top(p) \in Paths /\ Len(Top(p)) = 1 /\ DOMAIN t = Paths
  BY PathFacts DEF Local
<1>2. CASE u = t
  BY <1>2
<1>3. CASE /\ Len(p) = 2 /\ t[Top(p)] = Absent
           /\ u = [t EXCEPT ![Top(p)] = [type |-> "dir", value |-> DefaultMode], ![p] = to[p]]
  <2>1. Top(p) # p
    BY <1>1, <1>3
  <2>2. u = [q \in Paths |-> u[q]] /\ u[p] = to[p]
        /\ u[Top(p)] = [type |-> "dir", value |-> DefaultMode]
        /\ \A q \in Paths : q # p /\ q # Top(p) => u[q] = t[q]
    BY <1>1, <1>3, <2>1 DEF Local
  <2>3. ASSUME NEW q \in Paths, u[q] # from[q] PROVE MayChange(from, to, S, q)
    <3>1. CASE q = p
      BY <3>1 DEF MayChange
    <3>2. CASE q = Top(p)
      <4>1. from[q] = Absent \/ MayChange(from, to, S, q)
        BY <1>3, <3>2 DEF Local
      <4> QED
        BY <3>2, <4>1 DEF MayChange
    <3>3. CASE q # p /\ q # Top(p)
      BY <2>2, <2>3, <3>3 DEF Local
    <3> QED
      BY <3>1, <3>2, <3>3
  <2>4. ASSUME NEW q \in Paths, Len(q) = 1, u[q].type = "symlink" PROVE u[q] \in {from[q], to[q]}
    <3>1. q # p /\ q # Top(p)
      BY <1>3, <2>2, <2>4
    <3> QED
      BY <2>2, <2>4, <3>1 DEF Local
  <2> QED
    BY <2>2, <2>3, <2>4 DEF Local
<1>4. CASE u = [Removed(t, p) EXCEPT ![p] = to[p]]
  <2>1. u = [q \in Paths |-> u[q]] /\ u[p] = to[p]
        /\ \A q \in Paths : q # p => u[q] = IF Below(p, q) THEN Absent ELSE t[q]
    BY <1>1, <1>4 DEF Removed
  <2>2. ASSUME NEW q \in Paths, u[q] # from[q] PROVE MayChange(from, to, S, q)
    <3>1. CASE q = p \/ Below(p, q)
      BY <3>1 DEF MayChange, Below
    <3>2. CASE q # p /\ ~Below(p, q)
      BY <2>1, <2>2, <3>2 DEF Local
    <3> QED
      BY <3>1, <3>2
  <2>3. ASSUME NEW q \in Paths, Len(q) = 1, u[q].type = "symlink" PROVE u[q] \in {from[q], to[q]}
    <3>1. CASE q = p
      BY <2>1, <3>1
    <3>2. CASE q # p
      <4>1. ~Below(p, q)
        BY <2>3 DEF Below
      <4> QED
        BY <2>1, <2>3, <3>2, <4>1 DEF Local
    <3> QED
      BY <3>1, <3>2
  <2> QED
    BY <2>1, <2>2, <2>3 DEF Local
<1>5. CASE \E w \in Paths : /\ Len(p) = 2 /\ t[Top(p)].type = "symlink"
                            /\ w = <<t[Top(p)].value, p[2]>>
                            /\ u = [Removed(t, w) EXCEPT ![w] = to[p]]
  <2>1. PICK w \in Paths : /\ Len(p) = 2 /\ t[Top(p)].type = "symlink"
                           /\ w = <<t[Top(p)].value, p[2]>>
                           /\ u = [Removed(t, w) EXCEPT ![w] = to[p]]
    BY <1>5
  <2>2. Len(w) = 2
    BY <2>1
  <2>3. \A q \in Paths : ~Below(w, q)
    BY <2>2, PathFacts DEF Below
  <2>4. u = [q \in Paths |-> u[q]] /\ \A q \in Paths : q # w => u[q] = t[q]
    BY <2>1, <2>3 DEF Removed
  <2>5. t[Top(p)] = from[Top(p)] \/ t[Top(p)] = to[Top(p)]
    BY <1>1, <2>1 DEF Local
  <2>6. MayChange(from, to, S, w)
    BY <2>1, <2>5 DEF MayChange
  <2>7. \A q \in Paths : u[q] # from[q] => MayChange(from, to, S, q)
    BY <2>4, <2>6 DEF Local
  <2>8. \A q \in Paths : Len(q) = 1 /\ u[q].type = "symlink" => u[q] \in {from[q], to[q]}
    BY <2>2, <2>4 DEF Local
  <2> QED
    BY <2>4, <2>7, <2>8 DEF Local
<1>6. Applied(u, t, p, to[p])
  BY <1>1, ApplyCases
<1> QED
  BY <1>2, <1>3, <1>4, <1>5, <1>6, Zenon DEF Applied

\* All of them, in any order.
LEMMA LocalAll ==
    ASSUME NEW from, from = [q \in Paths |-> from[q]], NEW to, NEW S \in SUBSET Paths,
           NEW order, Len(order) \in Nat
    PROVE  \/ ApplyAll(from, order, S, to) = None
           \/ Local(ApplyAll(from, order, S, to), from, to, S)
<1>1. PICK n \in Nat : n = Len(order)
  OBVIOUS
<1>2. PICK b : Builds(b, n, from, order, S, to)
  BY <1>1, ApplyAllSteps
<1> DEFINE T == {i \in 0..n : b[i] = None \/ Local(b[i], from, to, S)}
<1>3. 0 \in T
  BY <1>2 DEF Builds, Local
<1>4. ASSUME NEW i \in 1..n, i - 1 \in T PROVE i \in T
  <2>1. b[i] = One(b[i - 1], order[i], S, to)
    BY <1>2 DEF Builds
  <2>2. CASE order[i] \notin S
    BY <1>4, <2>1, <2>2 DEF One
  <2>3. CASE order[i] \in S
    <3>1. b[i] = Apply(b[i - 1], order[i], to[order[i]])
      BY <2>1, <2>3 DEF One
    <3>2. CASE b[i] = None
      BY <3>2
    <3>3. CASE b[i] # None
      <4>1. b[i - 1] # None
        BY <3>1, <3>3, ApplyFailed
      <4>2. Local(b[i - 1], from, to, S)
        BY <1>4, <4>1
      <4>3. Local(b[i], from, to, S)
        BY <2>3, <3>1, <3>3, <4>2, LocalStep
      <4> QED
        BY <4>3
    <3> QED
      BY <3>2, <3>3
  <2> QED
    BY <2>2, <2>3
<1>5. \A i \in 0..n : i \in T
  <2> HIDE DEF T
  <2> QED
    BY <1>3, <1>4, UpTo
<1> QED
  BY <1>2, <1>5 DEF Builds

\* InterventionIsLocal for any factors, directories and links among them.
THEOREM Locality == Spec => []InterventionIsLocal
<1>1. ASSUME WorldsInv, Built, NEW q \in Paths, run.tree[q] # From.tree[q]
      PROVE  Touched(q)
  <2>1. PICK from, to, S : from = From.tree /\ to = To.tree /\ S = run.selected \intersect Paths
    OBVIOUS
  <2>2. run # None /\ run.tree # None /\ run.tree = ApplyAll(from, factors, S, to)
    BY <1>1, <2>1, BuiltBase DEF Built, Failed
  <2>3. Len(factors) \in Nat /\ from = [p \in Paths |-> from[p]]
    BY <1>1, <2>1, <2>2, RunTree, BaseFacts DEF Manifest
  <2>4. Local(run.tree, from, to, S)
    BY <2>1, <2>2, <2>3, LocalAll
  <2>5. MayChange(from, to, S, q)
    BY <1>1, <2>1, <2>4 DEF Local
  <2>6. run.base \in Sides /\ Other(run.base) \in Sides
        /\ from = capture[run.base].tree /\ to = capture[Other(run.base)].tree
    BY <1>1, <2>1, <2>2, RunFacts DEF From, To
  <2>7. CASE q \in S \/ Top(q) \in S
    BY <2>1, <2>7 DEF Touched
  <2>8. ASSUME NEW p \in S, q = Top(p), from[q] = Absent PROVE Touched(q)
    BY <2>1, <2>8 DEF Touched
  <2>9. ASSUME NEW p \in S, NEW m \in {from, to}, Len(p) = 2, m[Top(p)].type = "symlink",
               q = <<m[Top(p)].value, p[2]>>
        PROVE  Touched(q)
    <3>1. PICK s \in Sides : m = capture[s].tree
      BY <2>6
    <3> QED
      BY <2>1, <2>9, <3>1 DEF Touched
  <2> QED
    BY <2>5, <2>7, <2>8, <2>9 DEF MayChange
<1>2. WorldsInv => InterventionIsLocal
  BY <1>1 DEF InterventionIsLocal
<1> QED
  BY <1>2, WorldsInvariant, PTL
=============================================================================
