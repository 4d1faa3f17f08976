--------------------------- MODULE Placement_proofs ---------------------------
(***************************************************************************)
(* Placement, for any clusters and jobs: the types; no manager reports     *)
(* more than is free; all of a job's replicas are placed, where its        *)
(* filters allow and where there is room, or none; a better cluster is     *)
(* used first; and a job fails only for want of room.                      *)
(*                                                                         *)
(* Typed is the type invariant; Greedy, what the loop knows of clusters    *)
(* before, at and after the one it is at; Counted, the account of every    *)
(* node.  The sums of the community module are recursive functions under a *)
(* CHOOSE: the first section shows that they exist and what they add up    *)
(* to, by induction over the finite sets.                                  *)
(***************************************************************************)
EXTENDS Placement, SequenceTheorems, FiniteSetTheorems, WellFoundedInduction, TLAPS

-----------------------------------------------------------------------------
(* Sums.  SumFunctionOnSet takes the elements of a set one after the       *)
(* other, in the order of CHOOSE.                                          *)
Some(s) == CHOOSE x \in s : TRUE

(* What holds of the empty set, and of a set whenever it holds of it       *)
(* without the element that a fold takes first, holds of all finite sets.  *)
LEMMA FoldInduction ==
  ASSUME NEW S, IsFiniteSet(S), NEW Done, {} \in Done,
         \A s \in SUBSET S : s # {} /\ s \ {Some(s)} \in Done => s \in Done
  PROVE  SUBSET S \subseteq Done
  <1> SUFFICES ASSUME NEW t \in SUBSET S, t \notin Done PROVE FALSE
    OBVIOUS
  <1> DEFINE Sizes == {Cardinality(s) : s \in (SUBSET S) \ Done}
  <1>1. \A s \in SUBSET S : IsFiniteSet(s) /\ Cardinality(s) \in Nat
    BY FS_Subset, FS_CardinalityType
  <1>2. Sizes \subseteq Nat /\ Sizes # {}
    BY <1>1
  <1>3. PICK n \in Sizes : \A m \in Sizes : ~(m < n)
    <2> HIDE DEF Sizes
    <2>1. \E n \in Sizes : \A m \in Sizes : ~(<<m, n>> \in OpToRel(<, Nat))
      BY <1>2, NatLessThanWellFounded, WFMin
    <2> QED
      BY <1>2, <2>1 DEF OpToRel
  <1>4. PICK s \in (SUBSET S) \ Done : n = Cardinality(s)
    BY <1>3
  <1>5. s # {}
    BY <1>4
  <1>6. Some(s) \in s
    BY <1>5 DEF Some
  <1>7. Cardinality(s \ {Some(s)}) = Cardinality(s) - 1
    BY <1>1, <1>4, <1>6, FS_RemoveElement
  <1>8. s \ {Some(s)} \in Done
    <2>1. Cardinality(s \ {Some(s)}) \in Nat /\ Cardinality(s) \in Nat
      BY <1>1, <1>4
    <2>2. Cardinality(s \ {Some(s)}) \notin Sizes
      <3> HIDE DEF Sizes
      <3> QED
        BY <1>3, <1>4, <1>7, <2>1
    <2> QED
      BY <2>2
  <1> QED
    BY <1>4, <1>5, <1>8

IsSums(g, f, S) ==
  g = [s \in SUBSET S |-> IF s = {} THEN 0 ELSE f[Some(s)] + g[s \ {Some(s)}]]

(* The recursion has a solution: one for the subsets of each size gives    *)
(* one for the next.                                                       *)
LEMMA SumExists ==
  ASSUME NEW S, IsFiniteSet(S), NEW f
  PROVE  \E g : IsSums(g, f, S)
  <1> DEFINE Sub(n) == {s \in SUBSET S : Cardinality(s) <= n}
             Solves(g, n) == g = [s \in Sub(n) |-> IF s = {} THEN 0 ELSE f[Some(s)] + g[s \ {Some(s)}]]
             Unsolved == {n \in Nat : ~\E g : Solves(g, n)}
  <1>1. \A s \in SUBSET S : /\ IsFiniteSet(s) /\ Cardinality(s) \in Nat
                            /\ Cardinality(s) = 0 <=> s = {}
                            /\ Cardinality(s) <= Cardinality(S)
    BY FS_Subset, FS_CardinalityType, FS_EmptySet
  <1>2. Unsolved = {}
    <2> SUFFICES ASSUME Unsolved # {} PROVE FALSE
      OBVIOUS
    <2>1. PICK n \in Unsolved : \A m \in Unsolved : ~(<<m, n>> \in OpToRel(<, Nat))
      <3>1. Unsolved \subseteq Nat
        OBVIOUS
      <3> HIDE DEF Unsolved
      <3> QED
        BY <3>1, NatLessThanWellFounded, WFMin
    <2>2. n \in Nat /\ \A m \in Nat : m < n => \E g : Solves(g, m)
      <3>1. \A m \in Nat : m \notin Unsolved => \E g : Solves(g, m)
        OBVIOUS
      <3>2. n \in Nat
        OBVIOUS
      <3>3. \A m \in Nat : m < n => m \notin Unsolved
        <4> HIDE DEF Unsolved
        <4> QED
          BY <2>1, <3>2 DEF OpToRel
      <3> HIDE DEF Unsolved, Solves
      <3> QED
        BY <3>1, <3>2, <3>3
    <2>3. CASE n = 0
      <3> DEFINE g == [s \in Sub(0) |-> 0]
      <3>1. \A s \in Sub(0) : s = {}
        BY <1>1
      <3>2. Solves(g, 0)
        BY <3>1
      <3> QED
        BY <2>3, <3>2
    <2>4. CASE n # 0
      <3>1. n - 1 \in Nat /\ n - 1 < n
        BY <2>2, <2>4
      <3>2. PICK g : Solves(g, n - 1)
        <4> HIDE DEF Solves
        <4> QED
          BY <2>2, <3>1
      <3> DEFINE h == [s \in Sub(n) |-> IF s = {} THEN 0 ELSE f[Some(s)] + g[s \ {Some(s)}]]
      <3>3. ASSUME NEW s \in Sub(n), s # {}
            PROVE  h[s \ {Some(s)}] = g[s \ {Some(s)}]
        <4> DEFINE t == s \ {Some(s)}
        <4>1. Some(s) \in s
          BY <3>3 DEF Some
        <4>2. Cardinality(t) = Cardinality(s) - 1
          BY <1>1, <4>1, FS_RemoveElement
        <4>3. t \in Sub(n - 1) /\ t \in Sub(n)
          BY <1>1, <2>2, <4>2
        <4> HIDE DEF t
        <4>4. g[t] = IF t = {} THEN 0 ELSE f[Some(t)] + g[t \ {Some(t)}]
          BY <3>2, <4>3
        <4>5. h[t] = IF t = {} THEN 0 ELSE f[Some(t)] + g[t \ {Some(t)}]
          BY <4>3
        <4> QED
          BY <4>4, <4>5 DEF t
      <3>4. Solves(h, n)
        BY <3>3
      <3> HIDE DEF Solves, h
      <3> QED
        BY <3>4
    <2> QED
      BY <2>3, <2>4
  <1>3. PICK g : Solves(g, Cardinality(S))
    <2>1. Cardinality(S) \in Nat
      BY <1>1
    <2> HIDE DEF Solves
    <2> QED
      BY <1>2, <2>1
  <1>4. Sub(Cardinality(S)) = SUBSET S
    BY <1>1
  <1> QED
    BY <1>3, <1>4 DEF IsSums

(* The sums over the parts of a set.                                       *)
SumsOf(f, S) == CHOOSE g : IsSums(g, f, S)

AddsUp(f, S) ==
  /\ SumFunctionOnSet(f, S) = SumsOf(f, S)[S]
  /\ SumsOf(f, S)[{}] = 0
  /\ \A s \in SUBSET S :
       s # {} => SumsOf(f, S)[s] = f[Some(s)] + SumsOf(f, S)[s \ {Some(s)}]

LEMMA SumsAddUp ==
  ASSUME NEW f, NEW S, IsFiniteSet(S)
  PROVE  AddsUp(f, S)
  <1> DEFINE g == SumsOf(f, S)
             F(t) == IF t = {} THEN 0 ELSE f[Some(t)] + g[t \ {Some(t)}]
  <1>1. IsSums(g, f, S)
    BY SumExists DEF SumsOf
  <1>2. SumFunctionOnSet(f, S) = g[S]
    BY DEF SumFunctionOnSet, FoldFunctionOnSet, MapThenFoldSet, SumsOf, IsSums, Some
  <1> HIDE DEF g
  <1>3. g = [t \in SUBSET S |-> F(t)]
    BY <1>1 DEF IsSums
  <1> HIDE DEF F
  <1>4. \A t \in SUBSET S : g[t] = F(t)
    BY <1>3
  <1>5. g[{}] = 0 /\ \A t \in SUBSET S : t # {} => g[t] = f[Some(t)] + g[t \ {Some(t)}]
    BY <1>4 DEF F
  <1> QED
    BY <1>2, <1>5 DEF g, AddsUp

LEMMA SumMonotone ==
  ASSUME NEW S, IsFiniteSet(S), NEW f, NEW h,
         \A x \in S : f[x] \in Int /\ h[x] \in Int /\ f[x] <= h[x]
  PROVE  /\ SumFunctionOnSet(f, S) \in Int /\ SumFunctionOnSet(h, S) \in Int
         /\ SumFunctionOnSet(f, S) <= SumFunctionOnSet(h, S)
  <1>0. AddsUp(f, S) /\ AddsUp(h, S)
    BY SumsAddUp
  <1> DEFINE F == SumsOf(f, S)
             H == SumsOf(h, S)
             Done == {s \in SUBSET S : F[s] \in Int /\ H[s] \in Int /\ F[s] <= H[s]}
  <1>1. /\ SumFunctionOnSet(f, S) = F[S] /\ F[{}] = 0
        /\ \A s \in SUBSET S : s # {} => F[s] = f[Some(s)] + F[s \ {Some(s)}]
    BY <1>0 DEF AddsUp
  <1>2. /\ SumFunctionOnSet(h, S) = H[S] /\ H[{}] = 0
        /\ \A s \in SUBSET S : s # {} => H[s] = h[Some(s)] + H[s \ {Some(s)}]
    BY <1>0 DEF AddsUp
  <1> HIDE DEF F, H
  <1>3. {} \in Done
    BY <1>1, <1>2
  <1>4. ASSUME NEW s \in SUBSET S, s # {}, s \ {Some(s)} \in Done
        PROVE  s \in Done
    <2>1. Some(s) \in S
      BY <1>4 DEF Some
    <2>2. F[s] = f[Some(s)] + F[s \ {Some(s)}] /\ H[s] = h[Some(s)] + H[s \ {Some(s)}]
      BY <1>1, <1>2, <1>4
    <2> QED
      BY <1>4, <2>1, <2>2
  <1>5. SUBSET S \subseteq Done
    <2> HIDE DEF Done
    <2> QED
      BY <1>3, <1>4, FoldInduction
  <1> QED
    BY <1>1, <1>2, <1>5

LEMMA SumOfNone ==
  ASSUME NEW S, IsFiniteSet(S), NEW f, \A x \in S : f[x] = 0
  PROVE  SumFunctionOnSet(f, S) = 0
  <1>0. AddsUp(f, S)
    BY SumsAddUp
  <1> DEFINE F == SumsOf(f, S)
             Done == {s \in SUBSET S : F[s] = 0}
  <1>1. /\ SumFunctionOnSet(f, S) = F[S] /\ F[{}] = 0
        /\ \A s \in SUBSET S : s # {} => F[s] = f[Some(s)] + F[s \ {Some(s)}]
    BY <1>0 DEF AddsUp
  <1>2. \A s \in SUBSET S : s # {} => Some(s) \in S
    BY DEF Some
  <1> HIDE DEF F
  <1>3. {} \in Done /\ \A s \in SUBSET S : s # {} /\ s \ {Some(s)} \in Done => s \in Done
    BY <1>1, <1>2
  <1>4. SUBSET S \subseteq Done
    <2> HIDE DEF Done
    <2> QED
      BY <1>3, FoldInduction
  <1> QED
    BY <1>1, <1>4

LEMMA SumChanged ==
  ASSUME NEW S, IsFiniteSet(S), NEW f, NEW h, NEW x \in S, NEW d \in Int,
         \A y \in S : f[y] \in Int, h[x] = f[x] + d,
         \A y \in S : y # x => h[y] = f[y]
  PROVE  /\ SumFunctionOnSet(f, S) \in Int
         /\ SumFunctionOnSet(h, S) = SumFunctionOnSet(f, S) + d
  <1>0. AddsUp(f, S) /\ AddsUp(h, S)
    BY SumsAddUp
  <1> DEFINE F == SumsOf(f, S)
             H == SumsOf(h, S)
             Done == {s \in SUBSET S : /\ F[s] \in Int
                                       /\ H[s] = IF x \in s THEN F[s] + d ELSE F[s]}
  <1>1. /\ SumFunctionOnSet(f, S) = F[S] /\ F[{}] = 0
        /\ \A s \in SUBSET S : s # {} => F[s] = f[Some(s)] + F[s \ {Some(s)}]
    BY <1>0 DEF AddsUp
  <1>2. /\ SumFunctionOnSet(h, S) = H[S] /\ H[{}] = 0
        /\ \A s \in SUBSET S : s # {} => H[s] = h[Some(s)] + H[s \ {Some(s)}]
    BY <1>0 DEF AddsUp
  <1> HIDE DEF F, H
  <1>3. {} \in Done
    BY <1>1, <1>2
  <1>4. ASSUME NEW s \in SUBSET S, s # {}, s \ {Some(s)} \in Done
        PROVE  s \in Done
    <2>1. Some(s) \in s /\ Some(s) \in S /\ f[Some(s)] \in Int
      BY <1>4 DEF Some
    <2>2. F[s] = f[Some(s)] + F[s \ {Some(s)}] /\ H[s] = h[Some(s)] + H[s \ {Some(s)}]
      BY <1>1, <1>2, <1>4
    <2>3. CASE x = Some(s)
      BY <1>4, <2>1, <2>2, <2>3
    <2>4. CASE x # Some(s)
      BY <1>4, <2>1, <2>2, <2>4
    <2> QED
      BY <2>3, <2>4
  <1>5. SUBSET S \subseteq Done
    <2> HIDE DEF Done
    <2> QED
      BY <1>3, <1>4, FoldInduction
  <1> QED
    BY <1>1, <1>2, <1>5

LEMMA SumOfOne ==
  ASSUME NEW f, NEW x, f[x] \in Int
  PROVE  SumFunctionOnSet(f, {x}) = f[x]
  <1>0. AddsUp(f, {x})
    BY FS_Singleton, SumsAddUp
  <1> DEFINE F == SumsOf(f, {x})
  <1>2. /\ SumFunctionOnSet(f, {x}) = F[{x}] /\ F[{}] = 0
        /\ \A s \in SUBSET {x} : s # {} => F[s] = f[Some(s)] + F[s \ {Some(s)}]
    BY <1>0 DEF AddsUp
  <1>3. Some({x}) = x /\ {x} \ {x} = {}
    BY DEF Some
  <1> HIDE DEF F
  <1> QED
    BY <1>2, <1>3

LEMMA SumInt ==
  ASSUME NEW S, IsFiniteSet(S), NEW f, \A x \in S : f[x] \in Int
  PROVE  SumFunctionOnSet(f, S) \in Int
  <1>1. \A x \in S : f[x] \in Int /\ f[x] <= f[x]
    OBVIOUS
  <1> QED
    BY <1>1, SumMonotone

(* Of finitely many, one has the greatest value.                           *)
LEMMA GreatestOf ==
  ASSUME NEW S, IsFiniteSet(S), S # {}, NEW f, \A x \in S : f[x] \in Int
  PROVE  \E x \in S : \A y \in S : f[y] <= f[x]
  <1> DEFINE Done == {s \in SUBSET S : s # {} => \E x \in s : \A y \in s : f[y] <= f[x]}
  <1>1. ASSUME NEW s \in SUBSET S, s # {}, s \ {Some(s)} \in Done
        PROVE  s \in Done
    <2>1. Some(s) \in s
      BY <1>1 DEF Some
    <2>2. CASE s \ {Some(s)} = {}
      <3>1. \A y \in s : y = Some(s) /\ f[y] \in Int
        BY <2>1, <2>2
      <3>2. \A y \in s : f[y] <= f[Some(s)]
        BY <3>1
      <3> QED
        BY <1>1, <2>1, <3>2
    <2>3. CASE s \ {Some(s)} # {}
      <3>1. PICK x \in s \ {Some(s)} : \A y \in s \ {Some(s)} : f[y] <= f[x]
        BY <1>1, <2>3
      <3>2. CASE f[Some(s)] <= f[x]
        <4>1. \A y \in s : f[y] <= f[x]
          BY <3>1, <3>2
        <4> QED
          BY <1>1, <3>1, <4>1
      <3>3. CASE ~(f[Some(s)] <= f[x])
        <4>1. \A y \in s : f[y] \in Int
          BY <1>1
        <4>2. \A y \in s : f[y] <= f[Some(s)]
          BY <2>1, <3>1, <3>3, <4>1
        <4> QED
          BY <1>1, <2>1, <4>2
      <3> QED
        BY <3>2, <3>3
    <2> QED
      BY <2>2, <2>3
  <1>2. {} \in Done
    OBVIOUS
  <1>3. SUBSET S \subseteq Done
    <2> HIDE DEF Done
    <2> QED
      BY <1>1, <1>2, FoldInduction
  <1> QED
    BY <1>3

-----------------------------------------------------------------------------
(* What the managers report.                                               *)
IsNode(n) == DOMAIN n \subseteq ResourceTypes /\ n \in [DOMAIN n -> Int]

LEMMA GreatestExists ==
  ASSUME NEW n \in Nat, NEW S \in SUBSET (0 .. n), S # {}
  PROVE  \E i \in S : \A h \in S : h <= i
  <1> DEFINE T == {n - i : i \in S}
  <1>1. T \in SUBSET Nat /\ T # {}
    <2>1. \A i \in S : i \in Nat /\ n - i \in Nat
      OBVIOUS
    <2> QED
      BY <2>1
  <1>2. PICK t \in T : \A u \in T : ~(u < t)
    <2>1. \E t \in T : \A u \in T : <<u, t>> \notin OpToRel(<, Nat)
      BY <1>1, NatLessThanWellFounded, WFMin
    <2> QED
      BY <1>1, <2>1 DEF OpToRel
  <1>3. PICK i \in S : t = n - i
    BY <1>2
  <1>4. \A h \in S : ~(n - h < n - i)
    BY <1>2, <1>3
  <1> QED
    BY <1>4

Keys == {"cpus", "gpus"} \cup GpuLabels

LEMMA MappedKeys ==
  /\ MapGpu("cpus") = "cpus" /\ "cpus" \notin GpuLabels /\ "gpus" \notin GpuLabels
  /\ \A key \in Keys : MapGpu(key) \in ResourceTypes /\ (MapGpu(key) = "cpus" <=> key = "cpus")
  BY ClusterResourcesAssumption DEF MapGpu, Keys, ResourceTypes

(* A node under SkyShift's names: nothing but the names has changed.       *)
Picked(D, r) == CHOOSE key \in D : MapGpu(key) = r

IsMapped(mapped, reported) ==
  /\ DOMAIN mapped = {MapGpu(key) : key \in DOMAIN reported}
  /\ DOMAIN mapped \subseteq ResourceTypes
  /\ mapped = [r \in DOMAIN mapped |-> mapped[r]]
  /\ "cpus" \in DOMAIN mapped /\ mapped["cpus"] = reported["cpus"]
  /\ \A r \in DOMAIN mapped : LET key == Picked(DOMAIN reported, r)
                             IN  /\ mapped[r] = reported[key]
                                 /\ key \in DOMAIN reported /\ MapGpu(key) = r

LEMMA NodeMapped ==
  ASSUME NEW nodes, NEW i \in DOMAIN nodes, DOMAIN nodes[i] \subseteq Keys,
         "cpus" \in DOMAIN nodes[i]
  PROVE  IsMapped(FuzzyMapGpu(nodes)[i], nodes[i])
  <1> DEFINE mapped == FuzzyMapGpu(nodes)[i]
             D == DOMAIN nodes[i]
  <1>1. mapped = [r \in {MapGpu(key) : key \in D} |-> nodes[i][Picked(D, r)]]
    BY DEF FuzzyMapGpu, Picked
  <1>2. \A r \in {MapGpu(key) : key \in D} : Picked(D, r) \in D /\ MapGpu(Picked(D, r)) = r
    BY DEF Picked
  <1>3. Picked(D, "cpus") = "cpus" /\ "cpus" \in {MapGpu(key) : key \in D}
    BY <1>2, MappedKeys
  <1>4. {MapGpu(key) : key \in D} \subseteq ResourceTypes
    BY MappedKeys
  <1> HIDE DEF mapped
  <1>5. /\ DOMAIN mapped = {MapGpu(key) : key \in D}
        /\ \A r \in DOMAIN mapped : mapped[r] = nodes[i][Picked(D, r)]
    BY <1>1
  <1>6. mapped = [r \in DOMAIN mapped |-> mapped[r]]
    BY <1>1
  <1>7. IsMapped(mapped, nodes[i])
    BY <1>2, <1>3, <1>4, <1>5, <1>6 DEF IsMapped
  <1> QED
    BY <1>7 DEF mapped

(* A node of CPUs and GPUs of one type.                                    *)
LEMMA TwoKeysMapped ==
  ASSUME NEW nodes, NEW i \in DOMAIN nodes, NEW t \in Keys, t # "cpus",
         DOMAIN nodes[i] = {"cpus", t}, nodes[i][t] \in Int
  PROVE  LET mapped == FuzzyMapGpu(nodes)[i]
         IN  /\ DOMAIN mapped = {"cpus", MapGpu(t)} /\ MapGpu(t) # "cpus"
             /\ mapped["cpus"] = nodes[i]["cpus"] /\ mapped[MapGpu(t)] = nodes[i][t]
             /\ GpusOf(mapped) = nodes[i][t]
  <1> DEFINE mapped == FuzzyMapGpu(nodes)[i]
             D == DOMAIN nodes[i]
  <1>0. D = {"cpus", t} /\ D \subseteq Keys /\ "cpus" \in D
    BY DEF Keys
  <1>1. IsMapped(mapped, nodes[i])
    BY <1>0, NodeMapped
  <1> HIDE DEF mapped
  <1>2. MapGpu(t) # "cpus" /\ MapGpu("cpus") = "cpus"
    BY MappedKeys
  <1>3. DOMAIN mapped = {"cpus", MapGpu(t)} /\ mapped["cpus"] = nodes[i]["cpus"]
    BY <1>0, <1>1, <1>2 DEF IsMapped
  <1>4. LET key == Picked(D, MapGpu(t))
        IN  mapped[MapGpu(t)] = nodes[i][key] /\ key \in D /\ MapGpu(key) = MapGpu(t)
    BY <1>1, <1>3 DEF IsMapped
  <1>5. mapped[MapGpu(t)] = nodes[i][t]
    BY <1>0, <1>2, <1>4
  <1>6. GpusOf(mapped) = mapped[MapGpu(t)]
    <2>1. DOMAIN mapped \ {"cpus"} = {MapGpu(t)}
      BY <1>2, <1>3
    <2> QED
      BY <1>5, <2>1, SumOfOne DEF GpusOf
  <1> QED
    BY <1>2, <1>3, <1>5, <1>6 DEF mapped

LEMMA OneKeyMapped ==
  ASSUME NEW nodes, NEW i \in DOMAIN nodes, DOMAIN nodes[i] = {"cpus"}
  PROVE  LET mapped == FuzzyMapGpu(nodes)[i]
         IN  DOMAIN mapped = {"cpus"} /\ mapped["cpus"] = nodes[i]["cpus"] /\ GpusOf(mapped) = 0
  <1> DEFINE mapped == FuzzyMapGpu(nodes)[i]
             D == DOMAIN nodes[i]
  <1>0. D \subseteq Keys /\ "cpus" \in D
    BY DEF Keys
  <1>1. IsMapped(mapped, nodes[i])
    BY <1>0, NodeMapped
  <1> HIDE DEF mapped
  <1>2. DOMAIN mapped = {"cpus"} /\ mapped["cpus"] = nodes[i]["cpus"]
    BY <1>1, MappedKeys DEF IsMapped
  <1>3. DOMAIN mapped \ {"cpus"} = {}
    BY <1>2
  <1>4. GpusOf(mapped) = 0
    BY <1>3, FS_EmptySet, SumOfNone DEF GpusOf
  <1> QED
    BY <1>2, <1>4 DEF mapped

LEMMA SumNat ==
  ASSUME NEW S, IsFiniteSet(S), NEW f, \A x \in S : f[x] \in Nat
  PROVE  SumFunctionOnSet(f, S) \in Nat
  <1> DEFINE zero == [x \in S |-> 0]
  <1>1. \A x \in S : zero[x] = 0
    OBVIOUS
  <1> HIDE DEF zero
  <1>2. SumFunctionOnSet(zero, S) = 0
    BY <1>1, SumOfNone
  <1>3. SumFunctionOnSet(f, S) \in Int /\ SumFunctionOnSet(zero, S) <= SumFunctionOnSet(f, S)
    BY <1>1, SumMonotone
  <1> QED
    BY <1>2, <1>3

(* Finished pods are counted with the running ones.                        *)
LEMMA RunningIsRequested ==
  ASSUME NEW pods \in Pods
  PROVE  /\ RunningCpus(pods) \in Nat /\ RunningGpus(pods) \in Nat
         /\ RequestedOf(pods, LAMBDA p : p.cpus) \in Int
         /\ RequestedOf(pods, LAMBDA p : p.gpus) \in Int
         /\ RunningCpus(pods) <= RequestedOf(pods, LAMBDA p : p.cpus)
         /\ RunningGpus(pods) <= RequestedOf(pods, LAMBDA p : p.gpus)
  <1> DEFINE D == DOMAIN pods
             runC == [k \in D |-> IF pods[k].running THEN pods[k].cpus ELSE 0]
             runG == [k \in D |-> IF pods[k].running THEN pods[k].gpus ELSE 0]
             allC == [k \in D |-> pods[k].cpus]
             allG == [k \in D |-> pods[k].gpus]
  <1>1. IsFiniteSet(D)
    <2>1. D = 1 .. Len(pods) /\ Len(pods) \in Nat
      BY LenProperties DEF Pods
    <2> QED
      BY <2>1, FS_Interval
  <1>2. \A k \in D : pods[k].cpus \in Nat /\ pods[k].gpus \in Nat
    <2>1. \A k \in D : pods[k] \in [cpus : Nat, gpus : Nat, running : BOOLEAN]
      BY LenProperties, ElementOfSeq DEF Pods
    <2> QED
      BY <2>1
  <1>3. /\ DOMAIN runC = D /\ DOMAIN runG = D /\ DOMAIN allC = D /\ DOMAIN allG = D
        /\ \A k \in D : /\ runC[k] \in Nat /\ runC[k] <= allC[k] /\ allC[k] \in Nat
                        /\ runG[k] \in Nat /\ runG[k] <= allG[k] /\ allG[k] \in Nat
    BY <1>2
  <1>4. /\ RunningCpus(pods) = SumFunctionOnSet(runC, D)
        /\ RunningGpus(pods) = SumFunctionOnSet(runG, D)
        /\ RequestedOf(pods, LAMBDA p : p.cpus) = SumFunctionOnSet(allC, D)
        /\ RequestedOf(pods, LAMBDA p : p.gpus) = SumFunctionOnSet(allG, D)
    BY DEF RunningCpus, RunningGpus, RequestedOf, SumFunction
  <1> HIDE DEF runC, runG, allC, allG, D
  <1>5. SumFunctionOnSet(runC, D) \in Nat /\ SumFunctionOnSet(runG, D) \in Nat
    BY <1>1, <1>3, SumNat
  <1>6. SumFunctionOnSet(allC, D) \in Nat /\ SumFunctionOnSet(allG, D) \in Nat
    BY <1>1, <1>3, SumNat
  <1>7. SumFunctionOnSet(runC, D) <= SumFunctionOnSet(allC, D)
    BY <1>1, <1>3, SumMonotone
  <1>8. SumFunctionOnSet(runG, D) <= SumFunctionOnSet(allG, D)
    BY <1>1, <1>3, SumMonotone
  <1> QED
    BY <1>4, <1>5, <1>6, <1>7, <1>8

LEMMA GpuTypeIsKey ==
  ASSUME NEW nodes \in Seq(KubernetesNodes), NEW i \in DOMAIN nodes
  PROVE  /\ GpuType(nodes, i) \in Keys /\ GpuType(nodes, i) # "cpus"
         /\ Labelled(nodes, i) # {} =>
              \E j \in Labelled(nodes, i) : GpuType(nodes, i) = nodes[j].label
  <1>1. i \in Nat /\ Labelled(nodes, i) \in SUBSET (0 .. i) /\ Labelled(nodes, i) \subseteq DOMAIN nodes
    BY LenProperties DEF Labelled
  <1>2. CASE Labelled(nodes, i) = {}
    BY <1>2, MappedKeys DEF GpuType, Keys
  <1>3. CASE Labelled(nodes, i) # {}
    <2> DEFINE j == CHOOSE j \in Labelled(nodes, i) : \A h \in Labelled(nodes, i) : h <= j
    <2>1. j \in Labelled(nodes, i)
      BY <1>1, <1>3, GreatestExists
    <2>2. GpuType(nodes, i) = nodes[j].label
      BY <1>3 DEF GpuType
    <2> HIDE DEF j
    <2>3. nodes[j] \in KubernetesNodes /\ nodes[j].label # "none"
      BY <1>1, <2>1, ElementOfSeq DEF Labelled
    <2> QED
      BY <2>1, <2>2, <2>3, MappedKeys DEF KubernetesNodes, Keys
  <1> QED
    BY <1>2, <1>3

(* What is shown of every report, node by node.                            *)
NodeReported(c, n) ==
  LET a == Allocatable(c)[n]
      free == Free(c, n)
  IN  /\ IsNode(a) /\ "cpus" \in DOMAIN a
      /\ \A r \in DOMAIN a : a[r] <= Capacity(c)[n][r]
      /\ free.cpus \in Nat /\ free.gpus \in Nat /\ a["cpus"] <= free.cpus
      /\ c.manager # "ray" =>
           /\ GpusOf(a) \in Int /\ GpusOf(a) <= free.gpus
           /\ \A r \in DOMAIN a \ {"cpus"} : a[r] <= free.gpus

(* Two lists of nodes with CPUs and one type of GPUs each: the capacities  *)
(* and what is left of them.                                               *)
LEMMA TwoKeysReported ==
  ASSUME NEW c, NEW cap, NEW alloc, NEW n \in DOMAIN alloc, n \in DOMAIN cap,
         Allocatable(c) = FuzzyMapGpu(alloc), Capacity(c) = FuzzyMapGpu(cap),
         NEW t \in Keys, t # "cpus", DOMAIN alloc[n] = {"cpus", t}, DOMAIN cap[n] = {"cpus", t},
         alloc[n]["cpus"] \in Int, alloc[n][t] \in Int,
         cap[n]["cpus"] \in Int, cap[n][t] \in Int,
         alloc[n]["cpus"] <= cap[n]["cpus"], alloc[n][t] <= cap[n][t],
         Free(c, n).cpus \in Nat, Free(c, n).gpus \in Nat,
         alloc[n]["cpus"] <= Free(c, n).cpus, alloc[n][t] <= Free(c, n).gpus
  PROVE  NodeReported(c, n)
  <1> DEFINE a == FuzzyMapGpu(alloc)[n]
             b == FuzzyMapGpu(cap)[n]
  <1>1. /\ DOMAIN a = {"cpus", MapGpu(t)} /\ MapGpu(t) # "cpus"
        /\ a["cpus"] = alloc[n]["cpus"] /\ a[MapGpu(t)] = alloc[n][t] /\ GpusOf(a) = alloc[n][t]
    BY TwoKeysMapped
  <1>2. b["cpus"] = cap[n]["cpus"] /\ b[MapGpu(t)] = cap[n][t]
    BY TwoKeysMapped
  <1>3. a = [r \in DOMAIN a |-> a[r]] /\ DOMAIN a \subseteq ResourceTypes
    BY NodeMapped DEF Keys, IsMapped
  <1> HIDE DEF a, b
  <1>4. \A r \in DOMAIN a : a[r] \in Int /\ a[r] <= b[r]
    BY <1>1, <1>2
  <1>5. IsNode(a)
    BY <1>3, <1>4 DEF IsNode
  <1> QED
    BY <1>1, <1>4, <1>5 DEF NodeReported, a, b

LEMMA KubernetesReported ==
  ASSUME NEW c, c.manager = "k8", c.nodes \in Seq(KubernetesNodes), NEW n \in DOMAIN c.nodes,
         RunningCpus(c.nodes[n].pods) <= c.nodes[n].cpus,
         RunningGpus(c.nodes[n].pods) <= c.nodes[n].gpus
  PROVE  NodeReported(c, n)
  <1> DEFINE nodes == c.nodes
             t == GpuType(nodes, n)
             Cpus(i) == RequestedOf(nodes[i].pods, LAMBDA p : p.cpus)
             Gpus(i) == RequestedOf(nodes[i].pods, LAMBDA p : p.gpus)
             cap == ProcessResources(nodes)
             alloc == [i \in DOMAIN nodes |->
                         [cap[i] EXCEPT !["cpus"] = @ - Cpus(i), ![GpuType(nodes, i)] = @ - Gpus(i)]]
  <1>1. Allocatable(c) = FuzzyMapGpu(alloc) /\ Capacity(c) = FuzzyMapGpu(cap)
    BY DEF Allocatable, KubernetesAllocatable, Capacity
  <1>2. /\ nodes[n].cpus \in Nat /\ nodes[n].gpus \in Nat /\ nodes[n].pods \in Pods
    <2>1. nodes[n] \in KubernetesNodes
      BY LenProperties, ElementOfSeq
    <2> QED
      BY <2>1 DEF KubernetesNodes
  <1>3. t \in Keys /\ t # "cpus"
    BY GpuTypeIsKey
  <1>4. /\ n \in DOMAIN cap
        /\ cap[n] = [r \in {"cpus", t} |-> IF r = "cpus" THEN nodes[n].cpus ELSE nodes[n].gpus]
    BY DEF ProcessResources
  <1>5. n \in DOMAIN alloc
        /\ alloc[n] = [cap[n] EXCEPT !["cpus"] = @ - Cpus(n), ![t] = @ - Gpus(n)]
    OBVIOUS
  <1>6. /\ Cpus(n) \in Int /\ Gpus(n) \in Int
        /\ RunningCpus(nodes[n].pods) \in Nat /\ RunningCpus(nodes[n].pods) <= Cpus(n)
        /\ RunningGpus(nodes[n].pods) \in Nat /\ RunningGpus(nodes[n].pods) <= Gpus(n)
    BY <1>2, RunningIsRequested
  <1>7. Free(c, n) = [cpus |-> nodes[n].cpus - RunningCpus(nodes[n].pods),
                      gpus |-> nodes[n].gpus - RunningGpus(nodes[n].pods)]
    BY DEF Free
  <1>8. /\ Free(c, n).cpus = nodes[n].cpus - RunningCpus(nodes[n].pods)
        /\ Free(c, n).gpus = nodes[n].gpus - RunningGpus(nodes[n].pods)
    BY <1>7
  <1> HIDE DEF Cpus, Gpus, cap, alloc, t
  <1>9. /\ DOMAIN cap[n] = {"cpus", t}
        /\ cap[n]["cpus"] = nodes[n].cpus /\ cap[n][t] = nodes[n].gpus
    BY <1>3, <1>4
  <1>10. /\ DOMAIN alloc[n] = {"cpus", t}
         /\ alloc[n]["cpus"] = nodes[n].cpus - Cpus(n) /\ alloc[n][t] = nodes[n].gpus - Gpus(n)
    BY <1>3, <1>5, <1>9
  <1>11. /\ alloc[n]["cpus"] \in Int /\ alloc[n][t] \in Int
         /\ cap[n]["cpus"] \in Int /\ cap[n][t] \in Int
         /\ alloc[n]["cpus"] <= cap[n]["cpus"] /\ alloc[n][t] <= cap[n][t]
         /\ Free(c, n).cpus \in Nat /\ Free(c, n).gpus \in Nat
         /\ alloc[n]["cpus"] <= Free(c, n).cpus /\ alloc[n][t] <= Free(c, n).gpus
    <2> DEFINE u == nodes[n].cpus
               v == nodes[n].gpus
    <2>1. \A x, y \in Nat : \A z \in Int : y <= x /\ y <= z =>
            x - y \in Nat /\ x - z \in Int /\ x - z <= x /\ x - z <= x - y
      OBVIOUS
    <2>2. u - Cpus(n) \in Int /\ u - Cpus(n) <= u /\ u - RunningCpus(nodes[n].pods) \in Nat
          /\ u - Cpus(n) <= u - RunningCpus(nodes[n].pods)
      BY <1>2, <1>6, <2>1
    <2>3. v - Gpus(n) \in Int /\ v - Gpus(n) <= v /\ v - RunningGpus(nodes[n].pods) \in Nat
          /\ v - Gpus(n) <= v - RunningGpus(nodes[n].pods)
      BY <1>2, <1>6, <2>1
    <2> QED
      BY <1>2, <1>8, <1>9, <1>10, <2>2, <2>3
  <1> QED
    BY <1>1, <1>3, <1>4, <1>5, <1>9, <1>10, <1>11, TwoKeysReported

LEMMA SlurmReported ==
  ASSUME NEW c, c.manager = "slurm", Schedulable(c.nodes) \in Seq(SlurmNodes),
         NEW n \in DOMAIN Schedulable(c.nodes),
         Schedulable(c.nodes)[n].alloc <= Schedulable(c.nodes)[n].cpus,
         Schedulable(c.nodes)[n].gres.used <= Schedulable(c.nodes)[n].gres.count
  PROVE  NodeReported(c, n)
  <1> DEFINE nodes == Schedulable(c.nodes)
             up == nodes[n]
             cap == [i \in DOMAIN nodes |-> SlurmNode(nodes[i], nodes[i].cpus,
                       IF nodes[i].gres.type = "null" THEN 0 ELSE nodes[i].gres.count)]
             alloc == [i \in DOMAIN nodes |-> SlurmNode(nodes[i], nodes[i].cpus - nodes[i].alloc,
                         IF nodes[i].gres.type = "null" THEN 0
                         ELSE nodes[i].gres.count - nodes[i].gres.used)]
  <1>1. Allocatable(c) = FuzzyMapGpu(alloc) /\ Capacity(c) = FuzzyMapGpu(cap)
    BY DEF Allocatable, SlurmAllocatable, Capacity, SlurmCapacity
  <1>2. /\ up.cpus \in Nat /\ up.alloc \in Nat /\ up.gres.type \in GpuLabels \cup {"null"}
        /\ up.gres.count \in Nat /\ up.gres.used \in Nat
    <2>1. up \in SlurmNodes
      BY LenProperties, ElementOfSeq
    <2> QED
      BY <2>1 DEF SlurmNodes
  <1>3. /\ Free(c, n).cpus = up.cpus - up.alloc
        /\ Free(c, n).gpus = IF up.gres.type = "null" THEN 0 ELSE up.gres.count - up.gres.used
    BY DEF Free
  <1>4. \A x, y \in Nat : y <= x => x - y \in Nat /\ x - y <= x
    OBVIOUS
  <1>5. n \in DOMAIN cap /\ n \in DOMAIN alloc
    OBVIOUS
  <1>6. CASE up.gres.type # "null"
    <2> DEFINE t == up.gres.type
    <2>1. t \in Keys /\ t # "cpus"
      BY <1>2, <1>6, MappedKeys DEF Keys
    <2>2. /\ DOMAIN cap[n] = {"cpus", t}
          /\ cap[n]["cpus"] = up.cpus /\ cap[n][t] = up.gres.count
      BY <1>6, <2>1 DEF SlurmNode
    <2>3. /\ DOMAIN alloc[n] = {"cpus", t}
          /\ alloc[n]["cpus"] = up.cpus - up.alloc /\ alloc[n][t] = up.gres.count - up.gres.used
      BY <1>6, <2>1 DEF SlurmNode
    <2>4. /\ Free(c, n).cpus = up.cpus - up.alloc
          /\ Free(c, n).gpus = up.gres.count - up.gres.used
      BY <1>3, <1>6
    <2>5. /\ up.cpus - up.alloc \in Nat /\ up.cpus - up.alloc <= up.cpus
          /\ up.gres.count - up.gres.used \in Nat
          /\ up.gres.count - up.gres.used <= up.gres.count
      BY <1>2, <1>4
    <2> HIDE DEF cap, alloc
    <2>6. /\ alloc[n]["cpus"] \in Int /\ alloc[n][t] \in Int
          /\ cap[n]["cpus"] \in Int /\ cap[n][t] \in Int
          /\ alloc[n]["cpus"] <= cap[n]["cpus"] /\ alloc[n][t] <= cap[n][t]
          /\ Free(c, n).cpus \in Nat /\ Free(c, n).gpus \in Nat
          /\ alloc[n]["cpus"] <= Free(c, n).cpus /\ alloc[n][t] <= Free(c, n).gpus
      BY <1>2, <2>2, <2>3, <2>4, <2>5
    <2> HIDE DEF t
    <2> QED
      BY <1>1, <1>5, <2>1, <2>2, <2>3, <2>6, TwoKeysReported
  <1>7. CASE up.gres.type = "null"
    <2>1. DOMAIN cap[n] = {"cpus"} /\ cap[n]["cpus"] = up.cpus
      BY <1>7 DEF SlurmNode
    <2>2. DOMAIN alloc[n] = {"cpus"} /\ alloc[n]["cpus"] = up.cpus - up.alloc
      BY <1>7 DEF SlurmNode
    <2>3. up.cpus - up.alloc \in Nat /\ up.cpus - up.alloc <= up.cpus
      BY <1>2, <1>4
    <2>4. Free(c, n).cpus = up.cpus - up.alloc /\ Free(c, n).gpus = 0
      BY <1>3, <1>7
    <2> HIDE DEF cap, alloc
    <2> DEFINE a == FuzzyMapGpu(alloc)[n]
    <2>5. DOMAIN a = {"cpus"} /\ a["cpus"] = up.cpus - up.alloc /\ GpusOf(a) = 0
      BY <1>5, <2>2, OneKeyMapped
    <2>6. FuzzyMapGpu(cap)[n]["cpus"] = up.cpus
      BY <1>5, <2>1, OneKeyMapped
    <2>7. a = [r \in DOMAIN a |-> a[r]] /\ DOMAIN a \subseteq ResourceTypes
      BY <1>5, <2>2, NodeMapped DEF Keys, IsMapped
    <2> HIDE DEF a
    <2>8. IsNode(a)
      BY <2>3, <2>5, <2>7 DEF IsNode
    <2>9. \A r \in DOMAIN a : a[r] <= FuzzyMapGpu(cap)[n][r]
      BY <2>3, <2>5, <2>6
    <2> QED
      BY <1>1, <1>2, <2>3, <2>4, <2>5, <2>8, <2>9 DEF NodeReported, a
  <1> QED
    BY <1>6, <1>7

LEMMA RayReported ==
  ASSUME NEW c, c.manager = "ray", NEW n \in DOMAIN c.nodes, IsRayNode(c.nodes[n])
  PROVE  NodeReported(c, n)
  <1> DEFINE nodes == c.nodes
             names == DOMAIN nodes[n]
             cap == ProcessClusterStatus(nodes, FALSE)
             alloc == ProcessClusterStatus(nodes, TRUE)
             Name(r) == CHOOSE name \in names : RayKey(name) = r
             D == {RayKey(name) : name \in names}
  <1>1. Allocatable(c) = FuzzyMapGpu(alloc) /\ Capacity(c) = FuzzyMapGpu(cap)
    BY DEF Allocatable, RayAllocatable, Capacity
  <1>2. "CPU" \in names
        /\ \A name \in names : /\ nodes[n][name][1] \in Nat /\ nodes[n][name][2] \in Nat
                              /\ nodes[n][name][1] <= nodes[n][name][2]
                              /\ name \in {"CPU", "GPU"} \cup GpuLabels
    BY DEF IsRayNode
  <1>3. \A name \in names : RayKey(name) \in Keys /\ (RayKey(name) = "cpus" <=> name = "CPU")
    BY <1>2, MappedKeys DEF RayKey, Keys
  <1>4. \A r \in D : Name(r) \in names /\ RayKey(Name(r)) = r
    OBVIOUS
  <1>5. /\ n \in DOMAIN cap /\ n \in DOMAIN alloc
        /\ cap[n] = [r \in D |-> nodes[n][Name(r)][2]]
        /\ alloc[n] = [r \in D |-> nodes[n][Name(r)][2] - nodes[n][Name(r)][1]]
    BY DEF ProcessClusterStatus
  <1>6. Name("cpus") = "CPU" /\ "cpus" \in D /\ D \subseteq Keys
    BY <1>2, <1>3, <1>4
  <1>7. \A x, y \in Nat : y <= x => x - y \in Nat /\ x - y <= x
    OBVIOUS
  <1>8. /\ Free(c, n).cpus = nodes[n]["CPU"][2] - nodes[n]["CPU"][1]
        /\ Free(c, n).gpus = IF "GPU" \in names THEN nodes[n]["GPU"][2] - nodes[n]["GPU"][1] ELSE 0
    BY DEF Free
  <1>9. Free(c, n).cpus \in Nat /\ Free(c, n).gpus \in Nat
    BY <1>2, <1>7, <1>8
  <1> HIDE DEF cap, alloc, D, Name
  <1>10. /\ DOMAIN cap[n] = D /\ DOMAIN alloc[n] = D
         /\ \A r \in D : alloc[n][r] \in Int /\ alloc[n][r] <= cap[n][r]
         /\ alloc[n]["cpus"] = Free(c, n).cpus
    BY <1>2, <1>4, <1>5, <1>6, <1>7, <1>8
  <1> DEFINE a == FuzzyMapGpu(alloc)[n]
             b == FuzzyMapGpu(cap)[n]
  <1>11. IsMapped(a, alloc[n]) /\ IsMapped(b, cap[n])
    BY <1>5, <1>6, <1>10, NodeMapped
  <1> HIDE DEF a, b
  <1>12. \A r \in DOMAIN a : a[r] \in Int /\ a[r] <= b[r]
    BY <1>10, <1>11 DEF IsMapped
  <1>13. IsNode(a) /\ "cpus" \in DOMAIN a /\ a["cpus"] = Free(c, n).cpus
    BY <1>10, <1>11, <1>12 DEF IsMapped, IsNode
  <1> QED
    BY <1>1, <1>9, <1>12, <1>13 DEF NodeReported, a, b

(* Kubernetes' report fails only where the types of GPUs are mixed.        *)
LEMMA OnlyMixedTypesRaise ==
  ASSUME NEW nodes \in Seq(KubernetesNodes), KubernetesRaises(nodes)
  PROVE  \E i, j \in DOMAIN nodes : nodes[i].label # nodes[j].label
  <1> SUFFICES ASSUME \A i, j \in DOMAIN nodes : nodes[i].label = nodes[j].label PROVE FALSE
    OBVIOUS
  <1>1. PICK i \in DOMAIN nodes : GpuType(nodes, i) # GpuType(nodes, Len(nodes))
    BY DEF KubernetesRaises
  <1>2. /\ Len(nodes) \in Nat /\ DOMAIN nodes = 1 .. Len(nodes) /\ Len(nodes) \in DOMAIN nodes
        /\ i \in Nat /\ 1 <= i
    BY <1>1, LenProperties
  <1>3. ASSUME NEW k \in DOMAIN nodes
        PROVE  /\ Labelled(nodes, k) \subseteq DOMAIN nodes
               /\ k \in Labelled(nodes, k) <=> nodes[k].label # "none"
               /\ Labelled(nodes, k) # {} => GpuType(nodes, k) = nodes[i].label
    BY <1>2, GpuTypeIsKey DEF Labelled
  <1>4. CASE nodes[i].label = "none"
    <2>1. Labelled(nodes, i) = {} /\ Labelled(nodes, Len(nodes)) = {}
      BY <1>2, <1>3, <1>4 DEF Labelled
    <2> QED
      BY <1>1, <2>1 DEF GpuType
  <1>5. CASE nodes[i].label # "none"
    <2>1. Labelled(nodes, i) # {} /\ Labelled(nodes, Len(nodes)) # {}
      BY <1>2, <1>3, <1>5
    <2> QED
      BY <1>1, <1>2, <1>3, <2>1
  <1> QED
    BY <1>4, <1>5

(* A report is a list of nodes.                                            *)
LEMMA ListOfNodes ==
  ASSUME NEW f, NEW n \in Nat, f = [i \in 1 .. n |-> f[i]]
  PROVE  DOMAIN f = 1 .. Len(f) /\ Len(f) \in Nat
  <1> DEFINE S == {f[i] : i \in 1 .. n}
  <1>1. \A i \in 1 .. n : f[i] \in S
    OBVIOUS
  <1> HIDE DEF S
  <1>2. f \in [1 .. n -> S]
    BY <1>1
  <1>3. f \in Seq(S)
    BY <1>2
  <1> QED
    BY <1>3, LenProperties

LEMMA ClusterReported ==
  ASSUME NEW c, IsCluster(c)
  PROVE  /\ DOMAIN Allocatable(c) = 1 .. Len(Allocatable(c)) /\ Len(Allocatable(c)) \in Nat
         /\ \A n \in DOMAIN Allocatable(c) : NodeReported(c, n)
         /\ StatusRaises(c) => /\ c.manager = "k8"
                               /\ \E i, j \in DOMAIN c.nodes : c.nodes[i].label # c.nodes[j].label
  <1>1. ASSUME NEW nodes, NEW alloc, DOMAIN nodes = 1 .. Len(nodes), Len(nodes) \in Nat,
               DOMAIN alloc = DOMAIN nodes, Allocatable(c) = FuzzyMapGpu(alloc)
        PROVE  /\ DOMAIN Allocatable(c) = 1 .. Len(Allocatable(c)) /\ Len(Allocatable(c)) \in Nat
               /\ DOMAIN Allocatable(c) = DOMAIN nodes
    <2>1. Allocatable(c) = [i \in 1 .. Len(nodes) |-> Allocatable(c)[i]]
          /\ DOMAIN Allocatable(c) = DOMAIN nodes
      BY <1>1 DEF FuzzyMapGpu
    <2> QED
      BY <1>1, <2>1, ListOfNodes
  <1>2. CASE c.manager = "k8"
    <2>1. /\ c.nodes \in Seq(KubernetesNodes)
          /\ \A n \in DOMAIN c.nodes : /\ RunningCpus(c.nodes[n].pods) <= c.nodes[n].cpus
                                      /\ RunningGpus(c.nodes[n].pods) <= c.nodes[n].gpus
      BY <1>2 DEF IsCluster
    <2>2. DOMAIN c.nodes = 1 .. Len(c.nodes) /\ Len(c.nodes) \in Nat
      BY <2>1, LenProperties
    <2>3. \E alloc : DOMAIN alloc = DOMAIN c.nodes /\ Allocatable(c) = FuzzyMapGpu(alloc)
      BY <1>2 DEF Allocatable, KubernetesAllocatable
    <2>4. DOMAIN Allocatable(c) = DOMAIN c.nodes
          /\ DOMAIN Allocatable(c) = 1 .. Len(Allocatable(c)) /\ Len(Allocatable(c)) \in Nat
      BY <1>1, <2>2, <2>3
    <2> QED
      BY <1>2, <2>1, <2>4, KubernetesReported, OnlyMixedTypesRaise DEF StatusRaises
  <1>3. CASE c.manager = "slurm"
    <2> DEFINE nodes == Schedulable(c.nodes)
    <2>1. /\ nodes \in Seq(SlurmNodes)
          /\ \A n \in DOMAIN nodes : /\ nodes[n].alloc <= nodes[n].cpus
                                    /\ nodes[n].gres.used <= nodes[n].gres.count
      BY <1>3 DEF IsCluster
    <2>2. DOMAIN nodes = 1 .. Len(nodes) /\ Len(nodes) \in Nat
      BY <2>1, LenProperties
    <2>3. \E alloc : DOMAIN alloc = DOMAIN nodes /\ Allocatable(c) = FuzzyMapGpu(alloc)
      BY <1>3 DEF Allocatable, SlurmAllocatable
    <2>4. DOMAIN Allocatable(c) = DOMAIN nodes
          /\ DOMAIN Allocatable(c) = 1 .. Len(Allocatable(c)) /\ Len(Allocatable(c)) \in Nat
      BY <1>1, <2>2, <2>3
    <2> QED
      BY <1>3, <2>1, <2>4, SlurmReported DEF StatusRaises
  <1>4. CASE c.manager = "ray"
    <2>1. /\ DOMAIN c.nodes = 1 .. Len(c.nodes) /\ Len(c.nodes) \in Nat
          /\ \A n \in DOMAIN c.nodes : IsRayNode(c.nodes[n])
      BY <1>4 DEF IsCluster
    <2>2. \E alloc : DOMAIN alloc = DOMAIN c.nodes /\ Allocatable(c) = FuzzyMapGpu(alloc)
      BY <1>4 DEF Allocatable, RayAllocatable, ProcessClusterStatus
    <2>3. DOMAIN Allocatable(c) = DOMAIN c.nodes
          /\ DOMAIN Allocatable(c) = 1 .. Len(Allocatable(c)) /\ Len(Allocatable(c)) \in Nat
      BY <1>1, <2>1, <2>2
    <2> QED
      BY <1>4, <2>1, <2>3, RayReported DEF StatusRaises
  <1> QED
    BY <1>2, <1>3, <1>4 DEF IsCluster

-----------------------------------------------------------------------------
(* What is fixed from the start: the clusters and the job.                 *)
Given == clusters \in Caches /\ job \in JobSpecs

(* The loop and the list it runs over.                                     *)
LoopFits == /\ stage \in {"filter", "spread", "active", "failed"}
            /\ at \in Nat \ {0} /\ node \in Nat \ {0}
            /\ candidates \in Seq(DOMAIN clusters)

(* The replicas so far and the room they left.                             *)
CountsFit == /\ total \in 0 .. job.replicas
             /\ DOMAIN left = DOMAIN clusters /\ DOMAIN placed = DOMAIN clusters
             /\ \A k \in DOMAIN clusters :
                  /\ DOMAIN left[k] = DOMAIN Nodes(k)
                  /\ \A n \in DOMAIN Nodes(k) : left[k][n] \in [DOMAIN Nodes(k)[n] -> Int]
                  /\ placed[k] \in [DOMAIN Nodes(k) -> Nat]

Typed == Given /\ LoopFits /\ CountsFit

LEMMA TypedIsTypeOK == Typed => TypeOK
  BY DEF Typed, Given, LoopFits, CountsFit, TypeOK

LEMMA NodesFacts ==
  ASSUME Given, NEW k \in DOMAIN clusters
  PROVE  /\ Len(Nodes(k)) \in Nat /\ DOMAIN Nodes(k) = 1 .. Len(Nodes(k))
         /\ \A n \in DOMAIN Nodes(k) :
              /\ IsNode(Nodes(k)[n]) /\ NodeReported(clusters[k], n)
              /\ Nodes(k)[n] = Allocatable(clusters[k])[n]
  <1>1. IsCluster(clusters[k])
    BY PlacementAssumption DEF Given
  <1>2. CASE StatusRaises(clusters[k])
    BY <1>2 DEF Nodes, Reported
  <1>3. CASE ~StatusRaises(clusters[k])
    BY <1>1, <1>3, ClusterReported DEF Nodes, Reported, NodeReported
  <1> QED
    BY <1>2, <1>3

LEMMA FiniteResources == IsFiniteSet(ResourceTypes)
  <1>1. IsFiniteSet({"cpus"})
    BY FS_Singleton
  <1>2. IsFiniteSet({"cpus"} \cup {"gpus"})
    BY <1>1, FS_AddElement
  <1>3. IsFiniteSet({"cpus"} \cup {"gpus"} \cup Accelerators)
    BY <1>2, FS_Union, ClusterResourcesAssumption
  <1>4. ResourceTypes = {"cpus"} \cup {"gpus"} \cup Accelerators
    BY DEF ResourceTypes
  <1> QED
    BY <1>3, <1>4

LEMMA WeightIsInt ==
  ASSUME Given, NEW labels
  PROVE  PreferenceWeight(labels, job) \in Int
  <1> DEFINE met == {p \in job.preferences : StanzaSatisfied(p.stanza, labels)}
             weights == {DefaultMinWeight} \cup {p.weight : p \in met}
             weight == [p \in met |-> p.weight]
  <1>1. IsFiniteSet(met) /\ \A p \in met : weight[p] \in Int /\ weight[p] = p.weight
    BY PlacementAssumption, FS_Subset DEF Given
  <1>2. DefaultMinWeight \in Int /\ DefaultMaxWeight \in Int
    BY PlacementAssumption
  <1>3. weights \subseteq Int
    BY <1>1, <1>2
  <1>4. \E w \in weights : \A v \in weights : v <= w
    <2>1. CASE met = {}
      BY <1>2, <2>1
    <2>2. CASE met # {}
      <3>1. PICK p \in met : \A q \in met : weight[q] <= weight[p]
        <4> HIDE DEF met, weight
        <4> QED
          BY <1>1, <2>2, GreatestOf
      <3>2. \A q \in met : q.weight \in Int /\ q.weight <= p.weight
        BY <1>1, <3>1
      <3>3. p.weight \in weights /\ p.weight \in Int /\ DefaultMinWeight \in weights
        BY <3>1, <3>2
      <3>4. \A v \in weights : v = DefaultMinWeight \/ \E q \in met : v = q.weight
        OBVIOUS
      <3> HIDE DEF met, weights, weight
      <3>5. CASE DefaultMinWeight <= p.weight
        BY <3>2, <3>3, <3>4, <3>5
      <3>6. CASE ~(DefaultMinWeight <= p.weight)
        <4>1. \A v \in weights : v <= DefaultMinWeight
          BY <1>2, <3>2, <3>3, <3>4, <3>6
        <4> QED
          BY <3>3, <4>1
      <3> QED
        BY <3>5, <3>6
    <2> QED
      BY <2>1, <2>2
  <1> DEFINE w == CHOOSE w \in weights : \A v \in weights : v <= w
  <1>5. w \in Int
    <2> HIDE DEF weights
    <2> QED
      BY <1>3, <1>4
  <1>6. PreferenceWeight(labels, job) = DefaultMaxWeight * w
    BY DEF PreferenceWeight
  <1> HIDE DEF w
  <1> QED
    BY <1>2, <1>5, <1>6

LEMMA ScoreIsInt ==
  ASSUME Given, NEW k \in DOMAIN clusters
  PROVE  ScoreOf(k) \in Int
  <1> DEFINE scores == [i \in DOMAIN Nodes(k) |-> NodeScore(Nodes(k)[i])]
  <1>1. ASSUME NEW n \in DOMAIN Nodes(k)
        PROVE  NodeScore(Nodes(k)[n]) \in Int
    <2> DEFINE points == [r \in DOMAIN Nodes(k)[n] |->
                            IF r = "cpus" THEN Nodes(k)[n][r] ELSE 10 * Nodes(k)[n][r]]
    <2>1. IsNode(Nodes(k)[n])
      BY NodesFacts
    <2>2. IsFiniteSet(DOMAIN Nodes(k)[n])
      BY <2>1, FiniteResources, FS_Subset DEF IsNode
    <2>3. \A r \in DOMAIN Nodes(k)[n] : points[r] \in Int
      BY <2>1 DEF IsNode
    <2>4. NodeScore(Nodes(k)[n]) = SumFunctionOnSet(points, DOMAIN Nodes(k)[n])
      BY DEF NodeScore, SumFunction
    <2> HIDE DEF points
    <2> QED
      BY <2>2, <2>3, <2>4, SumInt
  <1>2. IsFiniteSet(DOMAIN Nodes(k))
    BY NodesFacts, FS_Interval
  <1>3. SumFunction(scores) = SumFunctionOnSet(scores, DOMAIN Nodes(k))
    BY DEF SumFunction
  <1>4. \A n \in DOMAIN Nodes(k) : scores[n] \in Int
    BY <1>1
  <1>5. ScoreOf(k) = PreferenceWeight(clusters[k].labels, job) * SumFunction(scores)
    BY DEF ScoreOf, Score
  <1> HIDE DEF scores
  <1>6. SumFunction(scores) \in Int
    BY <1>2, <1>3, <1>4, SumInt
  <1>7. PreferenceWeight(clusters[k].labels, job) \in Int
    BY WeightIsInt
  <1> QED
    BY <1>5, <1>6, <1>7

LEMMA GivenFacts ==
  ASSUME Given
  PROVE  /\ Len(clusters) \in Nat /\ DOMAIN clusters = 1 .. Len(clusters)
         /\ job.replicas \in Nat \ {0}
         /\ \A r \in DOMAIN job.resources : job.resources[r] \in Nat \ {0}
         /\ \A k \in DOMAIN clusters :
              /\ Len(Nodes(k)) \in Nat /\ DOMAIN Nodes(k) = 1 .. Len(Nodes(k))
              /\ \A n \in DOMAIN Nodes(k) : Nodes(k)[n] \in [DOMAIN Nodes(k)[n] -> Int]
              /\ ScoreOf(k) \in Int
         /\ \A f \in job.filters : \A e \in f.expressions : e.operator \in Operators
  BY PlacementAssumption, NodesFacts, ScoreIsInt DEF Given, IsNode, IsRequest

-----------------------------------------------------------------------------
(* The types.                                                              *)
LEMMA InitTyped == Init => Typed
  <1> SUFFICES ASSUME Init PROVE Typed
    OBVIOUS
  <1>1. Given
    BY DEF Init, Given
  <1>2. candidates \in Seq(DOMAIN clusters)
    BY EmptySeq DEF Init
  <1>3. LoopFits
    BY <1>2 DEF Init, LoopFits
  <1>4. CountsFit
    BY <1>1, GivenFacts DEF Init, CountsFit
  <1> QED
    BY <1>1, <1>3, <1>4 DEF Typed

LEMMA ListOfCandidates ==
  ASSUME Typed
  PROVE  /\ Len(candidates) \in Nat /\ DOMAIN candidates = 1 .. Len(candidates)
         /\ \A i \in DOMAIN candidates : candidates[i] \in DOMAIN clusters
  BY LenProperties, ElementOfSeq DEF Typed, LoopFits

LEMMA WithoutTyped ==
  ASSUME Given, NEW D, NEW f \in [D -> Int]
  PROVE  Without(f) \in [D -> Int]
  <1>1. \A r \in D : (IF r \in DOMAIN job.resources THEN f[r] - job.resources[r] ELSE f[r]) \in Int
    BY GivenFacts
  <1> QED
    BY <1>1 DEF Without

(* Where a replica goes, nothing changes but this node.                    *)
LEMMA ReplicaPlaced ==
  ASSUME Typed, PlaceReplica
  PROVE  /\ at \in DOMAIN candidates
         /\ candidates[at] \in DOMAIN clusters
         /\ node \in DOMAIN Nodes(candidates[at])
         /\ DOMAIN left' = DOMAIN left /\ DOMAIN placed' = DOMAIN placed
         /\ \A k \in DOMAIN clusters : k # candidates[at] =>
              left'[k] = left[k] /\ placed'[k] = placed[k]
         /\ LET k == candidates[at]
            IN  /\ left'[k] = [left[k] EXCEPT ![node] = Without(left[k][node])]
                /\ placed'[k] = [placed[k] EXCEPT ![node] = placed[k][node] + 1]
  <1>1. at \in DOMAIN candidates
    BY ListOfCandidates DEF PlaceReplica, AtNode, Typed, LoopFits
  <1>2. candidates[at] \in DOMAIN clusters
    BY <1>1, ListOfCandidates
  <1>3. node \in DOMAIN Nodes(candidates[at])
    BY <1>2 DEF PlaceReplica, AtNode, Typed, CountsFit
  <1> QED
    BY <1>1, <1>2, <1>3 DEF PlaceReplica, Typed, CountsFit

LEMMA PlaceReplicaTyped ==
  ASSUME Typed, PlaceReplica
  PROVE  Typed'
  <1>1. Given' /\ LoopFits'
    BY DEF PlaceReplica, Typed, Given, LoopFits
  <1>2. total' \in 0 .. job'.replicas
    BY GivenFacts DEF PlaceReplica, AtNode, Typed, CountsFit
  <1>3. ASSUME NEW k \in DOMAIN clusters
        PROVE  /\ DOMAIN left'[k] = DOMAIN Nodes(k)
               /\ \A n \in DOMAIN Nodes(k) : left'[k][n] \in [DOMAIN Nodes(k)[n] -> Int]
               /\ placed'[k] \in [DOMAIN Nodes(k) -> Nat]
    <2>1. CASE k # candidates[at]
      BY <2>1, ReplicaPlaced DEF Typed, CountsFit
    <2>2. CASE k = candidates[at]
      <3>1. Without(left[k][node]) \in [DOMAIN Nodes(k)[node] -> Int]
        BY <2>2, ReplicaPlaced, WithoutTyped DEF Typed, CountsFit
      <3>2. /\ left'[k] = [left[k] EXCEPT ![node] = Without(left[k][node])]
            /\ placed'[k] = [placed[k] EXCEPT ![node] = placed[k][node] + 1]
            /\ node \in DOMAIN Nodes(k)
        BY <2>2, ReplicaPlaced
      <3>3. /\ DOMAIN left[k] = DOMAIN Nodes(k)
            /\ \A n \in DOMAIN Nodes(k) : left[k][n] \in [DOMAIN Nodes(k)[n] -> Int]
            /\ placed[k] \in [DOMAIN Nodes(k) -> Nat]
        BY DEF Typed, CountsFit
      <3> QED
        BY <3>1, <3>2, <3>3
    <2> QED
      BY <2>1, <2>2
  <1>4. \A k : Nodes(k)' = Nodes(k)
    BY DEF PlaceReplica, Nodes
  <1>5. CountsFit'
    BY <1>2, <1>3, <1>4, ReplicaPlaced DEF PlaceReplica, Typed, CountsFit
  <1> QED
    BY <1>1, <1>5 DEF Typed

LEMMA NextTyped == Typed /\ [Next]_vars => Typed'
  <1> SUFFICES ASSUME Typed, [Next]_vars PROVE Typed'
    OBVIOUS
  <1> USE DEF Typed
  <1>1. CASE FilterCluster
    <2>1. at \in DOMAIN clusters
      BY <1>1, GivenFacts DEF FilterCluster, LoopFits
    <2>2. candidates' \in Seq(DOMAIN clusters)
      BY <1>1, <2>1, AppendProperties DEF FilterCluster, LoopFits
    <2> QED
      BY <1>1, <2>2 DEF FilterCluster, Given, LoopFits, CountsFit, Nodes
  <1>2. CASE RankClusters
    <2>1. PICK ranked \in [1 .. Len(candidates) -> {candidates[i] : i \in DOMAIN candidates}] :
            candidates' = ranked
      BY <1>2 DEF RankClusters
    <2>2. ranked \in [1 .. Len(candidates) -> DOMAIN clusters]
      BY ListOfCandidates
    <2>3. candidates' \in Seq(DOMAIN clusters)
      BY <2>1, <2>2, ListOfCandidates
    <2> QED
      BY <1>2, <2>3 DEF RankClusters, Given, LoopFits, CountsFit, Nodes
  <1>3. CASE PlaceReplica
    BY <1>3, PlaceReplicaTyped
  <1>4. CASE NextNode
    BY <1>4 DEF NextNode, Given, LoopFits, CountsFit, Nodes
  <1>5. CASE NextCluster
    BY <1>5 DEF NextCluster, Given, LoopFits, CountsFit, Nodes
  <1>6. CASE Decide
    <2>1. \A k \in DOMAIN clusters : [n \in DOMAIN Nodes(k) |-> 0] \in [DOMAIN Nodes(k) -> Nat]
      OBVIOUS
    <2> QED
      BY <1>6, <2>1 DEF Decide, NothingPlaced, Given, LoopFits, CountsFit, Nodes
  <1>7. CASE UNCHANGED vars
    BY <1>7 DEF vars, Given, LoopFits, CountsFit, Nodes
  <1> QED
    BY <1>1, <1>2, <1>3, <1>4, <1>5, <1>6, <1>7 DEF Next

(* Every step of a decision keeps its types: the loop stays inside the     *)
(* lists, and there are never more replicas than the job asks for.         *)
THEOREM TypeCorrect == Spec => []TypeOK
  <1>1. Init => Typed
    BY InitTyped
  <1>2. Typed /\ [Next]_vars => Typed'
    BY NextTyped
  <1>3. Typed => TypeOK
    BY TypedIsTypeOK
  <1> QED
    BY <1>1, <1>2, <1>3, PTL DEF Spec

-----------------------------------------------------------------------------
(* The filters are what their stanzas say.                                 *)
LEMMA ExpressionsMeanHits ==
  ASSUME NEW labels, NEW e, e.operator \in Operators
  PROVE  LET hit == {<<e.key, v>> : v \in e.values} \cap {<<k, labels[k]>> : k \in DOMAIN labels} # {}
         IN  MatchExpression(e, labels) <=> (e.operator = "In" <=> hit)
  <1> DEFINE hit == {<<e.key, v>> : v \in e.values} \cap {<<k, labels[k]>> : k \in DOMAIN labels} # {}
  <1>1. hit <=> e.key \in DOMAIN labels /\ labels[e.key] \in e.values
    <2>1. ASSUME e.key \in DOMAIN labels, labels[e.key] \in e.values
          PROVE  hit
      <3>1. <<e.key, labels[e.key]>> \in {<<e.key, v>> : v \in e.values}
        BY <2>1
      <3>2. <<e.key, labels[e.key]>> \in {<<k, labels[k]>> : k \in DOMAIN labels}
        BY <2>1
      <3> QED
        BY <3>1, <3>2
    <2>2. ASSUME hit
          PROVE  e.key \in DOMAIN labels /\ labels[e.key] \in e.values
      <3>1. PICK v \in e.values, k \in DOMAIN labels : <<e.key, v>> = <<k, labels[k]>>
        BY <2>2
      <3> QED
        BY <3>1
    <2> QED
      BY <2>1, <2>2
  <1> HIDE DEF hit
  <1>2. e.operator = "In" \/ e.operator = "NotIn"
    BY DEF Operators
  <1>3. MatchExpression(e, labels) <=> (e.operator = "In" <=> hit)
    BY <1>1, <1>2 DEF MatchExpression
  <1> QED
    BY <1>3 DEF hit

LEMMA StanzasMeanPairs ==
  ASSUME NEW stanza, NEW labels, \A e \in stanza.expressions : e.operator \in Operators,
         Allows(stanza, labels)
  PROVE  StanzaSatisfied(stanza, labels)
  <1> DEFINE pairs(f) == {<<k, f[k]>> : k \in DOMAIN f}
             hit(e) == {<<e.key, v>> : v \in e.values} \cap pairs(labels) # {}
  <1>1. MatchLabels(stanza.labels, labels)
    <2> SUFFICES ASSUME NEW k \in DOMAIN stanza.labels
                 PROVE  k \in DOMAIN labels /\ labels[k] = stanza.labels[k]
      BY DEF MatchLabels
    <2>1. <<k, stanza.labels[k]>> \in pairs(labels)
      BY DEF Allows
    <2>2. PICK h \in DOMAIN labels : <<k, stanza.labels[k]>> = <<h, labels[h]>>
      BY <2>1
    <2> QED
      BY <2>2
  <1>2. ASSUME NEW e \in stanza.expressions
        PROVE  MatchExpression(e, labels)
    <2>1. e.operator = "In" => hit(e)
      BY DEF Allows
    <2>2. e.operator = "NotIn" => ~hit(e)
      BY DEF Allows
    <2>3. MatchExpression(e, labels) <=> (e.operator = "In" <=> hit(e))
      BY ExpressionsMeanHits
    <2> HIDE DEF hit
    <2> QED
      BY <2>1, <2>2, <2>3 DEF Operators
  <1> QED
    BY <1>1, <1>2 DEF StanzaSatisfied

(* What may run the job passes the filters, unless no node fits a replica. *)
LEMMA EligiblePasses ==
  ASSUME Given, NEW k \in DOMAIN clusters, Eligible(k), ~Passes(k)
  PROVE  \A n \in DOMAIN Nodes(k) : ~Fits(Nodes(k)[n], job.resources)
  <1>1. AffinitySatisfied(clusters[k].labels, job)
    BY StanzasMeanPairs, GivenFacts DEF Eligible, AffinitySatisfied
  <1> QED
    BY <1>1 DEF Eligible, Passes, SufficientCapacity

-----------------------------------------------------------------------------
(* The loop.                                                               *)
Chosen(k) == \E i \in DOMAIN candidates : candidates[i] = k

Full(k) == \A n \in DOMAIN Nodes(k) : ~Fits(left[k][n], job.resources)

(* While it filters: the clusters before the one it is at have been looked *)
(* at, in their order, and nothing has been placed.                        *)
Filtering ==
  /\ \A i \in DOMAIN candidates : candidates[i] < at /\ Passes(candidates[i])
  /\ \A i, j \in DOMAIN candidates : i < j => candidates[i] < candidates[j]
  /\ \A k \in DOMAIN clusters : k < at /\ Passes(k) => Chosen(k)
  /\ node = 1
  /\ \A k \in DOMAIN clusters :
       left[k] = Nodes(k) /\ \A n \in DOMAIN Nodes(k) : placed[k][n] = 0

(* Afterwards: the candidates are the clusters that pass, by their scores; *)
(* what the loop has left behind is full, and what it has not reached is   *)
(* as it was.                                                              *)
Spreading ==
  /\ \A i \in DOMAIN candidates : Passes(candidates[i])
  /\ \A i, j \in DOMAIN candidates : i < j => RanksBefore(candidates[i], candidates[j])
  /\ \A k \in DOMAIN clusters : Passes(k) => Chosen(k)
  /\ \A k \in DOMAIN clusters : ~Chosen(k) => left[k] = Nodes(k)
  /\ \A i \in DOMAIN candidates : i < at => Full(candidates[i])
  /\ at \in DOMAIN candidates =>
       \A n \in DOMAIN Nodes(candidates[at]) :
         n < node => ~Fits(left[candidates[at]][n], job.resources)
  /\ \A k \in DOMAIN clusters : \A n \in DOMAIN Nodes(k) :
       placed[k][n] > 0 => \E i \in DOMAIN candidates : i <= at /\ candidates[i] = k

Greedy == IF stage = "filter" THEN Filtering ELSE Spreading

LEMMA NoRankBeforeItself ==
  ASSUME Given, NEW k \in DOMAIN clusters, NEW h \in DOMAIN clusters
  PROVE  /\ RanksBefore(k, h) => k # h
         /\ RanksBefore(k, h) => ~(ScoreOf(h) > ScoreOf(k))
  BY GivenFacts DEF RanksBefore

(* A ranking that repeats nothing leaves nothing out.                      *)
LEMMA RankingKeepsAll ==
  ASSUME NEW n \in Nat, NEW S, NEW c \in Surjection(1 .. n, S), c \in Injection(1 .. n, S),
         NEW ranked \in Injection(1 .. n, S)
  PROVE  \A s \in S : \E j \in 1 .. n : ranked[j] = s
  <1>1. IsFiniteSet(1 .. n)
    BY FS_Interval
  <1>2. IsFiniteSet(S) /\ Cardinality(S) = Cardinality(1 .. n)
    BY <1>1, FS_Surjection
  <1>3. ranked \in Surjection(1 .. n, S)
    BY <1>2, FS_Injection
  <1> QED
    BY <1>3 DEF Surjection

LEMMA InitGreedy == Init => Greedy
  <1> SUFFICES ASSUME Init PROVE Filtering
    BY DEF Init, Greedy
  <1>1. Given /\ Typed
    BY InitTyped DEF Typed
  <1>2. \A k \in DOMAIN clusters : ~(k < at)
    BY <1>1, GivenFacts DEF Init
  <1>3. DOMAIN candidates = {}
    BY DEF Init
  <1> QED
    BY <1>2, <1>3 DEF Init, Filtering

LEMMA FilterGreedy ==
  ASSUME Typed, Greedy, FilterCluster
  PROVE  Greedy'
  <1>1. Filtering /\ stage' = "filter"
    BY DEF FilterCluster, Greedy
  <1>2. at \in DOMAIN clusters /\ at' = at + 1 /\ Given
    BY GivenFacts DEF FilterCluster, Typed, LoopFits
  <1>3. \A k : Passes(k)' = Passes(k)
    BY DEF FilterCluster, Passes, Nodes
  <1>4. \A k \in DOMAIN clusters : k < at + 1 <=> k < at \/ k = at
    BY <1>2, GivenFacts
  <1>5. CASE Passes(at)
    <2>1. candidates' = Append(candidates, at)
      BY <1>5 DEF FilterCluster
    <2>2. /\ DOMAIN candidates' = 1 .. Len(candidates) + 1
          /\ \A i \in DOMAIN candidates : candidates'[i] = candidates[i]
          /\ candidates'[Len(candidates) + 1] = at
      BY <1>2, <2>1, ListOfCandidates, AppendProperties DEF Typed, LoopFits
    <2>3. \A i \in DOMAIN candidates' : i \in DOMAIN candidates \/ i = Len(candidates) + 1
      BY <2>2, ListOfCandidates
    <2>4. \A i \in DOMAIN candidates' : candidates'[i] < at' /\ Passes(candidates'[i])
      <3>1. \A i \in DOMAIN candidates : candidates[i] < at + 1
        BY <1>1, <1>2, <1>4, ListOfCandidates DEF Filtering
      <3> QED
        BY <1>1, <1>2, <1>5, <2>2, <2>3, <3>1, GivenFacts DEF Filtering
    <2>5. \A i, j \in DOMAIN candidates' : i < j => candidates'[i] < candidates'[j]
      BY <1>1, <2>2, <2>3, ListOfCandidates DEF Filtering
    <2>6. \A k \in DOMAIN clusters : k < at' /\ Passes(k) => Chosen(k)'
      <3>1. \A k : Chosen(k) => Chosen(k)'
        BY <2>2, ListOfCandidates DEF Chosen
      <3>2. \E i \in DOMAIN candidates' : candidates'[i] = at
        BY <2>2, ListOfCandidates DEF Chosen
      <3> QED
        BY <1>1, <1>2, <1>4, <3>1, <3>2 DEF Filtering, Chosen
    <2> QED
      BY <1>1, <1>3, <2>4, <2>5, <2>6 DEF FilterCluster, Greedy, Filtering, Nodes
  <1>6. CASE ~Passes(at)
    <2>1. candidates' = candidates
      BY <1>6 DEF FilterCluster
    <2>2. \A i \in DOMAIN candidates' : candidates'[i] < at' /\ Passes(candidates'[i])
      BY <1>1, <1>2, <1>4, <2>1, ListOfCandidates DEF Filtering
    <2>3. \A k \in DOMAIN clusters : k < at' /\ Passes(k) => Chosen(k)'
      BY <1>1, <1>2, <1>4, <1>6, <2>1 DEF Filtering, Chosen
    <2> QED
      BY <1>1, <1>3, <2>1, <2>2, <2>3 DEF FilterCluster, Greedy, Filtering, Nodes
  <1> QED
    BY <1>5, <1>6

LEMMA RankGreedy ==
  ASSUME Typed, Greedy, RankClusters
  PROVE  Greedy'
  <1> DEFINE n == Len(candidates)
             S == {candidates[i] : i \in DOMAIN candidates}
  <1>1. PICK ranked \in [1 .. n -> S] :
          /\ \A i, j \in DOMAIN ranked : i < j => RanksBefore(ranked[i], ranked[j])
          /\ candidates' = ranked
    BY DEF RankClusters
  <1>2. Filtering /\ Given /\ stage' = "spread" /\ at' = 1 /\ UNCHANGED <<clusters, job, node, left, placed>>
    BY DEF RankClusters, Greedy, Typed
  <1>3. n \in Nat /\ DOMAIN candidates = 1 .. n /\ DOMAIN ranked = 1 .. n
        /\ candidates = [i \in 1 .. n |-> candidates[i]]
    BY ListOfCandidates DEF Typed, LoopFits
  <1>4. \A i \in 1 .. n : ranked[i] \in DOMAIN clusters /\ Passes(ranked[i])
    BY <1>2, <1>3, ListOfCandidates DEF Filtering
  <1>5. \A i, j \in 1 .. n : i < j => ranked[i] # ranked[j]
    BY <1>1, <1>2, <1>3, <1>4, NoRankBeforeItself
  <1>6. \A i, j \in 1 .. n : i < j => candidates[i] # candidates[j]
    BY <1>2, <1>3, ListOfCandidates, GivenFacts DEF Filtering
  <1>7. \A s \in S : \E j \in 1 .. n : ranked[j] = s
    <2>1. candidates \in Surjection(1 .. n, S) /\ candidates \in Injection(1 .. n, S)
      BY <1>3, <1>6, ListOfCandidates DEF Surjection, Injection, IsInjective
    <2>2. ranked \in Injection(1 .. n, S)
      BY <1>3, <1>5, ListOfCandidates DEF Injection, IsInjective
    <2> HIDE DEF n, S
    <2> QED
      BY <1>3, <2>1, <2>2, RankingKeepsAll
  <1>8. \A k \in DOMAIN clusters : Passes(k) => Chosen(k)'
    <2>1. \A k \in DOMAIN clusters : k < at
      BY <1>2, GivenFacts DEF RankClusters, Typed, LoopFits
    <2> QED
      BY <1>1, <1>2, <1>3, <1>7, <2>1 DEF Filtering, Chosen
  <1>9. \A k, h : Passes(k)' = Passes(k) /\ RanksBefore(k, h)' = RanksBefore(k, h)
                  /\ Nodes(k)' = Nodes(k)
    BY <1>2 DEF Passes, RanksBefore, ScoreOf, Nodes
  <1>10. \A i \in DOMAIN ranked : ~(i < at')
    BY <1>2, <1>3
  <1>11. at' \in DOMAIN ranked => \A m \in DOMAIN Nodes(ranked[at']) : ~(m < node')
    BY <1>2, <1>3, <1>4, GivenFacts DEF Filtering
  <1> HIDE DEF n, S
  <1>12. Spreading'
    BY <1>1, <1>2, <1>3, <1>4, <1>8, <1>9, <1>10, <1>11, GivenFacts DEF Filtering, Spreading
  <1> QED
    BY <1>2, <1>12 DEF Greedy

(* What is ranked is ranked once.                                          *)
LEMMA RankedOnce ==
  ASSUME Typed, Spreading, NEW i \in DOMAIN candidates, NEW j \in DOMAIN candidates,
         candidates[i] = candidates[j]
  PROVE  i = j
  <1>1. candidates[i] \in DOMAIN clusters
    BY ListOfCandidates
  <1>2. i < j => RanksBefore(candidates[i], candidates[j])
    BY DEF Spreading
  <1>3. j < i => RanksBefore(candidates[j], candidates[i])
    BY DEF Spreading
  <1>4. ~RanksBefore(candidates[i], candidates[i])
    BY <1>1, NoRankBeforeItself DEF Typed
  <1> QED
    BY <1>2, <1>3, <1>4, ListOfCandidates

LEMMA PlaceReplicaGreedy ==
  ASSUME Typed, Greedy, PlaceReplica
  PROVE  Greedy'
  <1> DEFINE c == candidates[at]
  <1>1. Spreading /\ stage' = "spread"
        /\ UNCHANGED <<clusters, job, at, candidates, node>>
    BY DEF PlaceReplica, AtNode, Greedy
  <1>2. at \in DOMAIN candidates /\ c \in DOMAIN clusters
    BY ReplicaPlaced
  <1>3. \A k \in DOMAIN clusters : k # c => left'[k] = left[k] /\ placed'[k] = placed[k]
    BY ReplicaPlaced
  <1>4. \A n \in DOMAIN Nodes(c) : n # node => left'[c][n] = left[c][n] /\ placed'[c][n] = placed[c][n]
    BY <1>2, ReplicaPlaced DEF Typed, CountsFit
  <1>5. \A k, h : Passes(k)' = Passes(k) /\ RanksBefore(k, h)' = RanksBefore(k, h)
                  /\ Chosen(k)' = Chosen(k) /\ Nodes(k)' = Nodes(k)
    BY <1>1 DEF Passes, RanksBefore, ScoreOf, Nodes, Chosen
  <1>6. \A k \in DOMAIN clusters : ~Chosen(k) => left'[k] = Nodes(k)
    BY <1>1, <1>2, <1>3 DEF Spreading, Chosen
  <1>7. \A i \in DOMAIN candidates : i < at =>
          \A n \in DOMAIN Nodes(candidates[i]) : ~Fits(left'[candidates[i]][n], job.resources)
    <2> SUFFICES ASSUME NEW i \in DOMAIN candidates, i < at
                 PROVE  \A n \in DOMAIN Nodes(candidates[i]) :
                          ~Fits(left'[candidates[i]][n], job.resources)
      OBVIOUS
    <2>1. candidates[i] # c
      BY <1>1, <1>2, RankedOnce, ListOfCandidates
    <2>2. left'[candidates[i]] = left[candidates[i]]
      BY <1>3, <2>1, ListOfCandidates
    <2> QED
      BY <1>1, <2>2 DEF Spreading, Full
  <1>8. \A n \in DOMAIN Nodes(c) : n < node => ~Fits(left'[c][n], job.resources)
    <2> SUFFICES ASSUME NEW n \in DOMAIN Nodes(c), n < node
                 PROVE  ~Fits(left'[c][n], job.resources)
      OBVIOUS
    <2>1. n # node
      BY <1>2, GivenFacts DEF Typed, LoopFits
    <2>2. left'[c][n] = left[c][n]
      BY <1>4, <2>1
    <2> QED
      BY <1>1, <1>2, <2>2 DEF Spreading
  <1>9. \A k \in DOMAIN clusters : \A n \in DOMAIN Nodes(k) :
          placed'[k][n] > 0 => \E i \in DOMAIN candidates : i <= at /\ candidates[i] = k
    <2> SUFFICES ASSUME NEW k \in DOMAIN clusters, NEW n \in DOMAIN Nodes(k), placed'[k][n] > 0
                 PROVE  \E i \in DOMAIN candidates : i <= at /\ candidates[i] = k
      OBVIOUS
    <2>1. CASE k = c
      BY <1>2, <2>1, ListOfCandidates
    <2>2. CASE k # c
      BY <1>1, <1>3, <2>2 DEF Spreading
    <2> QED
      BY <2>1, <2>2
  <1> HIDE DEF c
  <1>10. Spreading'
    BY <1>1, <1>5, <1>6, <1>7, <1>8, <1>9 DEF Spreading, Full, c
  <1> QED
    BY <1>1, <1>10 DEF Greedy

LEMMA LoopGreedy ==
  ASSUME Typed, Greedy, NextNode \/ NextCluster \/ Decide \/ UNCHANGED vars
  PROVE  Greedy'
  <1>1. UNCHANGED <<clusters, job, candidates, left>>
    BY DEF NextNode, NextCluster, Decide, vars
  <1>2. \A k, h : Passes(k)' = Passes(k) /\ RanksBefore(k, h)' = RanksBefore(k, h)
                  /\ Nodes(k)' = Nodes(k)
    BY <1>1 DEF Passes, RanksBefore, ScoreOf, Nodes
  <1>3. CASE NextNode
    <2>1. Spreading /\ stage' = "spread" /\ UNCHANGED <<at, placed>> /\ node' = node + 1
      BY <1>3 DEF NextNode, AtNode, Greedy
    <2>2. at \in DOMAIN candidates /\ candidates[at] \in DOMAIN clusters
      BY <1>3, ListOfCandidates DEF NextNode, AtNode, Typed, LoopFits
    <2>3. ASSUME NEW n \in DOMAIN Nodes(candidates[at]), n < node + 1
          PROVE  ~Fits(left[candidates[at]][n], job.resources)
      <3>1. n < node \/ n = node
        BY <2>2, <2>3, GivenFacts DEF Typed, LoopFits
      <3> QED
        BY <1>3, <2>1, <2>2, <3>1 DEF NextNode, Spreading
    <2>4. Spreading'
      BY <1>1, <1>2, <2>1, <2>3 DEF Spreading, Chosen, Full
    <2> QED
      BY <2>1, <2>4 DEF Greedy
  <1>4. CASE NextCluster
    <2>1. Spreading /\ stage' = "spread" /\ placed' = placed /\ at' = at + 1 /\ node' = 1
      BY <1>4 DEF NextCluster, Greedy
    <2>2. at \in DOMAIN candidates /\ candidates[at] \in DOMAIN clusters
      BY <1>4, ListOfCandidates DEF NextCluster, Typed, LoopFits
    <2>3. Full(candidates[at])
      <3>1. node \notin DOMAIN Nodes(candidates[at])
        BY <1>4, <2>2 DEF NextCluster, Typed, CountsFit
      <3>2. \A n \in DOMAIN Nodes(candidates[at]) : n < node
        BY <2>2, <3>1, GivenFacts DEF Typed, LoopFits
      <3> QED
        BY <2>1, <2>2, <3>2 DEF Spreading, Full
    <2>4. \A i \in DOMAIN candidates : i < at + 1 => Full(candidates[i])
      <3>1. \A i \in DOMAIN candidates : i < at + 1 => i < at \/ i = at
        BY ListOfCandidates DEF Typed, LoopFits
      <3> QED
        BY <2>1, <2>3, <3>1 DEF Spreading
    <2>5. \A m \in DOMAIN candidates : m <= at => m <= at + 1
      BY ListOfCandidates DEF Typed, LoopFits
    <2>6. \A k \in DOMAIN clusters : \A n \in DOMAIN Nodes(k) :
            placed[k][n] > 0 => \E i \in DOMAIN candidates : i <= at + 1 /\ candidates[i] = k
      BY <2>1, <2>5 DEF Spreading
    <2>7. at + 1 \in DOMAIN candidates => \A n \in DOMAIN Nodes(candidates[at + 1]) : ~(n < 1)
      BY ListOfCandidates, GivenFacts DEF Typed
    <2>8. Spreading'
      BY <1>1, <1>2, <2>1, <2>4, <2>6, <2>7 DEF Spreading, Chosen, Full
    <2> QED
      BY <2>1, <2>8 DEF Greedy
  <1>5. CASE Decide
    <2>1. Spreading /\ stage' # "filter" /\ UNCHANGED <<at, node>>
      BY <1>5 DEF Decide, Greedy
    <2>2. \A k \in DOMAIN clusters : \A n \in DOMAIN Nodes(k) :
            placed'[k][n] = placed[k][n] \/ placed'[k][n] = 0
      BY <1>5 DEF Decide, NothingPlaced
    <2>3. Spreading'
      BY <1>1, <1>2, <2>1, <2>2 DEF Spreading, Chosen, Full
    <2> QED
      BY <2>1, <2>3 DEF Greedy
  <1>6. CASE UNCHANGED vars
    BY <1>2, <1>6 DEF vars, Greedy, Filtering, Spreading, Chosen, Full
  <1> QED
    BY <1>3, <1>4, <1>5, <1>6

LEMMA NextGreedy ==
  ASSUME Typed, Greedy, [Next]_vars
  PROVE  Greedy'
  BY FilterGreedy, RankGreedy, PlaceReplicaGreedy, LoopGreedy DEF Next

(* The property, from where the loop stopped: a better cluster was ranked  *)
(* before one that is used, and the loop had left it behind.               *)
LEMMA GreedyFillsTheBest ==
  ASSUME Typed, Greedy
  PROVE  BetterClustersAreFull
  <1> SUFFICES ASSUME stage = "active", NEW k \in DOMAIN clusters, NEW h \in DOMAIN clusters,
                      Eligible(k), NEW m \in DOMAIN Nodes(h), placed[h][m] > 0,
                      ScoreOf(k) > ScoreOf(h)
               PROVE  Full(k)
    BY DEF BetterClustersAreFull, Full
  <1>1. Spreading /\ Given
    BY DEF Greedy, Typed
  <1>2. PICK j \in DOMAIN candidates : j <= at /\ candidates[j] = h
    BY <1>1 DEF Spreading
  <1>3. CASE Passes(k)
    <2>1. PICK i \in DOMAIN candidates : candidates[i] = k
      BY <1>1, <1>3 DEF Spreading, Chosen
    <2>2. i # j
      BY <1>1, <1>2, <2>1, GivenFacts
    <2>3. ~(j < i)
      BY <1>1, <1>2, <2>1, NoRankBeforeItself DEF Spreading
    <2>4. i < at
      BY <1>2, <2>2, <2>3, ListOfCandidates DEF Typed, LoopFits
    <2> QED
      BY <1>1, <2>1, <2>4 DEF Spreading
  <1>4. CASE ~Passes(k)
    <2>1. left[k] = Nodes(k)
      BY <1>1, <1>4 DEF Spreading, Chosen
    <2> QED
      BY <1>1, <1>4, <2>1, EligiblePasses DEF Full
  <1> QED
    BY <1>3, <1>4

(* For any clusters and any job that they are asked for: where replicas go *)
(* to a cluster, every eligible one with a better score, preferences       *)
(* included, has no node left that fits another replica.                   *)
THEOREM BestClustersFirst == Spec => []BetterClustersAreFull
  <1>1. Init => Typed /\ Greedy
    BY InitTyped, InitGreedy
  <1>2. Typed /\ Greedy /\ [Next]_vars => (Typed /\ Greedy)'
    <2> SUFFICES ASSUME Typed, Greedy, [Next]_vars PROVE (Typed /\ Greedy)'
      OBVIOUS
    <2> QED
      BY NextTyped, NextGreedy
  <1>3. Typed /\ Greedy => BetterClustersAreFull
    BY GreedyFillsTheBest
  <1> QED
    BY <1>1, <1>2, <1>3, PTL DEF Spec

-----------------------------------------------------------------------------
(* The reports.                                                            *)
LEMMA ReportsAreFree ==
  ASSUME Given
  PROVE  ReportsOnlyWhatIsFree
  <1> SUFFICES ASSUME NEW k \in DOMAIN clusters
               PROVE  LET c == clusters[k]
                      IN  IF StatusRaises(c)
                          THEN c.manager = "k8" /\ \E i, j \in DOMAIN c.nodes : c.nodes[i].label # c.nodes[j].label
                          ELSE \A n \in DOMAIN Allocatable(c) :
                                 /\ \A r \in DOMAIN Allocatable(c)[n] : Allocatable(c)[n][r] <= Capacity(c)[n][r]
                                 /\ Allocatable(c)[n]["cpus"] <= Free(c, n).cpus
                                 /\ c.manager # "ray" => GpusOf(Allocatable(c)[n]) <= Free(c, n).gpus
    BY DEF ReportsOnlyWhatIsFree
  <1>1. IsCluster(clusters[k])
    BY PlacementAssumption DEF Given
  <1> QED
    BY <1>1, ClusterReported DEF NodeReported

(* For any answers of the managers' clusters, provided that these do not   *)
(* run more than they have: no manager reports as allocatable what is in   *)
(* use, and only Kubernetes with mixed types of GPUs has no report.        *)
THEOREM ReportedIsFree == Spec => []ReportsOnlyWhatIsFree
  <1>1. Init => Typed
    BY InitTyped
  <1>2. Typed /\ [Next]_vars => Typed'
    BY NextTyped
  <1>3. Typed => ReportsOnlyWhatIsFree
    BY ReportsAreFree DEF Typed
  <1> QED
    BY <1>1, <1>2, <1>3, PTL DEF Spec

-----------------------------------------------------------------------------
(* The accounts: what is left of a node is what was reported less what its *)
(* replicas ask for, and never less than nothing of what is checked.       *)
Reports(k, n) == Checked(Nodes(k)[n], job.resources)

Accounts(k, n) ==
  /\ \A r \in DOMAIN Nodes(k)[n] :
       left[k][n][r] = Nodes(k)[n][r] - placed[k][n] * Asked(r)
  /\ placed[k][n] > 0 =>
       \A r \in Reports(k, n) : r \in DOMAIN Nodes(k)[n] /\ left[k][n][r] >= 0

Counted ==
  /\ stage # "failed" =>
       /\ SumFunction([k \in DOMAIN clusters |-> ReplicasOn(k)]) = total
       /\ \A k \in DOMAIN clusters : \A n \in DOMAIN Nodes(k) : Accounts(k, n)
  /\ stage = "active" => total = job.replicas
  /\ stage = "failed" => \A k \in DOMAIN clusters : \A n \in DOMAIN Nodes(k) : placed[k][n] = 0

LEMMA RequestFacts ==
  ASSUME Given
  PROVE  /\ DOMAIN job.resources \subseteq ResourceTypes
         /\ \A r \in DOMAIN job.resources : job.resources[r] \in Nat \ {0}
         /\ "gpus" \in DOMAIN job.resources => DOMAIN job.resources \cap Accelerators = {}
         /\ \A r : Asked(r) \in Nat
  BY PlacementAssumption DEF Given, IsRequest, Asked

(* Placing replicas leaves a node's accelerators alone whenever the job    *)
(* asks for GPUs of any type, so the check that depends on them stays.     *)
LEMMA ChecksStay ==
  ASSUME Typed, NEW k \in DOMAIN clusters, NEW n \in DOMAIN Nodes(k), Accounts(k, n)
  PROVE  Checked(left[k][n], job.resources) = Reports(k, n)
  <1> DEFINE f == left[k][n]
             h == Nodes(k)[n]
             S == Named \cap DOMAIN h
  <1>1. DOMAIN f = DOMAIN h /\ Given
    BY DEF Typed, CountsFit
  <1>2. CASE "gpus" \notin DOMAIN job.resources
    BY <1>2 DEF Checked, CheckGpuRequirements, Reports
  <1>3. CASE "gpus" \in DOMAIN job.resources
    <2>1. \A r \in S : f[r] = h[r] /\ h[r] \in Int
      <3>1. \A r \in S : h[r] \in Int /\ Asked(r) = 0 /\ placed[k][n] \in Nat
        BY <1>1, <1>3, RequestFacts, NodesFacts, PlacementAssumption
           DEF Asked, IsNode, Typed, CountsFit
      <3> QED
        BY <3>1 DEF Accounts
    <2>2. IsFiniteSet(S)
      BY <1>1, FS_Subset, ClusterResourcesAssumption, PlacementAssumption
    <2> HIDE DEF S
    <2>3. /\ SumFunctionOnSet(f, S) \in Int /\ SumFunctionOnSet(h, S) \in Int
          /\ SumFunctionOnSet(f, S) <= SumFunctionOnSet(h, S)
          /\ SumFunctionOnSet(h, S) <= SumFunctionOnSet(f, S)
      <3>1. \A r \in S : f[r] \in Int /\ h[r] \in Int /\ f[r] <= h[r] /\ h[r] <= f[r]
        BY <2>1
      <3> HIDE DEF f, h
      <3> QED
        BY <2>2, <3>1, SumMonotone
    <2>4. SumFunctionOnSet(f, S) = SumFunctionOnSet(h, S)
      BY <2>3
    <2>5. TotalGpus(f) = TotalGpus(h)
      BY <1>1, <2>4 DEF TotalGpus, S
    <2> QED
      BY <2>5 DEF Checked, CheckGpuRequirements, Reports
  <1> QED
    BY <1>2, <1>3

LEMMA SumOfCounts ==
  ASSUME NEW D, IsFiniteSet(D), NEW f \in [D -> Nat]
  PROVE  /\ SumFunction(f) \in Nat
         /\ (\A n \in D : f[n] = 0) => SumFunction(f) = 0
  BY SumNat, SumOfNone DEF SumFunction

LEMMA ReplicasCounted ==
  ASSUME Typed, NEW k \in DOMAIN clusters
  PROVE  /\ IsFiniteSet(DOMAIN Nodes(k)) /\ placed[k] \in [DOMAIN Nodes(k) -> Nat]
         /\ ReplicasOn(k) \in Nat
         /\ ReplicasOn(k) > 0 => \E n \in DOMAIN Nodes(k) : placed[k][n] > 0
  <1>1. IsFiniteSet(DOMAIN Nodes(k)) /\ placed[k] \in [DOMAIN Nodes(k) -> Nat]
    BY NodesFacts, FS_Interval DEF Typed, CountsFit
  <1>2. ReplicasOn(k) \in Nat /\ ((\A n \in DOMAIN Nodes(k) : placed[k][n] = 0) => ReplicasOn(k) = 0)
    BY <1>1, SumOfCounts DEF ReplicasOn
  <1> QED
    BY <1>1, <1>2

LEMMA ClustersFinite ==
  ASSUME Given
  PROVE  IsFiniteSet(DOMAIN clusters)
  <1>1. DOMAIN clusters = 1 .. Len(clusters) /\ Len(clusters) \in Nat
    BY GivenFacts
  <1> QED
    BY <1>1, FS_Interval

LEMMA InitCounted == Init => Counted
  <1> SUFFICES ASSUME Init PROVE Counted
    OBVIOUS
  <1>1. Typed
    BY InitTyped
  <1>2. \A k \in DOMAIN clusters : \A n \in DOMAIN Nodes(k) : placed[k][n] = 0 /\ left[k][n] = Nodes(k)[n]
    BY DEF Init
  <1>3. ASSUME NEW k \in DOMAIN clusters, NEW n \in DOMAIN Nodes(k)
        PROVE  Accounts(k, n)
    <2>1. \A r \in DOMAIN Nodes(k)[n] : Nodes(k)[n][r] \in Int /\ Asked(r) \in Nat
      BY <1>1, NodesFacts, RequestFacts DEF Typed, IsNode
    <2>2. \A r \in DOMAIN Nodes(k)[n] : Nodes(k)[n][r] = Nodes(k)[n][r] - 0 * Asked(r)
      BY <2>1
    <2> QED
      BY <1>2, <2>2 DEF Accounts
  <1> DEFINE f == [k \in DOMAIN clusters |-> ReplicasOn(k)]
  <1>4. \A k \in DOMAIN clusters : f[k] = 0
    BY <1>1, <1>2, ReplicasCounted
  <1>5. SumFunction(f) = 0
    <2>1. IsFiniteSet(DOMAIN clusters)
      BY <1>1, ClustersFinite DEF Typed
    <2>2. f \in [DOMAIN clusters -> Nat] /\ \A k \in DOMAIN clusters : f[k] = 0
      BY <1>4
    <2> HIDE DEF f
    <2> QED
      BY <2>1, <2>2, SumOfCounts
  <1> QED
    BY <1>3, <1>5 DEF Init, Counted

LEMMA Subtracted ==
  ASSUME NEW x \in Int, NEW a \in Int, NEW p \in Nat, NEW q \in Nat, x = a - p * q
  PROVE  x - q = a - (p + 1) * q
  OBVIOUS

(* A node takes a replica: its account is kept.                            *)
LEMMA ReplicaAccounted ==
  ASSUME Typed, Counted, PlaceReplica, NEW k \in DOMAIN clusters, NEW n \in DOMAIN Nodes(k)
  PROVE  Accounts(k, n)'
  <1>1. stage # "failed" /\ UNCHANGED <<clusters, job>>
    BY DEF PlaceReplica, AtNode
  <1>2. Accounts(k, n)
    BY <1>1 DEF Counted
  <1>3. Nodes(k)' = Nodes(k) /\ Reports(k, n)' = Reports(k, n) /\ \A r : Asked(r)' = Asked(r)
    BY <1>1 DEF Nodes, Reports, Asked
  <1>4. CASE left'[k][n] = left[k][n] /\ placed'[k][n] = placed[k][n]
    BY <1>2, <1>3, <1>4 DEF Accounts
  <1>5. CASE k = candidates[at] /\ n = node
    <2>1. /\ left[k][n] \in [DOMAIN Nodes(k)[n] -> Int] /\ placed[k] \in [DOMAIN Nodes(k) -> Nat]
          /\ DOMAIN left[k] = DOMAIN Nodes(k)
      BY DEF Typed, CountsFit
    <2>2. left'[k][n] = Without(left[k][n]) /\ placed'[k][n] = placed[k][n] + 1
      BY <1>5, <2>1, ReplicaPlaced
    <2>3. \A r \in DOMAIN Nodes(k)[n] : Nodes(k)[n][r] \in Int
      BY NodesFacts DEF Typed, IsNode
    <2>4. \A r \in DOMAIN Nodes(k)[n] : left'[k][n][r] = left[k][n][r] - Asked(r)
      BY <2>1, <2>2 DEF Without, Asked
    <2>5. \A r \in DOMAIN Nodes(k)[n] :
            left'[k][n][r] = Nodes(k)[n][r] - (placed[k][n] + 1) * Asked(r)
      <3> SUFFICES ASSUME NEW r \in DOMAIN Nodes(k)[n]
                   PROVE  left'[k][n][r] = Nodes(k)[n][r] - (placed[k][n] + 1) * Asked(r)
        OBVIOUS
      <3>1. /\ left[k][n][r] \in Int /\ Nodes(k)[n][r] \in Int /\ placed[k][n] \in Nat
            /\ Asked(r) \in Nat
        BY <2>1, <2>3, RequestFacts DEF Typed
      <3>2. left[k][n][r] = Nodes(k)[n][r] - placed[k][n] * Asked(r)
        BY <1>2 DEF Accounts
      <3> QED
        BY <2>4, <3>1, <3>2, Subtracted
    <2>6. \A r \in Reports(k, n) : r \in DOMAIN Nodes(k)[n] /\ left'[k][n][r] >= 0
      <3>1. Fits(left[k][n], job.resources)
        BY <1>5 DEF PlaceReplica
      <3>2. \A r \in Reports(k, n) : r \in DOMAIN left[k][n] /\ job.resources[r] <= left[k][n][r]
        BY <1>2, <3>1, ChecksStay DEF Fits
      <3>3. \A r \in Reports(k, n) : Asked(r) = job.resources[r]
        BY DEF Reports, Checked, Asked
      <3>4. \A r \in Reports(k, n) : Asked(r) \in Nat
        BY RequestFacts DEF Typed
      <3> QED
        BY <2>1, <2>4, <3>2, <3>3, <3>4
    <2> QED
      BY <1>3, <2>2, <2>5, <2>6 DEF Accounts
  <1>6. k # candidates[at] \/ n # node => left'[k][n] = left[k][n] /\ placed'[k][n] = placed[k][n]
    BY ReplicaPlaced DEF Typed, CountsFit
  <1> QED
    BY <1>4, <1>5, <1>6

LEMMA PlaceReplicaCounted ==
  ASSUME Typed, Counted, PlaceReplica
  PROVE  Counted'
  <1> DEFINE c == candidates[at]
             f == [k \in DOMAIN clusters |-> ReplicasOn(k)]
             h == [k \in DOMAIN clusters |-> SumFunction(placed'[k])]
  <1>1. /\ stage = "spread" /\ stage' = "spread" /\ UNCHANGED <<clusters, job>>
        /\ total' = total + 1
    BY DEF PlaceReplica, AtNode
  <1>2. c \in DOMAIN clusters /\ node \in DOMAIN Nodes(c)
    BY ReplicaPlaced
  <1>3. SumFunction(placed'[c]) = SumFunction(placed[c]) + 1
    <2>1. IsFiniteSet(DOMAIN Nodes(c)) /\ placed[c] \in [DOMAIN Nodes(c) -> Nat]
      BY <1>2, ReplicasCounted
    <2>2. placed'[c] = [placed[c] EXCEPT ![node] = placed[c][node] + 1]
      BY ReplicaPlaced
    <2>3. /\ \A n \in DOMAIN Nodes(c) : placed[c][n] \in Int
          /\ placed'[c][node] = placed[c][node] + 1
          /\ \A n \in DOMAIN Nodes(c) : n # node => placed'[c][n] = placed[c][n]
          /\ DOMAIN placed[c] = DOMAIN Nodes(c) /\ DOMAIN placed'[c] = DOMAIN Nodes(c)
      BY <1>2, <2>1, <2>2
    <2> HIDE DEF c
    <2>4. SumFunctionOnSet(placed'[c], DOMAIN Nodes(c)) = SumFunctionOnSet(placed[c], DOMAIN Nodes(c)) + 1
      BY <1>2, <2>1, <2>3, SumChanged
    <2> QED
      BY <2>3, <2>4 DEF SumFunction
  <1>4. \A k \in DOMAIN clusters : k # c => placed'[k] = placed[k]
    BY ReplicaPlaced
  <1>5. SumFunction(h) = SumFunction(f) + 1
    <2>1. IsFiniteSet(DOMAIN clusters)
      BY ClustersFinite DEF Typed
    <2>2. \A k \in DOMAIN clusters : f[k] \in Int
      BY ReplicasCounted
    <2>3. /\ h[c] = f[c] + 1 /\ \A k \in DOMAIN clusters : k # c => h[k] = f[k]
          /\ DOMAIN f = DOMAIN clusters /\ DOMAIN h = DOMAIN clusters
      BY <1>2, <1>3, <1>4 DEF ReplicasOn
    <2> HIDE DEF c, f, h
    <2>4. SumFunctionOnSet(h, DOMAIN clusters) = SumFunctionOnSet(f, DOMAIN clusters) + 1
      BY <1>2, <2>1, <2>2, <2>3, SumChanged
    <2> QED
      BY <2>3, <2>4 DEF SumFunction
  <1>6. [k \in DOMAIN clusters |-> ReplicasOn(k)]' = h
    BY <1>1 DEF ReplicasOn
  <1>7. SumFunction(f) = total
    BY <1>1 DEF Counted
  <1>8. \A k : Nodes(k)' = Nodes(k)
    BY <1>1 DEF Nodes
  <1>9. \A k \in DOMAIN clusters : \A n \in DOMAIN Nodes(k) : Accounts(k, n)'
    BY ReplicaAccounted
  <1> HIDE DEF c, f, h
  <1>10. SumFunction([k \in DOMAIN clusters |-> ReplicasOn(k)])' = total'
    BY <1>1, <1>5, <1>6, <1>7
  <1> QED
    BY <1>1, <1>8, <1>9, <1>10 DEF Counted

LEMMA NextCounted ==
  ASSUME Typed, Counted, [Next]_vars
  PROVE  Counted'
  <1>1. CASE PlaceReplica
    BY <1>1, PlaceReplicaCounted
  <1>2. CASE Decide
    <2>1. UNCHANGED <<clusters, job, total, left>> /\ stage = "spread"
      BY <1>2 DEF Decide
    <2>2. \A k : Nodes(k)' = Nodes(k)
      BY <2>1 DEF Nodes
    <2>3. CASE stage' = "active" /\ UNCHANGED placed /\ total = job.replicas
      BY <2>1, <2>2, <2>3 DEF Counted, Accounts, Reports, Asked, ReplicasOn
    <2>4. CASE stage' = "failed" /\ placed' = NothingPlaced
      <3>1. \A k \in DOMAIN clusters : \A n \in DOMAIN Nodes(k) : placed'[k][n] = 0
        BY <2>4 DEF NothingPlaced
      <3> QED
        BY <2>1, <2>2, <2>4, <3>1 DEF Counted
    <2> QED
      BY <1>2, <2>3, <2>4 DEF Decide
  <1>3. CASE FilterCluster \/ RankClusters \/ NextNode \/ NextCluster \/ UNCHANGED vars
    <2>1. UNCHANGED <<clusters, job, total, left, placed>>
      BY <1>3 DEF FilterCluster, RankClusters, NextNode, NextCluster, vars
    <2>2. stage' = stage \/ (stage \in {"filter", "spread"} /\ stage' \in {"filter", "spread"})
      BY <1>3 DEF FilterCluster, RankClusters, NextNode, NextCluster, vars
    <2>3. \A k : Nodes(k)' = Nodes(k) /\ ReplicasOn(k)' = ReplicasOn(k)
                 /\ \A n : Accounts(k, n)' = Accounts(k, n)
      BY <2>1 DEF Nodes, ReplicasOn, Accounts, Reports, Asked
    <2>4. [k \in DOMAIN clusters |-> ReplicasOn(k)]' = [k \in DOMAIN clusters |-> ReplicasOn(k)]
      BY <2>1, <2>3
    <2>5. SumFunction([k \in DOMAIN clusters |-> ReplicasOn(k)])' = SumFunction([k \in DOMAIN clusters |-> ReplicasOn(k)])
      BY <2>4
    <2> QED
      BY <2>1, <2>2, <2>3, <2>5 DEF Counted
  <1> QED
    BY <1>1, <1>2, <1>3 DEF Next

-----------------------------------------------------------------------------
(* What the filters let through may run the job.                           *)
LEMMA PairsMeetStanzas ==
  ASSUME NEW stanza, NEW labels, \A e \in stanza.expressions : e.operator \in Operators,
         StanzaSatisfied(stanza, labels)
  PROVE  Allows(stanza, labels)
  <1> DEFINE pairs(f) == {<<k, f[k]>> : k \in DOMAIN f}
             hit(e) == {<<e.key, v>> : v \in e.values} \cap pairs(labels) # {}
  <1>1. pairs(stanza.labels) \subseteq pairs(labels)
    BY DEF StanzaSatisfied, MatchLabels
  <1>2. ASSUME NEW e \in stanza.expressions
        PROVE  (e.operator = "In" => hit(e)) /\ (e.operator = "NotIn" => ~hit(e))
    <2>1. MatchExpression(e, labels) <=> (e.operator = "In" <=> hit(e))
      BY ExpressionsMeanHits
    <2>2. MatchExpression(e, labels)
      BY DEF StanzaSatisfied
    <2> HIDE DEF hit
    <2> QED
      BY <2>1, <2>2 DEF Operators
  <1>3. /\ {e \in stanza.expressions : e.operator = "In" /\ ~hit(e)} = {}
        /\ {e \in stanza.expressions : e.operator = "NotIn" /\ hit(e)} = {}
    <2> HIDE DEF hit
    <2> QED
      BY <1>2
  <1> QED
    BY <1>1, <1>3 DEF Allows

LEMMA PassesIsEligible ==
  ASSUME Given, NEW k \in DOMAIN clusters, Passes(k)
  PROVE  Eligible(k)
  BY PairsMeetStanzas, GivenFacts DEF Eligible, Passes, AffinitySatisfied

LEMMA UsedIsEligible ==
  ASSUME Typed, Greedy, stage # "filter", NEW k \in DOMAIN clusters, ReplicasOn(k) > 0
  PROVE  Eligible(k)
  <1>1. Spreading /\ Given
    BY DEF Greedy, Typed
  <1>2. PICK n \in DOMAIN Nodes(k) : placed[k][n] > 0
    BY ReplicasCounted
  <1>3. PICK i \in DOMAIN candidates : candidates[i] = k
    BY <1>1, <1>2 DEF Spreading
  <1>4. Passes(k)
    BY <1>1, <1>3 DEF Spreading
  <1> QED
    BY <1>1, <1>4, PassesIsEligible

LEMMA AllOrNoneCounted ==
  ASSUME Typed, Greedy, Counted
  PROVE  AllReplicasOrNone
  <1>1. ASSUME stage = "failed", NEW k \in DOMAIN clusters
        PROVE  ReplicasOn(k) = 0
    <2>1. \A n \in DOMAIN Nodes(k) : placed[k][n] = 0
      BY <1>1 DEF Counted
    <2> QED
      BY <2>1, ReplicasCounted
  <1>2. ASSUME stage = "active", NEW k \in DOMAIN clusters, ReplicasOn(k) > 0
        PROVE  Eligible(k)
    BY <1>2, UsedIsEligible
  <1>3. stage = "active" => SumFunction([k \in DOMAIN clusters |-> ReplicasOn(k)]) = job.replicas
    BY DEF Counted
  <1> QED
    BY <1>1, <1>2, <1>3 DEF AllReplicasOrNone

LEMMA NotMoreThanReported ==
  ASSUME NEW a \in Int, NEW x \in Int, NEW p \in Nat, NEW q \in Nat, x = a - p * q, x >= 0
  PROVE  p * q <= a
  <1>1. p * q \in Int
    OBVIOUS
  <1> QED
    BY <1>1

(* What the accounts leave was free.                                       *)
LEMMA ReplicasAreFree ==
  ASSUME Typed, Counted
  PROVE  ReplicasFitTheirNodes
  <1> SUFFICES ASSUME NEW k \in DOMAIN clusters, NEW n \in DOMAIN Nodes(k), placed[k][n] > 0
               PROVE  /\ placed[k][n] * Asked("cpus") <= Free(clusters[k], n).cpus
                      /\ clusters[k].manager # "ray" =>
                           \A r \in Accelerators : placed[k][n] * Asked(r) <= Free(clusters[k], n).gpus
    BY DEF ReplicasFitTheirNodes
  <1> DEFINE p == placed[k][n]
             a == Nodes(k)[n]
  <1>1. p \in Nat /\ left[k][n] \in [DOMAIN a -> Int] /\ Given
    BY DEF Typed, CountsFit
  <1>2. stage # "failed" /\ Accounts(k, n)
    BY <1>1 DEF Counted
  <1>3. IsNode(a) /\ NodeReported(clusters[k], n) /\ a = Allocatable(clusters[k])[n]
    BY <1>1, NodesFacts
  <1>4. ASSUME NEW r \in DOMAIN job.resources, r # "gpus"
        PROVE  r \in DOMAIN a /\ p * Asked(r) <= a[r]
    <2>1. r \in Reports(k, n)
      BY <1>4 DEF Reports, Checked
    <2>2. r \in DOMAIN a /\ left[k][n][r] >= 0 /\ left[k][n][r] = a[r] - p * Asked(r)
      BY <1>2, <2>1 DEF Accounts
    <2>3. left[k][n][r] \in Int /\ a[r] \in Int /\ Asked(r) \in Nat
      BY <1>1, <1>3, <2>2, RequestFacts DEF IsNode
    <2> HIDE DEF a, p
    <2> QED
      BY <1>1, <2>2, <2>3, NotMoreThanReported
  <1>5. ASSUME NEW r, r \notin DOMAIN job.resources
        PROVE  p * Asked(r) = 0
    <2>1. Asked(r) = 0
      BY <1>5 DEF Asked
    <2> QED
      BY <1>1, <2>1
  <1>6. "cpus" # "gpus" /\ \A r \in Accelerators : r # "gpus" /\ r # "cpus"
    BY ClusterResourcesAssumption
  <1> HIDE DEF p
  <1> DEFINE free == Free(clusters[k], n)
  <1>7. /\ free.cpus \in Nat /\ free.gpus \in Nat /\ a["cpus"] \in Int /\ a["cpus"] <= free.cpus
        /\ clusters[k].manager # "ray" => \A r \in DOMAIN a \ {"cpus"} : a[r] <= free.gpus
        /\ \A r \in DOMAIN a : a[r] \in Int
    BY <1>3 DEF NodeReported, IsNode
  <1>8. \A r : Asked(r) \in Nat /\ p * Asked(r) \in Int
    BY <1>1, RequestFacts DEF p
  <1> HIDE DEF free, a
  <1>9. p * Asked("cpus") <= free.cpus
    <2>1. CASE "cpus" \in DOMAIN job.resources
      BY <1>4, <1>6, <1>7, <1>8, <2>1
    <2>2. CASE "cpus" \notin DOMAIN job.resources
      BY <1>5, <1>7, <2>2
    <2> QED
      BY <2>1, <2>2
  <1>10. ASSUME clusters[k].manager # "ray", NEW r \in Accelerators
         PROVE  p * Asked(r) <= free.gpus
    <2>1. CASE r \in DOMAIN job.resources
      <3>1. r \in DOMAIN a /\ p * Asked(r) <= a[r] /\ a[r] <= free.gpus /\ a[r] \in Int
        BY <1>4, <1>6, <1>7, <1>10, <2>1
      <3> QED
        BY <1>7, <1>8, <3>1
    <2>2. CASE r \notin DOMAIN job.resources
      BY <1>5, <1>7, <2>2
    <2> QED
      BY <2>1, <2>2
  <1> QED
    BY <1>9, <1>10 DEF free, p

(* For any clusters and any job: what the scheduler decides is all of the  *)
(* job's replicas, on READY clusters that its filters allow, or nothing;   *)
(* and the CPUs and the accelerators it counts onto a node are free there. *)
THEOREM PlacementsAreSound == Spec => []PlacementIsSound
  <1>1. Init => Typed /\ Greedy /\ Counted
    BY InitTyped, InitGreedy, InitCounted
  <1>2. Typed /\ Greedy /\ Counted /\ [Next]_vars => (Typed /\ Greedy /\ Counted)'
    <2> SUFFICES ASSUME Typed, Greedy, Counted, [Next]_vars PROVE (Typed /\ Greedy /\ Counted)'
      OBVIOUS
    <2>1. Greedy'
      BY NextGreedy
    <2> QED
      BY <2>1, NextTyped, NextCounted
  <1>3. Typed /\ Greedy /\ Counted => PlacementIsSound
    BY TypedIsTypeOK, AllOrNoneCounted, ReplicasAreFree DEF PlacementIsSound
  <1> QED
    BY <1>1, <1>2, <1>3, PTL DEF Spec

-----------------------------------------------------------------------------
(* Where the loop ends without all replicas, every node that may take one  *)
(* holds as many as it takes in all.                                       *)
Most(k, n) == CHOOSE q \in 0 .. job.replicas :
                /\ Takes(Nodes(k)[n], q)
                /\ \A p \in 0 .. job.replicas : Takes(Nodes(k)[n], p) => p <= q

LEMMA MostTakes ==
  ASSUME Given, NEW k \in DOMAIN clusters, NEW n \in DOMAIN Nodes(k)
  PROVE  Most(k, n) \in 0 .. job.replicas /\ Takes(Nodes(k)[n], Most(k, n))
  <1> DEFINE S == {q \in 0 .. job.replicas : Takes(Nodes(k)[n], q)}
  <1>1. job.replicas \in Nat
    BY GivenFacts
  <1>2. 0 \in S
    BY <1>1 DEF Takes
  <1>3. \E q \in S : \A p \in S : p <= q
    <2>1. S \in SUBSET (0 .. job.replicas) /\ S # {}
      BY <1>2
    <2> HIDE DEF S
    <2> QED
      BY <1>1, <2>1, GreatestExists
  <1>4. \E q \in 0 .. job.replicas :
          /\ Takes(Nodes(k)[n], q)
          /\ \A p \in 0 .. job.replicas : Takes(Nodes(k)[n], p) => p <= q
    BY <1>3
  <1> QED
    BY <1>4 DEF Most

LEMMA RoomForOneMore ==
  ASSUME NEW a \in Int, NEW x \in Nat, NEW p \in Nat, NEW q \in Nat, p < q, q * x <= a
  PROVE  x <= a - p * x
  <1>1. PICK d \in Nat : q = p + 1 + d
    <2>1. q - p - 1 \in Nat /\ q = p + 1 + (q - p - 1)
      OBVIOUS
    <2> QED
      BY <2>1
  <1>2. q * x = p * x + x + d * x
    BY <1>1
  <1>3. d * x \in Nat /\ p * x \in Nat
    OBVIOUS
  <1> QED
    BY <1>2, <1>3

(* A node that takes more than it holds fits another replica.              *)
LEMMA FullHoldsMost ==
  ASSUME Typed, NEW k \in DOMAIN clusters, NEW n \in DOMAIN Nodes(k), Accounts(k, n),
         ~Fits(left[k][n], job.resources)
  PROVE  Most(k, n) <= placed[k][n]
  <1> DEFINE q == Most(k, n)
             p == placed[k][n]
  <1>1. /\ Given /\ p \in Nat /\ q \in Nat /\ Takes(Nodes(k)[n], q)
        /\ DOMAIN left[k][n] = DOMAIN Nodes(k)[n]
    BY MostTakes DEF Typed, CountsFit
  <1> HIDE DEF q
  <1>2. SUFFICES ASSUME p < q PROVE FALSE
    BY <1>1 DEF q
  <1>3. ASSUME NEW r \in Reports(k, n)
        PROVE  r \in DOMAIN left[k][n] /\ job.resources[r] <= left[k][n][r]
    <2>1. r \in DOMAIN Nodes(k)[n] /\ q * job.resources[r] <= Nodes(k)[n][r]
      BY <1>1, <1>2 DEF Takes, Reports
    <2>2. job.resources[r] \in Nat /\ Nodes(k)[n][r] \in Int /\ Asked(r) = job.resources[r]
      BY <1>1, <2>1, RequestFacts, NodesFacts DEF Reports, Checked, Asked, IsNode
    <2>3. left[k][n][r] = Nodes(k)[n][r] - p * job.resources[r]
      BY <2>1, <2>2 DEF Accounts
    <2> HIDE DEF p
    <2> QED
      BY <1>1, <1>2, <2>1, <2>2, <2>3, RoomForOneMore
  <1> QED
    BY <1>3, ChecksStay DEF Fits

(* A node that fits no replica takes none.                                 *)
LEMMA UnfitTakesNone ==
  ASSUME Given, NEW k \in DOMAIN clusters, NEW n \in DOMAIN Nodes(k),
         ~Fits(Nodes(k)[n], job.resources)
  PROVE  Most(k, n) = 0
  <1> DEFINE q == Most(k, n)
  <1>1. q \in Nat /\ Takes(Nodes(k)[n], q)
    BY MostTakes, GivenFacts
  <1> HIDE DEF q
  <1>2. SUFFICES ASSUME q > 0 PROVE FALSE
    BY <1>1 DEF q
  <1>3. ASSUME NEW r \in Checked(Nodes(k)[n], job.resources)
        PROVE  r \in DOMAIN Nodes(k)[n] /\ job.resources[r] <= Nodes(k)[n][r]
    <2>1. r \in DOMAIN Nodes(k)[n] /\ q * job.resources[r] <= Nodes(k)[n][r]
      BY <1>1, <1>2 DEF Takes
    <2>2. job.resources[r] \in Nat /\ Nodes(k)[n][r] \in Int
      BY <2>1, RequestFacts, NodesFacts DEF Checked, IsNode
    <2>3. 0 < q /\ 0 \in Nat /\ Nodes(k)[n][r] - 0 * job.resources[r] = Nodes(k)[n][r]
      BY <1>2, <2>2
    <2> QED
      BY <1>1, <2>1, <2>2, <2>3, RoomForOneMore
  <1> QED
    BY <1>3 DEF Fits

LEMMA RoomIsHeld ==
  ASSUME Typed, Spreading, Counted, stage # "failed", at > Len(candidates),
         NEW k \in DOMAIN clusters, Eligible(k)
  PROVE  Room(k) \in Int /\ Room(k) <= ReplicasOn(k)
  <1> DEFINE f == [n \in DOMAIN Nodes(k) |-> Most(k, n)]
  <1>1. ASSUME NEW n \in DOMAIN Nodes(k)
        PROVE  Most(k, n) \in Int /\ placed[k][n] \in Int /\ Most(k, n) <= placed[k][n]
    <2>1. Most(k, n) \in Int /\ placed[k][n] \in Nat
      BY MostTakes, GivenFacts DEF Typed, CountsFit
    <2>2. CASE Passes(k)
      <3>1. PICK i \in DOMAIN candidates : candidates[i] = k
        BY <2>2 DEF Spreading, Chosen
      <3>2. i < at
        BY <3>1, ListOfCandidates DEF Typed, LoopFits
      <3>3. ~Fits(left[k][n], job.resources)
        BY <3>1, <3>2 DEF Spreading, Full
      <3>4. Accounts(k, n)
        BY DEF Counted
      <3> QED
        BY <2>1, <3>3, <3>4, FullHoldsMost
    <2>3. CASE ~Passes(k)
      BY <2>1, <2>3, EligiblePasses, UnfitTakesNone DEF Typed
    <2> QED
      BY <2>2, <2>3, <2>1
  <1>2. IsFiniteSet(DOMAIN Nodes(k)) /\ DOMAIN placed[k] = DOMAIN Nodes(k)
    BY ReplicasCounted
  <1>3. \A n \in DOMAIN Nodes(k) : f[n] \in Int /\ placed[k][n] \in Int /\ f[n] <= placed[k][n]
    BY <1>1
  <1>4. DOMAIN f = DOMAIN Nodes(k) /\ Room(k) = SumFunction(f)
    BY DEF Room, Most
  <1> HIDE DEF f
  <1>5. /\ SumFunctionOnSet(f, DOMAIN Nodes(k)) \in Int
        /\ SumFunctionOnSet(f, DOMAIN Nodes(k)) <= SumFunctionOnSet(placed[k], DOMAIN Nodes(k))
    BY <1>2, <1>3, SumMonotone
  <1> QED
    BY <1>2, <1>4, <1>5 DEF SumFunction, ReplicasOn

LEMMA FailsWithoutRoom ==
  ASSUME Typed, Spreading, Counted, stage # "failed", at > Len(candidates), total < job.replicas
  PROVE  SumFunction([k \in DOMAIN clusters |-> IF Eligible(k) THEN Room(k) ELSE 0]) < job.replicas
  <1> DEFINE f == [k \in DOMAIN clusters |-> IF Eligible(k) THEN Room(k) ELSE 0]
             h == [k \in DOMAIN clusters |-> ReplicasOn(k)]
  <1>1. \A k \in DOMAIN clusters : f[k] \in Int /\ h[k] \in Int /\ f[k] <= h[k]
    BY RoomIsHeld, ReplicasCounted
  <1>2. IsFiniteSet(DOMAIN clusters)
    BY ClustersFinite DEF Typed
  <1>3. DOMAIN f = DOMAIN clusters /\ DOMAIN h = DOMAIN clusters /\ SumFunction(h) = total
    BY DEF Counted
  <1> HIDE DEF f, h
  <1>4. /\ SumFunctionOnSet(f, DOMAIN clusters) \in Int
        /\ SumFunctionOnSet(f, DOMAIN clusters) <= SumFunctionOnSet(h, DOMAIN clusters)
        /\ SumFunctionOnSet(h, DOMAIN clusters) \in Int
    BY <1>1, <1>2, SumMonotone
  <1>5. SumFunction(f) < job.replicas
    <2>1. job.replicas \in Nat
      BY GivenFacts DEF Typed
    <2> QED
      BY <1>3, <1>4, <2>1 DEF SumFunction
  <1> QED
    BY <1>5 DEF f

LEMMA NextFails ==
  ASSUME Typed, Greedy, Counted, FailsOnlyWithoutRoom, [Next]_vars
  PROVE  FailsOnlyWithoutRoom'
  <1> DEFINE short == SumFunction([k \in DOMAIN clusters |-> IF Eligible(k) THEN Room(k) ELSE 0])
                        < job.replicas
  <1>1. UNCHANGED <<clusters, job>>
    BY DEF Next, FilterCluster, RankClusters, PlaceReplica, NextNode, NextCluster, Decide, vars
  <1>2. short' = short
    <2>1. \A k : Eligible(k)' = Eligible(k) /\ Room(k)' = Room(k)
      BY <1>1 DEF Eligible, Room, Takes, Nodes
    <2> QED
      BY <1>1, <2>1
  <1>3. CASE stage = "failed"
    BY <1>2, <1>3 DEF FailsOnlyWithoutRoom
  <1>4. CASE stage # "failed" /\ stage' = "failed"
    <2>1. stage = "spread" /\ total < job.replicas /\ at > Len(candidates)
      <3>1. Decide
        BY <1>4 DEF Next, FilterCluster, RankClusters, PlaceReplica, AtNode, NextNode,
                    NextCluster, vars
      <3> QED
        BY <1>4, <3>1 DEF Decide
    <2>2. Spreading
      BY <2>1 DEF Greedy
    <2>3. short
      BY <1>4, <2>1, <2>2, FailsWithoutRoom
    <2> HIDE DEF short
    <2>4. short'
      BY <1>2, <2>3
    <2> QED
      BY <2>4 DEF FailsOnlyWithoutRoom, short
  <1>5. CASE stage' # "failed"
    BY <1>5 DEF FailsOnlyWithoutRoom
  <1> QED
    BY <1>3, <1>4, <1>5

(* For any clusters and any job: the greedy loop fails a job only if the   *)
(* nodes of the eligible clusters, each weighed as a whole, have not the   *)
(* room for its replicas.                                                  *)
THEOREM FailsForWantOfRoom == Spec => []FailsOnlyWithoutRoom
  <1>1. Init => Typed /\ Greedy /\ Counted /\ FailsOnlyWithoutRoom
    <2>1. Init => FailsOnlyWithoutRoom
      BY DEF Init, FailsOnlyWithoutRoom
    <2> QED
      BY <2>1, InitTyped, InitGreedy, InitCounted
  <1>2. Typed /\ Greedy /\ Counted /\ FailsOnlyWithoutRoom /\ [Next]_vars
        => (Typed /\ Greedy /\ Counted /\ FailsOnlyWithoutRoom)'
    <2> SUFFICES ASSUME Typed, Greedy, Counted, FailsOnlyWithoutRoom, [Next]_vars
                 PROVE  (Typed /\ Greedy /\ Counted /\ FailsOnlyWithoutRoom)'
      OBVIOUS
    <2> QED
      BY NextTyped, NextGreedy, NextCounted, NextFails
  <1> QED
    BY <1>1, <1>2, PTL DEF Spec
===============================================================================
