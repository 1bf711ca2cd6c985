------------------------------ MODULE DataFacts ------------------------------
(***************************************************************************)
(* Facts about numbers, recursion, layers and sorted sequences that the    *)
(* proofs of the transformations rest on.  Induction is stated over sets:  *)
(* a set of numbers that is not empty has a least one.                     *)
(***************************************************************************)
EXTENDS Integers, Sequences, FiniteSets, FiniteSetTheorems, WellFoundedInduction, TLAPS

-----------------------------------------------------------------------------
(* Induction.                                                               *)

\* The order of the naturals is well founded.
LEMMA LeastNatural ==
  ASSUME NEW S \in SUBSET Nat, S # {}
  PROVE  \E m \in S : \A k \in S : m <= k
<1> DEFINE R == {ss \in Nat \X Nat : ss[1] < ss[2]}
<1>1. IsWellFoundedOn(R, Nat)
  BY NatLessThanWellFounded DEF OpToRel
<1>2. \A m, k \in Nat : k < m => <<k, m>> \in R
  OBVIOUS
<1> HIDE DEF R
<1>3. PICK m \in S : \A k \in S : ~ (<<k, m>> \in R)
  BY <1>1, WFMin
<1>4. ASSUME NEW k \in S PROVE m <= k
  <2>1. m \in Nat /\ k \in Nat /\ ~ (k < m)
    BY <1>2, <1>3
  <2> QED
    BY <2>1
<1> QED
  BY <1>4

\* What holds of 0, and of every number whose predecessor it holds of, holds up to n.
LEMMA UpTo ==
  ASSUME NEW n \in Nat, NEW S, 0 \in S, \A k \in 1 .. n : k - 1 \in S => k \in S
  PROVE  0 .. n \subseteq S
<1> SUFFICES ASSUME (0 .. n) \ S # {} PROVE FALSE
  OBVIOUS
<1>0. (0 .. n) \ S \in SUBSET Nat
  OBVIOUS
<1>1. PICK m \in (0 .. n) \ S : \A k \in (0 .. n) \ S : m <= k
  BY <1>0, LeastNatural
<1>2. m \in 1 .. n /\ m - 1 \in S
  BY <1>1
<1> QED
  BY <1>1, <1>2

\* What holds of a number as soon as it holds of all smaller ones holds of all.
LEMMA AllSmaller ==
  ASSUME NEW D \in SUBSET Nat, NEW S, \A k \in D : (\A j \in D : j < k => j \in S) => k \in S
  PROVE  D \subseteq S
<1> SUFFICES ASSUME D \ S # {} PROVE FALSE
  OBVIOUS
<1>1. PICK m \in D \ S : \A k \in D \ S : m <= k
  BY LeastNatural
<1>2. \A j \in D : j < m => j \in S
  BY <1>1
<1> QED
  BY <1>1, <1>2

\* A value for each of 0 .. n, each computed from the one before.
StepOn(n, V, first, step) == n \in Nat /\ first \in V /\ step \in [(1 .. n) \X V -> V]
Iterates(f, n, V, first, step) ==
  f \in [0 .. n -> V] /\ f[0] = first /\ \A k \in 1 .. n : f[k] = step[<<k, f[k - 1]>>]

\* A recursive function defined by its first value and its step exists and obeys both.
LEMMA Iteration ==
  ASSUME NEW n, NEW V, NEW first, NEW step, StepOn(n, V, first, step)
  PROVE  \E f : Iterates(f, n, V, first, step)
<1> SUFFICES \E f \in [0 .. n -> V] : f[0] = first /\ \A k \in 1 .. n : f[k] = step[<<k, f[k - 1]>>]
  BY DEF Iterates
<1> n \in Nat /\ first \in V /\ step \in [(1 .. n) \X V -> V]
  BY DEF StepOn
<1> DEFINE Good(m, f) == f[0] = first /\ \A k \in 1 .. m : f[k] = step[<<k, f[k - 1]>>]
           S == {m \in 0 .. n : \E f \in [0 .. m -> V] : Good(m, f)}
<1>1. 0 \in S
  <2> DEFINE g == [k \in 0 .. 0 |-> first]
  <2>1. g \in [0 .. 0 -> V] /\ Good(0, g)
    OBVIOUS
  <2> HIDE DEF g
  <2>2. \E f \in [0 .. 0 -> V] : Good(0, f)
    BY <2>1
  <2> QED
    BY <2>2
<1>2. ASSUME NEW m \in 1 .. n, m - 1 \in S PROVE m \in S
  <2>1. PICK f \in [0 .. m - 1 -> V] : Good(m - 1, f)
    BY <1>2
  <2> DEFINE last == step[<<m, f[m - 1]>>]
             g == [k \in 0 .. m |-> IF k = m THEN last ELSE f[k]]
  <2>2. f[m - 1] \in V /\ <<m, f[m - 1]>> \in (1 .. n) \X V
    OBVIOUS
  <2>3. last \in V
    BY <2>2
  <2> HIDE DEF last
  <2>4. g \in [0 .. m -> V]
    BY <2>3
  <2>5. g[0] = first /\ g[m] = last /\ g[m - 1] = f[m - 1]
    BY <2>1
  <2>6. \A k \in 1 .. m - 1 : g[k] = step[<<k, g[k - 1]>>]
    <3> SUFFICES ASSUME NEW k \in 1 .. m - 1 PROVE g[k] = step[<<k, g[k - 1]>>]
      OBVIOUS
    <3>1. g[k] = f[k] /\ g[k - 1] = f[k - 1]
      OBVIOUS
    <3> QED
      BY <2>1, <3>1
  <2>7. \A k \in 1 .. m : k = m \/ k \in 1 .. m - 1
    OBVIOUS
  <2>8. Good(m, g)
    BY <2>5, <2>6, <2>7 DEF last
  <2> HIDE DEF g
  <2>9. \E h \in [0 .. m -> V] : Good(m, h)
    BY <2>4, <2>8
  <2> QED
    BY <2>9
<1> HIDE DEF S
<1>3. 0 .. n \subseteq S
  BY <1>1, <1>2, UpTo
<1>4. n \in S
  BY <1>3
<1> QED
  BY <1>4 DEF S

\* The values a function has on a finite set are finitely many.
LEMMA FiniteImage ==
  ASSUME NEW S, IsFiniteSet(S), NEW f
  PROVE  IsFiniteSet({f[s] : s \in S})
<1> DEFINE T == {f[s] : s \in S}
           g == [s \in S |-> f[s]]
<1>1. g \in Surjection(S, T)
  BY DEF Surjection
<1> QED
  BY <1>1, FS_Surjection

-----------------------------------------------------------------------------
(* Layers: sets that grow until they hold everything.                       *)

\* Sets that grow with each step until they are all of D are all of D after as many steps
\* as D has elements.
GrowsTo(D, f) ==
  /\ f \in [0 .. Cardinality(D) -> SUBSET D]
  /\ \A k \in 1 .. Cardinality(D) : f[k - 1] \subseteq f[k] /\ (f[k - 1] # D => f[k] # f[k - 1])

\* A growing chain of subsets of a finite set that stops only at the whole set reaches it.
LEMMA LayersFill ==
  ASSUME NEW D, IsFiniteSet(D), NEW f, GrowsTo(D, f)
  PROVE  f[Cardinality(D)] = D
<1> USE DEF GrowsTo
<1> DEFINE n == Cardinality(D)
           S == {k \in 0 .. n : f[k] = D \/ Cardinality(f[k]) >= k}
<1>0. n \in Nat
  BY FS_CardinalityType
<1>1. \A k \in 0 .. n : IsFiniteSet(f[k]) /\ Cardinality(f[k]) \in Nat /\ Cardinality(f[k]) <= n
  BY <1>0, FS_Subset, FS_CardinalityType
<1>2. 0 \in S
  BY <1>0, <1>1
<1>3. ASSUME NEW k \in 1 .. n, k - 1 \in S PROVE k \in S
  <2>1. k \in 0 .. n /\ k - 1 \in 0 .. n
    BY <1>0
  <2>2. CASE f[k - 1] = D
    <3>1. f[k] \subseteq D /\ D \subseteq f[k]
      BY <2>1, <2>2
    <3> QED
      BY <2>1, <3>1
  <2>3. CASE f[k - 1] # D
    <3>1. Cardinality(f[k - 1]) >= k - 1
      BY <1>3, <2>3
    <3>2. f[k - 1] \subseteq f[k] /\ f[k - 1] # f[k]
      BY <2>3
    <3>3. Cardinality(f[k - 1]) < Cardinality(f[k])
      BY <3>2, <2>1, <1>1, FS_Subset
    <3> QED
      BY <3>1, <3>3, <2>1, <1>1
  <2> QED
    BY <2>2, <2>3
<1> HIDE DEF n, S
<1>4. n \in S
  <2>1. 0 .. n \subseteq S
    BY <1>0, <1>2, <1>3, UpTo
  <2> QED
    BY <1>0, <2>1
<1>5. Cardinality(f[n]) >= n => f[n] = D
  BY <1>0, <1>1, FS_Subset DEF n
<1> QED
  BY <1>4, <1>5 DEF S, n

\* A recursion that computes a set from the set before has a solution.
Computes(f, n, D, grow) ==
  f \in [0 .. n -> SUBSET D] /\ f[0] = {} /\ \A k \in 1 .. n : f[k] = grow[f[k - 1]]

\* The layers computed from a first set and a step exist.
LEMMA LayersExist ==
  ASSUME NEW n \in Nat, NEW D, NEW grow, grow \in [SUBSET D -> SUBSET D]
  PROVE  \E f : Computes(f, n, D, grow)
<1> DEFINE V == SUBSET D
           step == [p \in (1 .. n) \X V |-> grow[p[2]]]
           none == {}
<1>1. StepOn(n, V, none, step)
  BY DEF StepOn
<1>2. \A k \in 1 .. n : \A T \in V : step[<<k, T>>] = grow[T]
  OBVIOUS
<1> HIDE DEF V, step, none
<1>3. PICK f : Iterates(f, n, V, none, step)
  BY <1>1, Iteration
<1>4. f \in [0 .. n -> V] /\ f[0] = none /\ \A k \in 1 .. n : f[k] = step[<<k, f[k - 1]>>]
  BY <1>3 DEF Iterates
<1>5. \A k \in 1 .. n : f[k] = grow[f[k - 1]]
  <2> SUFFICES ASSUME NEW k \in 1 .. n PROVE f[k] = grow[f[k - 1]]
    OBVIOUS
  <2>1. f[k - 1] \in V
    BY <1>4
  <2> QED
    BY <1>2, <1>4, <2>1
<1> QED
  BY <1>4, <1>5 DEF V, none, Computes

\* No set of nodes in which each reads another of the set: nobody waits for everybody.
Acyclic(D, reads) == \A S \in SUBSET D : S # {} => \E n \in S : reads[n] \cap S = {}

\* In a finite graph without cycles the nodes that can follow the nodes before them are all,
\* after as many layers as there are nodes.
Layered(D, B, reads, f) ==
  /\ f \in [0 .. Cardinality(D) -> SUBSET D]
  /\ \A k \in 1 .. Cardinality(D) : f[k] = f[k - 1] \cup {n \in D : reads[n] \subseteq f[k - 1] \cup B}

\* Over a finite acyclic relation, the layers built from predecessors reach every element.
LEMMA LayersReachAll ==
  ASSUME NEW D, IsFiniteSet(D), NEW B, NEW reads, \A n \in D : reads[n] \subseteq D \cup B,
         Acyclic(D, reads), NEW f, Layered(D, B, reads, f)
  PROVE  f[Cardinality(D)] = D
<1> USE DEF Layered
<1>1. ASSUME NEW k \in 1 .. Cardinality(D), f[k - 1] # D PROVE f[k] # f[k - 1]
  <2>1. Cardinality(D) \in Nat
    BY FS_CardinalityType
  <2>2. f[k - 1] \in SUBSET D
    BY <2>1
  <2>3. PICK n \in D \ f[k - 1] : reads[n] \cap (D \ f[k - 1]) = {}
    BY <1>1, <2>2 DEF Acyclic
  <2>4. n \in f[k]
    BY <2>3
  <2> QED
    BY <2>3, <2>4
<1>2. \A k \in 1 .. Cardinality(D) : f[k - 1] \subseteq f[k]
  OBVIOUS
<1>3. GrowsTo(D, f)
  BY <1>1, <1>2 DEF GrowsTo
<1> QED
  BY <1>3, LayersFill

-----------------------------------------------------------------------------
(* The place of an element in a total order.                                *)

\* A finite set and the pairs of a strict total order on it.
Orders(S, lt) ==
  /\ IsFiniteSet(S)
  /\ \A i \in S : <<i, i>> \notin lt
  /\ \A i, j \in S : i = j \/ <<i, j>> \in lt \/ <<j, i>> \in lt
  /\ \A i, j, k \in S : <<i, j>> \in lt /\ <<j, k>> \in lt => <<i, k>> \in lt

Before(S, lt, j) == {i \in S : <<i, j>> \in lt}
Rank(S, lt, j) == Cardinality(Before(S, lt, j))

\* As many elements stand before one as its place says, and fewer before an earlier one.
LEMMA RankIsPlace ==
  ASSUME NEW S, NEW lt, Orders(S, lt)
  PROVE  /\ \A j \in S : Rank(S, lt, j) \in 0 .. Cardinality(S) - 1
         /\ \A i, j \in S : <<i, j>> \in lt <=> Rank(S, lt, i) < Rank(S, lt, j)
         /\ \A i, j \in S : Rank(S, lt, i) = Rank(S, lt, j) => i = j
<1> USE DEF Orders, Rank
<1>0. \A j : IsFiniteSet(Before(S, lt, j)) /\ Rank(S, lt, j) \in Nat
  <2> SUFFICES ASSUME NEW j PROVE IsFiniteSet(Before(S, lt, j)) /\ Rank(S, lt, j) \in Nat
    OBVIOUS
  <2>1. Before(S, lt, j) \in SUBSET S
    BY DEF Before
  <2> QED
    BY <2>1, FS_Subset, FS_CardinalityType
<1>1. ASSUME NEW j \in S PROVE Rank(S, lt, j) \in 0 .. Cardinality(S) - 1
  <2>1. Before(S, lt, j) \in SUBSET S /\ Before(S, lt, j) # S
    BY DEF Before
  <2>2. Cardinality(Before(S, lt, j)) <= Cardinality(S) /\ Cardinality(S) # Cardinality(Before(S, lt, j))
    BY <2>1, FS_Subset
  <2> QED
    BY <1>0, <2>2, FS_CardinalityType
<1>2. ASSUME NEW i \in S, NEW j \in S, <<i, j>> \in lt PROVE Rank(S, lt, i) < Rank(S, lt, j)
  <2>1. Before(S, lt, i) \in SUBSET Before(S, lt, j)
    BY <1>2 DEF Before
  <2>2. i \in Before(S, lt, j) /\ i \notin Before(S, lt, i)
    BY <1>2 DEF Before
  <2>3. /\ Cardinality(Before(S, lt, i)) <= Cardinality(Before(S, lt, j))
        /\ Cardinality(Before(S, lt, i)) # Cardinality(Before(S, lt, j))
    BY <1>0, <2>1, <2>2, FS_Subset
  <2> QED
    BY <1>0, <2>3
<1> QED
  <2>1. \A i, j \in S : <<i, j>> \in lt => Rank(S, lt, i) < Rank(S, lt, j)
    BY <1>2
  <2>2. \A i, j \in S : i = j \/ <<i, j>> \in lt \/ <<j, i>> \in lt
    OBVIOUS
  <2> HIDE DEF Orders, Rank
  <2>3. ASSUME NEW i \in S, NEW j \in S
        PROVE  /\ <<i, j>> \in lt <=> Rank(S, lt, i) < Rank(S, lt, j)
               /\ Rank(S, lt, i) = Rank(S, lt, j) => i = j
    <3>1. Rank(S, lt, i) \in Nat /\ Rank(S, lt, j) \in Nat
      BY <1>0
    <3>2. i = j \/ <<i, j>> \in lt \/ <<j, i>> \in lt
      BY <2>2, Zenon
    <3>3. /\ <<i, j>> \in lt => Rank(S, lt, i) < Rank(S, lt, j)
          /\ <<j, i>> \in lt => Rank(S, lt, j) < Rank(S, lt, i)
      BY <2>1, Zenon
    <3> DEFINE ri == Rank(S, lt, i)
               rj == Rank(S, lt, j)
    <3>4. i = j => ri = rj
      OBVIOUS
    <3> HIDE DEF ri, rj
    <3> QED
      BY <3>1, <3>2, <3>3, <3>4 DEF ri, rj
  <2> QED
    BY <1>1, <2>3

\* Every place is taken.
LEMMA PlacesTaken ==
  ASSUME NEW S, NEW lt, Orders(S, lt)
  PROVE  \A k \in 0 .. Cardinality(S) - 1 : \E j \in S : Rank(S, lt, j) = k
<1> DEFINE n == Cardinality(S)
           f == [j \in S |-> Rank(S, lt, j)]
<1>0. IsFiniteSet(S) /\ n \in Nat
  BY FS_CardinalityType DEF Orders
<1>1. f \in Injection(S, 0 .. n - 1)
  BY RankIsPlace DEF Injection, IsInjective
<1>2. IsFiniteSet(0 .. n - 1) /\ Cardinality(0 .. n - 1) = n
  BY <1>0, FS_Interval
<1>3. f \in Surjection(S, 0 .. n - 1)
  BY <1>0, <1>1, <1>2, FS_Injection
<1> QED
  BY <1>3 DEF Surjection

\* The elements whose places are a run of places: in that set they stand in the same
\* order, from the first on.
Run(S, lt, a, b) == {i \in S : Rank(S, lt, i) \in a .. b}

\* The sequence that puts every element at its rank lists each element once, in order.
LEMMA RunIsOrdered ==
  ASSUME NEW S, NEW lt, Orders(S, lt), NEW a \in Nat, NEW b \in Int
  PROVE  /\ Orders(Run(S, lt, a, b), lt)
         /\ \A i \in Run(S, lt, a, b) : Rank(Run(S, lt, a, b), lt, i) = Rank(S, lt, i) - a
         /\ b < Cardinality(S) => Cardinality(Run(S, lt, a, b)) = IF a > b THEN 0 ELSE b - a + 1
<1> DEFINE T == Run(S, lt, a, b)
<1>0. T \in SUBSET S /\ IsFiniteSet(T) /\ Cardinality(S) \in Nat
  BY FS_Subset, FS_CardinalityType DEF Orders, Run
<1>1. Orders(T, lt)
  BY <1>0 DEF Orders
<1>2. ASSUME NEW i \in T PROVE Rank(T, lt, i) = Rank(S, lt, i) - a
  <2> DEFINE B == Before(T, lt, i)
             r == Rank(S, lt, i)
             f == [j \in B |-> Rank(S, lt, j)]
  <2>0. i \in S /\ r \in Nat /\ r >= a /\ r <= b /\ r <= Cardinality(S) - 1
    BY <1>0, RankIsPlace DEF Run
  <2>1. \A j \in B : j \in S /\ Rank(S, lt, j) \in a .. r - 1
    BY <1>0, <2>0, RankIsPlace DEF Before, Run
  <2>2. f \in Injection(B, a .. r - 1)
    BY <2>1, RankIsPlace DEF Injection, IsInjective
  <2>3. ASSUME NEW k \in a .. r - 1 PROVE \E j \in B : f[j] = k
    <3>1. PICK j \in S : Rank(S, lt, j) = k
      BY <2>0, <1>0, PlacesTaken
    <3>2. j \in T
      BY <3>1, <2>0 DEF Run
    <3>3. <<j, i>> \in lt
      BY <3>1, <2>0, RankIsPlace
    <3> QED
      BY <3>1, <3>2, <3>3 DEF Before
  <2>4. f \in Bijection(B, a .. r - 1)
    BY <2>2, <2>3 DEF Bijection, Surjection, Injection
  <2>5. IsFiniteSet(B)
    BY <1>0, FS_Subset DEF Before
  <2>6. Cardinality(B) = Cardinality(a .. r - 1)
    BY <2>4, <2>5, FS_Bijection DEF ExistsBijection
  <2>7. Cardinality(a .. r - 1) = r - a
    <3> HIDE DEF r
    <3>1. r - 1 \in Int /\ a \in Int
      BY <2>0
    <3>2. Cardinality(a .. r - 1) = IF a > r - 1 THEN 0 ELSE r - 1 - a + 1
      BY <3>1, FS_Interval
    <3> QED
      BY <2>0, <3>2
  <2> QED
    BY <2>6, <2>7 DEF Rank
<1>3. ASSUME b < Cardinality(S) PROVE Cardinality(T) = IF a > b THEN 0 ELSE b - a + 1
  <2> DEFINE f == [j \in T |-> Rank(S, lt, j)]
  <2>1. f \in Injection(T, a .. b)
    BY <1>0, RankIsPlace DEF Injection, IsInjective, Run
  <2>2. ASSUME NEW k \in a .. b PROVE \E j \in T : f[j] = k
    <3>1. PICK j \in S : Rank(S, lt, j) = k
      BY <1>0, <1>3, PlacesTaken
    <3> QED
      BY <3>1 DEF Run
  <2>3. f \in Bijection(T, a .. b)
    BY <2>1, <2>2 DEF Bijection, Surjection, Injection
  <2>4. Cardinality(T) = Cardinality(a .. b)
    BY <1>0, <2>3, FS_Bijection DEF ExistsBijection
  <2> QED
    BY <2>4, FS_Interval
<1> QED
  BY <1>1, <1>2, <1>3

==============================================================================
