-------------------------- MODULE JobManagerProofs --------------------------
(***************************************************************************)
(* The safety of JobManager for every set of jobs, users, priorities and   *)
(* partitions, every quantum, batch size and starvation limit.             *)
(***************************************************************************)
EXTENDS JobManager, FiniteSetTheorems, TLAPS

-----------------------------------------------------------------------------
(* What the operators of Deque return, for deques of every length.          *)

\* An element of a deque is paired with itself.
LEMMA ElemsReflexive ==
  ASSUME NEW S, NEW d, IsDeque(d, S)
  PROVE  /\ Elems(d) \subseteq S
         /\ \A x \in S : x \in Elems(d) <=> <<x, x>> \in d
         /\ \A x, y : <<x, y>> \in d => x \in Elems(d) /\ y \in Elems(d)
  <1>1. \A x, y : <<x, y>> \in d => x \in S /\ y \in S
    BY DEF IsDeque
  <1>2. ASSUME NEW x, NEW y, <<x, y>> \in d
        PROVE  x \in Elems(d)
    <2>1. <<x, y>>[1] = x
      OBVIOUS
    <2> QED
      BY <1>2, <2>1 DEF Elems
  <1>3. ASSUME NEW x \in Elems(d)
        PROVE  \E y \in S : <<x, y>> \in d
    <2>1. PICK pair \in d : x = pair[1]
      BY DEF Elems
    <2>2. pair \in S \X S
      BY DEF IsDeque
    <2>3. pair = <<pair[1], pair[2]>> /\ pair[2] \in S
      BY <2>2
    <2> QED
      BY <2>1, <2>3
  <1>4. \A x, y \in S : <<x, y>> \in d => <<x, x>> \in d /\ <<y, y>> \in d
    BY DEF IsDeque
  <1> QED
    BY <1>1, <1>2, <1>3, <1>4

\* Keep selects the elements and Without drops them.
LEMMA KeepElems ==
  ASSUME NEW S, NEW d, NEW X, IsDeque(d, S)
  PROVE  Elems(Keep(d, X)) = Elems(d) \cap X
  <1>1. \A x, y : <<x, y>> \in Keep(d, X) <=> <<x, y>> \in d /\ x \in X /\ y \in X
    BY DEF Keep
  <1>2. Keep(d, X) \subseteq S \X S
    BY DEF Keep, IsDeque
  <1>3. \A x : x \in Elems(d) <=> <<x, x>> \in d
    BY ElemsReflexive
  <1>4. ASSUME NEW x \in Elems(Keep(d, X))
        PROVE  x \in Elems(d) \cap X
    <2>1. PICK pair \in Keep(d, X) : x = pair[1]
      BY DEF Elems
    <2>2. pair = <<pair[1], pair[2]>>
      BY <1>2, <2>1
    <2>3. <<x, pair[2]>> \in Keep(d, X)
      BY <2>1, <2>2
    <2> QED
      BY <1>1, <2>3, ElemsReflexive
  <1>5. ASSUME NEW x \in Elems(d) \cap X
        PROVE  x \in Elems(Keep(d, X))
    <2>1. <<x, x>> \in Keep(d, X) /\ <<x, x>>[1] = x
      BY <1>1, <1>3
    <2> QED
      BY <2>1 DEF Elems
  <1> QED
    BY <1>4, <1>5

\* Removing a set removes those elements and no others.
LEMMA WithoutElems ==
  ASSUME NEW S, NEW d, NEW X, IsDeque(d, S)
  PROVE  Elems(Without(d, X)) = Elems(d) \ X
  <1>1. \A x, y : <<x, y>> \in Without(d, X) <=> <<x, y>> \in d /\ x \notin X /\ y \notin X
    BY DEF Without
  <1>2. Without(d, X) \subseteq S \X S
    BY DEF Without, IsDeque
  <1>3. \A x : x \in Elems(d) <=> <<x, x>> \in d
    BY ElemsReflexive
  <1>4. ASSUME NEW x \in Elems(Without(d, X))
        PROVE  x \in Elems(d) \ X
    <2>1. PICK pair \in Without(d, X) : x = pair[1]
      BY DEF Elems
    <2>2. pair = <<pair[1], pair[2]>>
      BY <1>2, <2>1
    <2>3. <<x, pair[2]>> \in Without(d, X)
      BY <2>1, <2>2
    <2> QED
      BY <1>1, <2>3, ElemsReflexive
  <1>5. ASSUME NEW x \in Elems(d) \ X
        PROVE  x \in Elems(Without(d, X))
    <2>1. <<x, x>> \in Without(d, X) /\ <<x, x>>[1] = x
      BY <1>1, <1>3
    <2> QED
      BY <2>1 DEF Elems
  <1> QED
    BY <1>4, <1>5

\* Filtering preserves the order.
LEMMA KeepIsDeque ==
  ASSUME NEW S, NEW d, NEW X, IsDeque(d, S)
  PROVE  IsDeque(Keep(d, X), S)
  <1> DEFINE k == Keep(d, X)
  <1>1. k \subseteq d
    BY DEF Keep
  <1>2. \A x, y : <<x, y>> \in k <=> <<x, y>> \in d /\ x \in X /\ y \in X
    BY DEF Keep
  <1>3. Elems(k) = Elems(d) \cap X
    BY KeepElems
  <1> HIDE DEF k
  <1>4. k \subseteq S \X S
    BY <1>1 DEF IsDeque
  <1>5. \A x, y \in S : <<x, y>> \in k => <<x, x>> \in k /\ <<y, y>> \in k
    BY <1>2 DEF IsDeque
  <1>6. \A x, y \in S : <<x, y>> \in k /\ <<y, x>> \in k => x = y
    BY <1>2 DEF IsDeque
  <1>7. \A x, y, z \in S : <<x, y>> \in k /\ <<y, z>> \in k => <<x, z>> \in k
    BY <1>2 DEF IsDeque
  <1>8. \A x, y \in Elems(k) : <<x, y>> \in k \/ <<y, x>> \in k
    BY <1>2, <1>3 DEF IsDeque
  <1> QED
    BY <1>4, <1>5, <1>6, <1>7, <1>8 DEF IsDeque, k

\* Removing elements leaves a deque.
LEMMA WithoutIsDeque ==
  ASSUME NEW S, NEW d, NEW X, IsDeque(d, S)
  PROVE  IsDeque(Without(d, X), S)
  <1> DEFINE k == Without(d, X)
  <1>1. k \subseteq d
    BY DEF Without
  <1>2. \A x, y : <<x, y>> \in k <=> <<x, y>> \in d /\ x \notin X /\ y \notin X
    BY DEF Without
  <1>3. Elems(k) = Elems(d) \ X
    BY WithoutElems
  <1> HIDE DEF k
  <1>4. k \subseteq S \X S
    BY <1>1 DEF IsDeque
  <1>5. \A x, y \in S : <<x, y>> \in k => <<x, x>> \in k /\ <<y, y>> \in k
    BY <1>2 DEF IsDeque
  <1>6. \A x, y \in S : <<x, y>> \in k /\ <<y, x>> \in k => x = y
    BY <1>2 DEF IsDeque
  <1>7. \A x, y, z \in S : <<x, y>> \in k /\ <<y, z>> \in k => <<x, z>> \in k
    BY <1>2 DEF IsDeque
  <1>8. \A x, y \in Elems(k) : <<x, y>> \in k \/ <<y, x>> \in k
    BY <1>2, <1>3 DEF IsDeque
  <1> QED
    BY <1>4, <1>5, <1>6, <1>7, <1>8 DEF IsDeque, k

\* Appending new elements keeps every element and the order.
LEMMA ConcatElems ==
  ASSUME NEW S, NEW d, NEW e, IsDeque(d, S), IsDeque(e, S)
  PROVE  Elems(Concat(d, e)) = Elems(d) \cup Elems(e)
  BY DEF Concat, Elems

\* Appending a deque of new elements gives a deque.
LEMMA ConcatIsDeque ==
  ASSUME NEW S, NEW d, NEW e, IsDeque(d, S), IsDeque(e, S),
         Elems(d) \cap Elems(e) = {}
  PROVE  IsDeque(Concat(d, e), S)
  <1>1. Elems(d) \subseteq S /\ Elems(e) \subseteq S
    BY ElemsReflexive
  <1>2. \A x, y : <<x, y>> \in d => x \in Elems(d) /\ y \in Elems(d)
    BY ElemsReflexive
  <1>3. \A x, y : <<x, y>> \in e => x \in Elems(e) /\ y \in Elems(e)
    BY ElemsReflexive
  <1>4. \A x \in Elems(d) : <<x, x>> \in d
    BY ElemsReflexive
  <1>5. \A x \in Elems(e) : <<x, x>> \in e
    BY ElemsReflexive
  <1> DEFINE c == Concat(d, e)
  <1>6. c \subseteq S \X S
    <2>1. d \subseteq S \X S /\ e \subseteq S \X S
      BY DEF IsDeque
    <2>2. (Elems(d) \X Elems(e)) \subseteq S \X S
      BY <1>1
    <2> QED
      BY <2>1, <2>2 DEF Concat
  <1>7. \A x, y : <<x, y>> \in c <=>
          <<x, y>> \in d \/ <<x, y>> \in e \/ (x \in Elems(d) /\ y \in Elems(e))
    BY DEF Concat
  <1>8. Elems(c) = Elems(d) \cup Elems(e)
    BY ConcatElems
  <1> HIDE DEF c
  <1>9. \A x, y \in S : <<x, y>> \in c => <<x, x>> \in c /\ <<y, y>> \in c
    BY <1>2, <1>3, <1>4, <1>5, <1>7
  <1>10. \A x, y \in S : <<x, y>> \in c /\ <<y, x>> \in c => x = y
    <2>1. \A x, y \in S : <<x, y>> \in d /\ <<y, x>> \in d => x = y
      BY DEF IsDeque
    <2>2. \A x, y \in S : <<x, y>> \in e /\ <<y, x>> \in e => x = y
      BY DEF IsDeque
    <2> QED
      BY <1>2, <1>3, <1>7, <2>1, <2>2
  <1>11. \A x, y, z \in S : <<x, y>> \in c /\ <<y, z>> \in c => <<x, z>> \in c
    <2>1. \A x, y, z \in S : <<x, y>> \in d /\ <<y, z>> \in d => <<x, z>> \in d
      BY DEF IsDeque
    <2>2. \A x, y, z \in S : <<x, y>> \in e /\ <<y, z>> \in e => <<x, z>> \in e
      BY DEF IsDeque
    <2> QED
      BY <1>2, <1>3, <1>7, <2>1, <2>2
  <1>12. \A x, y \in Elems(c) : <<x, y>> \in c \/ <<y, x>> \in c
    <2>1. \A x, y \in Elems(d) : <<x, y>> \in d \/ <<y, x>> \in d
      BY DEF IsDeque
    <2>2. \A x, y \in Elems(e) : <<x, y>> \in e \/ <<y, x>> \in e
      BY DEF IsDeque
    <2> QED
      BY <1>7, <1>8, <2>1, <2>2
  <1> QED
    BY <1>6, <1>9, <1>10, <1>11, <1>12 DEF IsDeque, c

\* One element is a deque.
LEMMA SingletonIsDeque ==
  ASSUME NEW S, NEW x \in S
  PROVE  IsDeque({<<x, x>>}, S) /\ Elems({<<x, x>>}) = {x}
  BY DEF IsDeque, Elems

\* The empty deque is a deque without elements.
LEMMA EmptyIsDeque ==
  ASSUME NEW S
  PROVE  IsDeque(EmptyDeque, S) /\ Elems(EmptyDeque) = {}
  BY DEF IsDeque, Elems, EmptyDeque

\* Appending one new element gives a deque.
LEMMA PushBackIsDeque ==
  ASSUME NEW S, NEW d, NEW x \in S, IsDeque(d, S), x \notin Elems(d)
  PROVE  IsDeque(PushBack(d, x), S) /\ Elems(PushBack(d, x)) = Elems(d) \cup {x}
  BY SingletonIsDeque, ConcatIsDeque, ConcatElems DEF PushBack

\* Rotation permutes.
LEMMA MoveBackIsDeque ==
  ASSUME NEW S, NEW d, NEW X, IsDeque(d, S)
  PROVE  IsDeque(MoveBack(d, X), S) /\ Elems(MoveBack(d, X)) = Elems(d)
  <1>1. IsDeque(Without(d, X), S) /\ IsDeque(Keep(d, X), S)
    BY WithoutIsDeque, KeepIsDeque
  <1>2. Elems(Without(d, X)) = Elems(d) \ X /\ Elems(Keep(d, X)) = Elems(d) \cap X
    BY WithoutElems, KeepElems
  <1>3. IsDeque(MoveBack(d, X), S)
    BY <1>1, <1>2, ConcatIsDeque DEF MoveBack
  <1>4. Elems(MoveBack(d, X)) = Elems(Without(d, X)) \cup Elems(Keep(d, X))
    BY <1>1, ConcatElems DEF MoveBack
  <1> QED
    BY <1>2, <1>3, <1>4

-----------------------------------------------------------------------------
(* The invariant of the job manager.                                        *)

\* The inductive invariant.
IInv ==
  /\ TypeOK
  /\ DequesWellFormed
  /\ NoWorkflowLost
  /\ ReservationSound
  /\ OneReservation
  /\ UserRingCoversQueue
  /\ PartitionRingIsLive
  /\ NoLostWakeup
  /\ DoomedIsQueued

\* The candidates of a partition are queued workflows of that partition.
LEMMA CandidatesInPool ==
  ASSUME NEW part
  PROVE  \A w \in Candidates(part) : w \in Queued /\ PartitionOf[w] = part
  BY DEF Candidates, Peek, Pool

\* Whether the starvation path or the policy chose it, a batch is a non-empty
\* set of candidates within the batch size.
LEMMA BatchesAreBatches ==
  ASSUME NEW C, IsFiniteSet(C), NEW B \in Batches(C)
  PROVE  B \subseteq C /\ B # {} /\ Cardinality(B) <= BatchSize
  <1> BatchSize \in Nat \ {0}
    BY ConstantsAssumption
  <1>1. Cardinality(C) \in Nat /\ (C # {} => Cardinality(C) # 0)
    BY FS_CardinalityType, FS_EmptySet
  <1>2. B \subseteq C
    BY DEF Batches
  <1>3. CASE Starved(C) = {}
    BY <1>2, <1>3 DEF Batches
  <1>4. CASE Starved(C) # {}
    <2>1. C # {}
      BY <1>4 DEF Starved
    <2>2. Cardinality(B) = IF Cardinality(C) < BatchSize THEN Cardinality(C) ELSE BatchSize
      BY <1>4 DEF Batches
    <2>3. Cardinality(B) <= BatchSize /\ Cardinality(B) # 0
      BY <1>1, <2>1, <2>2
    <2>4. B # {}
      BY <2>3, FS_EmptySet
    <2> QED
      BY <1>2, <2>3, <2>4
  <1> QED
    BY <1>3, <1>4

\* The partitions a job shows form a deque in the order of first appearance.
LEMMA FirstSeenIsDeque ==
  ASSUME NEW W \in SUBSET Workflows, NEW P \in SUBSET PartitionsIn(W)
  PROVE  /\ IsDeque(FirstSeen(W, P), Partitions)
         /\ Elems(FirstSeen(W, P)) = P
  <1> DEFINE fs == FirstSeen(W, P)
             Before(v, w) == <<v, w>> \in GraphOrder
             Of(v, p) == v \in W /\ PartitionOf[v] = p
  <1>1. P \subseteq Partitions
    BY ConstantsAssumption DEF PartitionsIn
  <1>2. \A p, q : <<p, q>> \in fs <=>
          /\ p \in P /\ q \in P
          /\ \E v : Of(v, p) /\ \A w : Of(w, q) => Before(v, w)
    BY DEF FirstSeen, AtOrBefore
  <1>3. ASSUME NEW p \in P
        PROVE  \E v : Of(v, p) /\ \A w : Of(w, p) => Before(v, w)
    <2> DEFINE X == {w \in W : PartitionOf[w] = p}
    <2>1. X # {} /\ X \in SUBSET Workflows
      BY DEF PartitionsIn
    <2>2. PICK v \in Elems(Keep(GraphOrder, X)) :
            \A y \in Elems(Keep(GraphOrder, X)) : <<v, y>> \in Keep(GraphOrder, X)
      BY <2>1, ConstantsAssumption DEF Front
    <2>3. Elems(Keep(GraphOrder, X)) = X
      BY <2>1, KeepElems, ConstantsAssumption
    <2> QED
      BY <2>2, <2>3 DEF Keep
  <1>4. \A v, w : v \in W /\ w \in W => Before(v, w) \/ Before(w, v)
    BY ConstantsAssumption DEF IsDeque
  <1>5. \A v, w : v \in W /\ w \in W /\ Before(v, w) /\ Before(w, v) => v = w
    BY ConstantsAssumption DEF IsDeque
  <1>6. \A x, v, w : x \in W /\ v \in W /\ w \in W /\ Before(x, v) /\ Before(v, w) => Before(x, w)
    BY ConstantsAssumption DEF IsDeque
  <1>7. fs \subseteq Partitions \X Partitions
    BY <1>1 DEF FirstSeen
  <1> HIDE DEF fs, Before
  <1>8. \A p \in P : <<p, p>> \in fs
    BY <1>2, <1>3
  <1>9. \A p, q \in Partitions : <<p, q>> \in fs => <<p, p>> \in fs /\ <<q, q>> \in fs
    BY <1>2, <1>8
  <1>10. \A p, q \in Partitions : <<p, q>> \in fs /\ <<q, p>> \in fs => p = q
    BY <1>2, <1>5
  <1>11. \A p, q, r \in Partitions : <<p, q>> \in fs /\ <<q, r>> \in fs => <<p, r>> \in fs
    BY <1>2, <1>6
  <1>12. Elems(fs) = P
    <2>1. \A p \in P : <<p, p>>[1] = p
      OBVIOUS
    <2>2. P \subseteq Elems(fs)
      BY <1>8, <2>1 DEF Elems
    <2>3. ASSUME NEW p \in Elems(fs)
          PROVE  p \in P
      <3>1. PICK pair \in fs : p = pair[1]
        BY DEF Elems
      <3>2. pair = <<pair[1], pair[2]>>
        BY <1>7, <3>1
      <3> QED
        BY <1>2, <3>1, <3>2
    <2> QED
      BY <2>2, <2>3
  <1>13. ASSUME NEW p \in P, NEW q \in P
         PROVE  <<p, q>> \in fs \/ <<q, p>> \in fs
    <2>1. PICK v : Of(v, p) /\ \A w : Of(w, p) => Before(v, w)
      BY <1>3
    <2>2. PICK x : Of(x, q) /\ \A w : Of(w, q) => Before(x, w)
      BY <1>3
    <2>3. CASE Before(v, x)
      BY <1>2, <1>6, <2>1, <2>2, <2>3
    <2>4. CASE Before(x, v)
      BY <1>2, <1>6, <2>1, <2>2, <2>4
    <2> QED
      BY <1>4, <2>1, <2>2, <2>3, <2>4
  <1>14. \A p, q \in Elems(fs) : <<p, q>> \in fs \/ <<q, p>> \in fs
    BY <1>12, <1>13
  <1> QED
    BY <1>7, <1>9, <1>10, <1>11, <1>12, <1>14 DEF IsDeque, fs

-----------------------------------------------------------------------------
\* The initial state.
LEMMA InitInvariant == Init => IInv
  <1> SUFFICES ASSUME Init PROVE IInv
    OBVIOUS
  <1> USE DEF Init
  <1>1. Queued = {}
    BY EmptyIsDeque DEF Queued
  <1>2. TypeOK
    <2>1. 0 \in 0 .. DwellObservations /\ 0 \in 0 .. DwellSeconds /\ 0 \in Nat
      BY ConstantsAssumption
    <2>2. EmptyDeque \subseteq Workflows \X Workflows /\ EmptyDeque \subseteq Partitions \X Partitions
          /\ EmptyDeque \in SUBSET (Users \X Users)
      BY DEF EmptyDeque
    <2>3. rrUser \in [Priorities -> SUBSET (Users \X Users)] /\ miss \in [Workflows -> Nat]
          /\ count \in [Partitions -> 0 .. DwellObservations]
          /\ elapsed \in [Partitions -> 0 .. DwellSeconds]
      BY <2>1, <2>2
    <2> QED
      BY <2>2, <2>3 DEF TypeOK
  <1>3. DequesWellFormed
    BY EmptyIsDeque DEF DequesWellFormed
  <1>4. \A p \in Priorities : UsersWith({}, p) = {}
    BY DEF UsersWith
  <1>5. UserRingCoversQueue
    BY <1>1, <1>4, EmptyIsDeque DEF UserRingCoversQueue
  <1>6. PartitionRingIsLive
    BY EmptyIsDeque DEF PartitionRingIsLive
  <1>7. NoWorkflowLost /\ ReservationSound /\ OneReservation /\ NoLostWakeup /\ DoomedIsQueued
    BY <1>1 DEF NoWorkflowLost, ReservationSound, OneReservation, NoLostWakeup, DoomedIsQueued
  <1> QED
    BY <1>2, <1>3, <1>5, <1>6, <1>7 DEF IInv

\* The facts about a filtered queue that commit and removal share: deques stay
\* deques, and the rings keep exactly the users and only the partitions that
\* still have work.
LEMMA FilteredRings ==
  ASSUME IInv, NEW W \in SUBSET Queued
  PROVE  /\ IsDeque(Keep(rrPart, PartitionsIn(W)), Partitions)
         /\ Elems(Keep(rrPart, PartitionsIn(W))) \subseteq PartitionsIn(W)
         /\ \A p \in Priorities :
              /\ IsDeque(PruneUsers(W)[p], Users)
              /\ Elems(PruneUsers(W)[p]) = UsersWith(W, p)
  <1>1. IsDeque(rrPart, Partitions) /\ \A p \in Priorities : IsDeque(rrUser[p], Users)
    BY DEF IInv, DequesWellFormed
  <1>2. ASSUME NEW p \in Priorities
        PROVE  UsersWith(W, p) \subseteq Elems(rrUser[p])
    BY DEF IInv, UserRingCoversQueue, UsersWith
  <1>3. \A p \in Priorities : PruneUsers(W)[p] = Keep(rrUser[p], UsersWith(W, p))
    BY DEF PruneUsers
  <1>4. \A p \in Priorities :
          /\ IsDeque(PruneUsers(W)[p], Users)
          /\ Elems(PruneUsers(W)[p]) = Elems(rrUser[p]) \cap UsersWith(W, p)
    BY <1>1, <1>3, KeepIsDeque, KeepElems
  <1>5. IsDeque(Keep(rrPart, PartitionsIn(W)), Partitions)
    BY <1>1, KeepIsDeque
  <1>6. Elems(Keep(rrPart, PartitionsIn(W))) = Elems(rrPart) \cap PartitionsIn(W)
    BY <1>1, KeepElems
  <1> QED
    BY <1>2, <1>4, <1>5, <1>6

\* A deque over S is a set of pairs of S.
LEMMA DequeType ==
  ASSUME NEW S, NEW d, IsDeque(d, S)
  PROVE  d \subseteq S \X S
  BY DEF IsDeque

\* enqueue keeps the invariant: the job's workflows join the back of the queue, its
\* user and its new partitions the back of their rings, and the event is set.
LEMMA EnqueueInvariant ==
  ASSUME IInv, NEW j \in Jobs, Enqueue(j)
  PROVE  IInv'
  <1> DEFINE W == {w \in Workflows : JobOf[w] = j}
             fresh == PartitionsIn(W) \ Elems(rrPart)
  <1>1. W # {} /\ W \cap items = {} /\ W \subseteq Workflows
    BY DEF Enqueue
  <1>2. IsDeque(queue, Workflows) /\ IsDeque(rrPart, Partitions)
        /\ \A p \in Priorities : IsDeque(rrUser[p], Users)
    BY DEF IInv, DequesWellFormed
  <1>3. IsDeque(Keep(GraphOrder, W), Workflows) /\ Elems(Keep(GraphOrder, W)) = W
    BY <1>1, KeepIsDeque, KeepElems, ConstantsAssumption
  <1>4. Queued \cap W = {}
    BY <1>1 DEF IInv, NoWorkflowLost
  <1>5. IsDeque(queue', Workflows) /\ Queued' = Queued \cup W
    <2>1. queue' = Concat(queue, Keep(GraphOrder, W))
      BY DEF Enqueue
    <2>2. Elems(queue) \cap Elems(Keep(GraphOrder, W)) = {}
      BY <1>3, <1>4 DEF Queued
    <2>3. IsDeque(Concat(queue, Keep(GraphOrder, W)), Workflows)
      BY <1>2, <1>3, <2>2, ConcatIsDeque
    <2>4. Elems(Concat(queue, Keep(GraphOrder, W))) = Elems(queue) \cup W
      BY <1>2, <1>3, ConcatElems
    <2> QED
      BY <2>1, <2>3, <2>4 DEF Queued
  <1>6. IsDeque(FirstSeen(W, fresh), Partitions) /\ Elems(FirstSeen(W, fresh)) = fresh
    BY <1>1, FirstSeenIsDeque
  <1>7. IsDeque(rrPart', Partitions) /\ Elems(rrPart') = Elems(rrPart) \cup fresh
    <2>1. rrPart' = Concat(rrPart, FirstSeen(W, fresh))
      BY DEF Enqueue
    <2>2. Elems(rrPart) \cap Elems(FirstSeen(W, fresh)) = {}
      BY <1>6
    <2>3. IsDeque(Concat(rrPart, FirstSeen(W, fresh)), Partitions)
      BY <1>2, <1>6, <2>2, ConcatIsDeque
    <2>4. Elems(Concat(rrPart, FirstSeen(W, fresh))) = Elems(rrPart) \cup Elems(FirstSeen(W, fresh))
      BY <1>2, <1>6, ConcatElems
    <2> QED
      BY <1>6, <2>1, <2>3, <2>4
  <1>8. PartitionsIn(Queued \cup W) = PartitionsIn(Queued) \cup PartitionsIn(W)
    BY DEF PartitionsIn
  <1>9. PartitionRingIsLive'
    BY <1>5, <1>7, <1>8 DEF IInv, PartitionRingIsLive
  <1>10. rrUser' \in [Priorities -> SUBSET (Users \X Users)]
         /\ \A p \in Priorities : /\ IsDeque(rrUser'[p], Users)
                                  /\ Elems(rrUser'[p]) = UsersWith(Queued \cup W, p)
    <2>1. \A p \in Priorities :
            UsersWith(Queued \cup W, p) =
              UsersWith(Queued, p) \cup (IF p = PriorityOf[j] THEN {UserOf[j]} ELSE {})
      BY <1>1, ConstantsAssumption DEF UsersWith, Owner, Level
    <2>2. \A p \in Priorities : Elems(rrUser[p]) = UsersWith(Queued, p)
      BY DEF IInv, UserRingCoversQueue
    <2>3. rrUser \in [Priorities -> SUBSET (Users \X Users)]
      BY DEF IInv, TypeOK
    <2>4. CASE UserOf[j] \in UsersWith(Queued, PriorityOf[j])
      <3>1. rrUser' = rrUser
        BY <2>4 DEF Enqueue
      <3>2. \A p \in Priorities : UsersWith(Queued \cup W, p) = UsersWith(Queued, p)
        BY <2>1, <2>4
      <3> QED
        BY <1>2, <2>2, <2>3, <3>1, <3>2
    <2>5. CASE UserOf[j] \notin UsersWith(Queued, PriorityOf[j])
      <3> DEFINE ring == PushBack(rrUser[PriorityOf[j]], UserOf[j])
      <3>1. rrUser' = [rrUser EXCEPT ![PriorityOf[j]] = ring]
        BY <2>5 DEF Enqueue
      <3>2. IsDeque(ring, Users) /\ Elems(ring) = Elems(rrUser[PriorityOf[j]]) \cup {UserOf[j]}
        <4>1. PriorityOf[j] \in Priorities /\ UserOf[j] \in Users
          BY ConstantsAssumption
        <4>2. UserOf[j] \notin Elems(rrUser[PriorityOf[j]])
          BY <2>2, <2>5, <4>1
        <4>3. IsDeque(rrUser[PriorityOf[j]], Users)
          BY <1>2, <4>1
        <4> QED
          BY <4>1, <4>2, <4>3, PushBackIsDeque
      <3>3. ring \subseteq Users \X Users
        BY <3>2, DequeType
      <3>4. PriorityOf[j] \in Priorities
        BY ConstantsAssumption
      <3> HIDE DEF ring
      <3>5. \A p \in Priorities : rrUser'[p] = IF p = PriorityOf[j] THEN ring ELSE rrUser[p]
        BY <2>3, <3>1
      <3>6. rrUser' \in [Priorities -> SUBSET (Users \X Users)]
        BY <2>3, <3>1, <3>3
      <3>7. \A p \in Priorities : /\ IsDeque(rrUser'[p], Users)
                                 /\ Elems(rrUser'[p]) = UsersWith(Queued \cup W, p)
        BY <1>2, <2>1, <2>2, <3>2, <3>5
      <3> QED
        BY <3>6, <3>7
    <2> QED
      BY <2>4, <2>5
  <1>11. UserRingCoversQueue'
    BY <1>5, <1>10 DEF UserRingCoversQueue
  <1>12. DequesWellFormed'
    BY <1>5, <1>7, <1>10 DEF DequesWellFormed
  <1>13. TypeOK'
    <2>1. queue' \subseteq Workflows \X Workflows /\ rrPart' \subseteq Partitions \X Partitions
      BY <1>5, <1>7, DequeType
    <2>2. items' \subseteq Workflows /\ notEmpty' \in BOOLEAN
      BY <1>1 DEF IInv, TypeOK, Enqueue
    <2> QED
      BY <1>10, <2>1, <2>2 DEF IInv, TypeOK, Enqueue, dwellVars
  <1>14. NoWorkflowLost'
    BY <1>1, <1>4, <1>5 DEF IInv, NoWorkflowLost, Enqueue
  <1>15. ReservationSound' /\ OneReservation' /\ DoomedIsQueued' /\ NoLostWakeup'
    BY <1>1, <1>5 DEF IInv, ReservationSound, OneReservation, DoomedIsQueued, NoLostWakeup, Enqueue
  <1> QED
    BY <1>9, <1>11, <1>12, <1>13, <1>14, <1>15 DEF IInv

\* The actions that leave the queue and the rings alone.
LEMMA QuietInvariant ==
  ASSUME IInv, WaitForWork \/ Woken \/ NoIdleWorkers \/ Abort
  PROVE  IInv'
  <1>1. UNCHANGED <<queue, items, dispatched, miss, rrUser, rrPart, notEmpty, doomed,
                    count, elapsed, up>>
    BY DEF WaitForWork, Woken, NoIdleWorkers, Abort, queueVars, dwellVars
  <1>2. Queued' = Queued
    BY <1>1 DEF Queued
  <1>3. reservation' \subseteq reservation /\ pc' \in {"wait", "select", "blocked"}
        /\ pc \notin {"fail", "reserve"} /\ reservation' = {}
    BY DEF IInv, OneReservation, WaitForWork, Woken, NoIdleWorkers, Abort
  <1>4. pc' = "blocked" => Queued = {} \/ notEmpty
    BY DEF WaitForWork, Woken, NoIdleWorkers, Abort
  <1>5. TypeOK'
    BY <1>1, <1>3 DEF IInv, TypeOK
  <1>6. DequesWellFormed' /\ NoWorkflowLost' /\ UserRingCoversQueue' /\ PartitionRingIsLive'
    BY <1>1, <1>2 DEF IInv, DequesWellFormed, NoWorkflowLost, UserRingCoversQueue,
                      PartitionRingIsLive
  <1>7. ReservationSound' /\ OneReservation'
    BY <1>3 DEF ReservationSound, OneReservation
  <1>8. NoLostWakeup' /\ DoomedIsQueued'
    BY <1>1, <1>2, <1>3, <1>4 DEF IInv, NoLostWakeup, DoomedIsQueued
  <1> QED
    BY <1>5, <1>6, <1>7, <1>8 DEF IInv

\* The fleet, the clock and the end of a batch.
LEMMA SurroundingsInvariant ==
  ASSUME IInv,
         (\E B \in SUBSET dispatched : Finalize(B))
           \/ (\E p \in Volatile : FleetDown(p) \/ FleetUp(p)) \/ Tick
  PROVE  IInv'
  <1>1. UNCHANGED <<queue, miss, rrUser, rrPart, notEmpty, reservation, doomed, count, pc>>
    BY DEF Finalize, FleetDown, FleetUp, Tick, queueVars, dwellVars
  <1>2. Queued' = Queued
    BY <1>1 DEF Queued
  <1>3. DwellSeconds \in Nat /\ Volatile \subseteq Partitions
    BY ConstantsAssumption
  <1>4. items' \subseteq Workflows /\ dispatched' \subseteq Workflows
    BY DEF IInv, TypeOK, Finalize, FleetDown, FleetUp, Tick, queueVars
  <1>5. up' \subseteq Partitions
    BY <1>3 DEF IInv, TypeOK, Finalize, FleetDown, FleetUp, Tick
  <1>6. elapsed' \in [Partitions -> 0 .. DwellSeconds]
    <2>1. elapsed \in [Partitions -> 0 .. DwellSeconds]
      BY DEF IInv, TypeOK
    <2>2. CASE Tick
      BY <1>3, <2>1, <2>2 DEF Tick
    <2>3. CASE \E B \in SUBSET dispatched : Finalize(B)
      BY <2>1, <2>3 DEF Finalize, dwellVars
    <2>4. CASE \E p \in Volatile : FleetDown(p) \/ FleetUp(p)
      BY <1>3, <2>1, <2>4 DEF FleetDown, FleetUp, dwellVars
    <2> QED
      BY <2>2, <2>3, <2>4
  <1>7. TypeOK'
    BY <1>1, <1>4, <1>5, <1>6 DEF IInv, TypeOK
  <1>8. NoWorkflowLost'
    BY <1>2 DEF IInv, NoWorkflowLost, Finalize, FleetDown, FleetUp, Tick, queueVars
  <1>9. DequesWellFormed' /\ UserRingCoversQueue' /\ PartitionRingIsLive'
    BY <1>1, <1>2 DEF IInv, DequesWellFormed, UserRingCoversQueue, PartitionRingIsLive
  <1>10. ReservationSound' /\ OneReservation' /\ NoLostWakeup' /\ DoomedIsQueued'
    BY <1>1, <1>2 DEF IInv, ReservationSound, OneReservation, NoLostWakeup, DoomedIsQueued
  <1> QED
    BY <1>7, <1>8, <1>9, <1>10 DEF IInv

\* permanently_unsatisfiable keeps the invariant: it reports queued workflows only and
\* its counters stop at their thresholds.
LEMMA ObserveInvariant ==
  ASSUME IInv, Observe
  PROVE  IInv'
  <1>1. UNCHANGED <<queue, items, dispatched, miss, rrUser, rrPart, notEmpty, reservation, up>>
    BY DEF Observe, Suspects, TimeSuspected, queueVars
  <1>2. Queued' = Queued
    BY <1>1 DEF Queued
  <1>3. doomed' \subseteq Queued /\ pc = "select" /\ pc' = IF doomed' = {} THEN "reserve" ELSE "fail"
    BY DEF Observe, Suspects, TimeSuspected
  <1>4. count' \in [Partitions -> 0 .. DwellObservations]
        /\ elapsed' \in [Partitions -> 0 .. DwellSeconds]
    <2>1. DwellObservations \in Nat /\ DwellSeconds \in Nat
      BY ConstantsAssumption
    <2>2. count \in [Partitions -> 0 .. DwellObservations]
          /\ elapsed \in [Partitions -> 0 .. DwellSeconds]
      BY DEF IInv, TypeOK
    <2> QED
      BY <2>1, <2>2 DEF Observe, Suspects, TimeSuspected
  <1>5. Queued \subseteq Workflows
    BY DEF IInv, NoWorkflowLost, TypeOK
  <1>6. TypeOK'
    BY <1>1, <1>3, <1>4, <1>5 DEF IInv, TypeOK
  <1>7. DequesWellFormed' /\ NoWorkflowLost' /\ UserRingCoversQueue' /\ PartitionRingIsLive'
    BY <1>1, <1>2 DEF IInv, DequesWellFormed, NoWorkflowLost, UserRingCoversQueue,
                      PartitionRingIsLive
  <1>8. ReservationSound' /\ OneReservation' /\ NoLostWakeup' /\ DoomedIsQueued'
    BY <1>1, <1>2, <1>3 DEF IInv, ReservationSound, OneReservation, NoLostWakeup, DoomedIsQueued
  <1> QED
    BY <1>6, <1>7, <1>8 DEF IInv

\* remove_workflows keeps the invariant: the rings lose exactly what the queue lost.
LEMMA RemoveDoomedInvariant ==
  ASSUME IInv, RemoveDoomed
  PROVE  IInv'
  <1> DEFINE left == Queued \ doomed
  <1>1. UNCHANGED <<dispatched, reservation, count, elapsed, up>>
        /\ pc = "fail" /\ pc' = "wait" /\ doomed' = {}
    BY DEF RemoveDoomed, dwellVars
  <1>2. IsDeque(queue, Workflows)
    BY DEF IInv, DequesWellFormed
  <1>3. IsDeque(queue', Workflows) /\ Queued' = left
    <2>1. queue' = Without(queue, doomed)
      BY DEF RemoveDoomed
    <2> QED
      BY <1>2, <2>1, WithoutIsDeque, WithoutElems DEF Queued
  <1>4. rrUser' = PruneUsers(left) /\ rrPart' = Keep(rrPart, PartitionsIn(left))
        /\ notEmpty' = (notEmpty /\ left # {}) /\ items' = items \ doomed
    BY DEF RemoveDoomed
  <1>5. doomed \subseteq Queued /\ reservation = {}
    BY <1>1 DEF IInv, DoomedIsQueued, OneReservation
  <1>6. /\ IsDeque(rrPart', Partitions)
        /\ Elems(rrPart') \subseteq PartitionsIn(left)
        /\ \A p \in Priorities : IsDeque(rrUser'[p], Users) /\ Elems(rrUser'[p]) = UsersWith(left, p)
    BY <1>4, FilteredRings
  <1>7. rrUser' \in [Priorities -> SUBSET (Users \X Users)]
    <2>1. DOMAIN rrUser' = Priorities /\ rrUser' = [p \in Priorities |-> rrUser'[p]]
      BY <1>4 DEF PruneUsers
    <2>2. \A p \in Priorities : rrUser'[p] \subseteq Users \X Users
      BY <1>6, DequeType
    <2> QED
      BY <2>1, <2>2
  <1>8. TypeOK'
    <2>1. queue' \subseteq Workflows \X Workflows /\ rrPart' \subseteq Partitions \X Partitions
      BY <1>3, <1>6, DequeType
    <2>2. miss' \in [Workflows -> Nat]
      BY DEF IInv, TypeOK, RemoveDoomed
    <2>3. notEmpty' \in BOOLEAN
      BY <1>4
    <2> QED
      BY <1>1, <1>4, <1>7, <2>1, <2>2, <2>3 DEF IInv, TypeOK
  <1>9. DequesWellFormed' /\ UserRingCoversQueue' /\ PartitionRingIsLive'
    BY <1>3, <1>6 DEF DequesWellFormed, UserRingCoversQueue, PartitionRingIsLive
  <1>10. NoWorkflowLost'
    BY <1>1, <1>3, <1>4, <1>5 DEF IInv, NoWorkflowLost
  <1>11. ReservationSound' /\ OneReservation' /\ NoLostWakeup' /\ DoomedIsQueued'
    BY <1>1, <1>3, <1>4, <1>5 DEF ReservationSound, OneReservation, NoLostWakeup, DoomedIsQueued
  <1> QED
    BY <1>8, <1>9, <1>10, <1>11 DEF IInv

\* What a reservation attempt may do to the rings.
LEMMA RingsAfterPick ==
  ASSUME IInv, NEW present \in SUBSET PartitionsIn(Queued)
  PROVE  /\ IsDeque(RingAfterPick(present), Partitions)
         /\ Elems(RingAfterPick(present)) \subseteq PartitionsIn(Queued)
         /\ PruneUsers(Queued) \in [Priorities -> SUBSET (Users \X Users)]
         /\ \A p \in Priorities :
              /\ IsDeque(PruneUsers(Queued)[p], Users)
              /\ Elems(PruneUsers(Queued)[p]) = UsersWith(Queued, p)
  <1> DEFINE kept == {p \in Elems(rrPart) : \E q \in present : AtOrBefore(rrPart, q, p)}
  <1>1. IsDeque(rrPart, Partitions) /\ Elems(rrPart) \subseteq PartitionsIn(Queued)
    BY DEF IInv, DequesWellFormed, PartitionRingIsLive
  <1>2. IsDeque(Keep(rrPart, kept), Partitions) /\ Elems(Keep(rrPart, kept)) = Elems(rrPart) \cap kept
    BY <1>1, KeepIsDeque, KeepElems
  <1>3. IsDeque(Keep(PartitionOrder, present), Partitions)
        /\ Elems(Keep(PartitionOrder, present)) = Elems(PartitionOrder) \cap present
    BY KeepIsDeque, KeepElems, ConstantsAssumption
  <1>4. RingAfterPick(present) = Keep(rrPart, kept) \/ RingAfterPick(present) = Keep(PartitionOrder, present)
    BY DEF RingAfterPick
  <1>5. \A p \in Priorities :
          /\ IsDeque(PruneUsers(Queued)[p], Users)
          /\ Elems(PruneUsers(Queued)[p]) = UsersWith(Queued, p)
    BY FilteredRings
  <1>6. PruneUsers(Queued) \in [Priorities -> SUBSET (Users \X Users)]
    <2>1. \A p \in Priorities : PruneUsers(Queued)[p] \subseteq Users \X Users
      BY <1>5, DequeType
    <2> QED
      BY <2>1 DEF PruneUsers
  <1> QED
    BY <1>1, <1>2, <1>3, <1>4, <1>5, <1>6

\* reserve_batch without a candidate keeps the invariant.  The event is cleared, yet the
\* scheduler is not blocked: it goes back to wait_for_work, which looks at the queue.
LEMMA ReserveNothingInvariant ==
  ASSUME IInv, NEW free, ReserveNothing(free)
  PROVE  IInv'
  <1> DEFINE present == PartitionsIn(Queued) \cap free
  <1>1. UNCHANGED <<queue, items, dispatched, miss, reservation, doomed, count, elapsed, up>>
        /\ notEmpty' = FALSE /\ pc' = "wait" /\ pc \in {"select", "reserve"}
    BY DEF ReserveNothing, AtReserve, dwellVars
  <1>2. Queued' = Queued
    BY <1>1 DEF Queued
  <1>3. /\ rrPart' = rrPart \/ rrPart' = RingAfterPick(present)
        /\ rrUser' = rrUser \/ rrUser' = PruneUsers(Queued)
    BY DEF ReserveNothing
  <1>4. /\ IsDeque(rrPart, Partitions) /\ Elems(rrPart) \subseteq PartitionsIn(Queued)
        /\ rrUser \in [Priorities -> SUBSET (Users \X Users)]
        /\ \A p \in Priorities : IsDeque(rrUser[p], Users) /\ Elems(rrUser[p]) = UsersWith(Queued, p)
    BY DEF IInv, DequesWellFormed, PartitionRingIsLive, UserRingCoversQueue, TypeOK
  <1>5. /\ IsDeque(rrPart', Partitions) /\ Elems(rrPart') \subseteq PartitionsIn(Queued)
        /\ rrUser' \in [Priorities -> SUBSET (Users \X Users)]
        /\ \A p \in Priorities : IsDeque(rrUser'[p], Users) /\ Elems(rrUser'[p]) = UsersWith(Queued, p)
    <2>1. /\ IsDeque(RingAfterPick(present), Partitions)
          /\ Elems(RingAfterPick(present)) \subseteq PartitionsIn(Queued)
          /\ PruneUsers(Queued) \in [Priorities -> SUBSET (Users \X Users)]
          /\ \A p \in Priorities :
               /\ IsDeque(PruneUsers(Queued)[p], Users)
               /\ Elems(PruneUsers(Queued)[p]) = UsersWith(Queued, p)
      BY RingsAfterPick
    <2>2. IsDeque(rrPart', Partitions) /\ Elems(rrPart') \subseteq PartitionsIn(Queued)
      BY <1>3, <1>4, <2>1
    <2> QED
      BY <1>3, <1>4, <2>1, <2>2
  <1>6. TypeOK'
    <2>1. rrPart' \subseteq Partitions \X Partitions
      BY <1>5, DequeType
    <2> QED
      BY <1>1, <1>5, <2>1 DEF IInv, TypeOK
  <1>7. DequesWellFormed' /\ UserRingCoversQueue' /\ PartitionRingIsLive' /\ NoWorkflowLost'
    BY <1>1, <1>2, <1>5 DEF IInv, DequesWellFormed, UserRingCoversQueue, PartitionRingIsLive,
                            NoWorkflowLost
  <1>8. ReservationSound' /\ OneReservation' /\ NoLostWakeup' /\ DoomedIsQueued'
    BY <1>1, <1>2 DEF IInv, ReservationSound, OneReservation, NoLostWakeup, DoomedIsQueued
  <1> QED
    BY <1>6, <1>7, <1>8 DEF IInv

\* reserve_batch with a batch keeps the invariant: the batch and the candidates passed
\* over are queued workflows of the anchored partition.
LEMMA ReserveInvariant ==
  ASSUME IInv, NEW free, Reserve(free)
  PROVE  IInv'
  <1> DEFINE present == PartitionsIn(Queued) \cap free
  <1>1. UNCHANGED <<queue, items, dispatched, miss, notEmpty, doomed, count, elapsed, up>>
        /\ pc' = "claim" /\ pc \in {"select", "reserve"}
    BY DEF Reserve, AtReserve, dwellVars
  <1>2. Queued' = Queued /\ Queued \subseteq Workflows
    BY <1>1 DEF Queued, IInv, NoWorkflowLost, TypeOK
  <1>3. /\ rrPart' = rrPart \/ rrPart' = RingAfterPick(present)
        /\ rrUser' = PruneUsers(Queued)
    BY DEF Reserve
  <1>4. /\ IsDeque(rrPart', Partitions) /\ Elems(rrPart') \subseteq PartitionsIn(Queued)
        /\ rrUser' \in [Priorities -> SUBSET (Users \X Users)]
        /\ \A p \in Priorities : IsDeque(rrUser'[p], Users) /\ Elems(rrUser'[p]) = UsersWith(Queued, p)
    <2>1. /\ IsDeque(RingAfterPick(present), Partitions)
          /\ Elems(RingAfterPick(present)) \subseteq PartitionsIn(Queued)
          /\ PruneUsers(Queued) \in [Priorities -> SUBSET (Users \X Users)]
          /\ \A p \in Priorities :
               /\ IsDeque(PruneUsers(Queued)[p], Users)
               /\ Elems(PruneUsers(Queued)[p]) = UsersWith(Queued, p)
      BY RingsAfterPick
    <2>2. IsDeque(rrPart, Partitions) /\ Elems(rrPart) \subseteq PartitionsIn(Queued)
      BY DEF IInv, DequesWellFormed, PartitionRingIsLive
    <2>3. IsDeque(rrPart', Partitions) /\ Elems(rrPart') \subseteq PartitionsIn(Queued)
      BY <1>3, <2>1, <2>2
    <2> QED
      BY <1>3, <2>1, <2>3
  <1>0. PICK part \in present : \E B \in Batches(Candidates(part)) :
          reservation' = {Reservation(B, Candidates(part), part, StarvedAnchors(present) = {})}
    BY DEF Reserve
  <1>5. PICK B \in Batches(Candidates(part)) :
          reservation' = {Reservation(B, Candidates(part), part, StarvedAnchors(present) = {})}
    BY <1>0
  <1>6. part \in Partitions
    BY <1>2, ConstantsAssumption DEF PartitionsIn
  <1>7. \A w \in Candidates(part) : w \in Queued /\ PartitionOf[w] = part
    BY CandidatesInPool
  <1>8. IsFiniteSet(Candidates(part))
    <2>1. Candidates(part) \subseteq Workflows
      BY <1>2, <1>7
    <2> QED
      BY <2>1, FS_Subset, FiniteWorkflowsAssumption
  <1>9. B \subseteq Candidates(part) /\ B # {} /\ Cardinality(B) <= BatchSize
    BY <1>8, BatchesAreBatches
  <1> DEFINE r == Reservation(B, Candidates(part), part, StarvedAnchors(present) = {})
  <1>10. /\ r.selected = B /\ r.missed = Candidates(part) \ B
         /\ r \in [selected : SUBSET Workflows, missed : SUBSET Workflows,
                   advance : SUBSET Partitions, consulted : SUBSET Priorities]
    <2>1. RingsConsulted(part) \subseteq Priorities
      BY DEF RingsConsulted
    <2>2. B \subseteq Workflows /\ Candidates(part) \ B \subseteq Workflows
      BY <1>2, <1>7, <1>9
    <2> QED
      BY <1>6, <2>1, <2>2 DEF Reservation
  <1>11. reservation' = {r}
    BY <1>5
  <1> HIDE DEF r
  <1>12. TypeOK'
    <2>1. rrPart' \subseteq Partitions \X Partitions
      BY <1>4, DequeType
    <2> QED
      BY <1>1, <1>4, <1>10, <1>11, <2>1 DEF IInv, TypeOK
  <1>13. ReservationSound'
    BY <1>2, <1>6, <1>7, <1>9, <1>10, <1>11 DEF ReservationSound
  <1>14. OneReservation' /\ NoLostWakeup' /\ DoomedIsQueued'
    BY <1>1, <1>2, <1>11 DEF IInv, OneReservation, NoLostWakeup, DoomedIsQueued
  <1>15. DequesWellFormed' /\ UserRingCoversQueue' /\ PartitionRingIsLive' /\ NoWorkflowLost'
    BY <1>1, <1>2, <1>4 DEF IInv, DequesWellFormed, UserRingCoversQueue, PartitionRingIsLive,
                            NoWorkflowLost
  <1> QED
    BY <1>12, <1>13, <1>14, <1>15 DEF IInv

\* commit_reservation keeps the invariant: the reserved workflows move from the queue to
\* the dispatched ones, and both rings are filtered against what is left.
LEMMA CommitInvariant ==
  ASSUME IInv, Commit
  PROVE  IInv'
  <1>1. PICK r \in reservation :
          LET left == Queued \ r.selected
          IN /\ miss' = [w \in Workflows |->
                           CASE w \in r.selected -> 0
                             [] w \in r.missed /\ w \in items -> miss[w] + 1
                             [] OTHER -> miss[w]]
             /\ queue' = Without(queue, r.selected)
             /\ dispatched' = dispatched \cup r.selected
             /\ rrPart' = RingAfterCommit(left, r.advance)
             /\ rrUser' = UsersAfterCommit(left, r.consulted)
             /\ notEmpty' = (notEmpty /\ left # {})
    BY DEF Commit, MissesAfterCommit
  <1>2. UNCHANGED <<items, doomed, count, elapsed, up>>
        /\ reservation' = {} /\ pc = "claim" /\ pc' = "wait"
    BY DEF Commit, MissesAfterCommit, dwellVars
  <1> DEFINE left == Queued \ r.selected
  <1>3. r.selected \subseteq Queued /\ Queued \subseteq Workflows /\ doomed = {}
    BY <1>2 DEF IInv, ReservationSound, NoWorkflowLost, TypeOK, DoomedIsQueued
  <1>4. IsDeque(queue', Workflows) /\ Queued' = left
    <2>1. IsDeque(queue, Workflows)
      BY DEF IInv, DequesWellFormed
    <2> QED
      BY <1>1, <2>1, WithoutIsDeque, WithoutElems DEF Queued
  <1>5. /\ IsDeque(Keep(rrPart, PartitionsIn(left)), Partitions)
        /\ Elems(Keep(rrPart, PartitionsIn(left))) \subseteq PartitionsIn(left)
        /\ \A p \in Priorities : /\ IsDeque(PruneUsers(left)[p], Users)
                                 /\ Elems(PruneUsers(left)[p]) = UsersWith(left, p)
    BY FilteredRings
  <1>6. IsDeque(rrPart', Partitions) /\ Elems(rrPart') \subseteq PartitionsIn(left)
    <2> DEFINE ring == Keep(rrPart, PartitionsIn(left))
    <2>1. rrPart' = MoveBack(ring, Front(ring) \cap r.advance)
      BY <1>1 DEF RingAfterCommit
    <2>2. /\ IsDeque(MoveBack(ring, Front(ring) \cap r.advance), Partitions)
          /\ Elems(MoveBack(ring, Front(ring) \cap r.advance)) = Elems(ring)
      BY <1>5, MoveBackIsDeque
    <2> QED
      BY <1>5, <2>1, <2>2
  <1>7. ASSUME NEW p \in Priorities
        PROVE  IsDeque(rrUser'[p], Users) /\ Elems(rrUser'[p]) = UsersWith(left, p)
    <2> DEFINE ring == PruneUsers(left)[p]
    <2>1. rrUser'[p] = IF p \in r.consulted THEN MoveBack(ring, Front(ring)) ELSE ring
      BY <1>1 DEF UsersAfterCommit
    <2>2. IsDeque(MoveBack(ring, Front(ring)), Users) /\ Elems(MoveBack(ring, Front(ring))) = Elems(ring)
      BY <1>5, MoveBackIsDeque
    <2> QED
      BY <1>5, <2>1, <2>2
  <1>8. rrUser' \in [Priorities -> SUBSET (Users \X Users)]
    <2>1. rrUser' = [p \in Priorities |-> rrUser'[p]]
      BY <1>1 DEF UsersAfterCommit
    <2>2. \A p \in Priorities : rrUser'[p] \subseteq Users \X Users
      BY <1>7, DequeType
    <2> QED
      BY <2>1, <2>2
  <1>9. TypeOK'
    <2>1. queue' \subseteq Workflows \X Workflows /\ rrPart' \subseteq Partitions \X Partitions
      BY <1>4, <1>6, DequeType
    <2>2. miss' \in [Workflows -> Nat]
      BY <1>1 DEF IInv, TypeOK
    <2>3. notEmpty' \in BOOLEAN /\ dispatched' \subseteq Workflows
      BY <1>1, <1>3 DEF IInv, TypeOK
    <2> QED
      BY <1>2, <1>8, <2>1, <2>2, <2>3 DEF IInv, TypeOK
  <1>10. DequesWellFormed' /\ UserRingCoversQueue' /\ PartitionRingIsLive'
    BY <1>4, <1>6, <1>7 DEF DequesWellFormed, UserRingCoversQueue, PartitionRingIsLive
  <1>11. NoWorkflowLost'
    BY <1>1, <1>2, <1>3, <1>4 DEF IInv, NoWorkflowLost
  <1>12. ReservationSound' /\ OneReservation' /\ NoLostWakeup' /\ DoomedIsQueued'
    BY <1>1, <1>2, <1>3, <1>4 DEF IInv, ReservationSound, OneReservation, NoLostWakeup, DoomedIsQueued
  <1> QED
    BY <1>9, <1>10, <1>11, <1>12 DEF IInv

-----------------------------------------------------------------------------
\* The invariant is inductive.
LEMMA StepInvariant == IInv /\ [Next]_vars => IInv'
  <1> SUFFICES ASSUME IInv, [Next]_vars PROVE IInv'
    OBVIOUS
  <1>1. CASE UNCHANGED vars
    BY <1>1 DEF vars, queueVars, dwellVars, IInv, TypeOK, DequesWellFormed,
                NoWorkflowLost, ReservationSound, OneReservation, UserRingCoversQueue,
                PartitionRingIsLive, NoLostWakeup, DoomedIsQueued, Queued
  <1>2. CASE Next
    BY <1>2, EnqueueInvariant, QuietInvariant, ObserveInvariant, RemoveDoomedInvariant,
       ReserveNothingInvariant, ReserveInvariant, CommitInvariant, SurroundingsInvariant
       DEF Next
  <1> QED
    BY <1>1, <1>2

\* Every reachable state satisfies the invariant.
LEMMA Invariant == Spec => []IInv
  BY InitInvariant, StepInvariant, PTL DEF Spec

\* In every reachable state the variables have their types.
THEOREM TypeCorrect == Spec => []TypeOK
  BY Invariant, PTL DEF IInv

\* No interleaving of submissions, reservations, removals and finished batches
\* loses a workflow or dispatches one that is still queued.
THEOREM NothingLost == Spec => []NoWorkflowLost
  BY Invariant, PTL DEF IInv

\* A reservation stays a valid batch until its commit, for every quantum, batch
\* size and starvation limit.
THEOREM ReservationsSound == Spec => []ReservationSound
  BY Invariant, PTL DEF IInv

\* A user with queued work always has a turn in the ring of its priority.
THEOREM UsersHaveTurns == Spec => []UserRingCoversQueue
  BY Invariant, PTL DEF IInv

\* The scheduler is never asleep while work is queued.
THEOREM NoSleepOnWork == Spec => []NoLostWakeup
  BY Invariant, PTL DEF IInv

\* Rotation, eviction and filtering keep the arrival order of what stays queued.
THEOREM OrderKept == Spec => ArrivalOrderKept
  <1> DEFINE Kept == \A v, w \in Queued \cap Queued' :
                        AtOrBefore(queue, v, w) <=> AtOrBefore(queue', v, w)
  <1>1. IInv /\ [Next]_vars => [Kept]_vars
    <2> SUFFICES ASSUME IInv, Next PROVE Kept
      OBVIOUS
    <2>1. ASSUME NEW j \in Jobs, Enqueue(j) PROVE Kept
      <3> DEFINE W == {w \in Workflows : JobOf[w] = j}
      <3>1. queue' = Concat(queue, Keep(GraphOrder, W)) /\ W \cap items = {}
        BY <2>1 DEF Enqueue
      <3>2. Queued \cap W = {}
        BY <3>1 DEF IInv, NoWorkflowLost
      <3>3. Elems(Keep(GraphOrder, W)) = W
        BY KeepElems, ConstantsAssumption
      <3>4. IsDeque(Keep(GraphOrder, W), Workflows)
        BY KeepIsDeque, ConstantsAssumption
      <3>5. \A v, w : <<v, w>> \in Keep(GraphOrder, W) => v \in W
        BY <3>3, <3>4, ElemsReflexive
      <3>6. \A v, w : <<v, w>> \in queue' <=>
              (<<v, w>> \in queue \/ <<v, w>> \in Keep(GraphOrder, W)
                \/ (v \in Elems(queue) /\ w \in W))
        BY <3>1, <3>3 DEF Concat
      <3> QED
        BY <3>2, <3>5, <3>6 DEF Queued, AtOrBefore
    <2>2. CASE RemoveDoomed
      <3>1. queue' = Without(queue, doomed) /\ IsDeque(queue, Workflows)
        BY <2>2 DEF RemoveDoomed, IInv, DequesWellFormed
      <3>2. Queued' = Queued \ doomed
        BY <3>1, WithoutElems DEF Queued
      <3> QED
        BY <3>1, <3>2 DEF Without, AtOrBefore
    <2>3. CASE Commit
      <3>1. PICK r \in reservation : queue' = Without(queue, r.selected)
        BY <2>3 DEF Commit
      <3>2. IsDeque(queue, Workflows)
        BY DEF IInv, DequesWellFormed
      <3>3. Queued' = Queued \ r.selected
        BY <3>1, <3>2, WithoutElems DEF Queued
      <3> QED
        BY <3>1, <3>3 DEF Without, AtOrBefore
    <2>4. ASSUME queue' = queue PROVE Kept
      BY <2>4 DEF Queued
    <2> QED
      BY <2>1, <2>2, <2>3, <2>4
         DEF Next, WaitForWork, Woken, NoIdleWorkers, Observe, ReserveNothing, Reserve, Abort,
             Finalize, FleetDown, FleetUp, Tick, queueVars
  <1> QED
    BY <1>1, Invariant, PTL DEF Spec, ArrivalOrderKept

\* What the fleet can run at the observation is no suspect, so none of it is reported
\* (permanently_unsatisfiable); no other step reports anything.
THEOREM SatisfiableWorkStays == Spec => SatisfiableIsNeverDoomed
  <1> DEFINE Spared == \A w \in doomed' \ doomed : PartitionOf[w] \notin up
  <1>1. [Next]_vars => [Spared]_vars
    <2> SUFFICES ASSUME Next PROVE Spared
      OBVIOUS
    <2>1. CASE Observe
      BY <2>1 DEF Observe, Suspects
    <2>2. CASE RemoveDoomed
      BY <2>2 DEF RemoveDoomed
    <2>3. ASSUME doomed' = doomed PROVE Spared
      BY <2>3
    <2> QED
      BY <2>1, <2>2, <2>3
         DEF Next, Enqueue, WaitForWork, Woken, NoIdleWorkers, ReserveNothing, Reserve, Commit,
             Abort, Finalize, FleetDown, FleetUp, Tick
  <1> QED
    BY <1>1, PTL DEF Spec, SatisfiableIsNeverDoomed

-----------------------------------------------------------------------------
(* Misses are bounded: whoever has reached the starvation limit is passed   *)
(* over only for full batches of work that was ahead of it.                 *)

\* The queued workflows in front of w.
Ahead(w) == {v \in Queued : v # w /\ AtOrBefore(queue, v, w)}

\* Every miss beyond the limit was paid with BatchSize workflows ahead, and a
\* reservation that passes over starved work is about to pay again.
BypassSound ==
  /\ \A w \in Workflows \ Queued : miss[w] = 0
  /\ \A w \in Queued : miss[w] > StarvationLimit =>
       (miss[w] - StarvationLimit) * BatchSize + Cardinality(Ahead(w)) <= Cardinality(Workflows) - 1
  /\ \A r \in reservation : \A w \in r.missed : miss[w] >= StarvationLimit =>
       Cardinality(r.selected) = BatchSize /\ r.selected \subseteq Ahead(w)

\* The work ahead is finite, and less than all there is.
LEMMA AheadIsFinite ==
  ASSUME IInv, NEW w \in Queued
  PROVE  /\ IsFiniteSet(Ahead(w)) /\ Cardinality(Ahead(w)) \in Nat
         /\ Cardinality(Workflows) \in Nat
         /\ Cardinality(Ahead(w)) <= Cardinality(Workflows) - 1
  <1>1. Ahead(w) \in SUBSET (Workflows \ {w}) /\ w \in Workflows
    BY DEF Ahead, IInv, NoWorkflowLost, TypeOK
  <1>2. /\ IsFiniteSet(Workflows \ {w})
        /\ Cardinality(Workflows \ {w}) = Cardinality(Workflows) - 1
    BY <1>1, FiniteWorkflowsAssumption, FS_RemoveElement
  <1>3. IsFiniteSet(Ahead(w)) /\ Cardinality(Ahead(w)) <= Cardinality(Workflows \ {w})
    BY <1>1, <1>2, FS_Subset
  <1>4. Cardinality(Ahead(w)) \in Nat /\ Cardinality(Workflows) \in Nat
    BY <1>3, FiniteWorkflowsAssumption, FS_CardinalityType
  <1> QED
    BY <1>2, <1>3, <1>4

\* New work queues up behind the old.
LEMMA AheadAfterEnqueue ==
  ASSUME IInv, NEW j \in Jobs, Enqueue(j), NEW w \in Queued
  PROVE  Queued \subseteq Queued' /\ Ahead(w)' = Ahead(w)
  <1> DEFINE W == {v \in Workflows : JobOf[v] = j}
  <1>1. queue' = Concat(queue, Keep(GraphOrder, W)) /\ W \cap items = {}
    BY DEF Enqueue
  <1>2. Queued \cap W = {}
    BY <1>1 DEF IInv, NoWorkflowLost
  <1>3. Elems(Keep(GraphOrder, W)) = W /\ IsDeque(Keep(GraphOrder, W), Workflows)
    BY KeepElems, KeepIsDeque, ConstantsAssumption
  <1>4. \A v, x : <<v, x>> \in Keep(GraphOrder, W) => v \in W /\ x \in W
    BY <1>3, ElemsReflexive
  <1>5. IsDeque(queue, Workflows) /\ \A v, x : <<v, x>> \in queue => v \in Queued /\ x \in Queued
    BY ElemsReflexive DEF IInv, DequesWellFormed, Queued
  <1>6. \A v : <<v, w>> \in queue' <=> <<v, w>> \in queue
    BY <1>1, <1>2, <1>3, <1>4 DEF Concat
  <1>7. Queued' = Queued \cup W
    <2>1. Elems(Concat(queue, Keep(GraphOrder, W))) = Elems(queue) \cup W
      BY <1>3, <1>5, ConcatElems
    <2> QED
      BY <1>1, <2>1 DEF Queued
  <1> QED
    BY <1>5, <1>6, <1>7 DEF Ahead, AtOrBefore

\* Removals only shorten the line.
LEMMA AheadAfterRemoval ==
  ASSUME IInv, NEW X, queue' = Without(queue, X)
  PROVE  /\ Queued' = Queued \ X
         /\ \A w \in Queued' : Ahead(w)' = Ahead(w) \ X
  <1>1. Queued' = Queued \ X
    BY WithoutElems DEF Queued, IInv, DequesWellFormed
  <1>2. \A v, w : <<v, w>> \in queue' <=> <<v, w>> \in queue /\ v \notin X /\ w \notin X
    BY DEF Without
  <1> QED
    BY <1>1, <1>2 DEF Ahead, AtOrBefore

\* A batch that passes over a starved candidate is full and older than it.
LEMMA StarvedPayWithBatches ==
  ASSUME IInv, NEW C \in SUBSET Queued, NEW B \in Batches(C), NEW w \in C \ B,
         miss[w] >= StarvationLimit
  PROVE  Cardinality(B) = BatchSize /\ B \subseteq Ahead(w)
  <1>1. w \in Starved(C) \ B
    BY DEF Starved
  <1>2. /\ B \subseteq C
        /\ Cardinality(B) = IF Cardinality(C) < BatchSize THEN Cardinality(C) ELSE BatchSize
        /\ \A v \in B : AtOrBefore(queue, v, w)
    BY <1>1 DEF Batches
  <1>3. IsFiniteSet(C)
    BY FiniteWorkflowsAssumption, FS_Subset DEF IInv, NoWorkflowLost, TypeOK
  <1>4. Cardinality(B) # Cardinality(C)
    BY <1>2, <1>3, FS_Subset
  <1> QED
    BY <1>2, <1>4 DEF Ahead

\* One more miss is one more batch.
LEMMA OneMoreBatch ==
  ASSUME NEW n \in Nat, NEW b \in Nat
  PROVE  (n + 1) * b = n * b + b /\ n * b \in Nat
  OBVIOUS

\* A product bounded by c bounds its factor by the quotient.
LEMMA FactorBound ==
  ASSUME NEW n \in Nat, NEW b \in Nat \ {0}, NEW c \in Nat, n * b <= c
  PROVE  n <= c \div b
  <1> DEFINE q == c \div b
             r == c % b
  <1>1. q \in Nat /\ r \in Nat /\ r < b /\ c = b * q + r
    OBVIOUS
  <1>2. SUFFICES ASSUME n > q PROVE FALSE
    BY <1>1
  <1>3. PICK m \in Nat : n = q + 1 + m
    <2>1. n - q - 1 \in Nat /\ n = q + 1 + (n - q - 1)
      BY <1>1, <1>2
    <2> QED
      BY <2>1
  <1>4. n * b = b * q + b + m * b /\ m * b \in Nat
    BY <1>1, <1>3
  <1> QED
    BY <1>1, <1>4

\* A commit: the starved ones it passes over lose BatchSize workflows ahead of them.
LEMMA CommitBypass ==
  ASSUME IInv, BypassSound, Commit
  PROVE  BypassSound'
  <1>1. PICK r \in reservation :
          /\ miss' = MissesAfterCommit(r)
          /\ queue' = Without(queue, r.selected)
          /\ reservation' = {}
    BY DEF Commit
  <1>2. /\ Queued' = Queued \ r.selected
        /\ \A w \in Queued' : Ahead(w)' = Ahead(w) \ r.selected
    BY <1>1, AheadAfterRemoval
  <1>3. /\ r.selected \subseteq Queued /\ r.missed \subseteq Queued /\ r.selected \cap r.missed = {}
        /\ Queued \subseteq items /\ Queued \subseteq Workflows
        /\ miss \in [Workflows -> Nat]
        /\ BatchSize \in Nat /\ StarvationLimit \in Nat
    BY ConstantsAssumption DEF IInv, ReservationSound, NoWorkflowLost, TypeOK
  <1>4. ASSUME NEW w \in Workflows \ Queued'
        PROVE  miss'[w] = 0
    <2>1. CASE w \in r.selected
      BY <1>1, <1>3, <2>1 DEF MissesAfterCommit
    <2>2. CASE w \notin r.selected
      <3>1. w \notin Queued /\ w \notin r.missed
        BY <1>2, <1>3, <1>4, <2>2
      <3>2. miss'[w] = miss[w]
        BY <1>1, <2>2, <3>1 DEF MissesAfterCommit
      <3> QED
        BY <3>1, <3>2 DEF BypassSound
    <2> QED
      BY <2>1, <2>2
  <1>5. ASSUME NEW w \in Queued', miss'[w] > StarvationLimit
        PROVE  (miss'[w] - StarvationLimit) * BatchSize + Cardinality(Ahead(w)')
                 <= Cardinality(Workflows) - 1
    <2> DEFINE left == Ahead(w) \ r.selected
               over == miss[w] - StarvationLimit
    <2>1. w \in Queued /\ w \in Workflows /\ Ahead(w)' = left /\ w \notin r.selected
      BY <1>2, <1>3
    <2>2. /\ IsFiniteSet(Ahead(w)) /\ Cardinality(Ahead(w)) \in Nat
          /\ Cardinality(Workflows) \in Nat
          /\ Cardinality(Ahead(w)) <= Cardinality(Workflows) - 1
      BY <2>1, AheadIsFinite
    <2>3. CASE w \in r.missed
      <3>1. miss'[w] = miss[w] + 1 /\ miss[w] >= StarvationLimit /\ over \in Nat
        BY <1>1, <1>3, <1>5, <2>1, <2>3 DEF MissesAfterCommit
      <3>2. Cardinality(r.selected) = BatchSize /\ r.selected \subseteq Ahead(w)
        BY <2>3, <3>1 DEF BypassSound
      <3>3. Cardinality(left) = Cardinality(Ahead(w)) - BatchSize
        <4>1. Ahead(w) \cap r.selected = r.selected
          BY <3>2
        <4> QED
          BY <2>2, <3>2, <4>1, FS_Difference
      <3>4. over * BatchSize + Cardinality(Ahead(w)) <= Cardinality(Workflows) - 1
        <4>1. CASE miss[w] = StarvationLimit
          <5>1. over = 0 /\ 0 * BatchSize = 0
            BY <1>3, <4>1
          <5> QED
            BY <2>2, <5>1
        <4>2. CASE miss[w] > StarvationLimit
          BY <2>1, <4>2 DEF BypassSound
        <4> QED
          BY <1>3, <2>1, <3>1, <4>1, <4>2
      <3>5. miss'[w] - StarvationLimit = over + 1
        BY <1>3, <2>1, <3>1
      <3>6. (over + 1) * BatchSize = over * BatchSize + BatchSize /\ over * BatchSize \in Nat
        BY <1>3, <3>1, OneMoreBatch
      <3>7. (over + 1) * BatchSize + Cardinality(left) <= Cardinality(Workflows) - 1
        BY <1>3, <2>2, <3>3, <3>4, <3>6
      <3> QED
        BY <2>1, <3>5, <3>7
    <2>4. CASE w \notin r.missed
      <3>1. miss'[w] = miss[w]
        BY <1>1, <1>3, <2>1, <2>4 DEF MissesAfterCommit
      <3>2. over * BatchSize + Cardinality(Ahead(w)) <= Cardinality(Workflows) - 1
        BY <1>5, <2>1, <3>1 DEF BypassSound
      <3>3. Cardinality(left) <= Cardinality(Ahead(w)) /\ Cardinality(left) \in Nat
        BY <2>2, FS_Subset, FS_CardinalityType
      <3>4. over \in Nat /\ over * BatchSize \in Nat
        BY <1>3, <1>5, <2>1, <3>1, OneMoreBatch
      <3> QED
        BY <2>1, <2>2, <3>1, <3>2, <3>3, <3>4
    <2> QED
      BY <2>3, <2>4
  <1> QED
    BY <1>1, <1>4, <1>5 DEF BypassSound

\* The other steps that change the queue: arrivals and removals.
LEMMA QueueBypass ==
  ASSUME IInv, BypassSound, (\E j \in Jobs : Enqueue(j)) \/ RemoveDoomed
  PROVE  BypassSound'
  <1>0. miss \in [Workflows -> Nat] /\ StarvationLimit \in Nat /\ BatchSize \in Nat
        /\ Queued \subseteq Workflows
    BY ConstantsAssumption DEF IInv, TypeOK, NoWorkflowLost
  <1>1. ASSUME NEW j \in Jobs, Enqueue(j)
        PROVE  BypassSound'
    <2>1. miss' = miss /\ reservation' = reservation
      BY <1>1 DEF Enqueue
    <2>2. \A w \in Queued : w \in Queued' /\ Ahead(w)' = Ahead(w)
      BY <1>1, AheadAfterEnqueue
    <2>3. \A w \in Workflows \ Queued' : miss'[w] = 0
      BY <2>1, <2>2 DEF BypassSound
    <2>4. ASSUME NEW w \in Queued', miss'[w] > StarvationLimit
          PROVE  (miss'[w] - StarvationLimit) * BatchSize + Cardinality(Ahead(w)')
                   <= Cardinality(Workflows) - 1
      <3>1. w \in Workflows
        BY <1>1, EnqueueInvariant DEF IInv, TypeOK, NoWorkflowLost
      <3>2. w \in Queued
        BY <1>0, <2>1, <2>4, <3>1 DEF BypassSound
      <3> QED
        BY <2>1, <2>2, <2>4, <3>2 DEF BypassSound
    <2>5. \A r \in reservation' : \A w \in r.missed : miss'[w] >= StarvationLimit =>
            Cardinality(r.selected) = BatchSize /\ r.selected \subseteq Ahead(w)'
      BY <2>1, <2>2 DEF BypassSound, IInv, ReservationSound
    <2> QED
      BY <2>3, <2>4, <2>5 DEF BypassSound
  <1>2. CASE RemoveDoomed
    <2>1. /\ queue' = Without(queue, doomed) /\ reservation' = {}
          /\ miss' = [w \in Workflows |-> IF w \in doomed THEN 0 ELSE miss[w]]
      BY <1>2 DEF RemoveDoomed, IInv, OneReservation
    <2>2. /\ Queued' = Queued \ doomed
          /\ \A w \in Queued' : Ahead(w)' = Ahead(w) \ doomed
      BY <2>1, AheadAfterRemoval
    <2>3. \A w \in Workflows \ Queued' : miss'[w] = 0
      BY <2>1, <2>2 DEF BypassSound
    <2>4. ASSUME NEW w \in Queued', miss'[w] > StarvationLimit
          PROVE  (miss'[w] - StarvationLimit) * BatchSize + Cardinality(Ahead(w)')
                   <= Cardinality(Workflows) - 1
      <3> DEFINE left == Ahead(w) \ doomed
                 over == miss[w] - StarvationLimit
      <3>1. w \in Queued /\ w \in Workflows /\ miss'[w] = miss[w] /\ Ahead(w)' = left
        BY <1>0, <2>1, <2>2
      <3>2. over * BatchSize + Cardinality(Ahead(w)) <= Cardinality(Workflows) - 1
        BY <2>4, <3>1 DEF BypassSound
      <3>3. /\ IsFiniteSet(Ahead(w)) /\ Cardinality(Ahead(w)) \in Nat
            /\ Cardinality(Workflows) \in Nat
        BY <3>1, AheadIsFinite
      <3>4. Cardinality(left) <= Cardinality(Ahead(w)) /\ Cardinality(left) \in Nat
        BY <3>3, FS_Subset, FS_CardinalityType
      <3>5. over \in Nat /\ over * BatchSize \in Nat
        BY <1>0, <2>4, <3>1, OneMoreBatch
      <3> QED
        BY <3>1, <3>2, <3>3, <3>4, <3>5
    <2> QED
      BY <2>1, <2>3, <2>4 DEF BypassSound
  <1> QED
    BY <1>1, <1>2

\* reserve_batch chooses within Batches, where StarvedPayWithBatches applies.
LEMMA ReserveBypass ==
  ASSUME IInv, BypassSound, NEW free, Reserve(free)
  PROVE  BypassSound'
  <1>1. UNCHANGED <<queue, miss>>
    BY DEF Reserve
  <1>2. Queued' = Queued /\ \A w : Ahead(w)' = Ahead(w)
    BY <1>1 DEF Queued, Ahead
  <1>3. PICK part, ringPick : \E B \in Batches(Candidates(part)) :
          reservation' = {Reservation(B, Candidates(part), part, ringPick)}
    BY DEF Reserve
  <1>4. PICK B \in Batches(Candidates(part)) :
          reservation' = {Reservation(B, Candidates(part), part, ringPick)}
    BY <1>3
  <1>5. Candidates(part) \in SUBSET Queued
    BY CandidatesInPool
  <1>6. \A w \in Candidates(part) \ B : miss[w] >= StarvationLimit =>
          Cardinality(B) = BatchSize /\ B \subseteq Ahead(w)
    BY <1>5, StarvedPayWithBatches
  <1>7. \A r \in reservation' : \A w \in r.missed : miss'[w] >= StarvationLimit =>
          Cardinality(r.selected) = BatchSize /\ r.selected \subseteq Ahead(w)'
    BY <1>1, <1>2, <1>4, <1>6 DEF Reservation
  <1> QED
    BY <1>1, <1>2, <1>7 DEF BypassSound

\* Every step keeps the account.
LEMMA StepBypass == IInv /\ BypassSound /\ [Next]_vars => BypassSound'
  <1> SUFFICES ASSUME IInv, BypassSound, [Next]_vars PROVE BypassSound'
    OBVIOUS
  <1>1. ASSUME queue' = queue, miss' = miss, reservation' = reservation \/ reservation' = {}
        PROVE  BypassSound'
    <2>1. Queued' = Queued /\ \A w : Ahead(w)' = Ahead(w)
      BY <1>1 DEF Queued, Ahead
    <2> QED
      BY <1>1, <2>1 DEF BypassSound
  <1>2. CASE \/ UNCHANGED vars \/ WaitForWork \/ Woken \/ NoIdleWorkers \/ Observe \/ Abort \/ Tick
             \/ (\E free \in Snapshots : ReserveNothing(free))
             \/ (\E B \in SUBSET dispatched : Finalize(B))
             \/ (\E p \in Volatile : FleetDown(p) \/ FleetUp(p))
    <2>1. queue' = queue /\ miss' = miss /\ (reservation' = reservation \/ reservation' = {})
      BY <1>2 DEF vars, WaitForWork, Woken, NoIdleWorkers, Observe, Abort, Tick, ReserveNothing,
                  Finalize, FleetDown, FleetUp, queueVars
    <2> QED
      BY <1>1, <2>1
  <1>3. CASE (\E j \in Jobs : Enqueue(j)) \/ RemoveDoomed
    BY <1>3, QueueBypass
  <1>4. ASSUME NEW free \in Snapshots, Reserve(free) PROVE BypassSound'
    BY <1>4, ReserveBypass
  <1>5. CASE Commit
    BY <1>5, CommitBypass
  <1> QED
    BY <1>2, <1>3, <1>4, <1>5 DEF Next

\* Nobody misses more often than the starvation limit and the batches that fit into the
\* work ahead of it, for every policy (_apply_starvation_policy, commit_reservation).
THEOREM BypassIsBounded == Spec => []BoundedBypass
  <1>1. Init => BypassSound
    BY EmptyIsDeque DEF Init, BypassSound, Queued
  <1>2. IInv /\ BypassSound => BoundedBypass
    <2> SUFFICES ASSUME IInv, BypassSound, NEW w \in Workflows
                 PROVE  miss[w] <= StarvationLimit + (Cardinality(Workflows) - 1) \div BatchSize
      BY DEF BoundedBypass
    <2> DEFINE c == Cardinality(Workflows) - 1
               over == miss[w] - StarvationLimit
    <2>1. miss[w] \in Nat /\ StarvationLimit \in Nat /\ BatchSize \in Nat \ {0}
      BY ConstantsAssumption DEF IInv, TypeOK
    <2>2. c \in Nat
      <3>1. Cardinality(Workflows) \in Nat /\ Cardinality(Workflows) # 0
        BY FiniteWorkflowsAssumption, FS_CardinalityType, FS_EmptySet
      <3> QED
        BY <3>1
    <2>3. c \div BatchSize \in Nat
      BY <2>1, <2>2
    <2>4. CASE miss[w] <= StarvationLimit
      BY <2>1, <2>3, <2>4
    <2>5. CASE miss[w] > StarvationLimit
      <3>1. w \in Queued
        BY <2>1, <2>5 DEF BypassSound
      <3>2. over * BatchSize + Cardinality(Ahead(w)) <= c
        BY <2>5, <3>1 DEF BypassSound
      <3>3. over \in Nat /\ over * BatchSize \in Nat
        BY <2>1, <2>5, OneMoreBatch
      <3>4. over * BatchSize <= c
        BY <2>2, <3>1, <3>2, <3>3, AheadIsFinite
      <3>5. over <= c \div BatchSize
        BY <2>1, <2>2, <3>3, <3>4, FactorBound
      <3> QED
        BY <2>1, <2>3, <3>5
    <2> QED
      BY <2>1, <2>4, <2>5
  <1> QED
    BY <1>1, <1>2, Invariant, StepBypass, PTL DEF Spec

-----------------------------------------------------------------------------
(* The priority queue implements the two-phase job queue.                   *)

\* An empty priority queue is an empty two-phase queue.
LEMMA InitRefines == Init => Abstract!JobInit
  BY EmptyIsDeque DEF Init, Abstract!JobInit, Queued, Held

\* The reserved batch of the only reservation.
LEMMA HeldIsSelected ==
  ASSUME IInv, NEW r \in reservation
  PROVE  Held = r.selected
  BY DEF IInv, OneReservation, Held

\* Each step of the manager is a step of the two-phase queue or invisible to its caller;
\* the invariant says that what is committed or removed was queued.
LEMMA StepRefines == IInv /\ IInv' /\ [Next]_vars => [Abstract!JobNext]_(Abstract!jobVars)
  <1> SUFFICES ASSUME IInv, IInv', [Next]_vars
               PROVE  Abstract!JobNext \/ UNCHANGED Abstract!jobVars
    OBVIOUS
  <1> USE DEF Abstract!jobVars
  <1>0. Queued \subseteq Workflows /\ dispatched \subseteq Workflows /\ Queued' \subseteq Workflows
    BY DEF IInv, NoWorkflowLost, TypeOK
  <1>1. CASE UNCHANGED vars
    BY <1>1 DEF vars, queueVars, Queued, Held
  <1>2. ASSUME NEW j \in Jobs, Enqueue(j)
        PROVE  \E W \in SUBSET Workflows : Abstract!Submit(W)
    <2> DEFINE W == {w \in Workflows : JobOf[w] = j}
    <2>1. W # {} /\ W \cap items = {} /\ queue' = Concat(queue, Keep(GraphOrder, W))
          /\ dispatched' = dispatched /\ reservation' = reservation
      BY <1>2 DEF Enqueue
    <2>2. IsDeque(Keep(GraphOrder, W), Workflows) /\ Elems(Keep(GraphOrder, W)) = W
      BY KeepIsDeque, KeepElems, ConstantsAssumption
    <2>3. IsDeque(queue, Workflows)
      BY DEF IInv, DequesWellFormed
    <2>4. Queued' = Queued \cup W
      <3>1. Elems(Concat(queue, Keep(GraphOrder, W))) = Elems(queue) \cup Elems(Keep(GraphOrder, W))
        BY <2>2, <2>3, ConcatElems
      <3> QED
        BY <2>1, <2>2, <3>1 DEF Queued
    <2>5. W \cap (Queued \cup dispatched) = {}
      BY <2>1 DEF IInv, NoWorkflowLost
    <2>6. Held' = Held
      BY <2>1 DEF Held
    <2>7. Abstract!Submit(W)
      BY <2>1, <2>4, <2>5, <2>6 DEF Abstract!Submit
    <2> QED
      BY <2>7
  <1>3. CASE RemoveDoomed
    <2>1. queue' = Without(queue, doomed) /\ dispatched' = dispatched /\ reservation' = reservation
          /\ pc = "fail"
      BY <1>3 DEF RemoveDoomed
    <2>2. Queued' = Queued \ doomed
      BY <2>1, WithoutElems DEF Queued, IInv, DequesWellFormed
    <2>3. reservation = {} /\ doomed # {} /\ doomed \subseteq Queued
      BY <2>1 DEF IInv, OneReservation, DoomedIsQueued
    <2>4. Held = {} /\ Held' = {}
      BY <2>1, <2>3 DEF Held
    <2>5. Abstract!Remove(doomed)
      BY <2>1, <2>2, <2>3, <2>4 DEF Abstract!Remove
    <2>6. doomed \in SUBSET Workflows
      BY <1>0, <2>3
    <2> QED
      BY <2>5, <2>6 DEF Abstract!JobNext
  <1>4. ASSUME NEW free, Reserve(free)
        PROVE  Abstract!JobNext
    <2>1. queue' = queue /\ dispatched' = dispatched /\ pc \in {"select", "reserve"} /\ pc' = "claim"
      BY <1>4 DEF Reserve, AtReserve
    <2>2. reservation = {}
      BY <2>1 DEF IInv, OneReservation
    <2>3. PICK r : r \in reservation'
      BY <2>1 DEF IInv, OneReservation
    <2>4. Held = {}
      BY <2>2 DEF Held
    <2>5. Held' = r.selected
      BY <2>3 DEF IInv, OneReservation, Held
    <2>6. Queued' = Queued
      BY <2>1 DEF Queued
    <2>7. /\ r.selected # {} /\ Cardinality(r.selected) <= BatchSize /\ r.selected \subseteq Queued
          /\ \A v, w \in r.selected : PartitionOf[v] = PartitionOf[w]
      BY <2>3, <2>6 DEF IInv, ReservationSound
    <2>8. Abstract!Hold(r.selected)
      <3>1. Abstract!Cardinality(r.selected) = Cardinality(r.selected)
        BY DEF Abstract!Cardinality, Cardinality
      <3> QED
        BY <2>1, <2>4, <2>5, <2>6, <2>7, <3>1 DEF Abstract!Hold
    <2>9. r.selected \in SUBSET Workflows
      BY <1>0, <2>7
    <2> QED
      BY <2>8, <2>9 DEF Abstract!JobNext
  <1>5. CASE Commit
    <2>1. PICK r \in reservation : /\ queue' = Without(queue, r.selected)
                                   /\ dispatched' = dispatched \cup r.selected
                                   /\ reservation' = {}
      BY <1>5 DEF Commit
    <2>2. Held = r.selected /\ Held' = {}
      BY <2>1, HeldIsSelected DEF Held
    <2>3. Queued' = Queued \ r.selected
      BY <2>1, WithoutElems DEF Queued, IInv, DequesWellFormed
    <2>4. r.selected # {}
      BY DEF IInv, ReservationSound
    <2> QED
      BY <2>1, <2>2, <2>3, <2>4 DEF Abstract!Dispatch, Abstract!JobNext
  <1>6. CASE Abort
    <2>1. queue' = queue /\ dispatched' = dispatched /\ reservation' = {} /\ pc = "claim"
      BY <1>6 DEF Abort, queueVars
    <2>2. PICK r : r \in reservation
      BY <2>1 DEF IInv, OneReservation
    <2>3. Held = r.selected /\ r.selected # {} /\ Held' = {}
      BY <2>1, <2>2, HeldIsSelected DEF IInv, ReservationSound, Held
    <2>4. Queued' = Queued
      BY <2>1 DEF Queued
    <2> QED
      BY <2>1, <2>3, <2>4 DEF Abstract!Release, Abstract!JobNext
  <1>7. ASSUME NEW B \in SUBSET dispatched, Finalize(B)
        PROVE  Abstract!JobNext
    <2>1. queue' = queue /\ reservation' = reservation /\ dispatched' = dispatched \ B /\ B # {}
      BY <1>7 DEF Finalize
    <2>2. Queued' = Queued /\ Held' = Held
      BY <2>1 DEF Queued, Held
    <2>3. Abstract!Retire(B) /\ B \in SUBSET Workflows
      BY <1>0, <2>1, <2>2 DEF Abstract!Retire
    <2> QED
      BY <2>3 DEF Abstract!JobNext
  <1>8. ASSUME queue' = queue, dispatched' = dispatched, reservation' = reservation
        PROVE  UNCHANGED Abstract!jobVars
    BY <1>8 DEF Queued, Held
  <1>9. ASSUME \/ WaitForWork \/ Woken \/ NoIdleWorkers \/ Observe \/ Tick
               \/ \E free \in Snapshots : ReserveNothing(free)
               \/ \E p \in Volatile : FleetDown(p) \/ FleetUp(p)
        PROVE  queue' = queue /\ dispatched' = dispatched /\ reservation' = reservation
    BY <1>9 DEF WaitForWork, Woken, NoIdleWorkers, Observe, Tick, ReserveNothing, FleetDown,
                FleetUp, queueVars
  <1> QED
    BY <1>1, <1>2, <1>3, <1>4, <1>5, <1>6, <1>7, <1>8, <1>9 DEF Next, Abstract!JobNext

\* Every behaviour of the priority queue is a behaviour of the abstract queue.
THEOREM Refinement == Spec => ImplementsJobQueue
  BY InitRefines, StepRefines, Invariant, PTL
     DEF Spec, ImplementsJobQueue, Abstract!JobSpec

=============================================================================
