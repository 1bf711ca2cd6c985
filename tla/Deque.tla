------------------------------- MODULE Deque -------------------------------
(***************************************************************************)
(* Duplicate-free deques as reflexive total orders.                        *)
(*                                                                         *)
(* Every collections.deque of PriorityJobManager (the per-user workflow    *)
(* queues, the round-robin order of users, the round-robin order of        *)
(* partitions) holds each element at most once and is only appended to,    *)
(* popped on the left, rotated by one and filtered.  Such a deque is the   *)
(* set of pairs <<x, y>> with x at or before y: filtering is a restriction *)
(* of the relation, which needs no recursion over positions, so the        *)
(* lemmas of JobManagerProofs hold for deques of every length.             *)
(***************************************************************************)

\* The elements of the deque.
Elems(d) == {pair[1] : pair \in d}

\* x stands at or before y.
AtOrBefore(d, x, y) == <<x, y>> \in d

\* d is a deque over S: a reflexive, antisymmetric, transitive, total relation
\* on its elements.
IsDeque(d, S) ==
  /\ d \subseteq S \X S
  /\ \A x, y \in S : <<x, y>> \in d => <<x, x>> \in d /\ <<y, y>> \in d
  /\ \A x, y \in S : <<x, y>> \in d /\ <<y, x>> \in d => x = y
  /\ \A x, y, z \in S : <<x, y>> \in d /\ <<y, z>> \in d => <<x, z>> \in d
  /\ \A x, y \in Elems(d) : <<x, y>> \in d \/ <<y, x>> \in d

\* deque(): no element.
EmptyDeque == {}

\* deque(e for e in d if e in X): the elements of X in their order in d.
Keep(d, X) == {pair \in d : pair[1] \in X /\ pair[2] \in X}

\* The elements outside X in their order in d.
Without(d, X) == {pair \in d : pair[1] \notin X /\ pair[2] \notin X}

\* d.extend(e): e's elements, none of which is in d, after those of d.
Concat(d, e) == d \cup e \cup (Elems(d) \X Elems(e))

\* d.append(x) for an x that is not in d.
PushBack(d, x) == Concat(d, {<<x, x>>})

\* {d[0]}, or {} when d is empty.
Front(d) == {x \in Elems(d) : \A y \in Elems(d) : <<x, y>> \in d}

\* d.rotate(-1) when X is {d[0]}: X moves behind every other element.
MoveBack(d, X) == Concat(Without(d, X), Keep(d, X))

=============================================================================
