---------------------------- MODULE MCJobManager ----------------------------
(***************************************************************************)
(* Small instances of JobManager for TLC.                                  *)
(***************************************************************************)
EXTENDS JobManager, TLC

CONSTANTS
  w1, w2, w3, w4,     \* workflows
  j1, j2, j3,         \* jobs
  u1, u2, u3,         \* users
  pA, pB              \* partitions

\* A sequence, given as a function from 1 .. n, as a deque.
DequeOf(n, s) == {<<s[i], s[k]>> : i, k \in 1 .. n} \
                 {<<s[k], s[i]>> : <<i, k>> \in {x \in (1 .. n) \X (1 .. n) : x[1] < x[2]}}

TwoPartitionOrder == DequeOf(2, <<pA, pB>>)
OnePartitionOrder == DequeOf(1, <<pA>>)

FourWorkflowOrder == DequeOf(4, <<w1, w2, w3, w4>>)
ThreeWorkflowOrder == DequeOf(3, <<w1, w2, w3>>)

\* mixed: a job of two workflows, one per partition (the CPU and the GPU class of
\* one request), a job of another user at the same priority, and a job at the
\* next priority.
Mixed_JobOf == (w1 :> j1) @@ (w2 :> j1) @@ (w3 :> j2) @@ (w4 :> j3)
Mixed_UserOf == (j1 :> u1) @@ (j2 :> u2) @@ (j3 :> u1)
Mixed_PriorityOf == (j1 :> 1) @@ (j2 :> 1) @@ (j3 :> 2)
Mixed_PartitionOf == (w1 :> pA) @@ (w2 :> pB) @@ (w3 :> pA) @@ (w4 :> pA)
Mixed_Quantum == (1 :> 2) @@ (2 :> 1)

\* crowd: three jobs of one workflow, each of its own user, at one priority
\* and in one partition; a reservation is offered one of them.
Crowd_JobOf == (w1 :> j1) @@ (w2 :> j2) @@ (w3 :> j3)
Crowd_UserOf == (j1 :> u1) @@ (j2 :> u2) @@ (j3 :> u3)
Crowd_PriorityOf == (j1 :> 1) @@ (j2 :> 1) @@ (j3 :> 1)
Crowd_PartitionOf == (w1 :> pA) @@ (w2 :> pA) @@ (w3 :> pA)
Crowd_Quantum == (1 :> 1)

\* fleet: the same crowd over two partitions, one of which the fleet may lose.
Fleet_PartitionOf == (w1 :> pA) @@ (w2 :> pB) @@ (w3 :> pA)
=============================================================================
