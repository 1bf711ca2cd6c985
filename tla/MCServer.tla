------------------------------ MODULE MCServer ------------------------------
(***************************************************************************)
(* Instances of Server for TLC.                                            *)
(***************************************************************************)
EXTENDS Server, TLC

CONSTANTS w1, w2, w3, w4, r1, r2, r3, p1, p2

\* Three requests, which may share a batch.  r1 has two workflows, in two batches;
\* the workers of its second one may be gone.  r2 and r3 have one workflow each.
Shared_RequestOf == (w1 :> r1) @@ (w2 :> r1) @@ (w3 :> r2) @@ (w4 :> r3)
Shared_PartitionOf == (w1 :> p1) @@ (w2 :> p2) @@ (w3 :> p1) @@ (w4 :> p1)

=============================================================================
