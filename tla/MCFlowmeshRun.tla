---------------------------- MODULE MCFlowmeshRun ----------------------------
(***************************************************************************)
(* Instances of FlowmeshRun for TLC.                                       *)
(***************************************************************************)
EXTENDS FlowmeshRun, TLC

CONSTANTS t1, t2, m1, m2

\* Two requests that share t1.
Coalesced_OwnedBy == (m1 :> {t1}) @@ (m2 :> {t1, t2})

=============================================================================
