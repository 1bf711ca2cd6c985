------------------------------- MODULE MCParts -------------------------------
(***************************************************************************)
(* Parts of the server that share no state, checked side by side: the      *)
(* initial state picks one, and only that one takes steps.  Dynamic        *)
(* rounds, runtime graphs, deduplication, the job table and the cohort     *)
(* policy have variables of their own; the other parts share given and     *)
(* result.                                                                 *)
(***************************************************************************)
EXTENDS DynamicPlan, RuntimeGraph, GraphDedupe, JobIndex, CohortPack

CONSTANTS
  MaxTasks, FreeTasks,           \* of Optimizer
  ShardTasks,                    \* of ShardRewrite
  MaxRefs,                       \* of Parsers
  MaxRows                        \* of BatchMerge

VARIABLES
  part,            \* the part that is exercised
  given, result    \* what a transformation takes and makes

Opt == INSTANCE Optimizer WITH batch <- given, schedule <- result
Shard == INSTANCE ShardRewrite WITH plan <- given, rewrite <- result
Parse == INSTANCE Parsers WITH source <- given, compiled <- result
Joint == INSTANCE BatchMerge WITH jobs <- given, sent <- result

vars == <<part, given, result, planVars, rgVars, deVars, jiVars, coVars>>

\* The cost arguments that are tried: all free, and none; and the jobs that arrive.
TriedArgs ==
  {[fixed |-> 0, mix |-> 0, beta |-> 1, gamma |-> 1, patience |-> 0, ref |-> 2],
   [fixed |-> 2, mix |-> 1, beta |-> 2, gamma |-> 1, patience |-> 1, ref |-> 3]}
TriedShapes == {<<1>>, <<2>>, <<1, 1>>, <<1, 2>>, <<1, 1, 1>>}

\* The parts that are not exercised rest in an initial state of theirs.
PlanIdle == PlanInit /\ rows = 1
GraphIdle == ops = <<>> /\ built = <<>>
IndexIdle == JiInit /\ store.legacy = [j \in Jobs |-> None] /\ \A j \in Jobs : store.about[j].at = 1 /\ ~ store.about[j].child
CohortIdle == CoInit /\ desk.args.fixed = 0
Idle == given = <<>> /\ result = <<>>

Init ==
  \/ part = "plan" /\ PlanInit /\ GraphIdle /\ DeInit /\ IndexIdle /\ CohortIdle /\ Idle
  \/ part = "graph" /\ PlanIdle /\ RGInit /\ DeInit /\ IndexIdle /\ CohortIdle /\ Idle
  \/ part = "dedupe" /\ PlanIdle /\ GraphIdle /\ DeInit /\ IndexIdle /\ CohortIdle /\ Idle
  \/ part = "storage" /\ PlanIdle /\ GraphIdle /\ DeInit /\ JiInit /\ CohortIdle /\ Idle
  \/ part = "cohorts" /\ PlanIdle /\ GraphIdle /\ DeInit /\ IndexIdle /\ CoInit /\ Idle
  \/ /\ PlanIdle /\ GraphIdle /\ DeInit /\ IndexIdle /\ CohortIdle
     /\ \/ part = "optimizer" /\ Opt!OpInit
        \/ part = "shard" /\ Shard!ShInit
        \/ part = "parsers" /\ Parse!PaInit
        \/ part = "batches" /\ Joint!BaInit

Transform ==
  \/ part = "optimizer" /\ Opt!OpNext
  \/ part = "shard" /\ Shard!ShNext
  \/ part = "parsers" /\ Parse!PaNext
  \/ part = "batches" /\ Joint!BaNext

Next ==
  \/ part = "plan" /\ PlanNext /\ UNCHANGED <<part, given, result, rgVars, deVars, jiVars, coVars>>
  \/ part = "graph" /\ RGNext /\ UNCHANGED <<part, given, result, planVars, deVars, jiVars, coVars>>
  \/ part = "dedupe" /\ DeNext /\ UNCHANGED <<part, given, result, planVars, rgVars, jiVars, coVars>>
  \/ part = "storage" /\ JiNext /\ UNCHANGED <<part, given, result, planVars, rgVars, deVars, coVars>>
  \/ part = "cohorts" /\ CoNext /\ UNCHANGED <<part, given, result, planVars, rgVars, deVars, jiVars>>
  \/ Transform /\ UNCHANGED <<part, planVars, rgVars, deVars, jiVars, coVars>>

Spec == Init /\ [][Next]_vars

-----------------------------------------------------------------------------
(* Correctness of the transformations, as stated in their modules.          *)

\* A schedule can be followed, where it can run, and is the cheapest.
ScheduleSound == part = "optimizer" => Opt!ScheduleSound

\* Shards run as scheduled and give the rows of the unsharded run.
ShardsFaithful == part = "shard" => Shard!ShardsFaithful

\* A workflow determines its graph, in whichever order and format it is read.
ParsersSound == part = "parsers" => Parse!ParsersSound

\* Rows, plans and shares of a request do not depend on what it was batched with.
BatchesSound == part = "batches" => Joint!BatchesSound

==============================================================================
