------------------------------ MODULE JobQueue ------------------------------
(***************************************************************************)
(* What a job manager promises its caller (BaseJobManager in               *)
(* src/lumilake_server/runtime/job_manager/base.py): a two-phase selection *)
(* over a set of queued workflows.  Which batch is selected is left open;  *)
(* JobManager fixes it and implements this specification, Server uses it.  *)
(***************************************************************************)
EXTENDS Naturals, FiniteSets

CONSTANTS
  Workflows,     \* workflow ids
  PartitionOf,   \* workflow -> partition: a batch never spans partitions
  BatchSize      \* the most workflows a batch holds

VARIABLES
  queued,   \* workflows waiting for selection
  held,     \* the reserved batch, {} without a reservation
  running   \* committed workflows that are not finalized

jobVars == <<queued, held, running>>

JobInit == queued = {} /\ held = {} /\ running = {}

\* enqueue
Submit(W) ==
  /\ W # {}
  /\ W \cap (queued \cup running) = {}
  /\ queued' = queued \cup W
  /\ UNCHANGED <<held, running>>

\* reserve_batch: "Compute (without consuming) the next batch".
Hold(B) ==
  /\ held = {}
  /\ B # {} /\ B \subseteq queued
  /\ Cardinality(B) <= BatchSize
  /\ \A v, w \in B : PartitionOf[v] = PartitionOf[w]
  /\ held' = B
  /\ UNCHANGED <<queued, running>>

\* commit_reservation: "Apply the queue mutations".
Dispatch ==
  /\ held # {}
  /\ queued' = queued \ held
  /\ running' = running \cup held
  /\ held' = {}

\* abort_reservation: "the queue is left exactly as it was".
Release ==
  /\ held # {}
  /\ held' = {}
  /\ UNCHANGED <<queued, running>>

\* remove_workflows: "Drop workflows from the queue entirely", never under a
\* reservation.
Remove(B) ==
  /\ held = {}
  /\ B # {} /\ B \subseteq queued
  /\ queued' = queued \ B
  /\ UNCHANGED <<held, running>>

\* finalize_workflows: "Drop metadata for completed workflows."
Retire(B) ==
  /\ B # {} /\ B \subseteq running
  /\ running' = running \ B
  /\ UNCHANGED <<queued, held>>

JobNext ==
  \/ \E W \in SUBSET Workflows : Submit(W) \/ Hold(W) \/ Remove(W) \/ Retire(W)
  \/ Dispatch
  \/ Release

JobSpec == JobInit /\ [][JobNext]_jobVars

=============================================================================
