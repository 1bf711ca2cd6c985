# Lumilake: TLA+ models, checks and proofs

Lumilake (`src/src/lumilake_server`) accepts analytics jobs made of LLM workflows, batches
them across users, and runs the batches on workers of the FlowMesh service. This directory
holds TLA+ modules of the parts of the server that carry state and concurrency, TLC
configurations that check them on small instances, and TLAPS proofs for every instance.

## 1. Inventory

| Part | State it keeps | Operations | Talks to |
|---|---|---|---|
| Job routes, `routes/jobs.py` | `jobs` (in-memory records), one task per job | submit, `_run_job`, cancel, progress, recovery, shutdown mark | storage (in threads), server |
| Job storage, `utils/job_storage.py` | per-job blobs, the jobs index, per-job save locks | `save`, `load`, `iter_summaries` | lumid-data blob service |
| Application lifespan, `main.py` | background tasks | first recovery pass, background retries, task cancellation | routes, server |
| Server, `runtime/server.py` | `RequestState` per request, `_busy_workers`, batch tasks | `handle_request`, `_scheduler_loop`, `_run_batch`, `cancel_request`, `_fail_unplaceable_batch` | job manager, runtime manager |
| Job manager, `runtime/job_manager/priority_queue.py` | per-priority, per-user queues; user and partition rings; reservation; dwell timers | enqueue, wait, reserve/commit/abort, finalize, remove | called by the server |
| Policies, `runtime/job_manager/policies`, `cluster_algo` | cohort packing: what each chain ran, its width and latest round | choose a batch among candidates, note a commit | called by the job manager |
| FlowMesh runtime manager, `runtime/runtime_manager/flowmesh.py` | workflow ids, task statuses, cancelled set per execution | `process_request`, `cancel_request` | FlowMesh over HTTP |
| Capacity, `runtime/capacity.py` | none | match worker profiles with requirements | FlowMesh |
| Dynamic jobs, `routes/jobs.py`, `dynamic/` | parent record, child jobs, rounds | plan, submit child, await, observe | routes, planner API |
| Thread queue and loop, `runtime/utils` | queue, waiters, closed flag | get, put, close across threads | routes ↔ server |
| Parsers, `parser/n8n.py`, `parser/yaml_parser.py` | – | compile a document to a graph of ops | routes |
| Runtime graph, `runtime/runtime_graph.py` | nodes, order, outputs | build tasks from ops, prefix, merge | server |
| Optimizers, `runtime/optimizer` | – | deduplicate a merged graph, search a schedule | server |
| Operators, data profiles, offload, hooks, SDK, CLI, deploy | data | transformation and I/O | – |

What is hard: request handlers, the scheduler, batch tasks and cancellations interleave at
every `await`; values read before an await (a capacity snapshot, a reservation, a set of
cancelled requests, a loaded record) are used after it; a shared execution fails for one of
its members; FlowMesh may lose a reply, list late or never finish; archive writes are not
atomic and the process may die between two of them; two event loops share queues without a
common lock; and between submission and answer the rows of a request are sliced, coalesced with
other slices, deduplicated, sharded, merged and dealt out again, where a slip gives a wrong row
and no error. `PROJECT.json` lists these hazards at
their lines.

What makes each part correct:

* job manager: no workflow lost or run twice, reservations valid until commit, no lost
  wake-up, turns that serve, work failed only when the fleet cannot run it;
* server: workers exclusive, each workflow one verdict, each request one faithful answer,
  failures confined to their request, every worker returned;
* FlowMesh execution: no double submit, no orphaned workflow, no lost cancellation, outputs
  only when every task completed, an end in every case;
* job records: an ended job stays ended, storage agrees with memory, recovery reaches every
  job of a dead process; the index never hides a job that has not ended;
* dynamic jobs: rounds follow one another, a cancellation leaves no child running, no op is
  computed twice, results reach later rounds in the shape they are read;
* thread queue: no lost wake-up, order kept, close ends every wait;
* parsers, runtime graph, optimizers, shards, batches: every reference resolves to something
  that ran before, nothing is dropped, each row of an answer is the result of that row.

## 2. Modules

| Module | Models | Notes |
|---|---|---|
| `Deque` | `collections.deque` of distinct values | An order relation, so that filtering is intersection and no recursion is needed. External. |
| `JobQueue` | `BaseJobManager` | Abstract two-phase queue: what the server may rely on. |
| `JobManager` | `PriorityJobManager` and the scheduler loop's calls | Refines `JobQueue`. |
| `Server` | `LumilakeServer` | Extends `JobQueue`: any manager that implements it. |
| `FlowmeshRun` | one execution of `FlowmeshRuntimeManager` | FlowMesh itself by what the client can see. |
| `JobRecords` | routes, storage and lifespan for one job | Crash, restart, archive errors. |
| `DynamicDriver` | the driver task of a dynamic job, its children, cancellation, terminal hooks (`routes/jobs.py`) | Saves in threads, with copies older than the lock. |
| `ThreadQueue` | `TSQueue`, `AsyncEventLoop`, `_process_request`, `close` | One step per atomic operation of two threads. |
| `DynamicPlan` | `dynamic/driver.py`, `dynamic/blocks.py` | Any subgraph a planner may emit. |
| `Parsers` | `parser/n8n.py`, `parser/yaml_parser.py` | Both formats, and the workflow transcribed from one to the other. |
| `RuntimeGraph` | `runtime/runtime_graph.py` | Any small workflow of ops. |
| `GraphDedupe` | `runtime/optimizer/base.py` | Against what a task shows. |
| `Optimizer` | `runtime/optimizer/halo.py`, `schedule/halo_dp.py`, `topological_sort.py` | Branch and bound against the full search. |
| `ShardRewrite` | the shard rewrite of `runtime_manager/flowmesh.py` | Against the unsharded run. |
| `CohortPack` | `policies/cohort_pack.py` | A policy `JobManager` leaves open. |
| `BatchMerge` | slicing (`routes/jobs.py`) and `_process_batch` (`runtime/server.py`) | Against each row run alone. |
| `JobIndex` | `SqliteJobStorage` (`utils/job_storage.py`) | Crash, retention, import; against the listing of the other back-ends. |
| `JobManagerProofs`, `ServerProofs`, `FlowmeshRunProofs`, `JobRecordsProofs`, `DynamicDriverProofs`, `ThreadQueueProofs` | – | Theorems about the module in their name, section 4. |
| `PartsProofs` | – | Theorems about `DynamicPlan`, `JobIndex`, `GraphDedupe`, `RuntimeGraph` and `CohortPack`. |
| `DataFacts` | – | Lemmas about data: least numbers, recursive functions, layers of an acyclic relation, ranks. |
| `MCJobManager`, `MCServer`, `MCFlowmeshRun` | – | Instances for TLC. |
| `MCParts` | – | The nine modules from `DynamicPlan` to `JobIndex`, which share no state: the initial state picks one. |

A definition `D_Fault` next to `D` is `D` with one plausible bug; the mutants of
`PROJECT.json` use it to see that a property notices.

### JobManager

`queue` is the union of `_queues[priority][user]` in arrival order: each of those deques is
only appended to and filtered, so it is a view of `queue`. `rrUser` and `rrPart` are the two
rings, `reservation` the `_ReservationPayload`, `notEmpty` the event, `count`/`elapsed` the
dwell bookkeeping, `pc` the place of the scheduler loop. Each locked method is one action:
`Enqueue`, `Observe` (`permanently_unsatisfiable`), `RemoveDoomed`, `Reserve`/`ReserveNothing`,
`Commit`, `Abort`, `Finalize`. A policy is any non-empty choice within the batch size
(`Batches`), so what is shown holds for all policies; the starvation override is exact. A
capacity snapshot is the set of partitions that it can run.

### Server

A batch task is a record whose `at` is the place in `_run_batch`/`_run_batch_inner` where it
is suspended. A claim uses a snapshot that may be stale. A failed execution of several
requests is split: its nodes are handed back and each request runs alone on the same workers,
which are released once. A re-run may itself raise (`AloneFails`); its workflows then get the error.
`Unplaceable` are the partitions whose workers may be gone for longer than the dwell: such work is
run while they are there and may be failed at any time. A response is the set of workflows it has
outputs and errors for.

### FlowmeshRun

`process_request` as a sequence of awaits, with `cancel_request` between any two. A submit
answered by the gateway with 502/503/504 may have created the workflow; the list may show it
late; the look-up may fail. So may one that fails in any other way (a timeout of the client, a
dropped connection, status 500), which is raised without a look-up. A polling round reads the
tasks one by one, so what it has seen need not have been true at one moment (`Readings`). Tasks
may never end, or be cancelled with a status that is not terminal to the client. `blind` is a
history variable: the client could not see a workflow that FlowMesh had created, or did not
look.

### JobRecords

Durable `rec` (record.json) and `idx` (its index entry); volatile copies of the record. In
the process that accepted a job there is one copy (`own`). After a restart a handler that
misses the dictionary loads its own copy, and so does the recovery. `save` is three steps
under the job's lock: copy, write the record, write the index. Each write may fail with or
without effect. `Crash` may happen between any two steps; `Close` is the orderly shutdown.
`reloaded` is a history variable: a request has put a copy of the job of an earlier process into
`jobs`.

### DynamicDriver

`_run_dynamic_job` between any two awaits: start, submit a child, save, dispatch, join or time
out, judge, plan, finish, fail, terminal hooks. A child is the run task of an ordinary job;
`ghost` is the task of a child that timed out and is still at work. `cancel_job` of the parent
visits the children it finds; a client may also cancel a child. A save waits for the job's lock,
copies under it and writes, except that of the hooks, whose copy was made before. Planner and
runtime answer anything, or never.

### ThreadQueue

`put_nowait` is check, push, take the waiters, wake them; `get` is try, look, register, try
again, wait. The routes' loop, the runtime's loop and the thread that closes the server each run
one of these at a time; steps of different threads interleave freely.

### The transformations

The modules from `DynamicPlan` to `JobIndex`. Each takes a value from a bounded set, built up by
`Add...` actions or chosen by its initial state, and applies the code to it in one action per
function; the properties compare the result with a reference definition. `DynamicPlan`,
`CohortPack`, `BatchMerge` and `JobIndex` go on over several rounds, batches or restarts.

* `DynamicPlan`: an op is its id, its inputs and whether its output can be archived; a result is
  its shape over the rows. Validation, forwarding of earlier results, leaves and exports.
* `Parsers`: a node is its kind, connections and the references in its text. n8n nodes are
  compiled in any order their dependencies allow, as the Python set may give it.
* `RuntimeGraph`: an op is its kind, what it reads through messages, columns and images, the op
  its condition tests, and its rows. `Build` is `RuntimeGraphBuilder.build` with the inference
  of prompts, the inlining of row lambdas and the split of vision ops; `Prefixed` and `Merge`
  join the graphs of a batch.
* `GraphDedupe`: a task is its columns and the labels it shows; a label is a word and is renamed
  wherever the word stands, as `_normalize_label_tokens` does.
* `Optimizer`: costs in tenths of a second with the coefficients inside their clamps, worker
  options, query plans, epochs, bound and symmetry of the search, the lists of each worker.
* `ShardRewrite`: row splits, shard columns, merge tasks, the rewritten lists and the flat hint.
* `CohortPack`: history, width and latest round of chains; cohorts, parts, units, patience, the
  choice of the anchor and of fillers; a forced starved slice; commit and abort.
* `BatchMerge`: requests are cut into slices; slices in one batch are grouped, coalesced and
  rewritten, planned (or served from the plan cache), run, and dealt out to the buffers. Which input
  a list is taken for is decided per label over the whole graph, the last match first, and columns
  of different nodes may share a label. `Server` has the failures and cancellations of such batches.
* `JobIndex`: blobs, then the row, then perhaps the removal of old rows; a crash anywhere; the
  import of the blob index into an empty table.

## 3. Runs

| Run | Shows |
|---|---|
| `jm_mixed` | Types, `NoWorkflowLost`, `ReservationSound`, `UserRingCoversQueue`, `NoLostWakeup`, `BoundedBypass`, `ArrivalOrderKept`, and the refinement of `JobQueue`. |
| `jm_crowd` | Violation of `NoStarvation`, see section 6: three users share a quantum of one while jobs keep arriving. |
| `jm_fleet` | The same crowd, and the workers of a partition leave, for a time or for good: `TurnsServe`, `SatisfiableIsNeverDoomed`, `ImpossibleWorkLeaves`, `QueueDrains`. |
| `srv_shared` | Shared batches, a failing request, a cancelled one, and one with a workflow that may find no worker: `WorkersExclusive`, `WorkConserved` (`NothingStranded`, `OneVerdict`, `NodesConserved`), `AnswersSound`, `FailureIsolated`, and `ServerProgress`: every request is answered and every worker returns. |
| `srv_lost_outputs` | Violation of `AnswerFaithful`, see section 6. |
| `fm_run` | One execution, with everything FlowMesh may do: `NothingLeftRunning` (`OneWorkflow`, `NoOrphan`, `CancelReachesWorkflow`), `OutputsComplete` (`OutputsNeedAllTasks`, `WatchedArchived`), `RunEnds`. |
| `jr_life` | A job over three processes and two archive errors: `RecordsAgree` (`ConfirmedCancelStays`, `StorageSettled`, `RecoveryComplete`), `CompletedStays`, `JobSettles`. |
| `dyn` | A dynamic job with a hanging round, cancellations of parent and child and a failing save: `RoundsInOrder`, `CancelHolds` (`CancelReachesChildren`, `ConfirmedCancelStays`), `RunSettled` (`ChildrenSettled`, `ArchiveSettled`, `UsageEmitted`), `RunEnds`. |
| `queue` | Two requests and a close over both threads: `NoLostWakeup`, `HandledInOrder`, `WaitsEnd` (`EveryCallReturns`, `CloseEnds`). |
| `parts` | The properties of the nine modules of `MCParts`, listed below. |
| `dedupe_distinct` | Violation of `MergedIdentical`, see section 6. |
| `graph_aligned` | Violation of `AlignedPassesOn`, see section 6. |

A property is often the conjunction of named parts, each stated with its comment in the module
(and the module's type invariant is one of them). What `parts` checks:

| Module | Properties |
|---|---|
| `DynamicPlan` | `RoundsSound`. `RoundClosed`, `RoundExecutable`: a round reads only what it has, in some order. `NoRecompute`: no op runs in two rounds. `ResultsKept`: leaves and exports stay readable. `RowsAligned`: a forwarded result has one value per row. |
| `Parsers` | `ParsersSound`. `N8nOrderFree`, `YamlOrderFree`: the graph does not depend on the order of a set or of the document. `EdgesCarryReads`: what an op reads is an edge. `ParsersAgree`: one workflow, one graph. `LabelsFaithful`: a label stands for one reference. |
| `RuntimeGraph` | `GraphRuns`: `ReferencesResolve`, `AllTasksStart`, `OrderSound`, `MergedApart`. `GraphComplete`: `NothingDropped`, `RowsNotDropped`, `WholeRunExact`. |
| `GraphDedupe` | `DedupeSound`. `DedupedRuns`, `OutputsApart`, and `MergedSame` for labels that are no other words. |
| `Optimizer` | `ScheduleSound`. `ListsRunnable`: workers do not wait for each other in a circle. `PlacedWherePossible`. `SearchOptimal`: pruning loses nothing. |
| `ShardRewrite` | `ShardsFaithful`. `ShardTasksResolve`; `ShardRowsKept`: shards that are cut alike give the rows of the unsharded run. |
| `CohortPack` | `PackingSound`. `MemoryFaithful`: the records are those of the whole past, in whatever order rounds are committed. `UnitsPacked`: every queued round is in one unit, and cohorts are not cut needlessly. `DispatchSound`: there is always a batch, and it can be committed. `PureWhenFree`: no mixing that does not pay. |
| `BatchMerge` | `BatchesSound`. `RowsReturned`: a row gets its own result however slices were batched, in every column whose label cannot be mistaken. `PlanCovers`: a cached plan fits. `SharesAddUp`. |
| `JobIndex` | `IndexSound`. `LiveJobsListed`, `RowNotAhead` over crashes, retention and imports; `PagesAgree`. |

### Bounds

* `jm_mixed`: four workflows of three jobs, two users, two priorities, two partitions. One job
  spans both partitions and one user has jobs at both priorities, so every ring has two members,
  the quantum cuts a pool, a batch of two leaves candidates behind, and ids are reused, so
  arrivals never stop. `StarvationLimit` is 1: override and normal choice both occur.
* `jm_crowd`: one partition, batches of one, three users and a quantum of one, so that a round
  offers one user and the ring decides who: the smallest crowd in which someone can be passed
  over for two different others.
* `jm_fleet`: the same users and quantum, batches of two over two partitions, one of which the
  fleet may lose; two observations and one second of dwell, so that each of the two thresholds
  may be reached first.
* `srv_*`: two workers in groups of one, hence two batches at a time; batches of three, so that a
  failing one may hold one workflow of each request; `r1` has two workflows, so its verdicts come
  from two batches, or from one and from the want of a worker; `r2` may be cancelled and `r3`
  fails its executions. A third batch would only repeat the interplay of two. A request without
  workflows is covered by the proofs only.
* `fm_run`: two tasks, two members that share one of them, two retries and three gateway
  errors, so that all submits may be lost. The code has six delays; the loop body does not
  depend on the number.
* `jr_life`: one job (jobs share only locks that are held for one write), three processes (the
  third finds what a recovery of the second has left unfinished), two archive errors, so that
  both the result save and the final save, or a pass and its retry, can fail. Recovery has two
  background attempts there, after the pass at start, so it does not give up; the code has ten, then
  logs that jobs "will remain stuck until cleared manually".
* `dyn`: three rounds, so that a round has one before and one after it, and one failing save.
* `queue`: two requests, hence two callers, two answers, the intake loop and the closer.
* `graph_aligned`: four ops, the list lambda, the aligned one and the op behind it reading the one
  input.
* `parts`: `DynamicPlan` three ids, two ops per round, two rounds: a later round can reuse,
  shadow or forward anything of the first. `RuntimeGraph` four ops, the last of them with one
  input: a lambda or format between two tasks, read by a third. `GraphDedupe` four tasks, two
  sources and two readers. `JobIndex` two jobs. `Optimizer` four tasks, three workers: two
  epochs with a choice in each. `ShardRewrite` three tasks on up to three workers:
  shards that read shards, slices and merged results. `Parsers` three nodes or ops and prompts of
  four references. `CohortPack` four slices of three chains, two rounds, batches of two: a cohort
  that must be cut. `BatchMerge` three rows in slices of one or two, or two requests of two rows;
  two columns whose labels are those of inputs, the same, or different.

`CHECK_DEADLOCK FALSE` is set where the system may stop for good: each request of the server
instance comes once, an execution ends, the last process of `JobRecords` may idle, and a
transformation is done once. The job manager never stops: its instances check
deadlock. So do `dyn` and `queue`, where the only step of a finished system is `Over` or `Rest`.

### Fairness

* `JobManager`: the event loop runs the scheduler task (WF). A partition that the fleet can run
  again and again finds idle workers again and again, hence SF on the `Reserve` of each partition
  while it is in `up`; of one that stays down nothing is assumed. A look at the fleet and a
  successful claim come again and again but not forever: SF on `Observe` and on `Commit`. Batches
  end (WF on `Finalize`).
* `Server`: WF for the scheduler and each batch task; SF on a full `Snapshot`: profiles can be
  read infinitely often; SF on `FailUnplaceable`: this is what `ImpossibleWorkLeaves` of the job
  manager provides for partitions that stay down. Cancellations and new requests are not assumed.
* `FlowmeshRun`: WF for `process_request`, and the poll timeout is reached. Nothing is assumed
  of FlowMesh.
* `JobRecords`: the process is restarted, tasks and archive calls go on, `server.execute`
  returns (`ServerProgress`), and a save of the run, the recovery or the shutdown that waits
  gets the lock (SF); requests are not assumed to come, to go on or to get it. No archive success
  is assumed; failures are bounded.
* `DynamicDriver`: the event loop runs every task, the archive answers, a save that waits gets
  the lock (SF), `job_timeout` passes. The runtime may never answer: `RunEnds` does not need it.
* `ThreadQueue`: WF for each coroutine; the runtime answers what it took
  (`ServerProgress`). Calls and close are not assumed.

## 4. Proofs

Every theorem is about the specification the runs check, `Spec` without its fairness, and holds
for all values of the constants that satisfy the assumptions of its module, which TLC evaluates
on each run. The bounds named in section 3 (lives, failures, retries) are constants too: the
theorems hold for any of them.

| Module | Theorem | States |
|---|---|---|
| `JobManagerProofs` | `TypeCorrect` | `Spec => []TypeOK` |
| | `NothingLost` | `Spec => []NoWorkflowLost` |
| | `ReservationsSound` | `Spec => []ReservationSound` |
| | `UsersHaveTurns` | `Spec => []UserRingCoversQueue` |
| | `NoSleepOnWork` | `Spec => []NoLostWakeup` |
| | `OrderKept` | `Spec => ArrivalOrderKept` |
| | `SatisfiableWorkStays` | `Spec => SatisfiableIsNeverDoomed` |
| | `BypassIsBounded` | `Spec => []BoundedBypass` |
| | `Refinement` | `Spec => ImplementsJobQueue` |
| `ServerProofs` | `WorkersStayExclusive` | `Spec => []WorkersExclusive` |
| | `WorkIsConserved` | `Spec => []WorkConserved` |
| | `FailureStaysIsolated` | `Spec => FailureIsolated` |
| | `AnswersAreSound` | `Spec => []AnswersSound` |
| `FlowmeshRunProofs` | `LeavesNothingRunning` | `Spec => []NothingLeftRunning` |
| | `OutputsAreComplete` | `Spec => []OutputsComplete` |
| `JobRecordsProofs` | `RecordsStayInAgreement` | `Spec => []RecordsAgree` |
| | `CompletedIsFinal` | `Spec => CompletedStays` |
| `DynamicDriverProofs` | `RoundsStayInOrder` | `Spec => []RoundsInOrder` |
| | `ConfirmedCancelHolds` | `Spec => []CancelHolds` |
| | `RunsEndSettled` | `Spec => []RunSettled` |
| `ThreadQueueProofs` | `WakeupsAreNotLost` | `Spec => []NoLostWakeup` |
| | `HandledInPutOrder` | `Spec => []HandledInOrder` |
| `PartsProofs` | `DynamicRoundsAreSound` | `PlanSpec => []RoundsSound` |
| | `JobTableIsSound` | `JiSpec => []IndexSound` |
| | `DeduplicationIsSound` | `DeSpec => []DedupeSound` |
| | `GraphsRun` | `RGSpec => []GraphRuns` |
| | `GraphsAreComplete` | `RGSpec => []GraphComplete` |
| | `CohortsPackSoundly` | `CoSpec => []PackingSound` |

In each module one inductive invariant, `IInv` (in `PartsProofs` one per modelled module), carries
the theorems, and each action has its lemma. What the invariants add to the properties, and why:

**JobManager.** Finitely many workflows; graph order and partition order are deques of all
workflows and partitions.

* `DequesWellFormed`: the three kinds of deque are linear orders; without it nothing is known
  of what filtering or appending keeps. The lemmas about deques come first in `JobManagerProofs`.
* `OneReservation`: a reservation exists exactly while the loop claims workers, so no second
  one is made and `Held` is its batch.
* `PartitionRingIsLive`: the ring's head has queued work, so the anchor has a pool.
* `DoomedIsQueued`: what `remove_workflows` drops was queued and is not dispatched or held.
* `BypassSound`, for `BoundedBypass`, is an account: every miss of a workflow beyond the limit
  was paid with `BatchSize` workflows ahead of it, and a reservation that passes over starved work
  holds a full batch of older starved work (`StarvedPayWithBatches`). Arrivals queue up behind, so
  the line ahead never grows, and it is shorter than all there is.

The refinement maps `queued` to the elements of `queue`, `held` to the reserved batch and
`running` to `dispatched`; `StepRefines` shows each action to be a step of `JobQueue` or a stutter.
Since `Server` is built over `JobQueue`, its theorems hold over this manager.

**Server.** A request has finitely many workflows; any number of requests, workers and tasks.

* `TasksSound`: what a batch task carries from before an await is still right after it (its run,
  the requests to re-run, the cancellations it has seen, whom its outcome blames).
* `Placed`: a workflow is in the queue or with one task. `PendingIsOpen` ties the pending sets of
  requests to these places and to the verdicts.
* `NodesSound`: the counters, with the inequality that what has yet to start is still counted as
  pending; the underflow checks of `_run_batch_inner` follow from it.

* `AnswersGood`: an answer is there exactly when nothing is pending. Its errors are always complete;
  outputs may be missing, and answers repeated, only for a request with work that may find no
  worker (`srv_lost_outputs` shows that they are).

**FlowmeshRun.** `IdentitySound`: the record that `cancel_request` reads lags behind the workflow
id only between the submit and its recording. `ClientSeesAll`: as long as no look-up was misled
the client knows every workflow it created; a submit that fails otherwise, without a look-up,
counts as misleading it. `CancelSeen`, `LocalIsRemote` and `PollSound` carry
what a cancellation found and what the poll loop has read to the end of the run.

**JobRecords.** Three periods: before the job (`Unborn`); in the process that accepted it
(`OwnLife`), where all handlers share the one copy, whose status ends once, and the lock makes
record.json follow it; and afterwards (`Over`), where handlers and recovery work on copies of
record.json, which can carry a completed or confirmed-cancelled status on but not away.
`NotReloaded` adds what the recovery does as long as it is the only writer. `SavesSound` is the
save lock.

**DynamicDriver.** `RoundsSound` relates the label of the driver to the rounds that have completed.
`CancelSound`: the cancel handler works on a parent that has ended, so no child is filed behind its
back, and every child it has passed has ended. For the archive, `SavesSound` is an argument about
duty: whoever changes a status has still to save it, and a save that copied an older status leaves
the duty with somebody who waits for the lock. `SnapsSound`: the copy of the terminal hooks, older
than the lock, is of an ended parent and so cannot be stale.

**ThreadQueue.** No request is the close signal. `WakesSound`: the future of a getter that has
registered is registered, taken by a putter or scheduled, and from the second look on an item in
its queue has a wake-up under way. `IntakeSound`: the intake queue is the requests put and not yet
handled, in order, with at most one close signal among them.

**Data (`DataFacts`).** The transformations are recursive over what they transform.
The provers cannot instantiate the library's induction theorems, whose hypothesis is an operator,
but the well-foundedness of `<` on the naturals is first-order: every non-empty set of naturals has
a least element (`LeastNatural`), so a set that has 0 and each successor has every number up to a
bound (`UpTo`). Induction is then over the set of the numbers at which a claim holds. From it:

* `Iteration`: a recursive function that is given by its first value and a step exists, and so
  obeys its definition; TLA+ alone says only that it is chosen among the functions that do.
* `LayersReachAll`: over a finite acyclic relation, the layers in which each element follows what
  it reads reach all elements. `RoundExecutable` and `DedupedRuns` are this for their graphs.
* `RankIsPlace`, `RunIsOrdered`: in a finite strict order the number of elements before an element
  is its place, and a run of ranks has the ranks of the whole less an offset.

**DynamicPlan.** `AdmittedSound`: what has been admitted and not yet run has new ids, each once,
and refers to results at hand or to ops before them; `RoundBuilt`: the graph of the round is
made from it. Such a graph is acyclic because a reference leads to an earlier op
(`ReferenceLeads`), and the render, observation and proposer nodes come after all ops
(`RoundIsAcyclic`).

**JobIndex.** `ListedWhileDown`: a saved job is listed also while no process serves, an imported
one unless the table is empty, when the next start imports again; `RecordsMoveOn`: records never
fall behind the old index, and a job that is being saved has one. Pruning removes rows of ended
jobs; by `RowNotAhead` their records have ended. For `PagesAgree`: the pages of a query, one after
the other, are the jobs it selects by rank, so they join to the sorted list (`PageContinues`,
`FlatIsWhole`).

**GraphDedupe.** `MapSound`: a task stands for itself, or for it stands an earlier task that
stands for itself and has the same signature; neither is an output. By `AccSound` the loop
establishes it task by task, and the signature does not change when later tasks are mapped
(`SignatureKept`). `OrderInv`: the order lists the kept tasks after those they read.
`MergedMeansSame`, by induction on the tasks: a task shows what the task it is merged with
shows, since tasks of one signature read the same columns of the same values, up to labels
(`SameSignatureShowsSame`). The premise that no label is another word of the task is needed
exactly there (`TokenTellsLabels`), and `dedupe_distinct` shows what goes wrong without it.

**RuntimeGraph.** `OpsSound`: an op reads earlier ops and has what its kind needs. The graph is a
function of the ops (`BuildKept`), so the invariant, `GraphInv`, adds only that what is built is
nothing or `Build`; the work is in what `Build` gives.

* Order: a task waits for tasks of earlier ops or for an earlier stage of its own op
  (`TaskWaits`). Four times the place of the op plus the stage grows along every wait, so the
  waits have no circle (`LighterIsAcyclic`), and by `LayersGrow` every task starts and stands in
  the order after what it reads.
* Merging: the names of two prefixed graphs are disjoint and lead back to the original
  (`RenamedBack`).
* Conditions: the task that one tests is waited for but is no dependency, so it is no part of that
  order. The ops are numbered after all they name, conditions included, hence the same weights show
  that the waits in FlowMesh have no circle either. That such a numbering exists is a premise: the
  build accepts a condition on an op that waits for the tested one (section 6).
* Completeness: a row lambda that a read passes on its way is inlined, waited for, read or
  tested by a task (`SeenIsUsed`, `GatedInlines`), so nothing is dropped. Row counts are carried
  along what is inlined (`RowsPassOn`, `ThroughStays`). The nodes that need the whole run are
  computed in one pass over the nodes in order; that this pass is reachability is `WholeRunIs`
  and `WholeRunReached`.
* The recursions over ops obey their definitions (`RowCountUnfolds`, `TracesUnfold`), again by
  `Iteration`.

**CohortPack.** `CoInv`: the pool is finite with distinct ids, the records hold of the log, and a
reserved batch is one the job manager can commit; the queue does not change while one is reserved.

* `MemoryHolds` says of any memory and log what `MemoryFaithful` says of the policy's.
  Remembering one chain and round keeps it (`RememberHolds`), so a batch does in whatever order
  its entries come (`OnCommitHolds`).
* `CutSound` goes along the cut chain by chain: what each part has so far, that a part of
  several chains fits, and that a closed part was full. At the end two parts closed early, or
  the last one with the one before it, hold more than a batch together (`TwoShares`, `CutsFit`).
* A batch exists: anchors and fillers are least elements of finite strict orders (`LexIsOrder`,
  `LowerIsOrder` for the times per slice as fractions), and a finite set has one
  (`LeadingExists`). The slices of a batch are the first of their order (`FirstSlicesAre`).

Only model-checked:

* Liveness (`TurnsServe`, `QueueDrains`, `ImpossibleWorkLeaves`, `ServerProgress`, both `RunEnds`,
  `JobSettles`, `WaitsEnd`): it needs fairness and `ENABLED`.
* `ScheduleSound` and `ShardsFaithful`: the search of `Optimizer` and the rewrite of
  `ShardRewrite` are RECURSIVE operators, which the provers cannot use; as functions their
  arguments would range over whole schedules.
* `ParsersSound`, `BatchesSound`: each compares a transformation with a reference definition;
  `parts` decides them on all instances within its bounds.

## 5. Not modelled

* The content of records and results, artifacts, usage figures and telemetry; the text of
  prompts, queries, templates and errors.
* The release of execution contexts, the optimizer subprocess and its timeout, and the order of
  steps in `LumilakeServer.close` beyond the loop and its queue.
* An exception inside a round of the scheduler loop: none of the calls that are modelled raises
  one in a state that the models reach.
* The figures of the cost models and of the default clustering (floating-point arithmetic without
  state), the PLAS estimates, the remote optimizer call.
* In `Optimizer`, the memo of the search, which only saves time; in `Parsers`, expression syntax.
* In `JobRecords`, a write that the archive applies after its call has failed.
* Output-location reservations: no route calls them.
* Data profiles and offload, operator classes, the lambda sandbox, read-only routes, hooks, SDK,
  CLI, deployment tools: I/O and data processing without shared state.

## 6. Where code and text disagree

Four of these have a run whose counterexample shows it:

* `srv_lost_outputs`: `_fail_unplaceable_batch` answers a request without `finalize_state`, so
  outputs of its workflows that did run are missing.
* `dedupe_distinct`: `_normalize_label_tokens` renames a label wherever its word stands in the
  spec, also in the path of the column it names. `{"label": "open", "path": "items.table.open"}`
  and the same with `close` get one signature; one task is dropped and its readers get the column
  of the other. `MergedSame` is what holds when no label is another word of the spec.

* `jm_crowd`: `commit_reservation` prunes a drained user from the ring's head and then rotates the
  ring all the same (`priority_queue.py:888`), so the next user is moved to the back. With a quantum
  smaller than the number of users and a steady stream of jobs someone is never served: two users
  whose jobs come back take turns at the head and the third is moved behind them each time. The
  "starvation avoidance" of the class's docstring does not help, as misses are counted of candidates
  only. `TurnsServe` is what does hold: work whose partition is served leaves the queue unless such
  rotations pass its owner up again and again.
* `graph_aligned`: the docstring of `list_lambda_cardinality_nodes` says aligned lambdas are
  "neither seeds nor barriers"; a task behind one is not found to depend on the whole run, so they
  are barriers. `WholeRunExact` is what does hold.

Seen on the models, without a run of their own.

Job manager, server, FlowMesh, records:

* `_submit_workflow` looks for the workflow only after 502/503/504 (`flowmesh.py:429`). Any other
  error is raised at once, also a timeout of the client, a dropped connection or status 500, behind
  which FlowMesh may have created the workflow: it then runs on and nobody cancels it (one of the
  `blind` exceptions of `NoOrphan`).
* The name `task_ids` is reused by the loop over members (`flowmesh.py:1368`), and only the last
  member's responses are archived. `WatchedArchived` is what does hold.
* The background recovery skips a job that a request has loaded in the meantime
  (`routes/jobs.py:1202`), and if the request comes between its check and its load, the copy of the
  request and that of the recovery are saved one after the other in either order, also by
  `get_job_progress` much later. When such a process dies between the two writes of a save, the
  index entry can say that the job has ended while record.json says something else, even that
  it is active; the next recovery finds its candidates in the index and does not look. Found while
  proving `RecoveryComplete`, which had excepted only a job in memory at the end of the pass: it
  needs three processes. `RecoveryComplete` and `JobSettles` except what a request has `reloaded`.
* `get_job_progress` may overwrite the usage of an ended job, though `_persist_terminal_usage`
  says "never a partial sum".
* `AsyncEventLoop` has no `logger`, so `log_on_exception_async` loses what `handle_request`
  raises.
* The parent of the optimizer subprocess reads the result only after the child has exited: a
  schedule larger than the pipe's buffer keeps the child until the timeout.
* `SqliteJobStorage`: the import "once" runs again whenever the table is empty at start, and a
  failed read followed by a save means that the old index is never imported.

Graphs, parsers, batches:

* A task with static lists of its own that reads a sharded task is cut at its own rows:
  `_infer_shard_input_size` returns `local_total` (`flowmesh.py:2414`) without a look at the
  shards it reads. `test_shard_rewrite_fails_fast_on_misaligned_static_cardinalities` has
  two dependencies of different sizes refused; a list of the task's own is not compared with
  what it reads. `ShardRowsKept` excepts such tasks
  (`CutAlike`), and unsharded reads whose rows are known from their static lists only.
* `BatchMerge`: `_rewrite_varying_input_literals` (`server.py:1760-1811`) replaces a list without
  `input_ref` by its label alone. Every list labelled like a varying input is overwritten with it.
  For other labels one dictionary serves the whole graph: a list that equals the first slice of a
  varying input makes its label stand for that input, the last such list wins, and every list under
  the label is overwritten, in other nodes too. Labels are unique only within a node (the parameters
  of two SQL nodes that filter columns of one name from different inputs have one label), so
  coalesced slices may silently get the rows of another input, or a constant list be replaced.
  `RowsReturned` holds exactly of the columns for which this cannot happen (`Unmistakable`). A list
  that equals two varying inputs makes coalescing raise (`NeverAmbiguous`). The check for a varying
  input without a target (1824-1837) never fires: `Graph.compile` wants an `InputOp` for each.
* `RuntimeGraph`: the error text says "every multi-row column must carry the same number of rows"
  (`runtime_graph.py:3309`) and a test that two of different lengths "cannot align", but
  `_infer_structural_messages` counts only inputs and results of local models that are read whole:
  a field of an input of three rows next to an input of two compiles, and so do literal data and
  the results of external models. `RowsNotDropped` claims no more than what is counted; it had been
  stated of fields too, which four ops are too few to refute, and fell when its proof was tried.
* `RuntimeGraph`: the task that a condition tests is added to `dependsOn`
  (`runtime_ops.py:105-111`) but is no dependency: `topological_order` may list it after the task
  that waits for it, so `OrderSound` does not speak of it. The build does not refuse conditions
  that wait for each other, or for an op that waits for the op with the condition; the model leaves
  them out. When the tested op is no task (a format, an input), `to_flowmesh_nodes` drops it from
  `dependsOn` and the condition stays. The deduplication compares conditions as they stand and the
  shard rewrite has nothing for them; `GraphDedupe` and `ShardRewrite` do not model them.
* `RuntimeGraph`: embedding and image ops whose content is a format (other than a bare reference)
  or literal data, and row columns that name one, compile to a reference to a node that is no
  task. `Graph.topological_sort` drops ops without an `inputs` edge. An image op that reads an
  input through the implicit `{ref0}` makes the build raise.
* YAML: a system message that names an op declared later passes its id as text.
* n8n: a prompt that names a SQL or S3 node it does not wait for compiles or raises depending on
  the order of a set (`N8nSettled` excepts it); a postgres node waits only for the first of
  several main inputs; two filters on one column with operators of one class share a label.
* `CohortPack` closes a part as soon as it has its share, also when the next chain would fit it:
  chains of 8, 2, 9 and 4 slices go out as four parts of batches of ten, though three would do
  and are aimed at. `UnitsPacked` had been stated of every two neighbouring parts; it fell when
  its proof was tried, on more chains than the run has. It is now stated of three neighbours,
  and of the last two.
* `CohortPack` says "nothing starves"; units that are overdue and incomplete go before complete
  ones, and a steady flow of them is ended only by the job manager's limit.

Of the first models also: two unplaceable workflows of one request
that are removed together produce two responses; the dwell time is sampled once per scheduler
iteration, so it is not "continuously unsatisfiable" that is measured; the partition pick evicts
partitions whose queue is not empty but which have no capacity in this round, until the ring is
empty and reseeded; a partition whose items keep starving anchors every round before the ring is
consulted; a lost reply to the last submit, or a list that shows a workflow late, leaves a
FlowMesh workflow that nobody cancels (the `blind` exceptions of `OneWorkflow` and `NoOrphan`).

## 7. Plan

Done: all modules of section 2 and the proofs of section 4. Every safety property of `JobManager`,
`Server`, `FlowmeshRun`, `JobRecords`, `DynamicDriver`, `ThreadQueue`,
`DynamicPlan`, `JobIndex`, `GraphDedupe`, `RuntimeGraph` and `CohortPack` that a run expects to hold
is a theorem. Next:

1. The release of execution contexts and the full order of `LumilakeServer.close`.
2. The composition of `ThreadQueue` with `Server`, each assumption of one a property of the other.
