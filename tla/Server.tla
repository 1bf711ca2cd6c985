------------------------------- MODULE Server -------------------------------
(***************************************************************************)
(* LumilakeServer (src/lumilake_server/runtime/server.py): request         *)
(* handling, the scheduler's claim of workers, the batch tasks with their  *)
(* isolated re-runs, cancellation, and the delivery of results.  The job   *)
(* manager is the two-phase queue of JobQueue, which JobManager implements.*)
(*                                                                         *)
(* A step of a batch task is the code between two of its suspensions.      *)
(* Data abstraction: each workflow has one runtime node; an execution's    *)
(* outcome is chosen by the environment; a response is the set of          *)
(* workflows whose outputs it carries and the set it reports errors for.   *)
(* A definition named D_Fault is D with a fault put in (see JobManager).   *)
(***************************************************************************)
EXTENDS JobQueue, Sequences

CONSTANTS
  Requests,
  RequestOf,     \* workflow -> the request it belongs to
  Workers,
  GroupSize,     \* workers one dispatch claims
  BatchIds,      \* names for the batch tasks alive at one time
  Unplaceable,   \* partitions whose workers may be gone for longer than the dwell
  Cancellable,   \* requests a client may cancel
  Bad            \* requests whose workflows make their execution fail

WorkflowsOf(r) == {w \in Workflows : RequestOf[w] = r}
RequestsOf(W) == {RequestOf[w] : w \in W}

ASSUME ServerAssumption ==
  /\ RequestOf \in [Workflows -> Requests]
  /\ \A r \in Requests : IsFiniteSet(WorkflowsOf(r))   \* a request brings a list of graphs
  /\ GroupSize \in Nat \ {0}
  /\ BatchSize \in Nat \ {0}
  /\ Cancellable \subseteq Requests
  /\ Bad \subseteq Requests

VARIABLES
  known,       \* requests with a RequestState
  pending,     \* request -> state.pending_workflows
  merged,      \* workflows whose outputs are in state.output_buffers
  failed,      \* workflows with an entry in state.error_info
  rawPending,  \* request -> state.pending_runtime_nodes_raw
  rawActive,   \* request -> state.processing_runtime_nodes_raw
  rawDone,     \* request -> state.processed_runtime_nodes_raw
  answers,     \* request -> the responses put, oldest first
  cancelled,   \* requests in the runtime manager's cancelled set
  busy,        \* _busy_workers
  free,        \* the scheduler's snapshot of the idle workers
  claimed,     \* workers the scheduler claimed for the held batch
  batch        \* batch id -> {} or {the batch task}

requestVars == <<known, pending, merged, failed, answers>>
nodeVars == <<rawPending, rawActive, rawDone>>
workerVars == <<busy, free, claimed>>
vars == <<jobVars, requestVars, nodeVars, workerVars, cancelled, batch>>

-----------------------------------------------------------------------------
(* A batch task: workflows (its BatchSelection), workers, at (its place in  *)
(* the code), run (the workflows of the current _run_batch), isolate        *)
(* (isolate_failures), active (those not cancelled at its start), outcome,  *)
(* seen (the last result of _collect_cancelled_requests), dropped (its      *)
(* execution is cancelled) and retry (requests still to be re-run alone).   *)

Live == {b \in BatchIds : batch[b] # {}}

\* The batch task b moves on: its record becomes t.
Become(b, t) == batch' = [batch EXCEPT ![b] = {t}]

\* What one task counts for request r.
NodesOf(r, W) == Cardinality({w \in W : RequestOf[w] = r})

\* Moves nodes of the workflows W from one counter to another.
Less(f, W) == [r \in Requests |-> f[r] - NodesOf(r, W)]
More(f, W) == [r \in Requests |-> f[r] + NodesOf(r, W)]

\* One response to each request of R: the outputs in the buffers, after
\* finalize_state, and the errors.
Response(r, ok, bad) == [outputs |-> ok \cap WorkflowsOf(r), errors |-> bad \cap WorkflowsOf(r)]
Answered == {r \in Requests : answers[r] # <<>>}

-----------------------------------------------------------------------------
Init ==
  /\ JobInit
  /\ known = {}
  /\ pending = [r \in Requests |-> {}]
  /\ merged = {}
  /\ failed = {}
  /\ rawPending = [r \in Requests |-> 0]
  /\ rawActive = [r \in Requests |-> 0]
  /\ rawDone = [r \in Requests |-> 0]
  /\ answers = [r \in Requests |-> <<>>]
  /\ cancelled = {}
  /\ busy = {}
  /\ free = {}
  /\ claimed = {}
  /\ batch = [b \in BatchIds |-> {}]

\* handle_request: a request without graphs is answered at once; otherwise its
\* state is created and its workflows enqueued.
HandleRequest(r) ==
  LET W == WorkflowsOf(r)
  IN /\ r \notin known
     /\ known' = known \cup {r}
     /\ IF W = {}
        THEN /\ answers' = [answers EXCEPT ![r] = Append(@, Response(r, {}, {}))]
             /\ UNCHANGED <<jobVars, pending, rawPending>>
        ELSE /\ Submit(W)
             /\ pending' = [pending EXCEPT ![r] = W]
             /\ rawPending' = [rawPending EXCEPT ![r] = Cardinality(W)]
             /\ UNCHANGED answers
     /\ UNCHANGED <<merged, failed, rawActive, rawDone, workerVars, cancelled, batch>>

\* cancel_request: marks the request, then cancels each of its executions whose
\* members are all cancelled.
CancelRequest(r) ==
  /\ r \in Cancellable \ cancelled
  /\ cancelled' = cancelled \cup {r}
  /\ batch' = [b \in BatchIds |->
                 {[t EXCEPT !.dropped = @ \/ /\ t.at \in {"begin", "running"}
                                             /\ r \in RequestsOf(t.run)
                                             /\ RequestsOf(t.run) \subseteq cancelled']
                    : t \in batch[b]}]
  /\ UNCHANGED <<jobVars, requestVars, nodeVars, workerVars>>

-----------------------------------------------------------------------------
(* The scheduler loop.  A round starts from a snapshot of the idle workers,  *)
(* which is stale by the time the claim uses it.                            *)

\* _snapshot_free_capacity: the workers that are not busy, without those whose
\* profile cannot be read.  An empty snapshot ends the round.
Snapshot(F) ==
  /\ queued # {} /\ free = {}
  /\ F # {} /\ F \subseteq Workers \ busy
  /\ free' = F
  /\ UNCHANGED <<jobVars, requestVars, nodeVars, busy, claimed, cancelled, batch>>

\* reserve_batch: which partitions are eligible the snapshot decides.
ReserveBatch(B) ==
  /\ free # {}
  /\ Hold(B)
  /\ UNCHANGED <<requestVars, nodeVars, workerVars, cancelled, batch>>

\* The groups _try_claim_workers may select: enough workers of the snapshot, none
\* of which has become busy since.
Claimable == {G \in SUBSET (free \ busy) : Cardinality(G) = GroupSize}

\* reserve_batch finds no eligible partition: the snapshot is too small, or what is
\* queued needs workers that are gone.
ReserveNothing ==
  /\ free # {} /\ held = {}
  /\ Claimable = {} \/ \A w \in queued : PartitionOf[w] \in Unplaceable
  /\ free' = {}
  /\ UNCHANGED <<jobVars, requestVars, nodeVars, busy, claimed, cancelled, batch>>

\* _try_claim_workers obtains a group.
ClaimWorkers(G) ==
  /\ held # {} /\ claimed = {}
  /\ G \in Claimable
  /\ busy' = busy \cup G
  /\ claimed' = G
  /\ UNCHANGED <<jobVars, requestVars, nodeVars, free, cancelled, batch>>

\* _try_claim_workers obtains none, as too few workers are idle, or as the batch
\* needs a task type that only workers outside the snapshot advertise:
\* abort_reservation(CAPACITY).
ClaimNothing ==
  /\ claimed = {}
  /\ Claimable = {} \/ free # Workers
  /\ Release
  /\ free' = {}
  /\ UNCHANGED <<requestVars, nodeVars, busy, claimed, cancelled, batch>>

\* commit_reservation, then create_task(_run_batch(workers, batch)).
StartBatch(b) ==
  /\ claimed # {}
  /\ batch[b] = {}
  /\ Dispatch
  /\ claimed' = {}
  /\ free' = {}
  /\ Become(b, [workflows |-> held, workers |-> claimed, at |-> "begin", run |-> held,
                isolate |-> TRUE, active |-> {}, outcome |-> "none", seen |-> {},
                dropped |-> FALSE, retry |-> {}])
  /\ UNCHANGED <<requestVars, nodeVars, busy, cancelled>>

\* _fail_unplaceable_batch for the partitions P that permanently_unsatisfiable
\* found: an error for each workflow, then one response per workflow whose
\* request has nothing pending, with state.outputs as they stand (finalize_state
\* is not called), then remove_workflows.
FailUnplaceable_NoAnswer(P) ==
  LET D == {w \in queued : PartitionOf[w] \in P}
  IN /\ free # {}
     /\ Remove(D)
     /\ failed' = failed \cup D
     /\ pending' = [r \in Requests |-> pending[r] \ D]
     /\ free' = {}
     /\ UNCHANGED <<known, merged, answers, nodeVars, busy, claimed, cancelled, batch>>
FailUnplaceable(P) ==
  LET D == {w \in queued : PartitionOf[w] \in P}
      left == [r \in Requests |-> pending[r] \ D]
  IN /\ free # {}
     /\ Remove(D)
     /\ failed' = failed \cup D
     /\ pending' = left
     /\ answers' = [r \in Requests |->
                      IF left[r] = {}
                      THEN answers[r] \o [i \in 1 .. NodesOf(r, D) |->
                                            Response(r, {}, failed')]
                      ELSE answers[r]]
     /\ free' = {}
     /\ UNCHANGED <<known, merged, nodeVars, busy, claimed, cancelled, batch>>

-----------------------------------------------------------------------------
(* A batch task.                                                            *)

\* _run_batch_inner up to _process_batch: drop the workflows of cancelled
\* requests and move the nodes of the others from pending to processing.
BeginRun(b) ==
  \E t \in batch[b] :
    LET act == {w \in t.run : RequestOf[w] \notin cancelled}
    IN /\ t.at = "begin"
       /\ \A r \in Requests : rawPending[r] >= NodesOf(r, act)
       /\ rawPending' = Less(rawPending, act)
       /\ rawActive' = More(rawActive, act)
       /\ Become(b, [t EXCEPT !.active = act, !.seen = cancelled,
                              !.at = IF act = {} THEN "record" ELSE "running",
                              !.outcome = IF act = {} THEN "ok" ELSE "none",
                              !.dropped = @ \/ act = {}])
       /\ UNCHANGED <<jobVars, requestVars, rawDone, workerVars, cancelled>>

\* The batch is to be re-run request by request: its execution failed, and it
\* has several requests.
Splits_Never(t, outcome) == FALSE
Splits(t, outcome) ==
  outcome = "failed" /\ t.isolate /\ Cardinality(RequestsOf(t.active)) > 1

\* _process_batch ends: with outputs; with a failure of the execution
\* (RuntimeExecutionError), which a bad member causes; with an error before the
\* execution (worker profile, optimizer); or cancelled, if every active member is.
EndRun(b, outcome) ==
  \E t \in batch[b] :
    /\ t.at = "running"
    /\ \/ outcome = "ok" /\ RequestsOf(t.active) \cap Bad = {}
       \/ outcome = "failed" /\ RequestsOf(t.active) \cap Bad # {}
       \/ outcome = "error"
       \/ outcome = "cancelled" /\ (t.dropped \/ RequestsOf(t.active) \subseteq cancelled)
    /\ Become(b, [t EXCEPT !.outcome = outcome,
                           !.dropped = @ \/ outcome = "cancelled",
                           !.seen = cancelled,
                           !.at = IF Splits(t, outcome) THEN "split" ELSE "record"])
    /\ UNCHANGED <<jobVars, requestVars, nodeVars, workerVars, cancelled>>

\* _split_batch_by_request: the requests to re-run, those that were cancelled
\* before the batch started included.
RetryRequests_ActiveOnly(t) == RequestsOf(t.active)
RetryRequests(t) == RequestsOf(t.workflows)

\* The workflows whose nodes the finally block hands back to pending.
HandedBack(t) == t.active

\* A batch that failed across several requests records nothing: the nodes go
\* back to pending and each request is re-run alone on the same workers.
SplitBatch(b) ==
  \E t \in batch[b] :
    /\ t.at = "split"
    /\ rawActive' = Less(rawActive, HandedBack(t))
    /\ rawPending' = More(rawPending, HandedBack(t))
    /\ Become(b, [t EXCEPT !.at = "next", !.retry = RetryRequests(t)])
    /\ UNCHANGED <<jobVars, requestVars, rawDone, workerVars, cancelled>>

\* The workflows of the run that _handle_batch_results merges: those with outputs
\* whose request was not seen cancelled.
Merges(t) ==
  IF t.outcome = "ok" THEN {w \in t.active : RequestOf[w] \notin t.seen} ELSE {}

\* The workflows it appends an error for: those of cancelled requests, and those
\* without outputs.
Fails(t) == {w \in t.run : RequestOf[w] \in t.seen} \cup (t.run \ Merges(t))

\* affected_requests: the requests it looks at for an answer.
Affected_ActiveOnly(t) == RequestsOf(t.active)
Affected(t) == RequestsOf(t.run)

\* _handle_batch_results: record every workflow of the run, then answer each
\* affected request that has nothing pending.
RecordResults(b) ==
  \E t \in batch[b] :
    LET left == [r \in Requests |-> pending[r] \ t.run]
    IN /\ t.at = "record"
       /\ merged' = merged \cup Merges(t)
       /\ failed' = failed \cup Fails(t)
       /\ pending' = left
       /\ answers' = [r \in Requests |->
                        IF r \in Affected(t) /\ left[r] = {}
                        THEN Append(answers[r], Response(r, merged', failed'))
                        ELSE answers[r]]
       /\ Become(b, [t EXCEPT !.at = "end"])
       /\ UNCHANGED <<jobVars, known, nodeVars, workerVars, cancelled>>

\* The finally block of _run_batch_inner: the nodes are processed, the workflows
\* finalized, and the workers released unless re-runs are still to come.
EndBatch_ReleasesEarly(b) ==
  \E t \in batch[b] :
    /\ t.at = "end"
    /\ rawActive' = Less(rawActive, t.active)
    /\ rawDone' = More(rawDone, t.active)
    /\ Retire(t.run)
    /\ busy' = busy \ t.workers
    /\ batch' = [batch EXCEPT ![b] = IF t.isolate THEN {} ELSE {[t EXCEPT !.at = "next"]}]
    /\ UNCHANGED <<requestVars, rawPending, free, claimed, cancelled>>
EndBatch(b) ==
  \E t \in batch[b] :
    /\ t.at = "end"
    /\ rawActive' = Less(rawActive, t.active)
    /\ rawDone' = More(rawDone, t.active)
    /\ Retire(t.run)
    /\ IF t.isolate
       THEN busy' = busy \ t.workers /\ batch' = [batch EXCEPT ![b] = {}]
       ELSE Become(b, [t EXCEPT !.at = "next"]) /\ UNCHANGED busy
    /\ UNCHANGED <<requestVars, rawPending, free, claimed, cancelled>>

\* The loop over retry_batches in _run_batch.
RunAlone(b, r) ==
  \E t \in batch[b] :
    /\ t.at = "next"
    /\ r \in t.retry
    /\ Become(b, [t EXCEPT !.at = "begin", !.retry = @ \ {r}, !.isolate = FALSE,
                           !.run = {w \in t.workflows : RequestOf[w] = r},
                           !.active = {}, !.outcome = "none", !.dropped = FALSE])
    /\ UNCHANGED <<jobVars, requestVars, nodeVars, workerVars, cancelled>>

\* A re-run raises past its own error handling before it counts a node, and
\* _fail_unrecorded_workflows records the error; it sees no request as cancelled.
\* (If it raises later, the nodes are counted as processed before the error is
\* recorded, with no suspension between: an "error" of EndRun.)
AloneFails(b, r) ==
  \E t \in batch[b] :
    /\ t.at = "next"
    /\ r \in t.retry
    /\ Become(b, [t EXCEPT !.at = "record", !.retry = @ \ {r}, !.isolate = FALSE,
                           !.run = {w \in t.workflows : RequestOf[w] = r},
                           !.active = {}, !.outcome = "error", !.seen = {}, !.dropped = FALSE])
    /\ UNCHANGED <<jobVars, requestVars, nodeVars, workerVars, cancelled>>

\* After the last re-run the workers are released once.
ReleaseAfterRetries(b) ==
  \E t \in batch[b] :
    /\ t.at = "next"
    /\ t.retry = {}
    /\ busy' = busy \ t.workers
    /\ batch' = [batch EXCEPT ![b] = {}]
    /\ UNCHANGED <<jobVars, requestVars, nodeVars, free, claimed, cancelled>>

Outcomes == {"ok", "failed", "error", "cancelled"}

Scheduler ==
  \/ \E F \in SUBSET Workers : Snapshot(F)
  \/ \E B \in SUBSET queued : ReserveBatch(B)
  \/ ReserveNothing
  \/ \E G \in SUBSET Workers : ClaimWorkers(G)
  \/ ClaimNothing
  \/ \E b \in BatchIds : StartBatch(b)
  \/ \E P \in SUBSET Unplaceable : FailUnplaceable(P)

BatchTask(b) ==
  \/ BeginRun(b)
  \/ \E outcome \in Outcomes : EndRun(b, outcome)
  \/ SplitBatch(b)
  \/ RecordResults(b)
  \/ EndBatch(b)
  \/ \E r \in Requests : RunAlone(b, r) \/ AloneFails(b, r)
  \/ ReleaseAfterRetries(b)

Next ==
  \/ \E r \in Requests : HandleRequest(r) \/ CancelRequest(r)
  \/ Scheduler
  \/ \E b \in BatchIds : BatchTask(b)

Spec == Init /\ [][Next]_vars

\* The event loop runs every task that can run, and an execution ends.  Worker
\* profiles can be read infinitely often, and work that no worker can run is
\* found so in the end (ImpossibleWorkLeaves in JobManager), if it was not run before.
Fairness ==
  /\ WF_vars(Scheduler)
  /\ SF_vars(Snapshot(Workers \ busy))
  /\ SF_vars(FailUnplaceable(Unplaceable))
  /\ \A b \in BatchIds : WF_vars(BatchTask(b))

LiveSpec == Spec /\ Fairness

-----------------------------------------------------------------------------
(* Correctness.                                                            *)

Task == [workflows : SUBSET Workflows, workers : SUBSET Workers,
         at : {"begin", "running", "split", "record", "end", "next"},
         run : SUBSET Workflows, isolate : BOOLEAN, active : SUBSET Workflows,
         outcome : Outcomes \cup {"none"}, seen : SUBSET Requests,
         dropped : BOOLEAN, retry : SUBSET Requests]

\* Every variable holds a value of its kind: RequestState's fields, the busy set
\* and the batch tasks of LumilakeServer.
TypeOK ==
  /\ queued \subseteq Workflows /\ held \subseteq Workflows /\ running \subseteq Workflows
  /\ known \subseteq Requests /\ cancelled \subseteq Requests
  /\ pending \in [Requests -> SUBSET Workflows]
  /\ merged \subseteq Workflows /\ failed \subseteq Workflows
  /\ rawPending \in [Requests -> Nat]
  /\ rawActive \in [Requests -> Nat]
  /\ rawDone \in [Requests -> Nat]
  /\ answers \in [Requests -> Seq([outputs : SUBSET Workflows, errors : SUBSET Workflows])]
  /\ busy \subseteq Workers /\ free \subseteq Workers /\ claimed \subseteq Workers
  /\ batch \in [BatchIds -> SUBSET Task]
  /\ \A b \in BatchIds : \A s, t \in batch[b] : s = t

Tasks == UNION {batch[b] : b \in BatchIds}

\* No worker is handed to two batches, and none stays busy without a batch:
\* _busy_workers is the disjoint union of the workers claimed by the scheduler
\* and those of the live batch tasks, whichever way the tasks end.
WorkersExclusive ==
  /\ busy = claimed \cup UNION {t.workers : t \in Tasks}
  /\ \A b, c \in BatchIds : \A s \in batch[b], t \in batch[c] :
       b # c => s.workers \cap t.workers = {}
  /\ \A t \in Tasks : t.workers \cap claimed = {} /\ Cardinality(t.workers) = GroupSize

\* The workflows for which task t has still to record a verdict.
Unrecorded(t) ==
  (IF t.at \in {"end", "next"} THEN {} ELSE t.run)
    \cup {w \in t.workflows : RequestOf[w] \in t.retry}

\* A pending workflow is in the queue or in the hands of exactly one batch task
\* that will record it, whatever was cancelled, split or re-run in between: no
\* request waits for a workflow that nobody will finish.
NothingStranded ==
  /\ \A r \in known :
       pending[r] = WorkflowsOf(r) \cap (queued \cup UNION {Unrecorded(t) : t \in Tasks})
  /\ \A b, c \in BatchIds : \A s \in batch[b], t \in batch[c] :
       b # c => Unrecorded(s) \cap Unrecorded(t) = {}

\* A workflow gets one verdict: it is pending, merged or failed, and never two of
\* these, although a failed batch is run again request by request.
OneVerdict ==
  /\ merged \cap failed = {}
  /\ \A r \in known : pending[r] = WorkflowsOf(r) \ (merged \cup failed)

\* A request is answered as soon as, and only when, none of its workflows is
\* pending, although its workflows end in different batches.
AnsweredWhenSettled == \A r \in Requests : r \in Answered <=> r \in known /\ pending[r] = {}

\* The response that the client reads (the first) carries the outputs of every
\* workflow that was merged and an error for every one that failed.
AnswerFaithful ==
  \A r \in Answered :
    /\ Head(answers[r]).outputs = merged \cap WorkflowsOf(r)
    /\ Head(answers[r]).errors = failed \cap WorkflowsOf(r)

\* The workflows of a request that may not find a worker.
Unsure(r) == {w \in WorkflowsOf(r) : PartitionOf[w] \in Unplaceable}

\* Nodes whose batch is between BeginRun and EndBatch.
ActiveWorkflows ==
  UNION {t.active : t \in {u \in Tasks : u.at \in {"running", "split", "record", "end"}}}

\* The node counters of the progress report never lose or duplicate a node
\* through cancellation, split and re-run, and a batch about to start always
\* finds its nodes pending: neither underflow error of _run_batch_inner is raised.
NodesConserved ==
  /\ \A r \in known :
       /\ rawPending[r] + rawActive[r] + rawDone[r] = Cardinality(WorkflowsOf(r))
       /\ rawActive[r] = NodesOf(r, ActiveWorkflows)
  /\ \A t \in Tasks : t.at = "begin" =>
       \A r \in Requests : rawPending[r] >= NodesOf(r, t.run)

\* A failure of a shared execution stays with the requests that caused it:
\* another request's workflow fails only if that request was cancelled, in the
\* queue for want of a worker, or through an error other than the execution's.
FailureIsolated ==
  [][\A w \in failed' \ failed :
       \/ RequestOf[w] \in Bad \cup cancelled
       \/ w \in queued /\ PartitionOf[w] \in Unplaceable
       \/ \E t \in Tasks : w \in t.run /\ t.outcome = "error"]_vars

\* Work is conserved through cancellation, split and re-run: a pending workflow is in
\* the queue or with one batch task, gets one verdict, and its nodes are counted once.
WorkConserved == TypeOK /\ NothingStranded /\ OneVerdict /\ NodesConserved

\* A request is answered exactly when its last workflow is settled, in whichever batch
\* or by _fail_unplaceable_batch.  The answer has every error and every output; only
\* when the last workflow failed for want of a worker may it come without outputs
\* (see AnswerFaithful), and may there be one for each such workflow.
AnswersSound ==
  /\ AnsweredWhenSettled
  /\ \A r \in Answered :
       /\ Head(answers[r]).errors = failed \cap WorkflowsOf(r)
       /\ \/ Head(answers[r]).outputs = merged \cap WorkflowsOf(r)
          \/ Unsure(r) # {} /\ Head(answers[r]).outputs = {}
       /\ Len(answers[r]) = 1 \/ Len(answers[r]) <= Cardinality(Unsure(r))

\* Again and again, and so in the end, every request that was accepted is answered and
\* every claimed worker is back, although some workflows never find a worker.
ServerProgress == []<>(known \subseteq Answered /\ busy = {})

=============================================================================
