---------------------------- MODULE ServerProofs ----------------------------
(***************************************************************************)
(* The safety of Server for every set of requests, workflows, workers and  *)
(* batch tasks, every group and batch size, and whichever requests are     *)
(* cancelled or make their execution fail.                                 *)
(***************************************************************************)
EXTENDS Server, FiniteSetTheorems, TLAPS

\* Workflow w awaits its verdict: it is queued, or a batch task has still to record it.
Open(w) == w \in queued \/ \E b \in BatchIds : \E t \in batch[b] : w \in Unrecorded(t)

\* The workflows of task t whose nodes the task has yet to move out of pending.
WaitingOf(t) ==
  {w \in t.workflows : RequestOf[w] \in t.retry}
    \cup (IF t.at = "begin" THEN t.run
          ELSE IF t.at \in {"running", "split"} THEN t.run \ t.active ELSE {})
Waiting == queued \cup UNION {WaitingOf(t) : t \in Tasks}

\* The workflows of task t whose nodes are processing.
ActiveOf(t) == IF t.at \in {"running", "split", "record", "end"} THEN t.active ELSE {}

\* What a batch task knows is right: its run is the whole batch or one request of it
\* that is not to be re-run, only workflows of cancelled requests are inactive unless the
\* run raised, and its outcome blames no request that is neither bad nor cancelled.
TaskSound(t) ==
  /\ t.run \subseteq t.workflows /\ t.active \subseteq t.run
  /\ t.isolate /\ t.at # "next" => t.run = t.workflows /\ t.retry = {}
  /\ t.at = "split" => t.isolate
  /\ ~t.isolate => \A v, w \in t.run : RequestOf[v] = RequestOf[w]
  /\ t.at # "next" => \A w \in t.run : RequestOf[w] \notin t.retry
  /\ t.seen \subseteq cancelled
  /\ t.dropped => \A w \in t.run : RequestOf[w] \in cancelled
  /\ t.at \in {"running", "split", "record", "end"} =>
       \A w \in t.run \ t.active :
         \/ RequestOf[w] \in cancelled
         \/ t.at \in {"record", "end"} /\ t.outcome = "error"
  /\ t.at = "record" =>
       /\ t.outcome # "none"
       /\ t.outcome = "failed" => \A w \in t.active : RequestOf[w] \in Bad
       /\ t.outcome = "cancelled" => \A w \in t.active : RequestOf[w] \in cancelled

TasksSound == \A b \in BatchIds : \A t \in batch[b] : TaskSound(t)

\* A workflow is in one place: the queue, which holds the reserved batch, or one task.
Placed ==
  /\ held \subseteq queued /\ IsFiniteSet(queued)
  /\ \A b \in BatchIds : \A t \in batch[b] : t.workflows \cap queued = {}
  /\ \A b, c \in BatchIds : \A s \in batch[b], t \in batch[c] :
       b # c => s.workflows \cap t.workflows = {}
  /\ \A b \in BatchIds : \A t \in batch[b] : IsFiniteSet(t.workflows)

\* Nothing is known of a workflow before its request is handled.
Announced ==
  /\ \A w \in queued \cup merged \cup failed : RequestOf[w] \in known
  /\ \A b \in BatchIds : \A t \in batch[b] : \A w \in t.workflows : RequestOf[w] \in known
  /\ \A r \in Requests \ known : answers[r] = <<>>

\* The pending workflows of a request are its open ones, and these are the ones
\* without a verdict.
PendingIsOpen ==
  /\ \A r \in Requests : \A w \in Workflows : w \in pending[r] <=> RequestOf[w] = r /\ Open(w)
  /\ merged \cap failed = {}
  /\ \A w \in Workflows : RequestOf[w] \in known => (Open(w) <=> w \notin merged \cup failed)

\* The workers claimed for a reservation form a group.
ClaimSound == claimed # {} => Cardinality(claimed) = GroupSize

\* The node counters of a request: nothing is lost, the active nodes are those of the
\* running tasks, and whatever has yet to start is still counted as pending.
NodesSound ==
  \A r \in Requests :
    /\ rawPending[r] + rawActive[r] + rawDone[r]
         = IF r \in known THEN Cardinality(WorkflowsOf(r)) ELSE 0
    /\ rawActive[r] = NodesOf(r, ActiveWorkflows)
    /\ rawPending[r] >= NodesOf(r, Waiting)

\* The inductive invariant.
IInv ==
  /\ TypeOK
  /\ TasksSound
  /\ Placed
  /\ Announced
  /\ PendingIsOpen
  /\ WorkersExclusive
  /\ ClaimSound
  /\ NodesSound
  /\ AnsweredWhenSettled

-----------------------------------------------------------------------------
(* Counting nodes.                                                          *)

\* The nodes that a set of workflows counts for a request form a finite set.
LEMMA NodesFinite ==
  ASSUME NEW r \in Requests, NEW A \in SUBSET Workflows
  PROVE  /\ IsFiniteSet({w \in A : RequestOf[w] = r})
         /\ NodesOf(r, A) \in Nat
         /\ NodesOf(r, A) = 0 <=> \A w \in A : RequestOf[w] # r
  <1> DEFINE S == {w \in A : RequestOf[w] = r}
  <1>1. S \subseteq WorkflowsOf(r)
    BY DEF WorkflowsOf
  <1>2. IsFiniteSet(S)
    BY <1>1, FS_Subset, ServerAssumption
  <1>3. Cardinality(S) \in Nat /\ (Cardinality(S) = 0 <=> S = {})
    BY <1>2, FS_CardinalityType, FS_EmptySet
  <1> QED
    BY <1>2, <1>3 DEF NodesOf

\* Disjoint sets count separately.
LEMMA NodesUnion ==
  ASSUME NEW r \in Requests, NEW A \in SUBSET Workflows, NEW B \in SUBSET Workflows,
         A \cap B = {}
  PROVE  NodesOf(r, A \cup B) = NodesOf(r, A) + NodesOf(r, B)
  <1> DEFINE SA == {w \in A : RequestOf[w] = r}
             SB == {w \in B : RequestOf[w] = r}
  <1>1. IsFiniteSet(SA) /\ IsFiniteSet(SB)
    BY NodesFinite
  <1>2. NodesOf(r, A \cup B) = Cardinality(SA \cup SB)
    <2>1. {w \in A \cup B : RequestOf[w] = r} = SA \cup SB
      OBVIOUS
    <2> QED
      BY DEF NodesOf
  <1>3. SA \cap SB = {}
    OBVIOUS
  <1>4. NodesOf(r, A) = Cardinality(SA) /\ NodesOf(r, B) = Cardinality(SB)
    BY DEF NodesOf
  <1> HIDE DEF SA, SB
  <1>5. Cardinality(SA \cup SB) = Cardinality(SA) + Cardinality(SB) - Cardinality(SA \cap SB)
    BY <1>1, FS_Union
  <1>6. Cardinality(SA \cap SB) = 0
    BY <1>3, FS_EmptySet
  <1>7. Cardinality(SA) \in Nat /\ Cardinality(SB) \in Nat
    BY <1>1, FS_CardinalityType
  <1> QED
    BY <1>2, <1>4, <1>5, <1>6, <1>7

\* A subset counts no more, and its complement the rest.
LEMMA NodesSubset ==
  ASSUME NEW r \in Requests, NEW A \in SUBSET Workflows, NEW B \in SUBSET A
  PROVE  /\ NodesOf(r, B) <= NodesOf(r, A)
         /\ NodesOf(r, A \ B) = NodesOf(r, A) - NodesOf(r, B)
  <1>1. NodesOf(r, B \cup (A \ B)) = NodesOf(r, B) + NodesOf(r, A \ B)
    <2> B \in SUBSET Workflows /\ A \ B \in SUBSET Workflows /\ B \cap (A \ B) = {}
      OBVIOUS
    <2> QED
      BY NodesUnion
  <1>2. B \cup (A \ B) = A
    OBVIOUS
  <1>3. NodesOf(r, A) \in Nat /\ NodesOf(r, B) \in Nat /\ NodesOf(r, A \ B) \in Nat
    BY NodesFinite
  <1> QED
    BY <1>1, <1>2, <1>3

\* Who is active, and who waits, task by task.
LEMMA ActiveMembers ==
  \A w : w \in ActiveWorkflows <=>
    \E b \in BatchIds : \E t \in batch[b] : w \in ActiveOf(t)
  BY DEF ActiveWorkflows, Tasks, ActiveOf

\* What waits is queued or held back by a task.
LEMMA WaitingMembers ==
  \A w : w \in Waiting <=>
    w \in queued \/ \E b \in BatchIds : \E t \in batch[b] : w \in WaitingOf(t)
  BY DEF Waiting, Tasks

\* WorkersExclusive, worker by worker and task by task.
WorkersApart ==
  /\ \A x : x \in busy <=> x \in claimed \/ \E b \in BatchIds : \E t \in batch[b] : x \in t.workers
  /\ \A b, c \in BatchIds : \A s \in batch[b], t \in batch[c] :
       b # c => s.workers \cap t.workers = {}
  /\ \A b \in BatchIds : \A t \in batch[b] :
       t.workers \cap claimed = {} /\ Cardinality(t.workers) = GroupSize

\* The two forms agree.
LEMMA WorkersMembers == WorkersExclusive <=> WorkersApart
  <1>1. \A x : x \in UNION {t.workers : t \in Tasks}
                 <=> \E b \in BatchIds : \E t \in batch[b] : x \in t.workers
    BY DEF Tasks
  <1>2. busy = claimed \cup UNION {t.workers : t \in Tasks}
          <=> \A x : x \in busy <=> x \in claimed \/ \E b \in BatchIds : \E t \in batch[b] : x \in t.workers
    BY <1>1
  <1>3. (\A t \in Tasks : t.workers \cap claimed = {} /\ Cardinality(t.workers) = GroupSize)
          <=> \A b \in BatchIds : \A t \in batch[b] :
                t.workers \cap claimed = {} /\ Cardinality(t.workers) = GroupSize
    BY DEF Tasks
  <1> QED
    BY <1>2, <1>3 DEF WorkersExclusive, WorkersApart

-----------------------------------------------------------------------------
(* The initial state, and the scheduler up to the start of a batch.         *)

\* The initial state.
LEMMA InitInvariant == Init => IInv
  <1> SUFFICES ASSUME Init PROVE IInv
    OBVIOUS
  <1> USE DEF Init, JobInit
  <1>1. TypeOK
    BY DEF TypeOK
  <1>2. TasksSound /\ Placed /\ Announced /\ ClaimSound
    BY FS_EmptySet DEF TasksSound, Placed, Announced, ClaimSound
  <1>3. PendingIsOpen
    BY DEF PendingIsOpen, Open
  <1>4. Tasks = {}
    BY DEF Tasks
  <1>5. WorkersExclusive
    BY <1>4 DEF WorkersExclusive
  <1>6. NodesSound
    <2>1. ActiveWorkflows = {} /\ Waiting = {}
      BY <1>4 DEF ActiveWorkflows, Waiting
    <2>2. \A r \in Requests : NodesOf(r, {}) = 0
      BY NodesFinite
    <2> QED
      BY <2>1, <2>2 DEF NodesSound
  <1>7. AnsweredWhenSettled
    BY DEF AnsweredWhenSettled, Answered
  <1> QED
    BY <1>1, <1>2, <1>3, <1>5, <1>6, <1>7 DEF IInv

\* A step that leaves the queue, the requests, their nodes and the tasks alone disturbs
\* nothing that is said of them.
LEMMA RequestsUntouched ==
  ASSUME IInv, UNCHANGED <<queued, requestVars, nodeVars, cancelled, batch>>
  PROVE  TasksSound' /\ Announced' /\ PendingIsOpen' /\ NodesSound' /\ AnsweredWhenSettled'
  <1> USE DEF requestVars, nodeVars, IInv
  <1>1. TasksSound'
    BY DEF TasksSound, TaskSound
  <1>2. Announced'
    BY DEF Announced
  <1>3. PendingIsOpen'
    BY DEF PendingIsOpen, Open
  <1>4. NodesSound'
    BY DEF NodesSound, ActiveWorkflows, Waiting, Tasks
  <1>5. AnsweredWhenSettled'
    BY DEF AnsweredWhenSettled, Answered
  <1> QED
    BY <1>1, <1>2, <1>3, <1>4, <1>5

\* The scheduler's round before a batch starts: the snapshot may be stale, but the claim
\* takes only workers that are not busy.
LEMMA SnapshotStep ==
  ASSUME IInv, NEW F \in SUBSET Workers, Snapshot(F)
  PROVE  IInv'
  <1> USE DEF Snapshot, jobVars, IInv
  <1>1. TypeOK'
    BY DEF TypeOK, requestVars, nodeVars
  <1>2. Placed' /\ WorkersExclusive' /\ ClaimSound'
    BY DEF Placed, WorkersExclusive, Tasks, ClaimSound
  <1> QED
    BY <1>1, <1>2, RequestsUntouched

\* A reservation moves queued workflows to the held ones and touches no worker.
LEMMA ReserveBatchStep ==
  ASSUME IInv, NEW B \in SUBSET queued, ReserveBatch(B)
  PROVE  IInv'
  <1> USE DEF ReserveBatch, Hold, workerVars, IInv
  <1>1. TypeOK'
    BY DEF TypeOK, requestVars, nodeVars
  <1>2. Placed' /\ WorkersExclusive' /\ ClaimSound'
    BY DEF Placed, WorkersExclusive, Tasks, ClaimSound
  <1> QED
    BY <1>1, <1>2, RequestsUntouched

\* A round of the scheduler that reserves nothing.
LEMMA ReserveNothingStep ==
  ASSUME IInv, ReserveNothing
  PROVE  IInv'
  <1> USE DEF ReserveNothing, jobVars, IInv
  <1>1. TypeOK'
    BY DEF TypeOK, requestVars, nodeVars
  <1>2. Placed' /\ WorkersExclusive' /\ ClaimSound'
    BY DEF Placed, WorkersExclusive, Tasks, ClaimSound
  <1> QED
    BY <1>1, <1>2, RequestsUntouched

\* A claim takes workers that are not busy, so they belong to no task.
LEMMA ClaimWorkersStep ==
  ASSUME IInv, NEW G \in SUBSET Workers, ClaimWorkers(G)
  PROVE  IInv'
  <1> USE DEF ClaimWorkers, Claimable, jobVars, IInv
  <1>1. TypeOK'
    BY DEF TypeOK, requestVars, nodeVars
  <1>2. Placed' /\ ClaimSound'
    BY DEF Placed, ClaimSound
  <1>3. WorkersExclusive'
    <2>1. busy' = claimed' \cup UNION {t.workers : t \in Tasks'}
      BY DEF WorkersExclusive, Tasks
    <2>2. \A t \in Tasks' : t.workers \cap claimed' = {}
      BY DEF WorkersExclusive, Tasks
    <2> QED
      BY DEF WorkersExclusive, Tasks
  <1> QED
    BY <1>1, <1>2, <1>3, RequestsUntouched

\* A failed claim gives the reservation back.
LEMMA ClaimNothingStep ==
  ASSUME IInv, ClaimNothing
  PROVE  IInv'
  <1> USE DEF ClaimNothing, Release, IInv
  <1>1. TypeOK'
    BY DEF TypeOK, requestVars, nodeVars
  <1>2. Placed' /\ WorkersExclusive' /\ ClaimSound'
    BY DEF Placed, WorkersExclusive, Tasks, ClaimSound
  <1> QED
    BY <1>1, <1>2, RequestsUntouched

\* No set of workflows counts more than the request brought.
LEMMA NodesAtMost ==
  ASSUME NEW r \in Requests, NEW A \in SUBSET Workflows
  PROVE  NodesOf(r, A) <= Cardinality(WorkflowsOf(r)) /\ Cardinality(WorkflowsOf(r)) \in Nat
  <1>1. NodesOf(r, Workflows) = Cardinality(WorkflowsOf(r))
    BY DEF NodesOf, WorkflowsOf
  <1>2. NodesOf(r, A) <= NodesOf(r, Workflows)
    BY NodesSubset
  <1> QED
    BY <1>1, <1>2, NodesFinite

\* The workflows that wait or are active are workflows.
LEMMA CountedAreWorkflows ==
  ASSUME IInv
  PROVE  Waiting \subseteq Workflows /\ ActiveWorkflows \subseteq Workflows
  <1>1. \A b \in BatchIds : \A t \in batch[b] : WaitingOf(t) \subseteq Workflows /\ t.active \subseteq Workflows
    BY DEF IInv, TypeOK, Task, WaitingOf
  <1> QED
    BY <1>1, WaitingMembers, ActiveMembers DEF IInv, TypeOK, ActiveOf

\* One more answer is a sequence of answers that is not empty.
LEMMA AppendAnswer ==
  ASSUME NEW R, NEW a \in Seq(R), NEW x \in R
  PROVE  Append(a, x) \in Seq(R) /\ Append(a, x) # <<>> /\ Len(Append(a, x)) = Len(a) + 1
  <1>1. Append(a, x) \in Seq(R) /\ Len(Append(a, x)) = Len(a) + 1 /\ Len(a) \in Nat
    OBVIOUS
  <1>2. Len(<<>>) = 0
    OBVIOUS
  <1> QED
    BY <1>1

-----------------------------------------------------------------------------
(* Requests.                                                                *)

\* A new request: its workflows are nowhere yet, so that they enter the queue once and
\* all of their nodes are pending.
LEMMA HandleRequestStep ==
  ASSUME IInv, NEW r \in Requests, HandleRequest(r)
  PROVE  IInv'
  <1> DEFINE W == WorkflowsOf(r)
  <1> USE DEF HandleRequest, Submit, workerVars, IInv
  <1>1. /\ r \notin known /\ known' = known \cup {r}
        /\ queued' = queued \cup W
        /\ pending' = [pending EXCEPT ![r] = W]
        /\ rawPending' = [rawPending EXCEPT ![r] = Cardinality(W)]
        /\ answers' = IF W = {} THEN [answers EXCEPT ![r] = Append(@, Response(r, {}, {}))] ELSE answers
        /\ held' = held /\ running' = running
        /\ UNCHANGED <<merged, failed, rawActive, rawDone, busy, free, claimed, cancelled, batch>>
    <2>1. CASE W = {}
      <3>1. pending[r] = {}
        BY <2>1 DEF PendingIsOpen, TypeOK, WorkflowsOf
      <3>2. Cardinality(W) = 0 /\ rawPending[r] = 0
        <4>1. Cardinality(W) = 0
          BY <2>1, FS_EmptySet
        <4>2. rawPending[r] + rawActive[r] + rawDone[r] = 0
          BY DEF NodesSound
        <4> QED
          BY <4>1, <4>2 DEF TypeOK
      <3> QED
        BY <2>1, <3>1, <3>2 DEF TypeOK, jobVars
    <2> QED
      BY <2>1
  <1> HIDE DEF HandleRequest
  <1>2. W \subseteq Workflows /\ (\A w \in Workflows : w \in W <=> RequestOf[w] = r)
    BY DEF WorkflowsOf
  <1>3. IsFiniteSet(W) /\ Cardinality(W) \in Nat
    BY FS_CardinalityType, ServerAssumption
  <1> HIDE DEF W
  <1>4. TypeOK'
    <2>1. Response(r, {}, {}) \in [outputs : SUBSET Workflows, errors : SUBSET Workflows]
      BY DEF Response
    <2>2. answers' \in [Requests -> Seq([outputs : SUBSET Workflows, errors : SUBSET Workflows])]
      BY <1>1, <2>1, AppendAnswer DEF TypeOK
    <2> QED
      BY <1>1, <1>2, <1>3, <2>2 DEF TypeOK
  <1>5. TasksSound'
    BY <1>1 DEF TasksSound, TaskSound
  <1>6. \A b \in BatchIds : \A t \in batch[b] : t.workflows \cap W = {}
    BY <1>1, <1>2 DEF Announced
  <1>7. Placed'
    <2>1. IsFiniteSet(queued')
      BY <1>1, <1>3, FS_Union DEF Placed
    <2> QED
      BY <1>1, <1>6, <2>1 DEF Placed
  <1>8. Announced'
    BY <1>1, <1>2 DEF Announced
  <1>9. \A w : Open(w)' <=> Open(w) \/ w \in W
    BY <1>1 DEF Open
  <1>10. \A w \in W : ~Open(w) /\ w \notin merged \cup failed
    BY <1>1, <1>2 DEF Announced, Open, Unrecorded, TasksSound, TaskSound
  <1>11. PendingIsOpen'
    BY <1>1, <1>2, <1>9, <1>10 DEF PendingIsOpen, TypeOK
  <1>12. WorkersExclusive' /\ ClaimSound'
    BY <1>1 DEF WorkersExclusive, Tasks, ClaimSound
  <1>13. NodesSound'
    <2>1. ActiveWorkflows' = ActiveWorkflows
      BY <1>1 DEF ActiveWorkflows, Tasks
    <2>2. Waiting' = Waiting \cup W /\ Waiting' \subseteq Workflows
      BY <1>1, <1>2, CountedAreWorkflows DEF Waiting, Tasks
    <2>3. rawActive[r] = 0 /\ rawDone[r] = 0
      BY <1>1 DEF NodesSound, TypeOK
    <2>4. NodesOf(r, Waiting') <= Cardinality(W)
      BY <2>2, NodesAtMost DEF W
    <2>5. \A q \in Requests \ {r} : NodesOf(q, Waiting') = NodesOf(q, Waiting)
      <3> SUFFICES ASSUME NEW q \in Requests \ {r} PROVE NodesOf(q, Waiting') = NodesOf(q, Waiting)
        OBVIOUS
      <3>1. {w \in Waiting' : RequestOf[w] = q} = {w \in Waiting : RequestOf[w] = q}
        BY <1>2, <2>2
      <3> QED
        BY <3>1 DEF NodesOf
    <2>6. rawPending' = [rawPending EXCEPT ![r] = Cardinality(W)] /\ W = WorkflowsOf(r)
      BY <1>1 DEF W
    <2> SUFFICES ASSUME NEW q \in Requests
                 PROVE  /\ rawPending'[q] + rawActive'[q] + rawDone'[q]
                             = IF q \in known' THEN Cardinality(WorkflowsOf(q)) ELSE 0
                        /\ rawActive'[q] = NodesOf(q, ActiveWorkflows')
                        /\ rawPending'[q] >= NodesOf(q, Waiting')
      BY DEF NodesSound
    <2>7. CASE q = r
      BY <1>1, <1>3, <2>1, <2>4, <2>6, <2>7 DEF NodesSound, TypeOK
    <2>8. CASE q # r
      BY <1>1, <2>1, <2>5, <2>8 DEF NodesSound
    <2> QED
      BY <2>7, <2>8
  <1>14. AnsweredWhenSettled'
    <2>1. \A q \in Requests : answers'[q] # <<>> <=> answers[q] # <<>> \/ (q = r /\ W = {})
      BY <1>1, AppendAnswer DEF TypeOK
    <2> QED
      BY <1>1, <2>1 DEF AnsweredWhenSettled, Answered, TypeOK
  <1> QED
    BY <1>4, <1>5, <1>7, <1>8, <1>11, <1>12, <1>13, <1>14

\* Two records of one batch task that differ at most in whether it is dropped.
SameTask(u, t) ==
  /\ u.workflows = t.workflows /\ u.workers = t.workers /\ u.at = t.at /\ u.run = t.run
  /\ u.isolate = t.isolate /\ u.active = t.active /\ u.outcome = t.outcome /\ u.seen = t.seen
  /\ u.retry = t.retry

\* A cancellation marks the request and drops tasks: nothing else of a task changes, and
\* only tasks whose requests are all cancelled are dropped.
LEMMA CancelRequestStep ==
  ASSUME IInv, NEW r \in Requests, CancelRequest(r)
  PROVE  IInv'
  <1> USE DEF IInv
  <1>1. UNCHANGED <<queued, held, running, known, pending, merged, failed, answers, rawPending,
                    rawActive, rawDone, busy, free, claimed>>
    BY DEF CancelRequest, jobVars, requestVars, nodeVars, workerVars
  <1>2. cancelled' = cancelled \cup {r}
    BY DEF CancelRequest
  <1>3. \A b \in BatchIds : \A t \in batch[b] : \E u \in batch'[b] :
          u \in Task /\ SameTask(u, t)
          /\ (u.dropped => t.dropped \/ RequestsOf(t.run) \subseteq cancelled')
    <2> SUFFICES ASSUME NEW b \in BatchIds, NEW t \in batch[b]
                 PROVE  \E u \in batch'[b] :
                          u \in Task /\ SameTask(u, t)
                          /\ (u.dropped => t.dropped \/ RequestsOf(t.run) \subseteq cancelled')
      OBVIOUS
    <2> DEFINE u == [t EXCEPT !.dropped = @ \/ /\ t.at \in {"begin", "running"}
                                               /\ r \in RequestsOf(t.run)
                                               /\ RequestsOf(t.run) \subseteq cancelled']
    <2>1. u \in batch'[b]
      BY DEF CancelRequest
    <2>2. t \in Task
      BY DEF TypeOK
    <2>3. u \in Task /\ SameTask(u, t) /\ (u.dropped => t.dropped \/ RequestsOf(t.run) \subseteq cancelled')
      BY <2>2 DEF Task, SameTask
    <2> QED
      BY <2>1, <2>3
  <1>4. batch' \in [BatchIds -> SUBSET Task] /\ \A b \in BatchIds : \A u, v \in batch'[b] : u = v
    <2>1. \A b \in BatchIds : \A u, v \in batch'[b] : u = v
      BY DEF CancelRequest, TypeOK
    <2>2. \A b \in BatchIds : batch'[b] # {} => batch[b] # {}
      BY DEF CancelRequest
    <2>3. batch' = [b \in BatchIds |-> batch'[b]]
      BY DEF CancelRequest
    <2>4. \A b \in BatchIds : batch'[b] \subseteq Task
      BY <1>3, <2>1, <2>2
    <2> QED
      BY <2>1, <2>3, <2>4
  <1>5. \A b \in BatchIds : \A u \in batch'[b] : \E t \in batch[b] :
          u \in Task /\ SameTask(u, t)
          /\ (u.dropped => t.dropped \/ RequestsOf(t.run) \subseteq cancelled')
    <2>1. \A b \in BatchIds : batch'[b] # {} => batch[b] # {}
      BY DEF CancelRequest
    <2> QED
      BY <1>3, <1>4, <2>1
  <1>6. TypeOK'
    BY <1>1, <1>2, <1>4 DEF TypeOK
  <1>7. TasksSound'
    <2> SUFFICES ASSUME NEW b \in BatchIds, NEW u \in batch'[b]
                 PROVE  TaskSound(u)'
      BY DEF TasksSound
    <2>1. PICK t \in batch[b] : SameTask(u, t)
                                /\ (u.dropped => t.dropped \/ RequestsOf(t.run) \subseteq cancelled')
      BY <1>5
    <2>2. TaskSound(t)
      BY DEF TasksSound
    <2> QED
      BY <1>2, <2>1, <2>2 DEF TaskSound, SameTask, RequestsOf
  <1>8. Placed'
    BY <1>1, <1>5 DEF Placed, SameTask
  <1>9. Announced'
    BY <1>1, <1>5 DEF Announced, SameTask
  <1>10. \A w : Open(w)' <=> Open(w)
    BY <1>1, <1>3, <1>5 DEF Open, Unrecorded, SameTask
  <1>11. PendingIsOpen'
    BY <1>1, <1>10 DEF PendingIsOpen
  <1>12. WorkersExclusive'
    <2>1. WorkersApart
      BY WorkersMembers
    <2>2. WorkersApart'
      BY <1>1, <1>3, <1>5, <2>1 DEF WorkersApart, SameTask
    <2>3. WorkersExclusive' <=> WorkersApart'
      BY WorkersMembers, PTL
    <2> QED
      BY <2>2, <2>3
  <1>13. ClaimSound'
    BY <1>1 DEF ClaimSound
  <1>14. NodesSound'
    <2>1. \A w : w \in ActiveWorkflows' <=> w \in ActiveWorkflows
      BY <1>3, <1>5 DEF ActiveWorkflows, Tasks, SameTask
    <2>2. \A w : w \in Waiting' <=> w \in Waiting
      BY <1>1, <1>3, <1>5 DEF Waiting, Tasks, WaitingOf, SameTask
    <2>3. ActiveWorkflows' = ActiveWorkflows /\ Waiting' = Waiting
      BY <2>1, <2>2
    <2> QED
      BY <1>1, <2>3 DEF NodesSound
  <1>15. AnsweredWhenSettled'
    BY <1>1 DEF AnsweredWhenSettled, Answered
  <1> QED
    BY <1>6, <1>7, <1>8, <1>9, <1>11, <1>12, <1>13, <1>14, <1>15

-----------------------------------------------------------------------------
(* The end of a scheduler round.                                            *)

\* The reserved workflows and the claimed workers pass to one new task.
LEMMA StartBatchStep ==
  ASSUME IInv, NEW b \in BatchIds, StartBatch(b)
  PROVE  IInv'
  <1> DEFINE u == [workflows |-> held, workers |-> claimed, at |-> "begin", run |-> held,
                   isolate |-> TRUE, active |-> {}, outcome |-> "none", seen |-> {},
                   dropped |-> FALSE, retry |-> {}]
  <1> USE DEF IInv
  <1>1. /\ held # {} /\ queued' = queued \ held /\ held' = {} /\ running' = running \cup held
        /\ claimed # {} /\ claimed' = {} /\ free' = {} /\ batch[b] = {}
        /\ UNCHANGED <<known, pending, merged, failed, answers, rawPending, rawActive, rawDone,
                       busy, cancelled>>
    BY DEF StartBatch, Dispatch, requestVars, nodeVars
  <1>2. batch'[b] = {u} /\ (\A c \in BatchIds \ {b} : batch'[c] = batch[c])
        /\ batch' = [batch EXCEPT ![b] = {u}]
    BY DEF StartBatch, Become, TypeOK
  <1>3. u \in Task
    BY DEF TypeOK, Task
  <1>4. /\ u.workflows = held /\ u.workers = claimed /\ u.at = "begin" /\ u.run = held
        /\ u.isolate = TRUE /\ u.active = {} /\ u.outcome = "none" /\ u.seen = {}
        /\ u.dropped = FALSE /\ u.retry = {}
    OBVIOUS
  <1> HIDE DEF u
  <1>5. TypeOK'
    BY <1>1, <1>2, <1>3 DEF TypeOK
  <1>6. TasksSound'
    <2> SUFFICES ASSUME NEW c \in BatchIds, NEW t \in batch'[c]
                 PROVE  TaskSound(t)'
      BY DEF TasksSound
    <2>1. CASE c = b
      BY <1>2, <1>4, <2>1 DEF TaskSound
    <2>2. CASE c # b
      BY <1>1, <1>2, <2>2 DEF TasksSound, TaskSound
    <2> QED
      BY <2>1, <2>2
  <1>7. Placed'
    <2>1. IsFiniteSet(queued') /\ IsFiniteSet(held)
      BY <1>1, FS_Subset DEF Placed
    <2> QED
      BY <1>1, <1>2, <1>4, <2>1 DEF Placed
  <1>8. Announced'
    BY <1>1, <1>2, <1>4 DEF Announced, Placed
  <1>9. \A w : Open(w)' <=> Open(w)
    BY <1>1, <1>2, <1>4 DEF Open, Unrecorded, Placed
  <1>10. PendingIsOpen'
    BY <1>1, <1>9 DEF PendingIsOpen
  <1>11. WorkersExclusive'
    <2>1. WorkersApart
      BY WorkersMembers
    <2>2. WorkersApart'
      BY <1>1, <1>2, <1>4, <2>1 DEF WorkersApart, ClaimSound
    <2>3. WorkersExclusive' <=> WorkersApart'
      BY WorkersMembers, PTL
    <2> QED
      BY <2>2, <2>3
  <1>12. ClaimSound'
    BY <1>1 DEF ClaimSound
  <1>13. NodesSound'
    <2>1. \A w : w \in ActiveWorkflows' <=> w \in ActiveWorkflows
      BY <1>1, <1>2, <1>4 DEF ActiveWorkflows, Tasks
    <2>2. \A w : w \in Waiting' <=> w \in Waiting
      BY <1>1, <1>2, <1>4 DEF Waiting, Tasks, WaitingOf, Placed
    <2>3. ActiveWorkflows' = ActiveWorkflows /\ Waiting' = Waiting
      BY <2>1, <2>2
    <2> QED
      BY <1>1, <2>3 DEF NodesSound
  <1>14. AnsweredWhenSettled'
    BY <1>1 DEF AnsweredWhenSettled, Answered
  <1> QED
    BY <1>5, <1>6, <1>7, <1>8, <1>10, <1>11, <1>12, <1>13, <1>14

\* Work that no worker can run leaves the queue with an error, and a request that has
\* nothing else pending is answered.
LEMMA FailUnplaceableStep ==
  ASSUME IInv, NEW P \in SUBSET Unplaceable, FailUnplaceable(P)
  PROVE  IInv'
  <1> DEFINE D == {w \in queued : PartitionOf[w] \in P}
             left == [r \in Requests |-> pending[r] \ D]
             New(r) == [i \in 1 .. NodesOf(r, D) |-> Response(r, {}, failed')]
  <1> USE DEF IInv
  <1>1. /\ queued' = queued \ D /\ held = {} /\ held' = {} /\ running' = running
        /\ failed' = failed \cup D /\ pending' = left /\ free' = {}
        /\ UNCHANGED <<known, merged, rawPending, rawActive, rawDone, busy, claimed, cancelled, batch>>
    BY DEF FailUnplaceable, Remove, nodeVars
  <1>2. \A r \in Requests : answers'[r] = IF left[r] = {} THEN answers[r] \o New(r) ELSE answers[r]
    BY DEF FailUnplaceable
  <1>3. DOMAIN answers' = Requests /\ answers' = [r \in Requests |-> answers'[r]]
    BY DEF FailUnplaceable
  <1>4. D \subseteq queued /\ D \subseteq Workflows
    BY DEF TypeOK
  <1>5. \A r \in Requests : pending'[r] = pending[r] \ D
    BY <1>1
  <1>6. pending' \in [Requests -> SUBSET Workflows]
    BY <1>1 DEF TypeOK
  <1> HIDE DEF D
  <1>7. ASSUME NEW r \in Requests
        PROVE  /\ answers'[r] \in Seq([outputs : SUBSET Workflows, errors : SUBSET Workflows])
               /\ answers'[r] # <<>> <=>
                    answers[r] # <<>> \/ (pending'[r] = {} /\ \E w \in D : RequestOf[w] = r)
    <2> DEFINE R == [outputs : SUBSET Workflows, errors : SUBSET Workflows]
    <2>1. NodesOf(r, D) \in Nat /\ (NodesOf(r, D) = 0 <=> \A w \in D : RequestOf[w] # r)
      BY <1>4, NodesFinite
    <2>2. Response(r, {}, failed') \in R
      BY <1>1, <1>4 DEF Response, TypeOK
    <2>3. answers[r] \in Seq(R)
      BY DEF TypeOK
    <2> HIDE DEF R
    <2>4. New(r) \in Seq(R) /\ Len(New(r)) = NodesOf(r, D)
      BY <2>1, <2>2
    <2> HIDE DEF New
    <2>5. answers[r] \o New(r) \in Seq(R) /\ Len(answers[r] \o New(r)) = Len(answers[r]) + NodesOf(r, D)
      BY <2>3, <2>4
    <2>6. \A a \in Seq(R) : Len(a) \in Nat /\ (a # <<>> <=> Len(a) # 0)
      OBVIOUS
    <2>7. left[r] = pending'[r]
      BY <1>1
    <2>8. answers'[r] \in Seq(R)
      BY <1>2, <2>3, <2>5
    <2>9. answers'[r] # <<>> <=> answers[r] # <<>> \/ (pending'[r] = {} /\ NodesOf(r, D) # 0)
      <3> HIDE DEF left
      <3>1. CASE left[r] = {}
        <4>1. answers'[r] # <<>> <=> Len(answers[r]) + NodesOf(r, D) # 0
          BY <1>2, <2>5, <2>6, <3>1
        <4> QED
          BY <2>1, <2>7, <3>1, <4>1
      <3>2. CASE left[r] # {}
        BY <1>2, <2>7, <3>2
      <3> QED
        BY <3>1, <3>2
    <2> QED
      BY <2>1, <2>8, <2>9 DEF R
  <1>8. TypeOK'
    <2>1. answers' \in [Requests -> Seq([outputs : SUBSET Workflows, errors : SUBSET Workflows])]
      BY <1>3, <1>7
    <2> QED
      BY <1>1, <1>4, <1>6, <2>1 DEF TypeOK
  <1>9. TasksSound'
    BY <1>1 DEF TasksSound, TaskSound
  <1>10. Placed'
    <2>1. IsFiniteSet(queued')
      BY <1>1, FS_Subset DEF Placed
    <2> QED
      BY <1>1, <2>1 DEF Placed
  <1>11. \A w \in D : RequestOf[w] \in known /\ w \notin merged \cup failed /\ w \in pending[RequestOf[w]]
    <2> SUFFICES ASSUME NEW w \in D
                 PROVE  RequestOf[w] \in known /\ w \notin merged \cup failed /\ w \in pending[RequestOf[w]]
      OBVIOUS
    <2>1. w \in queued /\ w \in Workflows /\ Open(w)
      BY <1>4 DEF Open
    <2>2. RequestOf[w] \in known /\ RequestOf[w] \in Requests
      BY <2>1, ServerAssumption DEF Announced
    <2> QED
      BY <2>1, <2>2 DEF PendingIsOpen
  <1>12. Announced'
    <2>1. \A r \in Requests \ known : answers'[r] = <<>>
      BY <1>7, <1>11 DEF Announced
    <2> QED
      BY <1>1, <1>11, <2>1 DEF Announced
  <1>13. \A w : Open(w)' <=> Open(w) /\ w \notin D
    <2>1. \A c \in BatchIds : \A t \in batch[c] : Unrecorded(t) \cap D = {}
      BY <1>4 DEF Placed, Unrecorded, TasksSound, TaskSound
    <2> QED
      BY <1>1, <2>1 DEF Open
  <1>14. PendingIsOpen'
    BY <1>1, <1>11, <1>13 DEF PendingIsOpen
  <1>15. WorkersExclusive' /\ ClaimSound'
    BY <1>1 DEF WorkersExclusive, Tasks, ClaimSound
  <1>16. NodesSound'
    <2>1. ActiveWorkflows' = ActiveWorkflows
      BY <1>1 DEF ActiveWorkflows, Tasks
    <2>2. Waiting' \subseteq Waiting /\ Waiting \subseteq Workflows
      BY <1>1, CountedAreWorkflows DEF Waiting, Tasks
    <2>3. \A r \in Requests : NodesOf(r, Waiting') <= NodesOf(r, Waiting)
                              /\ NodesOf(r, Waiting') \in Nat /\ NodesOf(r, Waiting) \in Nat
      BY <2>2, NodesSubset, NodesFinite
    <2> QED
      BY <1>1, <2>1, <2>3 DEF NodesSound, TypeOK
  <1>17. AnsweredWhenSettled'
    <2>1. \A r \in Requests : \A w \in pending[r] : RequestOf[w] = r
      BY DEF PendingIsOpen, TypeOK
    <2>2. \A r \in Requests : answers[r] # <<>> <=> r \in known /\ pending[r] = {}
      BY DEF AnsweredWhenSettled, Answered
    <2>3. \A r \in Requests : answers'[r] # <<>> <=> r \in known /\ pending'[r] = {}
      BY <1>5, <1>7, <1>11, <2>1, <2>2
    <2> QED
      BY <1>1, <2>3 DEF AnsweredWhenSettled, Answered
  <1> QED
    BY <1>8, <1>9, <1>10, <1>12, <1>14, <1>15, <1>16, <1>17

-----------------------------------------------------------------------------
(* A batch task.  Its step replaces the record t of the task by those in X, *)
(* one or none, and concerns the workflows of the task only.                *)

\* What a sound task counts as open, waiting or active is among its workflows.
LEMMA TaskMembers ==
  ASSUME NEW t, t.run \subseteq t.workflows, t.active \subseteq t.run
  PROVE  /\ Unrecorded(t) \subseteq t.workflows
         /\ WaitingOf(t) \subseteq t.workflows
         /\ ActiveOf(t) \subseteq t.workflows
  BY DEF Unrecorded, WaitingOf, ActiveOf

\* The task decides about its own workflows alone, before and after.
LEMMA TaskIsLocal ==
  ASSUME IInv, NEW b \in BatchIds, NEW t \in batch[b], NEW X,
         batch' = [batch EXCEPT ![b] = X], queued' = queued,
         \A u \in X : /\ u.workflows = t.workflows
                      /\ u.run \subseteq u.workflows /\ u.active \subseteq u.run
  PROVE  /\ \A w \in t.workflows :
              /\ Open(w) <=> w \in Unrecorded(t)
              /\ w \in Waiting <=> w \in WaitingOf(t)
              /\ w \in ActiveWorkflows <=> w \in ActiveOf(t)
              /\ Open(w)' <=> \E u \in X : w \in Unrecorded(u)
              /\ w \in Waiting' <=> \E u \in X : w \in WaitingOf(u)
              /\ w \in ActiveWorkflows' <=> \E u \in X : w \in ActiveOf(u)
         /\ \A w : w \notin t.workflows =>
              /\ Open(w)' <=> Open(w)
              /\ w \in Waiting' <=> w \in Waiting
              /\ w \in ActiveWorkflows' <=> w \in ActiveWorkflows
  <1> USE DEF IInv
  <1>1. batch'[b] = X /\ (\A c \in BatchIds \ {b} : batch'[c] = batch[c]) /\ batch[b] = {t}
    BY DEF TypeOK
  <1>2. \A c \in BatchIds : \A s \in batch[c] :
          /\ Unrecorded(s) \subseteq s.workflows
          /\ WaitingOf(s) \subseteq s.workflows
          /\ ActiveOf(s) \subseteq s.workflows
    BY TaskMembers DEF TasksSound, TaskSound
  <1>3. \A u \in X : /\ Unrecorded(u) \subseteq t.workflows
                     /\ WaitingOf(u) \subseteq t.workflows
                     /\ ActiveOf(u) \subseteq t.workflows
    BY TaskMembers
  <1>4. \A c \in BatchIds \ {b} : \A s \in batch[c] : s.workflows \cap t.workflows = {}
    BY DEF Placed
  <1>5. t.workflows \cap queued = {}
    BY DEF Placed
  <1>6. \A w : w \in Waiting' <=>
          w \in queued \/ \E c \in BatchIds : \E s \in batch'[c] : w \in WaitingOf(s)
    BY DEF Waiting, Tasks
  <1>7. \A w : w \in ActiveWorkflows' <=> \E c \in BatchIds : \E s \in batch'[c] : w \in ActiveOf(s)
    BY DEF ActiveWorkflows, Tasks, ActiveOf
  <1>8. \A w : Open(w)' <=>
          w \in queued \/ \E c \in BatchIds : \E s \in batch'[c] : w \in Unrecorded(s)
    BY DEF Open
  <1>9. \A w : Open(w) <=>
          w \in queued \/ \E c \in BatchIds : \E s \in batch[c] : w \in Unrecorded(s)
    BY DEF Open
  <1>10. \A w \in t.workflows :
           /\ Open(w) <=> w \in Unrecorded(t)
           /\ Open(w)' <=> \E u \in X : w \in Unrecorded(u)
    BY <1>1, <1>2, <1>4, <1>5, <1>8, <1>9
  <1>11. \A w \in t.workflows :
           /\ w \in Waiting <=> w \in WaitingOf(t)
           /\ w \in Waiting' <=> \E u \in X : w \in WaitingOf(u)
    BY <1>1, <1>2, <1>4, <1>5, <1>6, WaitingMembers
  <1>12. \A w \in t.workflows :
           /\ w \in ActiveWorkflows <=> w \in ActiveOf(t)
           /\ w \in ActiveWorkflows' <=> \E u \in X : w \in ActiveOf(u)
    BY <1>1, <1>2, <1>4, <1>7, ActiveMembers
  <1>13. \A w : w \notin t.workflows =>
           /\ Open(w)' <=> Open(w)
           /\ w \in Waiting' <=> w \in Waiting
           /\ w \in ActiveWorkflows' <=> w \in ActiveWorkflows
    BY <1>1, <1>2, <1>3, <1>6, <1>7, <1>8, <1>9, WaitingMembers, ActiveMembers
  <1> QED
    BY <1>10, <1>11, <1>12, <1>13

\* A task that keeps its workflows and its workers is where it was.
LEMMA TaskKeepsPlace ==
  ASSUME IInv, NEW b \in BatchIds, NEW t \in batch[b], NEW u,
         batch' = [batch EXCEPT ![b] = {u}], u.workflows = t.workflows, u.workers = t.workers,
         UNCHANGED <<queued, held, busy, claimed>>
  PROVE  Placed' /\ WorkersExclusive' /\ ClaimSound'
  <1> USE DEF IInv
  <1>1. batch'[b] = {u} /\ (\A c \in BatchIds \ {b} : batch'[c] = batch[c]) /\ batch[b] = {t}
    BY DEF TypeOK
  <1>2. Placed'
    BY DEF Placed
  <1>3. WorkersExclusive'
    <2>1. WorkersApart
      BY WorkersMembers
    <2>2. WorkersApart'
      BY <1>1, <2>1 DEF WorkersApart
    <2>3. WorkersExclusive' <=> WorkersApart'
      BY WorkersMembers, PTL
    <2> QED
      BY <2>2, <2>3
  <1>4. ClaimSound'
    BY DEF ClaimSound
  <1> QED
    BY <1>2, <1>3, <1>4

\* A task that moves on: what others have open, waiting and active stays, and its own
\* share follows its record.
LEMMA TaskMoves ==
  ASSUME IInv, NEW b \in BatchIds, NEW t \in batch[b], NEW u,
         batch' = [batch EXCEPT ![b] = {u}], queued' = queued,
         u.workflows = t.workflows, u.run \subseteq u.workflows, u.active \subseteq u.run
  PROVE  /\ \A w : Open(w)' <=> IF w \in t.workflows THEN w \in Unrecorded(u) ELSE Open(w)
         /\ \A w \in t.workflows : Open(w) <=> w \in Unrecorded(t)
         /\ Waiting' = (Waiting \ t.workflows) \cup WaitingOf(u)
         /\ Waiting \cap t.workflows = WaitingOf(t)
         /\ ActiveWorkflows' = (ActiveWorkflows \ t.workflows) \cup ActiveOf(u)
         /\ ActiveWorkflows \cap t.workflows = ActiveOf(t)
  <1> DEFINE X == {u}
  <1>1. batch' = [batch EXCEPT ![b] = X] /\ \A v \in X : v = u
    OBVIOUS
  <1>2. \A v \in X : v.workflows = t.workflows /\ v.run \subseteq v.workflows /\ v.active \subseteq v.run
    OBVIOUS
  <1>3. u \in X
    OBVIOUS
  <1> HIDE DEF X
  <1>4. /\ \A w \in t.workflows :
             /\ Open(w) <=> w \in Unrecorded(t)
             /\ w \in Waiting <=> w \in WaitingOf(t)
             /\ w \in ActiveWorkflows <=> w \in ActiveOf(t)
             /\ Open(w)' <=> \E v \in X : w \in Unrecorded(v)
             /\ w \in Waiting' <=> \E v \in X : w \in WaitingOf(v)
             /\ w \in ActiveWorkflows' <=> \E v \in X : w \in ActiveOf(v)
        /\ \A w : w \notin t.workflows =>
             /\ Open(w)' <=> Open(w)
             /\ w \in Waiting' <=> w \in Waiting
             /\ w \in ActiveWorkflows' <=> w \in ActiveWorkflows
    BY <1>1, <1>2, TaskIsLocal
  <1>5. \A w \in t.workflows :
          /\ Open(w)' <=> w \in Unrecorded(u)
          /\ w \in Waiting' <=> w \in WaitingOf(u)
          /\ w \in ActiveWorkflows' <=> w \in ActiveOf(u)
    BY <1>1, <1>3, <1>4
  <1>6. /\ Unrecorded(u) \subseteq t.workflows
        /\ WaitingOf(u) \subseteq t.workflows
        /\ ActiveOf(u) \subseteq t.workflows
    BY TaskMembers
  <1>7. /\ Unrecorded(t) \subseteq t.workflows
        /\ WaitingOf(t) \subseteq t.workflows
        /\ ActiveOf(t) \subseteq t.workflows
    BY TaskMembers DEF IInv, TasksSound, TaskSound
  <1>8. \A w : Open(w)' <=> IF w \in t.workflows THEN w \in Unrecorded(u) ELSE Open(w)
    BY <1>4, <1>5
  <1>9. Waiting' = (Waiting \ t.workflows) \cup WaitingOf(u) /\ Waiting \cap t.workflows = WaitingOf(t)
    BY <1>4, <1>5, <1>6, <1>7
  <1>10. /\ ActiveWorkflows' = (ActiveWorkflows \ t.workflows) \cup ActiveOf(u)
         /\ ActiveWorkflows \cap t.workflows = ActiveOf(t)
    BY <1>4, <1>5, <1>6, <1>7
  <1> QED
    BY <1>4, <1>8, <1>9, <1>10

\* A task that is over: nothing of it is left open, waiting or active.
LEMMA TaskLeaves ==
  ASSUME IInv, NEW b \in BatchIds, NEW t \in batch[b],
         batch' = [batch EXCEPT ![b] = {}], queued' = queued
  PROVE  /\ \A w : Open(w)' <=> Open(w) /\ w \notin t.workflows
         /\ \A w \in t.workflows : Open(w) <=> w \in Unrecorded(t)
         /\ Waiting' = Waiting \ t.workflows
         /\ ActiveWorkflows' = ActiveWorkflows \ t.workflows
         /\ ActiveWorkflows \cap t.workflows = ActiveOf(t)
  <1>0. PICK X : X = {}
    OBVIOUS
  <1>1. batch' = [batch EXCEPT ![b] = X]
    BY <1>0
  <1>2. \A u \in X : /\ u.workflows = t.workflows
                     /\ u.run \subseteq u.workflows /\ u.active \subseteq u.run
    BY <1>0
  <1>3. /\ \A w \in t.workflows :
             /\ Open(w) <=> w \in Unrecorded(t)
             /\ w \in Waiting <=> w \in WaitingOf(t)
             /\ w \in ActiveWorkflows <=> w \in ActiveOf(t)
             /\ Open(w)' <=> \E v \in X : w \in Unrecorded(v)
             /\ w \in Waiting' <=> \E v \in X : w \in WaitingOf(v)
             /\ w \in ActiveWorkflows' <=> \E v \in X : w \in ActiveOf(v)
        /\ \A w : w \notin t.workflows =>
             /\ Open(w)' <=> Open(w)
             /\ w \in Waiting' <=> w \in Waiting
             /\ w \in ActiveWorkflows' <=> w \in ActiveWorkflows
    BY <1>1, <1>2, TaskIsLocal
  <1>4. ActiveOf(t) \subseteq t.workflows
    BY TaskMembers DEF IInv, TasksSound, TaskSound
  <1> QED
    BY <1>0, <1>3, <1>4

\* A task that is over gives back its workers, which were its own.
LEMMA TaskGivesBack ==
  ASSUME IInv, NEW b \in BatchIds, NEW t \in batch[b],
         batch' = [batch EXCEPT ![b] = {}], busy' = busy \ t.workers,
         UNCHANGED <<queued, held, claimed>>
  PROVE  Placed' /\ WorkersExclusive' /\ ClaimSound'
  <1> USE DEF IInv
  <1>1. batch'[b] = {} /\ (\A c \in BatchIds \ {b} : batch'[c] = batch[c]) /\ batch[b] = {t}
    BY DEF TypeOK
  <1>2. Placed'
    BY DEF Placed
  <1>3. WorkersExclusive'
    <2>1. WorkersApart
      BY WorkersMembers
    <2>2. WorkersApart'
      BY <1>1, <2>1 DEF WorkersApart
    <2>3. WorkersExclusive' <=> WorkersApart'
      BY WorkersMembers, PTL
    <2> QED
      BY <2>2, <2>3
  <1>4. ClaimSound'
    BY DEF ClaimSound
  <1> QED
    BY <1>2, <1>3, <1>4

\* A step that leaves the open workflows and the state of the requests alone.
LEMMA RequestsKept ==
  ASSUME IInv, NEW b \in BatchIds, NEW t \in batch[b], NEW X,
         batch' = [batch EXCEPT ![b] = X], \A u \in X : u.workflows = t.workflows,
         \A w : Open(w)' <=> Open(w),
         UNCHANGED <<queued, known, pending, merged, failed, answers>>
  PROVE  Announced' /\ PendingIsOpen' /\ AnsweredWhenSettled'
  <1>1. batch'[b] = X /\ (\A c \in BatchIds \ {b} : batch'[c] = batch[c])
    BY DEF IInv, TypeOK
  <1>2. Announced'
    BY DEF IInv, Announced
  <1>3. PendingIsOpen'
    BY DEF IInv, PendingIsOpen
  <1>4. AnsweredWhenSettled'
    BY DEF IInv, AnsweredWhenSettled, Answered
  <1> QED
    BY <1>2, <1>3, <1>4

\* A task that moves is the only one of which the soundness is in question.
LEMMA TaskSoundStep ==
  ASSUME IInv, NEW b \in BatchIds, NEW t \in batch[b], NEW X,
         batch' = [batch EXCEPT ![b] = X], cancelled' = cancelled,
         \A u \in X : TaskSound(u)
  PROVE  TasksSound'
  <1> USE DEF IInv
  <1>1. batch'[b] = X /\ (\A c \in BatchIds \ {b} : batch'[c] = batch[c])
    BY DEF TypeOK
  <1> SUFFICES ASSUME NEW c \in BatchIds, NEW u \in batch'[c]
               PROVE  TaskSound(u)'
    BY DEF TasksSound
  <1>2. TaskSound(u)
    BY DEF TasksSound
  <1> QED
    BY <1>2 DEF TaskSound

\* A step that moves no counter, starts no node and adds none that waits.
LEMMA NodesKept ==
  ASSUME IInv, ActiveWorkflows' = ActiveWorkflows, Waiting' \subseteq Waiting,
         UNCHANGED <<known, rawPending, rawActive, rawDone>>
  PROVE  NodesSound'
  <1>1. Waiting \subseteq Workflows
    BY CountedAreWorkflows
  <1>2. \A r \in Requests : NodesOf(r, Waiting') <= NodesOf(r, Waiting)
                            /\ NodesOf(r, Waiting') \in Nat /\ NodesOf(r, Waiting) \in Nat
    BY <1>1, NodesSubset, NodesFinite
  <1> QED
    BY <1>2 DEF NodesSound, IInv, TypeOK

\* A run starts: the nodes of its active workflows, which all waited, are processing.
LEMMA BeginRunStep ==
  ASSUME IInv, NEW b \in BatchIds, BeginRun(b)
  PROVE  IInv'
  <1> DEFINE Act(t) == {w \in t.run : RequestOf[w] \notin cancelled}
  <1>1. PICK t \in batch[b] :
          /\ t.at = "begin"
          /\ \A r \in Requests : rawPending[r] >= NodesOf(r, Act(t))
          /\ rawPending' = Less(rawPending, Act(t))
          /\ rawActive' = More(rawActive, Act(t))
          /\ Become(b, [t EXCEPT !.active = Act(t), !.seen = cancelled,
                                 !.at = IF Act(t) = {} THEN "record" ELSE "running",
                                 !.outcome = IF Act(t) = {} THEN "ok" ELSE "none",
                                 !.dropped = @ \/ Act(t) = {}])
    BY DEF BeginRun
  <1>2. UNCHANGED <<queued, held, running, known, pending, merged, failed, answers, rawDone, busy,
                    free, claimed, cancelled>>
    BY DEF BeginRun, jobVars, requestVars, workerVars
  <1>3. PICK act : act = Act(t)
    OBVIOUS
  <1>4. PICK u : u = [t EXCEPT !.active = act, !.seen = cancelled,
                               !.at = IF act = {} THEN "record" ELSE "running",
                               !.outcome = IF act = {} THEN "ok" ELSE "none",
                               !.dropped = @ \/ act = {}]
    OBVIOUS
  <1>5. batch' = [batch EXCEPT ![b] = {u}]
    BY <1>1, <1>3, <1>4 DEF Become
  <1>6. t \in Task /\ TaskSound(t)
    BY DEF IInv, TypeOK, TasksSound
  <1>7. act \subseteq t.run /\ act \subseteq Workflows /\ \A w \in t.run \ act : RequestOf[w] \in cancelled
    BY <1>3, <1>6 DEF Task
  <1>8. u \in Task
    BY <1>4, <1>6, <1>7 DEF Task, Outcomes, IInv, TypeOK
  <1>9. /\ u.workflows = t.workflows /\ u.workers = t.workers /\ u.run = t.run /\ u.retry = t.retry
        /\ u.isolate = t.isolate /\ u.active = act /\ u.seen = cancelled
        /\ u.at = (IF act = {} THEN "record" ELSE "running")
        /\ u.outcome = (IF act = {} THEN "ok" ELSE "none")
        /\ u.dropped = (t.dropped \/ act = {})
    BY <1>4
  <1> HIDE DEF Act
  <1>10. TypeOK'
    <2>1. \A r \in Requests : NodesOf(r, act) \in Nat
      BY <1>7, NodesFinite
    <2>2. rawPending' \in [Requests -> Nat] /\ rawActive' \in [Requests -> Nat]
      BY <1>1, <1>3, <2>1 DEF Less, More, IInv, TypeOK
    <2>3. batch' \in [BatchIds -> SUBSET Task] /\ \A c \in BatchIds : \A p, q \in batch'[c] : p = q
      BY <1>5, <1>8 DEF IInv, TypeOK
    <2> QED
      BY <1>2, <2>2, <2>3 DEF IInv, TypeOK
  <1>11. TaskSound(u)
    BY <1>1, <1>6, <1>7, <1>9 DEF TaskSound
  <1>12. TasksSound'
    BY <1>2, <1>5, <1>11, TaskSoundStep
  <1>13. Placed' /\ WorkersExclusive' /\ ClaimSound'
    BY <1>2, <1>5, <1>9, TaskKeepsPlace
  <1>14. /\ \A w : Open(w)' <=> IF w \in t.workflows THEN w \in Unrecorded(u) ELSE Open(w)
         /\ \A w \in t.workflows : Open(w) <=> w \in Unrecorded(t)
         /\ Waiting' = (Waiting \ t.workflows) \cup WaitingOf(u)
         /\ Waiting \cap t.workflows = WaitingOf(t)
         /\ ActiveWorkflows' = (ActiveWorkflows \ t.workflows) \cup ActiveOf(u)
         /\ ActiveWorkflows \cap t.workflows = ActiveOf(t)
    <2>1. u.run \subseteq u.workflows /\ u.active \subseteq u.run
      BY <1>11 DEF TaskSound
    <2> QED
      BY <1>2, <1>5, <1>9, <2>1, TaskMoves
  <1>15. Unrecorded(u) = Unrecorded(t)
    BY <1>1, <1>9 DEF Unrecorded
  <1>16. Announced' /\ PendingIsOpen' /\ AnsweredWhenSettled'
    <2>1. \A w : Open(w)' <=> Open(w)
      BY <1>14, <1>15
    <2>2. \A v \in {u} : v.workflows = t.workflows
      BY <1>9
    <2> QED
      BY <1>2, <1>5, <2>1, <2>2, RequestsKept
  <1>17. NodesSound'
    <2>0. /\ WaitingOf(u) \subseteq WaitingOf(t) \ act /\ act \subseteq WaitingOf(t)
          /\ ActiveOf(u) = act /\ ActiveOf(t) = {} /\ act \subseteq t.workflows
      BY <1>1, <1>6, <1>7, <1>9 DEF WaitingOf, ActiveOf, TaskSound
    <2>1. act \subseteq Waiting /\ act \cap ActiveWorkflows = {}
      BY <1>14, <2>0
    <2>2. Waiting' \subseteq Waiting \ act /\ ActiveWorkflows' = ActiveWorkflows \cup act
      BY <1>14, <2>0
    <2>3. Waiting \subseteq Workflows /\ ActiveWorkflows \subseteq Workflows
      BY CountedAreWorkflows
    <2> SUFFICES ASSUME NEW r \in Requests
                 PROVE  /\ rawPending'[r] + rawActive'[r] + rawDone'[r]
                             = IF r \in known' THEN Cardinality(WorkflowsOf(r)) ELSE 0
                        /\ rawActive'[r] = NodesOf(r, ActiveWorkflows')
                        /\ rawPending'[r] >= NodesOf(r, Waiting')
      BY DEF NodesSound
    <2>4. rawPending'[r] = rawPending[r] - NodesOf(r, act) /\ rawActive'[r] = rawActive[r] + NodesOf(r, act)
      BY <1>1, <1>3 DEF Less, More
    <2>5. NodesOf(r, ActiveWorkflows') = NodesOf(r, ActiveWorkflows) + NodesOf(r, act)
      BY <2>1, <2>2, <2>3, NodesUnion
    <2>6. NodesOf(r, Waiting') <= NodesOf(r, Waiting) - NodesOf(r, act)
      <3>1. NodesOf(r, Waiting \ act) = NodesOf(r, Waiting) - NodesOf(r, act)
        BY <2>1, <2>3, NodesSubset
      <3>2. NodesOf(r, Waiting') <= NodesOf(r, Waiting \ act)
        BY <2>2, <2>3, NodesSubset
      <3> QED
        BY <3>1, <3>2
    <2>7. /\ NodesOf(r, act) \in Nat /\ NodesOf(r, Waiting) \in Nat /\ NodesOf(r, Waiting') \in Nat
          /\ NodesOf(r, ActiveWorkflows) \in Nat
      BY <1>7, <2>2, <2>3, NodesFinite
    <2>8. rawPending[r] \in Nat /\ rawActive[r] \in Nat /\ rawDone[r] \in Nat
      BY DEF IInv, TypeOK
    <2> QED
      BY <1>2, <2>4, <2>5, <2>6, <2>7, <2>8 DEF IInv, NodesSound
  <1> QED
    BY <1>10, <1>12, <1>13, <1>16, <1>17 DEF IInv

\* A run ends: its outcome blames the bad requests of a run that has no others, or that
\* is not split because it has one request only.
LEMMA EndRunStep ==
  ASSUME IInv, NEW b \in BatchIds, NEW outcome \in Outcomes, EndRun(b, outcome)
  PROVE  IInv'
  <1>1. PICK t \in batch[b] :
          /\ t.at = "running"
          /\ \/ outcome = "ok" /\ RequestsOf(t.active) \cap Bad = {}
             \/ outcome = "failed" /\ RequestsOf(t.active) \cap Bad # {}
             \/ outcome = "error"
             \/ outcome = "cancelled" /\ (t.dropped \/ RequestsOf(t.active) \subseteq cancelled)
          /\ Become(b, [t EXCEPT !.outcome = outcome,
                                 !.dropped = @ \/ outcome = "cancelled",
                                 !.seen = cancelled,
                                 !.at = IF Splits(t, outcome) THEN "split" ELSE "record"])
    BY DEF EndRun
  <1>2. UNCHANGED <<queued, held, running, known, pending, merged, failed, answers, rawPending,
                    rawActive, rawDone, busy, free, claimed, cancelled>>
    BY DEF EndRun, jobVars, requestVars, nodeVars, workerVars
  <1>3. PICK u : u = [t EXCEPT !.outcome = outcome,
                               !.dropped = @ \/ outcome = "cancelled",
                               !.seen = cancelled,
                               !.at = IF Splits(t, outcome) THEN "split" ELSE "record"]
    OBVIOUS
  <1>4. batch' = [batch EXCEPT ![b] = {u}]
    BY <1>1, <1>3 DEF Become
  <1>5. t \in Task /\ TaskSound(t)
    BY DEF IInv, TypeOK, TasksSound
  <1>6. u \in Task
    BY <1>3, <1>5 DEF Task, IInv, TypeOK
  <1>7. /\ u.workflows = t.workflows /\ u.workers = t.workers /\ u.run = t.run /\ u.retry = t.retry
        /\ u.isolate = t.isolate /\ u.active = t.active /\ u.seen = cancelled
        /\ u.at = (IF Splits(t, outcome) THEN "split" ELSE "record")
        /\ u.outcome = outcome
        /\ u.dropped = (t.dropped \/ outcome = "cancelled")
    BY <1>3
  <1>8. TypeOK'
    <2>1. batch' \in [BatchIds -> SUBSET Task] /\ \A c \in BatchIds : \A p, q \in batch'[c] : p = q
      BY <1>4, <1>6 DEF IInv, TypeOK
    <2> QED
      BY <1>2, <2>1 DEF IInv, TypeOK
  <1>9. TaskSound(u)
    <2>1. outcome = "cancelled" => \A w \in t.run : RequestOf[w] \in cancelled
      BY <1>1, <1>5 DEF TaskSound, RequestsOf
    <2>2. ASSUME outcome = "failed", ~Splits(t, outcome)
          PROVE  \A w \in t.active : RequestOf[w] \in Bad
      <3>1. PICK v \in t.active : RequestOf[v] \in Bad
        BY <1>1, <2>2 DEF RequestsOf
      <3>2. \A w \in t.active : RequestOf[w] = RequestOf[v]
        <4>1. CASE ~t.isolate
          BY <1>5, <4>1 DEF TaskSound
        <4>2. CASE ~(Cardinality(RequestsOf(t.active)) > 1)
          <5>1. IsFiniteSet(RequestsOf(t.active))
            <6>1. IsFiniteSet(t.active)
              BY <1>5, FS_Subset DEF TaskSound, IInv, Placed
            <6>2. [w \in t.active |-> RequestOf[w]] \in Surjection(t.active, RequestsOf(t.active))
              BY DEF Surjection, RequestsOf
            <6> QED
              BY <6>1, <6>2, FS_Surjection
          <5>2. Cardinality(RequestsOf(t.active)) <= 1
            BY <4>2, <5>1, FS_CardinalityType
          <5>3. \A p, q \in RequestsOf(t.active) : p = q
            <6>1. Cardinality(RequestsOf(t.active)) = 0 \/ Cardinality(RequestsOf(t.active)) = 1
              BY <5>1, <5>2, FS_CardinalityType
            <6> QED
              BY <5>1, <6>1, FS_EmptySet, FS_Singleton
          <5> QED
            BY <5>3 DEF RequestsOf
        <4> QED
          BY <2>2, <4>1, <4>2 DEF Splits
      <3> QED
        BY <3>1, <3>2
    <2>3. Splits(t, outcome) => t.isolate
      BY DEF Splits
    <2> QED
      BY <1>1, <1>5, <1>7, <2>1, <2>2, <2>3 DEF TaskSound, Outcomes
  <1>10. TasksSound'
    BY <1>2, <1>4, <1>9, TaskSoundStep
  <1>11. Placed' /\ WorkersExclusive' /\ ClaimSound'
    BY <1>2, <1>4, <1>7, TaskKeepsPlace
  <1>12. /\ \A w : Open(w)' <=> IF w \in t.workflows THEN w \in Unrecorded(u) ELSE Open(w)
         /\ \A w \in t.workflows : Open(w) <=> w \in Unrecorded(t)
         /\ Waiting' = (Waiting \ t.workflows) \cup WaitingOf(u)
         /\ Waiting \cap t.workflows = WaitingOf(t)
         /\ ActiveWorkflows' = (ActiveWorkflows \ t.workflows) \cup ActiveOf(u)
         /\ ActiveWorkflows \cap t.workflows = ActiveOf(t)
    <2>1. u.run \subseteq u.workflows /\ u.active \subseteq u.run
      BY <1>9 DEF TaskSound
    <2> QED
      BY <1>2, <1>4, <1>7, <2>1, TaskMoves
  <1>13. /\ Unrecorded(u) = Unrecorded(t) /\ WaitingOf(u) \subseteq WaitingOf(t)
         /\ ActiveOf(u) = ActiveOf(t)
    BY <1>1, <1>7 DEF Unrecorded, WaitingOf, ActiveOf
  <1>14. Announced' /\ PendingIsOpen' /\ AnsweredWhenSettled'
    <2>1. \A w : Open(w)' <=> Open(w)
      BY <1>12, <1>13
    <2>2. \A v \in {u} : v.workflows = t.workflows
      BY <1>7
    <2> QED
      BY <1>2, <1>4, <2>1, <2>2, RequestsKept
  <1>15. NodesSound'
    <2>1. ActiveWorkflows' = ActiveWorkflows /\ Waiting' \subseteq Waiting
      BY <1>12, <1>13
    <2> QED
      BY <1>2, <2>1, NodesKept
  <1> QED
    BY <1>8, <1>10, <1>11, <1>14, <1>15 DEF IInv

\* A batch is split: its nodes wait again, and each of its requests is to be re-run.
LEMMA SplitBatchStep ==
  ASSUME IInv, NEW b \in BatchIds, SplitBatch(b)
  PROVE  IInv'
  <1>1. PICK t \in batch[b] :
          /\ t.at = "split"
          /\ rawActive' = Less(rawActive, t.active)
          /\ rawPending' = More(rawPending, t.active)
          /\ Become(b, [t EXCEPT !.at = "next", !.retry = RequestsOf(t.workflows)])
    BY DEF SplitBatch, HandedBack, RetryRequests
  <1>2. UNCHANGED <<queued, held, running, known, pending, merged, failed, answers, rawDone, busy,
                    free, claimed, cancelled>>
    BY DEF SplitBatch, jobVars, requestVars, workerVars
  <1>3. PICK u : u = [t EXCEPT !.at = "next", !.retry = RequestsOf(t.workflows)]
    OBVIOUS
  <1>4. batch' = [batch EXCEPT ![b] = {u}]
    BY <1>1, <1>3 DEF Become
  <1>5. t \in Task /\ TaskSound(t)
    BY DEF IInv, TypeOK, TasksSound
  <1>6. RequestsOf(t.workflows) \subseteq Requests
    BY <1>5, ServerAssumption DEF Task, RequestsOf
  <1>7. u \in Task
    BY <1>3, <1>5, <1>6 DEF Task
  <1>8. /\ u.workflows = t.workflows /\ u.workers = t.workers /\ u.run = t.run
        /\ u.retry = RequestsOf(t.workflows) /\ u.isolate = t.isolate /\ u.active = t.active
        /\ u.seen = t.seen /\ u.at = "next" /\ u.outcome = t.outcome /\ u.dropped = t.dropped
    BY <1>3
  <1>9. TaskSound(u)
    BY <1>5, <1>8 DEF TaskSound
  <1>10. TasksSound'
    BY <1>2, <1>4, <1>9, TaskSoundStep
  <1>11. Placed' /\ WorkersExclusive' /\ ClaimSound'
    BY <1>2, <1>4, <1>8, TaskKeepsPlace
  <1>12. /\ \A w : Open(w)' <=> IF w \in t.workflows THEN w \in Unrecorded(u) ELSE Open(w)
         /\ \A w \in t.workflows : Open(w) <=> w \in Unrecorded(t)
         /\ Waiting' = (Waiting \ t.workflows) \cup WaitingOf(u)
         /\ Waiting \cap t.workflows = WaitingOf(t)
         /\ ActiveWorkflows' = (ActiveWorkflows \ t.workflows) \cup ActiveOf(u)
         /\ ActiveWorkflows \cap t.workflows = ActiveOf(t)
    <2>1. u.run \subseteq u.workflows /\ u.active \subseteq u.run
      BY <1>9 DEF TaskSound
    <2> QED
      BY <1>2, <1>4, <1>8, <2>1, TaskMoves
  <1>13. t.run = t.workflows /\ t.retry = {} /\ t.active \subseteq t.workflows
    BY <1>1, <1>5 DEF TaskSound
  <1>14. /\ Unrecorded(u) = t.workflows /\ Unrecorded(t) = t.workflows
         /\ WaitingOf(u) = t.workflows /\ WaitingOf(t) = t.workflows \ t.active
         /\ ActiveOf(u) = {} /\ ActiveOf(t) = t.active
    BY <1>1, <1>8, <1>13 DEF Unrecorded, WaitingOf, ActiveOf, RequestsOf
  <1>15. Announced' /\ PendingIsOpen' /\ AnsweredWhenSettled'
    <2>1. \A w : Open(w)' <=> Open(w)
      BY <1>12, <1>14
    <2>2. \A v \in {u} : v.workflows = t.workflows
      BY <1>8
    <2> QED
      BY <1>2, <1>4, <2>1, <2>2, RequestsKept
  <1>16. /\ Waiting' = Waiting \cup t.active /\ Waiting \cap t.active = {}
         /\ ActiveWorkflows' = ActiveWorkflows \ t.active /\ t.active \subseteq ActiveWorkflows
    BY <1>12, <1>14
  <1>17. Waiting \subseteq Workflows /\ ActiveWorkflows \subseteq Workflows /\ t.active \subseteq Workflows
    BY <1>5, CountedAreWorkflows DEF Task
  <1>18. ASSUME NEW r \in Requests
         PROVE  /\ NodesOf(r, t.active) \in Nat /\ NodesOf(r, t.active) <= rawActive[r]
                /\ rawPending'[r] = rawPending[r] + NodesOf(r, t.active)
                /\ rawActive'[r] = rawActive[r] - NodesOf(r, t.active)
                /\ rawPending[r] \in Nat /\ rawActive[r] \in Nat /\ rawDone[r] \in Nat
    <2>1. NodesOf(r, t.active) \in Nat /\ NodesOf(r, t.active) <= NodesOf(r, ActiveWorkflows)
      BY <1>16, <1>17, NodesFinite, NodesSubset
    <2>2. rawActive[r] = NodesOf(r, ActiveWorkflows)
      BY DEF IInv, NodesSound
    <2> QED
      BY <1>1, <2>1, <2>2 DEF Less, More, IInv, TypeOK
  <1>19. TypeOK'
    <2>1. rawPending' \in [Requests -> Nat] /\ rawActive' \in [Requests -> Nat]
      BY <1>1, <1>18 DEF Less, More
    <2>2. batch' \in [BatchIds -> SUBSET Task] /\ \A c \in BatchIds : \A p, q \in batch'[c] : p = q
      BY <1>4, <1>7 DEF IInv, TypeOK
    <2> QED
      BY <1>2, <2>1, <2>2 DEF IInv, TypeOK
  <1>20. NodesSound'
    <2> SUFFICES ASSUME NEW r \in Requests
                 PROVE  /\ rawPending'[r] + rawActive'[r] + rawDone'[r]
                             = IF r \in known' THEN Cardinality(WorkflowsOf(r)) ELSE 0
                        /\ rawActive'[r] = NodesOf(r, ActiveWorkflows')
                        /\ rawPending'[r] >= NodesOf(r, Waiting')
      BY DEF NodesSound
    <2>1. NodesOf(r, Waiting') = NodesOf(r, Waiting) + NodesOf(r, t.active)
      BY <1>16, <1>17, NodesUnion
    <2>2. NodesOf(r, ActiveWorkflows') = NodesOf(r, ActiveWorkflows) - NodesOf(r, t.active)
      BY <1>16, <1>17, NodesSubset
    <2>3. NodesOf(r, Waiting) \in Nat /\ NodesOf(r, ActiveWorkflows) \in Nat
      BY <1>17, NodesFinite
    <2> QED
      BY <1>2, <1>18, <2>1, <2>2, <2>3 DEF IInv, NodesSound
  <1> QED
    BY <1>10, <1>11, <1>15, <1>19, <1>20 DEF IInv

\* The verdicts of a run are merged or failed, never both, and cover the run.
LEMMA VerdictsCover ==
  ASSUME NEW t, t.active \subseteq t.run
  PROVE  Merges(t) \cup Fails(t) = t.run /\ Merges(t) \cap Fails(t) = {}
  BY DEF Merges, Fails

\* The results are recorded: the workflows of the run get their only verdict, and a
\* request is answered when these were its last.
LEMMA RecordResultsStep ==
  ASSUME IInv, NEW b \in BatchIds, RecordResults(b)
  PROVE  IInv'
  <1> DEFINE Ans(t, r) == IF r \in Affected(t) /\ pending[r] \ t.run = {}
                          THEN Append(answers[r], Response(r, merged', failed'))
                          ELSE answers[r]
  <1>1. PICK t \in batch[b] :
          /\ t.at = "record"
          /\ merged' = merged \cup Merges(t)
          /\ failed' = failed \cup Fails(t)
          /\ pending' = [r \in Requests |-> pending[r] \ t.run]
          /\ answers' = [r \in Requests |-> Ans(t, r)]
          /\ Become(b, [t EXCEPT !.at = "end"])
    BY DEF RecordResults
  <1>2. UNCHANGED <<queued, held, running, known, rawPending, rawActive, rawDone, busy, free, claimed,
                    cancelled>>
    BY DEF RecordResults, jobVars, nodeVars, workerVars
  <1>3. PICK u : u = [t EXCEPT !.at = "end"]
    OBVIOUS
  <1>4. batch' = [batch EXCEPT ![b] = {u}]
    BY <1>1, <1>3 DEF Become
  <1>5. t \in Task /\ TaskSound(t)
    BY DEF IInv, TypeOK, TasksSound
  <1>6. u \in Task
    BY <1>3, <1>5 DEF Task
  <1>7. /\ u.workflows = t.workflows /\ u.workers = t.workers /\ u.run = t.run /\ u.retry = t.retry
        /\ u.isolate = t.isolate /\ u.active = t.active /\ u.seen = t.seen /\ u.at = "end"
        /\ u.outcome = t.outcome /\ u.dropped = t.dropped
    BY <1>3
  <1>8. TaskSound(u)
    BY <1>1, <1>5, <1>7 DEF TaskSound
  <1>9. TasksSound'
    BY <1>2, <1>4, <1>8, TaskSoundStep
  <1>10. Placed' /\ WorkersExclusive' /\ ClaimSound'
    BY <1>2, <1>4, <1>7, TaskKeepsPlace
  <1>11. /\ \A w : Open(w)' <=> IF w \in t.workflows THEN w \in Unrecorded(u) ELSE Open(w)
         /\ \A w \in t.workflows : Open(w) <=> w \in Unrecorded(t)
         /\ Waiting' = (Waiting \ t.workflows) \cup WaitingOf(u)
         /\ Waiting \cap t.workflows = WaitingOf(t)
         /\ ActiveWorkflows' = (ActiveWorkflows \ t.workflows) \cup ActiveOf(u)
         /\ ActiveWorkflows \cap t.workflows = ActiveOf(t)
    <2>1. u.run \subseteq u.workflows /\ u.active \subseteq u.run
      BY <1>8 DEF TaskSound
    <2> QED
      BY <1>2, <1>4, <1>7, <2>1, TaskMoves
  <1>12. t.run \subseteq t.workflows /\ t.run \subseteq Unrecorded(t) /\ Unrecorded(u) = Unrecorded(t) \ t.run
         /\ t.run \subseteq Workflows
    BY <1>1, <1>5, <1>7 DEF Unrecorded, TaskSound, Task
  <1>13. WaitingOf(u) = WaitingOf(t) /\ ActiveOf(u) = ActiveOf(t)
    BY <1>1, <1>7 DEF WaitingOf, ActiveOf
  <1>14. NodesSound'
    <2>1. ActiveWorkflows' = ActiveWorkflows /\ Waiting' \subseteq Waiting
      BY <1>11, <1>13
    <2> QED
      BY <1>2, <2>1, NodesKept
  <1>15. Merges(t) \cup Fails(t) = t.run /\ Merges(t) \cap Fails(t) = {}
    BY <1>5, VerdictsCover DEF TaskSound
  <1>16. \A w \in t.run : /\ RequestOf[w] \in known /\ RequestOf[w] \in Requests
                          /\ Open(w) /\ w \notin merged \cup failed /\ w \in pending[RequestOf[w]]
    <2> SUFFICES ASSUME NEW w \in t.run
                 PROVE  /\ RequestOf[w] \in known /\ RequestOf[w] \in Requests
                        /\ Open(w) /\ w \notin merged \cup failed /\ w \in pending[RequestOf[w]]
      OBVIOUS
    <2>1. Open(w) /\ w \in Workflows
      BY <1>11, <1>12
    <2>2. RequestOf[w] \in known /\ RequestOf[w] \in Requests
      BY <1>12, ServerAssumption DEF IInv, Announced
    <2> QED
      BY <2>1, <2>2 DEF IInv, PendingIsOpen
  <1>17. \A w : Open(w)' <=> Open(w) /\ w \notin t.run
    BY <1>11, <1>12
  <1>18. \A r \in Requests : pending'[r] = pending[r] \ t.run /\ answers'[r] = Ans(t, r)
    BY <1>1
  <1>19. PendingIsOpen'
    <2>1. \A r \in Requests : \A w \in Workflows : w \in pending'[r] <=> RequestOf[w] = r /\ Open(w)'
      BY <1>17, <1>18 DEF IInv, PendingIsOpen
    <2>2. merged' \cap failed' = {}
      BY <1>1, <1>15, <1>16 DEF IInv, PendingIsOpen
    <2>3. \A w \in Workflows : RequestOf[w] \in known => (Open(w)' <=> w \notin merged' \cup failed')
      BY <1>1, <1>15, <1>17 DEF IInv, PendingIsOpen
    <2> QED
      BY <1>2, <2>1, <2>2, <2>3 DEF PendingIsOpen
  <1>20. merged' \subseteq Workflows /\ failed' \subseteq Workflows
    BY <1>1, <1>12, <1>15 DEF IInv, TypeOK
  <1>21. ASSUME NEW r \in Requests
         PROVE  /\ answers'[r] \in Seq([outputs : SUBSET Workflows, errors : SUBSET Workflows])
                /\ answers'[r] # <<>> <=>
                     answers[r] # <<>> \/ (pending'[r] = {} /\ r \in RequestsOf(t.run))
    <2>1. Response(r, merged', failed') \in [outputs : SUBSET Workflows, errors : SUBSET Workflows]
      BY <1>20 DEF Response
    <2>2. answers[r] \in Seq([outputs : SUBSET Workflows, errors : SUBSET Workflows])
      BY DEF IInv, TypeOK
    <2>3. /\ Append(answers[r], Response(r, merged', failed'))
                \in Seq([outputs : SUBSET Workflows, errors : SUBSET Workflows])
          /\ Append(answers[r], Response(r, merged', failed')) # <<>>
      BY <2>1, <2>2
    <2> QED
      BY <1>18, <2>2, <2>3 DEF Affected
  <1>22. TypeOK'
    <2>1. answers' \in [Requests -> Seq([outputs : SUBSET Workflows, errors : SUBSET Workflows])]
      BY <1>1, <1>21
    <2>2. pending' \in [Requests -> SUBSET Workflows]
      BY <1>1 DEF IInv, TypeOK
    <2>3. batch' \in [BatchIds -> SUBSET Task] /\ \A c \in BatchIds : \A p, q \in batch'[c] : p = q
      BY <1>4, <1>6 DEF IInv, TypeOK
    <2> QED
      BY <1>2, <1>20, <2>1, <2>2, <2>3 DEF IInv, TypeOK
  <1>23. Announced'
    <2>1. batch'[b] = {u} /\ \A c \in BatchIds \ {b} : batch'[c] = batch[c]
      BY <1>4 DEF IInv, TypeOK
    <2>2. \A c \in BatchIds : \A s \in batch'[c] : \A w \in s.workflows : RequestOf[w] \in known
      BY <1>7, <2>1 DEF IInv, Announced
    <2>3. \A w \in queued \cup merged' \cup failed' : RequestOf[w] \in known
      BY <1>1, <1>15, <1>16 DEF IInv, Announced
    <2>4. \A r \in Requests \ known : answers'[r] = <<>>
      BY <1>16, <1>21 DEF IInv, Announced, RequestsOf
    <2> QED
      BY <1>2, <2>2, <2>3, <2>4 DEF Announced
  <1>24. AnsweredWhenSettled'
    <2>1. \A r \in Requests : \A w \in pending[r] : RequestOf[w] = r
      BY DEF IInv, PendingIsOpen, TypeOK
    <2>2. \A r \in Requests : answers[r] # <<>> <=> r \in known /\ pending[r] = {}
      BY DEF IInv, AnsweredWhenSettled, Answered
    <2>3. \A r \in RequestsOf(t.run) : r \in known
      BY <1>16 DEF RequestsOf
    <2>4. \A r \in Requests : pending[r] \cap t.run # {} => r \in RequestsOf(t.run)
      BY <2>1 DEF RequestsOf
    <2>5. \A r \in Requests : answers'[r] # <<>> <=> r \in known /\ pending'[r] = {}
      BY <1>18, <1>21, <2>2, <2>3, <2>4
    <2> QED
      BY <1>2, <2>5 DEF AnsweredWhenSettled, Answered
  <1> QED
    BY <1>9, <1>10, <1>14, <1>19, <1>22, <1>23, <1>24 DEF IInv

\* A re-run starts: what it takes from the retries is what it runs.
LEMMA RunAloneStep ==
  ASSUME IInv, NEW b \in BatchIds, NEW r \in Requests, RunAlone(b, r)
  PROVE  IInv'
  <1>1. PICK t \in batch[b] :
          /\ t.at = "next"
          /\ r \in t.retry
          /\ Become(b, [t EXCEPT !.at = "begin", !.retry = @ \ {r}, !.isolate = FALSE,
                                 !.run = {w \in t.workflows : RequestOf[w] = r},
                                 !.active = {}, !.outcome = "none", !.dropped = FALSE])
    BY DEF RunAlone
  <1>2. UNCHANGED <<queued, held, running, known, pending, merged, failed, answers, rawPending,
                    rawActive, rawDone, busy, free, claimed, cancelled>>
    BY DEF RunAlone, jobVars, requestVars, nodeVars, workerVars
  <1>3. PICK u : u = [t EXCEPT !.at = "begin", !.retry = @ \ {r}, !.isolate = FALSE,
                               !.run = {w \in t.workflows : RequestOf[w] = r},
                               !.active = {}, !.outcome = "none", !.dropped = FALSE]
    OBVIOUS
  <1>4. batch' = [batch EXCEPT ![b] = {u}]
    BY <1>1, <1>3 DEF Become
  <1>5. t \in Task /\ TaskSound(t)
    BY DEF IInv, TypeOK, TasksSound
  <1>6. u \in Task
    BY <1>3, <1>5 DEF Task
  <1>7. /\ u.workflows = t.workflows /\ u.workers = t.workers /\ u.retry = t.retry \ {r}
        /\ u.run = {w \in t.workflows : RequestOf[w] = r}
        /\ u.isolate = FALSE /\ u.active = {} /\ u.seen = t.seen /\ u.at = "begin"
        /\ u.outcome = "none" /\ u.dropped = FALSE
    BY <1>3
  <1>8. TypeOK'
    <2>1. batch' \in [BatchIds -> SUBSET Task] /\ \A c \in BatchIds : \A p, q \in batch'[c] : p = q
      BY <1>4, <1>6 DEF IInv, TypeOK
    <2> QED
      BY <1>2, <2>1 DEF IInv, TypeOK
  <1>9. TaskSound(u)
    BY <1>5, <1>7 DEF TaskSound
  <1>10. TasksSound'
    BY <1>2, <1>4, <1>9, TaskSoundStep
  <1>11. Placed' /\ WorkersExclusive' /\ ClaimSound'
    BY <1>2, <1>4, <1>7, TaskKeepsPlace
  <1>12. /\ \A w : Open(w)' <=> IF w \in t.workflows THEN w \in Unrecorded(u) ELSE Open(w)
         /\ \A w \in t.workflows : Open(w) <=> w \in Unrecorded(t)
         /\ Waiting' = (Waiting \ t.workflows) \cup WaitingOf(u)
         /\ Waiting \cap t.workflows = WaitingOf(t)
         /\ ActiveWorkflows' = (ActiveWorkflows \ t.workflows) \cup ActiveOf(u)
         /\ ActiveWorkflows \cap t.workflows = ActiveOf(t)
    <2>1. u.run \subseteq u.workflows /\ u.active \subseteq u.run
      BY <1>9 DEF TaskSound
    <2> QED
      BY <1>2, <1>4, <1>7, <2>1, TaskMoves
  <1>13. /\ Unrecorded(u) = Unrecorded(t) /\ WaitingOf(u) = WaitingOf(t)
         /\ ActiveOf(u) = ActiveOf(t)
    BY <1>1, <1>7 DEF Unrecorded, WaitingOf, ActiveOf
  <1>14. Announced' /\ PendingIsOpen' /\ AnsweredWhenSettled'
    <2>1. \A w : Open(w)' <=> Open(w)
      BY <1>12, <1>13
    <2>2. \A v \in {u} : v.workflows = t.workflows
      BY <1>7
    <2> QED
      BY <1>2, <1>4, <2>1, <2>2, RequestsKept
  <1>15. NodesSound'
    <2>1. ActiveWorkflows' = ActiveWorkflows /\ Waiting' \subseteq Waiting
      BY <1>12, <1>13
    <2> QED
      BY <1>2, <2>1, NodesKept
  <1> QED
    BY <1>8, <1>10, <1>11, <1>14, <1>15 DEF IInv

\* A re-run raises: what it takes from the retries is what it has to record.
LEMMA AloneFailsStep ==
  ASSUME IInv, NEW b \in BatchIds, NEW r \in Requests, AloneFails(b, r)
  PROVE  IInv'
  <1>1. PICK t \in batch[b] :
          /\ t.at = "next"
          /\ r \in t.retry
          /\ Become(b, [t EXCEPT !.at = "record", !.retry = @ \ {r}, !.isolate = FALSE,
                                 !.run = {w \in t.workflows : RequestOf[w] = r},
                                 !.active = {}, !.outcome = "error", !.seen = {}, !.dropped = FALSE])
    BY DEF AloneFails
  <1>2. UNCHANGED <<queued, held, running, known, pending, merged, failed, answers, rawPending,
                    rawActive, rawDone, busy, free, claimed, cancelled>>
    BY DEF AloneFails, jobVars, requestVars, nodeVars, workerVars
  <1>3. PICK u : u = [t EXCEPT !.at = "record", !.retry = @ \ {r}, !.isolate = FALSE,
                               !.run = {w \in t.workflows : RequestOf[w] = r},
                               !.active = {}, !.outcome = "error", !.seen = {}, !.dropped = FALSE]
    OBVIOUS
  <1>4. batch' = [batch EXCEPT ![b] = {u}]
    BY <1>1, <1>3 DEF Become
  <1>5. t \in Task /\ TaskSound(t)
    BY DEF IInv, TypeOK, TasksSound
  <1>6. u \in Task
    BY <1>3, <1>5 DEF Task, Outcomes
  <1>7. /\ u.workflows = t.workflows /\ u.workers = t.workers /\ u.retry = t.retry \ {r}
        /\ u.run = {w \in t.workflows : RequestOf[w] = r}
        /\ u.isolate = FALSE /\ u.active = {} /\ u.seen = {} /\ u.at = "record"
        /\ u.outcome = "error" /\ u.dropped = FALSE
    BY <1>3
  <1>8. TypeOK'
    <2>1. batch' \in [BatchIds -> SUBSET Task] /\ \A c \in BatchIds : \A p, q \in batch'[c] : p = q
      BY <1>4, <1>6 DEF IInv, TypeOK
    <2> QED
      BY <1>2, <2>1 DEF IInv, TypeOK
  <1>9. TaskSound(u)
    BY <1>5, <1>7 DEF TaskSound
  <1>10. TasksSound'
    BY <1>2, <1>4, <1>9, TaskSoundStep
  <1>11. Placed' /\ WorkersExclusive' /\ ClaimSound'
    BY <1>2, <1>4, <1>7, TaskKeepsPlace
  <1>12. /\ \A w : Open(w)' <=> IF w \in t.workflows THEN w \in Unrecorded(u) ELSE Open(w)
         /\ \A w \in t.workflows : Open(w) <=> w \in Unrecorded(t)
         /\ Waiting' = (Waiting \ t.workflows) \cup WaitingOf(u)
         /\ Waiting \cap t.workflows = WaitingOf(t)
         /\ ActiveWorkflows' = (ActiveWorkflows \ t.workflows) \cup ActiveOf(u)
         /\ ActiveWorkflows \cap t.workflows = ActiveOf(t)
    <2>1. u.run \subseteq u.workflows /\ u.active \subseteq u.run
      BY <1>9 DEF TaskSound
    <2> QED
      BY <1>2, <1>4, <1>7, <2>1, TaskMoves
  <1>13. /\ Unrecorded(u) = Unrecorded(t) /\ WaitingOf(u) \subseteq WaitingOf(t)
         /\ ActiveOf(u) = ActiveOf(t)
    BY <1>1, <1>7 DEF Unrecorded, WaitingOf, ActiveOf
  <1>14. Announced' /\ PendingIsOpen' /\ AnsweredWhenSettled'
    <2>1. \A w : Open(w)' <=> Open(w)
      BY <1>12, <1>13
    <2>2. \A v \in {u} : v.workflows = t.workflows
      BY <1>7
    <2> QED
      BY <1>2, <1>4, <2>1, <2>2, RequestsKept
  <1>15. NodesSound'
    <2>1. ActiveWorkflows' = ActiveWorkflows /\ Waiting' \subseteq Waiting
      BY <1>12, <1>13
    <2> QED
      BY <1>2, <2>1, NodesKept
  <1> QED
    BY <1>8, <1>10, <1>11, <1>14, <1>15 DEF IInv

\* The last re-run is over: the task has nothing left and its workers are idle.
LEMMA ReleaseAfterRetriesStep ==
  ASSUME IInv, NEW b \in BatchIds, ReleaseAfterRetries(b)
  PROVE  IInv'
  <1>1. PICK t \in batch[b] : /\ t.at = "next" /\ t.retry = {}
                             /\ busy' = busy \ t.workers
                             /\ batch' = [batch EXCEPT ![b] = {}]
    BY DEF ReleaseAfterRetries
  <1>2. UNCHANGED <<queued, held, running, known, pending, merged, failed, answers, rawPending,
                    rawActive, rawDone, free, claimed, cancelled>>
    BY DEF ReleaseAfterRetries, jobVars, requestVars, nodeVars
  <1>3. TypeOK'
    <2>1. batch' \in [BatchIds -> SUBSET Task] /\ \A c \in BatchIds : \A p, q \in batch'[c] : p = q
      BY <1>1 DEF IInv, TypeOK
    <2> QED
      BY <1>1, <1>2, <2>1 DEF IInv, TypeOK
  <1>4. TasksSound'
    <2>1. \A u \in {} : TaskSound(u)
      OBVIOUS
    <2> QED
      BY <1>1, <1>2, <2>1, TaskSoundStep
  <1>5. Placed' /\ WorkersExclusive' /\ ClaimSound'
    BY <1>1, <1>2, TaskGivesBack
  <1>6. /\ \A w : Open(w)' <=> Open(w) /\ w \notin t.workflows
        /\ \A w \in t.workflows : Open(w) <=> w \in Unrecorded(t)
        /\ Waiting' = Waiting \ t.workflows
        /\ ActiveWorkflows' = ActiveWorkflows \ t.workflows
        /\ ActiveWorkflows \cap t.workflows = ActiveOf(t)
    BY <1>1, <1>2, TaskLeaves
  <1>7. Unrecorded(t) = {} /\ ActiveOf(t) = {}
    BY <1>1 DEF Unrecorded, ActiveOf
  <1>8. Announced' /\ PendingIsOpen' /\ AnsweredWhenSettled'
    <2>1. \A w : Open(w)' <=> Open(w)
      BY <1>6, <1>7
    <2>2. \A v \in {} : v.workflows = t.workflows
      OBVIOUS
    <2> QED
      BY <1>1, <1>2, <2>1, <2>2, RequestsKept
  <1>9. NodesSound'
    <2>1. ActiveWorkflows' = ActiveWorkflows /\ Waiting' \subseteq Waiting
      BY <1>6, <1>7
    <2> QED
      BY <1>2, <2>1, NodesKept
  <1> QED
    BY <1>3, <1>4, <1>5, <1>8, <1>9 DEF IInv

\* A run is over: its nodes are done, and the task either is over too or goes on to its
\* retries.
LEMMA EndBatchStep ==
  ASSUME IInv, NEW b \in BatchIds, EndBatch(b)
  PROVE  IInv'
  <1>1. PICK t \in batch[b] :
          /\ t.at = "end"
          /\ rawActive' = Less(rawActive, t.active)
          /\ rawDone' = More(rawDone, t.active)
          /\ running' = running \ t.run
          /\ IF t.isolate
             THEN busy' = busy \ t.workers /\ batch' = [batch EXCEPT ![b] = {}]
             ELSE Become(b, [t EXCEPT !.at = "next"]) /\ busy' = busy
    BY DEF EndBatch, Retire
  <1>2. UNCHANGED <<queued, held, known, pending, merged, failed, answers, rawPending, free, claimed,
                    cancelled>>
    BY DEF EndBatch, Retire, requestVars
  <1>3. t \in Task /\ TaskSound(t)
    BY DEF IInv, TypeOK, TasksSound
  <1>4. ActiveOf(t) = t.active /\ Unrecorded(t) = {w \in t.workflows : RequestOf[w] \in t.retry}
        /\ t.active \subseteq t.workflows
    BY <1>1, <1>3 DEF ActiveOf, Unrecorded, TaskSound
  <1>5. /\ batch' \in [BatchIds -> SUBSET Task] /\ busy' \subseteq Workers
        /\ \A c \in BatchIds : \A p, q \in batch'[c] : p = q
        /\ TasksSound' /\ Placed' /\ WorkersExclusive' /\ ClaimSound'
        /\ Announced' /\ PendingIsOpen' /\ AnsweredWhenSettled'
        /\ ActiveWorkflows' = ActiveWorkflows \ t.active /\ t.active \subseteq ActiveWorkflows
        /\ Waiting' \subseteq Waiting
    <2>1. CASE t.isolate
      <3>1. busy' = busy \ t.workers /\ batch' = [batch EXCEPT ![b] = {}]
        BY <1>1, <2>1
      <3>2. /\ batch' \in [BatchIds -> SUBSET Task] /\ busy' \subseteq Workers
            /\ \A c \in BatchIds : \A p, q \in batch'[c] : p = q
        BY <3>1 DEF IInv, TypeOK
      <3>3. TasksSound'
        <4>1. \A u \in {} : TaskSound(u)
          OBVIOUS
        <4> QED
          BY <1>2, <3>1, <4>1, TaskSoundStep
      <3>4. Placed' /\ WorkersExclusive' /\ ClaimSound'
        BY <1>2, <3>1, TaskGivesBack
      <3>5. /\ \A w : Open(w)' <=> Open(w) /\ w \notin t.workflows
            /\ \A w \in t.workflows : Open(w) <=> w \in Unrecorded(t)
            /\ Waiting' = Waiting \ t.workflows
            /\ ActiveWorkflows' = ActiveWorkflows \ t.workflows
            /\ ActiveWorkflows \cap t.workflows = ActiveOf(t)
        BY <1>2, <3>1, TaskLeaves
      <3>6. Unrecorded(t) = {}
        BY <1>1, <1>3, <1>4, <2>1 DEF TaskSound
      <3>7. Announced' /\ PendingIsOpen' /\ AnsweredWhenSettled'
        <4>1. \A w : Open(w)' <=> Open(w)
          BY <3>5, <3>6
        <4>2. \A v \in {} : v.workflows = t.workflows
          OBVIOUS
        <4> QED
          BY <1>2, <3>1, <4>1, <4>2, RequestsKept
      <3> QED
        BY <1>4, <3>2, <3>3, <3>4, <3>5, <3>7
    <2>2. CASE ~t.isolate
      <3>1. PICK u : u = [t EXCEPT !.at = "next"]
        OBVIOUS
      <3>2. busy' = busy /\ batch' = [batch EXCEPT ![b] = {u}]
        BY <1>1, <2>2, <3>1 DEF Become
      <3>3. u \in Task
        BY <1>3, <3>1 DEF Task
      <3>4. /\ u.workflows = t.workflows /\ u.workers = t.workers /\ u.run = t.run
            /\ u.retry = t.retry /\ u.isolate = t.isolate /\ u.active = t.active
            /\ u.seen = t.seen /\ u.at = "next" /\ u.outcome = t.outcome /\ u.dropped = t.dropped
        BY <3>1
      <3>5. TaskSound(u)
        BY <1>3, <3>4 DEF TaskSound
      <3>6. TasksSound'
        BY <1>2, <3>2, <3>5, TaskSoundStep
      <3>7. Placed' /\ WorkersExclusive' /\ ClaimSound'
        BY <1>2, <3>2, <3>4, TaskKeepsPlace
      <3>8. /\ \A w : Open(w)' <=> IF w \in t.workflows THEN w \in Unrecorded(u) ELSE Open(w)
            /\ \A w \in t.workflows : Open(w) <=> w \in Unrecorded(t)
            /\ Waiting' = (Waiting \ t.workflows) \cup WaitingOf(u)
            /\ Waiting \cap t.workflows = WaitingOf(t)
            /\ ActiveWorkflows' = (ActiveWorkflows \ t.workflows) \cup ActiveOf(u)
            /\ ActiveWorkflows \cap t.workflows = ActiveOf(t)
        <4>1. u.run \subseteq u.workflows /\ u.active \subseteq u.run
          BY <3>5 DEF TaskSound
        <4> QED
          BY <1>2, <3>2, <3>4, <4>1, TaskMoves
      <3>9. Unrecorded(u) = Unrecorded(t) /\ WaitingOf(u) = WaitingOf(t) /\ ActiveOf(u) = {}
        BY <1>1, <3>4 DEF Unrecorded, WaitingOf, ActiveOf
      <3>10. Announced' /\ PendingIsOpen' /\ AnsweredWhenSettled'
        <4>1. \A w : Open(w)' <=> Open(w)
          BY <3>8, <3>9
        <4>2. \A v \in {u} : v.workflows = t.workflows
          BY <3>4
        <4> QED
          BY <1>2, <3>2, <4>1, <4>2, RequestsKept
      <3>11. /\ batch' \in [BatchIds -> SUBSET Task] /\ busy' \subseteq Workers
             /\ \A c \in BatchIds : \A p, q \in batch'[c] : p = q
        BY <3>2, <3>3 DEF IInv, TypeOK
      <3>12. ActiveWorkflows' = ActiveWorkflows \ t.active /\ t.active \subseteq ActiveWorkflows
             /\ Waiting' \subseteq Waiting
        BY <1>4, <3>8, <3>9
      <3> QED
        BY <3>6, <3>7, <3>10, <3>11, <3>12
    <2> QED
      BY <2>1, <2>2
  <1>6. Waiting \subseteq Workflows /\ ActiveWorkflows \subseteq Workflows /\ t.active \subseteq Workflows
    BY <1>3, CountedAreWorkflows DEF Task
  <1>7. ASSUME NEW r \in Requests
        PROVE  /\ NodesOf(r, t.active) \in Nat /\ NodesOf(r, t.active) <= rawActive[r]
               /\ rawDone'[r] = rawDone[r] + NodesOf(r, t.active)
               /\ rawActive'[r] = rawActive[r] - NodesOf(r, t.active)
               /\ rawPending[r] \in Nat /\ rawActive[r] \in Nat /\ rawDone[r] \in Nat
    <2>1. NodesOf(r, t.active) \in Nat /\ NodesOf(r, t.active) <= NodesOf(r, ActiveWorkflows)
      BY <1>5, <1>6, NodesFinite, NodesSubset
    <2>2. rawActive[r] = NodesOf(r, ActiveWorkflows)
      BY DEF IInv, NodesSound
    <2> QED
      BY <1>1, <2>1, <2>2 DEF Less, More, IInv, TypeOK
  <1>8. TypeOK'
    <2>1. rawDone' \in [Requests -> Nat] /\ rawActive' \in [Requests -> Nat]
      BY <1>1, <1>7 DEF Less, More
    <2> QED
      BY <1>1, <1>2, <1>5, <2>1 DEF IInv, TypeOK
  <1>9. NodesSound'
    <2> SUFFICES ASSUME NEW r \in Requests
                 PROVE  /\ rawPending'[r] + rawActive'[r] + rawDone'[r]
                             = IF r \in known' THEN Cardinality(WorkflowsOf(r)) ELSE 0
                        /\ rawActive'[r] = NodesOf(r, ActiveWorkflows')
                        /\ rawPending'[r] >= NodesOf(r, Waiting')
      BY DEF NodesSound
    <2>1. NodesOf(r, Waiting') <= NodesOf(r, Waiting) /\ NodesOf(r, Waiting') \in Nat
      BY <1>5, <1>6, NodesSubset, NodesFinite
    <2>2. NodesOf(r, ActiveWorkflows') = NodesOf(r, ActiveWorkflows) - NodesOf(r, t.active)
      BY <1>5, <1>6, NodesSubset
    <2>3. NodesOf(r, Waiting) \in Nat /\ NodesOf(r, ActiveWorkflows) \in Nat
      BY <1>6, NodesFinite
    <2> QED
      BY <1>2, <1>7, <2>1, <2>2, <2>3 DEF IInv, NodesSound
  <1> QED
    BY <1>5, <1>8, <1>9 DEF IInv

-----------------------------------------------------------------------------
(* The theorems.                                                            *)

\* Every step keeps the invariant.
LEMMA NextInvariant ==
  ASSUME IInv, [Next]_vars
  PROVE  IInv'
  <1>1. CASE Scheduler
    BY <1>1, SnapshotStep, ReserveBatchStep, ReserveNothingStep, ClaimWorkersStep, ClaimNothingStep,
       StartBatchStep, FailUnplaceableStep
       DEF Scheduler
  <1>2. ASSUME NEW b \in BatchIds, BatchTask(b)
        PROVE  IInv'
    BY <1>2, BeginRunStep, EndRunStep, SplitBatchStep, RecordResultsStep, EndBatchStep,
       RunAloneStep, AloneFailsStep, ReleaseAfterRetriesStep
       DEF BatchTask
  <1>3. CASE UNCHANGED vars
    <2>1. TypeOK'
      BY <1>3 DEF vars, jobVars, requestVars, nodeVars, workerVars, IInv, TypeOK
    <2>2. Placed' /\ WorkersExclusive' /\ ClaimSound'
      BY <1>3 DEF vars, jobVars, workerVars, IInv, Placed, WorkersExclusive, Tasks, ClaimSound
    <2>3. TasksSound' /\ Announced' /\ PendingIsOpen' /\ NodesSound' /\ AnsweredWhenSettled'
      BY <1>3, RequestsUntouched DEF vars, jobVars
    <2> QED
      BY <2>1, <2>2, <2>3 DEF IInv
  <1> QED
    BY <1>1, <1>2, <1>3, HandleRequestStep, CancelRequestStep DEF Next

\* The invariant holds throughout the life of the server.
LEMMA Invariant == Spec => []IInv
  BY InitInvariant, NextInvariant, PTL DEF Spec

\* Whichever way batch tasks end, _busy_workers is the disjoint union of the scheduler's
\* claim and the groups of the live tasks: for every fleet and every group size, although
\* the claim works on a stale snapshot.
THEOREM WorkersStayExclusive == Spec => []WorkersExclusive
  <1>1. IInv => WorkersExclusive
    BY DEF IInv
  <1> QED
    BY <1>1, Invariant, PTL

\* Through cancellation, split and re-run no workflow is lost or decided twice, and no
\* node is lost or counted twice: neither underflow error of _run_batch_inner is raised.
THEOREM WorkIsConserved == Spec => []WorkConserved
  <1> SUFFICES ASSUME IInv PROVE WorkConserved
    BY Invariant, PTL
  <1> USE DEF IInv
  <1>1. NothingStranded
    <2>1. \A w : w \in queued \cup UNION {Unrecorded(t) : t \in Tasks} <=> Open(w)
      BY DEF Open, Tasks
    <2>2. \A r \in known : pending[r] = WorkflowsOf(r) \cap (queued \cup UNION {Unrecorded(t) : t \in Tasks})
      BY <2>1 DEF PendingIsOpen, WorkflowsOf, TypeOK
    <2>3. \A b \in BatchIds : \A t \in batch[b] : Unrecorded(t) \subseteq t.workflows
      BY TaskMembers DEF TasksSound, TaskSound
    <2>4. \A b, c \in BatchIds : \A s \in batch[b], t \in batch[c] :
            b # c => Unrecorded(s) \cap Unrecorded(t) = {}
      BY <2>3 DEF Placed
    <2> QED
      BY <2>2, <2>4 DEF NothingStranded
  <1>2. OneVerdict
    BY DEF OneVerdict, PendingIsOpen, WorkflowsOf, TypeOK
  <1>3. NodesConserved
    <2>1. ASSUME NEW t \in Tasks, t.at = "begin", NEW r \in Requests
          PROVE  rawPending[r] >= NodesOf(r, t.run)
      <3>1. t.run \subseteq Waiting /\ Waiting \subseteq Workflows
        BY <2>1, CountedAreWorkflows DEF Waiting, WaitingOf
      <3>2. NodesOf(r, t.run) <= NodesOf(r, Waiting) /\ NodesOf(r, Waiting) \in Nat /\ NodesOf(r, t.run) \in Nat
        BY <3>1, NodesSubset, NodesFinite
      <3> QED
        BY <3>2 DEF NodesSound, TypeOK
    <2>2. \A r \in known : /\ rawPending[r] + rawActive[r] + rawDone[r] = Cardinality(WorkflowsOf(r))
                           /\ rawActive[r] = NodesOf(r, ActiveWorkflows)
      BY DEF NodesSound, TypeOK
    <2> QED
      BY <2>1, <2>2 DEF NodesConserved
  <1> QED
    BY <1>1, <1>2, <1>3 DEF WorkConserved

\* What a workflow that fails in this step fails of.
Blamed(w) ==
  \/ RequestOf[w] \in Bad \cup cancelled
  \/ w \in queued /\ PartitionOf[w] \in Unplaceable
  \/ \E t \in Tasks : w \in t.run /\ t.outcome = "error"

\* A failure of a shared execution stays with the requests that caused it, in whatever
\* order batches are split, re-run and cancelled (_run_batch, _handle_batch_results).
THEOREM FailureStaysIsolated == Spec => FailureIsolated
  <1>1. ASSUME IInv, [Next]_vars
        PROVE  [\A w \in failed' \ failed : Blamed(w)]_vars
    <2>1. ASSUME NEW P \in SUBSET Unplaceable, FailUnplaceable(P)
          PROVE  \A w \in failed' \ failed : Blamed(w)
      BY <2>1 DEF FailUnplaceable, Blamed
    <2>2. ASSUME NEW b \in BatchIds, RecordResults(b)
          PROVE  \A w \in failed' \ failed : Blamed(w)
      <3>1. PICK t \in batch[b] : t.at = "record" /\ failed' = failed \cup Fails(t)
        BY <2>2 DEF RecordResults
      <3>2. TaskSound(t) /\ t \in Task /\ t \in Tasks
        BY <1>1 DEF IInv, TasksSound, TypeOK, Tasks
      <3> SUFFICES ASSUME NEW w \in Fails(t)
                   PROVE  Blamed(w)
        BY <3>1
      <3>3. w \in t.run
        BY DEF Fails
      <3>4. CASE RequestOf[w] \in t.seen
        BY <3>2, <3>4 DEF TaskSound, Blamed
      <3>5. CASE w \notin t.active
        <4>1. t.outcome = "error" \/ RequestOf[w] \in cancelled
          BY <3>1, <3>2, <3>3, <3>5 DEF TaskSound
        <4> QED
          BY <3>2, <3>3, <4>1 DEF Blamed
      <3>6. CASE t.outcome # "ok" /\ w \in t.active
        <4>1. t.outcome \in {"failed", "error", "cancelled"}
          BY <3>1, <3>2, <3>6 DEF TaskSound, Task, Outcomes
        <4> QED
          BY <3>1, <3>2, <3>6, <4>1 DEF TaskSound, Blamed
      <3> QED
        BY <3>4, <3>5, <3>6 DEF Fails, Merges
    <2>3. ASSUME Next, ~(\E P \in SUBSET Unplaceable : FailUnplaceable(P)),
                 ~(\E b \in BatchIds : RecordResults(b))
          PROVE  failed' = failed
      <3>1. CASE Scheduler
        BY <2>3, <3>1
           DEF Scheduler, Snapshot, ReserveBatch, ReserveNothing, ClaimWorkers, ClaimNothing,
               StartBatch, requestVars
      <3>2. ASSUME NEW b \in BatchIds, BatchTask(b)
            PROVE  failed' = failed
        BY <2>3, <3>2
           DEF BatchTask, BeginRun, EndRun, SplitBatch, EndBatch, RunAlone, AloneFails,
           ReleaseAfterRetries,
               requestVars
      <3>3. ASSUME NEW r \in Requests, HandleRequest(r) \/ CancelRequest(r)
            PROVE  failed' = failed
        BY <3>3 DEF HandleRequest, CancelRequest, requestVars
      <3> QED
        BY <2>3, <3>1, <3>2, <3>3 DEF Next
    <2> QED
      BY <1>1, <2>1, <2>2, <2>3
  <1> QED
    BY <1>1, Invariant, PTL DEF Spec, FailureIsolated, Blamed

-----------------------------------------------------------------------------
(* Answers.                                                                 *)

\* The answer of a request, if there is one, says what was merged and what failed; only
\* one by _fail_unplaceable_batch is without outputs.
AnswerSound(r) ==
  answers[r] # <<>> =>
    /\ Head(answers[r]).errors = failed \cap WorkflowsOf(r)
    /\ \/ Head(answers[r]).outputs = merged \cap WorkflowsOf(r)
       \/ Unsure(r) # {} /\ Head(answers[r]).outputs = {}
    /\ Len(answers[r]) = 1 \/ Len(answers[r]) <= Cardinality(Unsure(r))

AnswersGood == \A r \in Requests : AnswerSound(r)

\* Of the first answer the client reads the outputs and the errors it was given.
LEMMA FirstAnswer ==
  ASSUME NEW r, NEW ok, NEW bad, NEW a, a = Append(<<>>, Response(r, ok, bad))
  PROVE  /\ Len(a) = 1
         /\ Head(a).outputs = ok \cap WorkflowsOf(r)
         /\ Head(a).errors = bad \cap WorkflowsOf(r)
  <1>1. PICK x : x = Response(r, ok, bad)
    OBVIOUS
  <1>2. Len(Append(<<>>, x)) = 1 /\ Head(Append(<<>>, x)) = x
    OBVIOUS
  <1>3. x.outputs = ok \cap WorkflowsOf(r) /\ x.errors = bad \cap WorkflowsOf(r)
    BY <1>1 DEF Response
  <1> QED
    BY <1>1, <1>3

\* A request whose verdicts and answers stay keeps its answer sound.
LEMMA AnswerKept ==
  ASSUME NEW r, AnswerSound(r), answers'[r] = answers[r],
         merged' \cap WorkflowsOf(r) = merged \cap WorkflowsOf(r),
         failed' \cap WorkflowsOf(r) = failed \cap WorkflowsOf(r)
  PROVE  AnswerSound(r)'
  BY DEF AnswerSound

\* A step keeps the answers sound.
LEMMA AnswersStep ==
  ASSUME IInv, IInv', AnswersGood, [Next]_vars
  PROVE  AnswersGood'
  <1> SUFFICES ASSUME NEW r \in Requests
               PROVE  AnswerSound(r)'
    BY DEF AnswersGood
  <1>1. AnswerSound(r) /\ r \in Requests
    BY DEF AnswersGood
  <1>2. ASSUME NEW q \in Requests, HandleRequest(q)
        PROVE  AnswerSound(r)'
    <2>1. merged' = merged /\ failed' = failed /\ q \notin known
      BY <1>2 DEF HandleRequest
    <2>2. CASE q = r /\ WorkflowsOf(q) = {}
      <3>1. PICK e : e = {}
        OBVIOUS
      <3>2. answers'[r] = Append(<<>>, Response(r, e, e))
        BY <1>2, <2>2, <3>1 DEF HandleRequest, IInv, Announced, TypeOK
      <3>3. /\ Len(answers'[r]) = 1 /\ Head(answers'[r]).outputs = e \cap WorkflowsOf(r)
            /\ Head(answers'[r]).errors = e \cap WorkflowsOf(r)
        BY <3>2, FirstAnswer
      <3> QED
        BY <2>2, <3>3 DEF AnswerSound
    <2>3. CASE ~(q = r /\ WorkflowsOf(q) = {})
      <3>1. answers'[r] = answers[r]
        BY <1>1, <1>2, <2>3 DEF HandleRequest, IInv, TypeOK
      <3> QED
        BY <1>1, <2>1, <3>1, AnswerKept
    <2> QED
      BY <2>2, <2>3
  <1>3. ASSUME NEW P \in SUBSET Unplaceable, FailUnplaceable(P)
        PROVE  AnswerSound(r)'
    <2> DEFINE D == {w \in queued : PartitionOf[w] \in P}
    <2>1. merged' = merged /\ failed' = failed \cup D
      BY <1>3 DEF FailUnplaceable
    <2>2. D \in SUBSET Workflows
      BY DEF IInv, TypeOK
    <2>3. answers'[r] = answers[r] \o [i \in 1 .. NodesOf(r, D) |-> Response(r, {}, failed')]
          \/ answers'[r] = answers[r]
      BY <1>1, <1>3 DEF FailUnplaceable
    <2>4. CASE \A w \in D : RequestOf[w] # r
      <3>1. failed' \cap WorkflowsOf(r) = failed \cap WorkflowsOf(r)
        BY <2>1, <2>4 DEF WorkflowsOf
      <3>2. NodesOf(r, D) = 0
        BY <2>2, <2>4, NodesFinite
      <3> HIDE DEF D
      <3>3. [i \in 1 .. NodesOf(r, D) |-> Response(r, {}, failed')] = <<>>
        BY <3>2
      <3>4. answers[r] \o <<>> = answers[r]
        OBVIOUS
      <3>5. answers'[r] = answers[r]
        BY <2>3, <3>3, <3>4
      <3> QED
        BY <1>1, <2>1, <3>1, <3>5, AnswerKept
    <2>5. CASE \E w \in D : RequestOf[w] = r
      <3>1. PICK w \in D : RequestOf[w] = r
        BY <2>5
      <3>2. w \in Workflows /\ Open(w) /\ w \in Unsure(r)
        BY <2>2, <3>1 DEF Open, Unsure, WorkflowsOf
      <3>3. w \in pending[r]
        BY <3>1, <3>2 DEF IInv, PendingIsOpen
      <3>4. answers[r] = <<>>
        BY <3>3 DEF IInv, AnsweredWhenSettled, Answered
      <3> DEFINE U == {v \in Workflows : PartitionOf[v] \in Unplaceable}
      <3>5. D \subseteq U /\ U \subseteq Workflows /\ {v \in U : RequestOf[v] = r} = Unsure(r)
        BY <2>2 DEF Unsure, WorkflowsOf
      <3>6. NodesOf(r, U) = Cardinality(Unsure(r))
        BY <3>5 DEF NodesOf
      <3>7. NodesOf(r, D) \in Nat /\ NodesOf(r, D) # 0
        BY <2>2, <3>1, NodesFinite
      <3> HIDE DEF U
      <3>8. NodesOf(r, D) <= NodesOf(r, U)
        BY <3>5, NodesSubset
      <3> HIDE DEF D
      <3>9. PICK x : x = Response(r, {}, failed')
        OBVIOUS
      <3>10. x.outputs = {} /\ x.errors = failed' \cap WorkflowsOf(r)
        BY <3>9 DEF Response
      <3>11. PICK n \in Nat : n = NodesOf(r, D) /\ n # 0
        BY <3>7
      <3>12. /\ <<>> \o [i \in 1 .. n |-> x] = [i \in 1 .. n |-> x]
             /\ Len([i \in 1 .. n |-> x]) = n /\ Head([i \in 1 .. n |-> x]) = x
        BY <3>11
      <3>13. answers'[r] = [i \in 1 .. n |-> x] \/ answers'[r] = <<>>
        BY <2>3, <3>4, <3>9, <3>11, <3>12
      <3>14. (Len(answers'[r]) = n /\ Head(answers'[r]) = x) \/ answers'[r] = <<>>
        BY <3>12, <3>13
      <3> QED
        BY <3>2, <3>6, <3>8, <3>10, <3>11, <3>14 DEF AnswerSound
    <2> QED
      BY <2>4, <2>5
  <1>4. ASSUME NEW b \in BatchIds, RecordResults(b)
        PROVE  AnswerSound(r)'
    <2>1. PICK t \in batch[b] :
            /\ t.at = "record"
            /\ merged' = merged \cup Merges(t)
            /\ failed' = failed \cup Fails(t)
            /\ answers'[r] = IF r \in Affected(t) /\ pending[r] \ t.run = {}
                             THEN Append(answers[r], Response(r, merged', failed'))
                             ELSE answers[r]
      BY <1>1, <1>4 DEF RecordResults
    <2>2. TaskSound(t) /\ t \in Task
      BY DEF IInv, TasksSound, TypeOK
    <2>3. Merges(t) \cup Fails(t) = t.run
      BY <2>2, VerdictsCover DEF TaskSound
    <2>4. CASE r \in Affected(t)
      <3>1. PICK w \in t.run : RequestOf[w] = r
        BY <2>4 DEF Affected, RequestsOf
      <3>2. w \in Workflows /\ Open(w)
        BY <2>1, <2>2 DEF Open, Unrecorded, Task
      <3>3. w \in pending[r]
        BY <1>1, <3>1, <3>2 DEF IInv, PendingIsOpen
      <3>4. answers[r] = <<>>
        BY <1>1, <3>3 DEF IInv, AnsweredWhenSettled, Answered
      <3>5. CASE pending[r] \ t.run = {}
        <4>1. answers'[r] = Append(<<>>, Response(r, merged', failed'))
          BY <2>1, <2>4, <3>4, <3>5
        <4>2. /\ Len(answers'[r]) = 1 /\ Head(answers'[r]).outputs = merged' \cap WorkflowsOf(r)
              /\ Head(answers'[r]).errors = failed' \cap WorkflowsOf(r)
          BY <4>1, FirstAnswer
        <4> QED
          BY <4>2 DEF AnswerSound
      <3>6. CASE pending[r] \ t.run # {}
        <4>1. answers'[r] = <<>> /\ Len(answers'[r]) = 0
          BY <2>1, <3>4, <3>6
        <4> QED
          BY <4>1 DEF AnswerSound
      <3> QED
        BY <3>5, <3>6
    <2>5. CASE r \notin Affected(t)
      <3>1. t.run \cap WorkflowsOf(r) = {}
        BY <2>5 DEF Affected, RequestsOf, WorkflowsOf
      <3>2. /\ answers'[r] = answers[r]
            /\ merged' \cap WorkflowsOf(r) = merged \cap WorkflowsOf(r)
            /\ failed' \cap WorkflowsOf(r) = failed \cap WorkflowsOf(r)
        BY <2>1, <2>3, <2>5, <3>1
      <3> QED
        BY <1>1, <3>2, AnswerKept
    <2> QED
      BY <2>4, <2>5
  <1>5. ASSUME answers' = answers, merged' = merged, failed' = failed
        PROVE  AnswerSound(r)'
    BY <1>1, <1>5, AnswerKept
  <1>6. CASE Scheduler
    <2>1. CASE \E P \in SUBSET Unplaceable : FailUnplaceable(P)
      BY <1>3, <2>1
    <2>2. CASE ~\E P \in SUBSET Unplaceable : FailUnplaceable(P)
      BY <1>5, <1>6, <2>2
         DEF Scheduler, Snapshot, ReserveBatch, ReserveNothing, ClaimWorkers, ClaimNothing,
             StartBatch, requestVars
    <2> QED
      BY <2>1, <2>2
  <1>7. ASSUME NEW b \in BatchIds, BatchTask(b)
        PROVE  AnswerSound(r)'
    BY <1>4, <1>5, <1>7
       DEF BatchTask, BeginRun, EndRun, SplitBatch, EndBatch, RunAlone, AloneFails,
           ReleaseAfterRetries,
           requestVars
  <1>8. ASSUME NEW q \in Requests, CancelRequest(q)
        PROVE  AnswerSound(r)'
    BY <1>5, <1>8 DEF CancelRequest, requestVars
  <1>9. CASE UNCHANGED vars
    BY <1>5, <1>9 DEF vars, requestVars
  <1> QED
    BY <1>2, <1>6, <1>7, <1>8, <1>9 DEF Next

\* Every request is answered exactly when its last workflow is settled, with every error
\* and every output, whatever happens to the other requests of its batches; only an
\* answer that _fail_unplaceable_batch gave may be without outputs, or given again.
THEOREM AnswersAreSound == Spec => []AnswersSound
  <1>1. Init => AnswersGood
    BY DEF Init, AnswersGood, AnswerSound
  <1>2. IInv /\ AnswersGood => AnswersSound
    BY DEF IInv, AnswersGood, AnswerSound, AnswersSound, Answered
  <1> QED
    BY <1>1, <1>2, AnswersStep, Invariant, PTL DEF Spec

=============================================================================
