----------------------------- MODULE JobManager -----------------------------
(***************************************************************************)
(* PriorityJobManager (src/lumilake_server/runtime/job_manager/            *)
(* priority_queue.py) together with the one task that consumes it, the     *)
(* scheduler loop of LumilakeServer (runtime/server.py).                   *)
(*                                                                         *)
(* Each method body that runs under the manager's asyncio lock is one      *)
(* action.  The scheduler loop is sequential, so its position is a         *)
(* variable; request handlers enqueue, and finished batches finalize, at   *)
(* any point between two of its steps.                                     *)
(*                                                                         *)
(* Data abstraction.  A partition key (principal, token, credential,       *)
(* optimizer, hardware, GPU class) is a value of Partitions; a             *)
(* FreeCapacity snapshot is the set of partitions it can run.  The queues  *)
(* _queues[priority][user] are all filtered views of one deque in arrival  *)
(* order (each is only appended to and filtered).  Workflow ids are        *)
(* recycled once the manager holds no trace of them.                       *)
(*                                                                         *)
(* A definition named D_Fault is D with a fault put in; it is used only to *)
(* see that a property notices the fault.                                  *)
(***************************************************************************)
EXTENDS Deque, Naturals, FiniteSets

CONSTANTS
  Workflows,        \* workflow ids
  Jobs,             \* requests: the unit of enqueue
  Users,            \* queue owners, config.user_id
  Priorities,       \* 1 is HIGH; larger numbers are served later
  Partitions,       \* partition keys
  JobOf,            \* workflow -> the job whose graph or slice it is
  UserOf,           \* job -> user
  PriorityOf,       \* job -> priority
  PartitionOf,      \* workflow -> partition key (_partition_of)
  GraphOrder,       \* the order of job.runtime_graphs, a deque of all workflows
  PartitionOrder,   \* the sort order used to reseed the partition ring
  Quantum,          \* priority -> candidates taken per reservation
  BatchSize,        \* optimizer_batch_size
  StarvationLimit,  \* misses after which a workflow is forced into the batch
  CapacityAware,    \* capacity_aware_selection
  DwellObservations,
  DwellSeconds,
  Volatile          \* the partitions whose workers the fleet may lose

ASSUME ConstantsAssumption ==
  /\ JobOf \in [Workflows -> Jobs]
  /\ UserOf \in [Jobs -> Users]
  /\ Priorities \subseteq Nat
  /\ PriorityOf \in [Jobs -> Priorities]
  /\ PartitionOf \in [Workflows -> Partitions]
  /\ IsDeque(GraphOrder, Workflows) /\ Elems(GraphOrder) = Workflows
  /\ \A W \in SUBSET Workflows : W # {} => Front(Keep(GraphOrder, W)) # {}
  /\ IsDeque(PartitionOrder, Partitions) /\ Elems(PartitionOrder) = Partitions
  /\ Quantum \in [Priorities -> Nat]
  /\ BatchSize \in Nat \ {0}
  /\ StarvationLimit \in Nat
  /\ CapacityAware \in BOOLEAN
  /\ DwellObservations \in Nat \ {0}
  /\ DwellSeconds \in Nat
  /\ Volatile \subseteq Partitions

ASSUME FiniteWorkflowsAssumption == IsFiniteSet(Workflows)

VARIABLES
  queue,        \* deque of the queued workflows, in arrival order (_queues)
  items,        \* workflows with metadata (_items)
  dispatched,   \* workflows handed to a batch task and not yet finalized
  miss,         \* item.miss_count
  rrUser,       \* priority -> ring of users (_rr_user_order)
  rrPart,       \* ring of partitions (_rr_partition_order and its member set)
  notEmpty,     \* the asyncio.Event _not_empty
  reservation,  \* {} or {the active reservation}
  doomed,       \* workflows permanently_unsatisfiable returned, not yet removed
  count,        \* _unsatisfiable_count (0: no entry)
  elapsed,      \* seconds since _unsatisfiable_since, up to DwellSeconds
  pc,           \* where the scheduler loop stands
  up            \* partitions that the registered fleet can run

queueVars == <<queue, items, dispatched, miss, rrUser, rrPart, notEmpty>>
dwellVars == <<count, elapsed>>
vars == <<queueVars, reservation, doomed, dwellVars, pc, up>>

-----------------------------------------------------------------------------
(* What the queues hold.                                                    *)

Queued == Elems(queue)

Owner(w) == UserOf[JobOf[w]]
Level(w) == PriorityOf[JobOf[w]]

\* The users with a non-empty queue at a priority, among the workflows W.
UsersWith(W, p) == {Owner(w) : w \in {v \in W : Level(v) = p}}

PartitionsIn(W) == {PartitionOf[w] : w \in W}

\* _prune_empty_user_queues_locked: a ring keeps only users that have a queue.
PruneUsers_Never(W) == rrUser
PruneUsers(W) == [p \in Priorities |-> Keep(rrUser[p], UsersWith(W, p))]

\* The reserved batch.
Held == UNION {r.selected : r \in reservation}

Starved(W) == {w \in W : miss[w] >= StarvationLimit}

-----------------------------------------------------------------------------
(* The candidate pool of one reservation.                                   *)

\* The queued workflows of a partition at one priority.
Pool_AnyPartition(p, part) == {w \in Queued : Level(w) = p}
Pool(p, part) == {w \in Queued : Level(w) = p /\ PartitionOf[w] = part}

\* The pass of the loop over users in which w is reached: its position among
\* its owner's pool members.
Pass(pool, w) ==
  Cardinality({v \in pool : Owner(v) = Owner(w) /\ AtOrBefore(queue, v, w)})

\* v is taken before w: in an earlier pass, or by an earlier user of the ring.
TakenBefore(pool, ring, v, w) ==
  \/ Pass(pool, v) < Pass(pool, w)
  \/ /\ Pass(pool, v) = Pass(pool, w)
     /\ Owner(v) # Owner(w)
     /\ AtOrBefore(ring, Owner(v), Owner(w))

\* _peek_round_robin_for_partition_locked: the first Quantum[p] members of the
\* pool, taking one per user and pass.
Peek(p, part) ==
  LET pool == Pool(p, part)
      ring == PruneUsers(Queued)[p]
  IN {w \in pool :
        Cardinality({v \in pool : TakenBefore(pool, ring, v, w)}) < Quantum[p]}

\* _build_candidate_pool_for_partition_locked
Candidates(part) == UNION {Peek(p, part) : p \in Priorities}

\* The priorities whose user ring the commit will rotate.
RingsConsulted(part) ==
  {p \in Priorities : /\ Peek(p, part) # {}
                      /\ Cardinality(Elems(PruneUsers(Queued)[p])) > 1}

\* The batches the reservation may hold.  With a starved candidate,
\* _apply_starvation_policy: starved ones first and oldest first, then others
\* until the batch is full.  Otherwise the scheduling policy chooses.
Batches_NoOverride(cands) == {B \in SUBSET cands : B # {} /\ Cardinality(B) <= BatchSize}
Batches(cands) ==
  LET starved == Starved(cands)
      full == IF Cardinality(cands) < BatchSize THEN Cardinality(cands) ELSE BatchSize
  IN IF starved = {}
     THEN {B \in SUBSET cands : B # {} /\ Cardinality(B) <= BatchSize}
     ELSE {B \in SUBSET cands :
             /\ Cardinality(B) = full
             /\ starved \subseteq B \/ B \subseteq starved
             /\ \A w \in B, v \in starved \ B : AtOrBefore(queue, w, v)}

-----------------------------------------------------------------------------
(* The partition ring.                                                      *)

\* _pick_partition_round_robin_locked, and the reseed when it empties the ring:
\* heads that are not present are evicted.
RingAfterPick_NoReseed(present) ==
  Keep(rrPart, {p \in Elems(rrPart) : \E q \in present : AtOrBefore(rrPart, q, p)})
RingAfterPick(present) ==
  LET kept == {p \in Elems(rrPart) :
                 \E q \in present : AtOrBefore(rrPart, q, p)}
  IN IF kept # {} THEN Keep(rrPart, kept) ELSE Keep(PartitionOrder, present)

\* Step 3 and 4 of commit_reservation: drop drained partitions, then rotate the
\* ring if the picked partition is still its head.
RingAfterCommit(W, picked) ==
  LET left == Keep(rrPart, PartitionsIn(W))
  IN MoveBack(left, Front(left) \cap picked)

\* Step 5 of commit_reservation: rotate the consulted user rings.
UsersAfterCommit(W, consulted) ==
  [p \in Priorities |->
     LET ring == PruneUsers(W)[p]
     IN IF p \in consulted THEN MoveBack(ring, Front(ring)) ELSE ring]

-----------------------------------------------------------------------------
Init ==
  /\ queue = EmptyDeque
  /\ items = {}
  /\ dispatched = {}
  /\ miss = [w \in Workflows |-> 0]
  /\ rrUser = [p \in Priorities |-> EmptyDeque]
  /\ rrPart = EmptyDeque
  /\ notEmpty = FALSE
  /\ reservation = {}
  /\ doomed = {}
  /\ count = [p \in Partitions |-> 0]
  /\ elapsed = [p \in Partitions |-> 0]
  /\ pc = "wait"
  /\ up = Partitions

\* The partitions P in the order in which W's workflows, enqueued one by one,
\* first show them.
FirstSeen(W, P) ==
  {pair \in P \X P :
     \E v \in W : /\ PartitionOf[v] = pair[1]
                  /\ \A w \in W : PartitionOf[w] = pair[2] => AtOrBefore(GraphOrder, v, w)}

\* enqueue(job): all workflows of the job, in graph order, under one lock.
\* (A workflow outside the queue has miss_count 0: the counter belongs to the
\* item and goes with it.)
Enqueue_NoWakeup(j) ==
  LET W == {w \in Workflows : JobOf[w] = j}
  IN /\ W # {}
     /\ W \cap items = {}
     /\ queue' = Concat(queue, Keep(GraphOrder, W))
     /\ items' = items \cup W
     /\ rrUser' = [rrUser EXCEPT ![PriorityOf[j]] =
                     IF UserOf[j] \in Elems(@) THEN @ ELSE PushBack(@, UserOf[j])]
     /\ rrPart' = Concat(rrPart, FirstSeen(W, PartitionsIn(W) \ Elems(rrPart)))
     /\ UNCHANGED <<dispatched, miss, notEmpty, reservation, doomed, dwellVars, pc, up>>
Enqueue_AtTheFront(j) ==
  LET W == {w \in Workflows : JobOf[w] = j}
      p == PriorityOf[j]
  IN /\ W # {}
     /\ W \cap items = {}
     /\ queue' = Concat(queue, Keep(GraphOrder, W))
     /\ items' = items \cup W
     /\ rrUser' = IF UserOf[j] \in UsersWith(Queued, p) THEN rrUser
                  ELSE [rrUser EXCEPT ![p] = Concat(PushBack(EmptyDeque, UserOf[j]), @)]
     /\ rrPart' = Concat(rrPart, FirstSeen(W, PartitionsIn(W) \ Elems(rrPart)))
     /\ notEmpty' = TRUE
     /\ UNCHANGED <<dispatched, miss, reservation, doomed, dwellVars, pc, up>>
Enqueue(j) ==
  LET W == {w \in Workflows : JobOf[w] = j}
      p == PriorityOf[j]
  IN /\ W # {}
     /\ W \cap items = {}
     /\ queue' = Concat(queue, Keep(GraphOrder, W))
     /\ items' = items \cup W
     /\ rrUser' = IF UserOf[j] \in UsersWith(Queued, p) THEN rrUser
                  ELSE [rrUser EXCEPT ![p] = PushBack(@, UserOf[j])]
     /\ rrPart' = Concat(rrPart, FirstSeen(W, PartitionsIn(W) \ Elems(rrPart)))
     /\ notEmpty' = TRUE
     /\ UNCHANGED <<dispatched, miss, reservation, doomed, dwellVars, pc, up>>

\* wait_for_work: returns at once when there is work or the event is set, else
\* blocks on the event.  has_work and the wait run without a suspension between.
WaitForWork ==
  /\ pc = "wait"
  /\ pc' = IF Queued # {} \/ notEmpty THEN "select" ELSE "blocked"
  /\ UNCHANGED <<queueVars, reservation, doomed, dwellVars, up>>

\* The event wakes the scheduler.
Woken ==
  /\ pc = "blocked"
  /\ notEmpty
  /\ pc' = "select"
  /\ UNCHANGED <<queueVars, reservation, doomed, dwellVars, up>>

\* _scheduler_loop: no idle worker in the snapshot, so wait for capacity and
\* start over.
NoIdleWorkers ==
  /\ pc = "select"
  /\ pc' = "wait"
  /\ UNCHANGED <<queueVars, reservation, doomed, dwellVars, up>>

\* The queued partitions that the whole fleet cannot run.
Suspects_Sticky == {p \in PartitionsIn(Queued) : p \notin up \/ count[p] > 0}
Suspects == PartitionsIn(Queued) \ up

\* _unsatisfiable_since: set at the first failed observation, forgotten when the
\* partition is no suspect any more.
TimeSuspected_Restarted == [p \in Partitions |-> 0]
TimeSuspected == [p \in Partitions |-> IF p \in Suspects THEN elapsed[p] ELSE 0]

\* permanently_unsatisfiable: one observation of the whole fleet.
Observe ==
  LET dead == {p \in Suspects : /\ count'[p] >= DwellObservations
                                /\ elapsed'[p] >= DwellSeconds}
  IN /\ pc = "select"
     /\ CapacityAware
     /\ count' = [p \in Partitions |->
                    CASE p \notin Suspects -> 0
                      [] p \in Suspects /\ count[p] < DwellObservations -> count[p] + 1
                      [] OTHER -> count[p]]
     /\ elapsed' = TimeSuspected
     /\ doomed' = {w \in Queued : PartitionOf[w] \in dead}
     /\ pc' = IF doomed' = {} THEN "reserve" ELSE "fail"
     /\ UNCHANGED <<queueVars, reservation, up>>

\* _fail_unplaceable_batch ends in remove_workflows(doomed).
RemoveDoomed ==
  LET left == Queued \ doomed
  IN /\ pc = "fail"
     /\ queue' = Without(queue, doomed)
     /\ items' = items \ doomed
     /\ miss' = [w \in Workflows |-> IF w \in doomed THEN 0 ELSE miss[w]]
     /\ rrUser' = PruneUsers(left)
     /\ rrPart' = Keep(rrPart, PartitionsIn(left))
     /\ notEmpty' = (notEmpty /\ left # {})
     /\ doomed' = {}
     /\ pc' = "wait"
     /\ UNCHANGED <<dispatched, reservation, dwellVars, up>>

AtReserve == pc = IF CapacityAware THEN "reserve" ELSE "select"

\* What the manager notes down for the commit.
Reservation(selected, cands, part, ringPick) ==
  [selected  |-> selected,
   missed    |-> cands \ selected,
   advance   |-> IF ringPick THEN {part} ELSE {},
   consulted |-> RingsConsulted(part)]

\* The partitions the round may anchor on: that of a starved workflow of the
\* most urgent priority that has one, else the head of the ring.
StarvedAnchors(present) ==
  LET starved == {w \in Starved(Queued) : PartitionOf[w] \in present}
  IN {PartitionOf[w] : w \in {v \in starved : \A x \in starved : Level(v) <= Level(x)}}

\* reserve_batch when no candidate can be offered.
ReserveNothing(free) ==
  LET present == PartitionsIn(Queued) \cap free
  IN /\ AtReserve
     /\ \/ present = {} /\ UNCHANGED <<rrUser, rrPart>>
        \/ \E part \in StarvedAnchors(present) :
             Candidates(part) = {} /\ UNCHANGED rrPart /\ rrUser' = PruneUsers(Queued)
        \/ /\ StarvedAnchors(present) = {}
           /\ rrPart' = RingAfterPick(present)
           /\ \E part \in Front(rrPart') : Candidates(part) = {}
           /\ rrUser' = PruneUsers(Queued)
     /\ notEmpty' = FALSE
     /\ pc' = "wait"
     /\ UNCHANGED <<queue, items, dispatched, miss, reservation, doomed, dwellVars, up>>

\* reserve_batch when it returns a reservation.  free is the set of partitions
\* that the idle workers can run (every partition without a capacity argument).
Reserve(free) ==
  LET present == PartitionsIn(Queued) \cap free
      anchors == StarvedAnchors(present)
  IN /\ AtReserve
     /\ present # {}
     /\ rrPart' = IF anchors # {} THEN rrPart ELSE RingAfterPick(present)
     /\ \E part \in present :
          /\ part \in IF anchors # {} THEN anchors ELSE Front(rrPart')
          /\ \E B \in Batches(Candidates(part)) :
               reservation' = {Reservation(B, Candidates(part), part, anchors = {})}
     /\ rrUser' = PruneUsers(Queued)
     /\ pc' = "claim"
     /\ UNCHANGED <<queue, items, dispatched, miss, notEmpty, doomed, dwellVars, up>>

\* Steps 1 and 2 of commit_reservation: the selected start afresh, the candidates
\* that were passed over have one more miss.
MissesAfterCommit_Sign(r) ==
  [w \in Workflows |-> IF w \in r.missed THEN miss[w] - 1 ELSE miss[w]]
MissesAfterCommit(r) ==
  [w \in Workflows |-> CASE w \in r.selected -> 0
                         [] w \in r.missed /\ w \in items -> miss[w] + 1
                         [] OTHER -> miss[w]]

\* commit_reservation, after _try_claim_workers obtained the workers.
Commit_AllCandidates ==
  \E r \in reservation :
    LET left == Queued \ (r.selected \cup r.missed)
    IN /\ pc = "claim"
       /\ miss' = [w \in Workflows |-> 0]
       /\ queue' = Keep(queue, left)
       /\ dispatched' = dispatched \cup r.selected \cup r.missed
       /\ rrPart' = RingAfterCommit(left, r.advance)
       /\ rrUser' = UsersAfterCommit(left, r.consulted)
       /\ notEmpty' = (notEmpty /\ left # {})
       /\ reservation' = {}
       /\ pc' = "wait"
       /\ UNCHANGED <<items, doomed, dwellVars, up>>
Commit ==
  \E r \in reservation :
    LET left == Queued \ r.selected
    IN /\ pc = "claim"
       /\ miss' = MissesAfterCommit(r)
       /\ queue' = Without(queue, r.selected)
       /\ dispatched' = dispatched \cup r.selected
       /\ rrPart' = RingAfterCommit(left, r.advance)
       /\ rrUser' = UsersAfterCommit(left, r.consulted)
       /\ notEmpty' = (notEmpty /\ left # {})
       /\ reservation' = {}
       /\ pc' = "wait"
       /\ UNCHANGED <<items, doomed, dwellVars, up>>

\* abort_reservation, when the workers could not be claimed.
Abort_Requeues ==
  /\ pc = "claim"
  /\ queue' = MoveBack(queue, Held)
  /\ reservation' = {}
  /\ pc' = "wait"
  /\ UNCHANGED <<items, dispatched, miss, rrUser, rrPart, notEmpty, doomed, dwellVars, up>>
Abort ==
  /\ pc = "claim"
  /\ reservation' = {}
  /\ pc' = "wait"
  /\ UNCHANGED <<queueVars, doomed, dwellVars, up>>

\* finalize_workflows, at the end of a batch.
Finalize_KeepsItems(B) ==
  /\ B # {}
  /\ dispatched' = dispatched \ B
  /\ UNCHANGED <<queue, items, miss, rrUser, rrPart, notEmpty, reservation, doomed, dwellVars, pc, up>>
Finalize(B) ==
  /\ B # {}
  /\ items' = items \ B
  /\ dispatched' = dispatched \ B
  /\ UNCHANGED <<queue, miss, rrUser, rrPart, notEmpty, reservation, doomed, dwellVars, pc, up>>

\* The fleet loses or regains the workers a partition needs.
FleetDown(p) ==
  /\ p \in up
  /\ up' = up \ {p}
  /\ UNCHANGED <<queueVars, reservation, doomed, dwellVars, pc>>

FleetUp(p) ==
  /\ p \notin up
  /\ up' = up \cup {p}
  /\ UNCHANGED <<queueVars, reservation, doomed, dwellVars, pc>>

\* One second passes for the dwell timers.
Tick ==
  /\ elapsed' = [p \in Partitions |->
                   CASE count[p] = 0 -> 0
                     [] count[p] > 0 /\ elapsed[p] < DwellSeconds -> elapsed[p] + 1
                     [] OTHER -> elapsed[p]]
  /\ elapsed' # elapsed
  /\ UNCHANGED <<queueVars, reservation, doomed, count, pc, up>>

\* The capacity snapshots the scheduler may have taken.
Snapshots == IF CapacityAware THEN SUBSET Partitions ELSE {Partitions}

Next ==
  \/ \E j \in Jobs : Enqueue(j)
  \/ WaitForWork
  \/ Woken
  \/ NoIdleWorkers
  \/ Observe
  \/ RemoveDoomed
  \/ \E free \in Snapshots : ReserveNothing(free) \/ Reserve(free)
  \/ Commit
  \/ Abort
  \/ \E B \in SUBSET dispatched : Finalize(B)
  \/ \E p \in Volatile : FleetDown(p) \/ FleetUp(p)
  \/ Tick

Spec == Init /\ [][Next]_vars

\* Fairness.  The scheduler task is never abandoned by the event loop and time
\* passes.  A partition that the fleet can run again and again also finds idle
\* workers for it again and again (nothing is assumed of one that stays down), and
\* a claim succeeds again and again.
Fairness ==
  /\ WF_vars(WaitForWork) /\ WF_vars(Woken) /\ WF_vars(RemoveDoomed) /\ WF_vars(Tick)
  /\ SF_vars(Observe)
  /\ WF_vars(\E free \in Snapshots : ReserveNothing(free) \/ Reserve(free))
  /\ \A p \in Partitions :
       SF_vars(p \in up /\ \E free \in {f \in Snapshots : p \in f} : Reserve(free))
  /\ SF_vars(Commit)
  /\ WF_vars(\E B \in SUBSET dispatched : Finalize(B))

LiveSpec == Spec /\ Fairness

-----------------------------------------------------------------------------
(* Correctness.                                                             *)

TypeOK ==
  /\ queue \subseteq Workflows \X Workflows
  /\ items \subseteq Workflows
  /\ dispatched \subseteq Workflows
  /\ miss \in [Workflows -> Nat]
  /\ rrUser \in [Priorities -> SUBSET (Users \X Users)]
  /\ rrPart \subseteq Partitions \X Partitions
  /\ notEmpty \in BOOLEAN
  /\ reservation \subseteq [selected : SUBSET Workflows, missed : SUBSET Workflows,
                            advance : SUBSET Partitions,
                            consulted : SUBSET Priorities]
  /\ doomed \subseteq Workflows
  /\ count \in [Partitions -> 0 .. DwellObservations]
  /\ elapsed \in [Partitions -> 0 .. DwellSeconds]
  /\ pc \in {"wait", "blocked", "select", "fail", "reserve", "claim"}
  /\ up \subseteq Partitions

\* The deques of the manager never hold an element twice and never lose their
\* order, whatever rotation, eviction and filtering they went through.
DequesWellFormed ==
  /\ IsDeque(queue, Workflows)
  /\ IsDeque(rrPart, Partitions)
  /\ \A p \in Priorities : IsDeque(rrUser[p], Users)

\* No workflow is lost or run twice: each one the manager knows is either
\* queued or dispatched, never both (enqueue, commit_reservation,
\* remove_workflows and finalize_workflows, in any interleaving).
NoWorkflowLost ==
  /\ items = Queued \cup dispatched
  /\ Queued \cap dispatched = {}

\* An outstanding reservation stays valid while request handlers enqueue and
\* batches finalize under it: what commit_reservation will remove is still
\* queued, is one non-empty batch of one partition within the batch size, and
\* the workflows it will charge with a miss are queued ones of that partition.
ReservationSound ==
  \A r \in reservation :
    /\ r.selected # {}
    /\ Cardinality(r.selected) <= BatchSize
    /\ r.selected \cup r.missed \subseteq Queued
    /\ r.selected \cap r.missed = {}
    /\ \E part \in Partitions : \A w \in r.selected \cup r.missed : PartitionOf[w] = part

\* There is a reservation exactly while the scheduler claims workers for it, so
\* reserve_batch never meets the "already has an outstanding reservation" error.
OneReservation ==
  /\ reservation # {} <=> pc = "claim"
  /\ \A r, q \in reservation : r = q

\* Each user with queued work at a priority is in that priority's ring, and no
\* other user is: a user missing from the ring would never be served again.
UserRingCoversQueue ==
  \A p \in Priorities : Elems(rrUser[p]) = UsersWith(Queued, p)

\* Each partition in the ring has queued work (commit and remove drop the
\* drained ones).
PartitionRingIsLive == Elems(rrPart) \subseteq PartitionsIn(Queued)

\* The scheduler never sleeps on work: blocked in wait_for_work, it has an
\* empty queue or a set event; and a set event means there is work, so the loop
\* does not spin.
NoLostWakeup ==
  /\ pc = "blocked" => Queued = {} \/ notEmpty
  /\ notEmpty => Queued # {}

\* A starved workflow is passed over only for older starved ones, so the misses
\* of any workflow are bounded by the starvation limit and the work that was
\* ahead of it.
BoundedBypass ==
  \A w \in Workflows :
    miss[w] <= StarvationLimit + (Cardinality(Workflows) - 1) \div BatchSize

\* Work reported as unsatisfiable is still queued, and none is reported, when
\* _fail_unplaceable_batch comes to remove it.
DoomedIsQueued ==
  /\ doomed \subseteq Queued
  /\ doomed # {} <=> pc = "fail"

\* The order of the queued workflows never changes: an abort, an eviction or a
\* removal leaves the remaining ones in their arrival order.
ArrivalOrderKept ==
  [][\A v, w \in Queued \cap Queued' :
       AtOrBefore(queue, v, w) <=> AtOrBefore(queue', v, w)]_vars

\* Work that the fleet can run at the time of the observation is never
\* reported as permanently unsatisfiable, whatever the earlier observations.
SatisfiableIsNeverDoomed ==
  [][\A w \in doomed' \ doomed : PartitionOf[w] \notin up]_vars

\* Once requests stop arriving, every queued workflow is dispatched or failed,
\* whatever the policy prefers and however the rings were evicted before.
QueueDrains ==
  <>[][\A j \in Jobs : ~ Enqueue(j)]_vars => \A w \in Workflows : []<>(w \notin Queued)

\* Under a sustained stream of arrivals too, every queued workflow leaves the
\* queue: the "starvation avoidance" of the module's docstring.  It does not hold:
\* the override counts misses of candidates only, and a workflow is a candidate
\* only when the quantum reaches its user, while a commit prunes the ring first
\* and rotates what is left, which may be that user, to the back.
NoStarvation == \A w \in Workflows : []<>(w \notin Queued)

\* A commit moves w's owner behind another user, though none of the owner's work
\* in w's partition was a candidate.
PassedUp(w) ==
  \E r \in reservation :
    /\ Commit
    /\ \A v \in r.selected \cup r.missed : Owner(v) = Owner(w) => PartitionOf[v] # PartitionOf[w]
    /\ \E u \in Elems(rrUser'[Level(w)]) :
         /\ Owner(w) # u /\ AtOrBefore(rrUser[Level(w)], Owner(w), u)
         /\ AtOrBefore(rrUser'[Level(w)], u, Owner(w))

\* What the ring and the override do guarantee under a sustained stream of
\* arrivals, the quantum smaller than the crowd: a workflow whose partition goes
\* on being served leaves the queue, unless a rotation of the user ring passes
\* its owner up again and again.
TurnsServe ==
  \A w \in Workflows :
    /\ []<><<Commit /\ \E r \in reservation : \E v \in r.selected :
                          PartitionOf[v] = PartitionOf[w]>>_vars
    /\ <>[][~ PassedUp(w)]_vars
    => []<>(w \notin Queued)

\* Work that needs workers the fleet will never have is failed, not left in the
\* queue "to sit silently forever".
ImpossibleWorkLeaves ==
  \A w \in Workflows : <>[](PartitionOf[w] \notin up) => []<>(w \notin Queued)

Abstract == INSTANCE JobQueue WITH queued <- Queued, held <- Held, running <- dispatched

\* The priority queue implements the two-phase job queue: whatever eviction,
\* rotation and starvation override go on inside, its caller sees batches of one
\* partition reserved, committed or released, and nothing else leave the queue.
ImplementsJobQueue == Abstract!JobSpec

=============================================================================
