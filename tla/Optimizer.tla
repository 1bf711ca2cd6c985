------------------------------ MODULE Optimizer ------------------------------
(***************************************************************************)
(* runtime/optimizer: the schedules a batch of tasks can get.  HaloOptimizer *)
(* prepares workers, worker options and query plans and hands them to      *)
(* DPSolver, a branch-and-bound search over epochs: an epoch runs a set of *)
(* LLM tasks on distinct GPU workers and every CPU task that has become    *)
(* ready.  TopologicalSortOptimizer uses one worker of each kind.          *)
(*                                                                         *)
(* Tasks are numbered in node order, which is topological.  LLM tasks are  *)
(* named after their model.  Costs are in tenths of a second, and the cost *)
(* of an epoch in thousandths; the coefficients that depend on the context *)
(* (_resolve_cost_model_params, parts of _resolve_dp_tuning) have one      *)
(* value inside their clamps.  Halo gives LLM tasks no queries, never      *)
(* disables a cost and uses the default CPU mode, so those branches of the *)
(* solver are left out, and so is its memo, which only saves time.         *)
(***************************************************************************)
EXTENDS Naturals, Sequences, FiniteSets, FiniteSetsExt, SequencesExt

CONSTANTS
  MaxTasks,    \* bound: tasks of a batch
  FreeTasks    \* bound: further tasks use one model or are python, on two GPU workers

VARIABLES
  batch,      \* the tasks and the selected workers
  schedule    \* what the optimizers returned; <<>> before

opVars == <<batch, schedule>>

-----------------------------------------------------------------------------
(* The batch.                                                               *)

Models == {"m1", "m2"}
Tasks == DOMAIN batch.tasks
Kind(t) == batch.tasks[t].kind
Deps(t) == batch.tasks[t].deps
IsGpu(t) == Kind(t) \in Models
GpuTasks == {t \in Tasks : IsGpu(t)}
CpuTasks == Tasks \ GpuTasks

GpuWorkers == 1 .. batch.gpus
CpuWorkers == (batch.gpus + 1) .. (batch.gpus + batch.cpus)
Workers == GpuWorkers \cup CpuWorkers
Ascending(S) == SetToSortSeq(S, LAMBDA a, b : a < b)

\* The workers that may take a task; python is the gated task type.

Options(t) ==
  CASE IsGpu(t) -> GpuWorkers
    [] Kind(t) = "py" -> CpuWorkers \cap batch.docker
    [] OTHER -> CpuWorkers

\* The checks made before the search.
Refused ==
  \/ Workers = {}
  \/ batch.docker \cap CpuWorkers = {} /\ \E t \in Tasks : Kind(t) = "py"
  \/ GpuWorkers = {} /\ GpuTasks # {}
  \/ \E t \in Tasks : Options(t) = {}

\* Plans of a retrieval, cheapest first, with the tables each one touches.
PlanChoices ==
  IF batch.profiled
    THEN <<[cost |-> 12, reads |-> {"users"}], [cost |-> 16, reads |-> {"orders"}]>>
    ELSE <<[cost |-> 10, reads |-> {}]>>

-----------------------------------------------------------------------------
(* The epochs that can follow when the tasks in done are done.              *)

MaxGpu == Max({1, batch.gpus})
Slack == 1

\* Tasks of the queue and their successors in P, breadth first.
RECURSIVE Breadth(_, _, _)
Breadth(P, queue, order) ==
  IF queue = <<>> THEN order
  ELSE LET out == Append(order, Head(queue))
       IN  Breadth(P,
             Tail(queue) \o SelectSeq(Ascending(P), LAMBDA c :
                              Head(queue) \in Deps(c) /\ Deps(c) \cap P \subseteq ToSet(out)),
             out)

\* The subsets of a sequence of tasks, skipping a task before taking it.
RECURSIVE Subsequences(_)
Subsequences(topo) ==
  IF topo = <<>> THEN << <<>> >>
  ELSE LET rest == Subsequences(Tail(topo))
       IN  rest \o [i \in DOMAIN rest |-> <<Head(topo)>> \o rest[i]]

\* LLM tasks to run together: few enough for the workers, LLM parents done or included.
GpuBatches(done, prune) ==
  LET pending == GpuTasks \ done
      target == Min({MaxGpu, Cardinality(pending)})
      least == IF prune THEN Max({1, target - Slack}) ELSE 1
      topo == Breadth(pending,
                SelectSeq(Ascending(pending), LAMBDA t : Deps(t) \cap pending = {}), <<>>)
  IN  << <<>> >> \o
      (IF pending = {} THEN <<>> ELSE SelectSeq(Subsequences(topo), LAMBDA s :
         /\ Len(s) \in least .. target
         /\ \A t \in ToSet(s) : Deps(t) \cap GpuTasks \subseteq done \cup ToSet(s)))

\* Depth of each task of S below the tasks of S it depends on.
Depths(S) ==
  LET depth[t \in S] == IF Deps(t) \cap S = {} THEN 0
                        ELSE 1 + Max({depth[d] : d \in Deps(t) \cap S})
  IN  depth

ByDepth(s) ==
  LET depth == Depths(ToSet(s))
  IN  FlattenSeq([k \in 1 .. Len(s) + 1 |-> SelectSeq(s, LAMBDA t : depth[t] = k - 1)])

\* The CPU tasks that are ready once the LLM tasks of the epoch have run.
AutoCpu(done, gpu) ==
  LET ready[t \in Tasks] == \/ t \in done \cup ToSet(gpu)
                            \/ t \in CpuTasks /\ \A d \in Deps(t) : ready[d]
  IN  Ascending({t \in CpuTasks \ done : ready[t]})

\* ... those whose first dependency is shallow in the epoch first.
OrderCpu(cpu, gpu) ==
  LET depth == Depths(ToSet(gpu))
      parent(t) == IF Deps(t) = {} THEN 0 ELSE Min(Deps(t))
      at(k) == SelectSeq(cpu, LAMBDA t : parent(t) \in ToSet(gpu) /\ depth[parent(t)] = k - 1)
  IN  FlattenSeq([k \in 1 .. Len(gpu) |-> at(k)])
      \o SelectSeq(cpu, LAMBDA t : parent(t) \notin ToSet(gpu))

Feasible(S, done) == \A t \in S : Deps(t) \subseteq done \cup S

\* The ways to give each LLM task of the epoch a GPU worker of its own.
RECURSIVE GpuAssign(_, _)
GpuAssign(gpu, used) ==
  IF gpu = <<>> THEN << <<>> >>
  ELSE FlattenSeq([w \in GpuWorkers |->
         IF w \in used \/ w \notin Options(Head(gpu)) THEN <<>>
         ELSE LET rest == GpuAssign(Tail(gpu), used \cup {w})
              IN  [i \in DOMAIN rest |-> << <<w, Head(gpu)>> >> \o rest[i]]])

\* One assignment out of those that differ by workers in the same state.
Signature_KindOnly(assign, st) == {a[2] : a \in ToSet(assign)}

Signature(assign, st) ==
  {<<st[w], {a[2] : a \in {b \in ToSet(assign) : st[b[1]] = st[w]}}>> :
     w \in {a[1] : a \in ToSet(assign)}}

Distinct(assigns, st) ==
  SelectSeq(assigns, LAMBDA a :
    \A i \in DOMAIN assigns : Signature(assigns[i], st) = Signature(a, st) =>
      \E j \in 1 .. i : assigns[j] = a)

CpuAssign(cpu) ==
  [i \in DOMAIN cpu |->
     LET pool == Ascending(Options(cpu[i])) IN <<pool[((i - 1) % Len(pool)) + 1], cpu[i]>>]

Candidates(done, st, prune, symmetry) ==
  LET batches == GpuBatches(done, prune)
      of(b) == LET gpu == ByDepth(b)
                   cpu == OrderCpu(AutoCpu(done, gpu), gpu)
                   all == GpuAssign(gpu, {})
                   kept == IF symmetry THEN Distinct(all, st) ELSE all
               IN  IF gpu \o cpu = <<>> \/ ~Feasible(ToSet(gpu \o cpu), done) THEN <<>>
                   ELSE [i \in DOMAIN kept |-> [gpu |-> kept[i], cpu |-> cpu]]
  IN  FlattenSeq([i \in DOMAIN batches |-> of(batches[i])])

-----------------------------------------------------------------------------
(* Costs.                                                                   *)

Penalty(e) == 10 + e
ExecCost == 20
InitCost == [m1 |-> 30, m2 |-> 50]
Unlimited == 1000000000

\* An LLM task on a worker in state s: cheaper after a parent, free of loading after its model.
TaskCost(t, s) ==
  (IF s.task \in Deps(t) THEN (ExecCost * 9) \div 10 ELSE ExecCost)
  + (IF s.model = Kind(t) THEN 0 ELSE InitCost[Kind(t)])

\* A plan that reads what the query before it read costs half.
QueryCost(choice, window) ==
  IF choice.reads \cap window = {} THEN choice.cost ELSE choice.cost \div 2

CpuLoad(cpu) ==
  LET step(acc, t) ==
        CASE Kind(t) = "db" ->
               LET costs == [i \in DOMAIN PlanChoices |-> QueryCost(PlanChoices[i], acc.window)]
                   best == CHOOSE i \in DOMAIN costs :
                             /\ \A j \in DOMAIN costs : costs[i] <= costs[j]
                             /\ \A j \in 1 .. i - 1 : costs[i] < costs[j]
               IN  [cost |-> acc.cost + costs[best], window |-> PlanChoices[best].reads]
          [] Kind(t) = "api" -> [acc EXCEPT !.cost = @ + 5]
          [] OTHER -> acc
  IN  FoldLeft(step, [cost |-> 0, window |-> {}], cpu).cost

EpochCost(cand, st, e) ==
  LET gpu == ToSet(cand.gpu)
      costs == {TaskCost(a[2], st[a[1]]) : a \in gpu}
      longest == IF gpu = {} THEN 0 ELSE Max(costs)
      total == MapThenSumSet(LAMBDA a : TaskCost(a[2], st[a[1]]), gpu)
      depth == Depths({a[2] : a \in gpu})
  IN  100 * Penalty(e)
      + (IF batch.gpus <= 1 THEN 100 * longest ELSE 93 * longest + 7 * total)
      + (50 + (60 \div (1 + e))) * CpuLoad(cand.cpu)
      + 500 * MapThenSumSet(LAMBDA t : depth[t], DOMAIN depth)

After(st, cand) ==
  [w \in GpuWorkers |->
     IF \E a \in ToSet(cand.gpu) : a[1] = w
       THEN LET t == (CHOOSE a \in ToSet(cand.gpu) : a[1] = w)[2] IN [model |-> Kind(t), task |-> t]
       ELSE st[w]]

Ran(cand) == {a[2] : a \in ToSet(cand.gpu)} \cup ToSet(cand.cpu)

\* No completion of the schedule costs less.
LowerBound(done, e) ==
  LET gpu == Cardinality(GpuTasks \ done)
      epochs == Max({(gpu + MaxGpu - 1) \div MaxGpu, IF CpuTasks \subseteq done THEN 0 ELSE 1})
  IN  100 * MapThenSumSet(LAMBDA i : Penalty(e + i - 1), 1 .. epochs)
      + (20 * gpu * ExecCost) \div MaxGpu

-----------------------------------------------------------------------------
(* DPSolver.solve.                                                          *)

NoSchedule == [ok |-> FALSE, cost |-> Unlimited, items |-> <<>>]

\* A candidate epoch at cost now, which assigns here, and the best completion sub after it.
Followed(now, here, sub) ==
  [ok |-> TRUE, cost |-> now + sub.cost,
   items |-> [i \in DOMAIN here |-> <<0, here[i][1], here[i][2]>>]
             \o [i \in DOMAIN sub.items |->
                   <<sub.items[i][1] + 1, sub.items[i][2], sub.items[i][3]>>]]

Better(best, now, here, sub) ==
  IF ~sub.ok THEN sub
  ELSE IF now + sub.cost >= best.cost THEN best ELSE Followed(now, here, sub)

\* The best so far once the candidate is tried; bound is the least its completion can cost.
Tried(best, now, bound, here, sub) ==
  IF ~best.ok \/ (best.cost < Unlimited /\ now + bound >= best.cost) THEN best
  ELSE Better(best, now, here, sub)

\* Without a schedule, the search is repeated without pruning.
Settled(found, prune, unpruned) ==
  CASE found.cost < Unlimited -> found
    [] found.cost = Unlimited /\ found.ok /\ prune -> unpruned
    [] OTHER -> NoSchedule

RECURSIVE Solve(_, _, _, _)
Solve(done, st, e, prune) ==
  LET try(best, cand) ==
        LET then == done \cup Ran(cand)
        IN  Tried(best, EpochCost(cand, st, e), LowerBound(then, e + 1),
                  cand.gpu \o CpuAssign(cand.cpu), Solve(then, After(st, cand), e + 1, prune))
  IN  IF done = Tasks THEN [ok |-> TRUE, cost |-> 0, items |-> <<>>]
      ELSE Settled(FoldLeft(try, [ok |-> TRUE, cost |-> Unlimited, items |-> <<>>],
                            Candidates(done, st, prune, TRUE)),
                   prune, Solve(done, st, e, FALSE))

Fresh == [w \in GpuWorkers |-> [model |-> "none", task |-> 0]]

\* Each worker's tasks, by epoch and then by node order.

Grouped(items) ==
  [w \in Workers |->
     LET mine == SetToSortSeq({x \in ToSet(items) : x[2] = w},
                              LAMBDA a, b : a[1] < b[1] \/ (a[1] = b[1] /\ a[3] < b[3]))
     IN  [i \in DOMAIN mine |-> mine[i][3]]]

\* _validate_schedule.
Valid(lists) ==
  /\ \A t \in Tasks : \E w \in Workers : t \in ToSet(lists[w])
  /\ MapThenSumSet(LAMBDA w : Len(lists[w]), Workers) = Cardinality(Tasks)

Checked(found, lists) == [ok |-> found.ok /\ Valid(lists), cost |-> found.cost, lists |-> lists]
Lists(found) == Checked(found, Grouped(found.items))

Halo ==
  IF Refused THEN [ok |-> FALSE, cost |-> 0, lists |-> <<>>] ELSE Lists(Solve({}, Fresh, 0, TRUE))

-----------------------------------------------------------------------------
(* TopologicalSortOptimizer.                                                *)

TopologicalSort ==
  LET some(S) == IF S = {} THEN Min(Workers) ELSE Min(S)
      place(t) == IF Kind(t) = "py" THEN some(CpuWorkers \cap batch.docker)
                  ELSE IF IsGpu(t) THEN some(GpuWorkers) ELSE some(CpuWorkers)
      ok == \A t \in Tasks : Kind(t) = "py" => CpuWorkers \cap batch.docker # {}
  IN  [ok |-> ok, cost |-> 0,
       lists |-> [w \in Workers |-> Ascending({t \in Tasks : place(t) = w})]]

-----------------------------------------------------------------------------
OpInit ==
  /\ \E g \in 0 .. 2, c \in 0 .. 2, docker \in BOOLEAN, profiled \in BOOLEAN :
       /\ g + c > 0
       /\ batch = [tasks |-> <<>>, gpus |-> g, cpus |-> c,
                   docker |-> IF docker THEN {g + c} ELSE {}, profiled |-> profiled]
  /\ schedule = <<>>

\* The batch gets one more task.
AddTask ==
  /\ schedule = <<>> /\ Len(batch.tasks) < MaxTasks
  /\ Len(batch.tasks) >= FreeTasks =>
       /\ batch.gpus = 2 /\ batch.cpus = 1 /\ batch.docker # {} /\ ~batch.profiled
       /\ \A t \in Tasks : Kind(t) \in Models \cup {"py"}
  /\ \E k \in Models \cup {"py", "db", "api"}, ds \in SUBSET Tasks :
       /\ Len(batch.tasks) >= FreeTasks => k \in {"m1", "py"}
       /\ k = "api" => batch.profiled
       /\ batch' = [batch EXCEPT !.tasks = Append(@, [kind |-> k, deps |-> ds])]
  /\ UNCHANGED schedule

Optimize ==
  /\ schedule = <<>> /\ Tasks # {}
  /\ schedule' = [halo |-> Halo, topo |-> TopologicalSort]
  /\ UNCHANGED batch

OpNext == AddTask \/ Optimize

-----------------------------------------------------------------------------
(* Correctness.                                                             *)

Scheduled == IF schedule = <<>> THEN {} ELSE {s \in {schedule.halo, schedule.topo} : s.ok}

\* Workers that work through their lists in order, each task waiting for the tasks it
\* depends on, come to an end: no set of tasks waits for itself across the workers.
ListsRunnable ==
  \A s \in Scheduled : \A S \in SUBSET Tasks \ {{}} :
    \E t \in S : ~\E d \in S :
      \/ d \in Deps(t)
      \/ \E w \in Workers : \E i, j \in DOMAIN s.lists[w] :
           i < j /\ s.lists[w][i] = d /\ s.lists[w][j] = t

\* Halo finds a schedule exactly when every task has a worker that can run it, and puts
\* each task, once, on such a worker.
PlacedWherePossible ==
  schedule # <<>> =>
    LET can(t, w) == IF IsGpu(t) THEN w \in GpuWorkers
                     ELSE w \in CpuWorkers /\ (Kind(t) = "py" => w \in batch.docker)
        h == schedule.halo
    IN  /\ h.ok = \A t \in Tasks : \E w \in Workers : can(t, w)
        /\ h.ok => \A t \in Tasks : \A w \in Workers : t \in ToSet(h.lists[w]) => can(t, w)

\* The cheapest of all schedules whose epochs have the shape the search allows.
RECURSIVE Cheapest(_, _, _)
Cheapest(done, st, e) ==
  IF done = Tasks THEN 0
  ELSE LET cands == Candidates(done, st, TRUE, FALSE)
       IN  Min({Unlimited} \cup {EpochCost(c, st, e) + Cheapest(done \cup Ran(c), After(st, c), e + 1) :
                                   c \in ToSet(cands)})

\* Pruning by the lower bound and by the symmetry of workers loses no cheaper schedule.
SearchOptimal ==
  schedule # <<>> /\ schedule.halo.ok => schedule.halo.cost = Cheapest({}, Fresh, 0)

\* A schedule can be followed, uses workers that can run the tasks, and is the cheapest.
ScheduleSound == ListsRunnable /\ PlacedWherePossible /\ SearchOptimal

=============================================================================
