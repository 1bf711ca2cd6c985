---------------------------- MODULE ShardRewrite ----------------------------
(***************************************************************************)
(* runtime_manager/flowmesh.py: a schedule that gives a task to several    *)
(* workers asks for shards.  _rewrite_nodes_for_shard_intent splits the    *)
(* task's rows among them, points each shard at the shards (or at slices)  *)
(* of what it reads, adds a merge task where whole results are needed, and *)
(* rewrites the schedule; _build_flat_schedule_hint puts it into one order.*)
(*                                                                         *)
(* A task has the static lists of its data ("lists": their lengths) and    *)
(* the tasks it reads, through unindexed paths; tasks are numbered in node *)
(* order, which is topological.  How FlowMesh combines columns (all of one *)
(* length, single values repeated) is external.                            *)
(***************************************************************************)
EXTENDS Naturals, Sequences, FiniteSets, FiniteSetsExt, SequencesExt

CONSTANTS ShardTasks    \* bound: tasks of a workflow

VARIABLES
  plan,       \* the tasks: their lists, reads and workers
  rewrite     \* what was submitted; [ok |-> FALSE] when refused, <<>> before

shVars == <<plan, rewrite>>

Nodes == DOMAIN plan
Lists(n) == plan[n].lists
Reads(n) == plan[n].reads
Candidates(n) == plan[n].workers
Workers == 1 .. 3
Outputs == {n \in Nodes : \A m \in Nodes : n \notin Reads(m)}

-----------------------------------------------------------------------------
(* Row counts that are known before the run.  0: unknown.                   *)

Aligned(lengths) == \A l \in lengths : l \in {1, Max(lengths)}
StaticTotal(n) == IF Lists(n) = {} THEN 0 ELSE Max(Lists(n))

Ancestors(n) ==
  LET up[m \in Nodes] == Reads(m) \cup UNION {up[d] : d \in Reads(m)} IN up[n]

AncestorTotals(n) == {StaticTotal(a) : a \in Ancestors(n)} \ {0}
DirectTotals(n) == {StaticTotal(d) : d \in Reads(n)} \ {0}

\* What the tasks it reads, unsharded, say about the rows of a task.
InferredTotals(n) == IF DirectTotals(n) # {} THEN DirectTotals(n) ELSE AncestorTotals(n)

-----------------------------------------------------------------------------
(* The split: which rows each shard of each task gets.                      *)

\* Rows (start, end] of each of count shards.
Partitions(total, count) ==
  LET size(i) == (total \div count) + (IF i <= total % count THEN 1 ELSE 0)
      upto(i) == MapThenSumSet(size, 1 .. i)
  IN  [i \in 1 .. count |-> <<upto(i - 1), upto(i)>>]

\* The sizes a task can be split by, given the splits of the tasks before it; 0: refused.
SplitTotal(n, split, count) ==
  LET sharded == {d \in Reads(n) : split[d] # <<>>}
      rowsOf(d) == split[d][Len(split[d])][2]
  IN  CASE Lists(n) # {} -> StaticTotal(n)
        [] Lists(n) = {} /\ sharded # {} ->
             IF \E d \in sharded : Len(split[d]) # count \/ \E e \in sharded : rowsOf(d) # rowsOf(e)
               THEN 0 ELSE rowsOf(CHOOSE d \in sharded : TRUE)
        [] OTHER -> IF AncestorTotals(n) = {} \/ ~Aligned(AncestorTotals(n)) THEN 0
                    ELSE Max(AncestorTotals(n))

Count(n, split) ==
  LET counts == {Len(split[d]) : d \in {e \in Reads(n) : split[e] # <<>>}}
  IN  Min({Len(Candidates(n))} \cup counts)

CanSplit(n, split) ==
  LET sharded == {d \in Reads(n) : split[d] # <<>>}
  IN  /\ Aligned(Lists(n) \cup {1})
      /\ Lists(n) = {} => /\ Reads(n) # {}
                          /\ sharded = {} => /\ InferredTotals(n) # {}
                                             /\ Aligned(InferredTotals(n))
                                             /\ Max(InferredTotals(n)) > 1
      /\ \A d, e \in sharded : Len(split[d]) = Len(split[e])
      /\ SplitTotal(n, split, Count(n, split)) > 0

\* Tasks are looked at after those they depend on, the first in node order first.
RewriteOrder == [i \in Nodes |-> i]

\* The splits of all tasks (<<>>: the task is not sharded), or FALSE at the first refusal.
Splits ==
  LET step(acc, n) ==
        CASE ~acc.ok -> acc
          [] acc.ok /\ Len(Candidates(n)) <= 1 -> acc
          [] OTHER -> IF ~CanSplit(n, acc.split) THEN [acc EXCEPT !.ok = FALSE]
                      ELSE LET total == SplitTotal(n, acc.split, Count(n, acc.split))
                               count == Min({Count(n, acc.split), total})
                           IN  [acc EXCEPT !.split[n] = Partitions(total, count)]
  IN  FoldLeft(step, [ok |-> TRUE, split |-> [n \in Nodes |-> <<>>]], RewriteOrder)

-----------------------------------------------------------------------------
(* The rewritten tasks.  <<n, 0>> is task n, or the merge of its shards.    *)

\* The columns of a shard: a slice of its lists, the shard of a sharded task with its
\* own number, the rows of an unsharded one by index (0: the only row).
ShardColumn_FromStart(n, k, d, split) ==
  IF split[d] # <<>> THEN [task |-> <<d, k>>, rows |-> <<>>]
  ELSE [task |-> <<d, 0>>,
        rows |-> [i \in 1 .. split[n][k][2] - split[n][k][1] |-> IF StaticTotal(d) = 1 THEN 1 ELSE i]]

ShardColumn(n, k, d, split) ==
  IF split[d] # <<>> THEN [task |-> <<d, k>>, rows |-> <<>>]
  ELSE [task |-> <<d, 0>>,
        rows |-> [i \in 1 .. split[n][k][2] - split[n][k][1] |->
                    IF StaticTotal(d) = 1 THEN 1 ELSE split[n][k][1] + i]]

ShardOk(n, k, split) ==
  LET total == split[n][Len(split[n])][2]
  IN  /\ \A l \in Lists(n) : l \in {1, total}
      /\ \A d \in Reads(n) :
           IF split[d] # <<>> THEN k <= Len(split[d]) ELSE StaticTotal(d) \in {0, 1, total}

MergeNeeded(split) ==
  {n \in Nodes : /\ split[n] # <<>>
                 /\ n \in Outputs \/ \E m \in Nodes : split[m] = <<>> /\ n \in Reads(m)}

\* The tasks submitted for n, in order.
TasksOf(n, split) ==
  IF split[n] = <<>> THEN << <<n, 0>> >>
  ELSE [k \in DOMAIN split[n] |-> <<n, k>>]
       \o (IF n \in MergeNeeded(split) THEN << <<n, 0>> >> ELSE <<>>)

\* What a submitted task waits for.
DependsOn(t, split) ==
  CASE t[2] > 0 -> {ShardColumn(t[1], t[2], d, split).task : d \in Reads(t[1])}
    [] t[2] = 0 /\ split[t[1]] # <<>> -> {<<t[1], k>> : k \in DOMAIN split[t[1]]}
    [] OTHER -> {<<d, 0>> : d \in Reads(t[1])}

-----------------------------------------------------------------------------
(* The rewritten schedule.                                                  *)

\* The worker that merges: one that has no shard of the task, else the first that has.
MergeHost(n, split) ==
  LET sharding == {Candidates(n)[k] : k \in DOMAIN split[n]}
  IN  IF sharding = Workers THEN Candidates(n)[1] ELSE Min(Workers \ sharding)

\* The list of a worker: of each of its tasks its shard, then the merge if it hosts it;
\* merges of tasks it has no shard of come last.
Assigned(w, split) ==
  LET shard(n) == {k \in DOMAIN split[n] : Candidates(n)[k] = w}
      hosts(n) == n \in MergeNeeded(split) /\ MergeHost(n, split) = w
      of(n) == CASE split[n] = <<>> -> IF Candidates(n)[1] = w THEN << <<n, 0>> >> ELSE <<>>
                 [] OTHER -> IF shard(n) = {} THEN <<>>
                             ELSE [i \in 1 .. 1 |-> <<n, Max(shard(n))>>]
                                  \o (IF hosts(n) THEN << <<n, 0>> >> ELSE <<>>)
      late == {n \in Nodes : hosts(n) /\ shard(n) = {}}
  IN  FlattenSeq([n \in Nodes |-> of(n)])
      \o [i \in 1 .. Cardinality(late) |-> <<SetToSortSeq(late, LAMBDA a, b : a < b)[i], 0>>]

\* Tasks in one order: of those whose dependencies are listed, the first in the lists.
RECURSIVE Hint(_, _, _, _)
Hint(ranked, order, split, tasks) ==
  LET ready == SelectSeq(ranked, LAMBDA t :
                 t \notin ToSet(order) /\ DependsOn(t, split) \cap tasks \subseteq ToSet(order))
  IN  IF ready = <<>> THEN order ELSE Hint(ranked, Append(order, Head(ready)), split, tasks)

Rewrite ==
  LET done == Splits
      split == done.split
      tasks == FlattenSeq([n \in Nodes |-> TasksOf(n, split)])
      lists == [w \in Workers |-> Assigned(w, split)]
      ranked == lists[1] \o lists[2] \o lists[3]
      order == Hint(ranked, <<>>, split, ToSet(tasks))
  IN  IF /\ done.ok
         /\ \A n \in Nodes : \A k \in DOMAIN split[n] : ShardOk(n, k, split)
         /\ ToSet(tasks) = ToSet(ranked)
         /\ Len(order) = Len(tasks)
        THEN [ok |-> TRUE, split |-> split, tasks |-> tasks, lists |-> lists, hint |-> order]
        ELSE [ok |-> FALSE]

-----------------------------------------------------------------------------
ShInit == plan = <<>> /\ rewrite = <<>>

\* One more task, with the workers the schedule gives it.
AddTask ==
  /\ rewrite = <<>> /\ Len(plan) < ShardTasks
  /\ \E lists \in {{}, {1}, {3}, {1, 3}}, reads \in SUBSET Nodes,
       workers \in {<<1>>, <<3>>, <<1, 2>>, <<1, 2, 3>>} :
       plan' = Append(plan, [lists |-> lists, reads |-> reads, workers |-> workers])
  /\ UNCHANGED rewrite

Submit ==
  /\ rewrite = <<>> /\ plan # <<>>
  /\ rewrite' = Rewrite
  /\ UNCHANGED plan

ShNext == AddTask \/ Submit

-----------------------------------------------------------------------------
(* Correctness.                                                             *)

Accepted == rewrite # <<>> /\ rewrite.ok

\* Every task of the submitted workflow waits only for tasks of the workflow; the hint
\* names each task once, after all of those; each shard of a task has a worker of its own.
ShardTasksResolve ==
  Accepted =>
    LET at(t) == CHOOSE i \in DOMAIN rewrite.hint : rewrite.hint[i] = t
        on(t) == {w \in Workers : t \in ToSet(rewrite.lists[w])}
    IN  /\ \A t \in ToSet(rewrite.tasks) :
             /\ t \in ToSet(rewrite.hint) /\ Cardinality(on(t)) = 1
             /\ \A d \in DependsOn(t, rewrite.split) : d \in ToSet(rewrite.hint) /\ at(d) < at(t)
             /\ \A u \in ToSet(rewrite.tasks) :
                  t[1] = u[1] /\ t # u /\ t[2] > 0 /\ u[2] > 0 => on(t) # on(u)
        /\ IsInjective(rewrite.hint)

\* The rows of a task whose columns have these rows; <<>> when FlowMesh cannot combine them.
Combine(n, cols) ==
  LET lengths == {Len(cols[s]) : s \in DOMAIN cols}
  IN  IF 0 \in lengths \/ ~Aligned(lengths) THEN <<>>
      ELSE [i \in 1 .. Max(lengths) |->
              <<n, [s \in DOMAIN cols |-> IF Len(cols[s]) = 1 THEN cols[s][1] ELSE cols[s][i]]>>]

\* Columns are named by the task they read, or by 100 plus the length of the list.  A task
\* without data of its own and without reads is a retrieval that finds two rows.
OwnLists(n) == IF Lists(n) = {} /\ Reads(n) = {} THEN {2} ELSE Lists(n)
Names(n) == Reads(n) \cup {100 + l : l \in OwnLists(n)}

MergeRows(shards) == FlattenSeq(shards)

Whole ==
  LET rows[n \in Nodes] ==
        Combine(n, [s \in Names(n) |-> IF s < 100 THEN rows[s] ELSE [i \in 1 .. s - 100 |-> i]])
  IN  rows

Sharded ==
  LET split == rewrite.split
      pick(seq, idx) == IF \A i \in DOMAIN idx : idx[i] <= Len(seq)
                          THEN [i \in DOMAIN idx |-> seq[idx[i]]] ELSE <<>>
      rows[n \in Nodes] ==
        LET total == split[n][Len(split[n])][2]
            slice(k, s) ==
              IF s - 100 = total THEN [i \in 1 .. split[n][k][2] - split[n][k][1] |-> split[n][k][1] + i]
              ELSE <<1>>
            column(k, s) ==
              IF s > 100 THEN slice(k, s)
              ELSE IF split[s] # <<>> THEN rows[s][k]
              ELSE pick(rows[s][1], ShardColumn(n, k, s, split).rows)
        IN  IF split[n] = <<>>
              THEN << Combine(n, [s \in Names(n) |-> IF s < 100 THEN MergeRows(rows[s])
                                                     ELSE [i \in 1 .. s - 100 |-> i]]) >>
              ELSE [k \in DOMAIN split[n] |-> Combine(n, [s \in Names(n) |-> column(k, s)])]
  IN  rows

\* Nodes whose columns are cut alike: sharded reads at the same rows, unsharded ones with
\* as many rows as the node, or with a single row that shows in their data.
CutAlike(n) ==
  LET split == rewrite.split
  IN  split[n] # <<>> =>
        \A d \in Reads(n) :
          IF split[d] # <<>> THEN split[d] = split[n]
          ELSE Len(Whole[d]) = IF StaticTotal(d) = 1 THEN 1 ELSE split[n][Len(split[n])][2]

\* A workflow that runs unsharded gives the same rows, in the same order, when it runs in
\* shards that are cut alike.
ShardRowsKept ==
  Accepted =>
    \A n \in Nodes : Whole[n] # <<>> /\ (\A m \in Ancestors(n) \cup {n} : CutAlike(m)) =>
      MergeRows(Sharded[n]) = Whole[n]

\* The sharded workflow can run as scheduled and gives the rows of the unsharded one.
ShardsFaithful == ShardTasksResolve /\ ShardRowsKept

=============================================================================
