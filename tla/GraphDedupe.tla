----------------------------- MODULE GraphDedupe -----------------------------
(***************************************************************************)
(* runtime/optimizer/base.py: the graphs of a batch are merged and tasks   *)
(* that say the same are run once.  Two tasks say the same when their      *)
(* specs, after renaming labels and the tasks merged so far, are equal.    *)
(*                                                                         *)
(* A task is a source (spec: what it holds) or a reader: its columns bind  *)
(* a label to a path of another task's result, and its text shows labels.  *)
(* Labels, paths and texts are words; renaming a label renames the word    *)
(* wherever it stands.  Tasks are numbered in node order.                  *)
(***************************************************************************)
EXTENDS Naturals, Sequences, FiniteSets, FiniteSetsExt, SequencesExt

CONSTANTS DedupeTasks    \* bound: tasks of the merged graph

VARIABLES
  merged,    \* the tasks of the merged graph
  deduped    \* [mapping, order, tasks]; <<>> before

deVars == <<merged, deduped>>

Nodes == DOMAIN merged
Reads(t) == {t.cols[i].node : i \in DOMAIN t.cols}
Labels(t) == {t.cols[i].label : i \in DOMAIN t.cols}

-----------------------------------------------------------------------------
\* References to tasks that were merged away follow them.
Remap(t, mapping) ==
  [t EXCEPT !.cols = [i \in DOMAIN t.cols |-> [t.cols[i] EXCEPT !.node = mapping[@]]],
            !.after = {mapping[a] : a \in t.after}]

\* Labels become their places in the sorted list of labels, in every word of the spec.
Token_Same(t, word) == IF word \in Labels(t) THEN 1 ELSE word
Token(t, word) == IF word \in Labels(t) THEN Cardinality({l \in Labels(t) : l <= word}) ELSE word

Normalize(t) ==
  [t EXCEPT !.cols = [i \in DOMAIN t.cols |->
                        [label |-> Token(t, t.cols[i].label), node |-> t.cols[i].node,
                         path |-> Token(t, t.cols[i].path)]],
            !.text = [i \in DOMAIN t.text |-> Token(t, t.text[i])]]

Signature(t, mapping) == Normalize(Remap(t, mapping))

Merges(t) == ~t.output

\* The first task with a signature stands for the others; outputs stand for themselves.
MergeTask(acc, n) ==
  LET sig == Signature(merged[n], acc.map)
      same == {c \in acc.canonical : c.signature = sig}
      merges == Merges(merged[n])
  IN  [map |-> Append(acc.map, IF merges /\ same # {} THEN (CHOOSE c \in same : TRUE).task ELSE n),
       canonical |-> IF merges /\ same = {} THEN acc.canonical \cup {[task |-> n, signature |-> sig]}
                     ELSE acc.canonical]
Mapping ==
  LET acc[n \in 0 .. Len(merged)] ==
        IF n = 0 THEN [map |-> <<>>, canonical |-> {}] ELSE MergeTask(acc[n - 1], n)
  IN  acc[Len(merged)].map

\* Each task that is kept takes the place of the first that it stands for.
Order(mapping) ==
  LET kept[n \in 0 .. Len(merged)] ==
        CASE n = 0 -> <<>>
          [] n > 0 /\ mapping[n] \in ToSet(kept[n - 1]) -> kept[n - 1]
          [] OTHER -> Append(kept[n - 1], mapping[n])
  IN  kept[Len(merged)]

-----------------------------------------------------------------------------
DeInit == merged = <<>> /\ deduped = <<>>

Word == {1, 2}             \* words that are labels somewhere
Plain == 9                 \* a path that is no label: items.output

AddTask ==
  /\ deduped = <<>> /\ Len(merged) < DedupeTasks
  /\ \/ \E s \in {1, 2} :
          /\ Len(merged) < 2
          /\ merged' = Append(merged, [spec |-> s, cols |-> <<>>, text |-> <<>>, after |-> {}, output |-> FALSE])
     \/ \E l \in Word, n \in Nodes, p \in Word \cup {Plain}, after \in {{}} \cup {{t} : t \in Nodes}, out \in BOOLEAN :
          /\ after # {} \/ out => p = Plain /\ l = 1
          /\ merged' = Append(merged, [spec |-> 0, cols |-> <<[label |-> l, node |-> n, path |-> p]>>,
                                       text |-> <<l>>, after |-> after, output |-> out])
     \/ \E l \in Word, m, n \in Nodes, text \in {<<1, 2>>, <<2, 1>>} :
          merged' = Append(merged, [spec |-> 0,
                                    cols |-> <<[label |-> l, node |-> m, path |-> Plain],
                                               [label |-> 3 - l, node |-> n, path |-> Plain]>>,
                                    text |-> text, after |-> {}, output |-> FALSE])
  /\ UNCHANGED deduped

Dedupe ==
  /\ deduped = <<>> /\ merged # <<>>
  /\ LET mapping == Mapping
     IN  deduped' = [mapping |-> mapping, order |-> Order(mapping),
                     tasks |-> [n \in ToSet(Order(mapping)) |-> Remap(merged[n], mapping)]]
  /\ UNCHANGED merged

DeNext == AddTask \/ Dedupe

DeSpec == DeInit /\ [][DeNext]_deVars

-----------------------------------------------------------------------------
(* Correctness.                                                             *)

\* What a task shows: for every label of its text the path bound to it, and what the task
\* it is bound to shows.
Bound(t, label) == CHOOSE c \in ToSet(t.cols) : c.label = label
Shown(t, value) ==
  <<t.spec, [i \in DOMAIN t.text |-> LET c == Bound(t, t.text[i]) IN <<c.path, value[c.node]>>]>>

Meaning == LET value[n \in Nodes] == Shown(merged[n], value) IN value
DedupedMeaning == LET value[n \in DOMAIN deduped.tasks] == Shown(deduped.tasks[n], value) IN value

\* The deduplicated graph can run: what a task reads or waits for is in it, before it.
DedupedRuns ==
  deduped # <<>> =>
    /\ IsInjective(deduped.order)
    /\ \A i \in DOMAIN deduped.order :
         LET t == deduped.tasks[deduped.order[i]]
         IN  Reads(t) \cup t.after \subseteq {deduped.order[j] : j \in 1 .. i - 1}

\* Every output of every job of the batch still has a task of its own.
OutputsApart ==
  deduped # <<>> => \A m, n \in Nodes : merged[m].output /\ merged[n].output /\ m # n =>
    deduped.mapping[m] # deduped.mapping[n]

\* A label that is no other word of the spec.
CleanLabels(n) == \A i \in DOMAIN merged[n].cols : merged[n].cols[i].path \notin Labels(merged[n])

\* When labels are no other words of the specs, a task that stands for others shows what
\* they showed, in the graph that is run.
MergedSame ==
  deduped # <<>> /\ (\A n \in Nodes : CleanLabels(n)) =>
    \A n \in Nodes : DedupedMeaning[deduped.mapping[n]] = Meaning[n]

\* "Merge identical runtime ops with identical dependencies": whatever its labels, a task
\* is merged only with tasks that show the same.
MergedIdentical ==
  deduped # <<>> => \A n \in Nodes : DedupedMeaning[deduped.mapping[n]] = Meaning[n]

\* The deduplicated batch runs, keeps every output, and shows what it showed before.
DedupeSound == DedupedRuns /\ OutputsApart /\ MergedSame

=============================================================================
