----------------------------- MODULE BatchMerge -----------------------------
(***************************************************************************)
(* The rows of a request from submission to answer: the inputs are cut     *)
(* into slices (routes/jobs.py), slices that are in one batch are          *)
(* coalesced into one graph, the graph gets a new or a cached plan, and    *)
(* its outputs are dealt out to the slices again (runtime/server.py,       *)
(* _process_batch).  Failed and cancelled batches are Server's.            *)
(*                                                                         *)
(* A workflow is one prompt per row; its columns read an input through an  *)
(* InputOp ("input") or hold a list the parser wrote into the graph: the   *)
(* values of an input, with an input_ref ("pinned") or under a label only  *)
(* ("copy"), or a list of its own ("const").  A label is unique within its *)
(* node (parser/n8n.py), so columns of different nodes may share one.  The *)
(* result of a row is the values its columns have there.  Outputs of       *)
(* list-mode Lambdas are not cut into slices (see WholeRunExact of         *)
(* RuntimeGraph).  Coalescing also refuses a group in which nothing reads  *)
(* a varying input; it never does: Graph.compile wants an InputOp for      *)
(* every input (graphs/graph.py).                                          *)
(***************************************************************************)
EXTENDS Naturals, Sequences, FiniteSets, FiniteSetsExt, SequencesExt

CONSTANTS MaxRows    \* bound: rows of a request

VARIABLES
  jobs,    \* [reqs, pending (slices), buffers, errors, cache (plans)]
  sent     \* the last batch given to the runtime: [nodes, workers, plan, shares]; <<>> for none

baVars == <<jobs, sent>>

InputKeys == {1, 2}
Reqs == DOMAIN jobs.reqs
Req(s) == jobs.reqs[s.req]
Literals(r) == {c \in r.cols : c.kind # "input"}

\* A column: its place among those of the graph, what it holds, and the label it holds it
\* under; labels 1 and 2 are the names of the inputs.
Col(place, kind, key, label) == [place |-> place, kind |-> kind, key |-> key, label |-> label]

-----------------------------------------------------------------------------
(* Slices.                                                                  *)

TotalLength(r) == Max({Len(r.inputs[k]) : k \in InputKeys})
Varying(r) == {k \in InputKeys : Len(r.inputs[k]) > 1}

Slice(q, r, idx, start) ==
  [req |-> q, idx |-> idx, start |-> start, len |-> Min({r.size, TotalLength(r) - start})]
SlicesOf(q, r) ==
  {Slice(q, r, i, i * r.size) : i \in {i \in 0 .. MaxRows : i * r.size < TotalLength(r)}}

Inputs(s) ==
  [k \in InputKeys |-> IF Len(Req(s).inputs[k]) = 1 THEN Req(s).inputs[k]
                       ELSE SubSeq(Req(s).inputs[k], s.start + 1, s.start + s.len)]

\* The list a column holds in the graph that was parsed for the slice.
Items(c, s) == IF c.kind = "const" THEN <<c.key>> ELSE Inputs(s)[c.key]

-----------------------------------------------------------------------------
(* Groups of slices.                                                        *)

\* The slices of one request, in order, as long as their Python steps fit one timeout.
\* load is what a row takes of a timeout, in halves.
Chunks(slices) ==
  LET step(acc, s) ==
        LET share == Req(s).load * s.len
        IN  IF acc.out # <<>> /\ acc.load + share <= 2
            THEN [out |-> [acc.out EXCEPT ![Len(acc.out)] = Append(@, s)], load |-> acc.load + share]
            ELSE [out |-> Append(acc.out, <<s>>), load |-> share]
  IN  FoldLeft(step, [out |-> <<>>, load |-> 0], slices).out

Groups(batch, order) ==
  FlattenSeq([i \in DOMAIN order |->
    Chunks(SetToSortSeq({s \in batch : s.req = order[i]}, LAMBDA a, b : a.idx < b.idx))])

\* The request of a group and its place among the groups of the request.
GroupKey(groups, i) ==
  <<groups[i][1].req, Cardinality({j \in 1 .. i - 1 : groups[j][1].req = groups[i][1].req})>>

-----------------------------------------------------------------------------
(* Coalescing.                                                              *)

Concat(g, k) == FlattenSeq([i \in DOMAIN g |-> Inputs(g[i])[k]])
MergedInputs(g) == [k \in InputKeys |-> IF k \in Varying(Req(g[1])) THEN Concat(g, k) ELSE Inputs(g[1])[k]]

\* The varying inputs whose values in the first slice are those of the list.
MatchedKeys(c, first) == {k \in Varying(Req(first)) : Items(c, first) = Inputs(first)[k]}

\* The lists an alias is inferred from.
Unlabelled(c, r) == c.kind # "pinned" /\ c.label \notin Varying(r)

\* The input a label stands for in the whole graph: the last list under it that looks like
\* one decides; 0 for none.
InferredAlias(label, first) ==
  LET matched == {c \in Literals(Req(first)) :
                    c.label = label /\ Unlabelled(c, Req(first)) /\ MatchedKeys(c, first) # {}}
      last == CHOOSE c \in matched : \A d \in matched : d.place <= c.place
  IN  IF matched = {} THEN 0 ELSE Min(MatchedKeys(last, first))

\* The input that replaces a list; 0 for none.
RewriteKey(c, first) ==
  CASE c.kind = "pinned" -> IF c.key \in Varying(Req(first)) THEN c.key ELSE 0
    [] c.kind # "pinned" /\ c.label \in Varying(Req(first)) -> c.label
    [] OTHER -> InferredAlias(c.label, first)

Ambiguous(g) ==
  \E c \in Literals(Req(g[1])) : Unlabelled(c, Req(g[1])) /\ Cardinality(MatchedKeys(c, g[1])) > 1

\* The slices do not bring the rows they stand for.
Misaligned(g) ==
  \E k \in Varying(Req(g[1])) :
    \/ \E i \in DOMAIN g : Len(Inputs(g[i])[k]) # g[i].len
    \/ Len(Concat(g, k)) > TotalLength(Req(g[1]))
    \/ Len(MergedInputs(g)[k]) # MapThenSumSet(LAMBDA s : s.len, ToSet(g))

Refused(g) == Len(g) > 1 /\ (Misaligned(g) \/ Ambiguous(g))

\* What each column holds in the graph of the group.
Merged(g) ==
  LET first == g[1] inputs == MergedInputs(g)
  IN  [c \in Req(first).cols |->
         CASE c.kind = "input" -> inputs[c.key]
           [] c.kind # "input" /\ Len(g) = 1 -> Items(c, first)
           [] OTHER -> IF RewriteKey(c, first) = 0 THEN Items(c, first) ELSE inputs[RewriteKey(c, first)]]

-----------------------------------------------------------------------------
(* Plans.                                                                   *)

\* Tasks of the merged graph: the output of each group, and a task for each list, which
\* groups of one batch share when their lists are equal.
Nodes(groups, lists) ==
  LET output == Col(0, "output", 0, 0)
      same(c, i) == Min({j \in DOMAIN groups : c \in DOMAIN lists[j] /\ lists[j][c] = lists[i][c]})
  IN  {<<GroupKey(groups, i), output>> : i \in DOMAIN groups} \cup
      UNION {{<<GroupKey(groups, same(c, i)), c>> : c \in Literals(Req(groups[i][1]))} : i \in DOMAIN groups}

PlanKey(groups, workers) ==
  <<workers, {<<GroupKey(groups, i), [j \in DOMAIN groups[i] |-> groups[i][j].len]>> : i \in DOMAIN groups}>>

PlanFits(plan, nodes, workers) == plan.workers = workers /\ plan.nodes = nodes

\* The request's plan for the key, if it still fits; otherwise a new one.
Plan(owner, key, nodes, workers) ==
  LET cached == {e \in jobs.cache : e.owner = owner /\ e.key = key /\ PlanFits(e.plan, nodes, workers)}
  IN  IF cached # {} THEN (CHOOSE e \in cached : TRUE).plan ELSE [nodes |-> nodes, workers |-> workers]

\* The tasks of the merged graph, shared out to the requests by the tasks they brought.
RawNodes(batch, q) == Cardinality({s \in batch : s.req = q}) * (1 + Cardinality(Literals(jobs.reqs[q])))
Share(total, raw, rawTotal) == (total * raw) \div rawTotal
Shares(batch, total) ==
  LET qs == {s.req : s \in batch}
      rawTotal == MapThenSumSet(LAMBDA q : RawNodes(batch, q), qs)
      base == [q \in qs |-> Share(total, RawNodes(batch, q), rawTotal)]
      rest == IF MapThenSumSet(LAMBDA q : base[q], qs) > total THEN 0
              ELSE total - MapThenSumSet(LAMBDA q : base[q], qs)
  IN  [q \in qs |-> base[q] + (IF Cardinality({p \in qs : p <= q}) <= rest THEN 1 ELSE 0)]

-----------------------------------------------------------------------------
(* Results.                                                                 *)

\* The runtime (external): one result per row, a list of one value goes to every row.
At(items, i) == IF Len(items) = 1 THEN items[1] ELSE items[i]
RunOf(lists) ==
  [i \in 1 .. Max({Len(lists[c]) : c \in DOMAIN lists}) |-> [c \in DOMAIN lists |-> At(lists[c], i)]]

\* The rows of the group's output before those of the slice.
Offset_Reversed(g, s) == MapThenSumSet(LAMBDA t : t.len, {t \in ToSet(g) : t.idx > s.idx})
Offset(g, s) == MapThenSumSet(LAMBDA t : t.len, {t \in ToSet(g) : t.idx < s.idx})

\* The group's output fits its slices.
GroupLength(g) == MapThenSumSet(LAMBDA t : t.len, ToSet(g))
Fails(g, run) == Len(run) # GroupLength(g)

Outputs(g, run, s) == SubSeq(run, Offset(g, s) + 1, Offset(g, s) + s.len)

\* The buffer of a request with the outputs of a slice in their place.
MergeSlice(buffer, s, out) ==
  [i \in DOMAIN buffer |-> IF i > s.start /\ i <= s.start + s.len THEN <<out[i - s.start]>> ELSE buffer[i]]

-----------------------------------------------------------------------------
(* Steps.                                                                   *)

Rows == UNION {[1 .. n -> {1, 2}] : n \in 1 .. MaxRows}
Columns == {Col(1, kind, 1, 3) : kind \in {"input", "pinned"}} \cup {Col(1, "copy", 1, l) : l \in {1, 2, 3}}
Seconds == {{}, {Col(2, "pinned", 2, 3)}} \cup {{Col(2, "copy", 2, l)} : l \in {2, 3, 4}}
                                          \cup {{Col(2, "const", 2, l)} : l \in {1, 3, 4}}

\* One request, of two sizes of slices and with or without Python steps; or two requests of
\* the same workflow with slices of one row.
BaInit ==
  /\ sent = <<>>
  /\ \E rows \in Rows, col \in Columns, second \in Seconds, size, load, n \in {1, 2} :
       \E other \in {<<1>>, [i \in DOMAIN rows |-> 2]} :
         LET cols == {col} \cup second
             a == [inputs |-> <<rows, other>>, size |-> size, cols |-> cols, load |-> load - 1]
             b == [inputs |-> <<<<1, 2>>, <<1>>>>, size |-> 1, cols |-> cols, load |-> 0]
             reqs == IF n = 1 THEN <<a>> ELSE <<a, b>>
         IN  /\ n = 2 => Len(rows) = 2 /\ rows[1] = 1 /\ size = 1 /\ load = 1 /\ other = <<1>>
             /\ load = 2 => size = 1 /\ other = <<1>>
             /\ jobs = [reqs |-> reqs, pending |-> UNION {SlicesOf(q, reqs[q]) : q \in DOMAIN reqs},
                        buffers |-> [q \in DOMAIN reqs |-> [i \in 1 .. TotalLength(reqs[q]) |-> <<>>]],
                        errors |-> {}, cache |-> {}]

\* The group of a slice, and the slice's outputs put into the buffer.
GroupOf(groups, s) == CHOOSE i \in DOMAIN groups : s \in ToSet(groups[i])
MergeInto(buffer, groups, runs, S) ==
  FoldLeft(LAMBDA b, s : MergeSlice(b, s, Outputs(groups[GroupOf(groups, s)], runs[GroupOf(groups, s)], s)),
           buffer, SetToSeq(S))

\* The batch is refused before it has a plan, or it runs and its outputs fit or do not.
Refuse(batch) ==
  /\ jobs' = [jobs EXCEPT !.pending = @ \ batch, !.errors = @ \cup batch]
  /\ sent' = <<>>

Run(batch, groups, runs, key, plan, nodes) ==
  LET failed == \E i \in DOMAIN groups : Fails(groups[i], runs[i])
  IN  /\ jobs' = [jobs EXCEPT
           !.pending = @ \ batch,
           !.errors = IF failed THEN @ \cup batch ELSE @,
           !.cache = {e \in @ : <<e.owner, e.key>> # key} \cup {[owner |-> key[1], key |-> key[2], plan |-> plan]},
           !.buffers = IF failed THEN @
                       ELSE [q \in Reqs |-> MergeInto(@[q], groups, runs, {s \in batch : s.req = q})]]
      /\ sent' = [nodes |-> nodes, workers |-> key[2][1], plan |-> plan, shares |-> Shares(batch, Cardinality(nodes))]

\* The requests of a batch, its owner first.
Order(batch, owner) ==
  SetToSortSeq({s.req : s \in batch}, LAMBDA p, q : p # q /\ (p = owner \/ (q # owner /\ p < q)))

ProcessBatch ==
  \E batch \in SUBSET jobs.pending, owner \in Reqs, workers \in {1, 2} :
    /\ batch # {} /\ \E s \in batch : s.req = owner
    /\ workers = 2 => Cardinality(batch) = 1 /\ owner = 1 /\ Reqs # {1}    \* bound
    /\ \E groups \in {Groups(batch, Order(batch, owner))} :
         \/ (\E i \in DOMAIN groups : Refused(groups[i])) /\ Refuse(batch)
         \/ /\ \A i \in DOMAIN groups : ~Refused(groups[i])
            /\ \E lists \in {[i \in DOMAIN groups |-> Merged(groups[i])]}, key \in {PlanKey(groups, workers)} :
                 \E nodes \in {Nodes(groups, lists)} :
                   Run(batch, groups, [i \in DOMAIN groups |-> RunOf(lists[i])], <<owner, key>>,
                       Plan(owner, key, nodes, workers), nodes)

BaNext == ProcessBatch

-----------------------------------------------------------------------------
(* Correctness.                                                             *)

\* The varying input a column holds.
Held(c, r) == IF c.kind # "const" /\ c.key \in Varying(r) THEN {c.key} ELSE {}

\* No list under the column's label is taken for an input the column does not hold.
Unmistakable(c, q) ==
  LET r == jobs.reqs[q]
  IN  \/ c.kind \in {"input", "pinned"}
      \/ c.label \in Varying(r) /\ Held(c, r) = {c.label}
      \/ /\ c.label \notin Varying(r)
         /\ \A s \in SlicesOf(q, r), d \in Literals(r) :
              Unlabelled(d, r) /\ d.label = c.label => MatchedKeys(d, s) \subseteq Held(c, r)

\* No list looks like two inputs at once.
NeverAmbiguous(q) ==
  \A s \in SlicesOf(q, jobs.reqs[q]), c \in Literals(jobs.reqs[q]) :
    Unlabelled(c, jobs.reqs[q]) => Cardinality(MatchedKeys(c, s)) <= 1

\* Each row of an answer is the result of that row of the request, as if it had been run
\* alone, whichever slices of whichever requests were batched together and in which order,
\* in every column whose label cannot be mistaken; and batching never makes a slice fail
\* unless a list looks like two inputs.  A list that looks or is labelled like an input it
\* does not hold, or shares its label with such a list, does get the rows of that input.
RowsReturned ==
  \A q \in Reqs :
    LET r == jobs.reqs[q]
    IN  /\ \A i \in DOMAIN jobs.buffers[q], c \in r.cols :
             jobs.buffers[q][i] # <<>> /\ Unmistakable(c, q) =>
               jobs.buffers[q][i][1][c] = IF c.kind = "const" THEN c.key ELSE At(r.inputs[c.key], i)
        /\ \A i \in DOMAIN jobs.buffers[q] : jobs.buffers[q][i] = <<>> =>
             \E s \in jobs.pending \cup jobs.errors : s.req = q /\ i > s.start /\ i <= s.start + s.len
        /\ (\A p \in Reqs : NeverAmbiguous(p)) => jobs.errors = {}

\* The plan the runtime gets is one for the graph it gets, on the workers of the batch, also
\* when it was made for an earlier batch whose tasks were shared differently.
PlanCovers == sent # <<>> => sent.plan.nodes = sent.nodes /\ sent.plan.workers = sent.workers

\* The tasks accounted to the requests of a batch are the tasks of the batch.
SharesAddUp ==
  sent # <<>> => MapThenSumSet(LAMBDA q : sent.shares[q], DOMAIN sent.shares) = Cardinality(sent.nodes)

\* Batching is invisible to a request: its rows, its plan and its share of the work are right.
BatchesSound == RowsReturned /\ PlanCovers /\ SharesAddUp

=============================================================================
