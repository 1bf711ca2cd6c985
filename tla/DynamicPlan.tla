----------------------------- MODULE DynamicPlan -----------------------------
(***************************************************************************)
(* The graphs of a dynamic run (dynamic/driver.py, dynamic/blocks.py): a   *)
(* planner emits a subgraph per round; it is validated against the ops and *)
(* the results of earlier rounds, its references to them become workflow   *)
(* inputs, and the leaves and exports of the round are archived.           *)
(*                                                                         *)
(* An op is its id, the ids it takes as inputs and whether its output can  *)
(* be archived.  A result is its shape over the rows of the run: one value *)
(* per row, a list per row, both, or a wrong number of items.              *)
(*                                                                         *)
(* A definition named D_Fault is D with a fault put in; it is used only to *)
(* see that a property notices the fault.                                  *)
(***************************************************************************)
EXTENDS Naturals, Sequences, FiniteSets, SequencesExt

CONSTANTS
  OpIds,      \* ids a planner may choose
  MaxNodes,   \* spec.driver.max_nodes_per_round
  PlanRounds  \* bound: rounds; spec.driver.max_rounds

Symbols == "Symbols"
FixedIds == {Symbols, "observation", "proposer"}
Shapes == {"scalars", "lists", "mixed", "short"}

VARIABLES
  rows,       \* number of symbols: 1 or 2
  registry,   \* node_registry: ids of all ops admitted so far
  results,    \* all_results: id -> shape
  subgraph,   \* current_subgraph, a sequence of ops
  export,     \* current_export
  images,     \* the ops of the subgraph take their inputs as image_source
  graph,      \* the round graph: node -> the nodes and workflow inputs it reads
  bound,      \* its workflow inputs
  archived,   \* ids whose whole result items the round archives
  stage,      \* plan, build, run, stopped, rejected, unbuildable
  ran         \* history: round -> ids of the ops it ran

planVars == <<rows, registry, results, subgraph, export, images, graph, bound, archived, stage, ran>>

Ids(sub) == {sub[i].id : i \in DOMAIN sub}
Consumed(sub) == UNION {sub[i].inputs : i \in DOMAIN sub}

\* _current_leaves
Leaves(sub) == Ids(sub) \ Consumed(sub)

PlanInit ==
  /\ rows \in {1, 2}
  /\ registry = {} /\ results = <<>> /\ subgraph = <<>> /\ export = {} /\ images = FALSE
  /\ graph = <<>> /\ bound = {} /\ archived = {}
  /\ stage = "plan" /\ ran = <<>>

-----------------------------------------------------------------------------
(* Admission.                                                               *)

Ops == [id : OpIds, source : BOOLEAN,
        inputs : {{Symbols}} \cup {S \in SUBSET OpIds : Cardinality(S) <= 2}]
Subgraphs == UNION {[1 .. n -> Ops] : n \in 0 .. MaxNodes}

\* The references of op i: to the symbols, to an earlier round whose result is at
\* hand, or to an op emitted before it.
ReferencesSound_AnyOrder(sub) ==
  \A i \in DOMAIN sub : \A ref \in sub[i].inputs \ {Symbols} :
    IF ref \in registry THEN ref \in DOMAIN results ELSE ref \in Ids(sub)
ReferencesSound(sub) ==
  \A i \in DOMAIN sub : \A ref \in sub[i].inputs \ {Symbols} :
    IF ref \in registry THEN ref \in DOMAIN results
    ELSE \E j \in 1 .. i - 1 : sub[j].id = ref

\* Ids are new, not reserved and not repeated.
IdsFresh(sub) ==
  /\ Ids(sub) \cap (FixedIds \cup registry) = {}
  /\ Cardinality(Ids(sub)) = Len(sub)

\* Every leaf is an LLM or retrieval op: its result can be archived.
LeavesArchivable(sub) ==
  \A i \in DOMAIN sub : sub[i].id \in Leaves(sub) => sub[i].source

\* validate_emitted_subgraph.  What concerns one op alone (a resolvable library
\* reference, a supported type, declared inputs that are exactly the nodes its
\* configuration reads) is a reason to reject, and nothing else here depends on it.
Valid(sub, exp) ==
  /\ sub # <<>> /\ Len(sub) <= MaxNodes
  /\ IdsFresh(sub)
  /\ ReferencesSound(sub)
  /\ LeavesArchivable(sub)
  /\ exp \subseteq Ids(sub)

\* A valid subgraph is registered at once; the next round runs it.
Admit(sub, exp, img) ==
  /\ stage = "plan"
  /\ Valid(sub, exp)
  /\ registry' = registry \cup Ids(sub)
  /\ subgraph' = sub /\ export' = exp /\ images' = img
  /\ stage' = "build"
  /\ UNCHANGED <<rows, results, graph, bound, archived, ran>>

\* STOP, or a plan that is malformed or not valid, as the empty one.
NoSubgraph(end) ==
  /\ stage = "plan"
  /\ stage' = end
  /\ UNCHANGED <<rows, registry, results, subgraph, export, images, graph, bound, archived, ran>>

-----------------------------------------------------------------------------
(* Assembly.                                                                *)

\* What forward_refs makes of a reference to the result of an earlier round: an
\* input of that name, an input plus an op that decodes the list of each row, or an
\* error.  A run of one row binds whatever there is.
Forward(ref) ==
  CASE rows = 1 \/ results[ref] = "scalars" -> "input"
    [] results[ref] = "lists" /\ ~ images -> "rows"
    [] OTHER -> "error"

Forwarded(sub) == Consumed(sub) \cap DOMAIN results

\* Nodes and inputs by kind and id.  A reference to an earlier round or to the symbols
\* reads a workflow input, any other the op of that id.
In(ref) == <<"input", ref>>
Rows(ref) == <<"rows", ref>>
Op(id) == <<"op", id>>
Rewritten(ref) ==
  CASE ref \in DOMAIN results /\ Forward(ref) = "rows" -> Rows(ref)
    [] ref = Symbols \/ (ref \in DOMAIN results /\ Forward(ref) = "input") -> In(ref)
    [] OTHER -> Op(ref)

\* The ops with their references rewritten, the decoders, and for the planner in the
\* graph the render, observation and proposer nodes after the leaves.
Observation == <<"observation", "">>
Proposer == <<"proposer", "">>
Render(leaf) == <<"render", leaf>>
Decoders(sub) == {Rows(ref) : ref \in {f \in Forwarded(sub) : Forward(f) = "rows"}}
Renders(sub) == {Render(leaf) : leaf \in Leaves(sub)}
RoundNodes(sub) ==
  {Op(id) : id \in Ids(sub)} \cup Decoders(sub) \cup Renders(sub) \cup {Observation, Proposer}

OpOf(sub, id) == CHOOSE o \in ToSet(sub) : o.id = id
NodeReads(sub, n) ==
  CASE n[1] = "op" -> {Rewritten(ref) : ref \in OpOf(sub, n[2]).inputs}
    [] n[1] = "rows" -> {In(n[2])}
    [] n[1] = "render" -> {Op(n[2])}
    [] n[1] = "observation" -> Renders(sub)
    [] n[1] = "proposer" -> {Observation}
RoundGraph(sub) == [n \in RoundNodes(sub) |-> NodeReads(sub, n)]

\* build_round; a reference that cannot be forwarded stops the run.
BuildRound ==
  /\ stage = "build"
  /\ \A ref \in Forwarded(subgraph) : Forward(ref) # "error"
  /\ graph' = RoundGraph(subgraph)
  /\ bound' = {In(ref) : ref \in {Symbols} \cup Forwarded(subgraph)}
  /\ archived' = Leaves(subgraph) \cup export
  /\ stage' = "run"
  /\ UNCHANGED <<rows, registry, results, subgraph, export, images, ran>>

BuildFails ==
  /\ stage = "build"
  /\ \E ref \in Forwarded(subgraph) : Forward(ref) = "error"
  /\ stage' = "unbuildable"
  /\ UNCHANGED <<rows, registry, results, subgraph, export, images, graph, bound, archived, ran>>

\* The child completed: what it archived becomes the results of its ops.
RunRound(shape) ==
  /\ stage = "run"
  /\ results' = [id \in DOMAIN results \cup archived |->
                   IF id \in archived THEN shape ELSE results[id]]
  /\ ran' = Append(ran, Ids(subgraph))
  /\ graph' = <<>> /\ bound' = {} /\ archived' = {} /\ images' = FALSE
  /\ stage' = "plan"
  /\ UNCHANGED <<rows, registry, subgraph, export>>

PlanNext ==
  \/ /\ stage = "plan" /\ Len(ran) < PlanRounds
     /\ \E sub \in Subgraphs : Valid(sub, {}) /\ \E exp \in SUBSET Ids(sub), img \in BOOLEAN : Admit(sub, exp, img)
  \/ \E end \in {"stopped", "rejected"} : NoSubgraph(end)
  \/ BuildRound \/ BuildFails
  \/ \E shape \in Shapes : RunRound(shape)

PlanSpec == PlanInit /\ [][PlanNext]_planVars

-----------------------------------------------------------------------------
(* Correctness.                                                             *)

\* The graph of a round is closed: whatever a node reads is a node of this round or
\* a workflow input that the round binds, however many rounds ago it was computed.
RoundClosed ==
  stage = "run" => \A n \in DOMAIN graph : graph[n] \subseteq DOMAIN graph \cup bound

\* It can be executed: there is an order in which every node follows what it reads.
Reach(g, S) == S \cup {n \in DOMAIN g : g[n] \subseteq S \cup bound}
RoundExecutable ==
  stage = "run" =>
    LET steps[k \in 0 .. Cardinality(DOMAIN graph)] ==
          IF k = 0 THEN {} ELSE Reach(graph, steps[k - 1])
    IN steps[Cardinality(DOMAIN graph)] = DOMAIN graph

\* No op runs twice, neither again nor as part of a later round: earlier results are
\* forwarded, never recomputed.
NoRecompute == \A i, j \in DOMAIN ran : i # j => ran[i] \cap ran[j] = {}

\* Every round that ran left the result of each of its leaves, and every export the
\* planner asked for can be referenced from then on.
ResultsKept ==
  stage = "plan" /\ ran # <<>> => Leaves(subgraph) \cup export \subseteq DOMAIN results

\* In a run of several rows an input of a round carries one value per row: a result
\* of another shape is decoded row by row or refused.
RowsAligned ==
  stage = "run" /\ rows > 1 =>
    \A n \in DOMAIN graph : \A ref \in DOMAIN results :
      In(ref) \in graph[n] => results[ref] = (IF n = Rows(ref) THEN "lists" ELSE "scalars")

\* The rounds of a dynamic run fit together: each can be executed on what it computes and
\* what earlier rounds left, row by row, and nothing is computed twice.
RoundsSound == RoundClosed /\ RoundExecutable /\ NoRecompute /\ ResultsKept /\ RowsAligned

=============================================================================
