---------------------------- MODULE RuntimeGraph ----------------------------
(***************************************************************************)
(* runtime/runtime_graph.py: the ops of a workflow become the tasks of a   *)
(* FlowMesh workflow.  LLM, retrieval and whole-column lambda ops become   *)
(* tasks (a vision op several); formats and messages are rendered into the *)
(* prompts of the tasks that read them; a row lambda is inlined or becomes *)
(* a python task, whichever its readers need.                              *)
(*                                                                         *)
(* Op i of a workflow reads only ops before it: "in" are its DSL inputs    *)
(* (the contents of the messages of an LLM op), "cols" what it names in    *)
(* columns, template params or format fields, "img" the image source of a  *)
(* vision op and "cond" the op that the condition of a chat op tests (0:   *)
(* none).  An op may be tested by one that stands before it in the code's  *)
(* graph: ops are numbered after all that they name, which nothing else    *)
(* depends on.  Texts, models and configurations are left out.  A lambda   *)
(* is submitted code, so the server never evaluates it, and an LLM op in a *)
(* message stands for the format the parsers wrap it in.                   *)
(*                                                                         *)
(* A definition named D_Fault is D with a fault put in; it is used only to *)
(* see that a property notices the fault.                                  *)
(***************************************************************************)
EXTENDS Naturals, Sequences, FiniteSets, FiniteSetsExt, SequencesExt

CONSTANTS
  MaxOps,    \* bound: ops of a workflow
  FreeOps    \* bound: the ops after these read one op, and are chats, lambdas or outputs

VARIABLES
  ops,     \* the ops of the workflow, in topological order
  built    \* the runtime graph; [ok |-> FALSE] when build raised, <<>> before

rgVars == <<ops, built>>

Chat == {"chat", "api"}
LLM == Chat \cup {"vlm", "emb", "img"}
Whole == {"list", "aligned"}
Lambda == Whole \cup {"row"}
Literal == {"input", "data"}
Task == LLM \cup Whole \cup {"retr"}

O(kind, ins, cols, mode, img, rows) ==
  [kind |-> kind, in |-> ins, cols |-> cols, mode |-> mode, img |-> img, rows |-> rows, cond |-> 0]

Upto(S, k) == {T \in SUBSET S : T # {} /\ Cardinality(T) <= k}

\* The ops that may follow n others.  Mode: how a chat or vision op takes its rows,
\* "image" for a row lambda that brings its own image, "bare" for a format that only
\* repeats its input.
NewOps(n) ==
  LET prior == {i \in 1 .. n : ops[i].kind # "output"}
      few == {{}} \cup Upto(prior, 1)
      prompt == [kind : Chat, in : Upto(prior, 2), cols : {{}}, mode : {"plain"}]
      rowwise == [kind : Chat, in : {{}}, cols : Upto(prior, 2), mode : {"rowwise"}]
      aggregate == [kind : Chat, in : few, cols : Upto(prior, 1), mode : {"aggregate"}]
      vision == {O("vlm", S \cup {s}, C, m, s, 1) : s \in prior, S \in few, C \in few,
                   m \in {"plain", "rowwise"}}
      \* the messages of a row-wise op are text: its template and columns take their place
      used(v) == IF v.mode = "plain" THEN v.cols = {} ELSE v.in = {v.img}
      gated == [kind : Chat, in : Upto(prior, 1), cols : {{}}, mode : {"plain"}]
               \cup [kind : Chat, in : {{}}, cols : Upto(prior, 1), mode : {"rowwise"}]
  IN {O(p.kind, p.in, p.cols, p.mode, 0, 1) : p \in prompt \cup rowwise \cup aggregate}
     \cup {[O(p.kind, p.in, p.cols, p.mode, 0, 1) EXCEPT !.cond = c] : p \in gated, c \in prior}
     \cup {v \in vision : used(v)}
     \cup {O("retr", S, C, "plain", 0, 1) : S \in few, C \in few}
     \cup {O(k, S, {}, "plain", 0, 1) : k \in {"emb", "img", "output"}, S \in Upto(prior, 1)}
     \cup {O("format", S, C \cap S, "plain", 0, 1) : S \in Upto(prior, 2), C \in SUBSET prior}
     \cup {O("format", S, {}, "bare", 0, 1) : S \in Upto(prior, 1)}
     \cup {O("row", S, {}, m, 0, 1) : S \in Upto(prior, 2), m \in {"plain", "image"}}
     \cup {O(k, S, {}, "plain", 0, 1) : k \in Whole, S \in Upto(prior, 2)}

-----------------------------------------------------------------------------
(* What an op is read for.                                                  *)

\* Graph.topological_sort keeps the ops on some edge: one that is only named in a
\* column is not in the graph.
InGraph == {i \in DOMAIN ops : ops[i].in # {} \/ ops[i].kind \in Chat
                                 \/ \E j \in DOMAIN ops : i \in ops[j].in}

\* _static_output_row_count of op i, where rc is that of the ops before; 0 when it is not
\* known.
CountOf(i, rc) ==
  LET over(S) == Max({0} \cup {rc[j] : j \in S})
      op == ops[i]
  IN CASE op.kind \in Literal -> op.rows
       [] op.kind \in Chat \cup {"vlm"} /\ op.cols # {} /\ op.mode # "aggregate" ->
            over(op.cols \cap InGraph)
       [] op.kind = "vlm" -> over(op.in \ {op.img})
       [] op.kind \in {"chat", "api", "emb", "img", "format", "row", "aligned"} -> over(op.in)
       [] OTHER -> 0
RowCount == LET rc[i \in DOMAIN ops] == CountOf(i, rc) IN rc

\* _emits_one_item_per_row
OneItemPerRow(i) == ops[i].kind \in {"chat", "vlm"} /\ ops[i].mode # "rowwise"

\* _infer_structural_messages: what the prompt of an LLM task is made from.  llms and
\* nodes are the tasks it reads, seen the ops visited, counts the rows of its multi-row
\* columns, bad whether the build stops.
Nothing == [llms |-> {}, nodes |-> {}, seen |-> {}, counts |-> {}, bad |-> FALSE]
Joined(S) ==
  [llms |-> UNION {t.llms : t \in S}, nodes |-> UNION {t.nodes : t \in S},
   seen |-> UNION {t.seen : t \in S}, counts |-> UNION {t.counts : t \in S},
   bad |-> \E t \in S : t.bad]

Many(i) == IF RowCount[i] > 1 THEN {RowCount[i]} ELSE {}

\* An LLM op: its output is a column.  Several rows bind row by row only from a plain
\* local chat into a local task.
TraceLLM(i, api) ==
  [Nothing EXCEPT !.llms = {i}, !.seen = {i},
     !.counts = IF ops[i].kind = "api" THEN {} ELSE Many(i),
     !.bad = ops[i].kind # "api" /\ Many(i) # {} /\ (api \/ ~ OneItemPerRow(i))]

TraceSource(i) ==
  [Nothing EXCEPT !.seen = {i},
     !.counts = IF ops[i].kind = "input" THEN Many(i) ELSE {},
     !.nodes = IF ops[i].kind = "retr" THEN {i} ELSE {}]

\* A format: what it reads whole is traced; a field is a column of its own, projected
\* here when it is a field of an input.
TraceFormat(i, whole) ==
  LET literal == {j \in ops[i].cols : ops[j].kind = "input"}
  IN [whole EXCEPT !.seen = @ \cup {i} \cup literal, !.nodes = @ \cup (ops[i].cols \ literal)]

\* A row lambda is inlined as a function step, which an API request cannot carry.
TraceLambda(i, args, api) ==
  [args EXCEPT !.seen = @ \cup {i}, !.bad = @ \/ ops[i].mode = "image" \/ api]

\* _trace_ancestors of op i, where tr are the traces of the ops before.
TraceOf(i, tr, api) ==
  CASE ops[i].kind \in LLM -> TraceLLM(i, api)
    [] ops[i].kind \in Literal \cup {"retr"} -> TraceSource(i)
    [] ops[i].kind = "format" -> TraceFormat(i, Joined({tr[j] : j \in ops[i].in \ ops[i].cols}))
    [] ops[i].kind = "row" -> TraceLambda(i, Joined({tr[j] : j \in ops[i].in}), api)
    [] OTHER -> [Nothing EXCEPT !.bad = TRUE]
Traces(api) == LET tr[i \in DOMAIN ops] == TraceOf(i, tr, api) IN tr
TraceAncestors(S, api) == Joined({Traces(api)[i] : i \in S})

\* Columns of different row counts cannot be bound to one prompt.
Bindable_Any(t) == ~ t.bad
Bindable(t) == ~ t.bad /\ Cardinality(t.counts) <= 1

-----------------------------------------------------------------------------
(* Tasks.  A task is <<prefix, op, part>>, where "own" stands for no prefix *)
(* and "main" for the task that carries the id of the op.  It has           *)
(* dependencies, references in its data, the task its condition tests, a    *)
(* mode when it runs python ("no" when it does not), and the ops its prompt *)
(* inlines.                                                                 *)

Part(i, name) == <<"own", i, name>>
T(i) == Part(i, "main")
N(t, deps, refs, py, seen) ==
  [u \in {t} |-> [deps |-> deps, refs |-> refs, gate |-> {}, python |-> py, inlines |-> seen]]
Gated(nodes, gate) == [u \in DOMAIN nodes |-> [nodes[u] EXCEPT !.gate = gate]]
Both(f, g) == [u \in DOMAIN f \cup DOMAIN g |-> IF u \in DOMAIN f THEN f[u] ELSE g[u]]
Tasks(S) == {T(i) : i \in S}

\* Columns: an input is inlined as a literal, anything else is a reference.
Columns(cols) == {j \in cols : j \notin InGraph \/ ops[j].kind # "input"}
\* An input that is not in the graph is not recognised: it needs a path and is refused.
ColumnsOk(cols) == \A j \in cols : ops[j].kind = "input" => j \in InGraph

\* What a chat task reads, given its traced prompt: row-wise its columns, for an
\* aggregate its table and its prompt, otherwise its prompt.
RowwiseReads(i, t) == Columns(ops[i].cols)
AggregateReads(i, t) == Columns(ops[i].cols) \cup t.llms \cup t.nodes
PromptReads(i, t) == t.llms \cup t.nodes

\* _row_condition: the condition of op i tests the result of one op for the whole task, so
\* the op and i may not both have several rows.  It is no dependency.
Gate(i) == IF ops[i].cond = 0 THEN {} ELSE {T(ops[i].cond)}
GateOk(i) == ops[i].cond \in InGraph => Many(ops[i].cond) = {} \/ Many(i) = {}

\* _build_node_from_llm_op, or _build_api_llm_op for an external model; t is its prompt.
ChatNode_DepsFromPrompt(i, t) ==
  LET refs == IF ops[i].mode = "plain" THEN t.llms \cup t.nodes ELSE Columns(ops[i].cols)
  IN [nodes |-> Gated(N(T(i), Tasks(t.llms \cup t.nodes), Tasks(refs), "no", t.seen), Gate(i)),
      seen |-> t.seen, ok |-> Bindable(t) /\ ColumnsOk(ops[i].cols) /\ GateOk(i)]
ChatNode(i, t) ==
  LET mode == ops[i].mode
      refs == CASE mode = "rowwise" -> RowwiseReads(i, t)
                [] mode = "aggregate" -> AggregateReads(i, t)
                [] OTHER -> PromptReads(i, t)
      inlined == IF mode = "rowwise" THEN {} ELSE t.seen
  IN [nodes |-> Gated(N(T(i), Tasks(t.llms \cup refs), Tasks(refs), "no", inlined), Gate(i)),
      seen |-> t.seen, ok |-> Bindable(t) /\ ColumnsOk(ops[i].cols) /\ GateOk(i)]

\* A task with one content: literal values, or the single row of another task.
Content(i, content, literal, seen) ==
  LET reads == IF literal THEN {} ELSE {T(content)}
  IN [nodes |-> N(T(i), reads, reads, "no", {}), seen |-> {i} \cup seen,
      ok |-> literal \/ ops[content].kind \notin LLM \/ Many(content) = {}]

EmbeddingNode(i) ==
  LET c == CHOOSE j \in ops[i].in : TRUE IN Content(i, c, ops[c].kind \in Literal, {c})

\* Image generation looks through a format that only repeats its input.
ImageNode(i) ==
  LET c == CHOOSE j \in ops[i].in : TRUE
      content == IF ops[c].mode = "bare" THEN CHOOSE j \in ops[c].in : TRUE ELSE c
  IN Content(i, content, ops[content].kind = "input", {c})

\* _flattened_vlm_ids
PerRow(op) == op.kind = "vlm" /\ op.mode = "rowwise" /\ ops[op.img].kind = "retr"

\* _resolve_vlm_image_source: the images are literal, or the result of a task.
ImageSource(i) == IF ops[ops[i].img].kind = "input" THEN {} ELSE {T(ops[i].img)}
ImageSourceOk(i) == ops[ops[i].img].kind \in {"input", "img", "retr"}

\* Per row over the images of a retrieval: a flatten and a regroup step around one flat
\* inference.
Flattened(i, source, refs) ==
  LET e == Part(i, "embedding")   flat == Part(i, "flatten")   infer == Part(i, "infer")
  IN Both(N(flat, source \cup refs, source \cup refs, "flatten", {}),
          Both(N(infer, {flat, e}, {flat, e}, "no", {}),
               N(T(i), {infer, flat} \cup source, {infer, flat} \cup source, "regroup", {})))

\* _build_vlm_nodes_from_image_op: an embedding and an inference task; t is the prompt.
VisionNodes(i, t) ==
  LET op == ops[i]
      e == Part(i, "embedding")
      source == ImageSource(i)
      refs == Tasks(IF op.mode = "rowwise" THEN RowwiseReads(i, t) ELSE PromptReads(i, t))
      one == N(T(i), Tasks(t.llms) \cup refs \cup source \cup {e}, refs \cup source \cup {e}, "no",
               IF op.mode = "rowwise" THEN {} ELSE t.seen)
  IN [nodes |-> Both(N(e, source, source, "no", {}), IF PerRow(op) THEN Flattened(i, source, refs) ELSE one),
      seen |-> t.seen \cup {op.img},
      ok |-> /\ Bindable(t) /\ ColumnsOk(op.cols) /\ ImageSourceOk(i)
             /\ op.mode = "rowwise" => op.cols # {}
             /\ PerRow(op) => \A j \in op.cols :
                  j \in InGraph /\ ops[j].kind \notin Lambda /\ ~ PerRow(ops[j])]

\* _build_node_from_data_retrieval_op and _mark_retrieval_upstream_nodes_visited.
RetrievalNode(i) ==
  LET op == ops[i]
      inputs == {j \in op.in : ops[j].kind # "input"}
      params == {j \in op.cols : ops[j].kind # "input"}
      counts == UNION {Many(j) : j \in {k \in op.cols : ops[k].kind \in LLM \cup {"input"}}}
  IN [nodes |-> N(T(i), Tasks(inputs \cup params), Tasks(params), "no", {}),
      seen |-> op.in \cup (op.cols \cap InGraph),
      ok |-> /\ Cardinality(counts) <= 1
             /\ \A j \in op.cols \cap InGraph :
                  ops[j].kind \in LLM /\ Many(j) # {} => OneItemPerRow(j)]

\* _python_step_row_count
RowsAgree(S) == Cardinality(UNION {Many(j) : j \in S}) <= 1

\* _build_node_from_list_lambda_op
WholeNode(i) ==
  LET op == ops[i]
      reads == {j \in op.in : ops[j].kind \notin Literal}
  IN [nodes |-> N(T(i), Tasks(reads), Tasks(reads), op.kind, {}),
      seen |-> op.in,
      ok |-> /\ \A j \in reads : ops[j].kind \in Task
             /\ op.kind = "aligned" => RowsAgree(op.in)]

\* _build_python_step: the row lambdas of S and those they read.
StepClosure(S) ==
  LET cl[i \in 0 .. Len(ops)] ==
        IF i = 0 THEN S
        ELSE LET found == cl[i - 1]
             IN found \cup {j \in DOMAIN ops : ops[j].kind = "row"
                              /\ \E k \in found : ops[k].kind = "row" /\ j \in ops[k].in}
  IN cl[Len(ops)]
StepNode(i) ==
  LET reads == {j \in ops[i].in : ops[j].kind \notin Literal}
  IN [nodes |-> N(T(i), Tasks(reads), Tasks(reads), "row", {}),
      seen |-> {i} \cup {j \in ops[i].in : ops[j].kind \in Literal},
      ok |-> RowsAgree(ops[i].in) /\ \A j \in reads : ops[j].kind \in (Task \cup {"row"}) \ {"vlm"}]

-----------------------------------------------------------------------------
(* RuntimeGraphBuilder.build.                                               *)

Node(i) ==
  CASE ops[i].kind \in Chat -> ChatNode(i, TraceAncestors(ops[i].in, ops[i].kind = "api"))
    [] ops[i].kind = "vlm" -> VisionNodes(i, TraceAncestors(ops[i].in \ {ops[i].img}, FALSE))
    [] ops[i].kind = "emb" -> EmbeddingNode(i)
    [] ops[i].kind = "img" -> ImageNode(i)
    [] ops[i].kind = "retr" -> RetrievalNode(i)
    [] ops[i].kind \in Whole -> WholeNode(i)

Merged(S) == [t \in UNION {DOMAIN s : s \in S} |-> (CHOOSE s \in S : t \in DOMAIN s)[t]]

Outputs == {j \in DOMAIN ops : ops[j].kind = "output"}
SourceOf(o) == CHOOSE j \in ops[o].in : TRUE

\* _referenced_row_lambdas: row lambdas that a task reads, waits for or tests.
Referenced(nodes) ==
  {j \in InGraph : ops[j].kind = "row"
     /\ \E t \in DOMAIN nodes : T(j) \in nodes[t].refs \cup nodes[t].gate \cup nodes[t].deps}

\* Row lambdas that need a task of their own.
Standalone(nodes, seen) ==
  {i \in InGraph : ops[i].kind = "row"
     /\ (i \notin seen \/ (\E o \in Outputs : SourceOf(o) = i) \/ ops[i].mode = "image"
           \/ i \in Referenced(nodes))}

\* _check_inlined_lambda_refs
InlinedUnread(nodes) ==
  \A i \in InGraph : ops[i].kind = "row" /\ T(i) \notin DOMAIN nodes =>
    \A t \in DOMAIN nodes : T(i) \notin nodes[t].refs \cup nodes[t].gate

\* OutputOps: the source must be a task or a lambda, and feeds one output only.
OutputsOk ==
  /\ \A o \in Outputs : ops[SourceOf(o)].kind \in LLM \cup Lambda \cup {"retr"}
  /\ \A o, p \in Outputs : o # p => SourceOf(o) # SourceOf(p)

\* topological_order: layers of the tasks and of their dependencies; only tasks stay.
Layers(nodes) ==
  LET ids == DOMAIN nodes \cup UNION {nodes[t].deps : t \in DOMAIN nodes}
      waits(t) == IF t \in DOMAIN nodes THEN nodes[t].deps ELSE {}
      done[k \in 0 .. Cardinality(ids)] ==
        IF k = 0 THEN {} ELSE LET ran == done[k - 1] IN ran \cup {t \in ids : waits(t) \subseteq ran}
  IN [k \in 1 .. Cardinality(ids) |-> (done[k] \ done[k - 1]) \cap DOMAIN nodes]

TaskOps == {i \in InGraph : ops[i].kind \in Task}

\* What has been visited once the ops in made are.
Visited(made) == Outputs \cup TaskOps \cup UNION {m.seen : m \in made}

\* The python steps that the tasks made from the ops call for.
Steps(made) ==
  {StepNode(i) : i \in StepClosure(Standalone(Merged({m.nodes : m \in made}), Visited(made)))}

Finished(made, nodes) ==
  IF /\ OutputsOk
     /\ \A m \in made : m.ok
     /\ InlinedUnread(nodes)
     /\ InGraph \subseteq Visited(made)
     /\ \E i \in InGraph : ops[i].kind \in Task \cup {"row"}
    THEN [ok |-> TRUE, nodes |-> nodes, order |-> Layers(nodes),
          outputs |-> {T(SourceOf(o)) : o \in Outputs}]
    ELSE [ok |-> FALSE]

WithSteps(made) == made \cup Steps(made)
Assembled(made) == Finished(made, Merged({m.nodes : m \in made}))

Build == Assembled(WithSteps({Node(i) : i \in TaskOps}))

\* list_lambda_cardinality_nodes: one value for the whole run, in node order.
WholeRun(b) ==
  LET waits(t) == b.nodes[t].deps \cap DOMAIN b.nodes
      at[k \in 0 .. Len(b.order)] ==
        IF k = 0 THEN {}
        ELSE LET whole == at[k - 1]
             IN whole \cup {t \in b.order[k] :
                  \/ b.nodes[t].python = "list"
                  \/ b.nodes[t].python = "no" /\ waits(t) \cap whole # {}}
  IN at[Len(b.order)]

\* to_flowmesh_node and to_flowmesh_nodes: the task that a condition tests is added, and
\* dependsOn keeps only what is a task.
DependsOn(b, t) == (b.nodes[t].deps \cup b.nodes[t].gate) \cap DOMAIN b.nodes

\* with_node_prefix: the tasks, and what they name among the tasks, are renamed.
Prefixed(b, p) ==
  LET nm(t) == IF t \in DOMAIN b.nodes THEN <<p, t[2], t[3]>> ELSE t
  IN [nodes |-> [u \in {nm(t) : t \in DOMAIN b.nodes} |->
                   LET own == b.nodes[<<"own", u[2], u[3]>>]
                   IN [deps |-> {nm(t) : t \in own.deps}, refs |-> {nm(t) : t \in own.refs},
                       gate |-> {nm(t) : t \in own.gate},
                       python |-> own.python, inlines |-> own.inlines]],
      outputs |-> {nm(t) : t \in b.outputs}]

\* merge_runtime_graphs: refused when two graphs have a task of the same id.
MergeOk(a, b) == DOMAIN a.nodes \cap DOMAIN b.nodes = {}
Merge(a, b) == [nodes |-> Both(a.nodes, b.nodes), outputs |-> a.outputs \cup b.outputs]

-----------------------------------------------------------------------------

RGInit ==
  /\ ops \in {<<O("input", {}, {}, "plain", 0, r)>> : r \in 1 .. 2}
  /\ built = <<>>

AddOp ==
  /\ built = <<>> /\ Len(ops) < MaxOps
  /\ \/ \E op \in NewOps(Len(ops)) :
          /\ Len(ops) >= FreeOps => op.kind \in {"chat", "row", "output"} /\ op.cond = 0
                                     /\ Cardinality(op.in) + Cardinality(op.cols) = 1
          /\ ops' = Append(ops, op)
     \/ Len(ops) = 1 /\ \E k \in Literal : ops' = Append(ops, O(k, {}, {}, "plain", 0, 3))
  /\ UNCHANGED built

Compile ==
  /\ built = <<>>
  /\ built' = Build
  /\ UNCHANGED ops

RGNext == AddOp \/ Compile

RGSpec == RGInit /\ [][RGNext]_rgVars

-----------------------------------------------------------------------------
(* Correctness.                                                             *)

Ready == built # <<>> /\ built.ok

\* Ops that run as tasks of their own when somebody reads them.
Runs == {i \in InGraph : ops[i].kind \in Task \cup {"row"}}

\* A task that names another op of the graph, in its data or as what its condition tests,
\* finds it: the op became a task, and the task waits for it in FlowMesh, so its result is
\* there when the data is resolved or the condition is tested.
ReferencesResolve ==
  Ready => \A t \in DOMAIN built.nodes : \A ref \in built.nodes[t].refs \cup built.nodes[t].gate :
    ref[2] \in Runs => ref \in DependsOn(built, t)

\* FlowMesh can start every task: a task waits only for tasks, never for an op that did
\* not become one, and no tasks wait for each other, the tasks that conditions test
\* included.
AllTasksStart ==
  Ready =>
    LET done[k \in 0 .. Cardinality(DOMAIN built.nodes)] ==
          IF k = 0 THEN {}
          ELSE LET ran == done[k - 1]
               IN ran \cup {t \in DOMAIN built.nodes : DependsOn(built, t) \subseteq ran}
    IN done[Cardinality(DOMAIN built.nodes)] = DOMAIN built.nodes

\* The order of the graph holds every task once, after its dependencies, also where one
\* waits for another through an op that is not a task.  The task that a condition tests is
\* no dependency: the order may list it after the task that waits for it.
OrderSound ==
  Ready =>
    /\ UNION Range(built.order) = DOMAIN built.nodes
    /\ \A j, k \in DOMAIN built.order : \A t \in built.order[j], u \in built.order[k] :
         t \in built.nodes[u].deps => j < k

\* Nothing of the workflow is dropped: every output has its task, and an op without a
\* task is part of the prompt of one, or is a literal of one.
NothingDropped ==
  Ready =>
    /\ built.outputs \subseteq DOMAIN built.nodes
    /\ \A i \in InGraph : ops[i].kind = "row" /\ T(i) \notin DOMAIN built.nodes =>
         \E t \in DOMAIN built.nodes : i \in built.nodes[t].inlines

\* What the prompt of op i is made from: the ops S, and what a format or an inlined lambda
\* among them reads whole.
Through(S) ==
  LET whole(j) == IF ops[j].kind = "format" THEN ops[j].in \ ops[j].cols ELSE ops[j].in
      up[k \in 0 .. Len(ops)] ==
        IF k = 0 THEN S
        ELSE LET read == up[k - 1]
             IN read \cup UNION {whole(j) : j \in {l \in read : ops[l].kind \in {"format", "row"}}}
  IN up[Len(ops)]
Prompted == {i \in InGraph : ops[i].kind \in Chat /\ ops[i].mode # "rowwise"}
Counted == {"input"} \cup (LLM \ {"api"})

\* The inputs and the results of local models that a prompt reads whole and that have
\* several rows have one row count, where it is known: none of their rows is dropped or
\* paired with a row of another.  It is not so for every column, as the error of the build
\* has it: fields of inputs, literal data and the results of external models are not
\* counted.
RowsNotDropped ==
  Ready => \A i \in Prompted :
    Cardinality(UNION {Many(j) : j \in {l \in Through(ops[i].in) : ops[l].kind \in Counted}}) <= 1

\* The tasks that a whole-list lambda reaches through tasks of the given kinds.
ReachedThrough(kinds) ==
  LET nodes == built.nodes
      passes == {t \in DOMAIN nodes : nodes[t].python \in kinds}
      from == {t \in DOMAIN nodes : nodes[t].python = "list"}
      reach[k \in 0 .. Cardinality(DOMAIN nodes)] ==
        IF k = 0 THEN from
        ELSE LET met == reach[k - 1]
             IN met \cup {t \in passes : nodes[t].deps \cap met # {}}
  IN reach[Cardinality(DOMAIN nodes)]

\* A task gives one value for the whole run exactly when a whole-list lambda reaches it
\* without another python step in between.  What an aligned lambda makes of a whole value
\* is taken for rows: see AlignedPassesOn.
WholeRunExact == Ready => WholeRun(built) = ReachedThrough({"no"})

\* "List-mode Lambdas and their dependents, up to a row-mode python step": aligned lambdas
\* "are neither seeds nor barriers", so a task behind one, if not the lambda itself, is still
\* a dependent.  It is not: the code stops at every python step.
AlignedPassesOn ==
  Ready => {t \in ReachedThrough({"no", "aligned"}) : built.nodes[t].python # "aligned"} \subseteq WholeRun(built)

\* Two graphs merged under their prefixes stay apart: whatever a task of one waits for,
\* names or tests among the tasks is a task of the same graph, and none is lost.
MergedApart ==
  Ready =>
    LET a == Prefixed(built, "a")
        b == Prefixed(built, "b")
        m == Merge(a, b)
    IN /\ MergeOk(a, b) /\ ~ MergeOk(a, a)
       /\ Cardinality(m.outputs) = 2 * Cardinality(built.outputs)
       /\ \A u \in DOMAIN m.nodes :
            LET old(v) == <<"own", v[2], v[3]>>
                own == built.nodes[old(u)]
            IN
            /\ {old(v) : v \in m.nodes[u].deps \cap DOMAIN m.nodes} = own.deps \cap DOMAIN built.nodes
            /\ {old(v) : v \in m.nodes[u].refs \cap DOMAIN m.nodes} = own.refs \cap DOMAIN built.nodes
            /\ {old(v) : v \in m.nodes[u].gate \cap DOMAIN m.nodes} = own.gate \cap DOMAIN built.nodes
            /\ \A v \in (m.nodes[u].deps \cup m.nodes[u].refs \cup m.nodes[u].gate) \cap DOMAIN m.nodes :
                 v[1] = u[1]

\* The graph runs, alone or merged with others: every task starts, after the tasks it names.
\* Conditions are taken to test ops that do not wait for the op with the condition: the
\* build does not look, and two such tasks would wait for each other.
GraphRuns == ReferencesResolve /\ AllTasksStart /\ OrderSound /\ MergedApart

\* Neither ops nor outputs nor rows get lost, and it is known which results are per row.
GraphComplete == NothingDropped /\ RowsNotDropped /\ WholeRunExact

=============================================================================
