------------------------------- MODULE Parsers -------------------------------
(***************************************************************************)
(* parser/n8n.py and parser/yaml_parser.py: a workflow becomes a graph of  *)
(* ops.  n8n nodes are compiled when what they need is compiled, in the    *)
(* order a Python set happens to have; YAML ops in the order they are      *)
(* declared, as far as their inputs allow.                                 *)
(*                                                                         *)
(* Nodes are numbered; a number beyond the workflow is an unknown name.    *)
(* An op has an id (prefix and node), its _inputs and the ops its data     *)
(* names ("reads").  Texts are the references they contain.                *)
(***************************************************************************)
EXTENDS Naturals, Sequences, FiniteSets, FiniteSetsExt, SequencesExt

CONSTANTS MaxRefs      \* bound: references of a prompt whose labels are checked

VARIABLES
  source,     \* what was submitted: [format, nodes], or a prompt to label
  compiled    \* the compilation: [known, ops, state]; <<>> before

paVars == <<source, compiled>>

nodes == source.nodes
Names == DOMAIN nodes
Kind(n) == nodes[n].kind

Op(prefix, n, inputs, reads) == [id |-> <<prefix, n>>, inputs |-> inputs, reads |-> reads]

-----------------------------------------------------------------------------
(* n8n nodes: kind, the main connections into it, the nodes its text names  *)
(* (with a field path or without) and the name of the output it makes (0:   *)
(* none).                                                                   *)

Chains == {"plain", "rowwise", "aggregate", "image", "vision"}
Queries == {"query", "table", "limit"}          \* postgres nodes
Sources == Queries \cup {"s3", "lake"}
IsSource(n) == n \in Names /\ Kind(n) \in Sources
Refs(n) == ToSet(nodes[n].refs)

MainIncoming(n) == SelectSeq(nodes[n].main, LAMBDA m : ~IsSource(m))
MainUpstream(n) == {m \in Names : MainIncoming(n) # <<>> /\ m = MainIncoming(n)[1]}

\* The nodes that have to be compiled first.
Dependencies_NoSources(n) ==
  LET k == Kind(n)
  IN  CASE k = "code" -> IF Refs(n) = {} THEN ToSet(MainIncoming(n)) ELSE Refs(n)
        [] k \in Chains -> MainUpstream(n) \cup {r \in Refs(n) : ~IsSource(r)}
        [] k \in Queries -> Refs(n) \cup MainUpstream(n)
        [] OTHER -> Refs(n) \cup ToSet(nodes[n].main)

Dependencies(n) ==
  LET k == Kind(n)
      image == IF k = "vision" /\ nodes[n].refs # <<>> THEN {nodes[n].refs[1]} ELSE {}
  IN  CASE k = "code" -> IF Refs(n) = {} THEN ToSet(MainIncoming(n)) ELSE Refs(n)
        [] k \in {"rowwise", "aggregate"} -> MainUpstream(n) \cup Refs(n)
        [] k \in {"plain", "image", "vision"} ->
             MainUpstream(n) \cup {r \in Refs(n) : ~IsSource(r)} \cup image
        [] k \in Queries -> Refs(n) \cup MainUpstream(n)
        [] OTHER -> Refs(n) \cup ToSet(nodes[n].main)

Prefix(k) ==
  CASE k = "trigger" -> "input" [] k = "code" -> "lambda" [] k = "image" -> "imagegen"
    [] k = "vision" -> "llmvision" [] k \in {"plain", "rowwise", "aggregate"} -> "llm"
    [] OTHER -> "retrieval"
OpId(n) == <<Prefix(Kind(n)), n>>

Refusal == [ok |-> FALSE, ops |-> <<>>]
Accept(ops) == [ok |-> TRUE, ops |-> ops]

\* The content of a prompt: an op, or text ({}), and the format op it needs.
PromptContent(n, refs, known) ==
  LET upstream == MainUpstream(n) \cap known
  IN  CASE refs = <<>> -> [ok |-> TRUE, content |-> {OpId(m) : m \in upstream}, ops |-> <<>>]
        [] refs # <<>> /\ ~(ToSet(refs) \subseteq known) -> [ok |-> FALSE, content |-> {}, ops |-> <<>>]
        [] OTHER -> LET ids == {OpId(r) : r \in ToSet(refs)}
                    IN  [ok |-> TRUE, content |-> {<<"format", n>>},
                         ops |-> <<Op("format", n, ids, ids)>>]

\* Columns of rows: values of an input are put in, results of other nodes are read.
Columns(n, refs, known) ==
  LET cols == SelectSeq(refs, LAMBDA r : r \in known)
  IN  [ok |-> \A i \in DOMAIN cols : Kind(cols[i]) \in Queries => nodes[n].field,
       any |-> cols # <<>>,
       ids |-> {OpId(r) : r \in {s \in ToSet(cols) : Kind(s) # "trigger"}}]

MessageOp(n, content) == Op("message", n, content, content)

LlmChatOp(n, columns) ==
  LET reads == {<<"message", n>>} \cup columns IN Op("llm", n, reads, reads)

LlmVisionOp(n, image, columns) ==
  Op("llmvision", n, {<<"message", n>>}, {<<"message", n>>} \cup image \cup columns)

\* The table of an aggregate prompt names its first node, the text around it the others.
AggregateOps(n, refs, known) ==
  LET table == IF refs = <<>> THEN {} ELSE {OpId(refs[1])}
      rest == IF refs = <<>> THEN <<>> ELSE Tail(refs)
      prompt == IF refs # <<>> /\ rest = <<>> THEN [ok |-> TRUE, content |-> {}, ops |-> <<>>]
                ELSE PromptContent(n, rest, known)
  IN  IF ~prompt.ok THEN Refusal
      ELSE Accept(prompt.ops \o <<MessageOp(n, prompt.content), LlmChatOp(n, table)>>)

ChainOps(n, known) ==
  LET k == Kind(n)
      refs == nodes[n].refs
      prompt == PromptContent(n, refs, known)
      rest == IF k = "vision" /\ refs # <<>> THEN Tail(refs) ELSE <<>>
      cols == Columns(n, IF k = "vision" THEN rest ELSE refs, known)
      shown == PromptContent(n, rest, known)
  IN  CASE k = "rowwise" ->
             IF cols.ok THEN Accept(<<MessageOp(n, {}), LlmChatOp(n, cols.ids)>>) ELSE Refusal
        [] k = "plain" ->
             IF prompt.ok THEN Accept(prompt.ops \o <<MessageOp(n, prompt.content), LlmChatOp(n, {})>>)
             ELSE Refusal
        [] k = "aggregate" -> AggregateOps(n, refs, known)
        [] k = "image" ->
             IF ~prompt.ok THEN Refusal
             ELSE IF prompt.content # {} THEN Accept(prompt.ops \o <<Op("imagegen", n, prompt.content, prompt.content)>>)
             ELSE Accept(<<Op("data", n, {}, {}), Op("imagegen", n, {<<"data", n>>}, {<<"data", n>>})>>)
        [] OTHER ->
             IF refs = <<>> \/ ~cols.ok \/ (~cols.any /\ ~shown.ok) THEN Refusal
             ELSE LET image == {OpId(refs[1])}
                  IN  IF cols.any THEN Accept(<<MessageOp(n, {}), LlmVisionOp(n, image, cols.ids)>>)
                      ELSE Accept(shown.ops \o <<MessageOp(n, shown.content), LlmVisionOp(n, image, {})>>)

CodeOps(n, known) ==
  LET inputs == Dependencies(n)
  IN  IF inputs = {} THEN Refusal
      ELSE LET ids == {OpId(m) : m \in inputs} IN Accept(<<Op("lambda", n, ids, ids)>>)

\* A reference in a query: a field makes it a path of the node's result, without one the
\* whole node is meant, which a SQL node does not have.
HasPath(n, r) == nodes[n].field
Addressable(n, r) == Kind(r) \in Queries => HasPath(n, r)

\* The parameters of a query: an input named without a field is put in, anything else read.
QueryParams(n) == {OpId(r) : r \in {s \in Refs(n) : Kind(s) # "trigger" \/ HasPath(n, s)}}

MainInputs(n, known) == {OpId(m) : m \in ToSet(MainIncoming(n)) \cap known}

QueryOp(n, known) ==
  IF \E r \in Refs(n) : ~Addressable(n, r) THEN Refusal
  ELSE Accept(<<Op("retrieval", n, QueryParams(n) \cup MainInputs(n, known), QueryParams(n))>>)

\* A filter waits even for the input it names; a limit without a field is no number.
FilterInputs(n) == {OpId(r) : r \in Refs(n)}
FilterParams(n) == {OpId(r) : r \in {s \in Refs(n) : HasPath(n, s) \/ Kind(s) # "trigger"}}
LimitOk(n) == Kind(n) = "limit" => \A r \in Refs(n) : HasPath(n, r)

TableOp(n, known) ==
  IF ~LimitOk(n) \/ \E r \in Refs(n) : ~Addressable(n, r) THEN Refusal
  ELSE Accept(<<Op("retrieval", n, FilterInputs(n) \cup FilterParams(n) \cup MainInputs(n, known), FilterParams(n))>>)

S3Params(n) == {OpId(r) : r \in {s \in Refs(n) : Kind(s) # "trigger"}}

S3Op(n, known) ==
  IF nodes[n].main = <<>> \/ \E r \in Refs(n) : ~Addressable(n, r) THEN Refusal
  ELSE Accept(<<Op("retrieval", n, {OpId(nodes[n].main[1])} \cup S3Params(n), S3Params(n))>>)

LakeOp(n, known) == S3Op(n, known)
AgentOp(n, known) == QueryOp(n, known)

NodeOps(n, known) ==
  LET k == Kind(n)
  IN  CASE k \in Chains -> ChainOps(n, known)
        [] k = "code" -> CodeOps(n, known)
        [] k = "query" -> QueryOp(n, known)
        [] k \in {"table", "limit"} -> TableOp(n, known)
        [] k = "s3" -> S3Op(n, known)
        [] k = "lake" -> LakeOp(n, known)
        [] OTHER -> AgentOp(n, known)

Triggers == {n \in Names : Kind(n) = "trigger"}
TriggerOps == LET s == SetToSortSeq(Triggers, <) IN [i \in DOMAIN s |-> Op("input", s[i], {}, {})]

Makers == {n \in Names : Kind(n) \in Chains \cup {"code"} /\ nodes[n].out > 0}
OutputsDistinct == \A m, n \in Makers : m # n => nodes[m].out # nodes[n].out
OutputOps ==
  LET s == SetToSortSeq(Makers, <)
  IN  [i \in DOMAIN s |-> Op("output", nodes[s[i]].out, {OpId(s[i])}, {OpId(s[i])})]

-----------------------------------------------------------------------------
(* YAML ops: kind, the declared inputs and the ids its fields name.         *)

YPrefix(k) ==
  CASE k = "input" -> "input" [] k = "retrieval" -> "retrieval" [] k = "message" -> "message"
    [] k = "format" -> "format" [] k = "lambda" -> "lambda" [] k = "data" -> "data"
    [] k = "image" -> "imagegen" [] k = "embed" -> "embedding" [] k = "vision" -> "llmvision"
    [] OTHER -> "llm"

YId(ws, n) == <<YPrefix(ws[n].kind), n>>
YIds(ws, names) == {YId(ws, n) : n \in names \cap DOMAIN ws}
YRefs(ws, n) == ToSet(ws[n].refs)

\* An id that resolves to a format op compiled before.
IsFormat(ws, n, done) == n \in done /\ ws[n].kind = "format"

\* One format op around what the user messages name; formats are named directly.
WrapContents(ws, n, done) ==
  LET wrapped == {r \in YRefs(ws, n) \cap DOMAIN ws : ~IsFormat(ws, r, done)}
      plain == YIds(ws, {r \in YRefs(ws, n) \cap DOMAIN ws : IsFormat(ws, r, done)})
      format == IF wrapped = {} THEN <<>> ELSE <<Op("format", n, YIds(ws, wrapped), YIds(ws, wrapped))>>
      made == {format[i].id : i \in DOMAIN format}
  IN  [ops |-> format, made |-> made, contents |-> plain \cup made]

\* One format op from the prompt's template.
TemplatePrompt(ws, n) ==
  LET ids == YIds(ws, YRefs(ws, n))
  IN  [ops |-> <<Op("format", n, ids, ids)>>, made |-> {<<"format", n>>}, contents |-> {<<"format", n>>}]

\* The message waits for the contents that are declared inputs, or were made for it.
InlineMessage(ws, n, made) ==
  Op("message", n, (YIds(ws, ws[n].inputs) \cup made.made) \cap made.contents, made.contents)

NoPrompt == [ops |-> <<>>, made |-> {}, contents |-> {}]

\* Chat and vision ops, with the columns their tables name.
LlmLikeOps(ws, n, done, image, columns) ==
  LET k == ws[n].kind
      prompt == CASE k = "chat" -> WrapContents(ws, n, done) [] k = "prompt" -> TemplatePrompt(ws, n)
                  [] OTHER -> NoPrompt
      message == IF k = "chatref" THEN YId(ws, ws[n].refs[1]) ELSE <<"message", n>>
      extra == IF k = "chatref" THEN <<>> ELSE prompt.ops \o <<InlineMessage(ws, n, prompt)>>
      ids == YIds(ws, columns)
  IN  extra \o <<Op(YPrefix(k), n, {message} \cup (IF k = "vision" THEN {} ELSE ids),
                    {message} \cup ids \cup YIds(ws, image))>>

ImageOps(ws, n, done) ==
  LET r == ws[n].refs[1]
      content == IF IsFormat(ws, r, done) THEN YId(ws, r) ELSE <<"format", n>>
  IN  (IF IsFormat(ws, r, done) THEN <<>> ELSE <<Op("format", n, {YId(ws, r)}, {YId(ws, r)})>>)
      \o <<Op("imagegen", n, {content}, {content})>>

\* Ops that wait for what they declare, whatever their fields name.
RetrievalOps(ws, n) == <<Op("retrieval", n, YIds(ws, ws[n].inputs), YIds(ws, YRefs(ws, n)))>>
MessageOps(ws, n) == <<Op("message", n, YIds(ws, ws[n].inputs), YIds(ws, YRefs(ws, n)))>>
FormatOps(ws, n) == <<Op("format", n, YIds(ws, ws[n].inputs), YIds(ws, YRefs(ws, n)))>>
LambdaOps(ws, n) == <<Op("lambda", n, YIds(ws, ws[n].inputs), YIds(ws, ws[n].inputs))>>

EmbeddingOps(ws, n) == LET id == YId(ws, ws[n].refs[1]) IN <<Op("embedding", n, {id}, {id})>>

VisionOps(ws, n, done) ==
  LET image == {ws[n].refs[1]} IN LlmLikeOps(ws, n, done, image, YRefs(ws, n) \ image)

\* The ids a field must name are known; messages_ref names a message compiled before.
FieldsOk(ws, n, done) ==
  LET k == ws[n].kind
      refs == ws[n].refs
  IN  /\ k \in {"retrieval", "prompt", "chatref", "image", "embed"} => YRefs(ws, n) \subseteq DOMAIN ws
      /\ k \in {"chatref", "image", "embed", "vision"} => refs # <<>> /\ refs[1] \in DOMAIN ws
      /\ k = "chatref" => refs[1] \in done /\ ws[refs[1]].kind = "message"

\* What an entry compiles to, after the entries in done.
EntryOps(ws, n, done) ==
  LET k == ws[n].kind
  IN  IF ~FieldsOk(ws, n, done) THEN Refusal
      ELSE Accept(CASE k = "data" -> <<Op("data", n, {}, {})>>
                    [] k = "retrieval" -> RetrievalOps(ws, n)
                    [] k = "message" -> MessageOps(ws, n)
                    [] k = "format" -> FormatOps(ws, n)
                    [] k = "lambda" -> LambdaOps(ws, n)
                    [] k = "image" -> ImageOps(ws, n, done)
                    [] k = "embed" -> EmbeddingOps(ws, n)
                    [] k = "vision" -> VisionOps(ws, n, done)
                    [] k = "columns" -> LlmLikeOps(ws, n, done, {}, YRefs(ws, n))
                    [] OTHER -> LlmLikeOps(ws, n, done, {}, {}))

YInputs(ws) == {n \in DOMAIN ws : ws[n].kind = "input"}

\* An entry waits for its declared inputs.
Unresolved(ws, n, pending) == ws[n].inputs \cap pending

\* An entry is compiled when what it waits for is; made is what it compiles to.
Compiled(acc, n, made) == [ok |-> made.ok, done |-> acc.done \cup {n}, ops |-> acc.ops \o made.ops]
CompileEntry(ws, acc, n) ==
  IF ~acc.ok \/ n \in acc.done \/ Unresolved(ws, n, DOMAIN ws \ acc.done) # {} THEN acc
  ELSE Compiled(acc, n, EntryOps(ws, n, acc.done))

\* Passes over the entries that are left, in the order of declaration.  Every pass before
\* the last compiles an entry; what is left after as many passes as entries is a cycle.
CompilePasses(ws, order, start) ==
  FoldLeft(LAMBDA acc, i : FoldLeft(LAMBDA a, n : CompileEntry(ws, a, n), acc, order), start, order)

\* The outputs, after the body; outputs are pairs of a name and the id it shows.
OutputsOk(ws, outputs) ==
  /\ \A o \in outputs : o[2] \in DOMAIN ws
  /\ \A o, p \in outputs : o # p => o[1] # p[1]
Finish(ws, body, outputs) ==
  IF ~body.ok \/ body.done # DOMAIN ws \/ ~OutputsOk(ws, outputs) THEN Refusal
  ELSE LET op(o) == Op("output", o[1], {YId(ws, o[2])}, {YId(ws, o[2])})
       IN  Accept(body.ops \o SetToSeq({op(o) : o \in outputs}))

\* ws: the entries; inputs are compiled before all others.
CompileYaml(ws, order, outputs) ==
  LET inputs == SetToSortSeq(YInputs(ws), <)
      start == [ok |-> TRUE, done |-> YInputs(ws),
                ops |-> [i \in DOMAIN inputs |-> Op("input", inputs[i], {}, {})]]
  IN  IF \E n \in DOMAIN ws : ~(ws[n].inputs \subseteq DOMAIN ws) THEN Refusal
      ELSE Finish(ws, CompilePasses(ws, order, start), outputs)

-----------------------------------------------------------------------------
(* Labels of a row prompt.  A reference is a node and the labels its path   *)
(* can give: a label is a sequence, "x_2" is <<"x", 2>>.                    *)

UniqueLabel(base, seen) ==
  IF base \notin seen THEN base
  ELSE Append(base, CHOOSE i \in 2 .. Cardinality(seen) + 2 :
                      Append(base, i) \notin seen /\ \A j \in 2 .. i - 1 : Append(base, j) \in seen)

\* The label of each reference, in order; the same reference keeps its label.
Bindings(refs) ==
  LET step(acc, r) ==
        IF \E b \in ToSet(acc) : b.ref = r
          THEN Append(acc, CHOOSE b \in ToSet(acc) : b.ref = r)
          ELSE Append(acc, [ref |-> r, label |-> UniqueLabel(r.base, {b.label : b \in ToSet(acc)})])
  IN  FoldLeft(step, <<>>, refs)

\* The template: each binding in turn replaces the first place that is left of its reference
\* (of its node, when it has no path).
Template(refs) ==
  LET bound == Bindings(refs)
      step(acc, b) ==
        LET at == {i \in DOMAIN refs : /\ acc[i] = <<>> /\ refs[i].node = b.ref.node
                                       /\ b.ref.path = 0 \/ refs[i] = b.ref}
        IN  IF at = {} THEN acc ELSE [acc EXCEPT ![Min(at)] = b.label]
  IN  FoldLeft(step, [i \in DOMAIN refs |-> <<>>], bound)

-----------------------------------------------------------------------------
PaInit ==
  /\ \E f \in {"n8n", "yaml", "prompt"} :
       source = [format |-> f,
                 nodes |-> CASE f = "n8n" -> <<[kind |-> "trigger", main |-> <<>>, refs |-> <<>>,
                                                field |-> FALSE, out |-> 0]>>
                             [] f = "yaml" -> <<[kind |-> "input", inputs |-> {}, refs |-> <<>>]>>
                             [] OTHER -> <<>>]
  /\ compiled = <<>>

\* A trigger and two more nodes; 4 is an unknown name, 9 an output name that is used twice.
AddNode ==
  /\ source.format = "n8n" /\ compiled = <<>> /\ Len(nodes) < 3
  /\ \E k \in Chains \cup Queries \cup {"s3", "lake", "agent", "code"},
        main \in IF Len(nodes) = 1 THEN {<<>>, <<1>>, <<3>>} ELSE {<<>>, <<2>>, <<1, 2>>, <<2, 1>>},
        refs \in IF Len(nodes) = 1 THEN {<<>>, <<1>>, <<3>>} ELSE {<<>>, <<2>>, <<1, 2>>, <<2, 1>>, <<4>>},
        field \in BOOLEAN, out \in {0, 9} :
       /\ field => refs # <<>> /\ k \notin {"plain", "image", "code", "aggregate"}
       /\ out > 0 => k \in {"code", "plain"}
       /\ source' = [source EXCEPT !.nodes = Append(@, [kind |-> k, main |-> main, refs |-> refs,
                                                        field |-> field, out |-> out])]
  /\ UNCHANGED compiled

AddEntry ==
  /\ source.format = "yaml" /\ compiled = <<>> /\ Len(nodes) < 3
  /\ \E k \in {"data", "retrieval", "message", "format", "lambda", "image", "embed", "vision",
               "columns", "chat", "prompt", "chatref"},
        refs \in IF Len(nodes) = 1 THEN {<<>>, <<1>>, <<3>>} ELSE {<<>>, <<1>>, <<2>>, <<2, 1>>, <<4>>},
        inputs \in IF Len(nodes) = 1 THEN {{}, {1}, {3}, {4}} ELSE {{}, {1}, {2}, {1, 2}, {4}} :
       source' = [source EXCEPT !.nodes = Append(@, [kind |-> k, inputs |-> inputs, refs |-> refs])]
  /\ UNCHANGED compiled

AddRef ==
  /\ source.format = "prompt" /\ compiled = <<>> /\ Len(nodes) < MaxRefs
  /\ \E r \in {[node |-> 1, path |-> 0, base |-> <<"n">>], [node |-> 1, path |-> 1, base |-> <<"x">>],
               [node |-> 1, path |-> 2, base |-> <<"x">>], [node |-> 2, path |-> 1, base |-> <<"x">>],
               [node |-> 2, path |-> 2, base |-> <<"x", 2>>]} :
       source' = [source EXCEPT !.nodes = Append(@, r)]
  /\ UNCHANGED compiled

N8nStart ==
  /\ source.format = "n8n" /\ compiled = <<>> /\ Len(nodes) > 1
  /\ compiled' = [state |-> "running", known |-> Triggers, ops |-> TriggerOps]
  /\ UNCHANGED source

Running == compiled # <<>> /\ compiled.state = "running"
Ready == {n \in Names \ compiled.known : Dependencies(n) \subseteq compiled.known}

\* The set has any order: any node that is ready may be next.
N8nNode ==
  /\ source.format = "n8n" /\ Running
  /\ \E n \in Ready :
       LET made == NodeOps(n, compiled.known)
       IN  compiled' = [state |-> IF made.ok THEN "running" ELSE "refused",
                        known |-> compiled.known \cup {n}, ops |-> compiled.ops \o made.ops]
  /\ UNCHANGED source

\* No progress, or the outputs, which come last.
N8nEnd ==
  /\ source.format = "n8n" /\ Running /\ Ready = {}
  /\ compiled' = IF compiled.known = Names /\ OutputsDistinct
                   THEN [compiled EXCEPT !.state = "done", !.ops = @ \o OutputOps]
                   ELSE [compiled EXCEPT !.state = "refused"]
  /\ UNCHANGED source

YamlCompile ==
  /\ source.format = "yaml" /\ compiled = <<>> /\ Len(nodes) > 1
  /\ LET made == CompileYaml(nodes, [i \in DOMAIN nodes |-> i], {<<1, Len(nodes)>>})
     IN  compiled' = [state |-> IF made.ok THEN "done" ELSE "refused", known |-> Names, ops |-> made.ops]
  /\ UNCHANGED source

BindPrompt ==
  /\ source.format = "prompt" /\ compiled = <<>> /\ nodes # <<>>
  /\ compiled' = [state |-> "bound", known |-> Bindings(nodes), ops |-> Template(nodes)]
  /\ UNCHANGED source

PaNext == AddNode \/ AddEntry \/ AddRef \/ N8nStart \/ N8nNode \/ N8nEnd \/ YamlCompile \/ BindPrompt

-----------------------------------------------------------------------------
(* Correctness.                                                             *)

Ended(format) == source.format = format /\ compiled # <<>> /\ compiled.state \in {"done", "refused"}
Done(format) == Ended(format) /\ compiled.state = "done"

\* Nodes that can ever be compiled.
Resolvable(ns, start, deps(_)) ==
  FoldLeft(LAMBDA acc, i : acc \cup {n \in ns : deps(n) \subseteq acc}, start, [i \in ns |-> i])

\* What the text of a node names, and the connections its op waits for, are compiled first.
N8nSettled ==
  \A n \in Names \ Triggers :
    /\ Kind(n) \in {"plain", "image", "vision"} => Refs(n) \subseteq Dependencies(n)
    /\ Kind(n) \in Queries => ToSet(MainIncoming(n)) \subseteq Dependencies(n) \cup Triggers

\* The graph of an n8n workflow, and whether it has one, does not depend on the order in
\* which Python enumerates its nodes: it is what every node gives when all others are known.
N8nOrderFree ==
  Ended("n8n") /\ N8nSettled =>
    LET sound == /\ Resolvable(Names, Triggers, Dependencies) = Names
                 /\ OutputsDistinct
                 /\ \A n \in Names \ Triggers : NodeOps(n, Names).ok
    IN  /\ compiled.state = "done" <=> sound
        /\ sound => ToSet(compiled.ops) = ToSet(TriggerOps) \cup ToSet(OutputOps)
                      \cup UNION {ToSet(NodeOps(n, Names).ops) : n \in Names \ Triggers}

\* The ids an op's data names are its inputs, so that it is ordered after them and they are
\* kept; a vision op reads its images and columns besides.
EdgesCarryReads ==
  /\ Done("n8n") => \A o \in ToSet(compiled.ops) : o.id[1] = "llmvision" \/ o.reads \subseteq o.inputs
  /\ Done("yaml") /\ (\A n \in Names : YRefs(nodes, n) \subseteq nodes[n].inputs) =>
       \A o \in ToSet(compiled.ops) : o.id[1] = "llmvision" \/ o.reads \subseteq o.inputs

\* "forward references in inputs can be resolved regardless of order": a YAML workflow whose
\* ops declare what they name compiles to what every op gives when all others are compiled.
YamlOrderFree ==
  Ended("yaml") /\ (\A n \in Names : YRefs(nodes, n) \subseteq nodes[n].inputs) =>
    LET inputs == YInputs(nodes)
        deps(n) == nodes[n].inputs
        sound == /\ Resolvable(Names, inputs, deps) = Names
                 /\ \A n \in Names \ inputs : EntryOps(nodes, n, Names).ok
    IN  /\ compiled.state = "done" <=> sound
        /\ sound => {o \in ToSet(compiled.ops) : o.id[1] \notin {"input", "output"}}
                      = UNION {ToSet(EntryOps(nodes, n, Names).ops) : n \in Names \ inputs}

\* The YAML workflow one writes for an n8n workflow.
NotTriggers(refs) == SelectSeq(refs, LAMBDA r : Kind(r) # "trigger")
Transcribed(n) ==
  LET k == Kind(n)
      refs == nodes[n].refs
      entry(kind, rs, also) == [kind |-> kind, refs |-> rs, inputs |-> ToSet(rs) \cup also]
      main == ToSet(MainIncoming(n))
  IN  CASE k = "trigger" -> entry("input", <<>>, {})
        [] k = "code" -> entry("lambda", <<>>, Dependencies(n))
        [] k \in {"query", "agent"} -> entry("retrieval", IF nodes[n].field THEN refs ELSE NotTriggers(refs), main)
        [] k \in {"table", "limit"} ->
             entry("retrieval", IF nodes[n].field THEN refs ELSE NotTriggers(refs), main \cup Refs(n))
        [] k \in {"s3", "lake"} -> entry("retrieval", NotTriggers(refs), {nodes[n].main[1]})
        [] k = "plain" -> entry(IF refs = <<>> THEN "chat" ELSE "prompt", refs, {})
        [] k = "rowwise" -> entry("columns", NotTriggers(refs), {})
        [] k = "aggregate" -> entry("columns", refs, {})
        [] k = "image" -> entry("image", refs, {})
        [] OTHER -> entry("vision", <<refs[1]>> \o NotTriggers(Tail(refs)), {})

Expressible(n) ==
  /\ Kind(n) \in Chains /\ nodes[n].refs = <<>> => Kind(n) # "image" /\ MainUpstream(n) = {}
  /\ Kind(n) = "vision" /\ Len(nodes[n].refs) = 1 => MainUpstream(n) = {}
  /\ Kind(n) \in {"aggregate", "image"} => Len(nodes[n].refs) <= 1

\* An n8n workflow and its YAML form compile to the same ops and edges.
ParsersAgree ==
  Done("n8n") /\ N8nSettled /\ (\A n \in Names : Expressible(n)) =>
    LET ws == [n \in Names |-> Transcribed(n)]
        outputs == {<<nodes[n].out, n>> : n \in Makers}
        yaml == CompileYaml(ws, [i \in Names |-> i], outputs)
    IN  yaml.ok /\ ToSet(yaml.ops) = ToSet(compiled.ops)

\* Every place of a row prompt gets the label of what stood there; two references share a
\* label only when they are the same.
LabelsFaithful ==
  source.format = "prompt" /\ compiled # <<>> =>
    LET bound == compiled.known
    IN  \A i \in DOMAIN nodes :
          /\ bound[i].ref = nodes[i] /\ compiled.ops[i] = bound[i].label
          /\ \A j \in DOMAIN nodes : bound[i].label = bound[j].label => nodes[i] = nodes[j]

\* The graph of a workflow is determined by the workflow: not by the order of a set or of
\* the document, nor by the format, nor by labels that collide; and it has all its edges.
ParsersSound == N8nOrderFree /\ EdgesCarryReads /\ YamlOrderFree /\ ParsersAgree /\ LabelsFaithful

=============================================================================
