----------------------------- MODULE PartsProofs -----------------------------
(***************************************************************************)
(* Proofs about the parts that MCParts checks, for every value of their    *)
(* constants: the rounds of a dynamic run (DynamicPlan), the table of jobs *)
(* of SqliteJobStorage (JobIndex), the deduplication of a batch            *)
(* (GraphDedupe), the runtime graph (RuntimeGraph) and the cohort_pack     *)
(* policy (CohortPack).                                                    *)
(***************************************************************************)
EXTENDS DynamicPlan, JobIndex, GraphDedupe, RuntimeGraph, CohortPack, DataFacts

-----------------------------------------------------------------------------
(* DynamicPlan: the rounds of a dynamic run.                                *)

\* What the variables of a dynamic run range over.
PlanTyped ==
  /\ rows \in {1, 2}
  /\ registry \subseteq OpIds \ FixedIds /\ IsFiniteSet(registry)
  /\ DOMAIN results \subseteq registry
  /\ \E n \in 0 .. MaxNodes : subgraph \in [1 .. n -> Ops]
  /\ ran \in Seq(SUBSET registry)

\* What the driver has admitted and not yet run: new ids, each once, that refer to results
\* at hand or to ops before them.
AdmittedSound ==
  stage \in {"build", "run"} =>
    /\ Ids(subgraph) \subseteq registry /\ Ids(subgraph) \cap DOMAIN results = {}
    /\ \A i \in DOMAIN ran : ran[i] \cap Ids(subgraph) = {}
    /\ \A i, j \in DOMAIN subgraph : subgraph[i].id = subgraph[j].id => i = j
    /\ export \subseteq Ids(subgraph)
    /\ \A i \in DOMAIN subgraph : \A ref \in subgraph[i].inputs \ {Symbols} :
         ref \in DOMAIN results \/ \E j \in 1 .. i - 1 : subgraph[j].id = ref

\* What build_round has made of it.
RoundBuilt ==
  stage = "run" =>
    /\ \A ref \in Forwarded(subgraph) : Forward(ref) # "error"
    /\ graph = RoundGraph(subgraph)
    /\ bound = {In(ref) : ref \in {Symbols} \cup Forwarded(subgraph)}
    /\ archived = Leaves(subgraph) \cup export

\* The inductive invariant of a dynamic run.
PlanInv == PlanTyped /\ AdmittedSound /\ RoundBuilt /\ NoRecompute /\ ResultsKept

\* A sequence of ops has finitely many ids; as many ids as ops means that none is repeated.
LEMMA DistinctIds ==
  ASSUME NEW n \in Nat, NEW sub \in [1 .. n -> Ops], Cardinality(Ids(sub)) = Len(sub)
  PROVE  \A i, j \in 1 .. n : sub[i].id = sub[j].id => i = j
<1> DEFINE f == [i \in 1 .. n |-> sub[i].id]
<1>1. Len(sub) = n /\ DOMAIN sub = 1 .. n
  OBVIOUS
<1>2. f \in Surjection(1 .. n, Ids(sub))
  BY <1>1 DEF Surjection, Ids
<1>3. IsFiniteSet(1 .. n) /\ Cardinality(1 .. n) = n
  BY FS_Interval
<1>4. f \in Injection(1 .. n, Ids(sub))
  BY <1>1, <1>2, <1>3, FS_SurjSameCardinalityImpliesInj
<1> QED
  BY <1>4 DEF Injection, IsInjective

\* Finitely many ops have finitely many ids.
LEMMA FiniteIds ==
  ASSUME NEW n \in Nat, NEW sub \in [1 .. n -> Ops]
  PROVE  IsFiniteSet(Ids(sub))
<1> DEFINE f == [i \in 1 .. n |-> sub[i].id]
<1>1. IsFiniteSet({f[i] : i \in 1 .. n})
  <2>1. IsFiniteSet(1 .. n)
    BY FS_Interval
  <2> HIDE DEF f
  <2> QED
    BY <2>1, FiniteImage
<1>2. Ids(sub) = {f[i] : i \in 1 .. n}
  BY DEF Ids
<1> QED
  BY <1>1, <1>2

\* At first there is nothing.
LEMMA PlanInitInv == MaxNodes \in Nat /\ PlanInit => PlanInv
<1> SUFFICES ASSUME MaxNodes \in Nat, PlanInit PROVE PlanInv
  OBVIOUS
<1>1. PlanTyped
  <2>1. <<>> \in [1 .. 0 -> Ops] /\ 0 \in 0 .. MaxNodes
    OBVIOUS
  <2>2. subgraph = <<>> /\ results = <<>> /\ registry = {} /\ ran = <<>> /\ rows \in {1, 2}
    BY DEF PlanInit
  <2>3. DOMAIN results = {} /\ ran \in Seq(SUBSET registry)
    BY <2>2
  <2>4. \E n \in 0 .. MaxNodes : subgraph \in [1 .. n -> Ops]
    BY <2>1, <2>2
  <2> QED
    BY <2>2, <2>3, <2>4, FS_EmptySet DEF PlanTyped
<1>2. stage = "plan" /\ ran = <<>>
  BY DEF PlanInit
<1> QED
  BY <1>1, <1>2 DEF PlanInv, AdmittedSound, RoundBuilt, NoRecompute, ResultsKept

\* validate_emitted_subgraph lets only new ids in.
LEMMA AdmitStep ==
  ASSUME MaxNodes \in Nat, PlanInv, NEW sub \in Subgraphs, NEW exp, NEW img, Admit(sub, exp, img)
  PROVE  PlanInv'
<1>1. PICK n \in 0 .. MaxNodes : sub \in [1 .. n -> Ops]
  BY DEF Subgraphs
<1>2. /\ stage = "plan" /\ stage' = "build" /\ registry' = registry \cup Ids(sub)
      /\ subgraph' = sub /\ export' = exp
      /\ rows' = rows /\ results' = results /\ ran' = ran
  BY DEF Admit
<1>3. /\ IdsFresh(sub) /\ ReferencesSound(sub) /\ exp \subseteq Ids(sub)
  BY DEF Admit, Valid
<1>4. Ids(sub) \subseteq OpIds /\ Ids(sub) \cap (FixedIds \cup registry) = {}
  <2>1. \A i \in 1 .. n : sub[i].id \in OpIds
    BY <1>1 DEF Ops
  <2> QED
    BY <1>1, <1>3, <2>1 DEF IdsFresh, Ids
<1>5. PlanTyped'
  <2>1. ran \in Seq(SUBSET (registry \cup Ids(sub)))
    <3>1. ran \in Seq(SUBSET registry)
      BY DEF PlanInv, PlanTyped
    <3> QED
      BY <3>1
  <2>3. IsFiniteSet(registry \cup Ids(sub))
    <3>1. IsFiniteSet(registry)
      BY DEF PlanInv, PlanTyped
    <3>2. IsFiniteSet(Ids(sub))
      BY <1>1, FiniteIds
    <3> QED
      BY <3>1, <3>2, FS_Union
  <2>2. DOMAIN results \subseteq registry \cup Ids(sub) /\ rows \in {1, 2} /\ registry \subseteq OpIds \ FixedIds
    BY DEF PlanInv, PlanTyped
  <2> QED
    BY <1>1, <1>2, <1>4, <2>1, <2>2, <2>3 DEF PlanTyped
<1>6. AdmittedSound'
  <2>1. \A i, j \in DOMAIN sub : sub[i].id = sub[j].id => i = j
    BY <1>1, <1>3, DistinctIds DEF IdsFresh
  <2>2. Ids(sub) \cap DOMAIN results = {}
    BY <1>4 DEF PlanInv, PlanTyped
  <2>3. \A i \in DOMAIN ran : ran[i] \cap Ids(sub) = {}
    <3>1. \A i \in DOMAIN ran : ran[i] \subseteq registry
      BY DEF PlanInv, PlanTyped
    <3> QED
      BY <1>4, <3>1
  <2>4. \A i \in DOMAIN sub : \A ref \in sub[i].inputs \ {Symbols} :
          ref \in DOMAIN results \/ \E j \in 1 .. i - 1 : sub[j].id = ref
    BY <1>3 DEF ReferencesSound
  <2> QED
    BY <1>2, <1>3, <2>1, <2>2, <2>3, <2>4 DEF AdmittedSound, Ids
<1> QED
  BY <1>2, <1>5, <1>6 DEF PlanInv, RoundBuilt, NoRecompute, ResultsKept

\* The graph of a round depends on the subgraph and on what its references are bound to.
LEMMA RoundGraphKept ==
  ASSUME rows' = rows, results' = results, images' = images, subgraph' = subgraph
  PROVE  /\ RoundGraph(subgraph)' = RoundGraph(subgraph)
         /\ Forwarded(subgraph)' = Forwarded(subgraph)
         /\ \A ref : Forward(ref)' = Forward(ref)
<1>1. \A ref : Forward(ref)' = Forward(ref)
  BY DEF Forward
<1>2. \A ref : Rewritten(ref)' = Rewritten(ref)
  BY <1>1 DEF Rewritten
<1>3. Forwarded(subgraph)' = Forwarded(subgraph)
  BY DEF Forwarded
<1>4. Decoders(subgraph)' = Decoders(subgraph)
  BY <1>1, <1>3 DEF Decoders
<1>5. RoundNodes(subgraph)' = RoundNodes(subgraph)
  BY <1>4 DEF RoundNodes
<1>6. \A n : NodeReads(subgraph, n)' = NodeReads(subgraph, n)
  BY <1>2 DEF NodeReads
<1> QED
  BY <1>1, <1>3, <1>5, <1>6 DEF RoundGraph

\* build_round assembles what was admitted and changes nothing else.
LEMMA BuildStep ==
  ASSUME PlanInv, BuildRound
  PROVE  PlanInv'
<1>1. /\ stage = "build" /\ stage' = "run" /\ graph' = RoundGraph(subgraph)
      /\ \A ref \in Forwarded(subgraph) : Forward(ref) # "error"
      /\ bound' = {In(ref) : ref \in {Symbols} \cup Forwarded(subgraph)}
      /\ archived' = Leaves(subgraph) \cup export
      /\ rows' = rows /\ registry' = registry /\ results' = results /\ subgraph' = subgraph
      /\ export' = export /\ images' = images /\ ran' = ran
  BY DEF BuildRound
<1>2. RoundBuilt'
  BY <1>1, RoundGraphKept DEF RoundBuilt, Leaves, Ids, Consumed
<1>3. PlanTyped' /\ AdmittedSound' /\ NoRecompute'
  BY <1>1 DEF PlanInv, PlanTyped, AdmittedSound, NoRecompute
<1> QED
  BY <1>1, <1>2, <1>3 DEF PlanInv, ResultsKept

\* A round that has run leaves the results of its leaves and exports.
LEMMA RunRoundStep ==
  ASSUME PlanInv, NEW shape, RunRound(shape)
  PROVE  PlanInv'
<1>1. /\ stage = "run" /\ stage' = "plan" /\ ran' = Append(ran, Ids(subgraph))
      /\ results' = [id \in DOMAIN results \cup archived |-> IF id \in archived THEN shape ELSE results[id]]
      /\ rows' = rows /\ registry' = registry /\ subgraph' = subgraph /\ export' = export
  BY DEF RunRound
<1>2. DOMAIN results' = DOMAIN results \cup archived
  BY <1>1
<1>3. archived = Leaves(subgraph) \cup export /\ archived \subseteq Ids(subgraph)
  BY <1>1 DEF PlanInv, RoundBuilt, AdmittedSound, Leaves
<1>4. Ids(subgraph) \subseteq registry /\ \A i \in DOMAIN ran : ran[i] \cap Ids(subgraph) = {}
  BY <1>1 DEF PlanInv, AdmittedSound
<1>5. ran \in Seq(SUBSET registry)
  BY DEF PlanInv, PlanTyped
<1>6. PlanTyped'
  BY <1>1, <1>2, <1>3, <1>4, <1>5 DEF PlanInv, PlanTyped
<1>7. NoRecompute'
  BY <1>1, <1>4, <1>5 DEF PlanInv, NoRecompute
<1>8. ResultsKept'
  BY <1>1, <1>2, <1>3 DEF ResultsKept, Leaves, Ids, Consumed
<1> QED
  BY <1>1, <1>6, <1>7, <1>8 DEF PlanInv, AdmittedSound, RoundBuilt

\* The invariant is kept by every step of the planner and the driver.
LEMMA PlanNextInv ==
  ASSUME MaxNodes \in Nat, PlanInv, [PlanNext]_planVars
  PROVE  PlanInv'
<1>1. ASSUME NEW sub \in Subgraphs, NEW exp, NEW img, Admit(sub, exp, img) PROVE PlanInv'
  BY <1>1, AdmitStep
<1>2. ASSUME NEW end \in {"stopped", "rejected"}, NoSubgraph(end) PROVE PlanInv'
  BY <1>2 DEF NoSubgraph, PlanInv, PlanTyped, AdmittedSound, RoundBuilt, NoRecompute, ResultsKept
<1>3. CASE BuildRound
  BY <1>3, BuildStep
<1>4. CASE BuildFails
  BY <1>4 DEF BuildFails, PlanInv, PlanTyped, AdmittedSound, RoundBuilt, NoRecompute, ResultsKept
<1>5. ASSUME NEW shape, RunRound(shape) PROVE PlanInv'
  BY <1>5, RunRoundStep
<1>6. CASE UNCHANGED planVars
  <2>1. RoundBuilt'
    BY <1>6, RoundGraphKept DEF planVars, PlanInv, RoundBuilt, Leaves, Ids, Consumed
  <2>2. PlanTyped'
    BY <1>6 DEF planVars, PlanInv, PlanTyped
  <2>3. AdmittedSound' /\ NoRecompute' /\ ResultsKept'
    BY <1>6 DEF planVars, PlanInv, AdmittedSound, NoRecompute, ResultsKept, Leaves, Ids, Consumed
  <2> QED
    BY <2>1, <2>2, <2>3 DEF PlanInv
<1> QED
  BY <1>1, <1>2, <1>3, <1>4, <1>5, <1>6 DEF PlanNext

\* What the nodes of a round read.
LEMMA RoundReads ==
  ASSUME PlanInv, stage = "run"
  PROVE  /\ DOMAIN graph = RoundNodes(subgraph)
         /\ \A i \in DOMAIN subgraph :
              graph[Op(subgraph[i].id)] = {Rewritten(ref) : ref \in subgraph[i].inputs}
         /\ \A d \in Decoders(subgraph) : graph[d] = {In(d[2])}
         /\ \A l \in Leaves(subgraph) : graph[Render(l)] = {Op(l)}
         /\ graph[Observation] = Renders(subgraph)
         /\ graph[Proposer] = {Observation}
<1>1. graph = RoundGraph(subgraph)
  BY DEF PlanInv, RoundBuilt
<1>2. DOMAIN graph = RoundNodes(subgraph) /\ \A n \in RoundNodes(subgraph) : graph[n] = NodeReads(subgraph, n)
  BY <1>1 DEF RoundGraph
<1>3. ASSUME NEW i \in DOMAIN subgraph
      PROVE  graph[Op(subgraph[i].id)] = {Rewritten(ref) : ref \in subgraph[i].inputs}
  <2>1. \A j \in DOMAIN subgraph : subgraph[j].id = subgraph[i].id => j = i
    BY DEF PlanInv, AdmittedSound
  <2>2. OpOf(subgraph, subgraph[i].id) = subgraph[i]
    BY <2>1 DEF OpOf, ToSet
  <2>3. Op(subgraph[i].id) \in RoundNodes(subgraph)
    BY DEF RoundNodes, Ids
  <2> QED
    BY <1>2, <2>2, <2>3 DEF NodeReads, Op
<1>4. \A d \in Decoders(subgraph) : graph[d] = {In(d[2])}
  <2>1. \A d \in Decoders(subgraph) : d \in RoundNodes(subgraph) /\ d[1] = "rows"
    BY DEF RoundNodes, Decoders, Rows
  <2> QED
    BY <1>2, <2>1 DEF NodeReads
<1>5. \A l \in Leaves(subgraph) : graph[Render(l)] = {Op(l)}
  <2>1. \A l \in Leaves(subgraph) : Render(l) \in RoundNodes(subgraph)
    BY DEF RoundNodes, Renders
  <2> QED
    BY <1>2, <2>1 DEF NodeReads, Render
<1>6. graph[Observation] = Renders(subgraph) /\ graph[Proposer] = {Observation}
  <2>1. /\ Observation \in RoundNodes(subgraph) /\ Observation[1] = "observation"
        /\ Proposer \in RoundNodes(subgraph) /\ Proposer[1] = "proposer"
    BY DEF RoundNodes, Observation, Proposer
  <2> QED
    BY <1>2, <2>1 DEF NodeReads
<1> QED
  BY <1>2, <1>3, <1>4, <1>5, <1>6

\* A reference of an op leads to an input that is bound, to a decoder or to an op before it.
LEMMA ReferenceLeads ==
  ASSUME PlanInv, stage = "run", NEW i \in DOMAIN subgraph, NEW ref \in subgraph[i].inputs
  PROVE  \/ Rewritten(ref) \in bound
         \/ Rewritten(ref) \in Decoders(subgraph)
         \/ \E j \in 1 .. i - 1 : j \in DOMAIN subgraph /\ Rewritten(ref) = Op(subgraph[j].id)
<1>0. Symbols \notin DOMAIN results
  BY DEF PlanInv, PlanTyped, FixedIds
<1>1. ref \in Consumed(subgraph)
  BY DEF Consumed
<1>2. CASE ref = Symbols
  BY <1>0, <1>2 DEF Rewritten, PlanInv, RoundBuilt
<1>3. CASE ref \in DOMAIN results
  <2>1. ref \in Forwarded(subgraph)
    BY <1>1, <1>3 DEF Forwarded
  <2>2. Forward(ref) \in {"input", "rows"}
    BY <2>1 DEF PlanInv, RoundBuilt, Forward
  <2>3. CASE Forward(ref) = "input"
    BY <1>3, <2>1, <2>3 DEF Rewritten, PlanInv, RoundBuilt
  <2>4. CASE Forward(ref) = "rows"
    <3>1. Rewritten(ref) = Rows(ref)
      BY <1>0, <1>3, <2>4 DEF Rewritten
    <3>2. Rows(ref) \in Decoders(subgraph)
      BY <2>1, <2>4 DEF Decoders
    <3> QED
      BY <3>1, <3>2
  <2> QED
    BY <2>2, <2>3, <2>4
<1>4. CASE ref # Symbols /\ ref \notin DOMAIN results
  <2>1. PICK j \in 1 .. i - 1 : subgraph[j].id = ref
    BY <1>4 DEF PlanInv, AdmittedSound
  <2>2. j \in DOMAIN subgraph
    BY DEF PlanInv, PlanTyped
  <2> QED
    BY <1>4, <2>1, <2>2 DEF Rewritten
<1> QED
  BY <1>2, <1>3, <1>4

\* Whatever a node reads is a node of the round or bound to it.
LEMMA RoundIsClosed == PlanInv => RoundClosed
<1> SUFFICES ASSUME PlanInv, stage = "run", NEW n \in DOMAIN graph
             PROVE  graph[n] \subseteq DOMAIN graph \cup bound
  BY DEF RoundClosed
<1>1. DOMAIN graph = RoundNodes(subgraph)
  BY RoundReads
<1>2. CASE \E id \in Ids(subgraph) : n = Op(id)
  <2>1. PICK i \in DOMAIN subgraph : n = Op(subgraph[i].id)
    BY <1>2 DEF Ids
  <2>2. \A ref \in subgraph[i].inputs : Rewritten(ref) \in RoundNodes(subgraph) \cup bound
    BY ReferenceLeads DEF RoundNodes, Ids
  <2> QED
    BY <1>1, <2>1, <2>2, RoundReads
<1>3. CASE n \in Decoders(subgraph)
  <2>1. n[2] \in Forwarded(subgraph)
    BY <1>3 DEF Decoders, Rows
  <2> QED
    BY <1>3, <2>1, RoundReads DEF PlanInv, RoundBuilt
<1>4. CASE n \in Renders(subgraph)
  <2>1. PICK l \in Leaves(subgraph) : n = Render(l)
    BY <1>4 DEF Renders
  <2> QED
    BY <1>1, <2>1, RoundReads DEF RoundNodes, Leaves
<1>5. CASE n \in {Observation, Proposer}
  BY <1>1, <1>5, RoundReads DEF RoundNodes
<1> QED
  BY <1>1, <1>2, <1>3, <1>4, <1>5 DEF RoundNodes

\* In a run of several rows a result is bound as it is only if it has a value per row.
LEMMA RowsStayAligned == PlanInv => RowsAligned
<1> SUFFICES ASSUME PlanInv, stage = "run", rows > 1, NEW n \in DOMAIN graph, NEW ref \in DOMAIN results,
                    In(ref) \in graph[n]
             PROVE  results[ref] = (IF n = Rows(ref) THEN "lists" ELSE "scalars")
  BY DEF RowsAligned
<1>1. DOMAIN graph = RoundNodes(subgraph) /\ rows = 2 /\ ref # Symbols
  BY RoundReads DEF PlanInv, PlanTyped, FixedIds
<1>2. CASE \E id \in Ids(subgraph) : n = Op(id)
  <2>1. PICK i \in DOMAIN subgraph : n = Op(subgraph[i].id)
    BY <1>2 DEF Ids
  <2>2. PICK r \in subgraph[i].inputs : In(ref) = Rewritten(r)
    BY <2>1, RoundReads
  <2>3. r = ref /\ Forward(ref) = "input"
    BY <1>1, <2>2 DEF Rewritten, In, Rows, Op
  <2> QED
    BY <1>1, <2>1, <2>3 DEF Forward, Op, Rows
<1>3. CASE n \in Decoders(subgraph)
  <2>1. PICK r \in Forwarded(subgraph) : n = Rows(r) /\ Forward(r) = "rows"
    BY <1>3 DEF Decoders
  <2>2. r = ref
    BY <1>3, <2>1, RoundReads DEF In, Rows
  <2> QED
    BY <1>1, <2>1, <2>2 DEF Forward
<1>4. CASE n \in Renders(subgraph)
  <2>1. PICK l \in Leaves(subgraph) : n = Render(l)
    BY <1>4 DEF Renders
  <2> QED
    BY <2>1, RoundReads DEF In, Op
<1>5. CASE n \in {Observation, Proposer}
  <2>1. In(ref)[1] = "input" /\ Observation[1] = "observation"
        /\ \A r \in Renders(subgraph) : r[1] = "render"
    BY DEF In, Observation, Renders, Render
  <2>2. In(ref) \in Renders(subgraph) \cup {Observation}
    BY <1>5, RoundReads
  <2> QED
    BY <2>1, <2>2
<1> QED
  BY <1>1, <1>2, <1>3, <1>4, <1>5 DEF RoundNodes

\* A round has finitely many nodes.
LEMMA RoundIsFinite ==
  ASSUME PlanInv, stage = "run", MaxNodes \in Nat
  PROVE  IsFiniteSet(DOMAIN graph)
<1>1. PICK n \in 0 .. MaxNodes : subgraph \in [1 .. n -> Ops]
  BY DEF PlanInv, PlanTyped
<1> DEFINE ids == Ids(subgraph)
           known == DOMAIN results
           op == [id \in ids |-> Op(id)]
           render == [id \in ids |-> Render(id)]
           decoder == [id \in known |-> Rows(id)]
<1>2. IsFiniteSet(ids)
  BY <1>1, FiniteIds
<1>3. IsFiniteSet(known)
  BY FS_Subset DEF PlanInv, PlanTyped
<1>4. /\ \A id \in ids : op[id] = Op(id) /\ render[id] = Render(id)
      /\ \A id \in known : decoder[id] = Rows(id)
  OBVIOUS
<1> HIDE DEF op, render, decoder
<1> DEFINE all == {op[id] : id \in ids} \cup {render[id] : id \in ids} \cup {decoder[id] : id \in known}
                    \cup {Observation} \cup {Proposer}
<1>5. IsFiniteSet(all)
  <2>1. IsFiniteSet({op[id] : id \in ids}) /\ IsFiniteSet({render[id] : id \in ids})
        /\ IsFiniteSet({decoder[id] : id \in known})
    BY <1>2, <1>3, FiniteImage
  <2>2. IsFiniteSet({Observation}) /\ IsFiniteSet({Proposer})
    BY FS_Singleton
  <2> QED
    BY <2>1, <2>2, FS_Union
<1>6. RoundNodes(subgraph) \subseteq all
  <2>1. Forwarded(subgraph) \subseteq known /\ Leaves(subgraph) \subseteq ids
    BY DEF Forwarded, Leaves
  <2>2. Decoders(subgraph) \subseteq {decoder[id] : id \in known}
    BY <1>4, <2>1 DEF Decoders
  <2>3. Renders(subgraph) \subseteq {render[id] : id \in ids}
    BY <1>4, <2>1 DEF Renders
  <2> QED
    BY <1>4, <2>2, <2>3 DEF RoundNodes
<1> QED
  BY <1>5, <1>6, RoundReads, FS_Subset

\* In every set of nodes there is one that reads none of them: a decoder, else the first op
\* emitted, else a render, the observation or the planner.
LEMMA RoundIsAcyclic ==
  ASSUME PlanInv, stage = "run"
  PROVE  Acyclic(DOMAIN graph, graph)
<1> SUFFICES ASSUME NEW S \in SUBSET DOMAIN graph, S # {}
             PROVE  \E n \in S : graph[n] \cap S = {}
  BY DEF Acyclic
<1>1. /\ \A b \in bound : b[1] = "input"
      /\ \A d \in Decoders(subgraph) : d[1] = "rows"
      /\ \A r \in Renders(subgraph) : r[1] = "render"
      /\ \A id : Op(id)[1] = "op" /\ In(id)[1] = "input"
      /\ Observation[1] = "observation" /\ Proposer[1] = "proposer"
  BY DEF PlanInv, RoundBuilt, In, Decoders, Rows, Renders, Render, Op, Observation, Proposer
<1>2. \A n \in S : n[1] # "input" /\ n \in RoundNodes(subgraph)
  BY <1>1, RoundReads DEF RoundNodes
<1>3. CASE \E d \in Decoders(subgraph) : d \in S
  <2>1. PICK d \in Decoders(subgraph) : d \in S
    BY <1>3
  <2>2. graph[d] = {In(d[2])}
    BY RoundReads
  <2> QED
    BY <1>1, <1>2, <2>1, <2>2
<1>4. CASE S \cap Decoders(subgraph) = {} /\ \E i \in DOMAIN subgraph : Op(subgraph[i].id) \in S
  <2> DEFINE I == {i \in DOMAIN subgraph : Op(subgraph[i].id) \in S}
  <2>1. I \in SUBSET Nat /\ I # {}
    BY <1>4 DEF PlanInv, PlanTyped
  <2>2. PICK i \in I : \A k \in I : i <= k
    BY <2>1, LeastNatural
  <2>3. ASSUME NEW ref \in subgraph[i].inputs PROVE Rewritten(ref) \notin S
    <3>1. CASE Rewritten(ref) \in bound
      BY <1>1, <1>2, <3>1
    <3>2. CASE Rewritten(ref) \in Decoders(subgraph)
      BY <1>4, <3>2
    <3>3. CASE \E j \in 1 .. i - 1 : j \in DOMAIN subgraph /\ Rewritten(ref) = Op(subgraph[j].id)
      <4>1. PICK j \in 1 .. i - 1 : j \in DOMAIN subgraph /\ Rewritten(ref) = Op(subgraph[j].id)
        BY <3>3
      <4>2. j \notin I
        BY <2>1, <2>2
      <4> QED
        BY <4>1, <4>2
    <3> QED
      BY <3>1, <3>2, <3>3, ReferenceLeads
  <2>4. graph[Op(subgraph[i].id)] = {Rewritten(ref) : ref \in subgraph[i].inputs}
    BY RoundReads
  <2> QED
    BY <2>3, <2>4
<1>5. CASE S \cap Decoders(subgraph) = {} /\ ~ \E i \in DOMAIN subgraph : Op(subgraph[i].id) \in S
  <2>1. \A id \in Ids(subgraph) : Op(id) \notin S
    BY <1>5 DEF Ids
  <2>2. CASE \E l \in Leaves(subgraph) : Render(l) \in S
    BY <2>1, <2>2, RoundReads DEF Leaves
  <2>3. CASE S \cap Renders(subgraph) = {}
    BY <1>1, <1>2, <1>5, <2>1, <2>3, RoundReads DEF RoundNodes
  <2> QED
    BY <2>2, <2>3 DEF Renders
<1> QED
  BY <1>3, <1>4, <1>5

\* The layers of the round come to hold all of its nodes.
LEMMA RoundCanRun == MaxNodes \in Nat /\ PlanInv => RoundExecutable
<1> SUFFICES ASSUME MaxNodes \in Nat, PlanInv, stage = "run" PROVE RoundExecutable
  BY DEF RoundExecutable
<1> DEFINE D == DOMAIN graph
           n == Cardinality(D)
           grow == [U \in SUBSET D |-> Reach(graph, U)]
           Eq(f) == f = [k \in 0 .. n |-> IF k = 0 THEN {} ELSE Reach(graph, f[k - 1])]
<1>1. IsFiniteSet(D) /\ n \in Nat
  BY RoundIsFinite, FS_CardinalityType
<1>2. grow \in [SUBSET D -> SUBSET D] /\ \A U \in SUBSET D : grow[U] = Reach(graph, U)
  BY DEF Reach
<1> HIDE DEF grow, n
<1> HIDE DEF D
<1>0. PICK f : Computes(f, n, D, grow)
  BY <1>1, <1>2, LayersExist
<1>3. f \in [0 .. n -> SUBSET D] /\ f[0] = {} /\ \A k \in 1 .. n : f[k] = grow[f[k - 1]]
  BY <1>0 DEF Computes
<1>4. Eq(f)
  <2>1. \A k \in 1 .. n : f[k] = Reach(graph, f[k - 1])
    <3> SUFFICES ASSUME NEW k \in 1 .. n PROVE f[k] = Reach(graph, f[k - 1])
      OBVIOUS
    <3>1. f[k - 1] \in SUBSET D
      BY <1>1, <1>3
    <3> QED
      BY <1>2, <1>3, <3>1
  <2> QED
    BY <1>1, <1>3, <2>1
<1> DEFINE steps == CHOOSE g : Eq(g)
<1>5. Eq(steps)
  BY <1>4
<1> HIDE DEF steps
<1>6. steps[0] = {} /\ \A k \in 1 .. n : steps[k] = Reach(graph, steps[k - 1])
  <2>1. \A k \in 0 .. n : steps[k] = IF k = 0 THEN {} ELSE Reach(graph, steps[k - 1])
    BY <1>5
  <2> QED
    BY <1>1, <2>1
<1>7. Layered(D, bound, graph, steps)
  <2> DEFINE S == {k \in 0 .. n : steps[k] \in SUBSET D}
  <2>1. 0 \in S /\ \A k \in 1 .. n : k - 1 \in S => k \in S
    BY <1>1, <1>6 DEF Reach, D
  <2> HIDE DEF S
  <2>2. 0 .. n \subseteq S
    BY <1>1, <2>1, UpTo
  <2>3. \A k \in 0 .. n : steps[k] \in SUBSET D
    BY <2>2 DEF S
  <2>4. DOMAIN steps = 0 .. n
    BY <1>5
  <2> QED
    BY <1>5, <1>6, <2>3, <2>4 DEF Layered, Reach, n, D
<1>8. steps[n] = D
  BY <1>1, <1>7, RoundIsClosed, RoundIsAcyclic, LayersReachAll DEF RoundClosed, n, D
<1> QED
  BY <1>8 DEF RoundExecutable, steps, n, D

\* Over all rounds of a dynamic run: a round reads only what it computes or what earlier
\* rounds left, row by row, it can be executed, its results stay, and no op runs twice.
THEOREM DynamicRoundsAreSound ==
  ASSUME MaxNodes \in Nat
  PROVE  PlanSpec => []RoundsSound
<1>1. PlanInit => PlanInv
  BY PlanInitInv
<1>2. PlanInv /\ [PlanNext]_planVars => PlanInv'
  BY PlanNextInv
<1>3. PlanInv => RoundsSound
  BY RoundIsClosed, RoundCanRun, RowsStayAligned DEF RoundsSound, PlanInv
<1> QED
  BY <1>1, <1>2, <1>3, PTL DEF PlanSpec

-----------------------------------------------------------------------------
(* JobIndex: the table of jobs.                                             *)

\* None, queued, running, done: what a stored record can say.
Levels == 0 .. 3

\* The types of what is stored.
StoreTyped ==
  /\ store \in [about : [Jobs -> [at : Nat, user : Nat, child : BOOLEAN]],
                record : [Jobs -> Levels], legacy : [Jobs -> Levels], old : SUBSET Jobs]
  /\ table \in [row : [Jobs -> Levels], up : BOOLEAN, saving : [Jobs -> BOOLEAN],
                told : SUBSET Jobs, lost : BOOLEAN]

\* Records only move on: from what the old index says, and a job that is saved, or was,
\* has one.
RecordsMoveOn ==
  \A j \in Jobs : /\ store.legacy[j] <= store.record[j]
                  /\ table.saving[j] \/ j \in table.told => store.record[j] # None

\* Who must be listed: a job that has not ended, and was saved or imported.
Live(j) == store.record[j] \in {1, 2}
\* A live job that was saved through this table, or found when the table was rebuilt.
MustBeListed(j) == Live(j) /\ (j \in table.told \/ (store.legacy[j] # None /\ ~table.lost))

\* A saved job stays listed while no process serves.  An imported one does too, unless the
\* table is empty: then the next start imports again.
ListedWhileDown ==
  /\ \A j \in Jobs : Live(j) /\ j \in table.told => table.row[j] # None
  /\ table.up \/ (\E i \in Jobs : table.row[i] # None)
       => \A j \in Jobs : MustBeListed(j) => table.row[j] # None

\* The inductive invariant.
IndexInv == StoreTyped /\ RecordsMoveOn /\ RowNotAhead /\ ListedWhileDown

-----------------------------------------------------------------------------
(* Each step preserves the invariant.                                       *)

\* The table is empty at first, and the records are those of the old index.
LEMMA IndexInitInv == IndexedJobs \in Nat /\ JiInit => IndexInv
<1> SUFFICES ASSUME IndexedJobs \in Nat, JiInit PROVE IndexInv
  OBVIOUS
<1>1. PICK at \in [Jobs -> {1, 2}], child \in SUBSET {IndexedJobs}, legacy \in [Jobs -> {None, 2, 3}] :
        /\ store = [about |-> [j \in Jobs |-> [at |-> at[j], user |-> 1 + (j % 2), child |-> j \in child]],
                    record |-> legacy, legacy |-> legacy, old |-> {}]
        /\ table = [row |-> [j \in Jobs |-> None], up |-> FALSE, saving |-> [j \in Jobs |-> FALSE],
                    told |-> {}, lost |-> FALSE]
  BY DEF JiInit
<1>2. StoreTyped
  <2>1. legacy \in [Jobs -> Levels] /\ None \in Levels
    BY DEF Levels, None
  <2>2. [j \in Jobs |-> [at |-> at[j], user |-> 1 + (j % 2), child |-> j \in child]]
          \in [Jobs -> [at : Nat, user : Nat, child : BOOLEAN]]
    BY DEF Jobs
  <2> QED
    BY <1>1, <2>1, <2>2 DEF StoreTyped
<1>3. RecordsMoveOn /\ RowNotAhead
  BY <1>1, <1>2, SMTT(60) DEF RecordsMoveOn, RowNotAhead, StoreTyped, Levels, None
<1>4. ListedWhileDown
  BY <1>1 DEF ListedWhileDown
<1> QED
  BY <1>2, <1>3, <1>4 DEF IndexInv

\* A start imports the old index only into an empty table, in which nobody who was saved
\* is missing.
LEMMA StartStep ==
  ASSUME IndexInv, Start
  PROVE  IndexInv'
<1> DEFINE empty == \A j \in Jobs : table.row[j] = None
<1>1. PICK readable \in BOOLEAN :
        table' = [table EXCEPT !.up = TRUE, !.row = IF empty /\ readable THEN store.legacy ELSE @,
                               !.lost = @ \/ (empty /\ ~readable)]
  BY DEF Start
<1>2. /\ store' = store /\ table'.up = TRUE /\ table'.saving = table.saving /\ table'.told = table.told
      /\ table'.row = IF empty /\ readable THEN store.legacy ELSE table.row
      /\ table'.lost = (table.lost \/ (empty /\ ~readable))
  BY <1>1 DEF Start, IndexInv, StoreTyped
<1>3. StoreTyped'
  BY <1>1, <1>2 DEF IndexInv, StoreTyped
<1>4. RecordsMoveOn' /\ RowNotAhead'
  BY <1>2 DEF IndexInv, RecordsMoveOn, RowNotAhead
<1>5. ASSUME NEW j \in Jobs, Live(j), j \in table.told PROVE table'.row[j] # None
  BY <1>2, <1>5 DEF IndexInv, ListedWhileDown
<1>6. ASSUME NEW j \in Jobs, MustBeListed(j)' PROVE table'.row[j] # None
  <2>1. CASE j \in table.told
    BY <1>2, <1>5, <1>6, <2>1 DEF MustBeListed, Live
  <2>2. CASE j \notin table.told /\ empty
    BY <1>2, <1>6, <2>2 DEF MustBeListed, Live
  <2>3. CASE j \notin table.told /\ ~ empty
    BY <1>2, <1>6, <2>3 DEF MustBeListed, Live, IndexInv, ListedWhileDown
  <2> QED
    BY <2>1, <2>2, <2>3
<1>7. ListedWhileDown'
  BY <1>2, <1>5, <1>6 DEF ListedWhileDown, Live
<1> QED
  BY <1>3, <1>4, <1>7 DEF IndexInv

\* A record moves on while its row waits.
LEMMA SaveBlobsStep ==
  ASSUME IndexInv, NEW j \in Jobs, SaveBlobs(j)
  PROVE  IndexInv'
<1>1. PICK status \in Statuses :
        status >= store.record[j] /\ store' = [store EXCEPT !.record[j] = status]
  BY DEF SaveBlobs
<1>2. /\ table' = [table EXCEPT !.saving[j] = TRUE] /\ table.up
  BY DEF SaveBlobs
<1>3. /\ store'.legacy = store.legacy /\ store'.record[j] = status /\ status # None
      /\ \A i \in Jobs \ {j} : store'.record[i] = store.record[i]
      /\ store.record[j] \in Levels /\ status \in Levels /\ store.legacy[j] \in Levels
      /\ table.row[j] \in Levels
  BY <1>1 DEF IndexInv, StoreTyped, Statuses, None, Levels
<1>4. /\ table'.row = table.row /\ table'.told = table.told /\ table'.lost = table.lost
      /\ table'.up = table.up /\ table'.saving[j] = TRUE
      /\ \A i \in Jobs \ {j} : table'.saving[i] = table.saving[i]
  BY <1>2 DEF IndexInv, StoreTyped
<1>5. StoreTyped'
  <2>1. store'.record \in [Jobs -> Levels] /\ table'.saving \in [Jobs -> BOOLEAN]
    BY <1>1, <1>2, <1>3 DEF IndexInv, StoreTyped
  <2> QED
    BY <1>1, <1>2, <2>1 DEF IndexInv, StoreTyped
<1>6. RecordsMoveOn'
  BY <1>1, <1>3, <1>4 DEF IndexInv, RecordsMoveOn, Levels
<1>7. RowNotAhead'
  BY <1>1, <1>3, <1>4 DEF IndexInv, RowNotAhead, Levels
<1>8. ASSUME NEW i \in Jobs, Live(i)', i \in table.told \/ store.legacy[i] # None
      PROVE  Live(i)
  <2>1. store.record[i] # None
    BY <1>3, <1>8 DEF IndexInv, RecordsMoveOn, StoreTyped, Levels, None
  <2> QED
    BY <1>1, <1>3, <1>8, <2>1 DEF Live, IndexInv, StoreTyped, Levels, None
<1>9. ListedWhileDown'
  BY <1>2, <1>4, <1>3, <1>8 DEF IndexInv, ListedWhileDown, MustBeListed
<1> QED
  BY <1>5, <1>6, <1>7, <1>9 DEF IndexInv

\* The row takes the status of the record; only rows of ended jobs are removed, and their
\* records have ended.
LEMMA SaveRowStep ==
  ASSUME IndexInv, NEW j \in Jobs, SaveRow(j)
  PROVE  IndexInv'
<1> DEFINE row == [table.row EXCEPT ![j] = store.record[j]]
<1>1. PICK prune \in BOOLEAN :
        table' = [table EXCEPT
                    !.row = [i \in Jobs |-> IF prune /\ Prunable(row, i) THEN None ELSE row[i]],
                    !.saving[j] = FALSE, !.told = @ \cup {j}]
  BY DEF SaveRow
<1>2. store' = store /\ table.up /\ table.saving[j]
  BY DEF SaveRow
<1>3. row \in [Jobs -> Levels] /\ row[j] = store.record[j] /\ \A i \in Jobs \ {j} : row[i] = table.row[i]
  BY DEF IndexInv, StoreTyped
<1>4. /\ \A i \in Jobs : table'.row[i] = IF prune /\ Prunable(row, i) THEN None ELSE row[i]
      /\ table'.told = table.told \cup {j} /\ table'.lost = table.lost /\ table'.up = table.up
      /\ \A i \in Jobs : table'.saving[i] => table.saving[i]
  BY <1>1 DEF IndexInv, StoreTyped
<1>5. StoreTyped'
  <2>1. table'.row \in [Jobs -> Levels]
    BY <1>1, <1>3 DEF IndexInv, StoreTyped, Levels, None
  <2>2. table'.saving \in [Jobs -> BOOLEAN] /\ table'.told \in SUBSET Jobs
    BY <1>1 DEF IndexInv, StoreTyped
  <2> QED
    BY <1>1, <1>2, <2>1, <2>2 DEF IndexInv, StoreTyped
<1>6. RecordsMoveOn'
  BY <1>2, <1>4 DEF IndexInv, RecordsMoveOn
<1>7. \A i \in Jobs : row[i] <= store.record[i]
  BY <1>3 DEF IndexInv, RowNotAhead, StoreTyped, Levels
<1>8. RowNotAhead'
  BY <1>2, <1>3, <1>4, <1>7 DEF RowNotAhead, IndexInv, StoreTyped, Levels, None
<1>9. ASSUME NEW i \in Jobs, Live(i), row[i] # None
      PROVE  table'.row[i] # None
  <2>1. row[i] # 3
    BY <1>3, <1>7, <1>9 DEF Live, Levels
  <2> QED
    BY <1>4, <1>9, <2>1 DEF Prunable, Ended
<1>10. ASSUME NEW i \in Jobs, MustBeListed(i)' PROVE table'.row[i] # None
  <2>1. Live(i)
    BY <1>2, <1>10 DEF MustBeListed, Live
  <2>2. CASE i = j
    BY <1>3, <1>9, <2>1, <2>2 DEF Live, None
  <2>3. CASE i # j
    <3>1. table.row[i] # None
      BY <1>2, <1>4, <1>10, <2>1, <2>3 DEF MustBeListed, IndexInv, ListedWhileDown
    <3> QED
      BY <1>3, <1>9, <2>1, <2>3, <3>1
  <2> QED
    BY <2>2, <2>3
<1>11. ListedWhileDown'
  BY <1>10 DEF ListedWhileDown, MustBeListed
<1> QED
  BY <1>5, <1>6, <1>8, <1>11, SMTT(60) DEF IndexInv

\* Time passes: nothing is removed yet.
LEMMA AgeStep ==
  ASSUME IndexInv, NEW j \in Jobs, Age(j)
  PROVE  IndexInv'
<1>1. /\ store' = [store EXCEPT !.old = @ \cup {j}] /\ table' = table
  BY DEF Age
<1>2. store'.record = store.record /\ store'.legacy = store.legacy
  BY <1>1 DEF IndexInv, StoreTyped
<1>3. StoreTyped'
  BY <1>1 DEF IndexInv, StoreTyped
<1> QED
  BY <1>1, <1>2, <1>3 DEF IndexInv, RecordsMoveOn, RowNotAhead, ListedWhileDown, MustBeListed, Live

\* The table survives the process.
LEMMA CrashStep ==
  ASSUME IndexInv, Crash
  PROVE  IndexInv'
<1>1. /\ store' = store
      /\ table' = [table EXCEPT !.up = FALSE, !.saving = [j \in Jobs |-> FALSE]] /\ table.up
  BY DEF Crash
<1>2. /\ table'.row = table.row /\ table'.told = table.told /\ table'.lost = table.lost
      /\ \A j \in Jobs : ~ table'.saving[j]
  BY <1>1 DEF IndexInv, StoreTyped
<1>3. StoreTyped'
  BY <1>1 DEF IndexInv, StoreTyped
<1> QED
  BY <1>1, <1>2, <1>3 DEF IndexInv, RecordsMoveOn, RowNotAhead, ListedWhileDown, MustBeListed, Live

\* Every step keeps the invariant.
LEMMA IndexNextInv == IndexInv /\ [JiNext]_jiVars => IndexInv'
<1> SUFFICES ASSUME IndexInv, [JiNext]_jiVars PROVE IndexInv'
  OBVIOUS
<1>1. CASE UNCHANGED jiVars
  BY <1>1 DEF jiVars, IndexInv, StoreTyped, RecordsMoveOn, RowNotAhead, ListedWhileDown, MustBeListed, Live
<1>2. CASE JiNext
  BY <1>2, StartStep, CrashStep, SaveBlobsStep, SaveRowStep, AgeStep DEF JiNext
<1> QED
  BY <1>1, <1>2

-----------------------------------------------------------------------------
(* JobIndex: the pages of the table.                                        *)

\* A sequence of sequences, and what the first k of them are when put together.
Joins(whole, pages, n, V) ==
  /\ pages \in [1 .. n -> Seq(V)] /\ whole \in [0 .. n -> Seq(V)] /\ whole[0] = <<>>
  /\ \A k \in 1 .. n : whole[k] = whole[k - 1] \o pages[k]

\* Sequences put together are what is built by putting one after the other.
LEMMA FlatIsWhole ==
  ASSUME NEW n \in Nat, NEW V, NEW pages, NEW whole, Joins(whole, pages, n, V)
  PROVE  FlattenSeq(pages) = whole[n]
<1> DEFINE Flat(f) == f = [i \in 1 .. Len(pages) |-> IF i = 1 THEN pages[i] ELSE f[i - 1] \o pages[i]]
           flat == CHOOSE f : Flat(f)
           g == [i \in 1 .. n |-> whole[i]]
           S == {k \in 0 .. n : k = 0 \/ flat[k] = whole[k]}
<1>0. /\ pages \in [1 .. n -> Seq(V)] /\ whole \in [0 .. n -> Seq(V)] /\ whole[0] = <<>>
      /\ \A k \in 1 .. n : whole[k] = whole[k - 1] \o pages[k]
  BY DEF Joins
<1>1. Len(pages) = n
  BY <1>0
<1>2. FlattenSeq(pages) = IF Len(pages) = 0 THEN pages ELSE flat[Len(pages)]
  BY DEF FlattenSeq
<1>3. Flat(g)
  <2>1. \A i \in 1 .. n : g[i] = IF i = 1 THEN pages[i] ELSE g[i - 1] \o pages[i]
    <3> SUFFICES ASSUME NEW i \in 1 .. n
                 PROVE g[i] = IF i = 1 THEN pages[i] ELSE g[i - 1] \o pages[i]
      OBVIOUS
    <3>1. CASE i = 1
      <4>0. 1 \in 1 .. n /\ 1 - 1 = 0
        BY <3>1
      <4>1. whole[1] = <<>> \o pages[1]
        BY <1>0, <4>0
      <4>2. pages[1] \in Seq(V)
        BY <1>0, <4>0
      <4>3. <<>> \o pages[1] = pages[1]
        BY <4>2
      <4> QED
        BY <3>1, <4>1, <4>3
    <3>2. CASE i # 1
      <4>1. i - 1 \in 1 .. n
        BY <3>2
      <4>2. whole[i] = whole[i - 1] \o pages[i]
        BY <1>0
      <4> QED
        BY <3>2, <4>1, <4>2
    <3> QED
      BY <3>1, <3>2
  <2>2. [i \in 1 .. n |-> IF i = 1 THEN pages[i] ELSE g[i - 1] \o pages[i]] = [i \in 1 .. n |-> g[i]]
    BY <2>1, ZenonT(60)
  <2>3. g = [i \in 1 .. n |-> g[i]]
    OBVIOUS
  <2> HIDE DEF g
  <2> QED
    BY <1>1, <2>2, <2>3
<1>4. Flat(flat)
  <2>1. \E f : Flat(f)
    <3> HIDE DEF g
    <3> QED
      BY <1>3
  <2> QED
    BY <2>1
<1> HIDE DEF flat
<1>5. \A i \in 1 .. n : flat[i] = IF i = 1 THEN pages[i] ELSE flat[i - 1] \o pages[i]
  BY <1>1, <1>4
<1>6. \A k \in 1 .. n : k - 1 \in S => k \in S
  <2> SUFFICES ASSUME NEW k \in 1 .. n, k - 1 \in S PROVE k \in S
    OBVIOUS
  <2>0. g[k] = IF k = 1 THEN pages[k] ELSE g[k - 1] \o pages[k]
    <3> HIDE DEF g
    <3> QED
      BY <1>1, <1>3
  <2>1. CASE k = 1
    <3>1. flat[k] = g[k]
      BY <1>5, <2>0, <2>1
    <3> QED
      BY <3>1
  <2>2. CASE k # 1
    <3>1. k - 1 \in 1 .. n /\ flat[k - 1] = whole[k - 1]
      BY <2>2
    <3>2. flat[k] = flat[k - 1] \o pages[k] /\ whole[k] = whole[k - 1] \o pages[k]
      BY <1>0, <1>5, <2>2
    <3>3. flat[k] = whole[k]
      BY <3>1, <3>2, Zenon
    <3> QED
      BY <3>3
  <2> QED
    BY <2>1, <2>2
<1>7. 0 .. n \subseteq S
  <2> HIDE DEF S
  <2>1. 0 \in S
    BY DEF S
  <2> QED
    BY <1>6, <2>1, UpTo
<1>8. n = 0 => pages = <<>>
  BY <1>0
<1> QED
  BY <1>0, <1>1, <1>2, <1>7, <1>8

\* A total order of the jobs: the later one first, among equals the one with the larger id.
NewerPairs == {p \in Jobs \X Jobs : Newer(p[1], p[2])}

\* The jobs of a set in order: each stands at its place.
LEMMA InOrderPlaces ==
  ASSUME NEW S \in SUBSET Jobs, Orders(S, NewerPairs)
  PROVE  /\ InOrder(S) \in [1 .. Cardinality(S) -> S]
         /\ \A k \in 1 .. Cardinality(S) : \A j \in S :
              Rank(S, NewerPairs, j) = k - 1 => InOrder(S)[k] = j
<1>0. \A j \in S : {i \in S : Newer(i, j)} = Before(S, NewerPairs, j)
  BY DEF Before, NewerPairs
<1>1. ASSUME NEW k \in 1 .. Cardinality(S), NEW j \in S, Rank(S, NewerPairs, j) = k - 1
      PROVE  InOrder(S)[k] = j
  <2>1. InOrder(S)[k] = CHOOSE h \in S : Cardinality({i \in S : Newer(i, h)}) = k - 1
    BY DEF InOrder
  <2>2. \A h \in S : Cardinality({i \in S : Newer(i, h)}) = Rank(S, NewerPairs, h)
    BY <1>0 DEF Rank
  <2>3. \A h \in S : Cardinality({i \in S : Newer(i, h)}) = k - 1 <=> h = j
    BY <1>1, <2>2, RankIsPlace
  <2> QED
    BY <2>1, <2>3
<1>2. InOrder(S) = [k \in 1 .. Cardinality(S) |-> InOrder(S)[k]]
  <2> DEFINE F(k) == CHOOSE j \in S : Cardinality({i \in S : Newer(i, j)}) = k - 1
  <2>1. InOrder(S) = [k \in 1 .. Cardinality(S) |-> F(k)]
    BY DEF InOrder
  <2> HIDE DEF F
  <2> QED
    BY <2>1
<1>3. Cardinality(S) \in Nat
  BY FS_CardinalityType DEF Orders
<1>4. \A k \in 1 .. Cardinality(S) : InOrder(S)[k] \in S
  <2> SUFFICES ASSUME NEW k \in 1 .. Cardinality(S) PROVE InOrder(S)[k] \in S
    OBVIOUS
  <2>1. k - 1 \in 0 .. Cardinality(S) - 1
    BY <1>3
  <2>2. PICK j \in S : Rank(S, NewerPairs, j) = k - 1
    BY <2>1, PlacesTaken
  <2> QED
    BY <1>1, <2>2
<1> QED
  BY <1>1, <1>2, <1>4

\* The first m jobs of a set in order, or all if there are not so many.
Least(m, n) == IF m <= n THEN m ELSE n
\* The m newest jobs of S, newest first.
FirstOf(S, m) == [k \in 1 .. Least(m, Cardinality(S)) |-> InOrder(S)[k]]

\* A page continues the pages before it.
LEMMA PageContinues ==
  ASSUME NEW S \in SUBSET Jobs, Orders(S, NewerPairs), NEW first \in Nat, NEW size \in Nat
  PROVE  /\ InOrder(Run(S, NewerPairs, first, first + size - 1)) \in Seq(S)
         /\ FirstOf(S, first) \in Seq(S)
         /\ FirstOf(S, first + size) =
              FirstOf(S, first) \o InOrder(Run(S, NewerPairs, first, first + size - 1))
<1> DEFINE n == Cardinality(S)
           m == Cardinality(Run(S, NewerPairs, first, first + size - 1))
           U == Run(S, NewerPairs, first, first + size - 1)
           L == InOrder(S)
           P == InOrder(U)
<1>1. n \in Nat /\ U \in SUBSET S /\ U \in SUBSET Jobs /\ IsFiniteSet(S)
  BY FS_CardinalityType DEF Orders, Run
<1>2. /\ Orders(U, NewerPairs)
      /\ \A i \in U : Rank(U, NewerPairs, i) = Rank(S, NewerPairs, i) - first
  BY RunIsOrdered
<1>3. m = IF first >= n THEN 0 ELSE IF first + size <= n THEN size ELSE n - first
  <2>1. CASE first + size <= n
    <3>1. first + size - 1 < n /\ first + size - 1 \in Int
      BY <1>1, <2>1
    <3>2. m = IF first > first + size - 1 THEN 0 ELSE first + size - 1 - first + 1
      BY <3>1, RunIsOrdered
    <3> HIDE DEF m, n
    <3> QED
      BY <1>1, <2>1, <3>1, <3>2
  <2>2. CASE first + size > n
    <3> DEFINE R == Run(S, NewerPairs, first, n - 1)
    <3>1. U = R
      BY <1>1, <2>2, RankIsPlace DEF Run
    <3>2. n - 1 < n /\ n - 1 \in Int
      BY <1>1
    <3>3. Cardinality(R) = IF first > n - 1 THEN 0 ELSE n - 1 - first + 1
      BY <3>2, RunIsOrdered
    <3>4. m = Cardinality(R)
      BY <3>1
    <3> HIDE DEF m, n, R
    <3> QED
      BY <1>1, <2>2, <3>3, <3>4
  <2> HIDE DEF m, n
  <2> QED
    BY <1>1, <2>1, <2>2
<1>4. P \in [1 .. m -> U] /\ L \in [1 .. n -> S]
  BY <1>1, <1>2, InOrderPlaces
<1>5. ASSUME NEW k \in 1 .. m PROVE P[k] = L[first + k]
  <2> HIDE DEF m, n
  <2>1. first + k \in 1 .. n
    BY <1>1, <1>3
  <2> USE DEF n
  <2>2. first + k - 1 \in 0 .. Cardinality(S) - 1
    BY <1>1, <2>1
  <2>3. PICK j \in S : Rank(S, NewerPairs, j) = first + k - 1
    BY <2>2, PlacesTaken
  <2>4. L[first + k] = j
    BY <2>1, <2>3, InOrderPlaces
  <2>5. k <= size /\ k >= 1
    BY <1>1, <1>3
  <2>6. j \in U
    BY <2>3, <2>5 DEF Run
  <2>7. Rank(U, NewerPairs, j) = k - 1
    BY <1>2, <2>3, <2>6
  <2>8. P[k] = j
    BY <1>1, <1>2, <2>6, <2>7, InOrderPlaces DEF m
  <2> QED
    BY <2>4, <2>8
<1>6. P \in Seq(S) /\ Len(P) = m /\ m \in Nat
  <2> HIDE DEF P, U
  <2>1. m \in Nat
    BY <1>1, <1>3
  <2> QED
    BY <1>1, <1>4, <2>1
<1>7. ASSUME NEW x \in Nat
      PROVE  /\ Least(x, n) \in 0 .. n
             /\ FirstOf(S, x) \in Seq(S) /\ Len(FirstOf(S, x)) = Least(x, n)
             /\ \A k \in 1 .. Least(x, n) : FirstOf(S, x)[k] = L[k]
  <2>1. Least(x, n) \in 0 .. n
    BY <1>1 DEF Least
  <2>2. FirstOf(S, x) = [k \in 1 .. Least(x, n) |-> L[k]]
    BY DEF FirstOf
  <2> HIDE DEF L, n
  <2>3. \A k \in 1 .. Least(x, n) : L[k] \in S
    BY <1>1, <1>4, <2>1
  <2> QED
    BY <1>1, <2>1, <2>2, <2>3
<1>8. FirstOf(S, first + size) = FirstOf(S, first) \o P
  <2> DEFINE A == FirstOf(S, first + size)
             B == FirstOf(S, first)
             a == Least(first + size, n)
             b == Least(first, n)
  <2>1. A \in Seq(S) /\ Len(A) = a /\ B \in Seq(S) /\ Len(B) = b /\ a \in Nat /\ b \in Nat
    <3>1. first + size \in Nat
      OBVIOUS
    <3> QED
      BY <1>1, <1>7, <3>1, SMTT(60)
  <2>2. a = b + m
    <3> HIDE DEF m, n
    <3> QED
      BY <1>1, <1>3 DEF Least
  <2>3. \A k \in 1 .. a : A[k] = L[k]
    BY <1>7, SMTT(60)
  <2>4. \A k \in 1 .. b : B[k] = L[k]
    BY <1>7
  <2>5. m > 0 => b = first
    <3> HIDE DEF m, n
    <3> QED
      BY <1>1, <1>3 DEF Least
  <2> HIDE DEF A, B, a, b, P, L, m
  <2>6. \A k \in 1 .. a : A[k] = (B \o P)[k]
    <3> SUFFICES ASSUME NEW k \in 1 .. a PROVE A[k] = (B \o P)[k]
      OBVIOUS
    <3>1. CASE k <= b
      BY <1>6, <2>1, <2>3, <2>4, <3>1
    <3>2. CASE k > b
      <4>1. k - b \in 1 .. m /\ b = first
        BY <1>6, <2>1, <2>2, <2>5, <3>2
      <4>2. (B \o P)[k] = P[k - b]
        BY <1>6, <2>1, <2>2, <3>2
      <4>3. P[k - b] = L[first + (k - b)]
        BY <1>5, <4>1
      <4>4. first + (k - b) = k
        BY <4>1, <2>1
      <4> QED
        BY <2>3, <4>2, <4>3, <4>4
    <3>3. k <= b \/ k > b
      BY <2>1
    <3> QED
      BY <3>1, <3>2, <3>3, Zenon
  <2>7. B \o P \in Seq(S) /\ Len(B \o P) = a
    BY <1>6, <2>1, <2>2, SMTT(60)
  <2> DEFINE C == B \o P
  <2>8. C \in Seq(S) /\ Len(C) = a /\ \A k \in 1 .. a : A[k] = C[k]
    BY <2>6, <2>7
  <2> HIDE DEF C
  <2>9. A = C
    BY <2>1, <2>8
  <2> QED
    BY <2>9 DEF A, B, C
<1> QED
  BY <1>6, <1>7, <1>8

\* No two jobs are equally new.
LEMMA AnyJobsOrdered ==
  ASSUME IndexedJobs \in Nat, StoreTyped, NEW S \in SUBSET Jobs
  PROVE  Orders(S, NewerPairs)
<1>1. IsFiniteSet(S)
  <2>1. IsFiniteSet(1 .. IndexedJobs)
    BY FS_Interval
  <2> QED
    BY <2>1, FS_Subset DEF Jobs
<1>2. \A j \in S : store.about[j].at \in Nat /\ j \in Nat /\ j \in Jobs
  BY DEF StoreTyped, Jobs
<1>3. \A i, j \in S : <<i, j>> \in NewerPairs <=> Newer(i, j)
  BY DEF NewerPairs
<1>4. \A i, j \in S : i = j \/ Newer(i, j) \/ Newer(j, i)
  BY <1>2 DEF Newer
<1>5. \A i \in S : ~Newer(i, i)
  BY <1>2 DEF Newer
<1>6. \A i, j, k \in S : Newer(i, j) /\ Newer(j, k) => Newer(i, k)
  BY <1>2 DEF Newer
<1> QED
  BY <1>1, <1>3, <1>4, <1>5, <1>6 DEF Orders

\* The pages of every query are what the list of the other backends is cut into.
LEMMA QueryPagesAgree ==
  ASSUME IndexedJobs \in Nat, StoreTyped, NEW user, NEW ids, NEW statuses, NEW size \in Nat \ {0}
  PROVE  FlattenSeq([p \in 1 .. IndexedJobs |-> Page(user, ids, statuses, p, size)])
           = Listed(table.row, user, ids, statuses)
<1> DEFINE len == IndexedJobs
           S == Selected(user, ids, statuses)
           page(p) == Page(user, ids, statuses, p, size)
           pages == [p \in 1 .. len |-> page(p)]
           whole == [p \in 0 .. len |-> FirstOf(S, p * size)]
<1>0. len \in Nat /\ size \in Nat /\ size >= 1
  OBVIOUS
<1>1. S = Filtered(table.row, user, ids, statuses)
  BY DEF Selected, Where, Filtered
<1>2. S \in SUBSET Jobs /\ Orders(S, NewerPairs)
  BY AnyJobsOrdered DEF Selected
<1> HIDE DEF S
<1>3. ASSUME NEW p \in 1 .. len
      PROVE  page(p) \in Seq(S) /\ FirstOf(S, p * size) = FirstOf(S, (p - 1) * size) \o page(p)
  <2> DEFINE first == (p - 1) * size
  <2>1. first \in Nat /\ first + size = p * size /\ Offset(p, size) = first
    BY DEF Offset
  <2>2. page(p) = InOrder({i \in S : Cardinality({j \in S : Newer(j, i)}) \in first .. first + size - 1})
    BY <2>1 DEF Page, S
  <2> HIDE DEF first
  <2>3. \A i \in S : {j \in S : Newer(j, i)} = Before(S, NewerPairs, i)
    BY <1>2 DEF Before, NewerPairs
  <2>4. {i \in S : Cardinality({j \in S : Newer(j, i)}) \in first .. first + size - 1}
          = Run(S, NewerPairs, first, first + size - 1)
    BY <2>3 DEF Run, Rank
  <2>5. page(p) = InOrder(Run(S, NewerPairs, first, first + size - 1))
    BY <2>2, <2>4
  <2> HIDE DEF page
  <2>6. page(p) \in Seq(S) /\ FirstOf(S, first + size) = FirstOf(S, first) \o page(p)
    <3>1. size \in Nat /\ first \in Nat
      BY <1>0, <2>1
    <3>2. S \in SUBSET Jobs /\ Orders(S, NewerPairs)
      BY <1>2
    <3>3. LET next == InOrder(Run(S, NewerPairs, first, first + size - 1))
          IN  next \in Seq(S) /\ FirstOf(S, first + size) = FirstOf(S, first) \o next
      BY <3>1, <3>2, PageContinues, Zenon
    <3> QED
      BY <2>5, <3>3, Zenon
  <2> QED
    BY <2>1, <2>6 DEF first
<1>4. \A p \in 0 .. len : p * size \in Nat /\ FirstOf(S, p * size) \in Seq(S)
  <2> SUFFICES ASSUME NEW p \in 0 .. len PROVE p * size \in Nat /\ FirstOf(S, p * size) \in Seq(S)
    OBVIOUS
  <2>1. p * size \in Nat
    OBVIOUS
  <2> QED
    BY <1>2, <2>1, PageContinues
<1>5. Joins(whole, pages, len, S)
  <2>1. whole \in [0 .. len -> Seq(S)]
    BY <1>4
  <2>2. whole[0] = <<>>
    <3>1. Cardinality(S) \in Nat
      BY <1>2, FS_CardinalityType DEF Orders
    <3>2. Least(0, Cardinality(S)) = 0 /\ 0 * size = 0
      BY <3>1 DEF Least
    <3>3. FirstOf(S, 0) = <<>>
      BY <3>2 DEF FirstOf
    <3> QED
      BY <3>2, <3>3
  <2> HIDE DEF page
  <2>3. pages \in [1 .. len -> Seq(S)]
    BY <1>3
  <2>4. ASSUME NEW p \in 1 .. len PROVE whole[p] = whole[p - 1] \o pages[p]
    <3>1. whole[p] = FirstOf(S, p * size) /\ whole[p - 1] = FirstOf(S, (p - 1) * size)
      BY <1>0
    <3>2. pages[p] = page(p)
      OBVIOUS
    <3> HIDE DEF whole, pages
    <3> QED
      BY <1>3, <3>1, <3>2
  <2> HIDE DEF whole, pages
  <2> QED
    BY <2>1, <2>2, <2>3, <2>4 DEF Joins
<1>6. FlattenSeq(pages) = FirstOf(S, len * size)
  <2>1. whole[len] = FirstOf(S, len * size)
    OBVIOUS
  <2> HIDE DEF whole, pages
  <2> QED
    BY <1>0, <1>5, <2>1, FlatIsWhole
<1>7. FirstOf(S, len * size) = InOrder(S)
  <2> DEFINE n == Cardinality(S)
  <2>1. n \in Nat /\ n <= len
    <3>1. IsFiniteSet(1 .. len) /\ Cardinality(1 .. len) = len
      BY <1>0, FS_Interval
    <3> QED
      BY <1>2, <3>1, FS_Subset, FS_CardinalityType DEF Jobs
  <2>2. len * size >= len
    OBVIOUS
  <2>3. Least(len * size, n) = n
    <3> HIDE DEF n
    <3> QED
      BY <2>1, <2>2 DEF Least
  <2>4. InOrder(S) \in [1 .. n -> S]
    BY <1>2, InOrderPlaces
  <2> QED
    BY <2>3, <2>4 DEF FirstOf
<1> QED
  BY <1>1, <1>6, <1>7 DEF Listed

\* For every number of jobs the pages of the table are the list of the other backends.
LEMMA AllPagesAgree == IndexedJobs \in Nat /\ StoreTyped => PagesAgree
<1> SUFFICES ASSUME IndexedJobs \in Nat, StoreTyped,
                    NEW user \in {0, 1}, NEW ids \in {{0}, {}, {1}}, NEW statuses \in {{}, {1, 2}},
                    NEW size \in {1, 2}
             PROVE  FlattenSeq([p \in 1 .. IndexedJobs |-> Page(user, ids, statuses, p, size)])
                      = Listed(table.row, user, ids, statuses)
  BY Zenon DEF PagesAgree
<1>1. size \in Nat \ {0}
  OBVIOUS
<1> QED
  BY <1>1, QueryPagesAgree, Zenon

-----------------------------------------------------------------------------
(* The result.                                                              *)

\* For every number of jobs: through crashes between the record and the row, retention and
\* repeated imports, the table that serves shows every job that has not ended and was saved
\* or imported, no row is ahead of its record, and the pages of every query are the list that
\* the other backends cut into pages (SqliteJobStorage).
THEOREM JobTableIsSound ==
  ASSUME IndexedJobs \in Nat
  PROVE  JiSpec => []IndexSound
<1>1. JiInit => IndexInv
  BY IndexInitInv
<1>2. IndexInv => IndexSound
  <2>1. IndexInv => LiveJobsListed /\ RowNotAhead
    BY DEF IndexInv, ListedWhileDown, MustBeListed, Live, LiveJobsListed
  <2> QED
    BY <2>1, AllPagesAgree DEF IndexInv, IndexSound
<1> QED
  BY <1>1, <1>2, IndexNextInv, PTL DEF JiSpec

-----------------------------------------------------------------------------
(* GraphDedupe: merging the tasks of a batch that say the same.             *)

\* A data column of a task: the label that names it, the node it is read from, the path in it.
ColumnRecords == [label : Nat, node : Nat, path : Nat]
\* The tasks of a merged graph.
TaskRecords == [spec : Nat, cols : Seq(ColumnRecords), text : Seq(Nat), after : SUBSET Nat, output : BOOLEAN]

\* A task of a runtime graph reads and waits for earlier tasks only, binds a label once and
\* shows labels that it binds.
TaskSound(t, n) ==
  /\ t \in TaskRecords
  /\ \A i \in DOMAIN t.cols : t.cols[i].node \in 1 .. n - 1
  /\ t.after \subseteq 1 .. n - 1
  /\ \A i, j \in DOMAIN t.cols : t.cols[i].label = t.cols[j].label => i = j
  /\ \A i \in DOMAIN t.text : t.text[i] \in Labels(t)

\* Each task of the merged graph reads tasks before it.
MergedTyped ==
  /\ merged \in Seq(TaskRecords)
  /\ \A n \in Nodes : TaskSound(merged[n], n)

\* A task stands for itself, or is merged with an earlier one that stands for itself and has
\* its signature; neither is an output.
MapSound(map, k) ==
  /\ map \in [1 .. k -> 1 .. k]
  /\ \A n \in 1 .. k : map[n] <= n /\ map[map[n]] = map[n]
  /\ \A n \in 1 .. k : map[n] # n =>
       /\ ~merged[n].output /\ ~merged[map[n]].output
       /\ Signature(merged[map[n]], map) = Signature(merged[n], map)

\* The tasks that are kept, in their order.
OrderInv(order, map, k) ==
  /\ order \in Seq(1 .. k)
  /\ \A i, j \in DOMAIN order : i < j => order[i] < order[j]
  /\ ToSet(order) = {n \in 1 .. k : map[n] = n}

\* What _dedupe_runtime_graph has made of a graph of k tasks.
DedupedSound ==
  deduped # <<>> =>
    /\ MapSound(deduped.mapping, Len(merged))
    /\ OrderInv(deduped.order, deduped.mapping, Len(merged))
    /\ deduped.tasks = [n \in ToSet(deduped.order) |-> Remap(merged[n], deduped.mapping)]

\* The inductive invariant of the deduplication.
DedupeInv == MergedTyped /\ DedupedSound

-----------------------------------------------------------------------------
\* What is renamed in a task, and what stays.
LEMMA RemapFields ==
  ASSUME NEW t \in TaskRecords, NEW map
  PROVE  Remap(t, map) =
           [spec |-> t.spec,
            cols |-> [i \in DOMAIN t.cols |->
                        [label |-> t.cols[i].label, node |-> map[t.cols[i].node], path |-> t.cols[i].path]],
            text |-> t.text, after |-> {map[a] : a \in t.after}, output |-> t.output]
<1> DEFINE cols == [i \in DOMAIN t.cols |-> [t.cols[i] EXCEPT !.node = map[@]]]
           cols2 == [i \in DOMAIN t.cols |->
                        [label |-> t.cols[i].label, node |-> map[t.cols[i].node], path |-> t.cols[i].path]]
           after == {map[a] : a \in t.after}
<1>1. Remap(t, map) = [t EXCEPT !.cols = cols, !.after = after]
  BY DEF Remap
<1>2. \A i \in DOMAIN t.cols : t.cols[i] \in ColumnRecords
  BY DEF TaskRecords
<1>3. \A i \in DOMAIN t.cols : [t.cols[i] EXCEPT !.node = map[@]] =
        [label |-> t.cols[i].label, node |-> map[t.cols[i].node], path |-> t.cols[i].path]
  BY <1>2 DEF ColumnRecords
<1>4. cols = cols2
  BY <1>3
<1> HIDE DEF cols, cols2, after
<1>5. [t EXCEPT !.cols = cols, !.after = after] =
        [spec |-> t.spec, cols |-> cols, text |-> t.text, after |-> after, output |-> t.output]
  <2>1. DOMAIN t = {"spec", "cols", "text", "after", "output"}
    BY DEF TaskRecords
  <2>2. [t EXCEPT !.cols = cols, !.after = after] =
          [f \in DOMAIN t |-> IF f = "after" THEN after ELSE IF f = "cols" THEN cols ELSE t[f]]
    BY <2>1
  <2> QED
    BY <2>1, <2>2
<1> QED
  BY <1>1, <1>4, <1>5 DEF cols2, after

\* A task's references are all the renaming looks at.
LEMMA RemapKept ==
  ASSUME NEW n \in Nat, NEW t, TaskSound(t, n), NEW map1, NEW map2,
         \A k \in 1 .. n - 1 : map1[k] = map2[k]
  PROVE  Remap(t, map1) = Remap(t, map2)
<1> t \in TaskRecords
  BY DEF TaskSound
<1>1. \A i \in DOMAIN t.cols : map1[t.cols[i].node] = map2[t.cols[i].node]
  BY DEF TaskSound
<1>2. {map1[a] : a \in t.after} = {map2[a] : a \in t.after}
  BY DEF TaskSound
<1>3. [i \in DOMAIN t.cols |->
         [label |-> t.cols[i].label, node |-> map1[t.cols[i].node], path |-> t.cols[i].path]] =
      [i \in DOMAIN t.cols |->
         [label |-> t.cols[i].label, node |-> map2[t.cols[i].node], path |-> t.cols[i].path]]
  BY <1>1
<1>4. Remap(t, map1) =
        [spec |-> t.spec,
         cols |-> [i \in DOMAIN t.cols |->
                     [label |-> t.cols[i].label, node |-> map1[t.cols[i].node], path |-> t.cols[i].path]],
         text |-> t.text, after |-> {map1[a] : a \in t.after}, output |-> t.output]
  BY RemapFields, Zenon
<1>5. Remap(t, map2) =
        [spec |-> t.spec,
         cols |-> [i \in DOMAIN t.cols |->
                     [label |-> t.cols[i].label, node |-> map2[t.cols[i].node], path |-> t.cols[i].path]],
         text |-> t.text, after |-> {map2[a] : a \in t.after}, output |-> t.output]
  BY RemapFields, Zenon
<1> QED
  BY <1>2, <1>3, <1>4, <1>5, Zenon

\* The signature of a task depends on the mapping of earlier tasks only.
LEMMA SignatureKept ==
  ASSUME NEW n \in Nat, NEW t, TaskSound(t, n), NEW map1, NEW map2,
         \A k \in 1 .. n - 1 : map1[k] = map2[k]
  PROVE  Signature(t, map1) = Signature(t, map2)
  BY RemapKept DEF Signature

-----------------------------------------------------------------------------
\* What the loop of _dedupe_runtime_graph knows after k tasks.
AccSound(acc, k) ==
  /\ acc.map \in Seq(Nat) /\ Len(acc.map) = k
  /\ MapSound(acc.map, k)
  /\ \A c \in acc.canonical : /\ c.task \in 1 .. k /\ acc.map[c.task] = c.task
                              /\ ~merged[c.task].output
                              /\ c.signature = Signature(merged[c.task], acc.map)

\* One more task keeps the mapping sound.
LEMMA AccStep ==
  ASSUME MergedTyped, NEW n \in Nodes, NEW acc, AccSound(acc, n - 1)
  PROVE  AccSound(MergeTask(acc, n), n)
<1> DEFINE map == acc.map
           sig == Signature(merged[n], map)
           same == {c \in acc.canonical : c.signature = sig}
           merges == Merges(merged[n])
           stand == IF merges /\ same # {} THEN (CHOOSE c \in same : TRUE).task ELSE n
           new == Append(map, stand)
           canonical == IF merges /\ same = {} THEN acc.canonical \cup {[task |-> n, signature |-> sig]}
                        ELSE acc.canonical
<1>0. n \in Nat /\ n >= 1 /\ n - 1 \in Nat /\ Nodes = 1 .. Len(merged)
  BY DEF Nodes, MergedTyped
<1>1. MergeTask(acc, n) = [map |-> new, canonical |-> canonical]
  BY DEF MergeTask
<1>2. /\ map \in Seq(Nat) /\ Len(map) = n - 1
      /\ map \in [1 .. n - 1 -> 1 .. n - 1]
      /\ \A m \in 1 .. n - 1 : map[m] <= m /\ map[map[m]] = map[m]
      /\ \A m \in 1 .. n - 1 : map[m] # m =>
           /\ ~merged[m].output /\ ~merged[map[m]].output
           /\ Signature(merged[map[m]], map) = Signature(merged[m], map)
  BY DEF AccSound, MapSound
<1>3. /\ stand \in 1 .. n
      /\ stand # n => /\ merges /\ stand \in 1 .. n - 1 /\ map[stand] = stand
                      /\ ~merged[stand].output /\ Signature(merged[stand], map) = sig
  <2>1. CASE merges /\ same # {}
    <3>1. PICK c : c = (CHOOSE b \in same : TRUE)
      OBVIOUS
    <3>2. c \in same /\ stand = c.task
      BY <2>1, <3>1
    <3> HIDE DEF stand
    <3> QED
      BY <1>0, <2>1, <3>2 DEF AccSound
  <2>2. CASE ~(merges /\ same # {})
    BY <1>0, <2>2
  <2> QED
    BY <2>1, <2>2
<1> HIDE DEF stand, sig, same, map
<1>4. /\ new \in Seq(Nat) /\ Len(new) = n /\ new[n] = stand
      /\ \A m \in 1 .. n - 1 : new[m] = map[m]
  BY <1>0, <1>2, <1>3
<1>5. \A m \in 1 .. n : Signature(merged[m], new) = Signature(merged[m], map)
  <2> SUFFICES ASSUME NEW m \in 1 .. n PROVE Signature(merged[m], new) = Signature(merged[m], map)
    OBVIOUS
  <2>1. TaskSound(merged[m], m) /\ m \in Nat
    BY <1>0 DEF MergedTyped
  <2>2. \A k \in 1 .. m - 1 : new[k] = map[k]
    BY <1>0, <1>4
  <2> HIDE DEF new
  <2> QED
    BY <2>1, <2>2, SignatureKept
<1> HIDE DEF new
<1>6. new \in [1 .. n -> 1 .. n]
  <2>1. DOMAIN new = 1 .. n /\ new = [m \in 1 .. n |-> new[m]]
    BY <1>0, <1>4
  <2>2. \A m \in 1 .. n : new[m] \in 1 .. n
    BY <1>0, <1>2, <1>3, <1>4
  <2> QED
    BY <2>1, <2>2
<1>7. ASSUME NEW m \in 1 .. n
      PROVE  /\ new[m] <= m /\ new[new[m]] = new[m]
             /\ new[m] # m => /\ ~merged[m].output /\ ~merged[new[m]].output
                              /\ Signature(merged[new[m]], new) = Signature(merged[m], new)
  <2>1. CASE m # n
    <3>1. m \in 1 .. n - 1 /\ new[m] = map[m] /\ map[m] \in 1 .. n - 1 /\ map[m] \in 1 .. n
      BY <1>0, <1>2, <1>4, <2>1
    <3>2. new[map[m]] = map[map[m]]
      BY <1>4, <3>1
    <3> QED
      BY <1>2, <1>5, <3>1, <3>2
  <2>2. CASE m = n
    <3>1. new[m] = stand
      BY <1>4, <2>2
    <3>2. CASE stand = n
      BY <1>0, <2>2, <3>1, <3>2
    <3>3. CASE stand # n
      <4>1. /\ merges /\ stand \in 1 .. n - 1 /\ map[stand] = stand
            /\ ~merged[stand].output /\ Signature(merged[stand], map) = Signature(merged[n], map)
        BY <1>3, <3>3 DEF sig
      <4>2. new[stand] = stand /\ stand \in 1 .. n
        BY <1>0, <1>4, <4>1
      <4>3. ~merged[n].output
        BY <4>1 DEF Merges
      <4>4. Signature(merged[stand], new) = Signature(merged[n], new)
        BY <1>0, <1>5, <4>1, <4>2
      <4> QED
        BY <1>0, <2>2, <3>1, <4>1, <4>2, <4>3, <4>4
    <3> QED
      BY <3>2, <3>3
  <2> QED
    BY <2>1, <2>2
<1>8. MapSound(new, n)
  BY <1>6, <1>7 DEF MapSound
<1>9. ASSUME NEW c \in canonical
      PROVE  c.task \in 1 .. n /\ new[c.task] = c.task /\ ~merged[c.task].output
             /\ c.signature = Signature(merged[c.task], new)
  <2>1. CASE c \in acc.canonical
    <3>1. /\ c.task \in 1 .. n - 1 /\ map[c.task] = c.task /\ ~merged[c.task].output
          /\ c.signature = Signature(merged[c.task], map)
      BY <2>1 DEF AccSound, map
    <3>2. c.task \in 1 .. n
      BY <1>0, <3>1
    <3> QED
      BY <1>4, <1>5, <3>1, <3>2
  <2>2. CASE c \notin acc.canonical
    <3>1. merges /\ same = {} /\ c = [task |-> n, signature |-> sig]
      BY <2>2
    <3>2. stand = n /\ c.task = n /\ c.signature = sig
      BY <3>1 DEF stand
    <3>3. n \in 1 .. n
      BY <1>0
    <3> QED
      BY <1>4, <1>5, <3>1, <3>2, <3>3 DEF Merges, sig
  <2> QED
    BY <2>1, <2>2
<1> HIDE DEF canonical
<1> QED
  BY <1>1, <1>4, <1>8, <1>9 DEF AccSound

\* The loop has a result, and it is sound.
LEMMA MappingIsSound ==
  ASSUME MergedTyped
  PROVE  MapSound(Mapping, Len(merged))
<1> DEFINE len == Len(merged)
           none == [map |-> <<>>, canonical |-> {}]
           Loop(f) == f = [n \in 0 .. len |-> IF n = 0 THEN none ELSE MergeTask(f[n - 1], n)]
           acc == CHOOSE f : Loop(f)
           Upon(f, m) == f = [n \in 0 .. m |-> IF n = 0 THEN none ELSE MergeTask(f[n - 1], n)]
           S == {m \in 0 .. len : \E f : Upon(f, m)}
           A == {n \in 0 .. len : AccSound(acc[n], n)}
<1>0. len \in Nat /\ Nodes = 1 .. len
  BY DEF Nodes, MergedTyped
<1>1. 0 \in S
  <2> DEFINE g == [n \in 0 .. 0 |-> none]
  <2>1. Upon(g, 0)
    OBVIOUS
  <2> HIDE DEF g, Upon
  <2> QED
    BY <1>0, <2>1
<1>2. ASSUME NEW m \in 1 .. len, m - 1 \in S PROVE m \in S
  <2>1. PICK f : Upon(f, m - 1)
    BY <1>2
  <2> DEFINE last == MergeTask(f[m - 1], m)
             g == [n \in 0 .. m |-> IF n = m THEN last ELSE f[n]]
  <2>2. \A n \in 0 .. m - 1 : f[n] = IF n = 0 THEN none ELSE MergeTask(f[n - 1], n)
    BY <2>1
  <2> HIDE DEF none
  <2>3. ASSUME NEW n \in 0 .. m PROVE g[n] = IF n = 0 THEN none ELSE MergeTask(g[n - 1], n)
    <3>1. CASE n = m
      <4>1. g[n] = last /\ g[n - 1] = f[m - 1] /\ n # 0
        BY <3>1
      <4> HIDE DEF g
      <4> QED
        BY <3>1, <4>1
    <3>2. CASE n # m
      <4>1. n \in 0 .. m - 1 /\ g[n] = f[n] /\ (n # 0 => g[n - 1] = f[n - 1])
        BY <3>2
      <4> HIDE DEF g
      <4> QED
        BY <2>2, <4>1
    <3> QED
      BY <3>1, <3>2
  <2>4. Upon(g, m)
    <3>1. g = [n \in 0 .. m |-> g[n]]
      OBVIOUS
    <3> HIDE DEF g
    <3> QED
      BY <2>3, <3>1
  <2> HIDE DEF g, Upon
  <2> QED
    BY <2>4
<1>3. len \in S
  <2> HIDE DEF S
  <2>1. 0 .. len \subseteq S
    BY <1>0, <1>1, <1>2, UpTo
  <2> QED
    BY <1>0, <2>1
<1>4. Loop(acc)
  <2>1. \E f : Loop(f)
    BY <1>3
  <2> QED
    BY <2>1
<1>5. Mapping = acc[len].map
  BY DEF Mapping
<1> HIDE DEF acc
<1>6. acc[0] = none /\ \A n \in 1 .. len : acc[n] = MergeTask(acc[n - 1], n)
  <2> HIDE DEF none
  <2>1. \A n \in 0 .. len : acc[n] = IF n = 0 THEN none ELSE MergeTask(acc[n - 1], n)
    BY <1>4, Zenon
  <2> QED
    BY <1>0, <2>1
<1>7. 0 \in A
  <2>1. none.map = <<>> /\ none.canonical = {}
    OBVIOUS
  <2>2. <<>> \in [1 .. 0 -> 1 .. 0] /\ <<>> \in Seq(Nat) /\ Len(<<>>) = 0
    OBVIOUS
  <2>3. MapSound(<<>>, 0)
    BY <2>2 DEF MapSound
  <2> HIDE DEF none
  <2>4. AccSound(none, 0)
    BY <2>1, <2>2, <2>3 DEF AccSound
  <2> QED
    BY <1>0, <1>6, <2>4
<1> HIDE DEF none, Loop
<1>8. ASSUME NEW n \in 1 .. len, n - 1 \in A PROVE n \in A
  BY <1>0, <1>6, <1>8, AccStep
<1>9. len \in A
  <2> HIDE DEF A
  <2>1. 0 .. len \subseteq A
    BY <1>0, <1>7, <1>8, UpTo
  <2> QED
    BY <1>0, <2>1
<1> QED
  BY <1>5, <1>9 DEF AccSound

\* The tasks that are kept after the first k.
LEMMA OrderStep ==
  ASSUME NEW len \in Nat, NEW n \in 1 .. len, NEW map, MapSound(map, len),
         NEW order, OrderInv(order, map, n - 1)
  PROVE  OrderInv(IF map[n] \in ToSet(order) THEN order ELSE Append(order, map[n]), map, n)
<1>1. /\ map \in [1 .. len -> 1 .. len] /\ map[n] <= n /\ map[map[n]] = map[n]
  BY DEF MapSound
<1>2. /\ order \in Seq(1 .. n - 1) /\ order \in Seq(1 .. n)
      /\ \A i, j \in DOMAIN order : i < j => order[i] < order[j]
      /\ ToSet(order) = {m \in 1 .. n - 1 : map[m] = m}
  BY DEF OrderInv
<1>3. CASE map[n] = n
  <2> DEFINE new == Append(order, n)
  <2>1. n \notin ToSet(order)
    BY <1>2
  <2>2. new \in Seq(1 .. n) /\ Len(new) = Len(order) + 1
    BY <1>2
  <2>3. \A i, j \in DOMAIN new : i < j => new[i] < new[j]
    BY <1>2
  <2>4. ToSet(new) = ToSet(order) \cup {n}
    <3>1. /\ DOMAIN new = 1 .. Len(order) + 1 /\ DOMAIN order = 1 .. Len(order) /\ Len(order) \in Nat
          /\ \A i \in 1 .. Len(order) : new[i] = order[i]
          /\ new[Len(order) + 1] = n
      BY <1>2
    <3> HIDE DEF new
    <3> QED
      BY <3>1 DEF ToSet
  <2>5. ToSet(new) = {m \in 1 .. n : map[m] = m}
    BY <1>2, <1>3, <2>4
  <2> HIDE DEF new
  <2>6. OrderInv(new, map, n)
    BY <2>2, <2>3, <2>5 DEF OrderInv
  <2> QED
    BY <1>3, <2>1, <2>6 DEF new
<1>4. CASE map[n] # n
  <2>1. map[n] \in 1 .. n - 1
    BY <1>1, <1>4
  <2>2. map[n] \in ToSet(order)
    BY <1>1, <1>2, <2>1
  <2>3. ToSet(order) = {m \in 1 .. n : map[m] = m}
    BY <1>2, <1>4
  <2> QED
    BY <1>2, <2>2, <2>3 DEF OrderInv
<1> QED
  BY <1>3, <1>4

\* The order of the kept tasks lists each of them once, after the tasks it reads.
LEMMA OrderIsSound ==
  ASSUME MergedTyped, NEW map, MapSound(map, Len(merged))
  PROVE  OrderInv(Order(map), map, Len(merged))
<1> DEFINE len == Len(merged)
           V == Seq(1 .. len)
           none == <<>>
           next(order, n) == IF map[n] \in ToSet(order) THEN order ELSE Append(order, map[n])
           step == [p \in (1 .. len) \X V |-> next(p[2], p[1])]
           Loop(f) == f = [n \in 0 .. len |-> CASE n = 0 -> <<>>
                                             [] n > 0 /\ map[n] \in ToSet(f[n - 1]) -> f[n - 1]
                                             [] OTHER -> Append(f[n - 1], map[n])]
           kept == CHOOSE f : Loop(f)
           A == {n \in 0 .. len : OrderInv(kept[n], map, n)}
<1>0. len \in Nat /\ map \in [1 .. len -> 1 .. len]
  BY DEF MergedTyped, MapSound
<1>1. none \in V /\ \A order \in V : \A n \in 1 .. len : next(order, n) \in V
  <2>1. ASSUME NEW order \in V, NEW n \in 1 .. len PROVE Append(order, map[n]) \in V
    BY <1>0
  <2> HIDE DEF V
  <2>2. none \in V
    BY DEF V
  <2> QED
    BY <2>1, <2>2
<1>2. StepOn(len, V, none, step)
  BY <1>0, <1>1 DEF StepOn
<1>3. \A n \in 1 .. len : \A order \in V : step[<<n, order>>] = next(order, n)
  OBVIOUS
<1>4. PICK g : Iterates(g, len, V, none, step)
  <2> HIDE DEF V, none, step
  <2> QED
    BY <1>2, Iteration
<1>5. Loop(g)
  <2>1. g \in [0 .. len -> V] /\ g[0] = none /\ \A n \in 1 .. len : g[n] = step[<<n, g[n - 1]>>]
    BY <1>4 DEF Iterates
  <2>2. \A n \in 1 .. len : g[n] = next(g[n - 1], n)
    <3> SUFFICES ASSUME NEW n \in 1 .. len PROVE g[n] = next(g[n - 1], n)
      OBVIOUS
    <3> HIDE DEF V, step, next
    <3>1. g[n - 1] \in V /\ g[n] = step[<<n, g[n - 1]>>]
      BY <2>1
    <3> QED
      BY <1>3, <3>1
  <2>3. \A n \in 0 .. len : g[n] = CASE n = 0 -> <<>>
                                   [] n > 0 /\ map[n] \in ToSet(g[n - 1]) -> g[n - 1]
                                   [] OTHER -> Append(g[n - 1], map[n])
    <3> SUFFICES ASSUME NEW n \in 0 .. len
                 PROVE g[n] = CASE n = 0 -> <<>>
                                [] n > 0 /\ map[n] \in ToSet(g[n - 1]) -> g[n - 1]
                                [] OTHER -> Append(g[n - 1], map[n])
      OBVIOUS
    <3> HIDE DEF V, step
    <3>1. CASE n = 0
      BY <2>1, <3>1
    <3>2. CASE n # 0
      <4>1. n \in 1 .. len /\ n > 0
        BY <3>2
      <4> QED
        BY <2>2, <3>2, <4>1
    <3> QED
      BY <3>1, <3>2
  <2>4. g = [n \in 0 .. len |-> g[n]]
    BY <2>1, SMTT(60)
  <2> HIDE DEF V, step, next, none
  <2> QED
    BY <2>3, <2>4
<1>6. Loop(kept)
  <2>1. \E f : Loop(f)
    BY <1>5
  <2> QED
    BY <2>1
<1>7. Order(map) = kept[len]
  BY DEF Order
<1> HIDE DEF kept, V, step, none
<1>8. kept[0] = <<>> /\ \A n \in 1 .. len : kept[n] = next(kept[n - 1], n)
  <2>1. \A n \in 0 .. len : kept[n] = CASE n = 0 -> <<>>
                                      [] n > 0 /\ map[n] \in ToSet(kept[n - 1]) -> kept[n - 1]
                                      [] OTHER -> Append(kept[n - 1], map[n])
    BY <1>6, Zenon
  <2>2. 0 \in 0 .. len /\ \A n \in 1 .. len : n \in 0 .. len /\ n # 0 /\ n > 0
    BY <1>0
  <2> QED
    BY <2>1, <2>2
<1> HIDE DEF Loop
<1>9. 0 \in A
  <2>1. <<>> \in Seq(1 .. 0) /\ DOMAIN <<>> = {} /\ ToSet(<<>>) = {}
    BY DEF ToSet
  <2>2. {n \in 1 .. 0 : map[n] = n} = {}
    OBVIOUS
  <2>3. OrderInv(<<>>, map, 0)
    BY <2>1, <2>2 DEF OrderInv
  <2> HIDE DEF next
  <2> QED
    BY <1>0, <1>8, <2>3
<1>10. ASSUME NEW n \in 1 .. len, n - 1 \in A PROVE n \in A
  <2>1. OrderInv(kept[n - 1], map, n - 1)
    BY <1>10
  <2>2. OrderInv(next(kept[n - 1], n), map, n)
    BY <1>0, <2>1, OrderStep
  <2> QED
    BY <1>8, <2>2
<1>11. len \in A
  <2> HIDE DEF A
  <2>1. 0 .. len \subseteq A
    BY <1>0, <1>9, <1>10, UpTo
  <2> QED
    BY <1>0, <2>1
<1> QED
  BY <1>7, <1>11

-----------------------------------------------------------------------------
\* Nothing is merged at first.
LEMMA DedupeInitInv == DeInit => DedupeInv
<1> SUFFICES ASSUME DeInit PROVE DedupeInv
  OBVIOUS
<1>1. merged = <<>> /\ deduped = <<>>
  BY DEF DeInit
<1>2. MergedTyped
  <2>1. <<>> \in Seq(TaskRecords) /\ DOMAIN <<>> = {}
    OBVIOUS
  <2> QED
    BY <1>1, <2>1 DEF MergedTyped, Nodes
<1> QED
  BY <1>1, <1>2 DEF DedupeInv, DedupedSound

\* A task that is added refers to the tasks before it.
LEMMA AddTaskTyped ==
  ASSUME MergedTyped, NEW t, TaskSound(t, Len(merged) + 1), merged' = Append(merged, t)
  PROVE  MergedTyped'
<1>1. merged \in Seq(TaskRecords) /\ t \in TaskRecords /\ Len(merged) \in Nat
  BY DEF MergedTyped, TaskSound
<1>2. /\ merged' \in Seq(TaskRecords) /\ DOMAIN merged' = 1 .. Len(merged) + 1
      /\ \A n \in 1 .. Len(merged) : merged'[n] = merged[n]
      /\ merged'[Len(merged) + 1] = t
  BY <1>1
<1>3. \A n \in 1 .. Len(merged) + 1 : TaskSound(merged'[n], n)
  <2> SUFFICES ASSUME NEW n \in 1 .. Len(merged) + 1 PROVE TaskSound(merged'[n], n)
    OBVIOUS
  <2>1. CASE n = Len(merged) + 1
    BY <1>2, <2>1
  <2>2. CASE n # Len(merged) + 1
    <3>1. n \in 1 .. Len(merged) /\ n \in Nodes
      BY <1>1, <2>2 DEF Nodes
    <3>2. TaskSound(merged[n], n)
      BY <3>1 DEF MergedTyped
    <3> QED
      BY <1>2, <3>1, <3>2
  <2> QED
    BY <2>1, <2>2
<1> QED
  BY <1>2, <1>3 DEF MergedTyped, Nodes

\* A further task keeps the invariant.
LEMMA AddTaskStep == DedupeInv /\ AddTask => DedupeInv'
<1> SUFFICES ASSUME DedupeInv, AddTask PROVE DedupeInv'
  OBVIOUS
<1> USE DEF TaskRecords, ColumnRecords, Labels
<1> DEFINE len == Len(merged)
<1>0. MergedTyped /\ len \in Nat /\ Nodes = 1 .. len
  BY DEF DedupeInv, MergedTyped, Nodes
<1>1. deduped = <<>> /\ deduped' = deduped
  BY DEF AddTask
<1>2. \E t : TaskSound(t, len + 1) /\ merged' = Append(merged, t)
  <2>1. ASSUME NEW s \in {1, 2},
               merged' = Append(merged, [spec |-> s, cols |-> <<>>, text |-> <<>>, after |-> {}, output |-> FALSE])
        PROVE  \E t : TaskSound(t, len + 1) /\ merged' = Append(merged, t)
    <3> DEFINE t == [spec |-> s, cols |-> <<>>, text |-> <<>>, after |-> {}, output |-> FALSE]
    <3>1. TaskSound(t, len + 1)
      BY DEF TaskSound
    <3> HIDE DEF t, TaskRecords
    <3> QED
      BY <2>1, <3>1 DEF t
  <2>2. ASSUME NEW l \in Word, NEW n \in Nodes, NEW p \in Word \cup {Plain},
               NEW after \in {{}} \cup {{a} : a \in Nodes}, NEW out \in BOOLEAN,
               merged' = Append(merged, [spec |-> 0, cols |-> <<[label |-> l, node |-> n, path |-> p]>>,
                                         text |-> <<l>>, after |-> after, output |-> out])
        PROVE  \E t : TaskSound(t, len + 1) /\ merged' = Append(merged, t)
    <3> DEFINE c == [label |-> l, node |-> n, path |-> p]
               t == [spec |-> 0, cols |-> <<c>>, text |-> <<l>>, after |-> after, output |-> out]
    <3>1. l \in Nat /\ p \in Nat /\ n \in 1 .. len + 1 - 1 /\ n \in Nat /\ after \subseteq 1 .. len + 1 - 1
      BY <1>0 DEF Word, Plain
    <3>2. c \in ColumnRecords /\ c.label = l /\ c.node = n
      BY <3>1
    <3> HIDE DEF c, ColumnRecords
    <3>3. <<c>> \in Seq(ColumnRecords) /\ DOMAIN <<c>> = {1} /\ <<c>>[1] = c
      BY <3>2
    <3>4. <<l>> \in Seq(Nat) /\ DOMAIN <<l>> = {1} /\ <<l>>[1] = l
      BY <3>1
    <3> DEFINE cols == <<c>>
               text == <<l>>
    <3> HIDE DEF cols, text
    <3>5. after \in SUBSET Nat
      BY <1>0, <3>1
    <3>6. TaskSound([spec |-> 0, cols |-> cols, text |-> text, after |-> after, output |-> out], len + 1)
      <4>1. cols \in Seq(ColumnRecords) /\ DOMAIN cols = {1} /\ cols[1] = c
        BY <3>3 DEF cols
      <4>2. text \in Seq(Nat) /\ DOMAIN text = {1} /\ text[1] = l
        BY <3>4 DEF text
      <4> QED
        BY <3>1, <3>2, <3>5, <4>1, <4>2 DEF TaskSound
    <3> QED
      BY <2>2, <3>6 DEF c, cols, text
  <2>3. ASSUME NEW l \in Word, NEW m \in Nodes, NEW n \in Nodes, NEW text \in {<<1, 2>>, <<2, 1>>},
               merged' = Append(merged, [spec |-> 0,
                                         cols |-> <<[label |-> l, node |-> m, path |-> Plain],
                                                    [label |-> 3 - l, node |-> n, path |-> Plain]>>,
                                         text |-> text, after |-> {}, output |-> FALSE])
        PROVE  \E t : TaskSound(t, len + 1) /\ merged' = Append(merged, t)
    <3> DEFINE c == [label |-> l, node |-> m, path |-> Plain]
               d == [label |-> 3 - l, node |-> n, path |-> Plain]
               cols == <<c, d>>
    <3>1. /\ l \in {1, 2} /\ 3 - l \in {1, 2} /\ 3 - l # l /\ Plain \in Nat
          /\ m \in 1 .. len + 1 - 1 /\ n \in 1 .. len + 1 - 1 /\ m \in Nat /\ n \in Nat
      BY <1>0 DEF Word, Plain
    <3>2. c \in ColumnRecords /\ c.label = l /\ c.node = m /\ d \in ColumnRecords /\ d.label = 3 - l /\ d.node = n
      BY <3>1
    <3> HIDE DEF c, d, ColumnRecords
    <3>3. cols \in Seq(ColumnRecords) /\ DOMAIN cols = {1, 2} /\ cols[1] = c /\ cols[2] = d
      BY <3>2
    <3>4. text \in Seq(Nat) /\ DOMAIN text = {1, 2} /\ \A i \in {1, 2} : text[i] \in {1, 2}
      <4>1. CASE text = <<1, 2>>
        BY <4>1
      <4>2. CASE text = <<2, 1>>
        BY <4>2
      <4> QED
        BY <4>1, <4>2
    <3> HIDE DEF cols
    <3>5. TaskSound([spec |-> 0, cols |-> cols, text |-> text, after |-> {}, output |-> FALSE], len + 1)
      BY <3>1, <3>2, <3>3, <3>4 DEF TaskSound
    <3> QED
      BY <2>3, <3>5 DEF c, d, cols
  <2> QED
    BY <2>1, <2>2, <2>3 DEF AddTask
<1>3. MergedTyped'
  BY <1>0, <1>2, AddTaskTyped
<1> QED
  BY <1>1, <1>3 DEF DedupeInv, DedupedSound

\* The deduplication keeps the invariant.
LEMMA DedupeStep == DedupeInv /\ Dedupe => DedupeInv'
<1> SUFFICES ASSUME DedupeInv, Dedupe PROVE DedupeInv'
  OBVIOUS
<1>1. PICK map, order, tasks :
        /\ map = Mapping /\ order = Order(map) /\ tasks = [n \in ToSet(order) |-> Remap(merged[n], map)]
        /\ merged' = merged /\ deduped' = [mapping |-> map, order |-> order, tasks |-> tasks]
  BY Zenon DEF Dedupe
<1>2. MapSound(map, Len(merged)) /\ OrderInv(order, map, Len(merged))
  BY <1>1, MappingIsSound, OrderIsSound DEF DedupeInv
<1>3. DedupedSound'
  <2>1. deduped'.mapping = map /\ deduped'.order = order /\ deduped'.tasks = tasks
    BY <1>1
  <2>2. MapSound(map, Len(merged))'
    BY <1>1, <1>2 DEF MapSound
  <2>3. OrderInv(order, map, Len(merged))'
    BY <1>1, <1>2 DEF OrderInv
  <2>4. tasks = [n \in ToSet(order) |-> Remap(merged'[n], map)]
    BY <1>1
  <2> QED
    BY <2>1, <2>2, <2>3, <2>4 DEF DedupedSound
<1>4. MergedTyped'
  BY <1>1 DEF DedupeInv, MergedTyped, Nodes
<1> QED
  BY <1>3, <1>4 DEF DedupeInv

\* Every step keeps the invariant.
LEMMA DedupeNextInv == DedupeInv /\ [DeNext]_deVars => DedupeInv'
<1> SUFFICES ASSUME DedupeInv, [DeNext]_deVars PROVE DedupeInv'
  OBVIOUS
<1>1. CASE UNCHANGED deVars
  BY <1>1 DEF deVars, DedupeInv, MergedTyped, Nodes, DedupedSound, MapSound, OrderInv
<1>2. CASE DeNext
  BY <1>2, AddTaskStep, DedupeStep DEF DeNext
<1> QED
  BY <1>1, <1>2

-----------------------------------------------------------------------------
\* A task that is kept reads and waits for kept tasks, and they are before it.
LEMMA KeptTasksRun == DedupeInv => DedupedRuns
<1> SUFFICES ASSUME DedupeInv, deduped # <<>>
             PROVE  /\ IsInjective(deduped.order)
                    /\ \A i \in DOMAIN deduped.order :
                         LET t == deduped.tasks[deduped.order[i]]
                         IN  Reads(t) \cup t.after \subseteq {deduped.order[j] : j \in 1 .. i - 1}
  BY DEF DedupedRuns
<1> DEFINE len == Len(merged)
           map == deduped.mapping
           order == deduped.order
<1>0. MergedTyped /\ len \in Nat /\ Nodes = 1 .. len
  BY DEF DedupeInv, MergedTyped, Nodes
<1>1. /\ MapSound(map, len) /\ OrderInv(order, map, len)
      /\ deduped.tasks = [n \in ToSet(order) |-> Remap(merged[n], map)]
  BY DEF DedupeInv, DedupedSound
<1> HIDE DEF map, order
<1>2. /\ order \in Seq(1 .. len) /\ DOMAIN order = 1 .. Len(order) /\ Len(order) \in Nat
      /\ \A i \in DOMAIN order : order[i] \in 1 .. len
      /\ \A i, j \in DOMAIN order : i < j => order[i] < order[j]
      /\ {order[i] : i \in DOMAIN order} = {n \in 1 .. len : map[n] = n}
      /\ \A i \in DOMAIN order : order[i] \in ToSet(order)
  BY <1>1 DEF OrderInv, ToSet
<1>3. IsInjective(order)
  <2>1. ASSUME NEW i \in DOMAIN order, NEW j \in DOMAIN order, order[i] = order[j] PROVE i = j
    <3>1. i \in Nat /\ j \in Nat /\ order[i] \in Nat /\ order[j] \in Nat
      BY <1>2
    <3>2. ~(i < j) /\ ~(j < i)
      BY <1>2, <2>1, <3>1
    <3> QED
      BY <3>1, <3>2
  <2> QED
    BY <2>1 DEF IsInjective
<1>4. ASSUME NEW i \in DOMAIN order, NEW m \in 1 .. order[i] - 1
      PROVE  map[m] \in {order[j] : j \in 1 .. i - 1}
  <2>1. order[i] \in 1 .. len /\ i \in 1 .. Len(order) /\ m \in 1 .. len
    BY <1>2
  <2>2. map[m] \in 1 .. len /\ map[m] <= m /\ map[map[m]] = map[m]
    BY <1>1, <2>1 DEF MapSound
  <2>3. map[m] \in {order[j] : j \in DOMAIN order}
    BY <1>2, <2>2
  <2>4. PICK j \in DOMAIN order : order[j] = map[m]
    BY <2>3
  <2>5. j \in Nat /\ order[j] < order[i]
    BY <1>2, <2>1, <2>2, <2>4
  <2>6. j \in 1 .. i - 1
    <3>1. order[i] \in Nat /\ order[j] \in Nat /\ j \in 1 .. Len(order)
      BY <1>2
    <3>2. ~(i < j) /\ i # j
      BY <1>2, <2>5, <3>1
    <3> QED
      BY <2>1, <3>1, <3>2
  <2> QED
    BY <2>4, <2>6
<1>5. ASSUME NEW i \in DOMAIN order
      PROVE  LET t == deduped.tasks[order[i]]
             IN  Reads(t) \cup t.after \subseteq {order[j] : j \in 1 .. i - 1}
  <2> DEFINE n == order[i]
             s == merged[n]
             t == deduped.tasks[n]
  <2>1. TaskSound(s, n) /\ n \in 1 .. len
    BY <1>0, <1>2 DEF MergedTyped
  <2>2. t = Remap(s, map)
    BY <1>1, <1>2
  <2> HIDE DEF t
  <2>3. s \in TaskRecords
    BY <2>1 DEF TaskSound
  <2> HIDE DEF s, n
  <2>4. /\ t.cols = [k \in DOMAIN s.cols |->
                       [label |-> s.cols[k].label, node |-> map[s.cols[k].node], path |-> s.cols[k].path]]
        /\ t.after = {map[a] : a \in s.after}
    BY <2>2, <2>3, RemapFields
  <2>5. Reads(t) = {map[s.cols[k].node] : k \in DOMAIN s.cols}
    <3>1. DOMAIN t.cols = DOMAIN s.cols /\ \A k \in DOMAIN s.cols : t.cols[k].node = map[s.cols[k].node]
      BY <2>4
    <3> QED
      BY <3>1 DEF Reads
  <2>6. \A m \in 1 .. n - 1 : map[m] \in {order[j] : j \in 1 .. i - 1}
    BY <1>4 DEF n
  <2>7. Reads(t) \subseteq {order[j] : j \in 1 .. i - 1}
    BY <2>1, <2>5, <2>6 DEF TaskSound
  <2>8. t.after \subseteq {order[j] : j \in 1 .. i - 1}
    BY <2>1, <2>4, <2>6 DEF TaskSound
  <2> QED
    BY <2>7, <2>8 DEF t, n
<1> QED
  BY <1>3, <1>5 DEF order

\* An output is merged with nothing.
LEMMA OutputsStayApart == DedupeInv => OutputsApart
<1> SUFFICES ASSUME DedupeInv, deduped # <<>>,
                    NEW m \in Nodes, NEW n \in Nodes, merged[m].output, merged[n].output, m # n
             PROVE  deduped.mapping[m] # deduped.mapping[n]
  BY DEF OutputsApart
<1>1. MapSound(deduped.mapping, Len(merged)) /\ Nodes = 1 .. Len(merged)
  BY DEF DedupeInv, DedupedSound, MergedTyped, Nodes
<1> QED
  BY <1>1 DEF MapSound

-----------------------------------------------------------------------------
(* GraphDedupe: what the tasks show.                                        *)

\* For each word of the text the column that binds it.
Binds(t, at) ==
  /\ at \in [DOMAIN t.text -> DOMAIN t.cols]
  /\ \A i \in DOMAIN t.text : t.cols[at[i]].label = t.text[i]
  /\ \A i, j \in DOMAIN t.cols : t.cols[i].label = t.cols[j].label => i = j

\* A column can be chosen for every label that a task shows.
LEMMA TaskBinds ==
  ASSUME NEW n, NEW t, TaskSound(t, n)
  PROVE  \E at : Binds(t, at)
<1> DEFINE at == [i \in DOMAIN t.text |-> CHOOSE j \in DOMAIN t.cols : t.cols[j].label = t.text[i]]
<1>1. \A i \in DOMAIN t.text : \E j \in DOMAIN t.cols : t.cols[j].label = t.text[i]
  BY DEF TaskSound, Labels
<1>2. \A i \in DOMAIN t.text : at[i] \in DOMAIN t.cols /\ t.cols[at[i]].label = t.text[i]
  <2> SUFFICES ASSUME NEW i \in DOMAIN t.text
               PROVE  at[i] \in DOMAIN t.cols /\ t.cols[at[i]].label = t.text[i]
    OBVIOUS
  <2>1. at[i] = CHOOSE j \in DOMAIN t.cols : t.cols[j].label = t.text[i]
    OBVIOUS
  <2> HIDE DEF at
  <2> QED
    BY <1>1, <2>1
<1>3. at = [i \in DOMAIN t.text |-> at[i]]
  OBVIOUS
<1> HIDE DEF at
<1>4. Binds(t, at)
  BY <1>2, <1>3 DEF Binds, TaskSound
<1> QED
  BY <1>4

\* What is shown are the columns that bind the words.
LEMMA ShownIs ==
  ASSUME NEW t, NEW at, Binds(t, at), NEW value
  PROVE  Shown(t, value) =
           <<t.spec, [i \in DOMAIN t.text |-> <<t.cols[at[i]].path, value[t.cols[at[i]].node]>>]>>
<1>1. ASSUME NEW i \in DOMAIN t.text PROVE Bound(t, t.text[i]) = t.cols[at[i]]
  <2> DEFINE C == {t.cols[j] : j \in DOMAIN t.cols}
  <2>1. at[i] \in DOMAIN t.cols /\ t.cols[at[i]].label = t.text[i]
    BY DEF Binds
  <2>2. \A c \in C : c.label = t.text[i] <=> c = t.cols[at[i]]
    BY <2>1 DEF Binds
  <2>3. t.cols[at[i]] \in C
    BY <2>1
  <2>4. Bound(t, t.text[i]) = CHOOSE c \in C : c.label = t.text[i]
    BY DEF Bound, ToSet
  <2> HIDE DEF C
  <2> QED
    BY <2>2, <2>3, <2>4
<1>2. [i \in DOMAIN t.text |-> <<Bound(t, t.text[i]).path, value[Bound(t, t.text[i]).node]>>] =
      [i \in DOMAIN t.text |-> <<t.cols[at[i]].path, value[t.cols[at[i]].node]>>]
  BY <1>1
<1>3. Shown(t, value) =
        <<t.spec, [i \in DOMAIN t.text |-> <<Bound(t, t.text[i]).path, value[Bound(t, t.text[i]).node]>>]>>
  BY Zenon DEF Shown
<1> QED
  BY <1>2, <1>3, Zenon

\* It depends on what the tasks show that are read.
LEMMA ShownKept ==
  ASSUME NEW n \in Nat, NEW t, TaskSound(t, n), NEW value1, NEW value2,
         \A k \in 1 .. n - 1 : value1[k] = value2[k]
  PROVE  Shown(t, value1) = Shown(t, value2)
<1>1. PICK at : Binds(t, at)
  BY TaskBinds
<1>2. \A i \in DOMAIN t.text : value1[t.cols[at[i]].node] = value2[t.cols[at[i]].node]
  BY <1>1 DEF Binds, TaskSound
<1>3. Shown(t, value1) =
        <<t.spec, [i \in DOMAIN t.text |-> <<t.cols[at[i]].path, value1[t.cols[at[i]].node]>>]>>
  BY <1>1, ShownIs
<1>4. Shown(t, value2) =
        <<t.spec, [i \in DOMAIN t.text |-> <<t.cols[at[i]].path, value2[t.cols[at[i]].node]>>]>>
  BY <1>1, ShownIs
<1> QED
  BY <1>2, <1>3, <1>4

\* A task whose references are renamed shows what it showed, if the renamed tasks do.
LEMMA ShownRemapped ==
  ASSUME NEW n \in Nat, NEW t, TaskSound(t, n), NEW map, NEW value1, NEW value2,
         \A k \in 1 .. n - 1 : value1[map[k]] = value2[k]
  PROVE  Shown(Remap(t, map), value1) = Shown(t, value2)
<1> DEFINE r == Remap(t, map)
<1>1. PICK at : Binds(t, at)
  BY TaskBinds
<1>2. t \in TaskRecords
  BY DEF TaskSound
<1>3. /\ r.spec = t.spec /\ r.text = t.text /\ DOMAIN r.cols = DOMAIN t.cols
      /\ \A j \in DOMAIN t.cols : /\ r.cols[j].label = t.cols[j].label /\ r.cols[j].path = t.cols[j].path
                                  /\ r.cols[j].node = map[t.cols[j].node]
  <2>1. r = [spec |-> t.spec,
             cols |-> [i \in DOMAIN t.cols |->
                        [label |-> t.cols[i].label, node |-> map[t.cols[i].node], path |-> t.cols[i].path]],
             text |-> t.text, after |-> {map[a] : a \in t.after}, output |-> t.output]
    BY <1>2, RemapFields
  <2> HIDE DEF r
  <2> QED
    BY <2>1
<1> HIDE DEF r
<1>4. Binds(r, at)
  BY <1>1, <1>3 DEF Binds
<1>5. Shown(r, value1) =
        <<r.spec, [i \in DOMAIN r.text |-> <<r.cols[at[i]].path, value1[r.cols[at[i]].node]>>]>>
  BY <1>4, ShownIs
<1>6. Shown(t, value2) =
        <<t.spec, [i \in DOMAIN t.text |-> <<t.cols[at[i]].path, value2[t.cols[at[i]].node]>>]>>
  BY <1>1, ShownIs
<1>7. \A i \in DOMAIN t.text : /\ r.cols[at[i]].path = t.cols[at[i]].path
                               /\ value1[r.cols[at[i]].node] = value2[t.cols[at[i]].node]
  <2> SUFFICES ASSUME NEW i \in DOMAIN t.text
               PROVE  /\ r.cols[at[i]].path = t.cols[at[i]].path
                      /\ value1[r.cols[at[i]].node] = value2[t.cols[at[i]].node]
    OBVIOUS
  <2>1. at[i] \in DOMAIN t.cols
    BY <1>1 DEF Binds
  <2>2. t.cols[at[i]].node \in 1 .. n - 1
    BY <2>1 DEF TaskSound
  <2> QED
    BY <1>3, <2>1, <2>2
<1>8. [i \in DOMAIN r.text |-> <<r.cols[at[i]].path, value1[r.cols[at[i]].node]>>] =
      [i \in DOMAIN t.text |-> <<t.cols[at[i]].path, value2[t.cols[at[i]].node]>>]
  BY <1>3, <1>7
<1> QED
  BY <1>3, <1>5, <1>6, <1>8 DEF r

\* What the tasks show can be told, one after the other.
LEMMA MeaningUnfolds ==
  ASSUME MergedTyped
  PROVE  \A n \in Nodes : Meaning[n] = Shown(merged[n], Meaning)
<1> DEFINE len == Len(merged)
           Upon(f, m) == f = [n \in 1 .. m |-> Shown(merged[n], f)]
           S == {m \in 0 .. len : \E f : Upon(f, m)}
<1>0. len \in Nat /\ Nodes = 1 .. len
  BY DEF MergedTyped, Nodes
<1>1. 0 \in S
  <2> DEFINE g == [n \in 1 .. 0 |-> 0]
  <2>1. Upon(g, 0)
    OBVIOUS
  <2> HIDE DEF g, Upon
  <2> QED
    BY <1>0, <2>1
<1>2. ASSUME NEW m \in 1 .. len, m - 1 \in S PROVE m \in S
  <2>1. PICK f : Upon(f, m - 1)
    BY <1>2
  <2> DEFINE last == Shown(merged[m], f)
             g == [n \in 1 .. m |-> IF n = m THEN last ELSE f[n]]
  <2>2. \A n \in 1 .. m - 1 : f[n] = Shown(merged[n], f)
    BY <2>1, Zenon
  <2>3. ASSUME NEW n \in 1 .. m PROVE g[n] = Shown(merged[n], g)
    <3>1. TaskSound(merged[n], n) /\ n \in Nat
      BY <1>0 DEF MergedTyped
    <3>2. \A k \in 1 .. n - 1 : g[k] = f[k]
      OBVIOUS
    <3>3. g[n] = Shown(merged[n], f)
      BY <2>2
    <3> HIDE DEF g
    <3> QED
      BY <3>1, <3>2, <3>3, ShownKept
  <2>4. Upon(g, m)
    <3>1. g = [n \in 1 .. m |-> g[n]]
      OBVIOUS
    <3> HIDE DEF g
    <3> QED
      BY <2>3, <3>1
  <2> HIDE DEF g, Upon
  <2> QED
    BY <2>4
<1>3. len \in S
  <2> HIDE DEF S
  <2>1. 0 .. len \subseteq S
    BY <1>0, <1>1, <1>2, UpTo
  <2> QED
    BY <1>0, <2>1
<1> DEFINE Loop(f) == f = [n \in Nodes |-> Shown(merged[n], f)]
           value == CHOOSE f : Loop(f)
<1>4. Loop(value)
  <2>1. PICK f : Upon(f, len)
    BY <1>3
  <2>2. Loop(f)
    BY <1>0, <2>1
  <2> HIDE DEF Loop
  <2> QED
    BY <2>2
<1>5. Meaning = value
  BY DEF Meaning
<1> HIDE DEF value
<1>6. \A n \in Nodes : value[n] = Shown(merged[n], value)
  BY <1>4, Zenon
<1> QED
  BY <1>5, <1>6

-----------------------------------------------------------------------------
\* Two labels of a task have different places.
LEMMA TokenTellsLabels ==
  ASSUME NEW t \in TaskRecords
  PROVE  \A v, w \in Labels(t) : Token(t, v) = Token(t, w) => v = w
<1> DEFINE L == Labels(t)
           upto(w) == {l \in L : l <= w}
<1>1. IsFiniteSet(L) /\ L \subseteq Nat
  <2> DEFINE f == [i \in DOMAIN t.cols |-> t.cols[i].label]
  <2>0. t.cols \in Seq(ColumnRecords)
    BY DEF TaskRecords
  <2>1. IsFiniteSet(DOMAIN t.cols)
    <3>1. DOMAIN t.cols = 1 .. Len(t.cols) /\ Len(t.cols) \in Nat
      BY <2>0
    <3>2. IsFiniteSet(1 .. Len(t.cols))
      BY <3>1, FS_Interval
    <3> QED
      BY <3>1, <3>2
  <2>2. L = {f[i] : i \in DOMAIN t.cols}
    BY DEF Labels
  <2>3. \A i \in DOMAIN t.cols : t.cols[i].label \in Nat
    <3>1. \A i \in DOMAIN t.cols : t.cols[i] \in ColumnRecords
      BY <2>0
    <3> QED
      BY <3>1 DEF ColumnRecords
  <2>4. L \subseteq Nat
    BY <2>3 DEF Labels
  <2> HIDE DEF f, L
  <2> QED
    BY <2>1, <2>2, <2>4, FiniteImage
<1>2. ASSUME NEW v \in L, NEW w \in L, v < w PROVE Cardinality(upto(v)) # Cardinality(upto(w))
  <2>1. upto(v) \in SUBSET upto(w) /\ upto(w) \in SUBSET L
    BY <1>1, <1>2
  <2>2. w \in upto(w) /\ w \notin upto(v)
    BY <1>1, <1>2
  <2>3. IsFiniteSet(upto(w))
    BY <1>1, <2>1, FS_Subset
  <2> QED
    BY <2>1, <2>2, <2>3, FS_Subset
<1>3. \A w \in L : Token(t, w) = Cardinality(upto(w))
  BY DEF Token
<1> SUFFICES ASSUME NEW v \in L, NEW w \in L, Token(t, v) = Token(t, w) PROVE v = w
  OBVIOUS
<1>4. ~(v < w) /\ ~(w < v)
  BY <1>2, <1>3
<1> QED
  BY <1>1, <1>4

\* The fields of a normal form.
LEMMA NormalizeFields ==
  ASSUME NEW t \in TaskRecords
  PROVE  /\ Normalize(t).spec = t.spec
         /\ Normalize(t).cols = [i \in DOMAIN t.cols |->
              [label |-> Token(t, t.cols[i].label), node |-> t.cols[i].node, path |-> Token(t, t.cols[i].path)]]
         /\ Normalize(t).text = [i \in DOMAIN t.text |-> Token(t, t.text[i])]
<1> DEFINE cols == [i \in DOMAIN t.cols |->
              [label |-> Token(t, t.cols[i].label), node |-> t.cols[i].node, path |-> Token(t, t.cols[i].path)]]
           text == [i \in DOMAIN t.text |-> Token(t, t.text[i])]
<1>1. Normalize(t) = [t EXCEPT !.cols = cols, !.text = text]
  BY DEF Normalize
<1> HIDE DEF cols, text
<1>2. /\ [t EXCEPT !.cols = cols, !.text = text].spec = t.spec
      /\ [t EXCEPT !.cols = cols, !.text = text].cols = cols
      /\ [t EXCEPT !.cols = cols, !.text = text].text = text
  BY DEF TaskRecords
<1> QED
  BY <1>1, <1>2 DEF cols, text

\* Two tasks with one signature whose labels are no other words show the same.
Clean(t) == \A i \in DOMAIN t.cols : t.cols[i].path \notin Labels(t)

\* Two tasks with one signature show the same, whatever values the nodes have.
LEMMA SameSignatureShowsSame ==
  ASSUME NEW s \in TaskRecords, NEW t \in TaskRecords, Clean(s), Clean(t),
         NEW at, Binds(s, at), NEW at2, Binds(t, at2), Normalize(s) = Normalize(t), NEW value
  PROVE  Shown(s, value) = Shown(t, value)
<1>0. /\ \A i \in DOMAIN s.cols : s.cols[i].label \in Labels(s)
      /\ \A i \in DOMAIN t.cols : t.cols[i].label \in Labels(t)
  BY DEF Labels
<1>1. /\ s.spec = t.spec /\ DOMAIN s.cols = DOMAIN t.cols /\ DOMAIN s.text = DOMAIN t.text
      /\ \A i \in DOMAIN s.cols : /\ Token(s, s.cols[i].label) = Token(t, t.cols[i].label)
                                  /\ s.cols[i].node = t.cols[i].node
                                  /\ Token(s, s.cols[i].path) = Token(t, t.cols[i].path)
      /\ \A i \in DOMAIN s.text : Token(s, s.text[i]) = Token(t, t.text[i])
  <2> DEFINE f(r, i) == [label |-> Token(r, r.cols[i].label), node |-> r.cols[i].node,
                         path |-> Token(r, r.cols[i].path)]
  <2>1. s.spec = t.spec
    BY NormalizeFields
  <2>2. [i \in DOMAIN s.cols |-> f(s, i)] = [i \in DOMAIN t.cols |-> f(t, i)]
    BY NormalizeFields
  <2>3. [i \in DOMAIN s.text |-> Token(s, s.text[i])] = [i \in DOMAIN t.text |-> Token(t, t.text[i])]
    BY NormalizeFields
  <2>4. DOMAIN s.text = DOMAIN t.text /\ \A i \in DOMAIN s.text : Token(s, s.text[i]) = Token(t, t.text[i])
    BY <2>3
  <2> HIDE DEF f
  <2>5. DOMAIN s.cols = DOMAIN t.cols /\ \A i \in DOMAIN s.cols : f(s, i) = f(t, i)
    BY <2>2
  <2> USE DEF f
  <2> QED
    BY <2>1, <2>4, <2>5
<1>2. \A i \in DOMAIN s.cols : s.cols[i].path = t.cols[i].path
  BY <1>1 DEF Clean, Token
<1>3. \A i \in DOMAIN s.text : t.cols[at[i]].label = t.text[i]
  <2> SUFFICES ASSUME NEW i \in DOMAIN s.text PROVE t.cols[at[i]].label = t.text[i]
    OBVIOUS
  <2>1. at[i] \in DOMAIN s.cols /\ s.cols[at[i]].label = s.text[i]
    BY DEF Binds
  <2>2. Token(t, t.cols[at[i]].label) = Token(t, t.text[i])
    BY <1>1, <2>1
  <2>3. t.cols[at[i]].label \in Labels(t) /\ t.text[i] \in Labels(t)
    BY <1>0, <1>1, <2>1 DEF Binds
  <2> QED
    BY <2>2, <2>3, TokenTellsLabels
<1>4. Binds(t, at)
  BY <1>1, <1>3 DEF Binds
<1>5. Shown(s, value) =
        <<s.spec, [i \in DOMAIN s.text |-> <<s.cols[at[i]].path, value[s.cols[at[i]].node]>>]>>
  BY ShownIs
<1>6. Shown(t, value) =
        <<t.spec, [i \in DOMAIN t.text |-> <<t.cols[at[i]].path, value[t.cols[at[i]].node]>>]>>
  BY <1>4, ShownIs
<1>7. \A i \in DOMAIN s.text : /\ s.cols[at[i]].path = t.cols[at[i]].path
                               /\ s.cols[at[i]].node = t.cols[at[i]].node
  BY <1>1, <1>2 DEF Binds
<1>8. [i \in DOMAIN s.text |-> <<s.cols[at[i]].path, value[s.cols[at[i]].node]>>] =
      [i \in DOMAIN t.text |-> <<t.cols[at[i]].path, value[t.cols[at[i]].node]>>]
  BY <1>1, <1>7
<1> QED
  BY <1>1, <1>5, <1>6, <1>8

-----------------------------------------------------------------------------
\* A task that is merged away showed what the task shows that stands for it.
LEMMA MergedMeansSame ==
  ASSUME MergedTyped, NEW map, MapSound(map, Len(merged)), \A n \in Nodes : CleanLabels(n)
  PROVE  \A n \in Nodes : Meaning[map[n]] = Meaning[n]
<1> DEFINE len == Len(merged)
           S == {n \in 1 .. len : Meaning[map[n]] = Meaning[n]}
<1>0. len \in Nat /\ Nodes = 1 .. len /\ map \in [1 .. len -> 1 .. len]
  BY DEF MergedTyped, Nodes, MapSound
<1>1. ASSUME NEW n \in 1 .. len PROVE TaskSound(merged[n], n) /\ n \in Nat /\ merged[n] \in TaskRecords
  BY <1>0 DEF MergedTyped, TaskSound
<1>2. ASSUME NEW n \in 1 .. len
      PROVE  LET r == Remap(merged[n], map)
             IN  r \in TaskRecords /\ Clean(r) /\ \E at : Binds(r, at)
  <2> DEFINE t == merged[n]
             r == Remap(t, map)
             cols == [i \in DOMAIN t.cols |->
                        [label |-> t.cols[i].label, node |-> map[t.cols[i].node], path |-> t.cols[i].path]]
             after == {map[a] : a \in t.after}
  <2>1. TaskSound(t, n) /\ t \in TaskRecords
    BY <1>1
  <2>2. PICK at : Binds(t, at)
    BY <2>1, TaskBinds
  <2>3. CleanLabels(n)
    BY <1>0
  <2>4. \A i \in DOMAIN t.cols : t.cols[i].path \notin Labels(t)
    BY <2>3 DEF CleanLabels
  <2>5. r = [spec |-> t.spec, cols |-> cols, text |-> t.text, after |-> after, output |-> t.output]
    BY <2>1, RemapFields
  <2> HIDE DEF t, r
  <2>6. \A i \in DOMAIN t.cols : t.cols[i] \in ColumnRecords /\ map[t.cols[i].node] \in Nat
    BY <1>0, <2>1 DEF TaskSound, TaskRecords
  <2>7. cols \in Seq(ColumnRecords)
    <3>1. DOMAIN t.cols = 1 .. Len(t.cols) /\ Len(t.cols) \in Nat
      BY <2>1 DEF TaskRecords
    <3>2. \A i \in DOMAIN t.cols :
            [label |-> t.cols[i].label, node |-> map[t.cols[i].node], path |-> t.cols[i].path] \in ColumnRecords
      BY <2>6 DEF ColumnRecords
    <3> QED
      BY <3>1, <3>2
  <2>8. after \in SUBSET Nat
    BY <1>0, <2>1 DEF TaskSound
  <2>9. /\ DOMAIN cols = DOMAIN t.cols
        /\ \A i \in DOMAIN t.cols : cols[i].label = t.cols[i].label /\ cols[i].path = t.cols[i].path
    OBVIOUS
  <2> HIDE DEF cols, after
  <2>10. r \in TaskRecords /\ r.cols = cols /\ r.text = t.text
    BY <2>1, <2>5, <2>7, <2>8 DEF TaskRecords
  <2>11. Labels(r) = Labels(t)
    BY <2>9, <2>10 DEF Labels
  <2>12. Clean(r)
    BY <2>4, <2>9, <2>10, <2>11 DEF Clean
  <2>13. Binds(r, at)
    BY <2>2, <2>9, <2>10 DEF Binds
  <2> QED
    BY <2>10, <2>12, <2>13 DEF r, t
<1>3. ASSUME NEW n \in 1 .. len, \A m \in 1 .. len : m < n => m \in S
      PROVE  n \in S
  <2> DEFINE c == map[n]
             s == Remap(merged[c], map)
             r == Remap(merged[n], map)
  <2>1. c \in 1 .. len /\ c <= n
    BY <1>0 DEF MapSound
  <2>2. CASE c = n
    BY <2>2
  <2>3. CASE c # n
    <3>1. Normalize(s) = Normalize(r)
      BY <1>0, <2>3 DEF MapSound, Signature
    <3>2. s \in TaskRecords /\ Clean(s) /\ \E at : Binds(s, at)
      BY <1>2, <2>1
    <3>3. r \in TaskRecords /\ Clean(r) /\ \E at : Binds(r, at)
      BY <1>2
    <3>4. Shown(s, Meaning) = Shown(r, Meaning)
      <4> HIDE DEF s, r
      <4> QED
        BY <3>1, <3>2, <3>3, SameSignatureShowsSame
    <3>5. \A m \in 1 .. n - 1 : Meaning[map[m]] = Meaning[m]
      BY <1>3
    <3>6. Shown(r, Meaning) = Shown(merged[n], Meaning)
      BY <1>1, <3>5, ShownRemapped
    <3>7. \A m \in 1 .. c - 1 : Meaning[map[m]] = Meaning[m]
      BY <2>1, <3>5
    <3>8. Shown(s, Meaning) = Shown(merged[c], Meaning)
      BY <1>1, <2>1, <3>7, ShownRemapped
    <3>9. Meaning[n] = Shown(merged[n], Meaning) /\ Meaning[c] = Shown(merged[c], Meaning)
      BY <1>0, <2>1, MeaningUnfolds
    <3> QED
      BY <3>4, <3>6, <3>8, <3>9
  <2> QED
    BY <2>2, <2>3
<1>4. 1 .. len \subseteq S
  <2> HIDE DEF S
  <2>1. 1 .. len \in SUBSET Nat
    OBVIOUS
  <2> QED
    BY <1>3, <2>1, AllSmaller
<1> QED
  BY <1>0, <1>4

\* The graph that is run shows what the tasks showed before.
LEMMA DedupedShowsSame == DedupeInv => MergedSame
<1> SUFFICES ASSUME DedupeInv, deduped # <<>>, \A n \in Nodes : CleanLabels(n)
             PROVE  \A n \in Nodes : DedupedMeaning[deduped.mapping[n]] = Meaning[n]
  BY DEF MergedSame
<1> DEFINE len == Len(merged)
           map == deduped.mapping
           Kept == {n \in 1 .. len : map[n] = n}
           task(n) == Remap(merged[n], map)
<1>0. MergedTyped /\ len \in Nat /\ Nodes = 1 .. len
  BY DEF DedupeInv, MergedTyped, Nodes
<1>1. MapSound(map, len) /\ deduped.tasks = [n \in Kept |-> task(n)]
  BY DEF DedupeInv, DedupedSound, OrderInv
<1>2. DOMAIN deduped.tasks = Kept /\ \A n \in Kept : deduped.tasks[n] = task(n)
  BY <1>1
<1> HIDE DEF map
<1>3. map \in [1 .. len -> 1 .. len] /\ \A n \in 1 .. len : map[n] <= n /\ map[n] \in Kept
  BY <1>1 DEF MapSound
<1>4. \A n \in 1 .. len : Meaning[map[n]] = Meaning[n]
  BY <1>0, <1>1, MergedMeansSame
<1>5. ASSUME NEW n \in 1 .. len, NEW value, \A m \in 1 .. n - 1 : value[map[m]] = Meaning[m]
      PROVE  Shown(task(n), value) = Meaning[n]
  <2>1. TaskSound(merged[n], n) /\ n \in Nat
    BY <1>0 DEF MergedTyped
  <2>2. Shown(task(n), value) = Shown(merged[n], Meaning)
    BY <1>5, <2>1, ShownRemapped
  <2> QED
    BY <1>0, <2>2, MeaningUnfolds
<1> DEFINE Loop(f) == f = [n \in Kept |-> Shown(task(n), f)]
           value == CHOOSE f : Loop(f)
           g == [n \in Kept |-> Meaning[n]]
<1>6. Loop(g)
  <2>1. \A m \in 1 .. len : g[map[m]] = Meaning[m]
    BY <1>3, <1>4
  <2>2. \A n \in Kept : n \in 1 .. len /\ g[n] = Meaning[n] /\ \A m \in 1 .. n - 1 : m \in 1 .. len
    BY <1>0
  <2>3. g = [n \in Kept |-> g[n]]
    OBVIOUS
  <2> HIDE DEF g, task, Kept
  <2>4. \A n \in Kept : g[n] = Shown(task(n), g)
    BY <1>5, <2>1, <2>2
  <2> QED
    BY <2>3, <2>4
<1>7. Loop(value)
  <2>1. \E f : Loop(f)
    BY <1>6
  <2> QED
    BY <2>1
<1>8. DedupedMeaning = value
  <2>1. \A f : f = [n \in DOMAIN deduped.tasks |-> Shown(deduped.tasks[n], f)] <=> Loop(f)
    <3> SUFFICES ASSUME NEW f
                 PROVE [n \in DOMAIN deduped.tasks |-> Shown(deduped.tasks[n], f)] =
                       [n \in Kept |-> Shown(task(n), f)]
      OBVIOUS
    <3> HIDE DEF task, Kept
    <3> QED
      BY <1>2
  <2>2. DedupedMeaning = CHOOSE f : f = [n \in DOMAIN deduped.tasks |-> Shown(deduped.tasks[n], f)]
    BY DEF DedupedMeaning
  <2> HIDE DEF Loop
  <2> QED
    BY <2>1, <2>2
<1> HIDE DEF value, g
<1>9. \A n \in Kept : value[n] = Shown(task(n), value)
  BY <1>7, Zenon
<1> DEFINE S == {n \in 1 .. len : value[map[n]] = Meaning[n]}
<1>10. ASSUME NEW n \in 1 .. len, \A m \in 1 .. len : m < n => m \in S PROVE n \in S
  <2> DEFINE c == map[n]
  <2>1. c \in 1 .. len /\ c <= n /\ c \in Kept
    BY <1>3
  <2>2. \A m \in 1 .. c - 1 : value[map[m]] = Meaning[m]
    BY <1>10, <2>1
  <2>3. Shown(task(c), value) = Meaning[c]
    <3> HIDE DEF c, task
    <3> QED
      BY <1>5, <2>1, <2>2
  <2>4. value[c] = Meaning[c]
    BY <1>9, <2>1, <2>3
  <2> QED
    BY <1>4, <2>4
<1>11. 1 .. len \subseteq S
  <2> HIDE DEF S
  <2>1. 1 .. len \in SUBSET Nat
    OBVIOUS
  <2> QED
    BY <1>10, <2>1, AllSmaller
<1> QED
  BY <1>0, <1>8, <1>11 DEF map

-----------------------------------------------------------------------------
\* For every batch: after tasks that say the same are merged every task reads and waits for
\* tasks that are run before it, no two outputs are merged, and a task that stands for others
\* shows what they showed, if labels are no other words of the specs (_dedupe_runtime_graph).
THEOREM DeduplicationIsSound == DeSpec => []DedupeSound
<1>1. DeInit => DedupeInv
  BY DedupeInitInv
<1>2. DedupeInv /\ [DeNext]_deVars => DedupeInv'
  BY DedupeNextInv
<1>3. DedupeInv => DedupeSound
  BY KeptTasksRun, OutputsStayApart, DedupedShowsSame DEF DedupeSound
<1> QED
  BY <1>1, <1>2, <1>3, PTL DEF DeSpec

-----------------------------------------------------------------------------
(* RuntimeGraph: the tasks of a workflow.                                   *)

Kinds == Literal \cup Task \cup {"row", "format", "output"}
Modes == {"plain", "rowwise", "aggregate", "image", "bare"}
OpRecords ==
  [kind : Kinds, in : SUBSET Nat, cols : SUBSET Nat, mode : Modes, img : Nat, rows : Nat, cond : Nat]

\* An op after n others reads only those, and it has what its kind needs.
OpSound(op, n) ==
  /\ op \in OpRecords
  /\ op.in \subseteq 1 .. n /\ op.cols \subseteq 1 .. n /\ op.cond \in 0 .. n
  /\ op.kind = "vlm" => op.img \in op.in
  /\ op.kind \in {"emb", "img", "output", "format", "row"} \cup Whole => op.in # {}
  /\ op.mode = "bare" => op.kind = "format"
  /\ op.kind \in Chat /\ op.mode = "rowwise" => op.in = {}
  /\ op.kind = "vlm" /\ op.mode = "rowwise" => op.in = {op.img}
  /\ op.kind \in Chat => op.mode \in {"plain", "rowwise", "aggregate"}
  /\ op.kind = "vlm" => op.mode \in {"plain", "rowwise"}

OpsSound == ops \in Seq(OpRecords) /\ \A i \in DOMAIN ops : OpSound(ops[i], i - 1)

GraphInv == OpsSound /\ (built = <<>> \/ built = Build)

\* The build depends on the ops alone.
LEMMA BuildKept ==
  ASSUME UNCHANGED ops
  PROVE  Build' = Build
<1>1. InGraph' = InGraph
  BY DEF InGraph
<1>2. RowCount' = RowCount
  BY <1>1 DEF RowCount, CountOf
<1>3. \A i : Many(i)' = Many(i) /\ OneItemPerRow(i)' = OneItemPerRow(i)
  BY <1>2 DEF Many, OneItemPerRow
<1>4. \A api : Traces(api)' = Traces(api)
  <2>1. \A i, api : TraceLLM(i, api)' = TraceLLM(i, api)
    BY <1>3 DEF TraceLLM, Nothing
  <2>2. \A i : TraceSource(i)' = TraceSource(i)
    BY <1>3 DEF TraceSource, Nothing
  <2>3. \A i, whole : TraceFormat(i, whole)' = TraceFormat(i, whole)
    BY DEF TraceFormat
  <2>4. \A i, args, api : TraceLambda(i, args, api)' = TraceLambda(i, args, api)
    BY DEF TraceLambda
  <2>5. \A i, tr, api : TraceOf(i, tr, api)' = TraceOf(i, tr, api)
    BY <2>1, <2>2, <2>3, <2>4 DEF TraceOf, Joined, Nothing
  <2> QED
    BY <2>5 DEF Traces
<1>5. \A S, api : TraceAncestors(S, api)' = TraceAncestors(S, api)
  BY <1>4 DEF TraceAncestors, Joined
<1>6. \A C : Columns(C)' = Columns(C) /\ ColumnsOk(C)' = ColumnsOk(C)
  BY <1>1 DEF Columns, ColumnsOk
<1>a. \A i, t : /\ RowwiseReads(i, t)' = RowwiseReads(i, t) /\ AggregateReads(i, t)' = AggregateReads(i, t)
                /\ PromptReads(i, t)' = PromptReads(i, t) /\ Bindable(t)' = Bindable(t)
  BY <1>6 DEF RowwiseReads, AggregateReads, PromptReads, Bindable
<1>b. \A t, deps, refs, py, seen : N(t, deps, refs, py, seen)' = N(t, deps, refs, py, seen)
  BY DEF N
<1>c. \A i, S, name : T(i)' = T(i) /\ Tasks(S)' = Tasks(S) /\ Part(i, name)' = Part(i, name)
  BY DEF T, Part, Tasks
<1>d. /\ \A i : Gate(i)' = Gate(i) /\ GateOk(i)' = GateOk(i)
      /\ \A nodes, gate : Gated(nodes, gate)' = Gated(nodes, gate)
  BY <1>1, <1>3 DEF Gate, GateOk, Gated, T, Part
<1>7. \A i, t : ChatNode(i, t)' = ChatNode(i, t)
  BY <1>6, <1>a, <1>b, <1>c, <1>d DEF ChatNode
<1>8. \A i : EmbeddingNode(i)' = EmbeddingNode(i) /\ ImageNode(i)' = ImageNode(i)
  <2>1. \A i, c, literal, seen : Content(i, c, literal, seen)' = Content(i, c, literal, seen)
    BY <1>3 DEF Content, N, T, Part
  <2>2. \A i : EmbeddingNode(i)' = EmbeddingNode(i)
    BY <2>1 DEF EmbeddingNode
  <2>3. \A i : ImageNode(i)' = ImageNode(i)
    BY <2>1 DEF ImageNode
  <2> QED
    BY <2>2, <2>3
<1>9. \A i, t : VisionNodes(i, t)' = VisionNodes(i, t)
  <2>1. \A i : ImageSource(i)' = ImageSource(i) /\ ImageSourceOk(i)' = ImageSourceOk(i)
    BY DEF ImageSource, ImageSourceOk, T, Part
  <2>2. \A op : PerRow(op)' = PerRow(op)
    BY DEF PerRow
  <2>3. \A f, g : Both(f, g)' = Both(f, g)
    BY DEF Both
  <2>4. \A i, source, refs : Flattened(i, source, refs)' = Flattened(i, source, refs)
    BY DEF Flattened, Both, N, T, Part
  <2> SUFFICES ASSUME NEW i, NEW t PROVE VisionNodes(i, t)' = VisionNodes(i, t)
    OBVIOUS
  <2> DEFINE op == ops[i]
             e == Part(i, "embedding")
             source == ImageSource(i)
             refs == Tasks(IF op.mode = "rowwise" THEN RowwiseReads(i, t) ELSE PromptReads(i, t))
             one == N(T(i), Tasks(t.llms) \cup refs \cup source \cup {e}, refs \cup source \cup {e}, "no",
                      IF op.mode = "rowwise" THEN {} ELSE t.seen)
             nodes == Both(N(e, source, source, "no", {}), IF PerRow(op) THEN Flattened(i, source, refs) ELSE one)
             ok == /\ Bindable(t) /\ ColumnsOk(op.cols) /\ ImageSourceOk(i)
                   /\ op.mode = "rowwise" => op.cols # {}
                   /\ PerRow(op) => \A j \in op.cols :
                        j \in InGraph /\ ops[j].kind \notin Lambda /\ ~ PerRow(ops[j])
  <2>5. refs' = refs /\ source' = source /\ e' = e
    BY <1>a, <1>c, <2>1
  <2>6. one' = one
    BY <1>b, <1>c, <2>5
  <2>7. nodes' = nodes
    BY <1>b, <2>2, <2>3, <2>4, <2>5, <2>6
  <2>8. ok' = ok
    BY <1>1, <1>6, <1>a, <2>1, <2>2
  <2>9. VisionNodes(i, t) = [nodes |-> nodes, seen |-> t.seen \cup {op.img}, ok |-> ok]
    BY Zenon DEF VisionNodes
  <2>10. VisionNodes(i, t)' = [nodes |-> nodes, seen |-> t.seen \cup {op.img}, ok |-> ok]'
    BY Zenon DEF VisionNodes
  <2> HIDE DEF nodes, ok
  <2> QED
    BY <2>7, <2>8, <2>9, <2>10
<1>10. \A i : RetrievalNode(i)' = RetrievalNode(i)
  BY <1>1, <1>3 DEF RetrievalNode, N, T, Part, Tasks
<1>11. \A i : WholeNode(i)' = WholeNode(i) /\ StepNode(i)' = StepNode(i)
  BY <1>3 DEF WholeNode, StepNode, RowsAgree, N, T, Part, Tasks
<1>12. \A i : Node(i)' = Node(i)
  BY <1>5, <1>7, <1>8, <1>9, <1>10, <1>11 DEF Node
<1>13. \A S : StepClosure(S)' = StepClosure(S)
  BY DEF StepClosure
<1>14. Outputs' = Outputs /\ TaskOps' = TaskOps /\ \A o : SourceOf(o)' = SourceOf(o)
  BY <1>1 DEF Outputs, TaskOps, SourceOf
<1>15. \A made : Visited(made)' = Visited(made)
  BY <1>14 DEF Visited
<1>16. \A nodes, seen : Standalone(nodes, seen)' = Standalone(nodes, seen)
  BY <1>1, <1>14 DEF Standalone, Referenced, T, Part
<1>17. \A made : Steps(made)' = Steps(made)
  BY <1>11, <1>13, <1>15, <1>16 DEF Steps, Merged
<1>18. \A nodes : InlinedUnread(nodes)' = InlinedUnread(nodes)
  BY <1>1 DEF InlinedUnread, T, Part
<1>19. OutputsOk' = OutputsOk
  BY <1>14 DEF OutputsOk
<1>20. \A made, nodes : Finished(made, nodes)' = Finished(made, nodes)
  <2>1. \A nodes : Layers(nodes)' = Layers(nodes)
    BY DEF Layers
  <2> QED
    BY <1>1, <1>14, <1>15, <1>18, <1>19, <1>c, <2>1 DEF Finished
<1>21. \A S : Merged(S)' = Merged(S)
  BY DEF Merged
<1>22. \A made : Assembled(made)' = Assembled(made)
  BY <1>20, <1>21 DEF Assembled
<1>23. \A made : WithSteps(made)' = WithSteps(made)
  BY <1>17 DEF WithSteps
<1>24. {Node(i) : i \in TaskOps}' = {Node(i) : i \in TaskOps}
  BY <1>12, <1>14
<1> QED
  BY <1>22, <1>23, <1>24 DEF Build
\* What makes an op sound, field by field.
Fits(n, kind, ins, cols, mode, img) ==
  /\ n \in Nat /\ kind \in Kinds /\ ins \in SUBSET (1 .. n) /\ cols \in SUBSET (1 .. n)
  /\ mode \in Modes /\ img \in Nat
  /\ kind = "vlm" => img \in ins
  /\ kind \in {"emb", "img", "output", "format", "row"} \cup Whole => ins # {}
  /\ mode = "bare" => kind = "format"
  /\ kind \in Chat /\ mode = "rowwise" => ins = {}
  /\ kind = "vlm" /\ mode = "rowwise" => ins = {img}
  /\ kind \in Chat => mode \in {"plain", "rowwise", "aggregate"}
  /\ kind = "vlm" => mode \in {"plain", "rowwise"}

\* An op made of such fields is sound.
LEMMA OpIsSound ==
  ASSUME NEW n, NEW kind, NEW ins, NEW cols, NEW mode, NEW img, NEW count \in Nat,
         Fits(n, kind, ins, cols, mode, img)
  PROVE  OpSound(O(kind, ins, cols, mode, img, count), n)
<1> DEFINE op == O(kind, ins, cols, mode, img, count)
<1>1. ins \in SUBSET Nat /\ cols \in SUBSET Nat
  BY DEF Fits
<1>2. op \in OpRecords
  BY <1>1 DEF O, OpRecords, Fits
<1>3. /\ op.kind = kind /\ op.in = ins /\ op.cols = cols /\ op.mode = mode /\ op.img = img
      /\ op.cond = 0 /\ 0 \in 0 .. n
  BY DEF O, Fits
<1> HIDE DEF op
<1> QED
  BY <1>2, <1>3 DEF OpSound, Fits, op

\* And so it is with a condition on an op before it.
LEMMA GatedIsSound ==
  ASSUME NEW n \in Nat, NEW op, OpSound(op, n), NEW c \in 1 .. n
  PROVE  OpSound([op EXCEPT !.cond = c], n)
<1> DEFINE g == [op EXCEPT !.cond = c]
<1>1. op \in OpRecords /\ c \in 0 .. n /\ c \in Nat
  BY DEF OpSound
<1>2. /\ g \in OpRecords /\ g.cond = c
      /\ g.kind = op.kind /\ g.in = op.in /\ g.cols = op.cols /\ g.mode = op.mode /\ g.img = op.img
  BY <1>1 DEF OpRecords
<1> HIDE DEF g
<1> QED
  BY <1>1, <1>2 DEF OpSound, g

\* The ops that may follow are sound.
LEMMA NewOpsSound ==
  ASSUME OpsSound, NEW op \in NewOps(Len(ops))
  PROVE  OpSound(op, Len(ops))
<1> DEFINE n == Len(ops)
           prior == {i \in 1 .. n : ops[i].kind # "output"}
           few == {{}} \cup Upto(prior, 1)
           prompt == [kind : Chat, in : Upto(prior, 2), cols : {{}}, mode : {"plain"}]
           rowwise == [kind : Chat, in : {{}}, cols : Upto(prior, 2), mode : {"rowwise"}]
           aggregate == [kind : Chat, in : few, cols : Upto(prior, 1), mode : {"aggregate"}]
           chats == {O(p.kind, p.in, p.cols, p.mode, 0, 1) : p \in prompt \cup rowwise \cup aggregate}
           vision == {O("vlm", S \cup {s}, C, m, s, 1) : s \in prior, S \in few, C \in few,
                        m \in {"plain", "rowwise"}}
           used(v) == IF v.mode = "plain" THEN v.cols = {} ELSE v.in = {v.img}
           visions == {v \in vision : used(v)}
           retrs == {O("retr", S, C, "plain", 0, 1) : S \in few, C \in few}
           ones == {O(k, S, {}, "plain", 0, 1) : k \in {"emb", "img", "output"}, S \in Upto(prior, 1)}
           formats == {O("format", S, C \cap S, "plain", 0, 1) : S \in Upto(prior, 2), C \in SUBSET prior}
           bares == {O("format", S, {}, "bare", 0, 1) : S \in Upto(prior, 1)}
           rowLambdas == {O("row", S, {}, m, 0, 1) : S \in Upto(prior, 2), m \in {"plain", "image"}}
           wholes == {O(k, S, {}, "plain", 0, 1) : k \in Whole, S \in Upto(prior, 2)}
           gated == [kind : Chat, in : Upto(prior, 1), cols : {{}}, mode : {"plain"}]
                    \cup [kind : Chat, in : {{}}, cols : Upto(prior, 1), mode : {"rowwise"}]
           gates == {[O(p.kind, p.in, p.cols, p.mode, 0, 1) EXCEPT !.cond = c] : p \in gated, c \in prior}
<1>0. n \in Nat
  BY DEF OpsSound
<1>1. /\ \A S \in few : S \in SUBSET (1 .. n)
      /\ \A S \in Upto(prior, 1) : S \in SUBSET (1 .. n) /\ S # {}
      /\ \A S \in Upto(prior, 2) : S \in SUBSET (1 .. n) /\ S # {}
      /\ {} \in SUBSET (1 .. n)
  BY DEF Upto
<1>2. NewOps(n) = chats \cup gates \cup visions \cup retrs \cup ones \cup formats \cup bares
                    \cup rowLambdas \cup wholes
  BY DEF NewOps
<1>3. op \in NewOps(n)
  OBVIOUS
<1>4. prior \subseteq 1 .. n
  OBVIOUS
<1>k. /\ Chat = {"chat", "api"} /\ Whole = {"list", "aligned"}
      /\ Chat \cup Whole \cup {"vlm", "emb", "img", "retr", "output", "format", "row"} \subseteq Kinds
  BY DEF Chat, Whole, Kinds, Task, LLM
<1> HIDE DEF n, prior, few
<1>5. CASE op \in chats
  <2>1. PICK p \in prompt \cup rowwise \cup aggregate : op = O(p.kind, p.in, p.cols, p.mode, 0, 1)
    BY <1>5
  <2>2. CASE p \in prompt
    <3>1. /\ p.kind \in Chat /\ p.in \in SUBSET (1 .. n) /\ p.cols \in SUBSET (1 .. n) /\ p.mode = "plain"
      BY <1>1, <2>2
    <3>f. Fits(n, p.kind, p.in, p.cols, p.mode, 0)
      BY <1>0, <1>k, <2>1, <3>1 DEF Fits, Modes, n
    <3> QED
      BY <2>1, <3>f, OpIsSound DEF n
  <2>3. CASE p \in rowwise
    <3>1. /\ p.kind \in Chat /\ p.in = {} /\ p.cols \in SUBSET (1 .. n) /\ p.mode = "rowwise"
      BY <1>1, <2>3
    <3>f. Fits(n, p.kind, p.in, p.cols, p.mode, 0)
      BY <1>0, <1>1, <1>k, <2>1, <3>1 DEF Fits, Modes, n
    <3> QED
      BY <2>1, <3>f, OpIsSound DEF n
  <2>4. CASE p \in aggregate
    <3>1. /\ p.kind \in Chat /\ p.in \in SUBSET (1 .. n) /\ p.cols \in SUBSET (1 .. n) /\ p.mode = "aggregate"
      BY <1>1, <2>4
    <3>f. Fits(n, p.kind, p.in, p.cols, p.mode, 0)
      BY <1>0, <1>k, <2>1, <3>1 DEF Fits, Modes, n
    <3> QED
      BY <2>1, <3>f, OpIsSound DEF n
  <2> QED
    BY <2>1, <2>2, <2>3, <2>4
<1>6. CASE op \in visions
  <2>1. PICK s \in prior, S \in few, C \in few, m \in {"plain", "rowwise"} : op = O("vlm", S \cup {s}, C, m, s, 1)
    BY <1>6
  <2>2. S \cup {s} \in SUBSET (1 .. n) /\ C \in SUBSET (1 .. n) /\ s \in Nat /\ s \in S \cup {s}
    BY <1>0, <1>1, <1>4
  <2>3. m = "rowwise" => S \cup {s} = {s}
    BY <1>6, <2>1 DEF O
  <2> HIDE DEF vision, visions, used
  <2>f. Fits(n, "vlm", S \cup {s}, C, m, s)
    BY <1>0, <1>k, <2>1, <2>2, <2>3 DEF Fits, Modes, n
  <2> QED
    BY <2>1, <2>f, OpIsSound DEF n
<1>7. CASE op \in retrs
  <2>1. PICK S \in few, C \in few : op = O("retr", S, C, "plain", 0, 1)
    BY <1>7
  <2>f. Fits(n, "retr", S, C, "plain", 0)
    BY <1>0, <1>1, <1>k, <2>1 DEF Fits, Modes, n
  <2> QED
    BY <2>1, <2>f, OpIsSound DEF n
<1>8. CASE op \in ones
  <2>1. PICK k \in {"emb", "img", "output"}, S \in Upto(prior, 1) : op = O(k, S, {}, "plain", 0, 1)
    BY <1>8
  <2>2. S \in SUBSET (1 .. n) /\ S # {}
    BY <1>1
  <2>f. Fits(n, k, S, {}, "plain", 0)
    BY <1>0, <1>1, <1>k, <2>1, <2>2 DEF Fits, Modes, n
  <2> QED
    BY <2>1, <2>f, OpIsSound DEF n
<1>9. CASE op \in formats
  <2>1. PICK S \in Upto(prior, 2), C \in SUBSET prior : op = O("format", S, C \cap S, "plain", 0, 1)
    BY <1>9
  <2>2. C \cap S \in SUBSET (1 .. n) /\ S \in SUBSET (1 .. n) /\ S # {}
    BY <1>1
  <2>f. Fits(n, "format", S, C \cap S, "plain", 0)
    BY <1>0, <1>k, <2>1, <2>2 DEF Fits, Modes, n
  <2> QED
    BY <2>1, <2>f, OpIsSound DEF n
<1>10. CASE op \in bares
  <2>1. PICK S \in Upto(prior, 1) : op = O("format", S, {}, "bare", 0, 1)
    BY <1>10
  <2>2. S \in SUBSET (1 .. n) /\ S # {}
    BY <1>1
  <2>f. Fits(n, "format", S, {}, "bare", 0)
    BY <1>0, <1>1, <1>k, <2>1, <2>2 DEF Fits, Modes, n
  <2> QED
    BY <2>1, <2>f, OpIsSound DEF n
<1>11. CASE op \in rowLambdas
  <2>1. PICK S \in Upto(prior, 2), m \in {"plain", "image"} : op = O("row", S, {}, m, 0, 1)
    BY <1>11
  <2>2. S \in SUBSET (1 .. n) /\ S # {}
    BY <1>1
  <2>f. Fits(n, "row", S, {}, m, 0)
    BY <1>0, <1>1, <1>k, <2>1, <2>2 DEF Fits, Modes, n
  <2> QED
    BY <2>1, <2>f, OpIsSound DEF n
<1>12. CASE op \in wholes
  <2>1. PICK k \in Whole, S \in Upto(prior, 2) : op = O(k, S, {}, "plain", 0, 1)
    BY <1>12
  <2>2. S \in SUBSET (1 .. n) /\ S # {}
    BY <1>1
  <2>f. Fits(n, k, S, {}, "plain", 0)
    BY <1>0, <1>1, <1>k, <2>1, <2>2 DEF Fits, Modes, n
  <2> QED
    BY <2>1, <2>f, OpIsSound DEF n
<1>13. CASE op \in gates
  <2>1. PICK p \in gated, c \in prior : op = [O(p.kind, p.in, p.cols, p.mode, 0, 1) EXCEPT !.cond = c]
    BY <1>13
  <2>2. /\ p.kind \in Chat /\ p.in \in SUBSET (1 .. n) /\ p.cols \in SUBSET (1 .. n)
        /\ p.mode \in {"plain", "rowwise"} /\ p.mode = "rowwise" => p.in = {}
    BY <1>1, <2>1
  <2>f. Fits(n, p.kind, p.in, p.cols, p.mode, 0)
    BY <1>0, <1>k, <2>2 DEF Fits, Modes, n
  <2>3. OpSound(O(p.kind, p.in, p.cols, p.mode, 0, 1), n)
    BY <2>f, OpIsSound
  <2>4. c \in 1 .. n
    BY <1>4
  <2> QED
    BY <1>0, <2>1, <2>3, <2>4, GatedIsSound DEF n
<1> HIDE DEF chats, gates, visions, retrs, ones, formats, bares, rowLambdas, wholes
<1> QED
  BY <1>2, <1>3, <1>13, <1>5, <1>6, <1>7, <1>8, <1>9, <1>10, <1>11, <1>12 DEF n

\* The first op is an input.
LEMMA GraphInitInv == RGInit => GraphInv
<1> SUFFICES ASSUME RGInit PROVE GraphInv
  OBVIOUS
<1>1. PICK r \in 1 .. 2 : ops = <<O("input", {}, {}, "plain", 0, r)>>
  BY DEF RGInit
<1>2. OpSound(O("input", {}, {}, "plain", 0, r), 0)
  <2>1. Fits(0, "input", {}, {}, "plain", 0)
    BY DEF Fits, Modes, Kinds, Literal, Chat, Whole
  <2> QED
    BY <2>1, OpIsSound
<1>3. ops \in Seq(OpRecords)
  BY <1>1, <1>2 DEF OpSound
<1> QED
  BY <1>1, <1>2, <1>3 DEF RGInit, GraphInv, OpsSound

\* An op more, or the build.
LEMMA GraphNextInv == GraphInv /\ [RGNext]_rgVars => GraphInv'
<1> SUFFICES ASSUME GraphInv, [RGNext]_rgVars PROVE GraphInv'
  OBVIOUS
<1>1. CASE AddOp
  <2>1. PICK op : OpSound(op, Len(ops)) /\ ops' = Append(ops, op) /\ built' = <<>>
    <3>1. CASE \E op \in NewOps(Len(ops)) : ops' = Append(ops, op)
      BY <1>1, <3>1, NewOpsSound DEF AddOp, GraphInv
    <3>2. CASE Len(ops) = 1 /\ \E k \in Literal : ops' = Append(ops, O(k, {}, {}, "plain", 0, 3))
      <4>1. PICK k \in Literal : ops' = Append(ops, O(k, {}, {}, "plain", 0, 3))
        BY <3>2
      <4>2. OpSound(O(k, {}, {}, "plain", 0, 3), Len(ops))
        <5>1. Fits(1, k, {}, {}, "plain", 0)
          BY DEF Fits, Modes, Kinds, Literal, Chat, Whole
        <5> QED
          BY <3>2, <5>1, OpIsSound
      <4> QED
        BY <1>1, <4>1, <4>2 DEF AddOp
    <3> QED
      BY <1>1, <3>1, <3>2 DEF AddOp
  <2>2. OpsSound'
    <3>1. op \in OpRecords
      BY <2>1 DEF OpSound
    <3>2. ops \in Seq(OpRecords) /\ \A i \in 1 .. Len(ops) : OpSound(ops[i], i - 1)
      BY DEF GraphInv, OpsSound
    <3>3. ops' \in Seq(OpRecords) /\ Len(ops') = Len(ops) + 1 /\ Len(ops) \in Nat
      BY <2>1, <3>1, <3>2
    <3>4. \A i \in 1 .. Len(ops) + 1 : OpSound(ops'[i], i - 1)
      BY <2>1, <3>2, <3>3 DEF OpSound
    <3> QED
      BY <3>3, <3>4 DEF OpsSound, OpSound
  <2> QED
    BY <2>1, <2>2 DEF GraphInv
<1>2. CASE Compile
  <2>1. ops' = ops /\ built' = Build
    BY <1>2 DEF Compile
  <2>2. Build' = Build
    BY <2>1, BuildKept
  <2> QED
    BY <2>1, <2>2 DEF GraphInv, OpsSound, OpSound
<1>3. CASE UNCHANGED rgVars
  BY <1>3, BuildKept DEF rgVars, GraphInv, OpsSound, OpSound
<1> QED
  BY <1>1, <1>2, <1>3 DEF RGNext

-----------------------------------------------------------------------------
(* The recursions over the ops.                                             *)

\* An op reads earlier ops.
LEMMA OpReads ==
  ASSUME OpsSound, NEW i \in DOMAIN ops
  PROVE  /\ i \in Nat /\ i >= 1 /\ DOMAIN ops = 1 .. Len(ops) /\ Len(ops) \in Nat
         /\ OpSound(ops[i], i - 1) /\ ops[i].in \subseteq 1 .. i - 1 /\ ops[i].cols \subseteq 1 .. i - 1
         /\ ops[i].cond \in 0 .. i - 1
         /\ 1 .. i - 1 \subseteq DOMAIN ops
BY DEF OpsSound, OpSound

\* The count of an op depends on those of earlier ops.
LEMMA CountLooksBack ==
  ASSUME OpsSound, NEW i \in DOMAIN ops, NEW f, NEW g, \A k \in 1 .. i - 1 : f[k] = g[k]
  PROVE  CountOf(i, f) = CountOf(i, g)
<1> DEFINE over(h, S) == Max({0} \cup {h[j] : j \in S})
<1>1. ASSUME NEW S \in SUBSET (1 .. i - 1) PROVE over(f, S) = over(g, S)
  <2>1. {f[j] : j \in S} = {g[j] : j \in S}
    OBVIOUS
  <2> QED
    BY <2>1
<1>2. /\ ops[i].cols \cap InGraph \in SUBSET (1 .. i - 1)
      /\ ops[i].in \in SUBSET (1 .. i - 1) /\ ops[i].in \ {ops[i].img} \in SUBSET (1 .. i - 1)
  BY OpReads
<1>3. /\ over(f, ops[i].cols \cap InGraph) = over(g, ops[i].cols \cap InGraph)
      /\ over(f, ops[i].in) = over(g, ops[i].in)
      /\ over(f, ops[i].in \ {ops[i].img}) = over(g, ops[i].in \ {ops[i].img})
  BY <1>1, <1>2
<1> QED
  BY <1>3 DEF CountOf

\* So the counts can be told, one after the other.
LEMMA RowCountUnfolds ==
  ASSUME OpsSound
  PROVE  \A i \in DOMAIN ops : RowCount[i] = CountOf(i, RowCount)
<1> DEFINE n == Len(ops)
           Counts(f, m) == f = [i \in 1 .. m |-> CountOf(i, f)]
           S == {m \in 0 .. n : \E f : Counts(f, m)}
<1>0. n \in Nat /\ DOMAIN ops = 1 .. n
  BY DEF OpsSound
<1>1. 0 \in S
  <2> DEFINE g == [i \in 1 .. 0 |-> 0]
  <2>1. Counts(g, 0)
    OBVIOUS
  <2> HIDE DEF g, Counts
  <2> QED
    BY <1>0, <2>1
<1>2. ASSUME NEW m \in 1 .. n, m - 1 \in S PROVE m \in S
  <2>1. PICK f : Counts(f, m - 1)
    BY <1>2
  <2> DEFINE last == CountOf(m, f)
             g == [i \in 1 .. m |-> IF i = m THEN last ELSE f[i]]
  <2>2. \A i \in 1 .. m - 1 : f[i] = CountOf(i, f)
    BY <2>1, Zenon
  <2>3. ASSUME NEW i \in 1 .. m PROVE g[i] = CountOf(i, g)
    <3>1. i \in DOMAIN ops
      BY <1>0
    <3>2. \A k \in 1 .. i - 1 : g[k] = f[k]
      BY <1>0
    <3>3. g[i] = CountOf(i, f)
      BY <2>2
    <3> HIDE DEF g
    <3> QED
      BY <3>1, <3>2, <3>3, CountLooksBack
  <2>4. Counts(g, m)
    <3>1. g = [i \in 1 .. m |-> g[i]]
      OBVIOUS
    <3> HIDE DEF g
    <3> QED
      BY <2>3, <3>1
  <2> HIDE DEF g, Counts
  <2> QED
    BY <2>4
<1>3. n \in S
  <2> HIDE DEF S
  <2>1. 0 .. n \subseteq S
    BY <1>0, <1>1, <1>2, UpTo
  <2> QED
    BY <1>0, <2>1
<1> DEFINE Loop(f) == f = [i \in DOMAIN ops |-> CountOf(i, f)]
           rc == CHOOSE f : Loop(f)
<1>4. Loop(rc)
  <2>1. PICK f : Counts(f, n)
    BY <1>3
  <2>2. Loop(f)
    BY <1>0, <2>1
  <2> HIDE DEF Loop
  <2> QED
    BY <2>2
<1>5. RowCount = rc
  BY DEF RowCount
<1> HIDE DEF rc
<1> QED
  BY <1>4, <1>5, Zenon

\* The trace of an op depends on those of earlier ops.
LEMMA TraceLooksBack ==
  ASSUME OpsSound, NEW i \in DOMAIN ops, NEW f, NEW g, NEW api, \A k \in 1 .. i - 1 : f[k] = g[k]
  PROVE  TraceOf(i, f, api) = TraceOf(i, g, api)
<1>1. {f[j] : j \in ops[i].in \ ops[i].cols} = {g[j] : j \in ops[i].in \ ops[i].cols}
  BY OpReads
<1>2. {f[j] : j \in ops[i].in} = {g[j] : j \in ops[i].in}
  BY OpReads
<1> QED
  BY <1>1, <1>2 DEF TraceOf

\* So the traces can be told, one after the other.
LEMMA TracesUnfold ==
  ASSUME OpsSound, NEW api
  PROVE  \A i \in DOMAIN ops : Traces(api)[i] = TraceOf(i, Traces(api), api)
<1> DEFINE n == Len(ops)
           Traced(f, m) == f = [i \in 1 .. m |-> TraceOf(i, f, api)]
           S == {m \in 0 .. n : \E f : Traced(f, m)}
<1>0. n \in Nat /\ DOMAIN ops = 1 .. n
  BY DEF OpsSound
<1>1. 0 \in S
  <2> DEFINE g == [i \in 1 .. 0 |-> 0]
  <2>1. Traced(g, 0)
    OBVIOUS
  <2> HIDE DEF g, Traced
  <2> QED
    BY <1>0, <2>1
<1>2. ASSUME NEW m \in 1 .. n, m - 1 \in S PROVE m \in S
  <2>1. PICK f : Traced(f, m - 1)
    BY <1>2
  <2> DEFINE last == TraceOf(m, f, api)
             g == [i \in 1 .. m |-> IF i = m THEN last ELSE f[i]]
  <2>2. \A i \in 1 .. m - 1 : f[i] = TraceOf(i, f, api)
    BY <2>1, Zenon
  <2>3. ASSUME NEW i \in 1 .. m PROVE g[i] = TraceOf(i, g, api)
    <3>1. i \in DOMAIN ops
      BY <1>0
    <3>2. \A k \in 1 .. i - 1 : g[k] = f[k]
      BY <1>0
    <3>3. g[i] = TraceOf(i, f, api)
      BY <2>2
    <3> HIDE DEF g
    <3> QED
      BY <3>1, <3>2, <3>3, TraceLooksBack
  <2>4. Traced(g, m)
    <3>1. g = [i \in 1 .. m |-> g[i]]
      OBVIOUS
    <3> HIDE DEF g
    <3> QED
      BY <2>3, <3>1
  <2> HIDE DEF g, Traced
  <2> QED
    BY <2>4
<1>3. n \in S
  <2> HIDE DEF S
  <2>1. 0 .. n \subseteq S
    BY <1>0, <1>1, <1>2, UpTo
  <2> QED
    BY <1>0, <2>1
<1> DEFINE Loop(f) == f = [i \in DOMAIN ops |-> TraceOf(i, f, api)]
           tr == CHOOSE f : Loop(f)
<1>4. Loop(tr)
  <2>1. PICK f : Traced(f, n)
    BY <1>3
  <2>2. Loop(f)
    BY <1>0, <2>1
  <2> HIDE DEF Loop
  <2> QED
    BY <2>2
<1>5. Traces(api) = tr
  BY DEF Traces
<1> HIDE DEF tr
<1> QED
  BY <1>4, <1>5, Zenon

\* What a trace of the ops up to i is made of.
TraceTo(t, i) ==
  /\ t.llms \subseteq 1 .. i /\ t.nodes \subseteq 1 .. i
  /\ t.counts \subseteq {RowCount[j] : j \in 1 .. i}

\* The traces of the ops an op reads, joined, are made of these.
LEMMA JoinedTo ==
  ASSUME NEW i, NEW S, \A t \in S : TraceTo(t, i)
  PROVE  TraceTo(Joined(S), i)
<1>1. /\ Joined(S).llms = UNION {t.llms : t \in S} /\ Joined(S).nodes = UNION {t.nodes : t \in S}
      /\ Joined(S).counts = UNION {t.counts : t \in S}
  BY DEF Joined
<1> QED
  BY <1>1 DEF TraceTo

\* A trace of an op is made of earlier ops and itself.
LEMMA TracesTo ==
  ASSUME OpsSound, NEW api, NEW i \in DOMAIN ops
  PROVE  TraceTo(Traces(api)[i], i)
<1> DEFINE D == DOMAIN ops
           S == {k \in D : TraceTo(Traces(api)[k], k)}
           tr == Traces(api)
<1>0. D \in SUBSET Nat /\ D = 1 .. Len(ops)
  BY DEF OpsSound
<1>1. ASSUME NEW k \in D, \A j \in D : j < k => j \in S PROVE k \in S
  <2>0. k \in Nat /\ 1 .. k - 1 \subseteq D /\ ops[k].in \subseteq 1 .. k - 1 /\ ops[k].cols \subseteq 1 .. k - 1 /\ k \in 1 .. k
    BY OpReads
  <2>1. ASSUME NEW T0 \in SUBSET (1 .. k - 1) PROVE TraceTo(Joined({tr[j] : j \in T0}), k)
    <3>1. \A j \in T0 : TraceTo(tr[j], j) /\ j \in Nat /\ j < k
      BY <1>1, <2>0
    <3>2. \A j \in T0 : TraceTo(tr[j], k)
      BY <2>0, <3>1 DEF TraceTo
    <3>3. \A t \in {tr[j] : j \in T0} : TraceTo(t, k)
      BY <3>2
    <3> QED
      BY <3>3, JoinedTo
  <2>2. tr[k] = TraceOf(k, tr, api)
    BY TracesUnfold
  <2>3. Many(k) \subseteq {RowCount[j] : j \in 1 .. k}
    BY <2>0 DEF Many
  <2>4. TraceTo(TraceLLM(k, api), k)
    BY <2>0, <2>3 DEF TraceTo, TraceLLM, Nothing
  <2>5. TraceTo(TraceSource(k), k)
    BY <2>0, <2>3 DEF TraceTo, TraceSource, Nothing
  <2>6. ASSUME NEW t, TraceTo(t, k), NEW u, u.llms = t.llms, u.counts = t.counts, u.nodes \subseteq t.nodes \cup 1 .. k
        PROVE  TraceTo(u, k)
    BY <2>6 DEF TraceTo
  <2>7. ASSUME NEW T0 \in SUBSET (1 .. k - 1) PROVE TraceTo(TraceFormat(k, Joined({tr[j] : j \in T0})), k)
    <3>1. /\ TraceFormat(k, Joined({tr[j] : j \in T0})).llms = Joined({tr[j] : j \in T0}).llms
          /\ TraceFormat(k, Joined({tr[j] : j \in T0})).counts = Joined({tr[j] : j \in T0}).counts
          /\ TraceFormat(k, Joined({tr[j] : j \in T0})).nodes \subseteq Joined({tr[j] : j \in T0}).nodes \cup 1 .. k
      BY <2>0 DEF TraceFormat, Joined
    <3> QED
      BY <2>1, <2>6, <3>1
  <2>8. ASSUME NEW T0 \in SUBSET (1 .. k - 1) PROVE TraceTo(TraceLambda(k, Joined({tr[j] : j \in T0}), api), k)
    <3>1. /\ TraceLambda(k, Joined({tr[j] : j \in T0}), api).llms = Joined({tr[j] : j \in T0}).llms
          /\ TraceLambda(k, Joined({tr[j] : j \in T0}), api).counts = Joined({tr[j] : j \in T0}).counts
          /\ TraceLambda(k, Joined({tr[j] : j \in T0}), api).nodes = Joined({tr[j] : j \in T0}).nodes
      BY DEF TraceLambda, Joined
    <3> QED
      BY <2>1, <2>6, <3>1
  <2>9. TraceTo([Nothing EXCEPT !.bad = TRUE], k)
    BY DEF TraceTo, Nothing
  <2>10. ops[k].in \in SUBSET (1 .. k - 1) /\ ops[k].in \ ops[k].cols \in SUBSET (1 .. k - 1)
    BY <2>0
  <2>11. TraceTo(TraceOf(k, tr, api), k)
    BY <2>4, <2>5, <2>7, <2>8, <2>9, <2>10 DEF TraceOf
  <2> QED
    BY <2>2, <2>11
<1> HIDE DEF S
<1>2. D \subseteq S
  BY <1>0, <1>1, AllSmaller
<1> QED
  BY <1>2 DEF S

\* A prompt made from earlier ops.
LEMMA PromptTo ==
  ASSUME OpsSound, NEW i \in DOMAIN ops, NEW S \in SUBSET ops[i].in, NEW api
  PROVE  TraceTo(TraceAncestors(S, api), i - 1)
<1>1. ASSUME NEW j \in S PROVE TraceTo(Traces(api)[j], i - 1)
  <2>1. j \in DOMAIN ops /\ j \in 1 .. i - 1 /\ i \in Nat
    BY OpReads
  <2> QED
    BY <2>1, TracesTo DEF TraceTo
<1>2. \A t \in {Traces(api)[j] : j \in S} : TraceTo(t, i - 1)
  BY <1>1
<1> QED
  BY <1>2, JoinedTo DEF TraceAncestors

-----------------------------------------------------------------------------
(* The tasks of an op.                                                      *)

Parts == {"main", "embedding", "flatten", "infer"}
Stage(name) == CASE name = "embedding" -> 0 [] name = "flatten" -> 1 [] name = "infer" -> 2 [] OTHER -> 3

\* The tasks of op i: they name only what they wait for, wait for earlier ops and for those
\* among themselves that come before, and test earlier ops.
TasksOf(i, ns) ==
  /\ T(i) \in DOMAIN ns
  /\ \A t \in DOMAIN ns : \E p \in Parts : t = Part(i, p)
  /\ \A t \in DOMAIN ns :
       /\ ns[t].refs \subseteq ns[t].deps
       /\ \A u \in ns[t].deps : \/ \E j \in 1 .. i - 1 : u = T(j)
                                \/ u \in DOMAIN ns /\ Stage(u[3]) < Stage(t[3])
       /\ \A u \in ns[t].gate : \E j \in 1 .. i - 1 : u = T(j)

\* A task by itself.
LEMMA OneTask ==
  ASSUME NEW i, NEW deps, NEW refs, NEW py, NEW seen, refs \subseteq deps,
         \A u \in deps : \E j \in 1 .. i - 1 : u = T(j)
  PROVE  TasksOf(i, N(T(i), deps, refs, py, seen))
BY DEF TasksOf, N, T, Parts

\* A task by itself, with a condition.
LEMMA GatedTask ==
  ASSUME NEW i, NEW deps, NEW refs, NEW py, NEW seen, NEW gate, refs \subseteq deps,
         \A u \in deps \cup gate : \E j \in 1 .. i - 1 : u = T(j)
  PROVE  TasksOf(i, Gated(N(T(i), deps, refs, py, seen), gate))
<1> DEFINE ns == Gated(N(T(i), deps, refs, py, seen), gate)
<1>1. /\ DOMAIN ns = {T(i)} /\ ns[T(i)].deps = deps /\ ns[T(i)].refs = refs /\ ns[T(i)].gate = gate
  BY DEF Gated, N
<1> HIDE DEF ns
<1> QED
  BY <1>1 DEF TasksOf, T, Parts, ns

\* A condition leaves the inlined ops of a task alone.
LEMMA GatedInlines ==
  ASSUME NEW i, NEW deps, NEW refs, NEW py, NEW inl, NEW gate
  PROVE  LET ns == Gated(N(T(i), deps, refs, py, inl), gate)
         IN T(i) \in DOMAIN ns /\ ns[T(i)].inlines = inl
BY DEF Gated, N

\* What is named by earlier ops are their tasks.
LEMMA TasksBefore ==
  ASSUME NEW i, NEW S, S \subseteq 1 .. i - 1
  PROVE  \A u \in Tasks(S) : \E j \in 1 .. i - 1 : u = T(j)
BY DEF Tasks

\* The task of a chat.
LEMMA ChatTasks ==
  ASSUME OpsSound, NEW i \in DOMAIN ops, NEW t, TraceTo(t, i - 1)
  PROVE  TasksOf(i, ChatNode(i, t).nodes)
<1> DEFINE refs == CASE ops[i].mode = "rowwise" -> RowwiseReads(i, t)
                     [] ops[i].mode = "aggregate" -> AggregateReads(i, t)
                     [] OTHER -> PromptReads(i, t)
           inlined == IF ops[i].mode = "rowwise" THEN {} ELSE t.seen
<1>1. refs \subseteq 1 .. i - 1 /\ t.llms \subseteq 1 .. i - 1
  <2>1. RowwiseReads(i, t) \subseteq 1 .. i - 1
    BY OpReads DEF RowwiseReads, Columns
  <2>2. AggregateReads(i, t) \subseteq 1 .. i - 1
    BY OpReads DEF AggregateReads, Columns, TraceTo
  <2>3. PromptReads(i, t) \subseteq 1 .. i - 1
    BY DEF PromptReads, TraceTo
  <2> QED
    BY <2>1, <2>2, <2>3 DEF TraceTo
<1>2. ChatNode(i, t).nodes = Gated(N(T(i), Tasks(t.llms \cup refs), Tasks(refs), "no", inlined), Gate(i))
  BY DEF ChatNode
<1> HIDE DEF refs, inlined
<1>3. Tasks(refs) \subseteq Tasks(t.llms \cup refs)
  BY DEF Tasks
<1>4. \A u \in Tasks(t.llms \cup refs) : \E j \in 1 .. i - 1 : u = T(j)
  <2>1. t.llms \cup refs \subseteq 1 .. i - 1
    BY <1>1
  <2> QED
    BY <2>1, TasksBefore
<1>5. \A u \in Gate(i) : \E j \in 1 .. i - 1 : u = T(j)
  BY OpReads DEF Gate
<1>6. TasksOf(i, Gated(N(T(i), Tasks(t.llms \cup refs), Tasks(refs), "no", inlined), Gate(i)))
  BY <1>3, <1>4, <1>5, GatedTask
<1> QED
  BY <1>2, <1>6

\* A task with one content.
LEMMA ContentTasks ==
  ASSUME NEW i, NEW c \in 1 .. i - 1, NEW literal, NEW seen
  PROVE  TasksOf(i, Content(i, c, literal, seen).nodes)
<1> DEFINE reads == IF literal THEN {} ELSE {T(c)}
<1>1. Content(i, c, literal, seen).nodes = N(T(i), reads, reads, "no", {})
  BY DEF Content
<1>2. \A u \in reads : \E j \in 1 .. i - 1 : u = T(j)
  OBVIOUS
<1> HIDE DEF reads
<1> QED
  BY <1>1, <1>2, OneTask

\* The task of an embedding op, and that of an image op.
LEMMA EmbeddingTasks ==
  ASSUME OpsSound, NEW i \in DOMAIN ops, ops[i].kind = "emb"
  PROVE  TasksOf(i, EmbeddingNode(i).nodes)
<1> DEFINE c == CHOOSE j \in ops[i].in : TRUE
<1>1. c \in 1 .. i - 1
  BY OpReads DEF OpSound
<1> HIDE DEF c
<1>2. EmbeddingNode(i) = Content(i, c, ops[c].kind \in Literal, {c})
  BY DEF EmbeddingNode, c
<1> QED
  BY <1>1, <1>2, ContentTasks

\* The task of an image generation.
LEMMA ImageTasks ==
  ASSUME OpsSound, NEW i \in DOMAIN ops, ops[i].kind = "img"
  PROVE  TasksOf(i, ImageNode(i).nodes)
<1> DEFINE c == CHOOSE j \in ops[i].in : TRUE
           content == IF ops[c].mode = "bare" THEN CHOOSE j \in ops[c].in : TRUE ELSE c
<1>1. c \in ops[i].in
  BY OpReads DEF OpSound
<1>2. c \in 1 .. i - 1 /\ c \in DOMAIN ops
  BY <1>1, OpReads
<1>3. ImageNode(i) = Content(i, content, ops[content].kind = "input", {c})
  BY DEF ImageNode
<1>4. content \in 1 .. i - 1
  <2>1. CASE ops[c].mode = "bare"
    <3>1. ops[c].in # {}
      BY <1>2, <2>1, OpReads DEF OpSound
    <3>2. content \in ops[c].in
      BY <2>1, <3>1
    <3>3. ops[c].in \subseteq 1 .. c - 1
      BY <1>2, OpReads
    <3> HIDE DEF content
    <3>4. content \in 1 .. c - 1 /\ i \in Nat
      BY <3>2, <3>3, OpReads
    <3> HIDE DEF c
    <3> QED
      BY <3>4, <1>2
  <2>2. CASE ops[c].mode # "bare"
    BY <1>2, <2>2
  <2> QED
    BY <2>1, <2>2
<1> HIDE DEF content, c
<1> QED
  BY <1>3, <1>4, ContentTasks

\* The task of a retrieval, of a whole-column lambda, and of a row lambda of its own.
LEMMA RetrievalTasks ==
  ASSUME OpsSound, NEW i \in DOMAIN ops
  PROVE  TasksOf(i, RetrievalNode(i).nodes)
<1> DEFINE inputs == {j \in ops[i].in : ops[j].kind # "input"}
           params == {j \in ops[i].cols : ops[j].kind # "input"}
<1>1. RetrievalNode(i).nodes = N(T(i), Tasks(inputs \cup params), Tasks(params), "no", {})
  BY DEF RetrievalNode
<1>2. inputs \cup params \subseteq 1 .. i - 1
  BY OpReads
<1>3. Tasks(params) \subseteq Tasks(inputs \cup params)
  BY DEF Tasks
<1> HIDE DEF inputs, params
<1>4. \A u \in Tasks(inputs \cup params) : \E j \in 1 .. i - 1 : u = T(j)
  BY <1>2, TasksBefore
<1>5. TasksOf(i, N(T(i), Tasks(inputs \cup params), Tasks(params), "no", {}))
  BY <1>3, <1>4, OneTask
<1> QED
  BY <1>1, <1>5

\* The task of a whole-column lambda, and the step of a row lambda.
LEMMA LambdaTasks ==
  ASSUME OpsSound, NEW i \in DOMAIN ops
  PROVE  TasksOf(i, WholeNode(i).nodes) /\ TasksOf(i, StepNode(i).nodes)
<1> DEFINE reads == {j \in ops[i].in : ops[j].kind \notin Literal}
<1>1. /\ WholeNode(i).nodes = N(T(i), Tasks(reads), Tasks(reads), ops[i].kind, {})
      /\ StepNode(i).nodes = N(T(i), Tasks(reads), Tasks(reads), "row", {})
  BY DEF WholeNode, StepNode
<1>2. reads \subseteq 1 .. i - 1
  BY OpReads
<1> HIDE DEF reads
<1>3. \A u \in Tasks(reads) : \E j \in 1 .. i - 1 : u = T(j)
  BY <1>2, TasksBefore
<1>4. \A py : TasksOf(i, N(T(i), Tasks(reads), Tasks(reads), py, {}))
  BY <1>3, OneTask
<1> QED
  BY <1>1, <1>4

\* The tasks of a vision op: an embedding before the inference, and per row the flatten,
\* inference and regroup steps one after the other.
LEMMA VisionTasks ==
  ASSUME OpsSound, NEW i \in DOMAIN ops, ops[i].kind = "vlm", NEW t, TraceTo(t, i - 1)
  PROVE  TasksOf(i, VisionNodes(i, t).nodes)
<1> DEFINE e == Part(i, "embedding")
           flat == Part(i, "flatten")
           infer == Part(i, "infer")
           source == ImageSource(i)
           reads == IF ops[i].mode = "rowwise" THEN RowwiseReads(i, t) ELSE PromptReads(i, t)
           refs == Tasks(reads)
           inlined == IF ops[i].mode = "rowwise" THEN {} ELSE t.seen
           one == N(T(i), Tasks(t.llms) \cup refs \cup source \cup {e}, refs \cup source \cup {e}, "no", inlined)
           before == N(e, source, source, "no", {})
           after == IF PerRow(ops[i]) THEN Flattened(i, source, refs) ELSE one
<1>1. VisionNodes(i, t).nodes = Both(before, after)
  BY DEF VisionNodes
<1>2. /\ \A u \in source : \E j \in 1 .. i - 1 : u = T(j)
      /\ \A u \in refs : \E j \in 1 .. i - 1 : u = T(j)
      /\ \A u \in Tasks(t.llms) : \E j \in 1 .. i - 1 : u = T(j)
  <2>1. RowwiseReads(i, t) \subseteq 1 .. i - 1
    BY OpReads DEF RowwiseReads, Columns
  <2>2. PromptReads(i, t) \subseteq 1 .. i - 1
    BY DEF PromptReads, TraceTo
  <2>3. reads \subseteq 1 .. i - 1 /\ t.llms \subseteq 1 .. i - 1
    BY <2>1, <2>2 DEF TraceTo
  <2>4. ops[i].img \in 1 .. i - 1
    BY OpReads DEF OpSound
  <2>5. \A u \in source : u = T(ops[i].img)
    BY DEF ImageSource
  <2> HIDE DEF reads
  <2> QED
    BY <2>3, <2>4, <2>5, TasksBefore
<1>p. /\ e[3] = "embedding" /\ flat[3] = "flatten" /\ infer[3] = "infer" /\ T(i)[3] = "main"
      /\ T(i) = Part(i, "main") /\ e = Part(i, "embedding") /\ flat = Part(i, "flatten") /\ infer = Part(i, "infer")
  BY DEF Part, T
<1>s. /\ Stage("embedding") = 0 /\ Stage("flatten") = 1 /\ Stage("infer") = 2 /\ Stage("main") = 3
      /\ {"main", "embedding", "flatten", "infer"} = Parts
  BY DEF Stage, Parts
<1>d. e # flat /\ e # infer /\ e # T(i) /\ flat # infer /\ flat # T(i) /\ infer # T(i)
  BY <1>p
<1> HIDE DEF refs, source, e, flat, infer
<1>3. CASE PerRow(ops[i])
  <2> DEFINE ns == Both(before, Flattened(i, source, refs))
  <2>1. /\ DOMAIN ns = {e, flat, infer, T(i)}
        /\ ns[e].deps = source /\ ns[e].refs = source
        /\ ns[flat].deps = source \cup refs /\ ns[flat].refs = source \cup refs
        /\ ns[infer].deps = {flat, e} /\ ns[infer].refs = {flat, e}
        /\ ns[T(i)].deps = {infer, flat} \cup source /\ ns[T(i)].refs = {infer, flat} \cup source
        /\ \A u \in DOMAIN ns : ns[u].gate = {}
    BY <1>d DEF Both, Flattened, N, e, flat, infer
  <2> HIDE DEF ns
  <2>2. TasksOf(i, ns)
    BY <1>2, <1>p, <1>s, <2>1 DEF TasksOf
  <2> QED
    BY <1>1, <1>3, <2>2, SMTT(60) DEF ns
<1>4. CASE ~ PerRow(ops[i])
  <2> DEFINE ns == Both(before, one)
  <2>1. /\ DOMAIN ns = {e, T(i)}
        /\ ns[e].deps = source /\ ns[e].refs = source
        /\ ns[T(i)].deps = Tasks(t.llms) \cup refs \cup source \cup {e} /\ ns[T(i)].refs = refs \cup source \cup {e}
        /\ \A u \in DOMAIN ns : ns[u].gate = {}
    BY <1>d DEF Both, N
  <2> HIDE DEF ns
  <2>2. TasksOf(i, ns)
    BY <1>2, <1>p, <1>s, <2>1 DEF TasksOf
  <2> QED
    BY <1>1, <1>4, <2>2 DEF ns
<1> QED
  BY <1>3, <1>4

\* The prompt an LLM op is made from.
PromptOf(i) ==
  IF ops[i].kind = "vlm" THEN TraceAncestors(ops[i].in \ {ops[i].img}, FALSE)
  ELSE TraceAncestors(ops[i].in, ops[i].kind = "api")

\* What is made of an op, by its kind.
LEMMA NodeIs ==
  ASSUME NEW i
  PROVE  /\ ops[i].kind \in Chat => Node(i) = ChatNode(i, PromptOf(i))
         /\ ops[i].kind = "vlm" => Node(i) = VisionNodes(i, PromptOf(i))
         /\ ops[i].kind = "emb" => Node(i) = EmbeddingNode(i)
         /\ ops[i].kind = "img" => Node(i) = ImageNode(i)
         /\ ops[i].kind = "retr" => Node(i) = RetrievalNode(i)
         /\ ops[i].kind \in Whole => Node(i) = WholeNode(i)
BY DEF Node, PromptOf, Chat, Whole

\* The tasks of any op that becomes some.
LEMMA NodeTasks ==
  ASSUME OpsSound, NEW i \in TaskOps
  PROVE  TasksOf(i, Node(i).nodes)
<1>1. i \in DOMAIN ops /\ ops[i].kind \in Task
  BY DEF TaskOps, InGraph
<1>2. TraceTo(PromptOf(i), i - 1)
  BY <1>1, PromptTo DEF PromptOf
<1>4. ops[i].kind \in Chat \cup {"vlm", "emb", "img", "retr"} \cup Whole
  BY <1>1 DEF Task, LLM
<1> QED
  BY <1>1, <1>2, <1>4, NodeIs, ChatTasks, VisionTasks, EmbeddingTasks, ImageTasks, RetrievalTasks, LambdaTasks

-----------------------------------------------------------------------------
(* All tasks of a build.                                                    *)

RowOps == {i \in DOMAIN ops : ops[i].kind = "row"}

\* The python steps are row lambdas, and those they are called for are among them.
LEMMA ClosureSound ==
  ASSUME OpsSound, NEW S \in SUBSET RowOps
  PROVE  S \subseteq StepClosure(S) /\ StepClosure(S) \subseteq RowOps
<1> DEFINE n == Len(ops)
           V == {C \in SUBSET RowOps : S \subseteq C}
           Grown(C) == C \cup {j \in DOMAIN ops : ops[j].kind = "row"
                               /\ \E k \in C : ops[k].kind = "row" /\ j \in ops[k].in}
           step == [p \in (1 .. n) \X V |-> Grown(p[2])]
           Eq(f) == f = [i \in 0 .. n |-> IF i = 0 THEN S ELSE Grown(f[i - 1])]
           cl == CHOOSE f : Eq(f)
<1>0. n \in Nat
  BY DEF OpsSound
<1>1. S \in V /\ \A C \in V : Grown(C) \in V
  BY DEF RowOps
<1>2. \A k \in 1 .. n : \A C \in V : step[<<k, C>>] = Grown(C)
  OBVIOUS
<1>3. step \in [(1 .. n) \X V -> V]
  BY <1>1
<1> HIDE DEF V, step, Grown
<1>4. PICK f : Iterates(f, n, V, S, step)
  BY <1>0, <1>1, <1>3, Iteration DEF StepOn
<1>5. f \in [0 .. n -> V] /\ f[0] = S /\ \A k \in 1 .. n : f[k] = step[<<k, f[k - 1]>>]
  BY <1>4 DEF Iterates
<1>6. \A k \in 1 .. n : f[k - 1] \in V
  BY <1>0, <1>5
<1>7. \A k \in 1 .. n : f[k] = Grown(f[k - 1])
  BY <1>2, <1>5, <1>6
<1>8. Eq(f)
  BY <1>0, <1>5, <1>7
<1>9. Eq(cl)
  BY <1>8
<1> HIDE DEF cl
<1>10. cl[0] = S /\ \A k \in 1 .. n : cl[k] = Grown(cl[k - 1])
  <2>1. \A k \in 0 .. n : cl[k] = IF k = 0 THEN S ELSE Grown(cl[k - 1])
    BY <1>9
  <2> QED
    BY <1>0, <2>1
<1>11. cl[n] \in V
  <2> DEFINE R == {k \in 0 .. n : cl[k] \in V}
  <2>1. 0 \in R /\ \A k \in 1 .. n : k - 1 \in R => k \in R
    BY <1>0, <1>1, <1>10
  <2> HIDE DEF R
  <2>2. 0 .. n \subseteq R
    BY <1>0, <2>1, UpTo
  <2> QED
    BY <1>0, <2>2 DEF R
<1>12. StepClosure(S) = cl[n]
  BY DEF StepClosure, cl, Grown
<1> QED
  BY <1>11, <1>12 DEF V

\* What build makes: the nodes of the ops that are tasks, then the python steps.
FirstMade == {Node(i) : i \in TaskOps}
StepOps == StepClosure(Standalone(Merged({m.nodes : m \in FirstMade}), Visited(FirstMade)))
NodeOps == TaskOps \cup StepOps
OpNode(i) == IF ops[i].kind = "row" THEN StepNode(i) ELSE Node(i)
Made == WithSteps(FirstMade)
AllNodes == Merged({m.nodes : m \in Made})

\* The ops that get a task, and what is made of each.
LEMMA MadeIs ==
  ASSUME OpsSound
  PROVE  /\ Made = {OpNode(i) : i \in NodeOps} /\ NodeOps \subseteq DOMAIN ops
         /\ StepOps \subseteq RowOps
         /\ Standalone(Merged({m.nodes : m \in FirstMade}), Visited(FirstMade)) \subseteq StepOps
         /\ \A i \in TaskOps : OpNode(i) = Node(i)
         /\ \A i \in StepOps : OpNode(i) = StepNode(i)
<1>1. Standalone(Merged({m.nodes : m \in FirstMade}), Visited(FirstMade)) \in SUBSET RowOps
  BY DEF Standalone, RowOps, InGraph
<1>2. /\ Standalone(Merged({m.nodes : m \in FirstMade}), Visited(FirstMade)) \subseteq StepOps
      /\ StepOps \subseteq RowOps
  BY <1>1, ClosureSound DEF StepOps
<1>3. \A i \in TaskOps : ops[i].kind # "row" /\ i \in DOMAIN ops
  BY DEF TaskOps, InGraph, Task, LLM, Chat, Whole
<1>4. \A i \in StepOps : ops[i].kind = "row" /\ i \in DOMAIN ops
  BY <1>2 DEF RowOps
<1>5. Made = {Node(i) : i \in TaskOps} \cup {StepNode(i) : i \in StepOps}
  BY DEF Made, WithSteps, Steps, FirstMade, StepOps
<1>6. (\A i \in TaskOps : OpNode(i) = Node(i)) /\ (\A i \in StepOps : OpNode(i) = StepNode(i))
  BY <1>3, <1>4 DEF OpNode
<1>7. Made = {OpNode(i) : i \in NodeOps}
  <2>1. Made \subseteq {OpNode(i) : i \in NodeOps}
    BY <1>5, <1>6 DEF NodeOps
  <2>2. {OpNode(i) : i \in NodeOps} \subseteq Made
    BY <1>5, <1>6 DEF NodeOps
  <2> QED
    BY <2>1, <2>2
<1> QED
  BY <1>2, <1>3, <1>4, <1>6, <1>7 DEF NodeOps

\* The tasks of each op.
LEMMA OpTasks ==
  ASSUME OpsSound, NEW i \in NodeOps
  PROVE  TasksOf(i, OpNode(i).nodes)
<1>1. CASE i \in TaskOps
  BY <1>1, MadeIs, NodeTasks
<1>2. CASE i \in StepOps
  BY <1>2, MadeIs, LambdaTasks DEF NodeOps
<1> QED
  BY <1>1, <1>2 DEF NodeOps

\* Every task is of one op, and is as that op made it.
LEMMA TaskIsOfOp ==
  ASSUME OpsSound
  PROVE  /\ DOMAIN AllNodes = UNION {DOMAIN OpNode(i).nodes : i \in NodeOps}
         /\ \A t \in DOMAIN AllNodes : /\ t[2] \in NodeOps /\ t \in DOMAIN OpNode(t[2]).nodes
                                      /\ AllNodes[t] = OpNode(t[2]).nodes[t]
                                      /\ t[1] = "own" /\ \E p \in Parts : t = Part(t[2], p)
         /\ \A i \in NodeOps : T(i) \in DOMAIN AllNodes
<1> DEFINE all == {m.nodes : m \in Made}
<1>1. all = {OpNode(i).nodes : i \in NodeOps}
  BY MadeIs
<1>2. DOMAIN AllNodes = UNION {DOMAIN s : s \in all}
  BY DEF AllNodes, Merged
<1>3. DOMAIN AllNodes = UNION {DOMAIN OpNode(i).nodes : i \in NodeOps}
  BY <1>1, <1>2
<1>4. ASSUME NEW i \in NodeOps, NEW t \in DOMAIN OpNode(i).nodes
      PROVE  t[2] = i /\ t[1] = "own" /\ \E p \in Parts : t = Part(i, p)
  <2>1. PICK p \in Parts : t = Part(i, p)
    BY OpTasks DEF TasksOf
  <2> QED
    BY <2>1 DEF Part
<1>5. ASSUME NEW t \in DOMAIN AllNodes
      PROVE  /\ t[2] \in NodeOps /\ t \in DOMAIN OpNode(t[2]).nodes /\ AllNodes[t] = OpNode(t[2]).nodes[t]
             /\ t[1] = "own" /\ \E p \in Parts : t = Part(t[2], p)
  <2>1. PICK i \in NodeOps : t \in DOMAIN OpNode(i).nodes
    BY <1>3
  <2>2. t[2] = i /\ t[1] = "own" /\ \E p \in Parts : t = Part(t[2], p)
    BY <2>1, <1>4
  <2> DEFINE s == CHOOSE r \in all : t \in DOMAIN r
  <2>3. s \in all /\ t \in DOMAIN s
    BY <1>1, <2>1
  <2>4. AllNodes[t] = s[t]
    BY <1>2 DEF AllNodes, Merged
  <2> HIDE DEF s
  <2>5. PICK j \in NodeOps : s = OpNode(j).nodes
    BY <1>1, <2>3
  <2>6. j = i
    BY <1>4, <2>2, <2>3, <2>5
  <2> QED
    BY <2>1, <2>2, <2>4, <2>5, <2>6
<1>6. ASSUME NEW i \in NodeOps PROVE T(i) \in DOMAIN AllNodes
  BY <1>3, OpTasks DEF TasksOf
<1> QED
  BY <1>3, <1>5, <1>6

\* A build that did not raise has checked what Finished lists.
LEMMA Built ==
  ASSUME Build.ok
  PROVE  /\ Build.nodes = AllNodes /\ Build.order = Layers(AllNodes)
         /\ Build.outputs = {T(SourceOf(o)) : o \in Outputs}
         /\ OutputsOk /\ (\A m \in Made : m.ok) /\ InlinedUnread(AllNodes)
         /\ InGraph \subseteq Visited(Made) /\ \E i \in InGraph : ops[i].kind \in Task \cup {"row"}
<1>1. Build = Finished(Made, AllNodes)
  BY DEF Build, Assembled, Made, AllNodes, FirstMade
<1>2. /\ OutputsOk /\ (\A m \in Made : m.ok) /\ InlinedUnread(AllNodes)
      /\ InGraph \subseteq Visited(Made) /\ \E i \in InGraph : ops[i].kind \in Task \cup {"row"}
  BY <1>1 DEF Finished
<1>3. Build = [ok |-> TRUE, nodes |-> AllNodes, order |-> Layers(AllNodes),
               outputs |-> {T(SourceOf(o)) : o \in Outputs}]
  BY <1>1, <1>2 DEF Finished
<1> QED
  BY <1>2, <1>3

\* What a task waits for comes before it: an earlier op, or an earlier task of its own op; and
\* its condition tests an earlier op.
LEMMA TaskWaits ==
  ASSUME OpsSound, NEW t \in DOMAIN AllNodes
  PROVE  /\ AllNodes[t].refs \subseteq AllNodes[t].deps
         /\ \A u \in AllNodes[t].deps :
              \/ u[2] \in 1 .. t[2] - 1 /\ u = T(u[2])
              \/ u \in DOMAIN AllNodes /\ u[2] = t[2] /\ Stage(u[3]) < Stage(t[3])
         /\ \A u \in AllNodes[t].gate : u[2] \in 1 .. t[2] - 1 /\ u = T(u[2])
<1> DEFINE i == t[2]
           ns == OpNode(i).nodes
<1>1. i \in NodeOps /\ t \in DOMAIN ns /\ AllNodes[t] = ns[t]
  BY TaskIsOfOp
<1>2. TasksOf(i, ns) /\ DOMAIN ns \subseteq DOMAIN AllNodes
  BY <1>1, OpTasks, TaskIsOfOp
<1> HIDE DEF ns
<1>3. \A u \in DOMAIN ns : u[2] = i
  BY <1>2 DEF TasksOf, Part
<1>4. \A j \in 1 .. i - 1 : T(j)[2] = j
  BY DEF T, Part
<1> QED
  BY <1>1, <1>2, <1>3, <1>4 DEF TasksOf

\* A task that names or tests an op which runs finds its task.
LEMMA ReferencesAreTasks ==
  ASSUME OpsSound, Build.ok, NEW t \in DOMAIN AllNodes,
         NEW ref \in AllNodes[t].refs \cup AllNodes[t].gate, ref[2] \in Runs
  PROVE  ref \in DOMAIN AllNodes /\ ref \in AllNodes[t].deps \cup AllNodes[t].gate
<1>1. ref \in AllNodes[t].deps \cup AllNodes[t].gate
  BY TaskWaits
<1>2. CASE ref[2] \in 1 .. t[2] - 1 /\ ref = T(ref[2])
  <2>1. ref[2] \in InGraph /\ ops[ref[2]].kind \in Task \cup {"row"}
    BY DEF Runs
  <2>2. CASE ops[ref[2]].kind \in Task
    <3>1. ref[2] \in NodeOps
      BY <2>1, <2>2 DEF NodeOps, TaskOps
    <3> QED
      BY <1>1, <1>2, <3>1, TaskIsOfOp
  <2>3. CASE ops[ref[2]].kind = "row"
    BY <1>1, <1>2, <2>1, <2>3, Built DEF InlinedUnread
  <2> QED
    BY <2>1, <2>2, <2>3
<1> QED
  BY <1>1, <1>2, TaskWaits

-----------------------------------------------------------------------------
(* Layers.                                                                  *)

\* Layers that start empty and take in, step by step, what follows only what they hold.
LayersOf(D, reads, f) ==
  f = [k \in 0 .. Cardinality(D) |->
         IF k = 0 THEN {} ELSE f[k - 1] \cup {n \in D : reads[n] \subseteq f[k - 1]}]

\* There are such layers.
LEMMA LayersCompute ==
  ASSUME NEW D, IsFiniteSet(D), NEW reads
  PROVE  \E f : LayersOf(D, reads, f)
<1> DEFINE n == Cardinality(D)
           grow == [U \in SUBSET D |-> U \cup {m \in D : reads[m] \subseteq U}]
<1>1. n \in Nat
  BY FS_CardinalityType
<1>2. grow \in [SUBSET D -> SUBSET D] /\ \A U \in SUBSET D : grow[U] = U \cup {m \in D : reads[m] \subseteq U}
  OBVIOUS
<1> HIDE DEF grow
<1>3. PICK f : Computes(f, n, D, grow)
  BY <1>1, <1>2, LayersExist
<1> HIDE DEF n
<1>4. f \in [0 .. n -> SUBSET D] /\ f[0] = {} /\ \A k \in 1 .. n : f[k] = grow[f[k - 1]]
  BY <1>3 DEF Computes
<1>5. ASSUME NEW k \in 1 .. n PROVE f[k] = f[k - 1] \cup {m \in D : reads[m] \subseteq f[k - 1]}
  <2>1. f[k - 1] \in SUBSET D
    BY <1>1, <1>4
  <2> QED
    BY <1>2, <1>4, <2>1
<1>6. f = [k \in 0 .. n |-> IF k = 0 THEN {} ELSE f[k - 1] \cup {m \in D : reads[m] \subseteq f[k - 1]}]
  BY <1>1, <1>4, <1>5
<1> QED
  BY <1>6 DEF LayersOf, n

\* They grow, and over an acyclic relation they reach everything.
LEMMA LayersGrow ==
  ASSUME NEW D, IsFiniteSet(D), NEW reads, NEW f, LayersOf(D, reads, f)
  PROVE  /\ Cardinality(D) \in Nat /\ f[0] = {} /\ f \in [0 .. Cardinality(D) -> SUBSET D]
         /\ \A k \in 1 .. Cardinality(D) : f[k] = f[k - 1] \cup {n \in D : reads[n] \subseteq f[k - 1]}
         /\ \A j, k \in 0 .. Cardinality(D) : j <= k => f[j] \subseteq f[k]
         /\ Acyclic(D, reads) /\ (\A n \in D : reads[n] \subseteq D) => f[Cardinality(D)] = D
<1> DEFINE n == Cardinality(D)
<1>1. n \in Nat
  BY FS_CardinalityType
<1>2. f = [k \in 0 .. n |-> IF k = 0 THEN {} ELSE f[k - 1] \cup {m \in D : reads[m] \subseteq f[k - 1]}]
  BY DEF LayersOf
<1> HIDE DEF n
<1>3. f[0] = {} /\ \A k \in 1 .. n : f[k] = f[k - 1] \cup {m \in D : reads[m] \subseteq f[k - 1]}
  <2> DEFINE next(k) == f[k - 1] \cup {m \in D : reads[m] \subseteq f[k - 1]}
  <2>1. \A k \in 0 .. n : f[k] = IF k = 0 THEN {} ELSE next(k)
    BY <1>2
  <2> HIDE DEF next
  <2>2. f[0] = {} /\ \A k \in 1 .. n : f[k] = next(k)
    BY <1>1, <2>1
  <2> QED
    BY <2>2 DEF next
<1>4. \A k \in 0 .. n : f[k] \in SUBSET D
  <2> DEFINE S == {k \in 0 .. n : f[k] \in SUBSET D}
  <2>1. 0 \in S /\ \A k \in 1 .. n : k - 1 \in S => k \in S
    BY <1>1, <1>3
  <2> HIDE DEF S
  <2>2. 0 .. n \subseteq S
    BY <1>1, <2>1, UpTo
  <2> QED
    BY <2>2 DEF S
<1>5. f \in [0 .. n -> SUBSET D]
  <2>1. DOMAIN f = 0 .. n
    BY <1>2
  <2>2. f = [k \in 0 .. n |-> f[k]]
    BY <1>2, <2>1
  <2> QED
    BY <1>4, <2>2
<1>6. ASSUME NEW j \in 0 .. n PROVE \A k \in 0 .. n : j <= k => f[j] \subseteq f[k]
  <2> DEFINE S == {k \in 0 .. n : j <= k => f[j] \subseteq f[k]}
  <2>1. 0 \in S
    BY <1>1
  <2>2. ASSUME NEW k \in 1 .. n, k - 1 \in S PROVE k \in S
    <3>1. f[k - 1] \subseteq f[k]
      BY <1>3
    <3>2. k \in 0 .. n /\ (j <= k => j = k \/ j <= k - 1)
      BY <1>1
    <3> QED
      BY <2>2, <3>1, <3>2
  <2> HIDE DEF S
  <2>3. 0 .. n \subseteq S
    BY <1>1, <2>1, <2>2, UpTo
  <2> QED
    BY <2>3 DEF S
<1>7. ASSUME Acyclic(D, reads), \A m \in D : reads[m] \subseteq D PROVE f[n] = D
  <2> DEFINE none == {}
  <2>1. Layered(D, none, reads, f)
    BY <1>3, <1>5 DEF Layered, n
  <2>2. \A m \in D : reads[m] \subseteq D \cup none
    BY <1>7
  <2> HIDE DEF none
  <2> QED
    BY <1>7, <2>1, <2>2, LayersReachAll DEF n
<1> QED
  BY <1>1, <1>3, <1>5, <1>6, <1>7 DEF n

-----------------------------------------------------------------------------
(* The order of the tasks.                                                  *)

\* Tasks come one after another: by their op, then by their place within it.
Weight(u) == 4 * u[2] + Stage(u[3])
Identifiers == {Part(i, p) : i \in DOMAIN ops, p \in Parts}

\* There are finitely many identifiers, and their weights are numbers.
LEMMA IdentifiersFinite ==
  ASSUME OpsSound
  PROVE  IsFiniteSet(Identifiers) /\ \A u \in Identifiers : Weight(u) \in Nat
<1>1. DOMAIN ops = 1 .. Len(ops) /\ Len(ops) \in Nat
  BY DEF OpsSound
<1>2. IsFiniteSet(DOMAIN ops)
  BY <1>1, FS_Interval
<1>3. IsFiniteSet(Parts)
  <2>1. Parts = {"main"} \cup {"embedding"} \cup {"flatten"} \cup {"infer"}
    BY DEF Parts
  <2>2. IsFiniteSet({"main"}) /\ IsFiniteSet({"embedding"}) /\ IsFiniteSet({"flatten"}) /\ IsFiniteSet({"infer"})
    BY FS_Singleton
  <2> QED
    BY <2>1, <2>2, FS_Union
<1>4. IsFiniteSet((DOMAIN ops) \X Parts)
  BY <1>2, <1>3, FS_Product
<1> DEFINE f == [q \in (DOMAIN ops) \X Parts |-> Part(q[1], q[2])]
<1>5. Identifiers = {f[q] : q \in (DOMAIN ops) \X Parts}
  <2>1. \A i \in DOMAIN ops, p \in Parts : <<i, p>> \in (DOMAIN ops) \X Parts /\ f[<<i, p>>] = Part(i, p)
    OBVIOUS
  <2>2. \A q \in (DOMAIN ops) \X Parts : q[1] \in DOMAIN ops /\ q[2] \in Parts /\ f[q] = Part(q[1], q[2])
    OBVIOUS
  <2> HIDE DEF f
  <2>3. ASSUME NEW u \in Identifiers PROVE u \in {f[q] : q \in (DOMAIN ops) \X Parts}
    <3>1. PICK i \in DOMAIN ops, p \in Parts : u = Part(i, p)
      BY DEF Identifiers
    <3>2. PICK q \in (DOMAIN ops) \X Parts : f[q] = u
      BY <2>1, <3>1
    <3> QED
      BY <3>2
  <2>4. {f[q] : q \in (DOMAIN ops) \X Parts} \subseteq Identifiers
    BY <2>2 DEF Identifiers
  <2> QED
    BY <2>3, <2>4
<1> HIDE DEF f
<1>6. IsFiniteSet(Identifiers)
  BY <1>4, <1>5, FiniteImage
<1>7. ASSUME NEW u \in Identifiers PROVE Weight(u) \in Nat
  <2>1. PICK i \in DOMAIN ops, p \in Parts : u = Part(i, p)
    BY DEF Identifiers
  <2>2. i \in Nat /\ u[2] = i /\ u[3] = p
    BY <1>1, <2>1 DEF Part
  <2>3. Stage(p) \in 0 .. 3
    BY DEF Stage
  <2> QED
    BY <2>2, <2>3 DEF Weight
<1> QED
  BY <1>6, <1>7

\* Where everything read is lighter, nobody waits in a circle.
LEMMA LighterIsAcyclic ==
  ASSUME OpsSound, NEW D \in SUBSET Identifiers, NEW reads,
         \A n \in D : \A u \in reads[n] \cap D : Weight(u) < Weight(n)
  PROVE  Acyclic(D, reads)
<1> SUFFICES ASSUME NEW S \in SUBSET D, S # {} PROVE \E n \in S : reads[n] \cap S = {}
  BY DEF Acyclic
<1>1. {Weight(u) : u \in S} \in SUBSET Nat /\ {Weight(u) : u \in S} # {}
  BY IdentifiersFinite
<1>2. PICK w \in {Weight(u) : u \in S} : \A v \in {Weight(u) : u \in S} : w <= v
  BY <1>1, LeastNatural
<1>3. PICK n \in S : w = Weight(n)
  OBVIOUS
<1>4. ASSUME NEW u \in reads[n] \cap S PROVE FALSE
  <2>1. Weight(u) < Weight(n) /\ Weight(n) <= Weight(u) /\ Weight(u) \in Nat /\ Weight(n) \in Nat
    BY <1>2, <1>3, IdentifiersFinite
  <2> QED
    BY <2>1
<1> QED
  BY <1>4

\* The tasks and what they wait for are identifiers, and what a task waits for is lighter.
LEMMA WaitsAreLighter ==
  ASSUME OpsSound
  PROVE  /\ DOMAIN AllNodes \subseteq Identifiers
         /\ \A t \in DOMAIN AllNodes : \A u \in AllNodes[t].deps \cup AllNodes[t].gate :
              u \in Identifiers /\ Weight(u) < Weight(t)
<1>1. DOMAIN AllNodes \subseteq Identifiers
  <2> SUFFICES ASSUME NEW t \in DOMAIN AllNodes PROVE t \in Identifiers
    OBVIOUS
  <2>1. t[2] \in DOMAIN ops /\ \E p \in Parts : t = Part(t[2], p)
    BY TaskIsOfOp, MadeIs
  <2> QED
    BY <2>1 DEF Identifiers
<1>2. ASSUME NEW t \in DOMAIN AllNodes, NEW u \in AllNodes[t].deps \cup AllNodes[t].gate
      PROVE  u \in Identifiers /\ Weight(u) < Weight(t)
  <2>1. t[2] \in DOMAIN ops /\ t[2] \in Nat /\ 1 .. t[2] - 1 \subseteq DOMAIN ops
    BY TaskIsOfOp, MadeIs, OpReads
  <2>2. Stage(t[3]) \in 0 .. 3 /\ Stage(u[3]) \in 0 .. 3
    BY DEF Stage
  <2>3. CASE u[2] \in 1 .. t[2] - 1 /\ u = T(u[2])
    <3>1. u \in Identifiers
      BY <2>1, <2>3 DEF Identifiers, T, Parts
    <3> QED
      BY <2>1, <2>2, <2>3, <3>1 DEF Weight
  <2>4. CASE u \in DOMAIN AllNodes /\ u[2] = t[2] /\ Stage(u[3]) < Stage(t[3])
    BY <1>1, <2>1, <2>2, <2>4 DEF Weight
  <2> QED
    BY <2>3, <2>4, TaskWaits
<1> QED
  BY <1>1, <1>2

\* Every task can start after the tasks it waits for.
LEMMA TasksCanStart ==
  ASSUME OpsSound, Build.ok, built = Build
  PROVE  AllTasksStart
<1> DEFINE D == DOMAIN built.nodes
           n == Cardinality(D)
           reads == [t \in D |-> DependsOn(built, t)]
           Eq(f) == f = [k \in 0 .. n |->
                           IF k = 0 THEN {} ELSE f[k - 1] \cup {t \in D : DependsOn(built, t) \subseteq f[k - 1]}]
           done == CHOOSE f : Eq(f)
<1>1. built.nodes = AllNodes
  BY Built
<1>2. D \in SUBSET Identifiers /\ IsFiniteSet(D)
  BY <1>1, WaitsAreLighter, IdentifiersFinite, FS_Subset
<1>3. \A t \in D : reads[t] = DependsOn(built, t) /\ reads[t] = (AllNodes[t].deps \cup AllNodes[t].gate) \cap D
  BY <1>1 DEF DependsOn
<1> HIDE DEF D, reads
<1>4. \A t \in D : \A u \in reads[t] \cap D : Weight(u) < Weight(t)
  BY <1>1, <1>3, WaitsAreLighter DEF D
<1>5. Acyclic(D, reads) /\ \A t \in D : reads[t] \subseteq D
  BY <1>2, <1>3, <1>4, LighterIsAcyclic
<1>6. \A U : {t \in D : DependsOn(built, t) \subseteq U} = {t \in D : reads[t] \subseteq U}
  BY <1>3
<1>7. \A f : Eq(f) <=> LayersOf(D, reads, f)
  BY <1>6 DEF LayersOf
<1>8. Eq(done)
  <2>1. \E f : Eq(f)
    BY <1>2, <1>7, LayersCompute, ZenonT(60)
  <2> HIDE DEF Eq
  <2> QED
    BY <2>1
<1> HIDE DEF done, Eq
<1>9. done[n] = D
  BY <1>2, <1>5, <1>7, <1>8, LayersGrow
<1> QED
  BY <1>9 DEF AllTasksStart, done, Eq, n, D

\* topological_order lists every task, after what it waits for.
LEMMA TasksAreOrdered ==
  ASSUME OpsSound, Build.ok, built = Build
  PROVE  OrderSound
<1> DEFINE D == DOMAIN AllNodes
           ids == D \cup UNION {AllNodes[t].deps : t \in D}
           n == Cardinality(ids)
           waits(t) == IF t \in DOMAIN AllNodes THEN AllNodes[t].deps ELSE {}
           reads == [t \in ids |-> waits(t)]
           Eq(f) == f = [k \in 0 .. n |->
                           IF k = 0 THEN {} ELSE f[k - 1] \cup {t \in ids : waits(t) \subseteq f[k - 1]}]
           done == CHOOSE f : Eq(f)
           order == [k \in 1 .. n |-> (done[k] \ done[k - 1]) \cap D]
<1>1. built.nodes = AllNodes /\ built.order = order
  BY Built DEF Layers
<1>2. ids \in SUBSET Identifiers /\ IsFiniteSet(ids)
  BY WaitsAreLighter, IdentifiersFinite, FS_Subset
<1>3. \A t \in ids : reads[t] = waits(t)
  OBVIOUS
<1>d. D \subseteq ids /\ \A t \in D : AllNodes[t].deps \subseteq ids /\ reads[t] = AllNodes[t].deps
  OBVIOUS
<1>w. \A t \in ids : t \notin D => reads[t] = {}
  OBVIOUS
<1> HIDE DEF ids, reads
<1>4. \A t \in ids : \A u \in reads[t] \cap ids : Weight(u) < Weight(t)
  BY <1>d, <1>w, WaitsAreLighter
<1>5. Acyclic(ids, reads) /\ \A t \in ids : reads[t] \subseteq ids
  BY <1>2, <1>4, <1>d, <1>w, LighterIsAcyclic
<1>6. \A U : {t \in ids : waits(t) \subseteq U} = {t \in ids : reads[t] \subseteq U}
  BY <1>3
<1>7. \A f : Eq(f) <=> LayersOf(ids, reads, f)
  BY <1>6 DEF LayersOf
<1>8. Eq(done)
  <2>1. \E f : Eq(f)
    BY <1>2, <1>7, LayersCompute
  <2> HIDE DEF Eq
  <2> QED
    BY <2>1
<1> HIDE DEF done, Eq, waits
<1>9. /\ n \in Nat /\ done[0] = {} /\ done \in [0 .. n -> SUBSET ids] /\ done[n] = ids
      /\ \A k \in 1 .. n : done[k] = done[k - 1] \cup {t \in ids : reads[t] \subseteq done[k - 1]}
      /\ \A j, k \in 0 .. n : j <= k => done[j] \subseteq done[k]
  BY <1>2, <1>5, <1>7, <1>8, LayersGrow
<1> HIDE DEF D, n
<1>10. DOMAIN order = 1 .. n /\ \A k \in 1 .. n : order[k] = (done[k] \ done[k - 1]) \cap D
  OBVIOUS
<1>11. ASSUME NEW t \in D PROVE \E k \in 1 .. n : t \in order[k]
  <2> DEFINE S == {k \in 0 .. n : t \in done[k]}
  <2>1. S \in SUBSET Nat /\ S # {}
    BY <1>9, <1>d
  <2>2. PICK k \in S : \A j \in S : k <= j
    BY <2>1, LeastNatural
  <2>3. k \in 1 .. n /\ t \in done[k]
    BY <1>9
  <2>4. t \notin done[k - 1]
    BY <1>9, <2>2, <2>3
  <2> QED
    BY <1>10, <2>3, <2>4
<1>12. UNION Range(order) = D
  <2>1. Range(order) = {order[k] : k \in 1 .. n}
    BY <1>10 DEF Range
  <2>2. \A k \in 1 .. n : order[k] \subseteq D
    BY <1>10
  <2> HIDE DEF order
  <2>3. UNION {order[k] : k \in 1 .. n} = D
    BY <1>11, <2>2
  <2> QED
    BY <2>1, <2>3
<1>13. ASSUME NEW j \in 1 .. n, NEW k \in 1 .. n, NEW t \in order[j], NEW u \in order[k], t \in AllNodes[u].deps
       PROVE  j < k
  <2>1. t \notin done[j - 1] /\ u \in done[k] /\ u \notin done[k - 1] /\ u \in D
    BY <1>10
  <2>2. t \in done[k - 1]
    BY <1>9, <1>13, <1>d, <2>1
  <2>3. k - 1 \in 0 .. n /\ j - 1 \in 0 .. n
    BY <1>9
  <2>4. ~ (k - 1 <= j - 1)
    BY <1>9, <2>1, <2>2, <2>3
  <2> QED
    BY <1>9, <2>4
<1> HIDE DEF order
<1> QED
  BY <1>1, <1>10, <1>12, <1>13 DEF OrderSound, D

\* Every output has its task.
LEMMA OutputsAreTasks ==
  ASSUME OpsSound, Build.ok
  PROVE  Build.outputs \subseteq DOMAIN AllNodes
<1> SUFFICES ASSUME NEW o \in Outputs PROVE T(SourceOf(o)) \in DOMAIN AllNodes
  BY Built
<1>1. o \in DOMAIN ops /\ ops[o].kind = "output"
  BY DEF Outputs
<1>2. ops[o].in # {} /\ ops[o].in \subseteq DOMAIN ops
  BY <1>1, OpReads DEF OpSound
<1>3. SourceOf(o) \in ops[o].in
  BY <1>2 DEF SourceOf
<1>4. SourceOf(o) \in InGraph
  BY <1>1, <1>2, <1>3 DEF InGraph
<1>5. ops[SourceOf(o)].kind \in Task \cup {"row"}
  BY Built DEF OutputsOk, Task, Lambda
<1>6. CASE ops[SourceOf(o)].kind \in Task
  BY <1>4, <1>6, TaskIsOfOp DEF NodeOps, TaskOps
<1>7. CASE ops[SourceOf(o)].kind = "row"
  <2>1. SourceOf(o) \in Standalone(Merged({m.nodes : m \in FirstMade}), Visited(FirstMade))
    BY <1>4, <1>7 DEF Standalone
  <2>2. SourceOf(o) \in NodeOps
    BY <2>1, MadeIs DEF NodeOps
  <2> QED
    BY <2>2, TaskIsOfOp
<1> QED
  BY <1>5, <1>6, <1>7

\* A graph that was built has a task.
LEMMA SomeTask ==
  ASSUME OpsSound, Build.ok
  PROVE  DOMAIN AllNodes # {}
<1>1. PICK i \in InGraph : ops[i].kind \in Task \cup {"row"}
  BY Built
<1>2. CASE TaskOps # {}
  BY <1>2, TaskIsOfOp DEF NodeOps
<1>3. CASE TaskOps = {}
  <2>1. ops[i].kind = "row"
    BY <1>1, <1>3 DEF TaskOps
  <2>2. FirstMade = {} /\ Visited(FirstMade) = Outputs
    BY <1>3 DEF FirstMade, Visited
  <2>3. i \notin Outputs
    BY <2>1 DEF Outputs
  <2>4. i \in Standalone(Merged({m.nodes : m \in FirstMade}), Visited(FirstMade))
    BY <1>1, <2>1, <2>2, <2>3 DEF Standalone
  <2>5. i \in NodeOps
    BY <2>4, MadeIs DEF NodeOps
  <2> QED
    BY <2>5, TaskIsOfOp
<1> QED
  BY <1>2, <1>3

\* The name of a task under a prefix.
Under(p, t) == <<p, t[2], t[3]>>
Renamed(p, t) == IF t \in DOMAIN AllNodes THEN Under(p, t) ELSE t

\* A graph under a prefix: its tasks, and what they name among them, are renamed.
LEMMA PrefixedIs ==
  ASSUME OpsSound, Build.ok, built = Build, NEW p
  PROVE  /\ DOMAIN Prefixed(built, p).nodes = {Under(p, t) : t \in DOMAIN AllNodes}
         /\ Prefixed(built, p).outputs = {Under(p, t) : t \in built.outputs}
         /\ \A t \in DOMAIN AllNodes :
              /\ Prefixed(built, p).nodes[Under(p, t)].deps = {Renamed(p, u) : u \in AllNodes[t].deps}
              /\ Prefixed(built, p).nodes[Under(p, t)].refs = {Renamed(p, u) : u \in AllNodes[t].refs}
              /\ Prefixed(built, p).nodes[Under(p, t)].gate = {Renamed(p, u) : u \in AllNodes[t].gate}
<1>1. built.nodes = AllNodes /\ built.outputs \subseteq DOMAIN AllNodes
  BY Built, OutputsAreTasks
<1>2. \A t \in DOMAIN AllNodes : t = <<"own", t[2], t[3]>>
  BY TaskIsOfOp DEF Part
<1>3. \A t \in DOMAIN AllNodes : <<"own", Under(p, t)[2], Under(p, t)[3]>> = t
  BY <1>2 DEF Under
<1>4. DOMAIN Prefixed(built, p).nodes = {Renamed(p, t) : t \in DOMAIN AllNodes}
  BY <1>1 DEF Prefixed, Renamed, Under
<1>5. {Renamed(p, t) : t \in DOMAIN AllNodes} = {Under(p, t) : t \in DOMAIN AllNodes}
  BY DEF Renamed
<1>6. Prefixed(built, p).outputs = {Renamed(p, t) : t \in built.outputs}
  BY <1>1 DEF Prefixed, Renamed, Under
<1>7. {Renamed(p, t) : t \in built.outputs} = {Under(p, t) : t \in built.outputs}
  BY <1>1 DEF Renamed
<1>8. ASSUME NEW u \in DOMAIN Prefixed(built, p).nodes
      PROVE  LET own == AllNodes[<<"own", u[2], u[3]>>]
             IN  /\ Prefixed(built, p).nodes[u].deps = {Renamed(p, t) : t \in own.deps}
                 /\ Prefixed(built, p).nodes[u].refs = {Renamed(p, t) : t \in own.refs}
                 /\ Prefixed(built, p).nodes[u].gate = {Renamed(p, t) : t \in own.gate}
  BY <1>1 DEF Prefixed, Renamed, Under
<1>9. ASSUME NEW t \in DOMAIN AllNodes
      PROVE  /\ Prefixed(built, p).nodes[Under(p, t)].deps = {Renamed(p, u) : u \in AllNodes[t].deps}
             /\ Prefixed(built, p).nodes[Under(p, t)].refs = {Renamed(p, u) : u \in AllNodes[t].refs}
             /\ Prefixed(built, p).nodes[Under(p, t)].gate = {Renamed(p, u) : u \in AllNodes[t].gate}
  <2>1. Under(p, t) \in DOMAIN Prefixed(built, p).nodes
    BY <1>4, <1>5
  <2> QED
    BY <1>3, <1>8, <2>1
<1> QED
  BY <1>4, <1>5, <1>6, <1>7, <1>9

\* The tasks of a build merged with itself, under two prefixes.
MergedTasks == {Under("a", t) : t \in DOMAIN AllNodes} \cup {Under("b", t) : t \in DOMAIN AllNodes}

\* What is renamed and is among the merged tasks, and the names without prefix.
Kept(p, S) == {Renamed(p, t) : t \in S} \cap MergedTasks
Originals(V) == {<<"own", v[2], v[3]>> : v \in V}

\* What is renamed and is a task of the merged graph was a task, and is of the same graph.
LEMMA RenamedBack ==
  ASSUME OpsSound, NEW S \in SUBSET Identifiers, NEW p \in {"a", "b"}
  PROVE  /\ Originals(Kept(p, S)) = S \cap DOMAIN AllNodes
         /\ \A v \in Kept(p, S) : v[1] = p
<1>1. \A t \in DOMAIN AllNodes : t = <<"own", t[2], t[3]>> /\ Renamed(p, t) = Under(p, t) /\ Under(p, t) \in MergedTasks
  <2> SUFFICES ASSUME NEW t \in DOMAIN AllNodes
               PROVE  t = <<"own", t[2], t[3]>> /\ Renamed(p, t) = Under(p, t) /\ Under(p, t) \in MergedTasks
    OBVIOUS
  <2>1. \E q : t = Part(t[2], q)
    BY TaskIsOfOp
  <2>2. t = <<"own", t[2], t[3]>>
    BY <2>1 DEF Part
  <2>3. Renamed(p, t) = Under(p, t)
    BY DEF Renamed
  <2>4. Under(p, t) \in MergedTasks
    <3>1. Under("a", t) \in MergedTasks /\ Under("b", t) \in MergedTasks
      BY DEF MergedTasks
    <3> QED
      BY <3>1
  <2> QED
    BY <2>2, <2>3, <2>4
<1>2. \A t \in S : t[1] = "own"
  BY DEF Identifiers, Part
<1>3. \A v \in MergedTasks : v[1] # "own"
  BY DEF Under, MergedTasks
<1>4. ASSUME NEW t \in S, Renamed(p, t) \in MergedTasks PROVE t \in DOMAIN AllNodes /\ Renamed(p, t) = Under(p, t)
  BY <1>2, <1>3, <1>4 DEF Renamed
<1>5. \A t \in DOMAIN AllNodes : <<"own", Under(p, t)[2], Under(p, t)[3]>> = t /\ Under(p, t)[1] = p
  BY <1>1 DEF Under
<1> QED
  BY <1>1, <1>4, <1>5 DEF Originals, Kept

\* A set renamed under a prefix has as many elements.
LEMMA SameNumber ==
  ASSUME OpsSound, NEW p, NEW S \in SUBSET (DOMAIN AllNodes)
  PROVE  /\ IsFiniteSet(S) /\ IsFiniteSet({Under(p, t) : t \in S})
         /\ Cardinality({Under(p, t) : t \in S}) = Cardinality(S) /\ Cardinality(S) \in Nat
<1> DEFINE f == [t \in S |-> Under(p, t)]
           U == {Under(p, t) : t \in S}
<1>1. IsFiniteSet(S)
  BY WaitsAreLighter, IdentifiersFinite, FS_Subset
<1>2. \A t \in S : t = <<"own", t[2], t[3]>>
  BY TaskIsOfOp DEF Part
<1>3. f \in Bijection(S, U)
  <2>1. f \in [S -> U] /\ \A u \in U : \E t \in S : f[t] = u
    OBVIOUS
  <2>2. ASSUME NEW s \in S, NEW t \in S, f[s] = f[t] PROVE s = t
    BY <1>2, <2>2 DEF Under
  <2> QED
    BY <2>1, <2>2 DEF Bijection, Injection, IsInjective, Surjection
<1> QED
  <2>1. ExistsBijection(S, U)
    BY <1>3 DEF ExistsBijection
  <2> HIDE DEF U, f
  <2>2. IsFiniteSet(U) /\ Cardinality(U) = Cardinality(S) /\ Cardinality(S) \in Nat
    BY <1>1, <2>1, FS_Bijection, FS_CardinalityType
  <2> QED
    BY <1>1, <2>2 DEF U

\* Graphs merged under their prefixes stay apart.
LEMMA MergedStayApart ==
  ASSUME OpsSound, Build.ok, built = Build
  PROVE  MergedApart
<1> DEFINE a == Prefixed(built, "a")
           b == Prefixed(built, "b")
           m == Merge(a, b)
           D == DOMAIN AllNodes
           P == MergedTasks
           old(v) == <<"own", v[2], v[3]>>
<1>1. built.nodes = AllNodes /\ built.outputs \subseteq D
  BY Built, OutputsAreTasks
<1>2. DOMAIN a.nodes = {Under("a", t) : t \in D} /\ DOMAIN b.nodes = {Under("b", t) : t \in D}
  BY PrefixedIs
<1>3. MergeOk(a, b) /\ ~ MergeOk(a, a)
  <2>1. \A t, u \in D : Under("a", t) # Under("b", u)
    BY DEF Under
  <2>2. DOMAIN a.nodes \cap DOMAIN b.nodes = {}
    BY <1>2, <2>1
  <2>3. DOMAIN a.nodes # {}
    BY <1>2, SomeTask
  <2> HIDE DEF a, b
  <2> QED
    BY <2>2, <2>3 DEF MergeOk
<1>4. Cardinality(m.outputs) = 2 * Cardinality(built.outputs)
  <2> DEFINE A == {Under("a", t) : t \in built.outputs}
             B == {Under("b", t) : t \in built.outputs}
  <2>1. m.outputs = A \cup B
    BY PrefixedIs DEF Merge
  <2>2. /\ IsFiniteSet(A) /\ IsFiniteSet(B) /\ Cardinality(A) = Cardinality(built.outputs)
        /\ Cardinality(B) = Cardinality(built.outputs) /\ Cardinality(built.outputs) \in Nat
    BY <1>1, SameNumber
  <2>3. A \cap B = {}
    BY DEF Under
  <2> HIDE DEF A, B, m
  <2>4. Cardinality(A \cup B) = Cardinality(A) + Cardinality(B) - Cardinality(A \cap B)
    BY <2>2, FS_Union
  <2>5. Cardinality(A \cap B) = 0
    BY <2>3, FS_EmptySet
  <2> QED
    BY <2>1, <2>2, <2>4, <2>5
<1>5. DOMAIN m.nodes = P
  BY <1>2 DEF Merge, Both, MergedTasks
<1>6. ASSUME NEW u \in P
      PROVE  LET own == AllNodes[old(u)] IN
             /\ {old(v) : v \in m.nodes[u].deps \cap P} = own.deps \cap D
             /\ {old(v) : v \in m.nodes[u].refs \cap P} = own.refs \cap D
             /\ {old(v) : v \in m.nodes[u].gate \cap P} = own.gate \cap D
             /\ \A v \in (m.nodes[u].deps \cup m.nodes[u].refs \cup m.nodes[u].gate) \cap P : v[1] = u[1]
  <2>1. PICK p \in {"a", "b"}, t \in D : u = Under(p, t)
    BY DEF MergedTasks
  <2>2. m.nodes[u] = Prefixed(built, p).nodes[u]
    BY <1>2, <2>1 DEF Merge, Both, Under
  <2> DEFINE deps == AllNodes[t].deps
             refs == AllNodes[t].refs
             gate == AllNodes[t].gate
  <2>3. /\ m.nodes[u].deps = {Renamed(p, v) : v \in deps} /\ m.nodes[u].refs = {Renamed(p, v) : v \in refs}
        /\ m.nodes[u].gate = {Renamed(p, v) : v \in gate}
    BY <2>1, <2>2, PrefixedIs
  <2>4. deps \in SUBSET Identifiers /\ refs \in SUBSET Identifiers /\ gate \in SUBSET Identifiers
    BY WaitsAreLighter, TaskWaits
  <2>5. u[1] = p /\ old(u) = t
    <3>1. t = <<"own", t[2], t[3]>>
      BY TaskIsOfOp DEF Part
    <3> QED
      BY <2>1, <3>1 DEF Under
  <2> HIDE DEF m, P, D, deps, refs, gate
  <2>6. ASSUME NEW S \in SUBSET Identifiers
        PROVE  /\ {old(v) : v \in {Renamed(p, w) : w \in S} \cap P} = S \cap D
               /\ \A v \in {Renamed(p, w) : w \in S} \cap P : v[1] = p
    <3>1. /\ Originals(Kept(p, S)) = S \cap DOMAIN AllNodes
          /\ \A v \in Kept(p, S) : v[1] = p
      BY RenamedBack
    <3>2. {old(v) : v \in {Renamed(p, w) : w \in S} \cap P} = Originals(Kept(p, S))
      BY DEF Originals, Kept, P
    <3>3. {Renamed(p, w) : w \in S} \cap P = Kept(p, S)
      BY DEF Kept, P
    <3> HIDE DEF old
    <3> QED
      BY <3>1, <3>2, <3>3 DEF D
  <2> QED
    BY <2>3, <2>4, <2>5, <2>6 DEF deps, refs, gate
<1> HIDE DEF m, a, b
<1>7. \A u \in DOMAIN m.nodes :
        LET own == built.nodes[old(u)] IN
        /\ {old(v) : v \in m.nodes[u].deps \cap DOMAIN m.nodes} = own.deps \cap DOMAIN built.nodes
        /\ {old(v) : v \in m.nodes[u].refs \cap DOMAIN m.nodes} = own.refs \cap DOMAIN built.nodes
        /\ {old(v) : v \in m.nodes[u].gate \cap DOMAIN m.nodes} = own.gate \cap DOMAIN built.nodes
        /\ \A v \in (m.nodes[u].deps \cup m.nodes[u].refs \cup m.nodes[u].gate) \cap DOMAIN m.nodes : v[1] = u[1]
  BY <1>1, <1>5, <1>6
<1> QED
  BY <1>3, <1>4, <1>7 DEF MergedApart, m, a, b

-----------------------------------------------------------------------------
(* No op is lost.                                                           *)

FirstNodes == Merged({m.nodes : m \in FirstMade})

\* Before the python steps are added every task is as its op made it.
LEMMA FirstNodesAre ==
  ASSUME OpsSound, NEW i \in TaskOps, NEW t \in DOMAIN Node(i).nodes
  PROVE  t \in DOMAIN FirstNodes /\ FirstNodes[t] = Node(i).nodes[t]
<1> DEFINE all == {m.nodes : m \in FirstMade}
           s == CHOOSE r \in all : t \in DOMAIN r
<1>1. all = {Node(j).nodes : j \in TaskOps}
  BY DEF FirstMade
<1>2. DOMAIN FirstNodes = UNION {DOMAIN r : r \in all}
  BY DEF FirstNodes, Merged
<1>3. t \in DOMAIN FirstNodes /\ s \in all /\ t \in DOMAIN s
  BY <1>1, <1>2
<1>4. FirstNodes[t] = s[t]
  BY <1>3 DEF FirstNodes, Merged
<1> HIDE DEF s
<1>5. PICK j \in TaskOps : s = Node(j).nodes
  BY <1>1, <1>3
<1>6. \A k \in TaskOps : \A u \in DOMAIN Node(k).nodes : u[2] = k
  BY NodeTasks DEF TasksOf, Part
<1>7. j = i
  BY <1>3, <1>5, <1>6
<1> QED
  BY <1>3, <1>4, <1>5, <1>7

\* A prompt made from nothing has seen nothing.
LEMMA NothingSeen ==
  ASSUME NEW api
  PROVE  TraceAncestors({}, api).seen = {}
BY DEF TraceAncestors, Joined

\* A row lambda that the making of a task has passed is in its prompt, is read by it, or is
\* waited for.
LEMMA SeenIsUsed ==
  ASSUME OpsSound, NEW k \in TaskOps, Node(k).ok, NEW i \in Node(k).seen, ops[i].kind = "row"
  PROVE  LET own == Node(k).nodes[T(k)]
         IN T(k) \in DOMAIN Node(k).nodes /\ (i \in own.inlines \/ T(i) \in own.refs \cup own.deps)
<1>0. k \in DOMAIN ops /\ ops[k].kind \in Task /\ OpSound(ops[k], k - 1)
  BY OpReads DEF TaskOps, InGraph
<1>1. /\ ops[k].kind \in Chat => Node(k) = ChatNode(k, PromptOf(k))
      /\ ops[k].kind = "vlm" => Node(k) = VisionNodes(k, PromptOf(k))
      /\ ops[k].kind = "emb" => Node(k) = EmbeddingNode(k)
      /\ ops[k].kind = "img" => Node(k) = ImageNode(k)
      /\ ops[k].kind = "retr" => Node(k) = RetrievalNode(k)
      /\ ops[k].kind \in Whole => Node(k) = WholeNode(k)
  BY NodeIs
<1>2. ops[k].kind \in Chat \cup {"vlm", "emb", "img", "retr"} \cup Whole
  BY <1>0 DEF Task, LLM
<1>3. ASSUME NEW deps, NEW refs, NEW py, NEW inl, Node(k).nodes = N(T(k), deps, refs, py, inl)
      PROVE  /\ T(k) \in DOMAIN Node(k).nodes /\ Node(k).nodes[T(k)].deps = deps
             /\ Node(k).nodes[T(k)].refs = refs /\ Node(k).nodes[T(k)].inlines = inl
  BY <1>3 DEF N
<1>r. ops[i].kind \notin Literal /\ ops[i].kind # "input" /\ i # k
  BY <1>0 DEF Literal, Task, LLM, Chat, Whole
<1>s. \A S : i \in S => T(i) \in Tasks(S)
  BY DEF Tasks
<1>4. CASE ops[k].kind \in Chat
  <2> DEFINE t == PromptOf(k)
             mode == ops[k].mode
             refs == CASE mode = "rowwise" -> RowwiseReads(k, t)
                       [] mode = "aggregate" -> AggregateReads(k, t)
                       [] OTHER -> PromptReads(k, t)
             inl == IF mode = "rowwise" THEN {} ELSE t.seen
             one == N(T(k), Tasks(t.llms \cup refs), Tasks(refs), "no", inl)
  <2>1. Node(k).nodes = Gated(one, Gate(k)) /\ Node(k).seen = t.seen
    BY <1>1, <1>4 DEF ChatNode
  <2>2. mode # "rowwise"
    <3> SUFFICES ASSUME mode = "rowwise" PROVE FALSE
      OBVIOUS
    <3>1. ops[k].in = {} /\ ops[k].kind # "vlm"
      BY <1>0, <1>4 DEF OpSound, Chat
    <3>2. t.seen = {}
      BY <3>1, NothingSeen DEF PromptOf
    <3> QED
      BY <2>1, <3>2
  <2> HIDE DEF refs, t
  <2>3. T(k) \in DOMAIN Node(k).nodes /\ Node(k).nodes[T(k)].inlines = inl
    BY <2>1, GatedInlines
  <2> QED
    BY <2>1, <2>2, <2>3
<1>5. CASE ops[k].kind = "vlm"
  <2> DEFINE t == PromptOf(k)
             e == Part(k, "embedding")
             source == ImageSource(k)
             refs == Tasks(IF ops[k].mode = "rowwise" THEN RowwiseReads(k, t) ELSE PromptReads(k, t))
             deps == Tasks(t.llms) \cup refs \cup source \cup {e}
             own == refs \cup source \cup {e}
             inl == IF ops[k].mode = "rowwise" THEN {} ELSE t.seen
             one == N(T(k), deps, own, "no", inl)
             before == N(e, source, source, "no", {})
             after == IF PerRow(ops[k]) THEN Flattened(k, source, refs) ELSE one
  <2>1. /\ Node(k).nodes = Both(before, after) /\ Node(k).seen = t.seen \cup {ops[k].img}
        /\ ImageSourceOk(k)
    BY <1>1, <1>5 DEF VisionNodes
  <2>2. i # ops[k].img
    BY <2>1 DEF ImageSourceOk
  <2>3. ops[k].mode # "rowwise"
    <3> SUFFICES ASSUME ops[k].mode = "rowwise" PROVE FALSE
      OBVIOUS
    <3>1. ops[k].in \ {ops[k].img} = {}
      BY <1>0, <1>5 DEF OpSound
    <3>2. t.seen = {}
      BY <1>5, <3>1, NothingSeen DEF PromptOf
    <3> QED
      BY <2>1, <2>2, <3>2
  <2>4. ~ PerRow(ops[k])
    BY <2>3 DEF PerRow
  <2>5. e # T(k)
    BY DEF T, Part
  <2> HIDE DEF refs, t, source, e, deps, own
  <2>6. T(k) \in DOMAIN Node(k).nodes /\ Node(k).nodes[T(k)] = one[T(k)]
    BY <2>1, <2>4, <2>5 DEF Both, N
  <2>7. one[T(k)].inlines = t.seen
    BY <2>3 DEF N
  <2> QED
    BY <2>1, <2>2, <2>6, <2>7
<1>6. CASE ops[k].kind = "emb"
  <2> DEFINE c == CHOOSE j \in ops[k].in : TRUE
             literal == ops[c].kind \in Literal
             reads == IF literal THEN {} ELSE {T(c)}
  <2>1. Node(k).nodes = N(T(k), reads, reads, "no", {}) /\ Node(k).seen = {k} \cup {c}
    BY <1>1, <1>6 DEF EmbeddingNode, Content
  <2> HIDE DEF c
  <2>2. i = c
    BY <1>r, <2>1
  <2> QED
    BY <1>3, <1>r, <2>1, <2>2
<1>7. CASE ops[k].kind = "img"
  <2> DEFINE c == CHOOSE j \in ops[k].in : TRUE
             content == IF ops[c].mode = "bare" THEN CHOOSE j \in ops[c].in : TRUE ELSE c
             literal == ops[content].kind = "input"
             reads == IF literal THEN {} ELSE {T(content)}
  <2>0. Node(k) = Content(k, content, literal, {c})
    BY <1>1, <1>7 DEF ImageNode
  <2>1. Node(k).nodes = N(T(k), reads, reads, "no", {}) /\ Node(k).seen = {k} \cup {c}
    <3> HIDE DEF content, c
    <3> QED
      BY <2>0 DEF Content
  <2>2. c \in DOMAIN ops
    BY <1>0, <1>7, OpReads DEF OpSound
  <2>3. ops[c].mode = "bare" => ops[c].kind = "format"
    BY <2>2, OpReads DEF OpSound
  <2> HIDE DEF c
  <2>4. i = c
    BY <1>r, <2>1
  <2>5. content = i
    BY <2>3, <2>4
  <2> HIDE DEF content
  <2> QED
    BY <1>3, <1>r, <2>1, <2>5, SMTT(60)
<1>8. CASE ops[k].kind = "retr"
  <2> DEFINE inputs == {j \in ops[k].in : ops[j].kind # "input"}
             params == {j \in ops[k].cols : ops[j].kind # "input"}
  <2>1. /\ Node(k).nodes = N(T(k), Tasks(inputs \cup params), Tasks(params), "no", {})
        /\ Node(k).seen = ops[k].in \cup (ops[k].cols \cap InGraph)
    BY <1>1, <1>8 DEF RetrievalNode
  <2>2. i \in inputs \cup params
    BY <1>r, <2>1
  <2> HIDE DEF inputs, params
  <2> QED
    BY <1>3, <1>s, <2>1, <2>2
<1>9. CASE ops[k].kind \in Whole
  <2> DEFINE reads == {j \in ops[k].in : ops[j].kind \notin Literal}
  <2>1. Node(k).nodes = N(T(k), Tasks(reads), Tasks(reads), ops[k].kind, {}) /\ Node(k).seen = ops[k].in
    BY <1>1, <1>9 DEF WholeNode
  <2>2. i \in reads
    BY <1>r, <2>1
  <2> HIDE DEF reads
  <2> QED
    BY <1>3, <1>s, <2>1, <2>2
<1> QED
  BY <1>2, <1>4, <1>5, <1>6, <1>7, <1>8, <1>9

\* A row lambda without a task is part of the prompt of one.
LEMMA NoLambdaIsDropped ==
  ASSUME OpsSound, Build.ok, NEW i \in InGraph, ops[i].kind = "row", T(i) \notin DOMAIN AllNodes
  PROVE  \E t \in DOMAIN AllNodes : i \in AllNodes[t].inlines
<1> DEFINE seen == Visited(FirstMade)
<1>1. i \notin Standalone(FirstNodes, seen)
  <2>1. i \notin NodeOps
    BY TaskIsOfOp
  <2> QED
    BY <2>1, MadeIs DEF NodeOps, FirstNodes
<1>2. i \in seen /\ i \notin Referenced(FirstNodes)
  BY <1>1 DEF Standalone
<1>3. PICK k \in TaskOps : i \in Node(k).seen
  <2>1. i \notin Outputs /\ i \notin TaskOps
    BY DEF Outputs, TaskOps, Task, LLM, Chat, Whole
  <2>2. i \in UNION {m.seen : m \in FirstMade}
    BY <1>2, <2>1 DEF Visited
  <2> QED
    BY <2>2 DEF FirstMade
<1>4. Node(k).ok
  BY Built, MadeIs DEF NodeOps
<1> DEFINE own == Node(k).nodes[T(k)]
<1>5. T(k) \in DOMAIN Node(k).nodes /\ (i \in own.inlines \/ T(i) \in own.refs \cup own.deps)
  BY <1>3, <1>4, SeenIsUsed
<1>6. T(k) \in DOMAIN FirstNodes /\ FirstNodes[T(k)] = own
  BY <1>5, FirstNodesAre
<1>7. T(i) \notin own.refs \cup own.deps
  BY <1>2, <1>6 DEF Referenced
<1>8. T(k) \in DOMAIN AllNodes /\ AllNodes[T(k)] = own
  <2>1. k \in NodeOps /\ T(k)[2] = k /\ OpNode(k) = Node(k)
    BY MadeIs DEF NodeOps, T, Part
  <2> QED
    BY <2>1, TaskIsOfOp
<1> HIDE DEF own
<1> QED
  BY <1>5, <1>7, <1>8

-----------------------------------------------------------------------------
(* No row is lost.                                                          *)

WholeReads(j) == IF ops[j].kind = "format" THEN ops[j].in \ ops[j].cols ELSE ops[j].in

\* What holds of some ops, and of what a format or a row lambda that it holds of reads whole,
\* holds of all that a prompt is made from.
LEMMA ThroughStays ==
  ASSUME OpsSound, NEW S \in SUBSET (DOMAIN ops), NEW P \in SUBSET (DOMAIN ops), S \subseteq P,
         \A j \in P : ops[j].kind \in {"format", "row"} => WholeReads(j) \subseteq P
  PROVE  Through(S) \subseteq P
<1> DEFINE n == Len(ops)
           V == SUBSET P
           Grown(C) == C \cup UNION {WholeReads(j) : j \in {l \in C : ops[l].kind \in {"format", "row"}}}
           step == [p \in (1 .. n) \X V |-> Grown(p[2])]
           Eq(f) == f = [k \in 0 .. n |-> IF k = 0 THEN S ELSE Grown(f[k - 1])]
           up == CHOOSE f : Eq(f)
<1>0. n \in Nat
  BY DEF OpsSound
<1>1. S \in V /\ \A C \in V : Grown(C) \in V
  OBVIOUS
<1>2. \A k \in 1 .. n : \A C \in V : step[<<k, C>>] = Grown(C)
  OBVIOUS
<1>3. step \in [(1 .. n) \X V -> V]
  BY <1>1
<1>4. Through(S) = up[n]
  BY DEF Through, WholeReads
<1> HIDE DEF V, step, Grown
<1>5. PICK f : Iterates(f, n, V, S, step)
  BY <1>0, <1>1, <1>3, Iteration DEF StepOn
<1>6. f \in [0 .. n -> V] /\ f[0] = S /\ \A k \in 1 .. n : f[k] = step[<<k, f[k - 1]>>]
  BY <1>5 DEF Iterates
<1>7. \A k \in 1 .. n : f[k - 1] \in V
  BY <1>0, <1>6
<1>8. \A k \in 1 .. n : f[k] = Grown(f[k - 1])
  BY <1>2, <1>6, <1>7
<1>9. Eq(f)
  BY <1>0, <1>6, <1>8
<1>10. Eq(up)
  BY <1>9
<1> HIDE DEF up
<1>11. up[0] = S /\ \A k \in 1 .. n : up[k] = Grown(up[k - 1])
  <2>1. \A k \in 0 .. n : up[k] = IF k = 0 THEN S ELSE Grown(up[k - 1])
    BY <1>10
  <2> QED
    BY <1>0, <2>1
<1>12. up[n] \in V
  <2> DEFINE R == {k \in 0 .. n : up[k] \in V}
  <2>1. 0 \in R /\ \A k \in 1 .. n : k - 1 \in R => k \in R
    BY <1>0, <1>1, <1>11
  <2> HIDE DEF R
  <2>2. 0 .. n \subseteq R
    BY <1>0, <2>1, UpTo
  <2> QED
    BY <1>0, <2>2 DEF R
<1> QED
  BY <1>4, <1>12 DEF V

\* The rows an input or a local model is traced with are the rows it has.
LEMMA CountedRows ==
  ASSUME OpsSound, NEW j \in DOMAIN ops, ops[j].kind \in Counted, NEW api
  PROVE  Traces(api)[j].counts = Many(j)
<1>1. Traces(api)[j] = TraceOf(j, Traces(api), api)
  BY TracesUnfold
<1>2. CASE ops[j].kind = "input"
  <2>1. TraceOf(j, Traces(api), api) = TraceSource(j)
    BY <1>2, Zenon DEF TraceOf, Literal, LLM, Chat
  <2>2. TraceSource(j).counts = Many(j)
    BY <1>2 DEF TraceSource, Nothing
  <2> QED
    BY <1>1, <2>1, <2>2
<1>3. CASE ops[j].kind \in LLM \ {"api"}
  <2>0. /\ ops[j].kind \in LLM /\ ops[j].kind \notin Literal \cup {"retr"}
        /\ ops[j].kind # "format" /\ ops[j].kind # "row"
    BY <1>3 DEF LLM, Chat, Literal
  <2>1. TraceOf(j, Traces(api), api) = TraceLLM(j, api)
    BY <2>0, Zenon DEF TraceOf
  <2>2. TraceLLM(j, api).counts = Many(j)
    BY <1>3 DEF TraceLLM, Nothing
  <2> QED
    BY <1>1, <2>1, <2>2
<1> QED
  BY <1>2, <1>3 DEF Counted

\* The rows traced to what a format or a row lambda reads whole are traced to it too.
LEMMA RowsPassOn ==
  ASSUME OpsSound, NEW j \in DOMAIN ops, ops[j].kind \in {"format", "row"}, NEW l \in WholeReads(j), NEW api
  PROVE  l \in DOMAIN ops /\ Traces(api)[l].counts \subseteq Traces(api)[j].counts
<1> DEFINE tr == Traces(api)
           read == {tr[h] : h \in WholeReads(j)}
<1>1. tr[j] = TraceOf(j, tr, api)
  BY TracesUnfold
<1>2. l \in DOMAIN ops
  BY OpReads DEF WholeReads
<1>3. tr[l].counts \subseteq Joined(read).counts
  BY DEF Joined
<1>4. tr[j].counts = Joined(read).counts
  <2>1. CASE ops[j].kind = "format"
    <3>1. tr[j] = TraceFormat(j, Joined(read))
      BY <1>1, <2>1 DEF TraceOf, WholeReads, LLM, Chat, Literal
    <3> HIDE DEF tr, read
    <3> QED
      BY <3>1 DEF TraceFormat, Joined
  <2>2. CASE ops[j].kind = "row"
    <3>1. tr[j] = TraceLambda(j, Joined(read), api)
      BY <1>1, <2>2 DEF TraceOf, WholeReads, LLM, Chat, Literal
    <3> HIDE DEF tr, read
    <3> QED
      BY <3>1 DEF TraceLambda, Joined
  <2> QED
    BY <2>1, <2>2
<1> QED
  BY <1>2, <1>3, <1>4

\* A prompt that the build accepts has one row count.
LEMMA PromptRowsAgree ==
  ASSUME OpsSound, Build.ok, NEW i \in Prompted
  PROVE  Cardinality(UNION {Many(j) : j \in {l \in Through(ops[i].in) : ops[l].kind \in Counted}}) <= 1
<1> DEFINE api == ops[i].kind = "api"
           tr == Traces(api)
           t == PromptOf(i)
           P == {j \in DOMAIN ops : tr[j].counts \subseteq t.counts}
           rows0 == UNION {Many(j) : j \in {l \in Through(ops[i].in) : ops[l].kind \in Counted}}
<1>1. i \in DOMAIN ops /\ ops[i].kind \in Chat /\ i \in TaskOps /\ ops[i].kind # "vlm"
  BY DEF Prompted, TaskOps, Task, LLM, InGraph, Chat
<1>2. Node(i) = ChatNode(i, t)
  BY <1>1, NodeIs
<1>t. t = TraceAncestors(ops[i].in, api)
  BY <1>1 DEF PromptOf
<1>3. Node(i).ok
  BY <1>1, Built, MadeIs DEF NodeOps
<1>4. Cardinality(t.counts) <= 1
  <2> HIDE DEF t
  <2>1. ChatNode(i, t).ok = (Bindable(t) /\ ColumnsOk(ops[i].cols) /\ GateOk(i))
    BY DEF ChatNode
  <2>2. Bindable(t)
    BY <1>2, <1>3, <2>1
  <2> QED
    BY <2>2 DEF Bindable
<1>5. IsFiniteSet(t.counts)
  <2>1. TraceTo(t, i - 1) /\ i \in Nat
    BY <1>1, <1>t, PromptTo, OpReads
  <2>2. IsFiniteSet(1 .. i - 1)
    BY <2>1, FS_Interval
  <2>3. IsFiniteSet({RowCount[j] : j \in 1 .. i - 1})
    BY <2>2, FiniteImage
  <2> QED
    BY <2>1, <2>3, FS_Subset DEF TraceTo
<1>6. ops[i].in \in SUBSET (DOMAIN ops) /\ ops[i].in \subseteq P
  <2>1. ops[i].in \subseteq DOMAIN ops
    BY <1>1, OpReads
  <2>2. \A j \in ops[i].in : tr[j].counts \subseteq t.counts
    BY <1>t DEF TraceAncestors, Joined
  <2> QED
    BY <2>1, <2>2
<1>7. ASSUME NEW j \in P, ops[j].kind \in {"format", "row"} PROVE WholeReads(j) \subseteq P
  BY <1>7, RowsPassOn
<1> HIDE DEF t
<1>8. Through(ops[i].in) \subseteq P
  <2>1. P \in SUBSET (DOMAIN ops)
    OBVIOUS
  <2> HIDE DEF P
  <2> QED
    BY <1>6, <1>7, <2>1, ThroughStays
<1>9. rows0 \subseteq t.counts
  BY <1>8, CountedRows
<1>10. Cardinality(rows0) <= Cardinality(t.counts)
  BY <1>5, <1>9, FS_Subset
<1>11. Cardinality(rows0) \in Nat /\ Cardinality(t.counts) \in Nat
  BY <1>5, <1>9, FS_Subset, FS_CardinalityType
<1> QED
  BY <1>4, <1>10, <1>11

-----------------------------------------------------------------------------
(* What is one value for the whole run.                                     *)

PassesOn(b) == {t \in DOMAIN b.nodes : b.nodes[t].python = "no"}
Folds1(b) == {t \in DOMAIN b.nodes : b.nodes[t].python = "list"}

\* A build that did not raise is there.
LEMMA BuiltIsReady ==
  ASSUME Build.ok, built = Build
  PROVE  Ready
<1>1. Build = [ok |-> TRUE, nodes |-> Build.nodes, order |-> Build.order, outputs |-> Build.outputs]
  BY DEF Build, Assembled, Finished
<1>2. Build # <<>>
  BY <1>1
<1> QED
  BY <1>2 DEF Ready

\* A task gives one value for the whole run just when it folds a list, or passes on what it
\* reads from a task that does.
LEMMA WholeRunIs ==
  ASSUME OpsSound, Build.ok, built = Build
  PROVE  /\ Folds1(built) \subseteq WholeRun(built)
         /\ WholeRun(built) \subseteq Folds1(built) \cup PassesOn(built)
         /\ \A t \in PassesOn(built) : t \in WholeRun(built) <=> AllNodes[t].deps \cap WholeRun(built) # {}
<1> DEFINE D == DOMAIN built.nodes
           n == Len(built.order)
           V == SUBSET D
           waits(t) == built.nodes[t].deps \cap DOMAIN built.nodes
           Next1(k, C) == C \cup {t \in built.order[k] :
                                   \/ built.nodes[t].python = "list"
                                   \/ built.nodes[t].python = "no" /\ waits(t) \cap C # {}}
           step == [p \in (1 .. n) \X V |-> Next1(p[1], p[2])]
           Eq(f) == f = [k \in 0 .. n |-> IF k = 0 THEN {} ELSE Next1(k, f[k - 1])]
           at == CHOOSE f : Eq(f)
<1>1. built.nodes = AllNodes /\ D = DOMAIN AllNodes
  BY Built
<1>2. n \in Nat /\ DOMAIN built.order = 1 .. n
  <2> DEFINE ids == DOMAIN AllNodes \cup UNION {AllNodes[t].deps : t \in DOMAIN AllNodes}
  <2>1. IsFiniteSet(ids)
    BY WaitsAreLighter, IdentifiersFinite, FS_Subset
  <2>2. Cardinality(ids) \in Nat
    BY <2>1, FS_CardinalityType
  <2>3. DOMAIN built.order = 1 .. Cardinality(ids)
    BY Built DEF Layers
  <2> HIDE DEF ids
  <2> QED
    BY <2>2, <2>3
<1>3. /\ \A t \in D : \E k \in 1 .. n : t \in built.order[k]
      /\ \A k \in 1 .. n : built.order[k] \subseteq D
      /\ \A j, k \in 1 .. n : \A t \in built.order[j], u \in built.order[k] :
           t \in AllNodes[u].deps => j < k
  <2>1. /\ UNION Range(built.order) = D
        /\ \A j, k \in DOMAIN built.order : \A t \in built.order[j], u \in built.order[k] :
             t \in AllNodes[u].deps => j < k
    BY <1>1, TasksAreOrdered, BuiltIsReady DEF OrderSound
  <2>2. Range(built.order) = {built.order[k] : k \in 1 .. n}
    BY <1>2 DEF Range
  <2> HIDE DEF D, n
  <2> QED
    BY <1>2, <2>1, <2>2
<1>4. WholeRun(built) = at[n]
  BY DEF WholeRun
<1>w. \A t : waits(t) = AllNodes[t].deps \cap D
  BY <1>1
<1>o. \A k \in 1 .. n : \A C \in V : Next1(k, C) \in V
  BY <1>3
<1> HIDE DEF V, step, Next1, n
<1>5. step \in [(1 .. n) \X V -> V]
  BY <1>o DEF step
<1>6. \A k \in 1 .. n : \A C \in V : step[<<k, C>>] = Next1(k, C)
  BY DEF step
<1>7. {} \in V
  BY DEF V
<1>8. PICK f : f \in [0 .. n -> V] /\ f[0] = {} /\ \A k \in 1 .. n : f[k] = step[<<k, f[k - 1]>>]
  <2> DEFINE none == {}
  <2>1. StepOn(n, V, none, step)
    BY <1>2, <1>5, <1>7 DEF StepOn
  <2> HIDE DEF none
  <2>2. PICK f : Iterates(f, n, V, none, step)
    BY <2>1, Iteration
  <2> QED
    BY <2>2 DEF Iterates, none
<1>9. \A k \in 1 .. n : f[k] = Next1(k, f[k - 1])
  <2>1. \A k \in 1 .. n : f[k - 1] \in V
    BY <1>2, <1>8
  <2> QED
    BY <1>6, <1>8, <2>1
<1>10. Eq(f)
  BY <1>2, <1>8, <1>9
<1>11. Eq(at)
  BY <1>10
<1> HIDE DEF at
<1>12. at[0] = {} /\ \A k \in 1 .. n : at[k] = Next1(k, at[k - 1])
  <2>1. \A k \in 0 .. n : at[k] = IF k = 0 THEN {} ELSE Next1(k, at[k - 1])
    BY <1>11
  <2> QED
    BY <1>2, <2>1
<1> DEFINE joins(t, C) == \/ AllNodes[t].python = "list"
                          \/ AllNodes[t].python = "no" /\ AllNodes[t].deps \cap D \cap C # {}
<1>13. \A k \in 1 .. n : at[k] = at[k - 1] \cup {t \in built.order[k] : joins(t, at[k - 1])}
  BY <1>1, <1>12, <1>w DEF Next1
<1> HIDE DEF joins, waits
<1>14. ASSUME NEW j \in 0 .. n PROVE \A k \in 0 .. n : j <= k => at[j] \subseteq at[k]
  <2> DEFINE S == {k \in 0 .. n : j <= k => at[j] \subseteq at[k]}
  <2>1. 0 \in S
    BY <1>2
  <2>2. ASSUME NEW k \in 1 .. n, k - 1 \in S PROVE k \in S
    <3>1. at[k - 1] \subseteq at[k]
      BY <1>13
    <3>2. k \in 0 .. n /\ (j <= k => j = k \/ j <= k - 1)
      BY <1>2
    <3> QED
      BY <2>2, <3>1, <3>2
  <2> HIDE DEF S
  <2>3. 0 .. n \subseteq S
    BY <1>2, <2>1, <2>2, UpTo
  <2> QED
    BY <2>3 DEF S
<1> DEFINE Entered(t, k) == t \in built.order[k] /\ t \in at[k] /\ joins(t, at[k - 1])
<1>15. \A k \in 0 .. n : \A t \in at[k] : \E j \in 1 .. k : Entered(t, j)
  <2> DEFINE S == {k \in 0 .. n : \A t \in at[k] : \E j \in 1 .. k : Entered(t, j)}
  <2>1. 0 \in S
    BY <1>2, <1>12
  <2>2. ASSUME NEW k \in 1 .. n, k - 1 \in S PROVE k \in S
    <3>1. ASSUME NEW t \in at[k] PROVE \E j \in 1 .. k : Entered(t, j)
      <4>1. CASE t \in at[k - 1]
        <5>1. PICK j \in 1 .. k - 1 : Entered(t, j)
          BY <2>2, <4>1
        <5>2. j \in 1 .. k
          BY <1>2
        <5> QED
          BY <5>1, <5>2
      <4>2. CASE t \notin at[k - 1]
        <5>1. Entered(t, k)
          BY <1>13, <4>2
        <5>2. k \in 1 .. k
          BY <1>2
        <5> QED
          BY <5>1, <5>2
      <4> QED
        BY <4>1, <4>2
    <3>2. k \in 0 .. n
      BY <1>2
    <3> QED
      BY <3>1, <3>2
  <2> HIDE DEF S
  <2>3. 0 .. n \subseteq S
    BY <1>2, <2>1, <2>2, UpTo
  <2> QED
    BY <2>3 DEF S
<1> DEFINE W == at[n]
<1>16. \A k \in 0 .. n : at[k] \subseteq W
  BY <1>2, <1>14
<1>17. W \subseteq D
  BY <1>2, <1>3, <1>15
<1>18. ASSUME NEW t \in W PROVE joins(t, W) /\ t \in D
  <2>1. PICK j \in 1 .. n : Entered(t, j)
    BY <1>2, <1>15
  <2>2. at[j - 1] \subseteq W
    BY <1>2, <1>16
  <2>3. joins(t, W)
    BY <2>1, <2>2 DEF joins
  <2> QED
    BY <1>17, <2>3
<1>19. ASSUME NEW t \in D, joins(t, W) PROVE t \in W
  <2>1. PICK k \in 1 .. n : t \in built.order[k]
    BY <1>3
  <2>2. joins(t, at[k - 1])
    <3>1. CASE AllNodes[t].python = "list"
      BY <3>1 DEF joins
    <3>2. CASE AllNodes[t].python = "no" /\ AllNodes[t].deps \cap D \cap W # {}
      <4>1. PICK u \in W : u \in AllNodes[t].deps /\ u \in D
        BY <3>2
      <4>2. PICK j \in 1 .. n : Entered(u, j)
        BY <1>2, <1>15
      <4>3. j < k
        BY <1>3, <2>1, <4>1, <4>2
      <4>4. at[j] \subseteq at[k - 1]
        BY <1>2, <1>14, <4>3
      <4> QED
        BY <3>2, <4>1, <4>2, <4>4 DEF joins
    <3> QED
      BY <1>19, <3>1, <3>2 DEF joins
  <2>3. t \in at[k]
    BY <1>13, <2>1, <2>2
  <2> QED
    BY <1>2, <1>16, <2>3
<1> HIDE DEF W, D
<1> QED
  BY <1>1, <1>4, <1>17, <1>18, <1>19 DEF Folds1, PassesOn, joins, W

\* In node order the builder finds every task that a whole-list lambda reaches.
LEMMA WholeRunReached ==
  ASSUME OpsSound, Build.ok, built = Build
  PROVE  WholeRunExact
<1> DEFINE D == DOMAIN built.nodes
           n == Cardinality(DOMAIN built.nodes)
           passes == {t \in DOMAIN built.nodes : built.nodes[t].python \in {"no"}}
           from == {t \in DOMAIN built.nodes : built.nodes[t].python = "list"}
           Grown(C) == C \cup {t \in passes : built.nodes[t].deps \cap C # {}}
           V == SUBSET D
           step == [p \in (1 .. n) \X V |-> Grown(p[2])]
           Eq(f) == f = [k \in 0 .. n |-> IF k = 0 THEN from ELSE Grown(f[k - 1])]
           reach == CHOOSE f : Eq(f)
           W == WholeRun(built)
<1>1. built.nodes = AllNodes
  BY Built
<1>2. D \in SUBSET Identifiers /\ IsFiniteSet(D) /\ n \in Nat
  BY <1>1, WaitsAreLighter, IdentifiersFinite, FS_Subset, FS_CardinalityType
<1>3. /\ from \subseteq W /\ W \subseteq from \cup passes
      /\ \A t \in passes : t \in W <=> AllNodes[t].deps \cap W # {}
  BY WholeRunIs DEF Folds1, PassesOn
<1>4. WholeRunExact <=> W = reach[n]
  BY BuiltIsReady DEF WholeRunExact, ReachedThrough
<1>5. from \in V /\ W \in V /\ \A C \in V : Grown(C) \in V
  BY <1>3
<1>g. \A C : Grown(C) = C \cup {t \in passes : AllNodes[t].deps \cap C # {}}
  BY <1>1
<1>6. \A k \in 1 .. n : \A C \in V : step[<<k, C>>] = Grown(C)
  OBVIOUS
<1>7. step \in [(1 .. n) \X V -> V]
  BY <1>5
<1>p. passes \subseteq D /\ from \subseteq D
  OBVIOUS
<1> HIDE DEF V, step, Grown, W, passes, from, n
<1>8. PICK f : f \in [0 .. n -> V] /\ f[0] = from /\ \A k \in 1 .. n : f[k] = step[<<k, f[k - 1]>>]
  <2>1. StepOn(n, V, from, step)
    BY <1>2, <1>5, <1>7 DEF StepOn
  <2> QED
    BY <2>1, Iteration DEF Iterates
<1>9. \A k \in 1 .. n : f[k] = Grown(f[k - 1])
  <2>1. \A k \in 1 .. n : f[k - 1] \in V
    BY <1>2, <1>8
  <2> QED
    BY <1>6, <1>8, <2>1
<1>10. Eq(f)
  BY <1>2, <1>8, <1>9
<1>11. Eq(reach)
  BY <1>10
<1> HIDE DEF reach
<1>12. reach[0] = from /\ \A k \in 1 .. n : reach[k] = Grown(reach[k - 1])
  <2>1. \A k \in 0 .. n : reach[k] = IF k = 0 THEN from ELSE Grown(reach[k - 1])
    BY <1>11
  <2> QED
    BY <1>2, <2>1
<1>13. \A k \in 0 .. n : from \subseteq reach[k] /\ reach[k] \subseteq W
  <2> DEFINE S == {k \in 0 .. n : from \subseteq reach[k] /\ reach[k] \subseteq W}
  <2>1. 0 \in S
    BY <1>2, <1>3, <1>12
  <2>2. ASSUME NEW k \in 1 .. n, k - 1 \in S PROVE k \in S
    <3>1. reach[k] = reach[k - 1] \cup {t \in passes : AllNodes[t].deps \cap reach[k - 1] # {}}
      BY <1>12, <1>g
    <3>2. reach[k - 1] \subseteq W /\ from \subseteq reach[k - 1]
      BY <2>2
    <3>3. \A t \in passes : AllNodes[t].deps \cap reach[k - 1] # {} => t \in W
      BY <1>3, <3>2
    <3>4. k \in 0 .. n
      BY <1>2
    <3> QED
      BY <3>1, <3>2, <3>3, <3>4
  <2> HIDE DEF S
  <2>3. 0 .. n \subseteq S
    BY <1>2, <2>1, <2>2, UpTo
  <2> QED
    BY <2>3 DEF S
<1>14. ASSUME NEW k \in 1 .. n
       PROVE  reach[k - 1] \subseteq reach[k] /\ (reach[k - 1] # W => reach[k] # reach[k - 1])
  <2>1. reach[k] = reach[k - 1] \cup {t \in passes : AllNodes[t].deps \cap reach[k - 1] # {}}
    BY <1>12, <1>g
  <2>2. k - 1 \in 0 .. n
    BY <1>2
  <2>3. ASSUME reach[k - 1] # W PROVE reach[k] # reach[k - 1]
    <3> DEFINE left == W \ reach[k - 1]
    <3>1. left # {} /\ left \in SUBSET D
      BY <1>3, <1>13, <1>p, <2>2, <2>3
    <3>2. {Weight(u) : u \in left} \in SUBSET Nat /\ {Weight(u) : u \in left} # {}
      BY <1>2, <3>1, IdentifiersFinite
    <3>3. PICK w \in {Weight(u) : u \in left} : \A v \in {Weight(u) : u \in left} : w <= v
      BY <3>2, LeastNatural
    <3>4. PICK t \in left : w = Weight(t)
      OBVIOUS
    <3>5. t \in passes /\ t \in D
      BY <1>3, <1>13, <1>p, <2>2, <3>1
    <3>6. PICK u \in W : u \in AllNodes[t].deps
      BY <1>3, <3>5
    <3>7. Weight(u) < Weight(t) /\ Weight(u) \in Nat /\ Weight(t) \in Nat
      BY <1>1, <1>2, <3>5, <3>6, WaitsAreLighter, IdentifiersFinite
    <3>8. u \notin left
      BY <3>3, <3>4, <3>7
    <3>9. t \in reach[k]
      BY <2>1, <3>5, <3>6, <3>8
    <3> QED
      BY <3>9
  <2> QED
    BY <2>1, <2>3
<1> DEFINE c == Cardinality(W)
           chain == [k \in 0 .. c |-> reach[k]]
<1>15. IsFiniteSet(W) /\ c \in Nat /\ c <= n
  <2>1. W \subseteq D
    BY <1>3, <1>p
  <2> QED
    BY <1>2, <2>1, FS_Subset, FS_CardinalityType DEF n
<1>16. GrowsTo(W, chain)
  <2>1. c = Cardinality(W)
    OBVIOUS
  <2> HIDE DEF c
  <2>2. \A k \in 0 .. c : chain[k] = reach[k] /\ k \in 0 .. n
    BY <1>2, <1>15
  <2>3. chain \in [0 .. c -> SUBSET W]
    BY <1>13, <2>2
  <2>4. \A k \in 1 .. c : k \in 1 .. n /\ k \in 0 .. c /\ k - 1 \in 0 .. c
    BY <1>2, <1>15
  <2> HIDE DEF chain
  <2> QED
    BY <1>14, <2>1, <2>2, <2>3, <2>4 DEF GrowsTo
<1>17. reach[c] = W
  <2>1. chain[c] = W
    BY <1>15, <1>16, LayersFill
  <2> HIDE DEF c
  <2> QED
    BY <1>15, <2>1
<1> HIDE DEF c
<1>18. reach[n] = W
  <2> DEFINE S == {k \in 0 .. n : k >= c => reach[k] = W}
  <2>1. 0 \in S
    BY <1>2, <1>15, <1>17
  <2>2. ASSUME NEW k \in 1 .. n, k - 1 \in S PROVE k \in S
    <3>1. k >= c => k = c \/ k - 1 >= c
      BY <1>15
    <3>2. reach[k - 1] \subseteq reach[k] /\ reach[k] \subseteq W /\ k \in 0 .. n
      BY <1>2, <1>13, <1>14
    <3> QED
      BY <1>17, <2>2, <3>1, <3>2
  <2> HIDE DEF S
  <2>3. 0 .. n \subseteq S
    BY <1>2, <2>1, <2>2, UpTo
  <2>4. n \in S
    BY <1>2, <2>3
  <2> QED
    BY <1>15, <2>4 DEF S
<1> QED
  BY <1>4, <1>18

-----------------------------------------------------------------------------
(* The results.                                                             *)

\* For every workflow the build accepts whose conditions test ops that do not wait for them: a
\* task that names an op, or tests it in its condition, finds its task and waits for it, every
\* task can start, the order holds every task after its dependencies (the tasks that conditions
\* test are none), and two graphs merged under their prefixes stay apart
\* (RuntimeGraphBuilder.build, to_flowmesh_nodes, topological_order, with_node_prefix,
\* merge_runtime_graphs).
THEOREM GraphsRun == RGSpec => []GraphRuns
<1>1. GraphInv => GraphRuns
  <2> SUFFICES ASSUME GraphInv PROVE GraphRuns
    OBVIOUS
  <2>1. CASE ~ Ready
    BY <2>1 DEF GraphRuns, ReferencesResolve, AllTasksStart, OrderSound, MergedApart
  <2>2. CASE Ready
    <3>1. OpsSound /\ built = Build /\ Build.ok
      BY <2>2 DEF GraphInv, Ready
    <3>2. built.nodes = AllNodes
      BY <3>1, Built
    <3>3. ReferencesResolve
      BY <3>1, <3>2, ReferencesAreTasks DEF ReferencesResolve, DependsOn
    <3> QED
      BY <3>1, <3>3, TasksCanStart, TasksAreOrdered, MergedStayApart DEF GraphRuns
  <2> QED
    BY <2>1, <2>2
<1> QED
  BY <1>1, GraphInitInv, GraphNextInv, PTL DEF RGSpec

\* For every workflow the build accepts nothing of it gets lost: every output has its task, a
\* row lambda without a task is in the prompt of one, the inputs and local results that a
\* prompt reads whole have one row count, and one value for the whole run is told of just the tasks that a whole-list lambda
\* reaches (RuntimeGraphBuilder.build, _infer_structural_messages,
\* list_lambda_cardinality_nodes).
THEOREM GraphsAreComplete == RGSpec => []GraphComplete
<1>1. GraphInv => GraphComplete
  <2> SUFFICES ASSUME GraphInv PROVE GraphComplete
    OBVIOUS
  <2>1. CASE ~ Ready
    BY <2>1 DEF GraphComplete, NothingDropped, RowsNotDropped, WholeRunExact
  <2>2. CASE Ready
    <3>1. OpsSound /\ built = Build /\ Build.ok
      BY <2>2 DEF GraphInv, Ready
    <3>2. built.nodes = AllNodes
      BY <3>1, Built
    <3>3. NothingDropped
      BY <3>1, <3>2, OutputsAreTasks, NoLambdaIsDropped DEF NothingDropped
    <3>4. RowsNotDropped
      BY <3>1, PromptRowsAgree DEF RowsNotDropped
    <3>5. WholeRunExact
      BY <3>1, WholeRunReached
    <3> QED
      BY <3>3, <3>4, <3>5 DEF GraphComplete
  <2> QED
    BY <2>1, <2>2
<1> QED
  BY <1>1, GraphInitInv, GraphNextInv, PTL DEF RGSpec

-----------------------------------------------------------------------------
(* Least and greatest elements.                                             *)

\* A finite set that is not empty has an element that no other comes before.
LEMMA LeadingExists ==
  ASSUME NEW S, IsFiniteSet(S), S # {}, NEW lt,
         \A x \in S : <<x, x>> \notin lt,
         \A x, y, z \in S : <<x, y>> \in lt /\ <<y, z>> \in lt => <<x, z>> \in lt
  PROVE  \E x \in S : \A y \in S : <<y, x>> \notin lt
<1> DEFINE B(x) == {y \in S : <<y, x>> \in lt}
           f == [x \in S |-> Cardinality(B(x))]
<1>1. \A x \in S : IsFiniteSet(B(x)) /\ Cardinality(B(x)) \in Nat
  <2> SUFFICES ASSUME NEW x \in S PROVE IsFiniteSet(B(x)) /\ Cardinality(B(x)) \in Nat
    OBVIOUS
  <2>1. B(x) \subseteq S
    OBVIOUS
  <2> HIDE DEF B
  <2> QED
    BY <2>1, FS_Subset, FS_CardinalityType
<1>0. \A x \in S : f[x] = Cardinality(B(x))
  OBVIOUS
<1> HIDE DEF f
<1>2. {f[x] : x \in S} \in SUBSET Nat /\ {f[x] : x \in S} # {}
  <2> HIDE DEF B
  <2> QED
    BY <1>0, <1>1
<1>3. PICK m \in {f[x] : x \in S} : \A k \in {f[x] : x \in S} : m <= k
  BY <1>2, LeastNatural
<1>4. PICK x \in S : m = f[x]
  BY <1>3
<1>5. ASSUME NEW y \in S, <<y, x>> \in lt PROVE FALSE
  <2>1. B(y) \in SUBSET B(x) /\ B(y) # B(x)
    BY <1>5
  <2>2. Cardinality(B(y)) <= Cardinality(B(x)) /\ Cardinality(B(y)) # Cardinality(B(x))
    <3> HIDE DEF B
    <3> QED
      BY <1>1, <2>1, FS_Subset
  <2>3. m = Cardinality(B(x)) /\ m <= Cardinality(B(y))
    <3> HIDE DEF B
    <3> QED
      BY <1>0, <1>3, <1>4
  <2> HIDE DEF B
  <2> QED
    BY <1>1, <2>2, <2>3
<1> QED
  BY <1>5

\* The greatest and the least of finitely many numbers.
LEMMA MaxIs ==
  ASSUME NEW S \in SUBSET Int, IsFiniteSet(S), S # {}
  PROVE  Max(S) \in S /\ \A x \in S : x <= Max(S)
<1> DEFINE lt == {p \in S \X S : p[1] > p[2]}
<1>1. \A x, y \in S : <<x, y>> \in lt <=> x > y
  OBVIOUS
<1> HIDE DEF lt
<1>2. \E x \in S : \A y \in S : <<y, x>> \notin lt
  <2>1. \A x \in S : <<x, x>> \notin lt
    BY <1>1
  <2>2. \A x, y, z \in S : <<x, y>> \in lt /\ <<y, z>> \in lt => <<x, z>> \in lt
    BY <1>1
  <2> QED
    BY <2>1, <2>2, LeadingExists
<1>3. \E x \in S : \A y \in S : x >= y
  <2>1. PICK x \in S : \A y \in S : <<y, x>> \notin lt
    BY <1>2
  <2>2. \A y \in S : y \in Int /\ x \in Int /\ ~ (y > x)
    BY <1>1, <2>1
  <2> QED
    BY <2>2
<1> QED
  BY <1>3 DEF Max

LEMMA MinIs ==
  ASSUME NEW S \in SUBSET Int, IsFiniteSet(S), S # {}
  PROVE  Min(S) \in S /\ \A x \in S : Min(S) <= x
<1> DEFINE lt == {p \in S \X S : p[1] < p[2]}
<1>1. \A x, y \in S : <<x, y>> \in lt <=> x < y
  OBVIOUS
<1> HIDE DEF lt
<1>2. \E x \in S : \A y \in S : <<y, x>> \notin lt
  <2>1. \A x \in S : <<x, x>> \notin lt
    BY <1>1
  <2>2. \A x, y, z \in S : <<x, y>> \in lt /\ <<y, z>> \in lt => <<x, z>> \in lt
    BY <1>1
  <2> QED
    BY <2>1, <2>2, LeadingExists
<1>3. \E x \in S : \A y \in S : x <= y
  <2>1. PICK x \in S : \A y \in S : <<y, x>> \notin lt
    BY <1>2
  <2>2. \A y \in S : y \in Int /\ x \in Int /\ ~ (y < x)
    BY <1>1, <2>1
  <2> QED
    BY <2>2
<1> QED
  BY <1>3 DEF Min

\* Of two numbers.
LEMMA MaxOfTwo ==
  ASSUME NEW a \in Int, NEW b \in Int
  PROVE  Max({a, b}) = IF a >= b THEN a ELSE b
<1>1. IsFiniteSet({a, b}) /\ {a, b} \in SUBSET Int /\ {a, b} # {}
  <2>1. IsFiniteSet({a}) /\ IsFiniteSet({b})
    BY FS_Singleton
  <2>2. {a, b} = {a} \cup {b}
    OBVIOUS
  <2> QED
    BY <2>1, <2>2, FS_Union
<1>2. Max({a, b}) \in {a, b} /\ \A x \in {a, b} : x <= Max({a, b})
  BY <1>1, MaxIs
<1> QED
  BY <1>2

LEMMA MinOfTwo ==
  ASSUME NEW a \in Int, NEW b \in Int
  PROVE  Min({a, b}) = IF a <= b THEN a ELSE b
<1>1. IsFiniteSet({a, b}) /\ {a, b} \in SUBSET Int /\ {a, b} # {}
  <2>1. IsFiniteSet({a}) /\ IsFiniteSet({b})
    BY FS_Singleton
  <2>2. {a, b} = {a} \cup {b}
    OBVIOUS
  <2> QED
    BY <2>1, <2>2, FS_Union
<1>2. Min({a, b}) \in {a, b} /\ \A x \in {a, b} : Min({a, b}) <= x
  BY <1>1, MinIs
<1> QED
  BY <1>2

\* Lexicographic order of integer tuples of one length.
LEMMA LexIsOrder ==
  ASSUME NEW n \in Nat, NEW a \in [1 .. n -> Int], NEW b \in [1 .. n -> Int], NEW c \in [1 .. n -> Int]
  PROVE  /\ ~ LexBefore(a, a)
         /\ LexBefore(a, b) /\ LexBefore(b, c) => LexBefore(a, c)
         /\ a = b \/ LexBefore(a, b) \/ LexBefore(b, a)
<1>1. ~ LexBefore(a, a)
  BY DEF LexBefore
<1>2. ASSUME LexBefore(a, b), LexBefore(b, c) PROVE LexBefore(a, c)
  <2>1. PICK i \in 1 .. n : a[i] < b[i] /\ \A j \in 1 .. i - 1 : a[j] = b[j]
    BY <1>2 DEF LexBefore
  <2>2. PICK k \in 1 .. n : b[k] < c[k] /\ \A j \in 1 .. k - 1 : b[j] = c[j]
    BY <1>2 DEF LexBefore
  <2>3. CASE i <= k
    <3>1. a[i] < c[i]
      <4>1. CASE i = k
        BY <2>1, <2>2, <4>1
      <4>2. CASE i < k
        <5>1. b[i] = c[i]
          BY <2>2, <4>2
        <5> QED
          BY <2>1, <5>1
      <4> QED
        BY <2>3, <4>1, <4>2
    <3>2. \A j \in 1 .. i - 1 : a[j] = c[j]
      BY <2>1, <2>2, <2>3
    <3> QED
      BY <3>1, <3>2 DEF LexBefore
  <2>4. CASE k < i
    <3>1. a[k] < c[k]
      <4>1. a[k] = b[k]
        BY <2>1, <2>4
      <4> QED
        BY <2>2, <4>1
    <3>2. \A j \in 1 .. k - 1 : a[j] = c[j]
      BY <2>1, <2>2, <2>4
    <3> QED
      BY <3>1, <3>2 DEF LexBefore
  <2> QED
    BY <2>3, <2>4
<1>3. ASSUME a # b PROVE LexBefore(a, b) \/ LexBefore(b, a)
  <2> DEFINE D == {i \in 1 .. n : a[i] # b[i]}
  <2>0. (\A i \in 1 .. n : a[i] = b[i]) => a = b
    OBVIOUS
  <2>1. PICK j \in 1 .. n : a[j] # b[j]
    BY <1>3, <2>0
  <2>5. D \in SUBSET Nat /\ j \in D
    BY <2>1
  <2>2. PICK i \in D : \A k \in D : i <= k
    BY <2>5, LeastNatural
  <2>3. \A k \in 1 .. i - 1 : a[k] = b[k]
    BY <2>2
  <2>4. a[i] < b[i] \/ b[i] < a[i]
    OBVIOUS
  <2> QED
    BY <2>3, <2>4 DEF LexBefore
<1> QED
  BY <1>1, <1>2, <1>3

-----------------------------------------------------------------------------
(* CohortPack: cohorts cut into parts.                                      *)

\* The widths added up chain by chain.
Sums(w, sum) ==
  sum \in [0 .. MaxChains -> Nat] /\ sum[0] = 0 /\ \A c \in Chains : sum[c] = sum[c - 1] + w[c]

LEMMA SumUnfolds ==
  ASSUME MaxChains \in Nat, NEW w \in [Chains -> Nat]
  PROVE  \E sum : Sums(w, sum) /\ SumOf(w) = sum[MaxChains]
<1> DEFINE Eq(f) == f = [c \in 0 .. MaxChains |-> IF c = 0 THEN 0 ELSE f[c - 1] + w[c]]
           sum == CHOOSE f : Eq(f)
           step == [p \in (1 .. MaxChains) \X Nat |-> p[2] + w[p[1]]]
<1>1. SumOf(w) = sum[MaxChains]
  BY DEF SumOf
<1>2. StepOn(MaxChains, Nat, 0, step) /\ \A c \in 1 .. MaxChains : \A v \in Nat : step[<<c, v>>] = v + w[c]
  BY SMTT(60) DEF StepOn, Chains
<1> HIDE DEF step
<1>3. PICK g : Iterates(g, MaxChains, Nat, 0, step)
  BY <1>2, Iteration
<1>4. Sums(w, g)
  <2>1. g \in [0 .. MaxChains -> Nat] /\ g[0] = 0 /\ \A c \in 1 .. MaxChains : g[c] = step[<<c, g[c - 1]>>]
    BY <1>3 DEF Iterates
  <2>2. \A c \in 1 .. MaxChains : g[c - 1] \in Nat
    BY <2>1
  <2> QED
    BY <1>2, <2>1, <2>2 DEF Sums, Chains
<1>5. Eq(g)
  <2>1. g = [c \in 0 .. MaxChains |-> g[c]]
    BY <1>4 DEF Sums
  <2>2. \A c \in 0 .. MaxChains : g[c] = IF c = 0 THEN 0 ELSE g[c - 1] + w[c]
    BY <1>4 DEF Sums, Chains
  <2> QED
    BY <2>1, <2>2, Zenon
<1>6. Eq(sum)
  BY <1>5, Zenon
<1> HIDE DEF sum
<1>7. sum[0] = 0 /\ \A c \in Chains : sum[c] = sum[c - 1] + w[c]
  BY <1>6 DEF Chains
<1>8. \A c \in 0 .. MaxChains : sum[c] = g[c]
  <2> DEFINE S == {c \in 0 .. MaxChains : sum[c] = g[c]}
  <2>1. 0 \in S
    BY <1>4, <1>7 DEF Sums
  <2>2. \A c \in 1 .. MaxChains : c - 1 \in S => c \in S
    BY <1>4, <1>7 DEF Sums, Chains
  <2>3. 0 .. MaxChains \subseteq S
    <3> HIDE DEF S
    <3> QED
      BY <2>1, <2>2, UpTo
  <2> QED
    BY <2>3
<1>9. SumOf(w) = g[MaxChains]
  BY <1>1, <1>8
<1> QED
  BY <1>4, <1>9

\* The cut, chain by chain.
CutStep(last, width, total) ==
  CASE width = 0 -> last
    [] width # 0 /\ last.size # 0 /\ PartFull(last, width, total) -> [part |-> last.part + 1, size |-> width]
    [] OTHER -> [part |-> last.part, size |-> last.size + width]

LEMMA CutUnfolds ==
  ASSUME MaxChains \in Nat, NEW w \in [Chains -> Nat]
  PROVE  /\ Cut(w) \in [0 .. MaxChains -> [part : Nat \ {0}, size : Nat]]
         /\ Cut(w)[0] = [part |-> 1, size |-> 0]
         /\ \A c \in Chains : Cut(w)[c] = CutStep(Cut(w)[c - 1], w[c], SumOf(w))
<1> DEFINE V == [part : Nat \ {0}, size : Nat]
           total == SumOf(w)
           Eq(f) == f = [c \in 0 .. MaxChains |->
                           IF c = 0 THEN [part |-> 1, size |-> 0] ELSE CutStep(f[c - 1], w[c], total)]
           cut == CHOOSE f : Eq(f)
           step == [p \in (1 .. MaxChains) \X V |-> CutStep(p[2], w[p[1]], total)]
           first == [part |-> 1, size |-> 0]
<1>1. Cut(w) = cut
  BY DEF Cut, CutStep
<1>2. \A v \in V : \A n \in Nat : CutStep(v, n, total) \in V
  BY DEF CutStep
<1>3. StepOn(MaxChains, V, first, step) /\ \A c \in 1 .. MaxChains : \A v \in V : step[<<c, v>>] = CutStep(v, w[c], total)
  <2>1. \A c \in 1 .. MaxChains : \A v \in V : CutStep(v, w[c], total) \in V
    BY <1>2 DEF Chains
  <2>2. first \in V
    OBVIOUS
  <2> HIDE DEF V, first, total
  <2> QED
    BY <2>1, <2>2 DEF StepOn
<1> HIDE DEF step, V, first, total
<1>4. PICK g : Iterates(g, MaxChains, V, first, step)
  BY <1>3, Iteration
<1>5. g \in [0 .. MaxChains -> V] /\ g[0] = first /\ \A c \in 1 .. MaxChains : g[c] = CutStep(g[c - 1], w[c], total)
  <2>1. g \in [0 .. MaxChains -> V] /\ g[0] = first /\ \A c \in 1 .. MaxChains : g[c] = step[<<c, g[c - 1]>>]
    BY <1>4 DEF Iterates
  <2>2. \A c \in 1 .. MaxChains : g[c - 1] \in V
    BY <2>1
  <2> QED
    BY <1>3, <2>1, <2>2
<1>6. Eq(g)
  <2>1. g = [c \in 0 .. MaxChains |-> g[c]]
    BY <1>5
  <2>2. \A c \in 0 .. MaxChains : g[c] = IF c = 0 THEN [part |-> 1, size |-> 0] ELSE CutStep(g[c - 1], w[c], total)
    <3>1. \A c \in 0 .. MaxChains : c = 0 \/ c \in 1 .. MaxChains
      OBVIOUS
    <3> QED
      BY <1>5, <3>1 DEF first
  <2> QED
    BY <2>1, <2>2, Zenon
<1>7. Eq(cut)
  BY <1>6, Zenon
<1> HIDE DEF cut
<1>8. cut[0] = first /\ \A c \in 1 .. MaxChains : cut[c] = CutStep(cut[c - 1], w[c], total)
  BY <1>7 DEF first
<1>9. \A c \in 0 .. MaxChains : cut[c] = g[c]
  <2> DEFINE S == {c \in 0 .. MaxChains : cut[c] = g[c]}
  <2>1. 0 \in S
    BY <1>5, <1>8
  <2>2. \A c \in 1 .. MaxChains : c - 1 \in S => c \in S
    BY <1>5, <1>8
  <2>3. 0 .. MaxChains \subseteq S
    <3> HIDE DEF S
    <3> QED
      BY <2>1, <2>2, UpTo
  <2> QED
    BY <2>3
<1>10. cut = g
  <2>1. cut = [c \in 0 .. MaxChains |-> cut[c]]
    BY <1>7
  <2>2. g = [c \in 0 .. MaxChains |-> g[c]]
    BY <1>5
  <2> QED
    BY <1>9, <2>1, <2>2, Zenon
<1> QED
  BY <1>1, <1>5, <1>10 DEF V, first, total, Chains

\* The chains of a part, and what they add up to, chain by chain.
PartWidths(w, i) == [c \in Chains |-> IF Cut(w)[c].part = i THEN w[c] ELSE 0]
PartSum(w, i) == CHOOSE sum : Sums(PartWidths(w, i), sum) /\ SumOf(PartWidths(w, i)) = sum[MaxChains]
AllSum(w) == CHOOSE sum : Sums(w, sum) /\ SumOf(w) = sum[MaxChains]

LEMMA PartSums ==
  ASSUME MaxChains \in Nat, NEW w \in [Chains -> Nat]
  PROVE  /\ SumOf(w) \in Nat /\ AllSum(w) \in [0 .. MaxChains -> Nat] /\ AllSum(w)[0] = 0
         /\ SumOf(w) = AllSum(w)[MaxChains]
         /\ \A c \in Chains : AllSum(w)[c] = AllSum(w)[c - 1] + w[c]
         /\ \A i \in Nat :
              /\ PartSum(w, i) \in [0 .. MaxChains -> Nat] /\ PartSum(w, i)[0] = 0
              /\ SumOf(PartWidths(w, i)) = PartSum(w, i)[MaxChains]
              /\ \A c \in Chains :
                   PartSum(w, i)[c] = PartSum(w, i)[c - 1] + (IF Cut(w)[c].part = i THEN w[c] ELSE 0)
<1>1. Sums(w, AllSum(w)) /\ SumOf(w) = AllSum(w)[MaxChains]
  <2>1. \E sum : Sums(w, sum) /\ SumOf(w) = sum[MaxChains]
    BY SumUnfolds
  <2> QED
    BY <2>1, Zenon DEF AllSum
<1>2. ASSUME NEW i \in Nat
      PROVE  Sums(PartWidths(w, i), PartSum(w, i)) /\ SumOf(PartWidths(w, i)) = PartSum(w, i)[MaxChains]
  <2>1. PartWidths(w, i) \in [Chains -> Nat]
    BY DEF PartWidths
  <2>2. \E sum : Sums(PartWidths(w, i), sum) /\ SumOf(PartWidths(w, i)) = sum[MaxChains]
    BY <2>1, SumUnfolds
  <2> QED
    BY <2>2, Zenon DEF PartSum
<1>3. \A i \in Nat : \A c \in Chains : PartWidths(w, i)[c] = IF Cut(w)[c].part = i THEN w[c] ELSE 0
  BY DEF PartWidths
<1>4. SumOf(w) \in Nat
  BY <1>1 DEF Sums
<1>5. ASSUME NEW i \in Nat
      PROVE  /\ PartSum(w, i) \in [0 .. MaxChains -> Nat] /\ PartSum(w, i)[0] = 0
             /\ SumOf(PartWidths(w, i)) = PartSum(w, i)[MaxChains]
             /\ \A c \in Chains :
                  PartSum(w, i)[c] = PartSum(w, i)[c - 1] + (IF Cut(w)[c].part = i THEN w[c] ELSE 0)
  BY <1>2, <1>3 DEF Sums
<1> QED
  BY <1>1, <1>4, <1>5 DEF Sums

\* The number of parts aimed at: one when all fit a batch, otherwise no more than it takes.
LEMMA PartCountIs ==
  ASSUME BatchSize \in Nat \ {0}, NEW total \in Nat
  PROVE  /\ PartCount(total) \in Nat \ {0}
         /\ PartCount(total) > 1 => (PartCount(total) - 1) * BatchSize < total
<1> DEFINE q == (total + BatchSize - 1) \div BatchSize
           r == (total + BatchSize - 1) % BatchSize
<1>1. q \in Int /\ r \in 0 .. BatchSize - 1 /\ total + BatchSize - 1 = BatchSize * q + r
  OBVIOUS
<1> HIDE DEF q, r
<1>2. PartCount(total) = IF 1 >= q THEN 1 ELSE q
  BY <1>1, MaxOfTwo DEF PartCount, CeilDiv, q
<1>3. (q - 1) * BatchSize < total
  <2>1. (q - 1) * BatchSize = BatchSize * q - BatchSize
    BY <1>1
  <2> QED
    BY <1>1, <2>1
<1> QED
  BY <1>1, <1>2, <1>3

\* What holds of the cut up to chain c: the part it is in has the size recorded and later parts
\* are empty; a part of several chains fits a batch; and a part that is closed was full.
Alone(w, i, c) == \E d \in 1 .. c : \A e \in 1 .. c : w[e] # 0 /\ Cut(w)[e].part = i => e = d
ClosedFull(w, i, c) ==
  \E n \in Nat \ {0} :
    /\ n <= PartSum(w, i + 1)[c]
    /\ \/ PartSum(w, i)[c] + n > BatchSize
       \/ i < PartCount(SumOf(w)) /\ PartSum(w, i)[c] * PartCount(SumOf(w)) >= SumOf(w)
CutSound(w, c) ==
  LET last == Cut(w)[c]
  IN  /\ \A e \in 1 .. c : Cut(w)[e].part <= last.part
      /\ last.size = 0 => last.part = 1 /\ \A e \in 1 .. c : w[e] = 0
      /\ PartSum(w, last.part)[c] = last.size
      /\ \A i \in Nat : i > last.part => PartSum(w, i)[c] = 0
      /\ \A i \in 1 .. last.part : PartSum(w, i)[c] <= BatchSize \/ Alone(w, i, c)
      /\ \A i \in 1 .. last.part - 1 : ClosedFull(w, i, c)
      /\ (\A i \in 1 .. last.part - 1 : PartSum(w, i)[c] <= BatchSize) =>
           /\ AllSum(w)[c] <= (last.part - 1) * BatchSize + last.size
           /\ last.part > 1 =>
                AllSum(w)[c] <= (last.part - 2) * BatchSize + PartSum(w, last.part - 1)[c] + last.size

LEMMA CutSoundStep ==
  ASSUME MaxChains \in Nat, BatchSize \in Nat \ {0}, NEW w \in [Chains -> Nat],
         NEW c \in Chains, CutSound(w, c - 1)
  PROVE  CutSound(w, c)
<1> DEFINE cut == Cut(w)
           p(i) == PartSum(w, i)
           all == AllSum(w)
           last == cut[c - 1]
           now == cut[c]
<1>1. /\ c \in 1 .. MaxChains /\ c - 1 \in 0 .. MaxChains /\ c \in 0 .. MaxChains /\ w[c] \in Nat
      /\ \A e \in 1 .. c : e = c \/ e \in 1 .. c - 1
      /\ \A e \in 1 .. c - 1 : e \in 1 .. c
  BY DEF Chains
<1>2. /\ \A e \in 0 .. MaxChains : cut[e].part \in Nat \ {0} /\ cut[e].size \in Nat
      /\ now = CutStep(last, w[c], SumOf(w))
  BY CutUnfolds
<1>3. /\ SumOf(w) \in Nat /\ all[c - 1] \in Nat /\ all[c] = all[c - 1] + w[c]
      /\ \A i \in Nat : /\ p(i)[c - 1] \in Nat /\ p(i)[c] \in Nat
                        /\ p(i)[c] = p(i)[c - 1] + (IF now.part = i THEN w[c] ELSE 0)
  <2>1. SumOf(w) \in Nat /\ all \in [0 .. MaxChains -> Nat] /\ all[c] = all[c - 1] + w[c]
    BY PartSums
  <2>2. ASSUME NEW i \in Nat
        PROVE  /\ p(i) \in [0 .. MaxChains -> Nat]
               /\ p(i)[c] = p(i)[c - 1] + (IF now.part = i THEN w[c] ELSE 0)
    BY PartSums
  <2> HIDE DEF all, p, now
  <2>3. all[c - 1] \in Nat
    BY <1>1, <2>1
  <2>4. ASSUME NEW i \in Nat PROVE p(i)[c - 1] \in Nat /\ p(i)[c] \in Nat
    BY <1>1, <2>2
  <2> QED
    BY <2>1, <2>2, <2>3, <2>4
<1>4. /\ \A e \in 1 .. c - 1 : cut[e].part <= last.part
      /\ last.size = 0 => last.part = 1 /\ \A e \in 1 .. c - 1 : w[e] = 0
      /\ p(last.part)[c - 1] = last.size
      /\ \A i \in Nat : i > last.part => p(i)[c - 1] = 0
      /\ \A i \in 1 .. last.part : p(i)[c - 1] <= BatchSize \/ Alone(w, i, c - 1)
      /\ \A i \in 1 .. last.part - 1 : ClosedFull(w, i, c - 1)
      /\ (\A i \in 1 .. last.part - 1 : p(i)[c - 1] <= BatchSize) =>
           /\ all[c - 1] <= (last.part - 1) * BatchSize + last.size
           /\ last.part > 1 => all[c - 1] <= (last.part - 2) * BatchSize + p(last.part - 1)[c - 1] + last.size
  BY DEF CutSound
<1>5. PartCount(SumOf(w)) \in Nat
  BY <1>3, PartCountIs
<1>6. last.part \in Nat \ {0} /\ last.size \in Nat /\ now.part \in Nat \ {0} /\ now.size \in Nat
  BY <1>1, <1>2
<1> DEFINE Full(i, at) == \E n \in Nat \ {0} :
                            /\ n <= p(i + 1)[at]
                            /\ \/ p(i)[at] + n > BatchSize
                               \/ i < PartCount(SumOf(w)) /\ p(i)[at] * PartCount(SumOf(w)) >= SumOf(w)
           Single(i, at) == \E d \in 1 .. at : \A e \in 1 .. at : w[e] # 0 /\ cut[e].part = i => e = d
<1>7. \A i : Full(i, c) = ClosedFull(w, i, c) /\ Full(i, c - 1) = ClosedFull(w, i, c - 1)
  BY DEF ClosedFull
<1>8. \A i : Single(i, c) = Alone(w, i, c) /\ Single(i, c - 1) = Alone(w, i, c - 1)
  BY DEF Alone
<1> SUFFICES
      /\ \A e \in 1 .. c : cut[e].part <= now.part
      /\ now.size = 0 => now.part = 1 /\ \A e \in 1 .. c : w[e] = 0
      /\ p(now.part)[c] = now.size
      /\ \A i \in Nat : i > now.part => p(i)[c] = 0
      /\ \A i \in 1 .. now.part : p(i)[c] <= BatchSize \/ Single(i, c)
      /\ \A i \in 1 .. now.part - 1 : Full(i, c)
      /\ (\A i \in 1 .. now.part - 1 : p(i)[c] <= BatchSize) =>
           /\ all[c] <= (now.part - 1) * BatchSize + now.size
           /\ now.part > 1 => all[c] <= (now.part - 2) * BatchSize + p(now.part - 1)[c] + now.size
  BY <1>7, <1>8 DEF CutSound
<1> HIDE DEF cut, p, all, last, now
<1>9. /\ \A e \in 1 .. c - 1 : cut[e].part \in Nat
      /\ last = cut[c - 1] /\ now = cut[c]
  BY <1>1, <1>2 DEF last, now
<1>a. CASE w[c] = 0
  <2>1. now = last
    BY <1>2, <1>a DEF CutStep
  <2>2. all[c] = all[c - 1] /\ \A i \in Nat : p(i)[c] = p(i)[c - 1]
    BY <1>3, <1>a
  <2>3. \A i \in Nat : Full(i, c - 1) => Full(i, c)
    BY <2>2
  <2>4. \A i \in Nat : Single(i, c - 1) => Single(i, c)
    <3> SUFFICES ASSUME NEW i \in Nat, Single(i, c - 1) PROVE Single(i, c)
      OBVIOUS
    <3>1. PICK d \in 1 .. c - 1 : \A e \in 1 .. c - 1 : w[e] # 0 /\ cut[e].part = i => e = d
      OBVIOUS
    <3>2. d \in 1 .. c /\ \A e \in 1 .. c : w[e] # 0 /\ cut[e].part = i => e = d
      BY <1>1, <1>a, <3>1
    <3> QED
      BY <3>2
  <2> HIDE DEF Full, Single
  <2>0. now.part = last.part /\ now.size = last.size
    BY <2>1
  <2>5. \A i \in 1 .. now.part : p(i)[c] <= BatchSize \/ Single(i, c)
    <3> SUFFICES ASSUME NEW i \in 1 .. now.part PROVE p(i)[c] <= BatchSize \/ Single(i, c)
      OBVIOUS
    <3>1. i \in Nat /\ i \in 1 .. last.part
      BY <1>6, <2>0
    <3>2. p(i)[c - 1] <= BatchSize \/ Single(i, c - 1)
      BY <1>4, <1>8, <3>1
    <3> QED
      BY <2>2, <2>4, <3>1, <3>2
  <2>6. \A i \in 1 .. now.part - 1 : Full(i, c)
    <3> SUFFICES ASSUME NEW i \in 1 .. now.part - 1 PROVE Full(i, c)
      OBVIOUS
    <3>1. i \in Nat /\ i \in 1 .. last.part - 1
      BY <1>6, <2>0
    <3> QED
      BY <1>4, <1>7, <2>3, <3>1
  <2>7. \A e \in 1 .. c : cut[e].part <= now.part
    <3> SUFFICES ASSUME NEW e \in 1 .. c PROVE cut[e].part <= now.part
      OBVIOUS
    <3>1. CASE e = c
      BY <1>6, <1>9, <3>1
    <3>2. CASE e \in 1 .. c - 1
      BY <1>4, <2>0, <3>2
    <3> QED
      BY <1>1, <3>1, <3>2
  <2>8. now.size = 0 => now.part = 1 /\ \A e \in 1 .. c : w[e] = 0
    BY <1>1, <1>4, <1>a, <2>0
  <2>9. p(now.part)[c] = now.size /\ \A i \in Nat : i > now.part => p(i)[c] = 0
    BY <1>4, <1>6, <2>1, <2>2
  <2>10. (\A i \in 1 .. now.part - 1 : p(i)[c] <= BatchSize) =>
           /\ all[c] <= (now.part - 1) * BatchSize + now.size
           /\ now.part > 1 => all[c] <= (now.part - 2) * BatchSize + p(now.part - 1)[c] + now.size
    BY <1>4, <1>6, <2>1, <2>2
  <2> QED
    BY <2>5, <2>6, <2>7, <2>8, <2>9, <2>10
<1>b. CASE w[c] # 0 /\ last.size # 0 /\ PartFull(last, w[c], SumOf(w))
  <2>1. now.part = last.part + 1 /\ now.size = w[c]
    BY <1>2, <1>b DEF CutStep
  <2>2. \A i \in Nat : i # last.part + 1 => p(i)[c] = p(i)[c - 1]
    BY <1>3, <2>1
  <2>3. p(last.part + 1)[c] = w[c]
    BY <1>3, <1>4, <1>6, <2>1
  <2>4. Full(last.part, c)
    <3>1. p(last.part)[c] = last.size
      BY <1>4, <1>6, <2>2
    <3>2. \/ last.size + w[c] > BatchSize
          \/ last.part < PartCount(SumOf(w)) /\ last.size * PartCount(SumOf(w)) >= SumOf(w)
      BY <1>b DEF PartFull
    <3>3. w[c] \in Nat \ {0} /\ w[c] <= p(last.part + 1)[c]
      BY <1>1, <1>b, <2>3
    <3> QED
      BY <3>1, <3>2, <3>3
  <2>5. \A i \in 1 .. last.part - 1 : Full(i, c - 1) => Full(i, c)
    <3> SUFFICES ASSUME NEW i \in 1 .. last.part - 1, Full(i, c - 1) PROVE Full(i, c)
      OBVIOUS
    <3>1. p(i)[c] = p(i)[c - 1] /\ p(i + 1)[c] = p(i + 1)[c - 1]
      BY <1>6, <2>2
    <3> QED
      BY <3>1
  <2>6. \A i \in 1 .. last.part : Single(i, c - 1) => Single(i, c)
    <3> SUFFICES ASSUME NEW i \in 1 .. last.part, Single(i, c - 1) PROVE Single(i, c)
      OBVIOUS
    <3>1. cut[c].part # i
      BY <1>6, <1>9, <2>1
    <3>2. PICK d \in 1 .. c - 1 : \A e \in 1 .. c - 1 : w[e] # 0 /\ cut[e].part = i => e = d
      OBVIOUS
    <3>3. d \in 1 .. c /\ \A e \in 1 .. c : w[e] # 0 /\ cut[e].part = i => e = d
      BY <1>1, <3>1, <3>2
    <3> QED
      BY <3>3
  <2>7. Single(now.part, c)
    <3>1. \A e \in 1 .. c - 1 : cut[e].part # now.part
      BY <1>4, <1>6, <1>9, <2>1
    <3> QED
      BY <1>1, <3>1
  <2>8. \A i \in 1 .. now.part : p(i)[c] <= BatchSize \/ Single(i, c)
    <3> HIDE DEF Single
    <3>1. \A i \in 1 .. now.part : i = now.part \/ (i \in 1 .. last.part /\ i # last.part + 1)
      BY <1>6, <2>1
    <3> QED
      BY <1>4, <1>8, <2>2, <2>6, <2>7, <3>1
  <2>9. \A i \in 1 .. now.part - 1 : Full(i, c)
    <3> HIDE DEF Full
    <3>1. \A i \in 1 .. now.part - 1 : i = last.part \/ i \in 1 .. last.part - 1
      BY <1>6, <2>1
    <3> QED
      BY <1>4, <1>7, <2>4, <2>5, <3>1
  <2> HIDE DEF Full, Single
  <2>10. \A e \in 1 .. c : cut[e].part <= now.part
    BY <1>1, <1>4, <1>6, <1>9, <2>1
  <2>11. now.size # 0 /\ p(now.part)[c] = now.size /\ \A i \in Nat : i > now.part => p(i)[c] = 0
    BY <1>4, <1>6, <1>b, <2>1, <2>2, <2>3
  <2>12. ASSUME \A i \in 1 .. now.part - 1 : p(i)[c] <= BatchSize
         PROVE  /\ all[c] <= (now.part - 1) * BatchSize + now.size
                /\ all[c] <= (now.part - 2) * BatchSize + p(now.part - 1)[c] + now.size
    <3>1. p(last.part)[c] = last.size /\ last.size <= BatchSize
      BY <1>4, <1>6, <2>1, <2>2, <2>12
    <3>2. \A i \in 1 .. last.part - 1 : p(i)[c - 1] <= BatchSize
      BY <1>6, <2>1, <2>2, <2>12
    <3>3. all[c - 1] <= (last.part - 1) * BatchSize + last.size
      BY <1>4, <3>2
    <3>4. now.part - 2 = last.part - 1 /\ now.part - 1 = last.part
      BY <1>6, <2>1
    <3>5. all[c] <= (now.part - 2) * BatchSize + p(now.part - 1)[c] + now.size
      BY <1>3, <1>6, <2>1, <3>1, <3>3, <3>4
    <3>6. last.part * BatchSize = (last.part - 1) * BatchSize + BatchSize
      BY <1>6
    <3> QED
      BY <1>3, <1>6, <2>1, <3>1, <3>3, <3>4, <3>5, <3>6
  <2> QED
    BY <2>8, <2>9, <2>10, <2>11, <2>12
<1>c. CASE w[c] # 0 /\ ~ (last.size # 0 /\ PartFull(last, w[c], SumOf(w)))
  <2>1. now.part = last.part /\ now.size = last.size + w[c]
    BY <1>2, <1>c DEF CutStep
  <2>2. \A i \in Nat : i # last.part => p(i)[c] = p(i)[c - 1]
    BY <1>3, <2>1
  <2>3. p(last.part)[c] = last.size + w[c]
    BY <1>3, <1>4, <1>6, <2>1
  <2>5. \A i \in 1 .. last.part - 1 : Full(i, c - 1) => Full(i, c)
    <3> SUFFICES ASSUME NEW i \in 1 .. last.part - 1, Full(i, c - 1) PROVE Full(i, c)
      OBVIOUS
    <3>1. p(i)[c] = p(i)[c - 1] /\ p(i + 1)[c] >= p(i + 1)[c - 1]
      BY <1>3, <1>6, <1>1, <2>2
    <3>2. p(i + 1)[c] \in Nat /\ p(i + 1)[c - 1] \in Nat
      BY <1>3, <1>6
    <3>3. PICK n \in Nat \ {0} :
            /\ n <= p(i + 1)[c - 1]
            /\ \/ p(i)[c - 1] + n > BatchSize
               \/ i < PartCount(SumOf(w)) /\ p(i)[c - 1] * PartCount(SumOf(w)) >= SumOf(w)
      OBVIOUS
    <3>4. n <= p(i + 1)[c]
      BY <3>1, <3>2, <3>3
    <3> QED
      BY <3>1, <3>3, <3>4
  <2>6. \A i \in 1 .. last.part - 1 : Single(i, c - 1) => Single(i, c)
    <3> SUFFICES ASSUME NEW i \in 1 .. last.part - 1, Single(i, c - 1) PROVE Single(i, c)
      OBVIOUS
    <3>1. cut[c].part # i
      BY <1>6, <1>9, <2>1
    <3>2. PICK d \in 1 .. c - 1 : \A e \in 1 .. c - 1 : w[e] # 0 /\ cut[e].part = i => e = d
      OBVIOUS
    <3>3. d \in 1 .. c /\ \A e \in 1 .. c : w[e] # 0 /\ cut[e].part = i => e = d
      BY <1>1, <3>1, <3>2
    <3> QED
      BY <3>3
  <2>7. p(last.part)[c] <= BatchSize \/ Single(last.part, c)
    <3>1. CASE last.size = 0
      BY <1>1, <1>4, <3>1
    <3>2. CASE last.size # 0
      BY <1>1, <1>6, <1>c, <2>3, <3>2 DEF PartFull
    <3> QED
      BY <3>1, <3>2
  <2>8. \A i \in 1 .. now.part : p(i)[c] <= BatchSize \/ Single(i, c)
    <3> HIDE DEF Single
    <3>1. \A i \in 1 .. now.part : i = last.part \/ (i \in 1 .. last.part - 1 /\ i # last.part)
      BY <1>6, <2>1
    <3>2. \A i \in 1 .. last.part - 1 : i \in 1 .. last.part /\ i \in Nat
      BY <1>6
    <3> QED
      BY <1>4, <1>8, <2>2, <2>6, <2>7, <3>1, <3>2
  <2>9. \A i \in 1 .. now.part - 1 : Full(i, c)
    BY <1>4, <1>7, <2>1, <2>5
  <2> HIDE DEF Full, Single
  <2>10. \A e \in 1 .. c : cut[e].part <= now.part
    BY <1>1, <1>4, <1>6, <1>9, <2>1
  <2>11. now.size # 0 /\ p(now.part)[c] = now.size /\ \A i \in Nat : i > now.part => p(i)[c] = 0
    BY <1>1, <1>4, <1>6, <1>c, <2>1, <2>2, <2>3
  <2>12. ASSUME \A i \in 1 .. now.part - 1 : p(i)[c] <= BatchSize
         PROVE  /\ all[c] <= (now.part - 1) * BatchSize + now.size
                /\ now.part > 1 => all[c] <= (now.part - 2) * BatchSize + p(now.part - 1)[c] + now.size
    <3>1. \A i \in 1 .. last.part - 1 : p(i)[c - 1] <= BatchSize
      BY <1>6, <2>1, <2>2, <2>12
    <3>2. last.part > 1 => p(last.part - 1)[c] = p(last.part - 1)[c - 1]
      BY <1>6, <2>2
    <3> QED
      BY <1>1, <1>3, <1>4, <1>6, <2>1, <3>1, <3>2
  <2> QED
    BY <2>8, <2>9, <2>10, <2>11, <2>12
<1> QED
  BY <1>a, <1>b, <1>c


LEMMA CutIsSound ==
  ASSUME MaxChains \in Nat, BatchSize \in Nat \ {0}, NEW w \in [Chains -> Nat]
  PROVE  CutSound(w, MaxChains)
<1> DEFINE S == {c \in 0 .. MaxChains : CutSound(w, c)}
<1>1. CutSound(w, 0)
  <2>1. Cut(w)[0] = [part |-> 1, size |-> 0]
    BY CutUnfolds
  <2>2. AllSum(w)[0] = 0 /\ \A i \in Nat : PartSum(w, i)[0] = 0
    BY PartSums
  <2>3. Cut(w)[0].part = 1 /\ Cut(w)[0].size = 0
    BY <2>1
  <2> HIDE DEF S
  <2> QED
    BY <2>2, <2>3 DEF CutSound
<1>2. \A c \in 1 .. MaxChains : c - 1 \in S => c \in S
  <2> SUFFICES ASSUME NEW c \in 1 .. MaxChains, CutSound(w, c - 1) PROVE CutSound(w, c)
    OBVIOUS
  <2> QED
    BY CutSoundStep DEF Chains
<1>3. 0 \in S
  BY <1>1
<1>4. 0 .. MaxChains \subseteq S
  <2> HIDE DEF S
  <2> QED
    BY <1>2, <1>3, UpTo
<1>5. MaxChains \in 0 .. MaxChains
  OBVIOUS
<1> QED
  BY <1>4, <1>5

\* Two numbers that each make up a share of a total are as much as all but one of its batches.
LEMMA TwoShares ==
  ASSUME NEW n \in Nat, n > 1, NEW size \in Nat \ {0}, NEW total \in Nat, (n - 1) * size < total,
         NEW a \in Nat, NEW b \in Nat, a * n >= total, b * n >= total
  PROVE  a + b > size
<1> SUFFICES ASSUME a + b <= size PROVE FALSE
  OBVIOUS
<1>1. (a + b) * n = a * n + b * n
  OBVIOUS
<1>2. (a + b) * n <= size * n
  <2> DEFINE d == size - (a + b)
  <2>1. d \in Nat /\ size = (a + b) + d
    OBVIOUS
  <2> HIDE DEF d
  <2>2. d * n \in Nat /\ size * n = (a + b) * n + d * n
    BY <2>1
  <2>3. (a + b) * n \in Nat /\ size * n \in Nat
    OBVIOUS
  <2> QED
    BY <2>2, <2>3
<1>3. (n - 1) * size = size * n - size
  OBVIOUS
<1>4. size * n >= size + size
  <2> DEFINE d == n - 2
  <2>1. d \in Nat /\ n = d + 2
    OBVIOUS
  <2> HIDE DEF d
  <2>2. size * n = size * d + size + size /\ size * d \in Nat
    BY <2>1
  <2> QED
    BY <2>2
<1>5. a * n \in Nat /\ b * n \in Nat /\ size * n \in Nat
  OBVIOUS
<1> HIDE DEF CeilDiv
<1> QED
  BY <1>1, <1>2, <1>3, <1>4, <1>5

\* A part of several chains fits a batch; no two neighbouring parts of a fine cut, with the
\* next part when there is one, are needlessly apart.
PartSize(w, i) == SumOf(PartWidths(w, i))
CutFits(w) ==
  LET parts == 1 .. Cut(w)[MaxChains].part
  IN  /\ \A i \in parts : \/ PartSize(w, i) <= BatchSize
                          \/ \E c \in Chains : \A d \in Chains : w[d] # 0 /\ Cut(w)[d].part = i => d = c
      /\ (\A i \in parts : PartSize(w, i) <= BatchSize) =>
           \A i \in parts : i + 1 \in parts =>
             \/ PartSize(w, i) + PartSize(w, i + 1) > BatchSize
             \/ i + 2 \in parts /\ PartSize(w, i + 1) + PartSize(w, i + 2) > BatchSize

LEMMA CutsFit ==
  ASSUME MaxChains \in Nat, BatchSize \in Nat \ {0}, NEW w \in [Chains -> Nat]
  PROVE  CutFits(w)
<1> DEFINE p(i) == PartSum(w, i)[MaxChains]
           m == Cut(w)[MaxChains].part
           total == SumOf(w)
           n == PartCount(total)
<1>1. \A i \in Nat : PartSize(w, i) = p(i) /\ p(i) \in Nat
  <2> SUFFICES ASSUME NEW i \in Nat PROVE PartSize(w, i) = p(i) /\ p(i) \in Nat
    OBVIOUS
  <2>1. PartSum(w, i) \in [0 .. MaxChains -> Nat] /\ SumOf(PartWidths(w, i)) = PartSum(w, i)[MaxChains]
    BY PartSums
  <2>2. MaxChains \in 0 .. MaxChains
    OBVIOUS
  <2> QED
    BY <2>1, <2>2 DEF PartSize
<1>2. m \in Nat \ {0} /\ Cut(w)[MaxChains].size \in Nat
  <2>1. MaxChains \in 0 .. MaxChains
    OBVIOUS
  <2>2. Cut(w) \in [0 .. MaxChains -> [part : Nat \ {0}, size : Nat]]
    BY CutUnfolds
  <2>3. Cut(w)[MaxChains] \in [part : Nat \ {0}, size : Nat]
    BY <2>1, <2>2
  <2> QED
    BY <2>3
<1>3. total \in Nat /\ AllSum(w)[MaxChains] = total
  BY PartSums
<1>4. n \in Nat \ {0} /\ (n > 1 => (n - 1) * BatchSize < total)
  BY <1>3, PartCountIs
<1>5. /\ \A i \in 1 .. m : p(i) <= BatchSize \/ Alone(w, i, MaxChains)
      /\ \A i \in 1 .. m - 1 : ClosedFull(w, i, MaxChains)
      /\ (\A i \in 1 .. m - 1 : p(i) <= BatchSize) /\ m > 1 =>
           total <= (m - 2) * BatchSize + p(m - 1) + p(m)
  BY CutIsSound, <1>3 DEF CutSound
<1>6. ASSUME NEW i \in 1 .. m - 1
      PROVE  p(i) + p(i + 1) > BatchSize \/ (i < n /\ p(i) * n >= total)
  <2>1. PICK k \in Nat \ {0} : /\ k <= p(i + 1)
                               /\ \/ p(i) + k > BatchSize
                                  \/ i < n /\ p(i) * n >= total
    BY <1>5 DEF ClosedFull
  <2>2. p(i) \in Nat /\ p(i + 1) \in Nat
    BY <1>1, <1>2
  <2> HIDE DEF p, m, n, total
  <2> QED
    BY <2>1, <2>2
<1>7. ASSUME \A i \in 1 .. m : p(i) <= BatchSize, NEW i \in 1 .. m, i + 1 \in 1 .. m
      PROVE  p(i) + p(i + 1) > BatchSize \/ (i + 2 \in 1 .. m /\ p(i + 1) + p(i + 2) > BatchSize)
  <2> HIDE DEF p, m, n, total
  <2> SUFFICES ASSUME p(i) + p(i + 1) <= BatchSize
               PROVE  i + 2 \in 1 .. m /\ p(i + 1) + p(i + 2) > BatchSize
    BY <1>1, <1>2, <1>7
  <2>0. i \in Nat /\ i \in 1 .. m - 1 /\ p(i) \in Nat /\ p(i + 1) \in Nat
    BY <1>1, <1>2, <1>7
  <2>1. i < n /\ p(i) * n >= total
    BY <1>6, <2>0
  <2>2. n \in Nat /\ n > 1 /\ (n - 1) * BatchSize < total
    BY <1>4, <2>0, <2>1
  <2>3. i + 1 # m
    <3> SUFFICES ASSUME i + 1 = m PROVE FALSE
      OBVIOUS
    <3>1. total <= (m - 2) * BatchSize + p(i) + p(i + 1)
      <4>1. m > 1 /\ m - 1 = i /\ m = i + 1
        BY <1>2, <2>0
      <4>2. total <= (m - 2) * BatchSize + p(m - 1) + p(m)
        BY <1>2, <1>5, <1>7, <4>1
      <4> QED
        BY <4>1, <4>2
    <3>2. (m - 2) * BatchSize + BatchSize = (m - 1) * BatchSize
      BY <1>2
    <3>3. (m - 1) * BatchSize <= (n - 1) * BatchSize
      <4> DEFINE d == n - m
      <4>1. d \in Nat /\ n = m + d
        BY <1>2, <2>0, <2>1, <2>2
      <4> HIDE DEF d
      <4>2. (n - 1) * BatchSize = (m - 1) * BatchSize + d * BatchSize /\ d * BatchSize \in Nat
        BY <1>2, <4>1
      <4> QED
        BY <1>2, <2>2, <4>2
    <3>4. (m - 2) * BatchSize \in Int /\ (m - 1) * BatchSize \in Int /\ (n - 1) * BatchSize \in Int
      BY <1>2, <2>2
    <3> QED
      BY <1>3, <2>0, <2>2, <3>1, <3>2, <3>3, <3>4
  <2>4. i + 1 \in 1 .. m - 1 /\ i + 2 \in 1 .. m
    BY <1>2, <1>7, <2>0, <2>3
  <2>5. p(i + 1) + p(i + 1 + 1) > BatchSize \/ p(i + 1) * n >= total
    BY <1>6, <2>4
  <2>6. ~ (p(i + 1) * n >= total)
    BY <1>3, <2>0, <2>1, <2>2, TwoShares
  <2>7. i + 1 + 1 = i + 2
    BY <2>0
  <2> QED
    BY <2>4, <2>5, <2>6, <2>7
<1>8. ASSUME NEW i \in 1 .. m
      PROVE  p(i) <= BatchSize \/ \E c \in Chains : \A d \in Chains : w[d] # 0 /\ Cut(w)[d].part = i => d = c
  <2>1. p(i) <= BatchSize \/ Alone(w, i, MaxChains)
    BY <1>5
  <2> QED
    BY <2>1 DEF Alone, Chains
<1> SUFFICES
      /\ \A i \in 1 .. m : \/ p(i) <= BatchSize
                           \/ \E c \in Chains : \A d \in Chains : w[d] # 0 /\ Cut(w)[d].part = i => d = c
      /\ (\A i \in 1 .. m : p(i) <= BatchSize) =>
           \A i \in 1 .. m : i + 1 \in 1 .. m =>
             \/ p(i) + p(i + 1) > BatchSize
             \/ i + 2 \in 1 .. m /\ p(i + 1) + p(i + 2) > BatchSize
  <2>1. \A i \in 1 .. m : i \in Nat /\ i + 1 \in Nat /\ i + 2 \in Nat
    BY <1>2
  <2>2. \A i \in 1 .. m : PartSize(w, i) = p(i) /\ PartSize(w, i + 1) = p(i + 1) /\ PartSize(w, i + 2) = p(i + 2)
    BY <1>1, <2>1
  <2> HIDE DEF p
  <2> QED
    BY <2>2 DEF CutFits
<1> HIDE DEF p, m
<1> QED
  BY <1>7, <1>8

-----------------------------------------------------------------------------
(* CohortPack: the queued slices and their units.                           *)

SliceType == [id : Nat, at : Nat, chain : Chains, round : Rounds, tmpl : Nat, miss : Nat]
EntryType == [chain : Chains, round : Rounds, n : Nat, ts : SUBSET Nat]
MemoryType ==
  [history : [Chains -> [Rounds -> SUBSET Nat]], width : [Chains -> Nat],
   lastRound : [Chains -> Rounds \cup {-1}], chainsAt : [Rounds -> SUBSET Chains]]
ArgsType == [fixed : Nat, mix : Nat, beta : {1, 2}, gamma : Nat, patience : Nat, ref : Nat \ {0}]

PoolTyped(pool) ==
  /\ pool \subseteq SliceType /\ IsFiniteSet(pool)
  /\ \A s, t \in pool : s.id = t.id => s = t

\* The types of the policy's state.
CoTypeOK ==
  /\ PoolTyped(Pool) /\ Memory \in MemoryType /\ Args \in ArgsType

\* The parts of a key.
LEMMA KeysAre ==
  ASSUME PoolTyped(Pool)
  PROVE  /\ IsFiniteSet(Keys)
         /\ \A k \in Keys : /\ k \in Chains \X Rounds \X Nat
                            /\ k[1] \in Chains /\ k[2] \in Rounds /\ k[3] \in Nat /\ k = <<k[1], k[2], k[3]>>
                            /\ Group(k) # {}
         /\ \A s \in Pool : Key(s) \in Keys
<1>1. IsFiniteSet(Keys)
  <2> DEFINE f == [s \in Pool |-> Key(s)]
  <2>1. IsFiniteSet({f[s] : s \in Pool})
    <3> HIDE DEF f
    <3> QED
      BY FiniteImage DEF PoolTyped
  <2>2. Keys = {f[s] : s \in Pool}
    BY DEF Keys
  <2> QED
    BY <2>1, <2>2
<1>2. ASSUME NEW k \in Keys
      PROVE  /\ k \in Chains \X Rounds \X Nat
             /\ k[1] \in Chains /\ k[2] \in Rounds /\ k[3] \in Nat /\ k = <<k[1], k[2], k[3]>>
             /\ Group(k) # {}
  <2>1. PICK s \in Pool : k = Key(s)
    BY DEF Keys
  <2>2. s.chain \in Chains /\ s.round \in Rounds /\ s.tmpl \in Nat
    BY DEF PoolTyped, SliceType
  <2>3. k = <<s.chain, s.round, s.tmpl>>
    BY <2>1 DEF Key
  <2>4. s \in Group(k)
    BY <2>1 DEF Group
  <2> QED
    BY <2>2, <2>3, <2>4
<1> QED
  BY <1>1, <1>2 DEF Keys

\* Every set of keys has finitely many slices.
LEMMA SlicesAreFinite ==
  ASSUME PoolTyped(Pool), NEW K
  PROVE  SlicesOf(K) \subseteq Pool /\ IsFiniteSet(SlicesOf(K)) /\ Size(K) \in Nat
<1>1. SlicesOf(K) \in SUBSET Pool
  BY DEF SlicesOf
<1> QED
  BY <1>1, FS_Subset, FS_CardinalityType DEF PoolTyped, Size

\* The rounds of a unit agree on it.
LEMMA UnitsAgree ==
  ASSUME PoolTyped(Pool), NEW k \in Keys
  PROVE  /\ k \in UnitOf(k).members /\ UnitOf(k).members \subseteq Keys
         /\ \A j \in UnitOf(k).members : UnitOf(j) = UnitOf(k) /\ j[2] = k[2] /\ j[3] = k[3]
<1>1. k[1] \in Chains /\ k = <<k[1], k[2], k[3]>>
  BY KeysAre
<1>2. k[1] \in ReadyWith(k)
  BY <1>1 DEF ReadyWith
<1> DEFINE cut == Cut(Widths(k))
           part == {c \in ReadyWith(k) \cup Mates(k) : cut[c].part = cut[k[1]].part}
<1>3. /\ UnitOf(k).members = {<<c, k[2], k[3]>> : c \in part \cap ReadyWith(k)}
      /\ UnitOf(k) = [members |-> {<<c, k[2], k[3]>> : c \in part \cap ReadyWith(k)}, complete |-> part \subseteq ReadyWith(k)]
  BY DEF UnitOf
<1>4. k \in UnitOf(k).members
  BY <1>1, <1>2, <1>3, Zenon
<1>5. UnitOf(k).members \subseteq Keys
  <2>1. \A c \in ReadyWith(k) : <<c, k[2], k[3]>> \in Keys
    BY DEF ReadyWith
  <2> HIDE DEF part
  <2> QED
    BY <1>3, <2>1
<1>6. ASSUME NEW j \in UnitOf(k).members
      PROVE  UnitOf(j) = UnitOf(k) /\ j[2] = k[2] /\ j[3] = k[3]
  <2>1. PICK c \in part \cap ReadyWith(k) : j = <<c, k[2], k[3]>>
    <3> HIDE DEF part
    <3> QED
      BY <1>3
  <2>2. j[1] = c /\ j[2] = k[2] /\ j[3] = k[3]
    BY <2>1
  <2>3. Past(j[1], j[2]) = Past(k[1], k[2])
    BY <2>1, <2>2 DEF ReadyWith
  <2>4. ReadyWith(j) = ReadyWith(k)
    BY <2>2, <2>3 DEF ReadyWith
  <2>5. Mates(j) = Mates(k)
    BY <2>2, <2>3, <2>4 DEF Mates
  <2>6. Widths(j) = Widths(k)
    BY <2>2, <2>4, <2>5 DEF Widths
  <2>7. cut[j[1]].part = cut[k[1]].part
    BY <2>1, <2>2
  <2>8. UnitOf(j) = [members |-> {<<d, j[2], j[3]>> : d \in {e \in ReadyWith(j) \cup Mates(j) : Cut(Widths(j))[e].part = Cut(Widths(j))[j[1]].part} \cap ReadyWith(j)},
                     complete |-> {e \in ReadyWith(j) \cup Mates(j) : Cut(Widths(j))[e].part = Cut(Widths(j))[j[1]].part} \subseteq ReadyWith(j)]
    BY DEF UnitOf
  <2>9. {e \in ReadyWith(j) \cup Mates(j) : Cut(Widths(j))[e].part = Cut(Widths(j))[j[1]].part} = part
    BY <2>4, <2>5, <2>6, <2>7
  <2>10. UnitOf(j) = UnitOf(k)
    <3> HIDE DEF part
    <3> QED
      BY <1>3, <2>2, <2>4, <2>8, <2>9, ZenonT(60)
  <2> QED
    BY <2>2, <2>10
<1> QED
  BY <1>4, <1>5, <1>6

\* Widths are numbers.
LEMMA WidthsTyped ==
  ASSUME CoTypeOK, NEW k \in Keys
  PROVE  Widths(k) \in [Chains -> Nat]
<1>1. \A K : Group(K) \in SUBSET Pool
  BY DEF Group
<1>2. \A K : Cardinality(Group(K)) \in Nat
  BY <1>1, FS_Subset, FS_CardinalityType DEF CoTypeOK, PoolTyped
<1>3. \A c \in Chains : Memory.width[c] \in Nat
  BY DEF CoTypeOK, MemoryType
<1> QED
  BY <1>2, <1>3 DEF Widths

\* The units share the queued rounds out, and cohorts are cut no more than they must be.
LEMMA UnitsArePacked ==
  ASSUME PackAssumption, CoTypeOK
  PROVE  UnitsPacked
<1>0. PoolTyped(Pool)
  BY DEF CoTypeOK
<1>1. UNION {u.members : u \in Units} = Keys
  <2>1. \A k \in Keys : UnitOf(k) \in Units /\ k \in UnitOf(k).members
    BY <1>0, UnitsAgree DEF Units
  <2>2. \A u \in Units : u.members \subseteq Keys
    BY <1>0, UnitsAgree DEF Units
  <2> QED
    BY <2>1, <2>2
<1>2. ASSUME NEW u \in Units, NEW v \in Units PROVE u = v \/ u.members \cap v.members = {}
  <2> SUFFICES ASSUME NEW j \in u.members \cap v.members PROVE u = v
    OBVIOUS
  <2>1. PICK k \in Keys : u = UnitOf(k)
    BY DEF Units
  <2>2. PICK l \in Keys : v = UnitOf(l)
    BY DEF Units
  <2>3. u = UnitOf(j) /\ v = UnitOf(j)
    BY <1>0, <2>1, <2>2, UnitsAgree
  <2> QED
    BY <2>3
<1>3. ASSUME NEW w \in {Widths(k) : k \in Keys} PROVE CutFits(w)
  <2>1. w \in [Chains -> Nat]
    BY WidthsTyped
  <2> QED
    BY <2>1, CutsFit DEF PackAssumption
<1> QED
  BY <1>1, <1>2, <1>3 DEF UnitsPacked, CutFits, PartSize, PartWidths

-----------------------------------------------------------------------------
(* CohortPack: what the policy remembers.                                   *)

\* The greatest of some numbers is the only one that is as great as all.
LEMMA MaxUnique ==
  ASSUME NEW S \in SUBSET Int, NEW m \in S, \A x \in S : x <= m
  PROVE  Max(S) = m
<1>1. m \in S /\ \A y \in S : m >= y
  OBVIOUS
<1>2. Max(S) \in S /\ \A y \in S : Max(S) >= y
  BY <1>1 DEF Max
<1>3. Max(S) \in Int /\ m \in Int /\ m >= Max(S) /\ Max(S) >= m
  BY <1>1, <1>2
<1> HIDE DEF Max
<1> QED
  BY <1>3

\* The memory m is faithful to the log L: MemoryFaithful of any memory and log, with the greatest
\* spelled out.
Mine(L, c) == {e \in L : e.chain = c}
MemoryHolds(m, L) ==
  \A c \in Chains :
    /\ m.lastRound[c] = -1 \/ \E e \in Mine(L, c) : e.round = m.lastRound[c]
    /\ \A e \in Mine(L, c) : e.round <= m.lastRound[c]
    /\ \A r \in Rounds : /\ c \in m.chainsAt[r] <=> r = m.lastRound[c]
                         /\ m.history[c][r] = UNION {e.ts : e \in {e \in Mine(L, c) : e.round = r}}
    /\ m.width[c] = 0 \/ \E e \in Mine(L, c) : e.round = m.lastRound[c] /\ e.n = m.width[c]
    /\ \A e \in Mine(L, c) : e.round = m.lastRound[c] => e.n <= m.width[c]

LEMMA RoundsAreNaturals ==
  ASSUME PackAssumption PROVE Rounds \subseteq Nat /\ -1 \notin Rounds
BY DEF PackAssumption, Rounds

\* That is what MemoryFaithful says.
LEMMA MemoryHoldsIsFaithful ==
  ASSUME PackAssumption, CoTypeOK, desk.log \subseteq EntryType, MemoryHolds(Memory, desk.log)
  PROVE  MemoryFaithful
<1> SUFFICES ASSUME NEW c \in Chains
             PROVE  LET mine == {e \in desk.log : e.chain = c}
                        latest == Max({-1} \cup {e.round : e \in mine})
                    IN  /\ Memory.lastRound[c] = latest
                        /\ \A r \in Rounds : /\ c \in Memory.chainsAt[r] <=> r = latest
                                             /\ Memory.history[c][r] = UNION {e.ts : e \in {e \in mine : e.round = r}}
                        /\ Memory.width[c] = Max({0} \cup {e.n : e \in {e \in mine : e.round = latest}})
  BY DEF MemoryFaithful
<1> DEFINE mine == {e \in desk.log : e.chain = c}
           m == Memory
           latest == m.lastRound[c]
<1>1. latest \in Int /\ latest >= -1 /\ m.width[c] \in Nat
  BY RoundsAreNaturals DEF CoTypeOK, MemoryType
<1>2. \A e \in mine : e.round \in Nat /\ e.n \in Nat
  BY RoundsAreNaturals DEF EntryType
<1>3. mine = Mine(desk.log, c)
  BY DEF Mine
<1>4. /\ latest = -1 \/ \E e \in mine : e.round = latest
      /\ \A e \in mine : e.round <= latest
      /\ \A r \in Rounds : /\ c \in m.chainsAt[r] <=> r = latest
                           /\ m.history[c][r] = UNION {e.ts : e \in {e \in mine : e.round = r}}
      /\ m.width[c] = 0 \/ \E e \in mine : e.round = latest /\ e.n = m.width[c]
      /\ \A e \in mine : e.round = latest => e.n <= m.width[c]
  BY <1>3 DEF MemoryHolds
<1> HIDE DEF mine, m, latest
<1>5. Max({-1} \cup {e.round : e \in mine}) = latest
  <2> DEFINE S == {-1} \cup {e.round : e \in mine}
  <2>1. S \in SUBSET Int /\ latest \in S
    BY <1>1, <1>2, <1>4
  <2>2. \A x \in S : x <= latest
    BY <1>1, <1>2, <1>4
  <2> HIDE DEF S
  <2>3. Max(S) = latest
    BY <2>1, <2>2, MaxUnique
  <2> QED
    BY <2>3 DEF S
<1>6. Max({0} \cup {e.n : e \in {e \in mine : e.round = latest}}) = m.width[c]
  <2> DEFINE S == {0} \cup {e.n : e \in {e \in mine : e.round = latest}}
  <2>1. S \in SUBSET Int /\ m.width[c] \in S
    BY <1>1, <1>2, <1>4
  <2>2. \A x \in S : x <= m.width[c]
    BY <1>1, <1>2, <1>4
  <2> HIDE DEF S
  <2>3. Max(S) = m.width[c]
    BY <2>1, <2>2, MaxUnique
  <2> QED
    BY <2>3 DEF S
<1> QED
  BY <1>4, <1>5, <1>6 DEF mine, m, latest

\* One more chain and round.
LEMMA RememberTyped ==
  ASSUME PackAssumption, NEW m \in MemoryType, NEW e \in EntryType
  PROVE  Remember(m, e) \in MemoryType
<1> DEFINE previous == m.lastRound[e.chain]
           latest == IF previous >= e.round THEN previous ELSE e.round
           x == Remember(m, e)
<1>1. e.chain \in Chains /\ e.round \in Rounds /\ e.n \in Nat /\ e.ts \in SUBSET Nat
  BY DEF EntryType
<1>2. previous \in Rounds \cup {-1} /\ previous \in Int /\ e.round \in Int /\ e.round # -1
  BY <1>1, RoundsAreNaturals DEF MemoryType
<1>3. /\ m.history \in [Chains -> [Rounds -> SUBSET Nat]] /\ m.width \in [Chains -> Nat]
      /\ m.lastRound \in [Chains -> Rounds \cup {-1}] /\ m.chainsAt \in [Rounds -> SUBSET Chains]
  BY DEF MemoryType
<1>4. Max({previous, e.round}) = latest
  BY <1>2, MaxOfTwo
<1>5. latest \in Rounds \cup {-1} /\ latest \in Int /\ latest >= previous /\ latest >= e.round
  BY <1>1, <1>2
<1> DEFINE width == CASE e.round = previous -> (IF m.width[e.chain] >= e.n THEN m.width[e.chain] ELSE e.n)
                      [] e.round # previous /\ e.round = latest -> e.n
                      [] OTHER -> m.width[e.chain]
           at(r) == CASE latest = previous -> m.chainsAt[r]
                      [] latest # previous /\ r = latest -> m.chainsAt[r] \cup {e.chain}
                      [] latest # previous /\ r = previous -> m.chainsAt[r] \ {e.chain}
                      [] OTHER -> m.chainsAt[r]
<1>6. m.width[e.chain] \in Nat /\ Max({m.width[e.chain], e.n}) = IF m.width[e.chain] >= e.n THEN m.width[e.chain] ELSE e.n
  <2>1. m.width[e.chain] \in Nat
    BY <1>1, <1>3, SMTT(60)
  <2> QED
    BY <1>1, <2>1, MaxOfTwo
<1>7. x = [m EXCEPT !.history[e.chain][e.round] = @ \cup e.ts, !.width[e.chain] = width,
                    !.chainsAt = [r \in Rounds |-> at(r)], !.lastRound[e.chain] = latest]
  BY <1>4, <1>6 DEF Remember
<1>8. width \in Nat
  BY <1>1, <1>6
<1>9. \A r \in Rounds : at(r) \in SUBSET Chains
  BY <1>1, <1>3
<1> HIDE DEF width, at, latest, previous, x
<1>10. /\ x.history = [m.history EXCEPT ![e.chain][e.round] = @ \cup e.ts]
       /\ x.width = [m.width EXCEPT ![e.chain] = width]
       /\ x.chainsAt = [r \in Rounds |-> at(r)]
       /\ x.lastRound = [m.lastRound EXCEPT ![e.chain] = latest]
       /\ x = [history |-> x.history, width |-> x.width, lastRound |-> x.lastRound, chainsAt |-> x.chainsAt]
  BY <1>7 DEF MemoryType
<1>11. x \in MemoryType
  <2>1. x.history \in [Chains -> [Rounds -> SUBSET Nat]]
    BY <1>1, <1>3, <1>10
  <2>2. x.width \in [Chains -> Nat] /\ x.chainsAt \in [Rounds -> SUBSET Chains]
    BY <1>1, <1>3, <1>8, <1>9, <1>10
  <2>3. x.lastRound \in [Chains -> Rounds \cup {-1}]
    BY <1>1, <1>3, <1>5, <1>10
  <2> QED
    BY <1>10, <2>1, <2>2, <2>3 DEF MemoryType
<1> QED
  BY <1>11 DEF x

\* It is remembered as it should be.
LEMMA RememberHolds ==
  ASSUME PackAssumption, NEW m \in MemoryType, NEW L \in SUBSET EntryType, NEW e \in EntryType,
         MemoryHolds(m, L)
  PROVE  MemoryHolds(Remember(m, e), L \cup {e})
<1> DEFINE previous == m.lastRound[e.chain]
           latest == IF previous >= e.round THEN previous ELSE e.round
           x == Remember(m, e)
<1>1. e.chain \in Chains /\ e.round \in Rounds /\ e.n \in Nat /\ e.ts \in SUBSET Nat
  BY DEF EntryType
<1>2. previous \in Rounds \cup {-1} /\ previous \in Int /\ e.round \in Int /\ e.round # -1
  BY <1>1, RoundsAreNaturals DEF MemoryType
<1>3. /\ m.history \in [Chains -> [Rounds -> SUBSET Nat]] /\ m.width \in [Chains -> Nat]
      /\ m.lastRound \in [Chains -> Rounds \cup {-1}] /\ m.chainsAt \in [Rounds -> SUBSET Chains]
  BY DEF MemoryType
<1>4. Max({previous, e.round}) = latest
  BY <1>2, MaxOfTwo
<1>5. latest \in Rounds \cup {-1} /\ latest \in Int /\ latest >= previous /\ latest >= e.round
  BY <1>1, <1>2
<1> DEFINE width == CASE e.round = previous -> (IF m.width[e.chain] >= e.n THEN m.width[e.chain] ELSE e.n)
                      [] e.round # previous /\ e.round = latest -> e.n
                      [] OTHER -> m.width[e.chain]
           at(r) == CASE latest = previous -> m.chainsAt[r]
                      [] latest # previous /\ r = latest -> m.chainsAt[r] \cup {e.chain}
                      [] latest # previous /\ r = previous -> m.chainsAt[r] \ {e.chain}
                      [] OTHER -> m.chainsAt[r]
<1>6. m.width[e.chain] \in Nat /\ Max({m.width[e.chain], e.n}) = IF m.width[e.chain] >= e.n THEN m.width[e.chain] ELSE e.n
  <2>1. m.width[e.chain] \in Nat
    BY <1>1, <1>3, SMTT(60)
  <2> QED
    BY <1>1, <2>1, MaxOfTwo
<1>7. x = [m EXCEPT !.history[e.chain][e.round] = @ \cup e.ts, !.width[e.chain] = width,
                    !.chainsAt = [r \in Rounds |-> at(r)], !.lastRound[e.chain] = latest]
  BY <1>4, <1>6 DEF Remember
<1>8. width \in Nat
  BY <1>1, <1>6
<1>9. \A r \in Rounds : at(r) \in SUBSET Chains
  BY <1>1, <1>3
<1> HIDE DEF width, at, latest, previous, x
<1>10. /\ x.history = [m.history EXCEPT ![e.chain][e.round] = @ \cup e.ts]
       /\ x.width = [m.width EXCEPT ![e.chain] = width]
       /\ x.chainsAt = [r \in Rounds |-> at(r)]
       /\ x.lastRound = [m.lastRound EXCEPT ![e.chain] = latest]
       /\ x = [history |-> x.history, width |-> x.width, lastRound |-> x.lastRound, chainsAt |-> x.chainsAt]
  BY <1>7 DEF MemoryType
<1>12. ASSUME NEW c \in Chains
       PROVE  /\ x.lastRound[c] = -1 \/ \E f \in Mine(L \cup {e}, c) : f.round = x.lastRound[c]
              /\ \A f \in Mine(L \cup {e}, c) : f.round <= x.lastRound[c]
              /\ \A r \in Rounds : /\ c \in x.chainsAt[r] <=> r = x.lastRound[c]
                                   /\ x.history[c][r] = UNION {f.ts : f \in {f \in Mine(L \cup {e}, c) : f.round = r}}
              /\ x.width[c] = 0 \/ \E f \in Mine(L \cup {e}, c) : f.round = x.lastRound[c] /\ f.n = x.width[c]
              /\ \A f \in Mine(L \cup {e}, c) : f.round = x.lastRound[c] => f.n <= x.width[c]
  <2>1. /\ m.lastRound[c] = -1 \/ \E f \in Mine(L, c) : f.round = m.lastRound[c]
        /\ \A f \in Mine(L, c) : f.round <= m.lastRound[c]
        /\ \A r \in Rounds : /\ c \in m.chainsAt[r] <=> r = m.lastRound[c]
                             /\ m.history[c][r] = UNION {f.ts : f \in {f \in Mine(L, c) : f.round = r}}
        /\ m.width[c] = 0 \/ \E f \in Mine(L, c) : f.round = m.lastRound[c] /\ f.n = m.width[c]
        /\ \A f \in Mine(L, c) : f.round = m.lastRound[c] => f.n <= m.width[c]
    BY DEF MemoryHolds
  <2>2. CASE c # e.chain
    <3>1. Mine(L \cup {e}, c) = Mine(L, c)
      BY <2>2 DEF Mine
    <3>2. x.lastRound[c] = m.lastRound[c] /\ x.width[c] = m.width[c] /\ x.history[c] = m.history[c]
      BY <1>3, <1>10, <2>2
    <3>3. \A r \in Rounds : c \in x.chainsAt[r] <=> c \in m.chainsAt[r]
      <4> SUFFICES ASSUME NEW r \in Rounds PROVE c \in at(r) <=> c \in m.chainsAt[r]
        BY <1>10
      <4> QED
        BY <2>2 DEF at
    <3> QED
      BY <2>1, <3>1, <3>2, <3>3
  <2>3. CASE c = e.chain
    <3> DEFINE mine == Mine(L, c)
    <3>1. Mine(L \cup {e}, c) = mine \cup {e} /\ \A f \in mine : f.round \in Int /\ f.n \in Int
      BY <2>3, RoundsAreNaturals DEF Mine, EntryType
    <3>2. x.lastRound[c] = latest /\ x.width[c] = width /\ m.lastRound[c] = previous
      BY <1>3, <1>10, <2>3 DEF previous
    <3>3. ASSUME NEW r \in Rounds
          PROVE  x.history[c][r] = UNION {f.ts : f \in {f \in mine \cup {e} : f.round = r}}
      <4>1. x.history[c][r] = IF r = e.round THEN m.history[c][r] \cup e.ts ELSE m.history[c][r]
        <5>1. x.history[e.chain] = [m.history[e.chain] EXCEPT ![e.round] = @ \cup e.ts]
          BY <1>1, <1>3, <1>10
        <5>2. m.history[e.chain] \in [Rounds -> SUBSET Nat]
          BY <1>1, <1>3
        <5> QED
          BY <1>1, <2>3, <5>1, <5>2
      <4>2. m.history[c][r] = UNION {f.ts : f \in {f \in mine : f.round = r}}
        BY <2>1
      <4>3. CASE r = e.round
        <5>1. {f \in mine \cup {e} : f.round = r} = {f \in mine : f.round = r} \cup {e}
          BY <4>3
        <5> HIDE DEF mine
        <5> QED
          BY <4>1, <4>2, <4>3, <5>1
      <4>4. CASE r # e.round
        <5>1. {f \in mine \cup {e} : f.round = r} = {f \in mine : f.round = r}
          BY <4>4
        <5> QED
          BY <4>1, <4>2, <4>4, <5>1
      <4> QED
        BY <4>3, <4>4
    <3> HIDE DEF mine
    <3>4. ASSUME NEW r \in Rounds PROVE c \in x.chainsAt[r] <=> r = latest
      <4>1. x.chainsAt[r] = at(r) /\ (c \in m.chainsAt[r] <=> r = previous)
        BY <1>10, <2>1, <3>2
      <4>2. CASE latest = previous
        BY <4>1, <4>2 DEF at
      <4>3. CASE latest # previous /\ r = latest
        BY <2>3, <4>1, <4>3 DEF at
      <4>4. CASE latest # previous /\ r # latest /\ r = previous
        BY <2>3, <4>1, <4>4 DEF at
      <4>5. CASE latest # previous /\ r # latest /\ r # previous
        BY <4>1, <4>5 DEF at
      <4> QED
        BY <4>2, <4>3, <4>4, <4>5
    <3>5. /\ previous = -1 \/ \E f \in mine : f.round = previous
          /\ \A f \in mine : f.round <= previous
          /\ m.width[c] = 0 \/ \E f \in mine : f.round = previous /\ f.n = m.width[c]
          /\ \A f \in mine : f.round = previous => f.n <= m.width[c]
      BY <2>1, <3>2 DEF mine
    <3>6. /\ latest = -1 \/ \E f \in mine \cup {e} : f.round = latest
          /\ \A f \in mine \cup {e} : f.round <= latest
      BY <1>2, <1>5, <3>1, <3>5 DEF latest
    <3>7. /\ width = 0 \/ \E f \in mine \cup {e} : f.round = latest /\ f.n = width
          /\ \A f \in mine \cup {e} : f.round = latest => f.n <= width
      <4>1. CASE e.round = previous
        <5>1. latest = previous /\ width = IF m.width[c] >= e.n THEN m.width[c] ELSE e.n
          BY <1>2, <2>3, <4>1 DEF latest, width
        <5>2. m.width[c] \in Nat /\ e.n \in Nat
          BY <1>1, <1>6, <2>3
        <5>3. width = 0 \/ \E f \in mine \cup {e} : f.round = latest /\ f.n = width
          BY <3>5, <4>1, <5>1
        <5>4. \A f \in mine \cup {e} : f.round = latest => f.n <= width
          BY <3>1, <3>5, <4>1, <5>1, <5>2
        <5> QED
          BY <5>3, <5>4
      <4>2. CASE e.round # previous /\ e.round = latest
        <5>1. width = e.n /\ previous < latest
          BY <1>2, <1>5, <4>2 DEF width
        <5>2. \A f \in mine : f.round # latest
          BY <1>2, <1>5, <3>1, <3>5, <5>1
        <5> QED
          BY <1>1, <4>2, <5>1, <5>2
      <4>3. CASE e.round # previous /\ e.round # latest
        <5>1. width = m.width[c] /\ latest = previous
          BY <1>2, <2>3, <4>3 DEF width, latest
        <5> QED
          BY <3>5, <4>3, <5>1
      <4> QED
        BY <4>1, <4>2, <4>3
    <3> QED
      BY <3>1, <3>2, <3>3, <3>4, <3>6, <3>7
  <2> QED
    BY <2>2, <2>3
<1> QED
  BY <1>12 DEF MemoryHolds, x

\* The chains and rounds of a batch.
LEMMA EntriesTyped ==
  ASSUME PoolTyped(Pool), NEW batch \in SUBSET Pool
  PROVE  Entries(batch) \subseteq EntryType /\ IsFiniteSet(Entries(batch))
<1> DEFINE of(s) == {t \in batch : t.chain = s.chain /\ t.round = s.round}
           entry(s) == [chain |-> s.chain, round |-> s.round, n |-> Cardinality(of(s)), ts |-> {t.tmpl : t \in of(s)}]
           f == [s \in batch |-> entry(s)]
<1>1. Entries(batch) = {entry(s) : s \in batch}
  BY DEF Entries
<1>2. IsFiniteSet(batch)
  BY FS_Subset DEF PoolTyped
<1>3. ASSUME NEW s \in batch PROVE entry(s) \in EntryType
  <2>1. of(s) \in SUBSET batch
    OBVIOUS
  <2>2. Cardinality(of(s)) \in Nat
    <3> HIDE DEF of
    <3> QED
      BY <1>2, <2>1, FS_Subset, FS_CardinalityType
  <2>3. \A t \in batch : t.chain \in Chains /\ t.round \in Rounds /\ t.tmpl \in Nat
    BY DEF PoolTyped, SliceType
  <2>4. {t.tmpl : t \in of(s)} \in SUBSET Nat
    BY <2>3
  <2> HIDE DEF of
  <2> QED
    BY <2>2, <2>3, <2>4 DEF EntryType
<1>4. IsFiniteSet({f[s] : s \in batch})
  <2> HIDE DEF f
  <2> QED
    BY <1>2, FiniteImage
<1>5. {f[s] : s \in batch} = {entry(s) : s \in batch}
  <2> HIDE DEF entry
  <2> QED
    OBVIOUS
<1> HIDE DEF entry, f
<1> QED
  BY <1>1, <1>3, <1>4, <1>5

\* A batch remembered in any order.
LEMMA OnCommitHolds ==
  ASSUME PackAssumption, NEW m \in MemoryType, NEW L \in SUBSET EntryType, MemoryHolds(m, L),
         NEW E \in SUBSET EntryType, IsFiniteSet(E), NEW entries \in SetToSeqs(E)
  PROVE  OnCommit(m, entries) \in MemoryType /\ MemoryHolds(OnCommit(m, entries), L \cup E)
<1> DEFINE n == Cardinality(E)
           Eq(f) == f = [i \in 0 .. Len(entries) |-> IF i = 0 THEN m ELSE Remember(f[i - 1], entries[i])]
           after == CHOOSE f : Eq(f)
           step == [p \in (1 .. n) \X MemoryType |-> Remember(p[2], entries[p[1]])]
<1>1. n \in Nat /\ entries \in [1 .. n -> E] /\ \A i, j \in 1 .. n : i # j => entries[i] # entries[j]
  BY FS_CardinalityType DEF SetToSeqs
<1>2. Len(entries) = n
  BY <1>1
<1>3. \A k \in E : \E i \in 1 .. n : entries[i] = k
  <2>1. entries \in Injection(1 .. n, E)
    BY <1>1 DEF Injection, IsInjective
  <2>2. IsFiniteSet(1 .. n) /\ Cardinality(1 .. n) = n
    BY <1>1, FS_Interval
  <2>3. entries \in Surjection(1 .. n, E)
    BY <2>1, <2>2, FS_Injection
  <2> QED
    BY <2>3 DEF Surjection
<1>4. OnCommit(m, entries) = after[n]
  BY <1>2 DEF OnCommit
<1> HIDE DEF n
<1>6. \A x \in MemoryType : \A k \in EntryType : Remember(x, k) \in MemoryType
  <2> SUFFICES ASSUME NEW x \in MemoryType, NEW k \in EntryType PROVE Remember(x, k) \in MemoryType
    OBVIOUS
  <2> QED
    BY RememberTyped
<1>7. StepOn(n, MemoryType, m, step) /\ \A i \in 1 .. n : \A x \in MemoryType : step[<<i, x>>] = Remember(x, entries[i])
  <2> HIDE DEF MemoryType
  <2> QED
    BY <1>1, <1>6 DEF StepOn
<1> HIDE DEF step
<1>8. PICK g : Iterates(g, n, MemoryType, m, step)
  BY <1>7, Iteration
<1>9. g \in [0 .. n -> MemoryType] /\ g[0] = m /\ \A i \in 1 .. n : g[i] = Remember(g[i - 1], entries[i])
  <2>1. g \in [0 .. n -> MemoryType] /\ g[0] = m /\ \A i \in 1 .. n : g[i] = step[<<i, g[i - 1]>>]
    BY <1>8 DEF Iterates
  <2>2. \A i \in 1 .. n : g[i - 1] \in MemoryType
    BY <1>1, <2>1
  <2> QED
    BY <1>7, <2>1, <2>2
<1>10. Eq(g)
  <2>1. g = [i \in 0 .. n |-> g[i]]
    BY <1>9
  <2>2. \A i \in 0 .. n : g[i] = IF i = 0 THEN m ELSE Remember(g[i - 1], entries[i])
    BY <1>1, <1>9
  <2> QED
    BY <1>2, <2>1, <2>2, Zenon
<1>11. Eq(after)
  BY <1>10, Zenon
<1> HIDE DEF after
<1>12. after[0] = m /\ \A i \in 1 .. n : after[i] = Remember(after[i - 1], entries[i])
  BY <1>1, <1>2, <1>11
<1> DEFINE seen(i) == L \cup {entries[j] : j \in 1 .. i}
           good(i) == after[i] \in MemoryType /\ MemoryHolds(after[i], seen(i))
           S == {i \in 0 .. n : good(i)}
<1>13. good(0)
  <2>1. seen(0) = L
    OBVIOUS
  <2> HIDE DEF seen
  <2> QED
    BY <1>12, <2>1
<1>14. ASSUME NEW i \in 1 .. n, good(i - 1) PROVE good(i)
  <2>1. seen(i - 1) \in SUBSET EntryType /\ entries[i] \in EntryType
    BY <1>1
  <2>2. seen(i) = seen(i - 1) \cup {entries[i]}
    <3>1. \A j : j \in 1 .. i <=> j \in 1 .. i - 1 \/ j = i
      BY <1>1
    <3> QED
      BY <3>1
  <2>3. after[i - 1] \in MemoryType /\ MemoryHolds(after[i - 1], seen(i - 1))
    BY <1>14
  <2>4. after[i] = Remember(after[i - 1], entries[i])
    BY <1>12
  <2> HIDE DEF seen
  <2> QED
    BY <2>1, <2>2, <2>3, <2>4, RememberHolds, RememberTyped
<1>16. seen(n) = L \cup E
  BY <1>1, <1>3
<1> HIDE DEF good
<1>15. good(n)
  <2>1. 0 \in S /\ \A i \in 1 .. n : i - 1 \in S => i \in S
    BY <1>1, <1>13, <1>14
  <2>2. 0 .. n \subseteq S
    <3> HIDE DEF S
    <3> QED
      BY <1>1, <2>1, UpTo
  <2> QED
    BY <1>1, <2>2
<1>17. after[n] \in MemoryType /\ MemoryHolds(after[n], seen(n))
  BY <1>15 DEF good
<1> HIDE DEF seen
<1> QED
  BY <1>4, <1>16, <1>17

-----------------------------------------------------------------------------
(* CohortPack: the invariant that every step keeps.                         *)

DeskType ==
  [args : ArgsType, pool : SUBSET SliceType, made : Nat, sent : [Chains -> Int], log : SUBSET EntryType,
   memory : MemoryType]

CoBase ==
  /\ desk \in DeskType /\ PoolTyped(desk.pool) /\ \A s \in desk.pool : s.id <= desk.made
  /\ MemoryHolds(desk.memory, desk.log)
  /\ chosen # <<>> => chosen.batch \subseteq desk.pool

LEMMA CoBaseTyped ==
  ASSUME CoBase PROVE CoTypeOK
BY DEF CoBase, CoTypeOK, DeskType, Pool, Memory, Args

LEMMA CoBaseInit ==
  ASSUME PackAssumption, CoInit PROVE CoBase
<1>1. PICK a \in PackArgs :
        desk = [args |-> a, pool |-> {}, made |-> 0, sent |-> [c \in Chains |-> -1], log |-> {},
               memory |-> [history |-> [c \in Chains |-> [r \in Rounds |-> {}]], width |-> [c \in Chains |-> 0],
                           lastRound |-> [c \in Chains |-> -1], chainsAt |-> [r \in Rounds |-> {}]]]
  BY DEF CoInit
<1>2. a \in ArgsType
  BY DEF PackAssumption, ArgsType
<1>3. [history |-> [c \in Chains |-> [r \in Rounds |-> {}]], width |-> [c \in Chains |-> 0],
       lastRound |-> [c \in Chains |-> -1], chainsAt |-> [r \in Rounds |-> {}]] \in MemoryType
  BY DEF MemoryType
<1>4. [c \in Chains |-> -1] \in [Chains -> Int]
  OBVIOUS
<1>5. desk \in DeskType
  BY <1>1, <1>2, <1>3, <1>4 DEF DeskType
<1>6. PoolTyped(desk.pool) /\ \A s \in desk.pool : s.id <= desk.made
  <2>1. desk.pool = {}
    BY <1>1
  <2> QED
    BY <2>1, FS_EmptySet DEF PoolTyped
<1>7. MemoryHolds(desk.memory, desk.log)
  <2>1. /\ desk.log = {}
        /\ \A c \in Chains : /\ desk.memory.lastRound[c] = -1 /\ desk.memory.width[c] = 0
                             /\ \A r \in Rounds : desk.memory.chainsAt[r] = {} /\ desk.memory.history[c][r] = {}
    BY <1>1
  <2>2. \A c : Mine(desk.log, c) = {}
    BY <2>1 DEF Mine
  <2> QED
    BY <2>1, <2>2, RoundsAreNaturals DEF MemoryHolds
<1> QED
  BY <1>5, <1>6, <1>7 DEF CoBase, CoInit

LEMMA CoBaseArrive ==
  ASSUME PackAssumption, CoBase, Arrive PROVE CoBase'
<1>1. PICK c \in Chains, ts \in JobShapes :
        /\ chosen = <<>> /\ desk.sent[c] + 1 \in Rounds
        /\ desk' = [desk EXCEPT
             !.pool = @ \cup {[id |-> desk.made + i, at |-> desk.made, chain |-> c, round |-> desk.sent[c] + 1,
                               tmpl |-> ts[i], miss |-> 0] : i \in DOMAIN ts},
             !.made = @ + Len(ts), !.sent[c] = @ + 1]
        /\ chosen' = chosen
  BY DEF Arrive
<1> DEFINE slice(i) == [id |-> desk.made + i, at |-> desk.made, chain |-> c, round |-> desk.sent[c] + 1,
                        tmpl |-> ts[i], miss |-> 0]
           n == Len(ts)
           f == [i \in 1 .. n |-> slice(i)]
           new == {slice(i) : i \in 1 .. n}
<1>2. n \in Nat /\ DOMAIN ts = 1 .. n /\ \A i \in 1 .. n : ts[i] \in Nat
  BY DEF PackAssumption
<1>3. desk \in DeskType /\ PoolTyped(desk.pool) /\ \A s \in desk.pool : s.id <= desk.made
  BY DEF CoBase
<1>4. desk.made \in Nat /\ desk.pool \in SUBSET SliceType /\ desk.sent \in [Chains -> Int]
  BY <1>3 DEF DeskType
<1>5. \A i \in 1 .. n : slice(i) \in SliceType
  BY <1>1, <1>2, <1>4 DEF SliceType
<1>6. IsFiniteSet(new)
  <2>1. IsFiniteSet(1 .. n)
    BY <1>2, FS_Interval
  <2>2. IsFiniteSet({f[i] : i \in 1 .. n})
    <3> HIDE DEF f
    <3> QED
      BY <2>1, FiniteImage
  <2>3. {f[i] : i \in 1 .. n} = new
    <3> HIDE DEF slice
    <3> QED
      OBVIOUS
  <2> QED
    BY <2>2, <2>3
<1>7. \A i \in 1 .. n : slice(i).id = desk.made + i
  OBVIOUS
<1>8. desk' = [desk EXCEPT !.pool = @ \cup new, !.made = @ + n, !.sent[c] = @ + 1]
  BY <1>1, <1>2
<1> HIDE DEF slice, n, f
<1>9. new \subseteq SliceType
  BY <1>5
<1>10. \A s \in new : s.id > desk.made /\ s.id <= desk.made + n
  BY <1>2, <1>4, <1>7
<1>11. \A s, t \in new : s.id = t.id => s = t
  BY <1>2, <1>4, <1>7, SMTT(60)
<1> HIDE DEF new
<1>12. /\ desk'.pool = desk.pool \cup new /\ desk'.made = desk.made + n
       /\ desk'.memory = desk.memory /\ desk'.log = desk.log
  BY <1>3, <1>8 DEF DeskType
<1>13. desk' \in DeskType
  <2>1. [desk.sent EXCEPT ![c] = @ + 1] \in [Chains -> Int]
    BY <1>4
  <2>2. desk.pool \cup new \in SUBSET SliceType /\ desk.made + n \in Nat
    BY <1>2, <1>4, <1>9
  <2>3. desk' = [desk EXCEPT !.pool = desk.pool \cup new, !.made = desk.made + n, !.sent = [desk.sent EXCEPT ![c] = @ + 1]]
    BY <1>3, <1>8 DEF DeskType
  <2> QED
    BY <1>3, <2>1, <2>2, <2>3 DEF DeskType
<1>14. PoolTyped(desk'.pool)
  <2>1. IsFiniteSet(desk'.pool)
    <3>1. IsFiniteSet(desk.pool)
      BY <1>3 DEF PoolTyped
    <3>2. IsFiniteSet(desk.pool \cup new)
      BY <1>6, <3>1, FS_Union
    <3> QED
      BY <1>12, <3>2
  <2>2. desk'.pool \subseteq SliceType
    BY <1>4, <1>9, <1>12
  <2>3. \A s \in SliceType : s.id \in Nat
    BY DEF SliceType
  <2>4. \A s, t \in desk'.pool : s.id = t.id => s = t
    <3> SUFFICES ASSUME NEW s \in desk'.pool, NEW t \in desk'.pool, s.id = t.id PROVE s = t
      OBVIOUS
    <3>1. CASE s \in desk.pool /\ t \in desk.pool
      BY <1>3, <3>1 DEF PoolTyped
    <3>2. CASE s \in new /\ t \in new
      BY <1>11, <3>2
    <3>3. CASE ~ (s \in desk.pool /\ t \in desk.pool) /\ ~ (s \in new /\ t \in new)
      BY <1>3, <1>4, <1>10, <1>12, <2>2, <2>3, <3>3
    <3> QED
      BY <3>1, <3>2, <3>3
  <2> QED
    BY <2>1, <2>2, <2>4 DEF PoolTyped
<1>15. \A s \in desk'.pool : s.id <= desk'.made
  <2> SUFFICES ASSUME NEW s \in desk'.pool PROVE s.id <= desk'.made
    OBVIOUS
  <2>1. s.id \in Nat
    BY <1>14 DEF PoolTyped, SliceType
  <2> QED
    BY <1>2, <1>3, <1>4, <1>10, <1>12, <2>1
<1> QED
  BY <1>1, <1>12, <1>13, <1>14, <1>15, SMTT(60) DEF CoBase

LEMMA CoBaseCommit ==
  ASSUME PackAssumption, CoBase, Commit PROVE CoBase'
<1> DEFINE batch == chosen.batch
           passed(s) == IF s \in chosen.missed THEN [s EXCEPT !.miss = @ + 1] ELSE s
           rest == desk.pool \ batch
           left == {passed(s) : s \in rest}
           f == [s \in rest |-> passed(s)]
<1>1. PICK entries \in SetToSeqs(Entries(batch)) :
        desk' = [desk EXCEPT !.pool = {passed(s) : s \in @ \ batch}, !.memory = OnCommit(@, entries),
                             !.log = @ \cup Entries(batch)]
  BY DEF Commit
<1>2. desk \in DeskType /\ PoolTyped(desk.pool) /\ (\A s \in desk.pool : s.id <= desk.made)
      /\ batch \subseteq desk.pool /\ MemoryHolds(desk.memory, desk.log)
  BY DEF CoBase, Commit
<1>3. desk.pool \in SUBSET SliceType /\ desk.memory \in MemoryType /\ desk.log \in SUBSET EntryType /\ desk.made \in Nat
  BY <1>2 DEF DeskType
<1>4. Entries(batch) \in SUBSET EntryType /\ IsFiniteSet(Entries(batch))
  BY <1>2, EntriesTyped DEF Pool
<1>5. OnCommit(desk.memory, entries) \in MemoryType /\ MemoryHolds(OnCommit(desk.memory, entries), desk.log \cup Entries(batch))
  <2> HIDE DEF batch
  <2> QED
    BY <1>2, <1>3, <1>4, OnCommitHolds
<1>6. \A s \in rest : passed(s) \in SliceType /\ passed(s).id = s.id
  <2> SUFFICES ASSUME NEW s \in rest PROVE passed(s) \in SliceType /\ passed(s).id = s.id
    OBVIOUS
  <2>1. s \in SliceType /\ s.miss + 1 \in Nat
    BY <1>3 DEF SliceType
  <2>2. [s EXCEPT !.miss = @ + 1] \in SliceType /\ [s EXCEPT !.miss = @ + 1].id = s.id
    BY <2>1 DEF SliceType
  <2> QED
    BY <2>1, <2>2
<1>7. /\ desk'.pool = left /\ desk'.memory = OnCommit(desk.memory, entries)
      /\ desk'.log = desk.log \cup Entries(batch) /\ desk'.made = desk.made
  BY <1>1, <1>2 DEF DeskType
<1>8. IsFiniteSet(left)
  <2>1. rest \in SUBSET desk.pool
    OBVIOUS
  <2>2. IsFiniteSet(rest)
    <3> HIDE DEF rest
    <3> QED
      BY <1>2, <2>1, FS_Subset DEF PoolTyped
  <2>3. IsFiniteSet({f[s] : s \in rest})
    <3> HIDE DEF f, rest
    <3> QED
      BY <2>2, FiniteImage
  <2>4. {f[s] : s \in rest} = left
    <3> HIDE DEF passed
    <3> QED
      OBVIOUS
  <2> QED
    BY <2>3, <2>4
<1> HIDE DEF passed
<1>9. left \subseteq SliceType
  BY <1>6
<1>10. PoolTyped(left)
  <2>1. ASSUME NEW s \in left, NEW t \in left, s.id = t.id PROVE s = t
    <3>1. PICK x \in rest : s = passed(x)
      OBVIOUS
    <3>2. PICK y \in rest : t = passed(y)
      OBVIOUS
    <3>3. x.id = y.id
      BY <1>6, <2>1, <3>1, <3>2
    <3>4. x = y
      BY <1>2, <3>3 DEF PoolTyped
    <3> QED
      BY <3>1, <3>2, <3>4
  <2> HIDE DEF left
  <2> QED
    BY <1>8, <1>9, <2>1 DEF PoolTyped
<1>11. \A s \in left : s.id <= desk.made
  BY <1>2, <1>6
<1> HIDE DEF left, batch
<1>12. desk' \in DeskType
  <2>1. desk' = [desk EXCEPT !.pool = left, !.memory = OnCommit(desk.memory, entries), !.log = desk.log \cup Entries(batch)]
    <3>1. \A p : p = desk.pool => {passed(s) : s \in p \ batch} = left
      BY DEF left, batch
    <3> QED
      BY <1>1, <1>2 DEF DeskType, left, batch
  <2>2. left \in SUBSET SliceType /\ desk.log \cup Entries(batch) \in SUBSET EntryType
    BY <1>3, <1>4, <1>9
  <2> QED
    BY <1>2, <1>5, <2>1, <2>2 DEF DeskType
<1>13. chosen' = <<>>
  BY DEF Commit
<1>14. MemoryHolds(desk'.memory, desk'.log)
  BY <1>5, <1>7
<1> QED
  BY <1>7, <1>10, <1>11, <1>12, <1>13, <1>14, SMTT(60) DEF CoBase

-----------------------------------------------------------------------------
(* CohortPack: the choice of a batch.                                       *)

LEMMA FirstAreQueued ==
  ASSUME NEW n, NEW S, NEW u PROVE FirstSlices(n, S, u) \subseteq S
BY DEF FirstSlices

LEMMA BatchIsQueued ==
  ASSUME NEW u, NEW units, NEW lanes, NEW batch \in SelectBatch(u, units, lanes)
  PROVE  batch \subseteq Pool
<1> DEFINE own == SlicesOf(u.members)
           n == LanesFor(u, units, lanes)
           share == Max({1, CeilDiv(Size(u.members), n)})
<1>1. \A K : SlicesOf(K) \subseteq Pool
  BY DEF SlicesOf
<1>2. SelectBatch(u, units, lanes) =
        CASE n > 1 -> {FirstSlices(BatchSize, FirstSlices(share, own, u), u)}
          [] n = 1 /\ Size(u.members) < BatchSize ->
               {FirstSlices(BatchSize, own \cup SlicesOf(K), u) : K \in Fills(u, units)}
          [] OTHER -> {FirstSlices(BatchSize, own, u)}
  BY DEF SelectBatch
<1> HIDE DEF own, n, share
<1>3. own \subseteq Pool
  BY <1>1 DEF own
<1>4. \/ batch = FirstSlices(BatchSize, FirstSlices(share, own, u), u)
      \/ \E K \in Fills(u, units) : batch = FirstSlices(BatchSize, own \cup SlicesOf(K), u)
      \/ batch = FirstSlices(BatchSize, own, u)
  BY <1>2, Zenon
<1> QED
  BY <1>1, <1>3, <1>4, FirstAreQueued

\* The place of a slice is a tuple of six numbers, and no other slice has it.
LEMMA SinceIs ==
  ASSUME PoolTyped(Pool), NEW K, SlicesOf(K) # {} PROVE Since(K) \in Nat
<1> DEFINE S == {s.at : s \in SlicesOf(K)}
           f == [s \in SlicesOf(K) |-> s.at]
<1>1. SlicesOf(K) \subseteq SliceType /\ IsFiniteSet(SlicesOf(K))
  BY SlicesAreFinite DEF PoolTyped
<1>2. S \in SUBSET Nat /\ S # {}
  BY <1>1 DEF SliceType
<1>3. IsFiniteSet({f[s] : s \in SlicesOf(K)})
  <2> HIDE DEF f
  <2> QED
    BY <1>1, FiniteImage
<1>4. S = {f[s] : s \in SlicesOf(K)}
  OBVIOUS
<1> HIDE DEF S, f
<1>5. Min(S) \in S
  BY <1>2, <1>3, <1>4, MinIs
<1> QED
  BY <1>2, <1>5 DEF Since, S

LEMMA PlaceIs ==
  ASSUME PoolTyped(Pool), NEW u, NEW s \in Pool
  PROVE  /\ Place(s, u) \in [1 .. 6 -> Int]
         /\ Place(s, u)[6] = s.id /\ Place(s, u)[3] = s.chain /\ Place(s, u)[4] = s.round /\ Place(s, u)[5] = s.tmpl
         /\ Key(s) \in u.members => Place(s, u)[1] = 0 /\ Place(s, u)[2] = 0
<1>1. s \in SliceType /\ s \in SlicesOf({Key(s)})
  BY DEF PoolTyped, SlicesOf
<1>2. Since({Key(s)}) \in Nat
  BY <1>1, SinceIs
<1>3. s.chain \in Int /\ s.round \in Int /\ s.tmpl \in Int /\ s.id \in Int
  BY <1>1 DEF SliceType, Chains, Rounds
<1> DEFINE a == IF Key(s) \in u.members THEN 0 ELSE 1
           b == IF Key(s) \in u.members THEN 0 ELSE Since({Key(s)})
<1>4. a \in Int /\ b \in Int
  BY <1>2
<1>5. Place(s, u) = <<a, b, s.chain, s.round, s.tmpl, s.id>>
  BY DEF Place
<1>6. Key(s) \in u.members => a = 0 /\ b = 0
  OBVIOUS
<1> HIDE DEF a, b
<1> QED
  BY <1>3, <1>4, <1>5, <1>6

\* The slices of a set are ordered by their places.
ByPlace(S, u) == {p \in S \X S : LexBefore(Place(p[1], u), Place(p[2], u))}

LEMMA PlacesAreOrdered ==
  ASSUME PoolTyped(Pool), NEW u, NEW S \in SUBSET Pool
  PROVE  /\ Orders(S, ByPlace(S, u))
         /\ \A s, t \in S : <<s, t>> \in ByPlace(S, u) <=> LexBefore(Place(s, u), Place(t, u))
<1>1. \A s, t \in S : <<s, t>> \in ByPlace(S, u) <=> LexBefore(Place(s, u), Place(t, u))
  BY DEF ByPlace
<1>2. IsFiniteSet(S)
  BY FS_Subset DEF PoolTyped
<1>3. \A s \in S : ~ LexBefore(Place(s, u), Place(s, u))
  <2> SUFFICES ASSUME NEW s \in S PROVE ~ LexBefore(Place(s, u), Place(s, u))
    OBVIOUS
  <2>1. Place(s, u) \in [1 .. 6 -> Int]
    BY PlaceIs
  <2> QED
    BY <2>1, LexIsOrder
<1>4. ASSUME NEW x \in S, NEW y \in S, NEW z \in S, LexBefore(Place(x, u), Place(y, u)), LexBefore(Place(y, u), Place(z, u))
      PROVE  LexBefore(Place(x, u), Place(z, u))
  <2>1. Place(x, u) \in [1 .. 6 -> Int] /\ Place(y, u) \in [1 .. 6 -> Int] /\ Place(z, u) \in [1 .. 6 -> Int]
    BY PlaceIs
  <2> QED
    BY <1>4, <2>1, LexIsOrder
<1>5. ASSUME NEW x \in S, NEW y \in S, x # y
      PROVE  LexBefore(Place(x, u), Place(y, u)) \/ LexBefore(Place(y, u), Place(x, u))
  <2>1. Place(x, u) \in [1 .. 6 -> Int] /\ Place(y, u) \in [1 .. 6 -> Int]
    BY PlaceIs
  <2>2. Place(x, u)[6] # Place(y, u)[6]
    BY <1>5, PlaceIs DEF PoolTyped
  <2> QED
    BY <2>1, <2>2, LexIsOrder
<1> QED
  BY <1>1, <1>2, <1>3, <1>4, <1>5 DEF Orders

\* The first slices: as many as there are up to n, and with a slice those before it.
LEMMA FirstSlicesAre ==
  ASSUME PoolTyped(Pool), NEW u, NEW S \in SUBSET Pool, NEW n \in Nat
  PROVE  /\ IsFiniteSet(FirstSlices(n, S, u)) /\ Cardinality(FirstSlices(n, S, u)) \in 0 .. n
         /\ n > 0 /\ S # {} => FirstSlices(n, S, u) # {}
         /\ Cardinality(S) <= n => FirstSlices(n, S, u) = S
         /\ \A s \in S, t \in FirstSlices(n, S, u) :
              LexBefore(Place(s, u), Place(t, u)) => s \in FirstSlices(n, S, u)
<1> DEFINE lt == ByPlace(S, u)
           m == Cardinality(S)
<1>1. /\ Orders(S, lt)
      /\ \A s, t \in S : <<s, t>> \in lt <=> LexBefore(Place(s, u), Place(t, u))
  BY PlacesAreOrdered
<1>2. IsFiniteSet(S) /\ m \in Nat
  BY <1>1, FS_CardinalityType DEF Orders
<1> HIDE DEF lt
<1>3. /\ \A s \in S : Rank(S, lt, s) \in 0 .. m - 1
      /\ \A s, t \in S : <<s, t>> \in lt <=> Rank(S, lt, s) < Rank(S, lt, t)
  BY <1>1, RankIsPlace
<1>4. \A s \in S : Rank(S, lt, s) = Cardinality({t \in S : LexBefore(Place(t, u), Place(s, u))})
  <2> SUFFICES ASSUME NEW s \in S PROVE Before(S, lt, s) = {t \in S : LexBefore(Place(t, u), Place(s, u))}
    BY DEF Rank
  <2> QED
    BY <1>1 DEF Before
<1>5. FirstSlices(n, S, u) = {s \in S : Rank(S, lt, s) < n}
  BY <1>4 DEF FirstSlices
<1> HIDE DEF m
<1>6. \A s \in S : Rank(S, lt, s) \in Nat /\ Rank(S, lt, s) < m
  BY <1>2, <1>3
<1>7. FirstSlices(n, S, u) = Run(S, lt, 0, n - 1)
  <2>1. \A s \in S : Rank(S, lt, s) < n <=> Rank(S, lt, s) \in 0 .. n - 1
    BY <1>6
  <2> QED
    BY <1>5, <2>1 DEF Run
<1>8. m <= n => FirstSlices(n, S, u) = S
  BY <1>2, <1>5, <1>6
<1>9. n - 1 < m => Cardinality(FirstSlices(n, S, u)) = n
  <2> SUFFICES ASSUME n - 1 < m PROVE Cardinality(Run(S, lt, 0, n - 1)) = n
    BY <1>7
  <2>1. Cardinality(Run(S, lt, 0, n - 1)) = IF 0 > n - 1 THEN 0 ELSE (n - 1) - 0 + 1
    BY <1>1, RunIsOrdered DEF m
  <2> QED
    BY <2>1
<1>10. IsFiniteSet(FirstSlices(n, S, u)) /\ Cardinality(FirstSlices(n, S, u)) \in 0 .. n
  <2>1. FirstSlices(n, S, u) \in SUBSET S
    BY <1>5
  <2>2. IsFiniteSet(FirstSlices(n, S, u))
    BY <1>2, <2>1, FS_Subset
  <2>3. m <= n \/ n - 1 < m
    BY <1>2
  <2>4. Cardinality(FirstSlices(n, S, u)) = m \/ Cardinality(FirstSlices(n, S, u)) = n
    BY <1>8, <1>9, <2>3 DEF m
  <2>5. CASE m <= n
    BY <1>2, <1>8, <2>2, <2>5 DEF m
  <2>6. CASE n - 1 < m
    BY <1>9, <2>2, <2>6
  <2> QED
    BY <2>2, <2>3, <2>5, <2>6
<1>11. ASSUME n > 0, S # {} PROVE FirstSlices(n, S, u) # {}
  <2>1. CASE m <= n
    BY <1>8, <1>11, <2>1
  <2>2. CASE n - 1 < m
    BY <1>9, <1>11, <2>2, FS_EmptySet
  <2> QED
    BY <1>2, <2>1, <2>2
<1>12. ASSUME NEW s \in S, NEW t \in FirstSlices(n, S, u), LexBefore(Place(s, u), Place(t, u))
       PROVE  s \in FirstSlices(n, S, u)
  <2>1. t \in S /\ Rank(S, lt, t) < n
    BY <1>5
  <2>2. Rank(S, lt, s) < Rank(S, lt, t)
    BY <1>1, <1>3, <1>12, <2>1
  <2> QED
    BY <1>5, <1>6, <2>1, <2>2
<1> QED
  BY <1>8, <1>10, <1>11, <1>12 DEF m

\* Of finitely many elements with tuples of numbers one leads.
LEMMA LexLeads ==
  ASSUME NEW S, IsFiniteSet(S), S # {}, NEW n \in Nat, NEW f \in [S -> [1 .. n -> Int]]
  PROVE  \E x \in S : \A y \in S : ~ LexBefore(f[y], f[x])
<1> DEFINE lt == {p \in S \X S : LexBefore(f[p[1]], f[p[2]])}
<1>1. \A x, y \in S : <<x, y>> \in lt <=> LexBefore(f[x], f[y])
  OBVIOUS
<1>2. ASSUME NEW x \in S PROVE ~ LexBefore(f[x], f[x])
  BY LexIsOrder
<1>3. ASSUME NEW x \in S, NEW y \in S, NEW z \in S, LexBefore(f[x], f[y]), LexBefore(f[y], f[z])
      PROVE  LexBefore(f[x], f[z])
  <2>1. f[x] \in [1 .. n -> Int] /\ f[y] \in [1 .. n -> Int] /\ f[z] \in [1 .. n -> Int]
    OBVIOUS
  <2> QED
    BY <1>3, <2>1, LexIsOrder
<1> HIDE DEF lt
<1>4. \E x \in S : \A y \in S : <<y, x>> \notin lt
  <2>1. \A x \in S : <<x, x>> \notin lt
    BY <1>1, <1>2
  <2>2. \A x, y, z \in S : <<x, y>> \in lt /\ <<y, z>> \in lt => <<x, z>> \in lt
    BY <1>1, <1>3
  <2> QED
    BY <2>1, <2>2, LeadingExists
<1> QED
  BY <1>1, <1>4

\* The units, their first rounds and how long they have waited.
LEMMA UnitsAre ==
  ASSUME PoolTyped(Pool)
  PROVE  /\ IsFiniteSet(Units) /\ (Pool # {} => Units # {})
         /\ \A u \in Units :
              /\ u.members # {} /\ u.members \subseteq Keys
              /\ \A k, j \in u.members : k[2] = j[2] /\ k[3] = j[3]
              /\ SlicesOf(u.members) # {} /\ Size(u.members) \in Nat \ {0}
              /\ First(u) \in u.members
              /\ Waited(u) \in Nat /\ Since(u.members) \in Nat
<1>1. IsFiniteSet(Units)
  <2> DEFINE f == [k \in Keys |-> UnitOf(k)]
  <2>1. IsFiniteSet({f[k] : k \in Keys})
    <3> HIDE DEF f
    <3> QED
      BY KeysAre, FiniteImage
  <2>2. Units = {f[k] : k \in Keys}
    BY DEF Units
  <2> QED
    BY <2>1, <2>2
<1>2. Pool # {} => Units # {}
  BY DEF Units, Keys
<1>3. ASSUME NEW u \in Units
      PROVE  /\ u.members # {} /\ u.members \subseteq Keys
             /\ \A k, j \in u.members : k[2] = j[2] /\ k[3] = j[3]
             /\ SlicesOf(u.members) # {} /\ Size(u.members) \in Nat \ {0}
             /\ First(u) \in u.members
             /\ Waited(u) \in Nat /\ Since(u.members) \in Nat
  <2>1. PICK k \in Keys : u = UnitOf(k)
    BY DEF Units
  <2>2. /\ k \in u.members /\ u.members \subseteq Keys
        /\ \A j \in u.members : j[2] = k[2] /\ j[3] = k[3]
    BY <2>1, UnitsAgree
  <2>3. SlicesOf(u.members) # {}
    <3>1. PICK s \in Pool : Key(s) = k
      BY DEF Keys
    <3> QED
      BY <2>2, <3>1 DEF SlicesOf
  <2>4. Size(u.members) \in Nat \ {0}
    BY <2>3, SlicesAreFinite, FS_EmptySet DEF Size
  <2>5. First(u) \in u.members
    <3>1. {j[1] : j \in u.members} \in SUBSET Nat /\ {j[1] : j \in u.members} # {}
      BY <2>2, KeysAre DEF Chains
    <3>2. PICK c \in {j[1] : j \in u.members} : \A d \in {j[1] : j \in u.members} : c <= d
      BY <3>1, LeastNatural
    <3>3. \E i \in u.members : \A j \in u.members : i[1] <= j[1]
      BY <3>2
    <3> QED
      BY <3>3, Zenon DEF First
  <2>6. Waited(u) \in Nat
    <3> DEFINE S == {s.miss : s \in SlicesOf(u.members)}
               f == [s \in SlicesOf(u.members) |-> s.miss]
    <3>1. SlicesOf(u.members) \subseteq SliceType /\ IsFiniteSet(SlicesOf(u.members))
      BY SlicesAreFinite DEF PoolTyped
    <3>2. S \in SUBSET Nat /\ S # {}
      BY <2>3, <3>1 DEF SliceType
    <3>3. IsFiniteSet({f[s] : s \in SlicesOf(u.members)})
      <4> HIDE DEF f
      <4> QED
        BY <3>1, FiniteImage
    <3>4. S = {f[s] : s \in SlicesOf(u.members)}
      OBVIOUS
    <3> HIDE DEF S, f
    <3>5. Max(S) \in S
      BY <3>2, <3>3, <3>4, MaxIs
    <3> QED
      BY <3>2, <3>5 DEF Waited, S
  <2>7. Since(u.members) \in Nat
    BY <2>3, SinceIs
  <2>8. \A i, j \in u.members : i[2] = j[2] /\ i[3] = j[3]
    BY <2>2
  <2> QED
    BY <2>2, <2>3, <2>4, <2>5, <2>6, <2>7, <2>8
<1> QED
  BY <1>1, <1>2, <1>3

\* There is an anchor whenever a slice waits.
LEMMA AnchorsExist ==
  ASSUME PoolTyped(Pool)
  PROVE  Anchors(Units) \subseteq Units /\ (Pool # {} => Anchors(Units) # {})
<1>1. \A u \in Units : PassedOver(u) \in [1 .. 5 -> Int] /\ ByWait(u) \in [1 .. 5 -> Int]
  <2> SUFFICES ASSUME NEW u \in Units PROVE PassedOver(u) \in [1 .. 5 -> Int] /\ ByWait(u) \in [1 .. 5 -> Int]
    OBVIOUS
  <2>1. Waited(u) \in Nat /\ Since(u.members) \in Nat /\ First(u) \in Keys
    BY UnitsAre
  <2>2. First(u)[1] \in Int /\ First(u)[2] \in Int /\ First(u)[3] \in Int
    BY <2>1, KeysAre DEF Chains, Rounds
  <2>3. -Waited(u) \in Int
    BY <2>1
  <2> QED
    BY <2>1, <2>2, <2>3 DEF PassedOver, ByWait
<1>2. ASSUME NEW S \in SUBSET Units, S # {}
      PROVE  /\ Leading(S, PassedOver) # {} /\ Leading(S, PassedOver) \subseteq S
             /\ Leading(S, ByWait) # {} /\ Leading(S, ByWait) \subseteq S
  <2> DEFINE f == [u \in S |-> PassedOver(u)]
             g == [u \in S |-> ByWait(u)]
  <2>1. f \in [S -> [1 .. 5 -> Int]] /\ g \in [S -> [1 .. 5 -> Int]] /\ IsFiniteSet(S)
    BY <1>1, UnitsAre, FS_Subset
  <2>2. \A u \in S : f[u] = PassedOver(u) /\ g[u] = ByWait(u)
    OBVIOUS
  <2> HIDE DEF f, g
  <2>3. \E x \in S : \A y \in S : ~ LexBefore(f[y], f[x])
    BY <1>2, <2>1, LexLeads
  <2>4. \E x \in S : \A y \in S : ~ LexBefore(g[y], g[x])
    BY <1>2, <2>1, LexLeads
  <2>5. \E x \in S : \A y \in S : ~ LexBefore(PassedOver(y), PassedOver(x))
    BY <2>2, <2>3
  <2>6. \E x \in S : \A y \in S : ~ LexBefore(ByWait(y), ByWait(x))
    BY <2>2, <2>4
  <2> QED
    BY <2>5, <2>6 DEF Leading
<1> DEFINE overdue == {u \in Units : ~ u.complete /\ Waited(u) > Args.patience}
           complete == {u \in Units : u.complete}
<1>3. overdue \in SUBSET Units /\ complete \in SUBSET Units
  OBVIOUS
<1>4. Anchors(Units) =
        CASE overdue # {} -> Leading(overdue, PassedOver)
          [] overdue = {} /\ complete # {} -> Leading(complete, ByWait)
          [] OTHER -> Leading(Units, ByWait)
  BY DEF Anchors
<1> HIDE DEF overdue, complete
<1>5. CASE overdue # {}
  <2>1. Anchors(Units) = Leading(overdue, PassedOver)
    BY <1>4, <1>5
  <2> QED
    BY <1>2, <1>3, <1>5, <2>1
<1>6. CASE overdue = {} /\ complete # {}
  <2>1. Anchors(Units) = Leading(complete, ByWait)
    BY <1>4, <1>6
  <2> QED
    BY <1>2, <1>3, <1>6, <2>1
<1>7. CASE overdue = {} /\ complete = {}
  <2>1. Anchors(Units) = Leading(Units, ByWait)
    BY <1>4, <1>7
  <2>2. CASE Units = {}
    BY <2>1, <2>2, UnitsAre DEF Leading
  <2>3. CASE Units # {}
    BY <1>2, <2>1, <2>3
  <2> QED
    BY <2>2, <2>3
<1> QED
  BY <1>5, <1>6, <1>7

\* Fractions with positive denominators are ordered by their values.
LEMMA LowerIsOrder ==
  ASSUME NEW a \in Nat \X (Nat \ {0}), NEW b \in Nat \X (Nat \ {0}), NEW c \in Nat \X (Nat \ {0})
  PROVE  ~ Lower(a, a) /\ (Lower(a, b) /\ Lower(b, c) => Lower(a, c))
<1> DEFINE an == a[1]
           ad == a[2]
           bn == b[1]
           bd == b[2]
           cn == c[1]
           cd == c[2]
<1>1. an \in Nat /\ ad \in Nat \ {0} /\ bn \in Nat /\ bd \in Nat \ {0} /\ cn \in Nat /\ cd \in Nat \ {0}
  OBVIOUS
<1>2. /\ Lower(a, a) <=> an * ad < an * ad
      /\ Lower(a, b) <=> an * bd < bn * ad
      /\ Lower(b, c) <=> bn * cd < cn * bd
      /\ Lower(a, c) <=> an * cd < cn * ad
  BY DEF Lower
<1> HIDE DEF an, ad, bn, bd, cn, cd
<1>3. ASSUME an * bd < bn * ad, bn * cd < cn * bd, cn * ad <= an * cd PROVE FALSE
  <2>1. (an * bd) * cd < (bn * ad) * cd
    <3> DEFINE x == an * bd
               y == bn * ad
    <3>1. x \in Nat /\ y \in Nat /\ x < y
      BY <1>1, <1>3
    <3> HIDE DEF x, y
    <3>2. x * cd < y * cd
      BY <1>1, <3>1
    <3> QED
      BY <3>2 DEF x, y
  <2>2. (bn * cd) * ad < (cn * bd) * ad
    <3> DEFINE x == bn * cd
               y == cn * bd
    <3>1. x \in Nat /\ y \in Nat /\ x < y
      BY <1>1, <1>3
    <3> HIDE DEF x, y
    <3>2. x * ad < y * ad
      BY <1>1, <3>1
    <3> QED
      BY <3>2 DEF x, y
  <2>3. (cn * ad) * bd <= (an * cd) * bd
    <3> DEFINE x == cn * ad
               y == an * cd
    <3>1. x \in Nat /\ y \in Nat /\ x <= y
      BY <1>1, <1>3
    <3> HIDE DEF x, y
    <3>2. x * bd <= y * bd
      BY <1>1, <3>1
    <3> QED
      BY <3>2 DEF x, y
  <2>4. (an * bd) * cd = (an * cd) * bd /\ (bn * ad) * cd = (bn * cd) * ad /\ (cn * bd) * ad = (cn * ad) * bd
    BY <1>1
  <2>5. (an * bd) * cd \in Int /\ (bn * ad) * cd \in Int /\ (cn * bd) * ad \in Int
    BY <1>1
  <2> QED
    BY <2>1, <2>2, <2>3, <2>4, <2>5
<1>4. an * ad \in Int /\ an * cd \in Int /\ cn * ad \in Int
  BY <1>1
<1> QED
  BY <1>2, <1>3, <1>4

\* The time per slice is such a fraction; with no fixed and no mixing cost it falls with no fill.
LEMMA PerWorkIs ==
  ASSUME Args \in ArgsType, NEW k \in Nat \ {0}, NEW n \in Nat \ {0}
  PROVE  /\ PerWork(k, n) \in Nat \X (Nat \ {0})
         /\ \A j, m \in Nat \ {0} :
              j <= k /\ Args.fixed = 0 /\ Args.mix = 0 => ~ Lower(PerWork(k, n), PerWork(j, m))
<1> DEFINE f(i) == Args.fixed + Args.mix * (i - 1)
           r == Args.ref
<1>1. Args.fixed \in Nat /\ Args.mix \in Nat /\ Args.beta \in {1, 2} /\ r \in Nat \ {0}
  BY DEF ArgsType
<1>2. \A i \in Nat \ {0} : f(i) \in Nat
  BY <1>1
<1>3. \A x, i : PerWork(x, i) = IF Args.beta = 1 THEN <<f(i) + x, x>> ELSE <<f(i) * r + x * x, x * r>>
  BY DEF PerWork
<1>4. \A x, y \in Nat \ {0} : x * y \in Nat \ {0}
  OBVIOUS
<1>5. PerWork(k, n) \in Nat \X (Nat \ {0})
  <2>1. f(n) \in Nat
    BY <1>2
  <2> HIDE DEF f, r
  <2>2. f(n) + k \in Nat /\ f(n) * r + k * k \in Nat /\ k * r \in Nat \ {0}
    BY <1>1, <1>4, <2>1
  <2> QED
    BY <1>3, <2>2
<1>6. ASSUME NEW j \in Nat \ {0}, NEW m \in Nat \ {0}, j <= k, Args.fixed = 0, Args.mix = 0
      PROVE  ~ Lower(PerWork(k, n), PerWork(j, m))
  <2>1. f(n) = 0 /\ f(m) = 0
    BY <1>6
  <2> HIDE DEF f, r
  <2>2. CASE Args.beta = 1
    <3>1. PerWork(k, n) = <<k, k>> /\ PerWork(j, m) = <<j, j>>
      BY <1>3, <2>1, <2>2
    <3> QED
      BY <3>1 DEF Lower
  <2>3. CASE Args.beta # 1
    <3>1. PerWork(k, n) = <<k * k, k * r>> /\ PerWork(j, m) = <<j * j, j * r>>
      BY <1>1, <1>3, <1>4, <2>1, <2>3
    <3>2. Lower(PerWork(k, n), PerWork(j, m)) <=> (k * k) * (j * r) < (j * j) * (k * r)
      BY <3>1 DEF Lower
    <3>3. (k * k) * (j * r) = k * ((k * j) * r) /\ (j * j) * (k * r) = j * ((k * j) * r)
      BY <1>1
    <3> DEFINE x == (k * j) * r
    <3>4. x \in Nat
      BY <1>1
    <3> HIDE DEF x
    <3>5. j * x <= k * x
      <4> DEFINE d == k - j
      <4>1. d \in Nat /\ k = j + d
        BY <1>6
      <4> HIDE DEF d
      <4>2. k * x = j * x + d * x /\ d * x \in Nat /\ j * x \in Nat
        BY <3>4, <4>1
      <4> QED
        BY <4>2
    <3>6. j * x \in Int /\ k * x \in Int
      BY <3>4
    <3>7. (k * k) * (j * r) = k * x /\ (j * j) * (k * r) = j * x
      BY <3>3 DEF x
    <3> QED
      BY <3>2, <3>5, <3>6, <3>7
  <2> QED
    BY <2>2, <2>3
<1> QED
  BY <1>5, <1>6

\* There is always a way to fill a unit's room, and it fits; with no fixed and no mixing cost
\* it is to leave it.
LEMMA FillsExist ==
  ASSUME CoTypeOK, NEW u \in Units
  PROVE  /\ Fills(u, Units) # {}
         /\ \A K \in Fills(u, Units) : K = {} \/ K \in Fitting(u)
         /\ Args.fixed = 0 /\ Args.mix = 0 => Fills(u, Units) = {{}}
<1>0. PoolTyped(Pool) /\ Args \in ArgsType
  BY DEF CoTypeOK
<1>1. IsFiniteSet(Keys) /\ u.members \subseteq Keys /\ First(u) \in u.members /\ Size(u.members) \in Nat \ {0}
  BY <1>0, KeysAre, UnitsAre
<1>2. \A K \in Fitting(u) : K \in SUBSET Keys
  BY DEF Fitting
<1>3. IsFiniteSet(Fitting(u))
  <2>1. Fitting(u) \in SUBSET (SUBSET Keys)
    BY <1>2
  <2>2. IsFiniteSet(SUBSET Keys)
    BY <1>1, FS_SUBSET
  <2> QED
    BY <2>1, <2>2, FS_Subset
<1> DEFINE size(K) == Size(u.members \cup K)
           many(K) == 1 + Cardinality({k[3] : k \in K} \ {First(u)[3]})
<1>4. \A K \in SUBSET Keys : size(K) \in Nat \ {0} /\ Size(u.members) <= size(K)
  <2> SUFFICES ASSUME NEW K \in SUBSET Keys PROVE size(K) \in Nat \ {0} /\ Size(u.members) <= size(K)
    OBVIOUS
  <2>1. SlicesOf(u.members) \in SUBSET SlicesOf(u.members \cup K)
    BY DEF SlicesOf
  <2>2. IsFiniteSet(SlicesOf(u.members \cup K)) /\ size(K) \in Nat
    BY <1>0, SlicesAreFinite
  <2>3. Size(u.members) <= size(K)
    BY <2>1, <2>2, FS_Subset DEF Size
  <2> QED
    BY <1>1, <2>2, <2>3
<1>5. \A K \in SUBSET Keys : many(K) \in Nat \ {0}
  <2> SUFFICES ASSUME NEW K \in SUBSET Keys PROVE many(K) \in Nat \ {0}
    OBVIOUS
  <2> DEFINE f == [k \in K |-> k[3]]
             tmpls == {k[3] : k \in K}
  <2>1. IsFiniteSet(K)
    BY <1>1, FS_Subset
  <2>2. IsFiniteSet({f[k] : k \in K})
    <3> HIDE DEF f
    <3> QED
      BY <2>1, FiniteImage
  <2>3. {f[k] : k \in K} = tmpls
    OBVIOUS
  <2> HIDE DEF f
  <2>4. tmpls \ {First(u)[3]} \in SUBSET tmpls
    OBVIOUS
  <2>5. IsFiniteSet(tmpls \ {First(u)[3]})
    <3> HIDE DEF tmpls
    <3> QED
      BY <2>2, <2>3, <2>4, FS_Subset
  <2> HIDE DEF tmpls
  <2>6. Cardinality(tmpls \ {First(u)[3]}) \in Nat
    BY <2>5, FS_CardinalityType
  <2> QED
    BY <2>6 DEF tmpls
<1>6. \A K : ValueWith(u, K) = PerWork(size(K), many(K))
  BY DEF ValueWith
<1> HIDE DEF size, many
<1>7. \A K \in SUBSET Keys : ValueWith(u, K) \in Nat \X (Nat \ {0})
  BY <1>0, <1>4, <1>5, <1>6, PerWorkIs
<1> DEFINE lowest == {K \in Fitting(u) : \A L \in Fitting(u) : ~ Lower(ValueWith(u, L), ValueWith(u, K))}
           cost(K) == FillCost(Units, K)
           pays == \E K \in Fitting(u) : FillPays(u, K)
<1>8. Fills(u, Units) = IF pays THEN Leading(lowest, cost) ELSE {{}}
  BY DEF Fills
<1>9. lowest \in SUBSET Fitting(u)
  OBVIOUS
<1>10. Leading(lowest, cost) = {K \in lowest : \A L \in lowest : ~ LexBefore(cost(L), cost(K))}
  BY DEF Leading
<1>11. Fitting(u) # {} => lowest # {}
  <2> SUFFICES ASSUME Fitting(u) # {} PROVE \E K \in Fitting(u) : \A L \in Fitting(u) : ~ Lower(ValueWith(u, L), ValueWith(u, K))
    OBVIOUS
  <2> DEFINE lt == {p \in Fitting(u) \X Fitting(u) : Lower(ValueWith(u, p[1]), ValueWith(u, p[2]))}
  <2>1. \A K, L \in Fitting(u) : <<K, L>> \in lt <=> Lower(ValueWith(u, K), ValueWith(u, L))
    OBVIOUS
  <2> HIDE DEF lt
  <2>2. \A K \in Fitting(u) : <<K, K>> \notin lt
    BY <1>2, <1>7, <2>1, LowerIsOrder
  <2>3. ASSUME NEW K \in Fitting(u), NEW L \in Fitting(u), NEW M \in Fitting(u), <<K, L>> \in lt, <<L, M>> \in lt
        PROVE  <<K, M>> \in lt
    <3>1. /\ ValueWith(u, K) \in Nat \X (Nat \ {0}) /\ ValueWith(u, L) \in Nat \X (Nat \ {0})
          /\ ValueWith(u, M) \in Nat \X (Nat \ {0})
      BY <1>2, <1>7
    <3>2. Lower(ValueWith(u, K), ValueWith(u, L)) /\ Lower(ValueWith(u, L), ValueWith(u, M))
      BY <2>1, <2>3
    <3> QED
      BY <2>1, <3>1, <3>2, LowerIsOrder
  <2>4. \E K \in Fitting(u) : \A L \in Fitting(u) : <<L, K>> \notin lt
    BY <1>3, <2>2, <2>3, LeadingExists
  <2> QED
    BY <2>1, <2>4
<1>12. \A K \in SUBSET Keys : cost(K) \in [1 .. 2 -> Int]
  <2> SUFFICES ASSUME NEW K \in SUBSET Keys PROVE cost(K) \in [1 .. 2 -> Int]
    OBVIOUS
  <2> DEFINE A == {v \in Units : v.members \cap K \notin {{}, v.members}}
             B == {p \in Keys \X K : LexBefore(Queued(p[1]), Queued(p[2]))}
  <2>1. cost(K) = <<Cardinality(A), Cardinality(B)>>
    BY DEF FillCost
  <2>2. A \in SUBSET Units /\ B \in SUBSET (Keys \X K)
    OBVIOUS
  <2>3. IsFiniteSet(Keys \X K)
    <3>1. IsFiniteSet(K)
      BY <1>1, FS_Subset
    <3> QED
      BY <1>1, <3>1, FS_Product
  <2> HIDE DEF A, B, cost
  <2>4. IsFiniteSet(A) /\ IsFiniteSet(B)
    BY <1>0, <2>2, <2>3, UnitsAre, FS_Subset
  <2>5. Cardinality(A) \in Nat /\ Cardinality(B) \in Nat
    BY <2>4, FS_CardinalityType
  <2> QED
    BY <2>1, <2>5
<1> HIDE DEF lowest, cost
<1>13. lowest # {} => Leading(lowest, cost) # {}
  <2> SUFFICES ASSUME lowest # {} PROVE \E K \in lowest : \A L \in lowest : ~ LexBefore(cost(L), cost(K))
    BY <1>10
  <2> DEFINE f == [K \in lowest |-> cost(K)]
  <2>1. f \in [lowest -> [1 .. 2 -> Int]]
    BY <1>2, <1>9, <1>12
  <2>2. \A K \in lowest : f[K] = cost(K)
    OBVIOUS
  <2> HIDE DEF f
  <2>3. IsFiniteSet(lowest)
    BY <1>3, <1>9, FS_Subset
  <2>4. \E K \in lowest : \A L \in lowest : ~ LexBefore(f[L], f[K])
    BY <2>1, <2>3, LexLeads
  <2> QED
    BY <2>2, <2>4
<1>14. Fills(u, Units) # {} /\ \A K \in Fills(u, Units) : K = {} \/ K \in Fitting(u)
  <2> HIDE DEF pays
  <2>1. CASE pays
    <3>1. Fills(u, Units) = Leading(lowest, cost) /\ Fitting(u) # {}
      BY <1>8, <2>1 DEF pays
    <3> QED
      BY <1>9, <1>10, <1>11, <1>13, <3>1
  <2>2. CASE ~ pays
    BY <1>8, <2>2
  <2> QED
    BY <2>1, <2>2
<1>15. ASSUME Args.fixed = 0, Args.mix = 0 PROVE Fills(u, Units) = {{}}
  <2>1. \A K \in Fitting(u) : ~ FillPays(u, K)
    <3> SUFFICES ASSUME NEW K \in Fitting(u) PROVE ~ Lower(ValueWith(u, K), ValueWith(u, {}))
      BY DEF FillPays
    <3>1. K \in SUBSET Keys /\ {} \in SUBSET Keys
      BY <1>2
    <3>2. size(K) \in Nat \ {0} /\ many(K) \in Nat \ {0} /\ size({}) \in Nat \ {0} /\ many({}) \in Nat \ {0}
      BY <1>4, <1>5, <3>1
    <3>3. size({}) = Size(u.members)
      BY DEF size
    <3>4. size({}) <= size(K)
      BY <1>4, <3>1, <3>3
    <3> QED
      BY <1>0, <1>6, <1>15, <3>2, <3>4, PerWorkIs
  <2> QED
    BY <1>8, <2>1
<1> QED
  BY <1>14, <1>15

\* A unit is spread over at least one lane.
LEMMA CeilDivIs ==
  ASSUME NEW a \in Nat, NEW b \in Nat \ {0} PROVE CeilDiv(a, b) \in Nat
<1>1. a + b - 1 \in Nat
  OBVIOUS
<1> QED
  BY <1>1 DEF CeilDiv

LEMMA LanesAre ==
  ASSUME CoTypeOK, NEW u \in Units, NEW lanes \in Nat
  PROVE  LanesFor(u, Units, lanes) \in Nat \ {0}
<1> DEFINE ready == Size(u.members)
           avail == lanes - (Cardinality(Units) - 1)
           use == Min({avail, ready})
<1>1. ready \in Nat \ {0} /\ Args.ref \in Nat \ {0}
  BY UnitsAre DEF CoTypeOK, ArgsType
<1>2. avail \in Int
  BY UnitsAre, FS_CardinalityType DEF CoTypeOK
<1>3. LanesFor(u, Units, lanes) = IF lanes > 1 /\ avail > 1 THEN SpreadN(ready, use) ELSE 1
  BY DEF LanesFor
<1> HIDE DEF ready, avail
<1>4. use \in Int
  BY <1>1, <1>2, MinOfTwo
<1> HIDE DEF use
<1> DEFINE n == Max({1, CeilDiv(ready, Args.ref)})
           top == Max({n, Min({use, ready})})
           S == {m \in n .. top : m = top \/ ~ Gains(ready, m)}
<1>5. n \in Nat \ {0}
  <2>1. CeilDiv(ready, Args.ref) \in Nat
    BY <1>1, CeilDivIs
  <2> QED
    BY <2>1, MaxOfTwo
<1> HIDE DEF n
<1>6. top \in Nat /\ top >= n
  <2>1. Min({use, ready}) \in Int
    BY <1>1, <1>4, MinOfTwo
  <2> QED
    BY <1>5, <2>1, MaxOfTwo
<1> HIDE DEF top
<1>7. S \in SUBSET Int /\ top \in S
  BY <1>5, <1>6
<1>8. IsFiniteSet(S)
  <2>1. S \in SUBSET (n .. top) /\ IsFiniteSet(n .. top)
    BY <1>5, <1>6, FS_Interval
  <2> HIDE DEF S
  <2> QED
    BY <2>1, FS_Subset
<1>9. Min(S) \in n .. top
  <2>1. Min(S) \in S
    <3> HIDE DEF S
    <3> QED
      BY <1>7, <1>8, MinIs
  <2> QED
    BY <2>1
<1>10. SpreadN(ready, use) = Min(S)
  BY DEF SpreadN, n, top
<1> QED
  BY <1>3, <1>5, <1>6, <1>9, <1>10

\* A batch as the job manager may commit it.
Dispatched(batch, anchor) ==
  /\ batch \subseteq Pool /\ Cardinality(batch) \in 1 .. BatchSize
  /\ batch \cap SlicesOf(anchor) # {}
  /\ \A s \in SlicesOf(anchor), t \in batch :
       Key(t) \in anchor /\ (s.chain < t.chain \/ (s.chain = t.chain /\ s.id < t.id)) => s \in batch
  /\ \A k \in Keys \ anchor : Group(k) \cap batch \in {{}, Group(k)}

\* Slices of a unit before another one in chain order stand before it.
LEMMA UnitOrder ==
  ASSUME PoolTyped(Pool), NEW u \in Units, NEW s \in Pool, NEW t \in Pool,
         Key(s) \in u.members, Key(t) \in u.members,
         s.chain < t.chain \/ (s.chain = t.chain /\ s.id < t.id)
  PROVE  LexBefore(Place(s, u), Place(t, u))
<1> DEFINE p == Place(s, u)
           q == Place(t, u)
<1>1. /\ p \in [1 .. 6 -> Int] /\ p[6] = s.id /\ p[3] = s.chain /\ p[4] = s.round /\ p[5] = s.tmpl /\ p[1] = 0 /\ p[2] = 0
      /\ q \in [1 .. 6 -> Int] /\ q[6] = t.id /\ q[3] = t.chain /\ q[4] = t.round /\ q[5] = t.tmpl /\ q[1] = 0 /\ q[2] = 0
  BY PlaceIs
<1>2. s.round = t.round /\ s.tmpl = t.tmpl
  <2>1. Key(s)[2] = Key(t)[2] /\ Key(s)[3] = Key(t)[3]
    BY UnitsAre
  <2> QED
    BY <2>1 DEF Key
<1> HIDE DEF p, q
<1>3. DOMAIN p = 1 .. 6
  BY <1>1
<1>4. CASE s.chain < t.chain
  <2>1. p[3] < q[3] /\ \A j \in 1 .. 3 - 1 : p[j] = q[j]
    <3>1. \A j \in 1 .. 3 - 1 : j = 1 \/ j = 2
      OBVIOUS
    <3> QED
      BY <1>1, <1>4, <3>1
  <2>2. \E i \in DOMAIN p : p[i] < q[i] /\ \A j \in 1 .. i - 1 : p[j] = q[j]
    BY <1>3, <2>1
  <2> QED
    BY <2>2 DEF LexBefore, p, q
<1>5. CASE s.chain = t.chain /\ s.id < t.id
  <2>1. p[6] < q[6] /\ \A j \in 1 .. 6 - 1 : p[j] = q[j]
    <3>1. \A j \in 1 .. 6 - 1 : j = 1 \/ j = 2 \/ j = 3 \/ j = 4 \/ j = 5
      OBVIOUS
    <3> QED
      BY <1>1, <1>2, <1>5, <3>1
  <2>2. \E i \in DOMAIN p : p[i] < q[i] /\ \A j \in 1 .. i - 1 : p[j] = q[j]
    BY <1>3, <2>1
  <2> QED
    BY <2>2 DEF LexBefore, p, q
<1> QED
  BY <1>4, <1>5

\* The first slices of a unit, or of the first slices of a unit.
LEMMA OwnAreDispatched ==
  ASSUME PackAssumption, CoTypeOK, NEW u \in Units, NEW S \in SUBSET SlicesOf(u.members), S # {},
         \A s \in SlicesOf(u.members), t \in S : LexBefore(Place(s, u), Place(t, u)) => s \in S
  PROVE  Dispatched(FirstSlices(BatchSize, S, u), u.members)
<1> DEFINE own == SlicesOf(u.members)
           batch == FirstSlices(BatchSize, S, u)
<1>0. PoolTyped(Pool) /\ own \subseteq Pool /\ S \in SUBSET Pool /\ BatchSize \in Nat \ {0}
  BY SlicesAreFinite DEF CoTypeOK, PackAssumption
<1>1. /\ IsFiniteSet(batch) /\ Cardinality(batch) \in 0 .. BatchSize /\ batch # {} /\ batch \subseteq S
      /\ \A s \in S, t \in batch : LexBefore(Place(s, u), Place(t, u)) => s \in batch
  BY <1>0, FirstSlicesAre, FirstAreQueued
<1> HIDE DEF batch
<1>2. Cardinality(batch) \in 1 .. BatchSize
  BY <1>0, <1>1, FS_EmptySet
<1>3. \A s \in own, t \in batch :
        Key(t) \in u.members /\ (s.chain < t.chain \/ (s.chain = t.chain /\ s.id < t.id)) => s \in batch
  <2> SUFFICES ASSUME NEW s \in own, NEW t \in batch, Key(t) \in u.members,
                      s.chain < t.chain \/ (s.chain = t.chain /\ s.id < t.id)
               PROVE  s \in batch
    OBVIOUS
  <2>1. Key(s) \in u.members /\ s \in Pool /\ t \in Pool
    BY <1>0, <1>1 DEF SlicesOf
  <2>2. LexBefore(Place(s, u), Place(t, u))
    BY <1>0, <2>1, UnitOrder
  <2> QED
    BY <1>1, <2>2
<1>4. \A k \in Keys \ u.members : Group(k) \cap batch = {}
  BY <1>1 DEF Group, SlicesOf
<1> QED
  BY <1>0, <1>1, <1>2, <1>3, <1>4 DEF Dispatched, batch

\* A unit and the rounds that fill its room.
LEMMA FilledAreDispatched ==
  ASSUME PackAssumption, CoTypeOK, NEW u \in Units, NEW K, K = {} \/ K \in Fitting(u), Size(u.members) <= BatchSize
  PROVE  /\ FirstSlices(BatchSize, SlicesOf(u.members) \cup SlicesOf(K), u) = SlicesOf(u.members) \cup SlicesOf(K)
         /\ Dispatched(SlicesOf(u.members) \cup SlicesOf(K), u.members)
<1> DEFINE own == SlicesOf(u.members)
           other == SlicesOf(K)
           batch == own \cup other
<1>1. /\ PoolTyped(Pool) /\ BatchSize \in Nat \ {0}
      /\ own \subseteq Pool /\ other \subseteq Pool /\ IsFiniteSet(own) /\ IsFiniteSet(other)
      /\ Size(u.members) \in Nat /\ Size(K) \in Nat /\ own # {}
  BY SlicesAreFinite, UnitsAre DEF CoTypeOK, PackAssumption
<1>2. Size(u.members) + Size(K) <= BatchSize
  <2>1. CASE K = {}
    <3>1. other = {}
      BY <2>1 DEF SlicesOf
    <3>2. Size(K) = 0
      BY <3>1, FS_EmptySet DEF Size
    <3> QED
      BY <1>1, <3>2
  <2>2. CASE K \in Fitting(u)
    BY <1>1, <2>2 DEF Fitting
  <2> QED
    BY <2>1, <2>2
<1>3. IsFiniteSet(batch) /\ Cardinality(batch) <= Size(u.members) + Size(K) /\ Cardinality(batch) \in Nat
  <2>1. IsFiniteSet(batch) /\ Cardinality(batch) = Cardinality(own) + Cardinality(other) - Cardinality(own \cap other)
    <3> HIDE DEF own, other
    <3> QED
      BY <1>1, FS_Union
  <2>2. Cardinality(own \cap other) \in Nat
    <3>1. own \cap other \in SUBSET own
      OBVIOUS
    <3> HIDE DEF own, other
    <3> QED
      BY <1>1, <3>1, FS_Subset, FS_CardinalityType
  <2>3. Cardinality(own) = Size(u.members) /\ Cardinality(other) = Size(K)
    BY DEF Size
  <2>4. Cardinality(batch) \in Nat
    BY <2>1, FS_CardinalityType
  <2> HIDE DEF own, other, batch
  <2> QED
    BY <1>1, <2>1, <2>2, <2>3, <2>4
<1>4. batch \in SUBSET Pool /\ Cardinality(batch) <= BatchSize /\ batch # {}
  BY <1>1, <1>2, <1>3
<1>5. FirstSlices(BatchSize, batch, u) = batch
  <2> HIDE DEF batch
  <2> QED
    BY <1>1, <1>4, FirstSlicesAre
<1>6. Cardinality(batch) \in 1 .. BatchSize
  <2> HIDE DEF batch
  <2>1. Cardinality(batch) # 0
    BY <1>3, <1>4, FS_EmptySet
  <2> QED
    BY <1>1, <1>3, <1>4, <2>1
<1>7. batch \cap own # {} /\ own \subseteq batch
  BY <1>1
<1>8. ASSUME NEW k \in Keys \ u.members PROVE Group(k) \cap batch \in {{}, Group(k)}
  <2>1. Group(k) \cap own = {}
    BY DEF Group, SlicesOf
  <2>2. CASE k \in K
    <3>1. Group(k) \subseteq other
      BY <2>2 DEF Group, SlicesOf
    <3> QED
      BY <3>1
  <2>3. CASE k \notin K
    <3>1. Group(k) \cap other = {}
      BY <2>3 DEF Group, SlicesOf
    <3> QED
      BY <2>1, <3>1
  <2> QED
    BY <2>2, <2>3
<1> HIDE DEF batch
<1>9. \A k \in Keys \ u.members : Group(k) \cap batch \in {{}, Group(k)}
  BY <1>8
<1>10. Dispatched(batch, u.members)
  BY <1>4, <1>6, <1>7, <1>9 DEF Dispatched
<1> QED
  BY <1>5, <1>10 DEF batch

\* Whatever the policy selects can be dispatched, and keeps to the unit when neither lanes nor
\* templates cost anything; and it selects something.
LEMMA BatchesAreDispatched ==
  ASSUME PackAssumption, CoTypeOK, NEW u \in Units, NEW lanes \in Nat
  PROVE  /\ SelectBatch(u, Units, lanes) # {}
         /\ \A batch \in SelectBatch(u, Units, lanes) :
              /\ Dispatched(batch, u.members)
              /\ Args.fixed = 0 /\ Args.mix = 0 => batch \subseteq SlicesOf(u.members)
<1> DEFINE own == SlicesOf(u.members)
           n == LanesFor(u, Units, lanes)
           share == Max({1, CeilDiv(Size(u.members), n)})
           first == FirstSlices(share, own, u)
<1>0. PoolTyped(Pool) /\ own \in SUBSET Pool /\ own # {} /\ Size(u.members) \in Nat \ {0} /\ BatchSize \in Nat \ {0}
  BY SlicesAreFinite, UnitsAre DEF CoTypeOK, PackAssumption
<1>1. n \in Nat \ {0}
  BY LanesAre
<1>2. SelectBatch(u, Units, lanes) =
        CASE n > 1 -> {FirstSlices(BatchSize, first, u)}
          [] n = 1 /\ Size(u.members) < BatchSize ->
               {FirstSlices(BatchSize, own \cup SlicesOf(K), u) : K \in Fills(u, Units)}
          [] OTHER -> {FirstSlices(BatchSize, own, u)}
  BY DEF SelectBatch
<1> HIDE DEF n
<1>3. share \in Nat \ {0}
  <2>1. CeilDiv(Size(u.members), n) \in Nat
    BY <1>0, <1>1, CeilDivIs
  <2> QED
    BY <2>1, MaxOfTwo
<1> HIDE DEF share
<1>4. first \subseteq own /\ first # {} /\ \A s \in own, t \in first : LexBefore(Place(s, u), Place(t, u)) => s \in first
  <2> HIDE DEF own
  <2> QED
    BY <1>0, <1>3, FirstSlicesAre, FirstAreQueued
<1> HIDE DEF first
<1>5. CASE n > 1
  <2>1. SelectBatch(u, Units, lanes) = {FirstSlices(BatchSize, first, u)}
    BY <1>2, <1>5
  <2>2. Dispatched(FirstSlices(BatchSize, first, u), u.members)
    BY <1>4, OwnAreDispatched
  <2>3. FirstSlices(BatchSize, first, u) \subseteq own
    BY <1>4, FirstAreQueued
  <2> QED
    BY <2>1, <2>2, <2>3
<1>6. CASE n = 1 /\ Size(u.members) < BatchSize
  <2>1. SelectBatch(u, Units, lanes) = {FirstSlices(BatchSize, own \cup SlicesOf(K), u) : K \in Fills(u, Units)}
    BY <1>2, <1>6
  <2>2. Fills(u, Units) # {} /\ (\A K \in Fills(u, Units) : K = {} \/ K \in Fitting(u))
        /\ (Args.fixed = 0 /\ Args.mix = 0 => Fills(u, Units) = {{}})
    BY FillsExist
  <2>3. SlicesOf({}) = {}
    BY DEF SlicesOf
  <2>4. ASSUME NEW K \in Fills(u, Units)
        PROVE  /\ Dispatched(FirstSlices(BatchSize, own \cup SlicesOf(K), u), u.members)
               /\ Args.fixed = 0 /\ Args.mix = 0 => FirstSlices(BatchSize, own \cup SlicesOf(K), u) \subseteq own
    <3>1. Size(u.members) <= BatchSize
      BY <1>0, <1>6
    <3>2. /\ FirstSlices(BatchSize, own \cup SlicesOf(K), u) = own \cup SlicesOf(K)
          /\ Dispatched(own \cup SlicesOf(K), u.members)
      BY <2>2, <3>1, FilledAreDispatched
    <3>3. Args.fixed = 0 /\ Args.mix = 0 => SlicesOf(K) = {}
      BY <2>2, <2>3
    <3> HIDE DEF own
    <3> QED
      BY <3>2, <3>3
  <2> HIDE DEF own
  <2>5. SelectBatch(u, Units, lanes) # {}
    <3>1. PICK K \in Fills(u, Units) : TRUE
      BY <2>2
    <3>2. FirstSlices(BatchSize, own \cup SlicesOf(K), u) \in SelectBatch(u, Units, lanes)
      BY <2>1, <3>1
    <3> QED
      BY <3>2
  <2>6. ASSUME NEW batch \in SelectBatch(u, Units, lanes)
        PROVE  Dispatched(batch, u.members) /\ (Args.fixed = 0 /\ Args.mix = 0 => batch \subseteq own)
    <3>1. PICK K \in Fills(u, Units) : batch = FirstSlices(BatchSize, own \cup SlicesOf(K), u)
      BY <2>1
    <3> QED
      BY <2>4, <3>1
  <2> QED
    BY <2>5, <2>6 DEF own
<1>7. CASE n = 1 /\ ~ (Size(u.members) < BatchSize)
  <2>1. SelectBatch(u, Units, lanes) = {FirstSlices(BatchSize, own, u)}
    BY <1>2, <1>7
  <2>2. Dispatched(FirstSlices(BatchSize, own, u), u.members)
    BY <1>0, OwnAreDispatched
  <2>3. FirstSlices(BatchSize, own, u) \subseteq own
    BY FirstAreQueued
  <2> QED
    BY <2>1, <2>2, <2>3
<1> QED
  BY <1>1, <1>5, <1>6, <1>7

LEMMA CoBaseStep ==
  ASSUME PackAssumption, CoBase, [CoNext]_coVars PROVE CoBase'
<1>1. CASE Arrive
  BY <1>1, CoBaseArrive
<1>2. CASE Select
  <2>1. PICK lanes \in LaneCounts, units \in {Units} : \E u \in Anchors(units) : \E batch \in SelectBatch(u, units, lanes) :
          chosen' = [batch |-> batch, missed |-> Pool \ batch, anchor |-> u.members]
    BY <1>2 DEF Select
  <2>2. PICK u \in Anchors(Units) : \E batch \in SelectBatch(u, Units, lanes) :
          chosen' = [batch |-> batch, missed |-> Pool \ batch, anchor |-> u.members]
    BY <2>1
  <2>3. PICK batch \in SelectBatch(u, Units, lanes) :
          chosen' = [batch |-> batch, missed |-> Pool \ batch, anchor |-> u.members]
    BY <2>2
  <2>4. batch \subseteq Pool
    BY <2>3, BatchIsQueued
  <2>5. desk' = desk /\ chosen'.batch = batch
    BY <1>2, <2>3 DEF Select
  <2> QED
    BY <2>4, <2>5 DEF CoBase, Pool
<1>3. CASE SelectStarved
  <2>1. PICK s \in Pool : \E others \in kSubset(Min({BatchSize, Cardinality(Pool)}) - 1, Pool \ {s}) :
          chosen' = [batch |-> {s} \cup others, missed |-> Pool \ ({s} \cup others), anchor |-> {}]
    BY <1>3 DEF SelectStarved
  <2>2. PICK others \in kSubset(Min({BatchSize, Cardinality(Pool)}) - 1, Pool \ {s}) :
          chosen' = [batch |-> {s} \cup others, missed |-> Pool \ ({s} \cup others), anchor |-> {}]
    BY <2>1
  <2>3. chosen'.batch \subseteq Pool
    BY <2>2 DEF kSubset
  <2>4. desk' = desk
    BY <1>3 DEF SelectStarved
  <2> QED
    BY <2>3, <2>4 DEF CoBase, Pool
<1>4. CASE Commit
  BY <1>4, CoBaseCommit
<1>5. CASE Abort
  BY <1>5 DEF Abort, CoBase
<1>6. CASE UNCHANGED coVars
  BY <1>6 DEF coVars, CoBase
<1> QED
  BY <1>1, <1>2, <1>3, <1>4, <1>5, <1>6 DEF CoNext

\* The reserved batch can be committed.
Reserved ==
  chosen # <<>> /\ chosen.anchor # {} =>
    /\ Dispatched(chosen.batch, chosen.anchor)
    /\ Args.fixed = 0 /\ Args.mix = 0 => \A s, t \in chosen.batch : s.tmpl = t.tmpl

CoInv == CoBase /\ Reserved

LEMMA CoInvIsSound ==
  ASSUME PackAssumption, CoInv PROVE PackingSound
<1>1. CoBase /\ Reserved /\ CoTypeOK
  BY CoBaseTyped DEF CoInv
<1>2. MemoryFaithful
  <2>1. desk.log \subseteq EntryType /\ MemoryHolds(Memory, desk.log)
    BY <1>1 DEF CoBase, DeskType, Memory
  <2> QED
    BY <1>1, <2>1, MemoryHoldsIsFaithful
<1>3. UnitsPacked
  BY <1>1, UnitsArePacked
<1>4. ASSUME Pool # {}, NEW lanes \in LaneCounts
      PROVE  \E u \in Anchors(Units) : SelectBatch(u, Units, lanes) # {}
  <2>1. lanes \in Nat /\ PoolTyped(Pool)
    BY <1>1 DEF PackAssumption, CoTypeOK
  <2>2. PICK u \in Anchors(Units) : u \in Units
    BY <1>4, <2>1, AnchorsExist
  <2>3. SelectBatch(u, Units, lanes) # {}
    BY <1>1, <2>1, <2>2, BatchesAreDispatched
  <2> QED
    BY <2>3
<1>5. DispatchSound
  BY <1>1, <1>4 DEF DispatchSound, Reserved, Dispatched
<1>6. PureWhenFree
  BY <1>1 DEF PureWhenFree, Reserved
<1> QED
  BY <1>2, <1>3, <1>5, <1>6 DEF PackingSound

\* Only a selection reserves a batch, and the queue is untouched while one is reserved.
LEMMA ReservedStep ==
  ASSUME PackAssumption, CoInv, [CoNext]_coVars PROVE Reserved'
<1>1. CoTypeOK /\ Reserved
  BY CoBaseTyped DEF CoInv
<1>2. CASE Arrive \/ Commit \/ Abort
  <2>1. chosen' = <<>>
    BY <1>2 DEF Arrive, Commit, Abort
  <2> QED
    BY <2>1 DEF Reserved
<1>3. CASE SelectStarved
  <2>1. PICK s \in Pool : \E others \in kSubset(Min({BatchSize, Cardinality(Pool)}) - 1, Pool \ {s}) :
          chosen' = [batch |-> {s} \cup others, missed |-> Pool \ ({s} \cup others), anchor |-> {}]
    BY <1>3 DEF SelectStarved
  <2>2. chosen'.anchor = {}
    BY <2>1
  <2> QED
    BY <2>2 DEF Reserved
<1>4. CASE UNCHANGED coVars
  BY <1>1, <1>4 DEF coVars, Reserved, Dispatched, Args, Pool, SlicesOf, Keys, Key, Group
<1>5. CASE Select
  <2>1. PICK lanes \in LaneCounts, units \in {Units} : \E u \in Anchors(units) : \E batch \in SelectBatch(u, units, lanes) :
          chosen' = [batch |-> batch, missed |-> Pool \ batch, anchor |-> u.members]
    BY <1>5 DEF Select
  <2>2. PICK u \in Anchors(Units) : \E batch \in SelectBatch(u, Units, lanes) :
          chosen' = [batch |-> batch, missed |-> Pool \ batch, anchor |-> u.members]
    BY <2>1
  <2>3. PICK batch \in SelectBatch(u, Units, lanes) :
          chosen' = [batch |-> batch, missed |-> Pool \ batch, anchor |-> u.members]
    BY <2>2
  <2>4. lanes \in Nat /\ u \in Units /\ PoolTyped(Pool)
    BY <1>1, AnchorsExist DEF PackAssumption, CoTypeOK
  <2>5. Dispatched(batch, u.members) /\ (Args.fixed = 0 /\ Args.mix = 0 => batch \subseteq SlicesOf(u.members))
    BY <1>1, <2>3, <2>4, BatchesAreDispatched
  <2>6. \A s, t \in SlicesOf(u.members) : s.tmpl = t.tmpl
    <3> SUFFICES ASSUME NEW s \in SlicesOf(u.members), NEW t \in SlicesOf(u.members) PROVE s.tmpl = t.tmpl
      OBVIOUS
    <3>1. Key(s) \in u.members /\ Key(t) \in u.members
      BY DEF SlicesOf
    <3>2. Key(s)[3] = Key(t)[3]
      BY <2>4, <3>1, UnitsAre
    <3> QED
      BY <3>2 DEF Key
  <2>7. desk' = desk /\ chosen'.batch = batch /\ chosen'.anchor = u.members
    BY <1>5, <2>3 DEF Select
  <2>8. Args.fixed = 0 /\ Args.mix = 0 => \A s, t \in batch : s.tmpl = t.tmpl
    BY <2>5, <2>6
  <2>9. Dispatched(chosen.batch, chosen.anchor)'
    BY <2>5, <2>7 DEF Dispatched, Pool, SlicesOf, Keys, Key, Group
  <2>10. (Args.fixed = 0 /\ Args.mix = 0 => \A s, t \in chosen.batch : s.tmpl = t.tmpl)'
    BY <2>7, <2>8 DEF Args
  <2> QED
    BY <2>9, <2>10 DEF Reserved
<1> QED
  BY <1>2, <1>3, <1>4, <1>5 DEF CoNext

\* The policy packs cohorts soundly: PackingSound for any number of chains, rounds and slices,
\* any batch size, costs and lanes.
THEOREM CohortsPackSoundly == CoSpec => []PackingSound
<1>0. PackAssumption
  BY PackAssumption
<1>1. CoInit => CoInv
  BY <1>0, CoBaseInit DEF CoInv, CoInit, Reserved
<1>2. CoInv /\ [CoNext]_coVars => CoInv'
  BY <1>0, CoBaseStep, ReservedStep DEF CoInv
<1>3. CoInv => PackingSound
  BY <1>0, CoInvIsSound
<1> QED
  BY <1>1, <1>2, <1>3, PTL DEF CoSpec

=============================================================================
