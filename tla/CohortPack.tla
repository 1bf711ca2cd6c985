----------------------------- MODULE CohortPack -----------------------------
(***************************************************************************)
(* The cohort_pack scheduling policy: slices are grouped by chain, round   *)
(* and template; the chains on one template and round with one history,    *)
(* and the mates that are still expected there, are cut into units, and a  *)
(* unit is dispatched.  Costs are in slice units: the area of a slice is   *)
(* part of fixed and mix.  beta is 1 or 2, so the costs are rational.      *)
(***************************************************************************)
EXTENDS Integers, Sequences, FiniteSets, FiniteSetsExt, SequencesExt

CONSTANTS
  MaxChains,    \* bound: chain ids are 1 .. MaxChains, in lexical order
  ChainRounds,  \* bound: rounds of a chain
  MaxSlices,    \* bound: slices ever queued
  BatchSize,
  PackArgs,     \* custom arguments; ref is the batch size of the cost model
  JobShapes,    \* a job, as the templates of its slices
  LaneCounts    \* free lanes; 0 when their number is not known

ASSUME PackAssumption ==
  /\ MaxChains \in Nat /\ ChainRounds \in Nat /\ BatchSize \in Nat \ {0}
  /\ PackArgs \subseteq [fixed : Nat, mix : Nat, beta : {1, 2}, gamma : Nat, patience : Nat, ref : Nat \ {0}]
  /\ JobShapes \subseteq Seq(Nat) /\ LaneCounts \subseteq Nat

VARIABLES
  desk,     \* [args, pool, made, sent, memory (the policy's records), log of the batches (history variable)]
  chosen    \* the reserved batch: [batch, missed, anchor (the keys of its unit; {} for none)]; <<>> for none

coVars == <<desk, chosen>>

Chains == 1 .. MaxChains
Rounds == 0 .. ChainRounds - 1
Args == desk.args
Pool == desk.pool
Memory == desk.memory

\* A slice's chain, round and template, and the slices of one key or of several.
Key(s) == <<s.chain, s.round, s.tmpl>>
Keys == {Key(s) : s \in Pool}
Group(k) == {s \in Pool : Key(s) = k}
SlicesOf(K) == {s \in Pool : Key(s) \in K}
Size(K) == Cardinality(SlicesOf(K))

CeilDiv(a, b) == (a + b - 1) \div b
LexBefore(a, b) == \E i \in DOMAIN a : a[i] < b[i] /\ \A j \in 1 .. i - 1 : a[j] = b[j]

-----------------------------------------------------------------------------
(* What the policy remembers of committed batches.                          *)

\* One chain and round of a batch: n slices with the templates ts.
Remember(m, e) ==
  LET previous == m.lastRound[e.chain] latest == Max({previous, e.round})
  IN  [m EXCEPT !.history[e.chain][e.round] = @ \cup e.ts,
                !.width[e.chain] = CASE e.round = previous -> Max({@, e.n})
                                     [] e.round # previous /\ e.round = latest -> e.n
                                     [] OTHER -> @,
                !.chainsAt = [r \in Rounds |->
                                CASE latest = previous -> m.chainsAt[r]
                                  [] latest # previous /\ r = latest -> m.chainsAt[r] \cup {e.chain}
                                  [] latest # previous /\ r = previous -> m.chainsAt[r] \ {e.chain}
                                  [] OTHER -> m.chainsAt[r]],
                !.lastRound[e.chain] = latest]

\* The chains and rounds of a batch, which are remembered one after the other.
Entries(batch) ==
  LET of(s) == {t \in batch : t.chain = s.chain /\ t.round = s.round}
  IN  {[chain |-> s.chain, round |-> s.round, n |-> Cardinality(of(s)), ts |-> {t.tmpl : t \in of(s)}] : s \in batch}

OnCommit(m, entries) ==
  LET after[i \in 0 .. Len(entries)] == IF i = 0 THEN m ELSE Remember(after[i - 1], entries[i])
  IN  after[Len(entries)]

-----------------------------------------------------------------------------
(* Units.                                                                   *)

\* What a chain ran in the rounds before r.
Past(c, r) == [i \in 0 .. r - 1 |-> Memory.history[c][i]]

ReadyAt(c) == {<<k[3], k[2]>> : k \in {k \in Keys : k[1] = c}}

\* The chains that are ready with k, and the chains expected to join them.
ReadyWith(k) == {c \in Chains : <<c, k[2], k[3]>> \in Keys /\ Past(c, k[2]) = Past(k[1], k[2])}
Mates(k) ==
  {c \in (IF k[2] > 0 THEN Memory.chainsAt[k[2] - 1] ELSE {}) \ ReadyWith(k) :
     /\ Past(c, k[2]) = Past(k[1], k[2])
     /\ ReadyAt(c) = {} \/ <<k[3], k[2]>> \in ReadyAt(c)}

\* The slices of each chain of the cohort of k, 0 for the others.
Widths(k) ==
  LET ready == ReadyWith(k) mates == Mates(k)
  IN  [c \in Chains |-> CASE c \in ready -> Cardinality(Group(<<c, k[2], k[3]>>))
                          [] c \in mates -> IF Memory.width[c] = 0 THEN 1 ELSE Memory.width[c]
                          [] OTHER -> 0]

SumOf(w) ==
  LET sum[c \in 0 .. MaxChains] == IF c = 0 THEN 0 ELSE sum[c - 1] + w[c] IN sum[MaxChains]

\* The cohort is cut in chain order, into parts of about equal size: for each chain, the part
\* it is in and the size of that part up to it.
PartCount(total) == Max({1, CeilDiv(total, BatchSize)})

PartFull(last, width, total) ==
  \/ last.size + width > BatchSize
  \/ last.part < PartCount(total) /\ last.size * PartCount(total) >= total

Cut(w) ==
  LET total == SumOf(w)
      cut[c \in 0 .. MaxChains] ==
        IF c = 0 THEN [part |-> 1, size |-> 0]
        ELSE LET last == cut[c - 1]
             IN  CASE w[c] = 0 -> last
                   [] w[c] # 0 /\ last.size # 0 /\ PartFull(last, w[c], total) -> [part |-> last.part + 1, size |-> w[c]]
                   [] OTHER -> [part |-> last.part, size |-> last.size + w[c]]
  IN  cut

\* The unit of a round: the ready chains of its part of the cohort, all of the part or not.
UnitOf(k) ==
  LET cut == Cut(Widths(k))
      part == {c \in ReadyWith(k) \cup Mates(k) : cut[c].part = cut[k[1]].part}
  IN  [members |-> {<<c, k[2], k[3]>> : c \in part \cap ReadyWith(k)}, complete |-> part \subseteq ReadyWith(k)]

Units == {UnitOf(k) : k \in Keys}

-----------------------------------------------------------------------------
(* Selection.                                                               *)

First(u) == CHOOSE k \in u.members : \A j \in u.members : k[1] <= j[1]
Since(K) == Min({s.at : s \in SlicesOf(K)})
Waited(u) == Max({s.miss : s \in SlicesOf(u.members)})
PassedOver(u) == <<-Waited(u), First(u)[1], Since(u.members), First(u)[2], First(u)[3]>>
ByWait(u) == <<-Waited(u), Since(u.members), First(u)[1], First(u)[2], First(u)[3]>>

Leading(S, key(_)) == {x \in S : \A y \in S : ~LexBefore(key(y), key(x))}

Anchors(units) ==
  LET overdue == {u \in units : ~u.complete /\ Waited(u) > Args.patience}
      complete == {u \in units : u.complete}
  IN  CASE overdue # {} -> Leading(overdue, PassedOver)
        [] overdue = {} /\ complete # {} -> Leading(complete, ByWait)
        [] OTHER -> Leading(units, ByWait)

\* One more lane saves at least gamma times the lane time it costs.
Gains(ready, n) ==
  CASE Args.beta = 1 -> ready >= Args.gamma * Args.fixed * n * (n + 1)
    [] OTHER -> ready * ready * (2 * n + 1) >=
                  Args.gamma * (Args.fixed * Args.ref * n * n * (n + 1) * (n + 1) - ready * ready * n * (n + 1))

SpreadN(ready, lanes) ==
  LET n == Max({1, CeilDiv(ready, Args.ref)}) top == Max({n, Min({lanes, ready})})
  IN  Min({m \in n .. top : m = top \/ ~Gains(ready, m)})

\* The time per slice of k slices of n templates, as a fraction.
PerWork(k, n) ==
  LET f == Args.fixed + Args.mix * (n - 1)
  IN  IF Args.beta = 1 THEN <<f + k, k>> ELSE <<f * Args.ref + k * k, k * Args.ref>>
Lower(a, b) == a[1] * b[2] < b[1] * a[2]

\* Up to three whole rounds that fit the room a unit leaves, by the time per slice, the units
\* broken up and the places in the queue; of equal ones the code takes the first it comes to.
\* No rounds, when none lower the time per slice of the batch.
ValueWith(u, K) == PerWork(Size(u.members \cup K), 1 + Cardinality({k[3] : k \in K} \ {First(u)[3]}))
Queued(k) == <<Since({k}), k[1], k[2], k[3]>>
FillCost(units, K) ==
  <<Cardinality({u \in units : u.members \cap K \notin {{}, u.members}}),
    Cardinality({p \in Keys \X K : LexBefore(Queued(p[1]), Queued(p[2]))})>>
Fitting(u) ==
  {K \in SUBSET (Keys \ u.members) : Cardinality(K) \in 1 .. 3 /\ Size(K) <= BatchSize - Size(u.members)}
FillPays_Any(u, K) == TRUE
FillPays(u, K) == Lower(ValueWith(u, K), ValueWith(u, {}))
Fills(u, units) ==
  LET cost(K) == FillCost(units, K)
      lowest == {K \in Fitting(u) : \A L \in Fitting(u) : ~Lower(ValueWith(u, L), ValueWith(u, K))}
  IN  IF \E K \in Fitting(u) : FillPays(u, K) THEN Leading(lowest, cost) ELSE {{}}

\* The first n slices of a batch: those of the unit by chain, then the others as they are queued.
Place(s, u) ==
  <<IF Key(s) \in u.members THEN 0 ELSE 1, IF Key(s) \in u.members THEN 0 ELSE Since({Key(s)}),
    s.chain, s.round, s.tmpl, s.id>>
FirstSlices(n, S, u) == {s \in S : Cardinality({t \in S : LexBefore(Place(t, u), Place(s, u))}) < n}

\* The number of lanes a unit is spread over.
LanesFor(u, units, lanes) ==
  LET ready == Size(u.members) avail == lanes - (Cardinality(units) - 1)
  IN  IF lanes > 1 /\ avail > 1 THEN SpreadN(ready, Min({avail, ready})) ELSE 1

SelectBatch(u, units, lanes) ==
  LET own == SlicesOf(u.members)
      n == LanesFor(u, units, lanes)
      share == Max({1, CeilDiv(Size(u.members), n)})
  IN  CASE n > 1 -> {FirstSlices(BatchSize, FirstSlices(share, own, u), u)}
        [] n = 1 /\ Size(u.members) < BatchSize ->
             {FirstSlices(BatchSize, own \cup SlicesOf(K), u) : K \in Fills(u, units)}
        [] OTHER -> {FirstSlices(BatchSize, own, u)}

-----------------------------------------------------------------------------
(* Steps.                                                                   *)

CoInit ==
  /\ chosen = <<>>
  /\ \E a \in PackArgs :
       desk = [args |-> a, pool |-> {}, made |-> 0, sent |-> [c \in Chains |-> -1], log |-> {},
               memory |-> [history |-> [c \in Chains |-> [r \in Rounds |-> {}]], width |-> [c \in Chains |-> 0],
                           lastRound |-> [c \in Chains |-> -1], chainsAt |-> [r \in Rounds |-> {}]]]

\* A job of the next round of a chain; the round before may still be queued.  A job that
\* arrives while a batch is reserved has no part in it, so it may as well arrive after it.
Arrive ==
  \E c \in Chains, ts \in JobShapes :
    /\ chosen = <<>>
    /\ desk.made + Len(ts) <= MaxSlices /\ desk.sent[c] + 1 \in Rounds
    /\ desk' = [desk EXCEPT
         !.pool = @ \cup {[id |-> desk.made + i, at |-> desk.made, chain |-> c, round |-> desk.sent[c] + 1,
                           tmpl |-> ts[i], miss |-> 0] : i \in DOMAIN ts},
         !.made = @ + Len(ts), !.sent[c] = @ + 1]
    /\ UNCHANGED chosen

Select ==
  /\ chosen = <<>> /\ Pool # {}
  /\ \E lanes \in LaneCounts, units \in {Units} : \E u \in Anchors(units) : \E batch \in SelectBatch(u, units, lanes) :
       chosen' = [batch |-> batch, missed |-> Pool \ batch, anchor |-> u.members]
  /\ UNCHANGED desk

\* The job manager's own batch, without the policy: a starved slice first, then any others.
SelectStarved ==
  /\ chosen = <<>>
  /\ \E s \in Pool :
       /\ s.miss > Args.patience
       /\ \E others \in kSubset(Min({BatchSize, Cardinality(Pool)}) - 1, Pool \ {s}) :
            chosen' = [batch |-> {s} \cup others, missed |-> Pool \ ({s} \cup others), anchor |-> {}]
  /\ UNCHANGED desk

Commit ==
  /\ chosen # <<>>
  /\ \E entries \in SetToSeqs(Entries(chosen.batch)) :
       desk' = [desk EXCEPT
         !.pool = {IF s \in chosen.missed THEN [s EXCEPT !.miss = @ + 1] ELSE s : s \in @ \ chosen.batch},
         !.memory = OnCommit(@, entries),
         !.log = @ \cup Entries(chosen.batch)]
  /\ chosen' = <<>>

Abort == chosen # <<>> /\ chosen' = <<>> /\ UNCHANGED desk

CoNext == Arrive \/ Select \/ SelectStarved \/ Commit \/ Abort

CoSpec == CoInit /\ [][CoNext]_coVars

-----------------------------------------------------------------------------
(* Correctness.                                                             *)

\* The records kept from batch to batch are those of the whole past: the latest round of a
\* chain, the chains at a round, what a chain ran in each round, and the widest batch of its
\* latest round, also when an older round is committed late.
MemoryFaithful ==
  \A c \in Chains :
    LET mine == {e \in desk.log : e.chain = c}
        latest == Max({-1} \cup {e.round : e \in mine})
    IN  /\ Memory.lastRound[c] = latest
        /\ \A r \in Rounds : /\ c \in Memory.chainsAt[r] <=> r = latest
                             /\ Memory.history[c][r] = UNION {e.ts : e \in {e \in mine : e.round = r}}
        /\ Memory.width[c] = Max({0} \cup {e.n : e \in {e \in mine : e.round = latest}})

\* Units share the queued rounds out: each round is in one unit.  A part of several chains fits
\* a batch, and cohorts are not cut more than they must: of three neighbouring parts that are no
\* wider than a batch two would not fit one batch together, nor would the last two of all.
UnitsPacked ==
  chosen = <<>> =>
    /\ \A units \in {Units} : /\ UNION {u.members : u \in units} = Keys
                              /\ \A u, v \in units : u = v \/ u.members \cap v.members = {}
    /\ \A w \in {Widths(k) : k \in Keys} :
         LET cut == Cut(w)
             parts == 1 .. cut[MaxChains].part
             size(i) == SumOf([c \in Chains |-> IF cut[c].part = i THEN w[c] ELSE 0])
         IN  /\ \A i \in parts : \/ size(i) <= BatchSize
                                 \/ \E c \in Chains : \A d \in Chains : w[d] # 0 /\ cut[d].part = i => d = c
             /\ (\A i \in parts : size(i) <= BatchSize) =>
                  \A i \in parts : i + 1 \in parts =>
                    \/ size(i) + size(i + 1) > BatchSize
                    \/ i + 2 \in parts /\ size(i + 1) + size(i + 2) > BatchSize

\* The policy always comes up with a batch, so the queue cannot stall on mates that do not
\* come, and the job manager can commit it: it is not empty and within the batch size; it takes
\* slices of the anchor unit in order, and of the rounds outside all slices or none.
DispatchSound ==
  /\ chosen = <<>> /\ Pool # {} =>
       \A lanes \in LaneCounts, units \in {Units} : \E u \in Anchors(units) : SelectBatch(u, units, lanes) # {}
  /\ chosen # <<>> /\ chosen.anchor # {} =>
       /\ chosen.batch \subseteq Pool /\ Cardinality(chosen.batch) \in 1 .. BatchSize
       /\ chosen.batch \cap SlicesOf(chosen.anchor) # {}
       /\ \A s \in SlicesOf(chosen.anchor), t \in chosen.batch :
            Key(t) \in chosen.anchor /\ (s.chain < t.chain \/ (s.chain = t.chain /\ s.id < t.id)) => s \in chosen.batch
       /\ \A k \in Keys \ chosen.anchor : Group(k) \cap chosen.batch \in {{}, Group(k)}

\* With no fixed or mixing cost and beta >= 1 a batch keeps to one template, whatever waits.
PureWhenFree ==
  chosen # <<>> /\ chosen.anchor # {} /\ Args.fixed = 0 /\ Args.mix = 0 =>
    \A s, t \in chosen.batch : s.tmpl = t.tmpl

\* The policy remembers what was committed and always comes up with a batch that the job
\* manager can commit, as full and as pure as its costs say.
PackingSound == MemoryFaithful /\ UnitsPacked /\ DispatchSound /\ PureWhenFree

=============================================================================
