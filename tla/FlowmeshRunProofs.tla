------------------------- MODULE FlowmeshRunProofs --------------------------
(***************************************************************************)
(* The safety of FlowmeshRun for every graph, every attribution of its     *)
(* tasks to members, every number of retries and of gateway errors.        *)
(***************************************************************************)
EXTENDS FlowmeshRun, FiniteSetTheorems, TLAPS

\* A submit is made only while a retry is left, and nothing but the exits of
\* process_request sets the outcome.
ControlSound ==
  /\ pc \in {"start", "built", "submit", "lookup"} => attempt <= Retries
  /\ pc \notin {"abort", "ended"} => outcome = "none"
  /\ outcome = "ok" => pc = "ended"

\* The workflow id that process_request holds, and what cancel_request can see of
\* it: the record lags behind only between the submit and Record.
IdentitySound ==
  /\ pc \in {"start", "built", "submit", "lookup"} => mine = {}
  /\ \A v, w \in mine : v = w
  /\ pc # "accepted" => recorded = mine
  /\ pc = "accepted" => recorded = {}

\* As long as no look-up was misled, the client knows every workflow it created.
\* While it looks one up there is at most one.
ClientSeesAll ==
  ~blind => /\ pc # "lookup" => created = mine
            /\ \A v, w \in created : v = w

\* What the client took for an end is an end at FlowMesh.
LocalIsRemote == \A t \in Tasks : local[t] \in Terminal => remote[t] = local[t]

\* The poll loop has read nothing before it starts, has seen every task end when it
\* goes on to the outputs, and archives what it sees complete.
PollSound ==
  /\ pc \in {"start", "built", "submit", "lookup", "accepted", "recorded"} =>
       \A t \in Tasks : local[t] = "PENDING"
  /\ pc = "collect" => \A t \in Tasks : local[t] \in Terminal
  /\ outcome = "ok" => \A t \in Tasks : local[t] = "DONE"
  /\ \A t \in watched : local[t] = "DONE" => t \in archived

\* A cancellation that Resolve did not see found the record.
CancelSeen ==
  pc \in {"poll", "round", "collect", "ended"} /\ flag => mine \subseteq asked \cup toCancel

\* The inductive invariant.
IInv ==
  /\ TypeOK
  /\ ControlSound
  /\ IdentitySound
  /\ ClientSeesAll
  /\ NoOrphan
  /\ CancelSeen
  /\ LocalIsRemote
  /\ PollSound

-----------------------------------------------------------------------------
\* The initial state.
LEMMA InitInvariant == Init => IInv
  <1> SUFFICES ASSUME Init PROVE IInv
    OBVIOUS
  <1>1. TypeOK
    <2>1. 0 \in 0 .. Retries + 1 /\ 0 \in 0 .. MaxTransient
      BY FlowmeshAssumption
    <2>2. [t \in Tasks |-> "PENDING"] \in [Tasks -> Statuses]
      BY DEF Statuses
    <2> QED
      BY <2>1, <2>2 DEF Init, TypeOK
  <1> QED
    BY <1>1, FlowmeshAssumption
       DEF Init, IInv, ControlSound, IdentitySound, ClientSeesAll, NoOrphan, CancelSeen,
           LocalIsRemote, PollSound

\* The checks before the submit.
LEMMA PrepareStep ==
  ASSUME IInv, Prepare
  PROVE  IInv'
  <1> USE FlowmeshAssumption DEF Prepare, IInv, client, service, Raise
  <1>1. TypeOK'
    BY DEF TypeOK
  <1>2. ControlSound'
    BY DEF ControlSound
  <1>3. IdentitySound'
    BY DEF IdentitySound
  <1>4. ClientSeesAll'
    BY DEF ClientSeesAll
  <1>5. NoOrphan'
    BY DEF NoOrphan
  <1>6. CancelSeen'
    BY DEF CancelSeen
  <1>7. LocalIsRemote'
    BY DEF LocalIsRemote
  <1>8. PollSound'
    BY DEF PollSound
  <1> QED
    BY <1>1, <1>2, <1>3, <1>4, <1>5, <1>6, <1>7, <1>8 DEF IInv

\* A submit that is answered: the client sees the workflow it created.
LEMMA SubmitAnsweredStep ==
  ASSUME IInv, SubmitAnswered
  PROVE  IInv'
  <1> USE FlowmeshAssumption DEF SubmitAnswered, IInv, client, service
  <1>1. TypeOK'
    BY DEF TypeOK, ControlSound, IdentitySound
  <1>2. ControlSound'
    BY DEF ControlSound
  <1>3. IdentitySound'
    BY DEF IdentitySound
  <1>4. ClientSeesAll'
    BY DEF ClientSeesAll, IdentitySound
  <1>5. NoOrphan'
    BY DEF NoOrphan
  <1>6. CancelSeen'
    BY DEF CancelSeen
  <1>7. LocalIsRemote'
    BY DEF LocalIsRemote
  <1>8. PollSound'
    BY DEF PollSound
  <1> QED
    BY <1>1, <1>2, <1>3, <1>4, <1>5, <1>6, <1>7, <1>8 DEF IInv

\* A submit whose reply is lost: the look-up that follows, or the flag blind, accounts
\* for the workflow it may have created.
LEMMA SubmitLostStep ==
  ASSUME IInv, NEW creates \in BOOLEAN, SubmitLost(creates)
  PROVE  IInv'
  <1> USE FlowmeshAssumption DEF SubmitLost, IInv, client, service, Raise
  <1>1. TypeOK'
    BY DEF TypeOK, ControlSound, IdentitySound, ClientSeesAll
  <1>2. ControlSound'
    BY DEF ControlSound
  <1>3. IdentitySound'
    BY DEF IdentitySound
  <1>4. ClientSeesAll'
    BY DEF ClientSeesAll, TypeOK, IdentitySound
  <1>5. NoOrphan'
    BY DEF NoOrphan
  <1>6. CancelSeen'
    BY DEF CancelSeen
  <1>7. LocalIsRemote'
    BY DEF LocalIsRemote
  <1>8. PollSound'
    BY DEF PollSound
  <1> QED
    BY <1>1, <1>2, <1>3, <1>4, <1>5, <1>6, <1>7, <1>8 DEF IInv

\* A submit that fails otherwise: a workflow it may have created is accounted for by
\* the flag blind.
LEMMA SubmitRefusedStep ==
  ASSUME IInv, NEW creates \in BOOLEAN, SubmitRefused(creates)
  PROVE  IInv'
  <1> USE FlowmeshAssumption DEF SubmitRefused, IInv, client, service, Raise
  <1>1. TypeOK'
    BY DEF TypeOK, ControlSound, IdentitySound, ClientSeesAll
  <1>2. ControlSound'
    BY DEF ControlSound
  <1>3. IdentitySound'
    BY DEF IdentitySound
  <1>4. ClientSeesAll'
    BY DEF ClientSeesAll, TypeOK, IdentitySound
  <1>5. NoOrphan'
    BY DEF NoOrphan
  <1>6. CancelSeen'
    BY DEF CancelSeen
  <1>7. LocalIsRemote'
    BY DEF LocalIsRemote
  <1>8. PollSound'
    BY DEF PollSound
  <1> QED
    BY <1>1, <1>2, <1>3, <1>4, <1>5, <1>6, <1>7, <1>8 DEF IInv

\* The look-up before a resubmit: it adopts the one workflow there is, or was misled.
LEMMA LookupStep ==
  ASSUME IInv, Lookup
  PROVE  IInv'
  <1> USE FlowmeshAssumption DEF Lookup, IInv, client, service
  <1>1. TypeOK'
    BY DEF TypeOK, IdentitySound
  <1>2. ControlSound'
    BY DEF ControlSound
  <1>3. IdentitySound'
    BY DEF IdentitySound
  <1>4. ClientSeesAll'
    BY DEF ClientSeesAll, TypeOK, ControlSound, IdentitySound, Terminal, Statuses
  <1>5. NoOrphan'
    BY DEF NoOrphan
  <1>6. CancelSeen'
    BY DEF CancelSeen
  <1>7. LocalIsRemote'
    BY DEF LocalIsRemote
  <1>8. PollSound'
    BY DEF PollSound
  <1> QED
    BY <1>1, <1>2, <1>3, <1>4, <1>5, <1>6, <1>7, <1>8 DEF IInv

\* The look-up fails.
LEMMA LookupFailedStep ==
  ASSUME IInv, LookupFailed
  PROVE  IInv'
  <1> USE FlowmeshAssumption DEF LookupFailed, IInv, client, service, Raise
  <1>1. TypeOK'
    BY DEF TypeOK
  <1>2. ControlSound'
    BY DEF ControlSound
  <1>3. IdentitySound'
    BY DEF IdentitySound
  <1>4. ClientSeesAll'
    BY DEF ClientSeesAll, TypeOK, ControlSound, IdentitySound, Terminal, Statuses
  <1>5. NoOrphan'
    BY DEF NoOrphan
  <1>6. CancelSeen'
    BY DEF CancelSeen
  <1>7. LocalIsRemote'
    BY DEF LocalIsRemote
  <1>8. PollSound'
    BY DEF PollSound
  <1> QED
    BY <1>1, <1>2, <1>3, <1>4, <1>5, <1>6, <1>7, <1>8 DEF IInv

\* The workflow id is recorded.
LEMMA RecordStep ==
  ASSUME IInv, Record
  PROVE  IInv'
  <1> USE FlowmeshAssumption DEF Record, IInv, client, service
  <1>1. TypeOK'
    BY DEF TypeOK
  <1>2. ControlSound'
    BY DEF ControlSound
  <1>3. IdentitySound'
    BY DEF IdentitySound
  <1>4. ClientSeesAll'
    BY DEF ClientSeesAll
  <1>5. NoOrphan'
    BY DEF NoOrphan
  <1>6. CancelSeen'
    BY DEF CancelSeen
  <1>7. LocalIsRemote'
    BY DEF LocalIsRemote
  <1>8. PollSound'
    BY DEF PollSound
  <1> QED
    BY <1>1, <1>2, <1>3, <1>4, <1>5, <1>6, <1>7, <1>8 DEF IInv

\* The check after the record: from here on a cancellation finds the workflow.
LEMMA ResolveStep ==
  ASSUME IInv, Resolve
  PROVE  IInv'
  <1> USE FlowmeshAssumption DEF Resolve, IInv, client, service, Raise, Watchable
  <1>1. TypeOK'
    BY DEF TypeOK
  <1>2. ControlSound'
    BY DEF ControlSound
  <1>3. IdentitySound'
    BY DEF IdentitySound
  <1>4. ClientSeesAll'
    BY DEF ClientSeesAll
  <1>5. NoOrphan'
    BY DEF NoOrphan
  <1>6. CancelSeen'
    BY DEF CancelSeen
  <1>7. LocalIsRemote'
    BY DEF LocalIsRemote
  <1>8. PollSound'
    BY DEF PollSound
  <1> QED
    BY <1>1, <1>2, <1>3, <1>4, <1>5, <1>6, <1>7, <1>8 DEF IInv

\* The head of the poll loop.
LEMMA StartRoundStep ==
  ASSUME IInv, StartRound
  PROVE  IInv'
  <1> USE FlowmeshAssumption DEF StartRound, IInv, client, service, Raise
  <1>1. TypeOK'
    BY DEF TypeOK
  <1>2. ControlSound'
    BY DEF ControlSound
  <1>3. IdentitySound'
    BY DEF IdentitySound
  <1>4. ClientSeesAll'
    BY DEF ClientSeesAll
  <1>5. NoOrphan'
    BY DEF NoOrphan
  <1>6. CancelSeen'
    BY DEF CancelSeen
  <1>7. LocalIsRemote'
    BY DEF LocalIsRemote
  <1>8. PollSound'
    BY DEF PollSound
  <1> QED
    BY <1>1, <1>2, <1>3, <1>4, <1>5, <1>6, <1>7, <1>8 DEF IInv

\* One round of the poll loop.
LEMMA PollStep ==
  ASSUME IInv, Poll
  PROVE  IInv'
  <1> USE FlowmeshAssumption DEF Poll, IInv, client, service, AfterPoll, Readings, Raise
  <1>1. TypeOK'
    BY DEF TypeOK
  <1>2. ControlSound'
    BY DEF ControlSound
  <1>3. IdentitySound'
    BY DEF IdentitySound
  <1>4. ClientSeesAll'
    BY DEF ClientSeesAll
  <1>5. NoOrphan'
    BY DEF NoOrphan
  <1>6. CancelSeen'
    BY DEF CancelSeen
  <1>7. LocalIsRemote'
    BY DEF LocalIsRemote
  <1>8. PollSound'
    BY DEF PollSound, Terminal
  <1> QED
    BY <1>1, <1>2, <1>3, <1>4, <1>5, <1>6, <1>7, <1>8 DEF IInv

\* The loop is left with an error.
LEMMA StopPollingStep ==
  ASSUME IInv, StopPolling
  PROVE  IInv'
  <1> USE FlowmeshAssumption DEF StopPolling, IInv, client, service, Raise
  <1>1. TypeOK'
    BY DEF TypeOK
  <1>2. ControlSound'
    BY DEF ControlSound
  <1>3. IdentitySound'
    BY DEF IdentitySound
  <1>4. ClientSeesAll'
    BY DEF ClientSeesAll
  <1>5. NoOrphan'
    BY DEF NoOrphan
  <1>6. CancelSeen'
    BY DEF CancelSeen
  <1>7. LocalIsRemote'
    BY DEF LocalIsRemote
  <1>8. PollSound'
    BY DEF PollSound
  <1> QED
    BY <1>1, <1>2, <1>3, <1>4, <1>5, <1>6, <1>7, <1>8 DEF IInv

\* The outputs are collected.
LEMMA CollectStep ==
  ASSUME IInv, Collect
  PROVE  IInv'
  <1> USE FlowmeshAssumption DEF Collect, IInv, client, service, Raise
  <1>1. TypeOK'
    BY DEF TypeOK
  <1>2. ControlSound'
    BY DEF ControlSound
  <1>3. IdentitySound'
    BY DEF IdentitySound
  <1>4. ClientSeesAll'
    BY DEF ClientSeesAll
  <1>5. NoOrphan'
    BY DEF NoOrphan
  <1>6. CancelSeen'
    BY DEF CancelSeen
  <1>7. LocalIsRemote'
    BY DEF LocalIsRemote
  <1>8. PollSound'
    BY DEF PollSound, Terminal
  <1> QED
    BY <1>1, <1>2, <1>3, <1>4, <1>5, <1>6, <1>7, <1>8 DEF IInv

\* The workflow is aborted.
LEMMA AbortStep ==
  ASSUME IInv, Abort
  PROVE  IInv'
  <1> USE FlowmeshAssumption DEF Abort, IInv, client, service
  <1>1. TypeOK'
    BY DEF TypeOK
  <1>2. ControlSound'
    BY DEF ControlSound
  <1>3. IdentitySound'
    BY DEF IdentitySound
  <1>4. ClientSeesAll'
    BY DEF ClientSeesAll
  <1>5. NoOrphan'
    BY DEF NoOrphan, ClientSeesAll
  <1>6. CancelSeen'
    BY DEF CancelSeen
  <1>7. LocalIsRemote'
    BY DEF LocalIsRemote
  <1>8. PollSound'
    BY DEF PollSound
  <1> QED
    BY <1>1, <1>2, <1>3, <1>4, <1>5, <1>6, <1>7, <1>8 DEF IInv

\* A cancellation marks the execution and takes the recorded workflow.
LEMMA CancelRequestStep ==
  ASSUME IInv, CancelRequest
  PROVE  IInv'
  <1> USE FlowmeshAssumption DEF CancelRequest, IInv, client, service
  <1>1. TypeOK'
    BY DEF TypeOK
  <1>2. ControlSound'
    BY DEF ControlSound
  <1>3. IdentitySound'
    BY DEF IdentitySound
  <1>4. ClientSeesAll'
    BY DEF ClientSeesAll
  <1>5. NoOrphan'
    BY DEF NoOrphan
  <1>6. CancelSeen'
    BY DEF CancelSeen, IdentitySound
  <1>7. LocalIsRemote'
    BY DEF LocalIsRemote
  <1>8. PollSound'
    BY DEF PollSound
  <1> QED
    BY <1>1, <1>2, <1>3, <1>4, <1>5, <1>6, <1>7, <1>8 DEF IInv

\* cancel_request asks FlowMesh to cancel a workflow.
LEMMA CancelWorkflowStep ==
  ASSUME IInv, NEW wf, CancelWorkflow(wf)
  PROVE  IInv'
  <1> USE FlowmeshAssumption DEF CancelWorkflow, IInv, client, service
  <1>1. TypeOK'
    BY DEF TypeOK
  <1>2. ControlSound'
    BY DEF ControlSound
  <1>3. IdentitySound'
    BY DEF IdentitySound
  <1>4. ClientSeesAll'
    BY DEF ClientSeesAll
  <1>5. NoOrphan'
    BY DEF NoOrphan
  <1>6. CancelSeen'
    BY DEF CancelSeen
  <1>7. LocalIsRemote'
    BY DEF LocalIsRemote
  <1>8. PollSound'
    BY DEF PollSound
  <1> QED
    BY <1>1, <1>2, <1>3, <1>4, <1>5, <1>6, <1>7, <1>8 DEF IInv

\* A workflow shows in the list.
LEMMA AppearStep ==
  ASSUME IInv, NEW wf, Appear(wf)
  PROVE  IInv'
  <1> USE FlowmeshAssumption DEF Appear, IInv, client, service
  <1>1. TypeOK'
    BY DEF TypeOK
  <1>2. ControlSound'
    BY DEF ControlSound
  <1>3. IdentitySound'
    BY DEF IdentitySound
  <1>4. ClientSeesAll'
    BY DEF ClientSeesAll
  <1>5. NoOrphan'
    BY DEF NoOrphan
  <1>6. CancelSeen'
    BY DEF CancelSeen
  <1>7. LocalIsRemote'
    BY DEF LocalIsRemote
  <1>8. PollSound'
    BY DEF PollSound
  <1> QED
    BY <1>1, <1>2, <1>3, <1>4, <1>5, <1>6, <1>7, <1>8 DEF IInv

\* A task ends at FlowMesh.
LEMMA TaskEndsStep ==
  ASSUME IInv, NEW t \in Tasks, NEW status \in Terminal \cup {"CANCELLED"}, TaskEnds(t, status)
  PROVE  IInv'
  <1> USE FlowmeshAssumption DEF TaskEnds, IInv, client, service
  <1>1. TypeOK'
    BY DEF TypeOK, Statuses
  <1>2. ControlSound'
    BY DEF ControlSound
  <1>3. IdentitySound'
    BY DEF IdentitySound
  <1>4. ClientSeesAll'
    BY DEF ClientSeesAll
  <1>5. NoOrphan'
    BY DEF NoOrphan
  <1>6. CancelSeen'
    BY DEF CancelSeen
  <1>7. LocalIsRemote'
    BY DEF LocalIsRemote, Terminal
  <1>8. PollSound'
    BY DEF PollSound
  <1> QED
    BY <1>1, <1>2, <1>3, <1>4, <1>5, <1>6, <1>7, <1>8 DEF IInv

\* Nothing changes.
LEMMA StutterStep ==
  ASSUME IInv, UNCHANGED vars
  PROVE  IInv'
  BY DEF IInv, vars, client, service, TypeOK, ControlSound, IdentitySound, ClientSeesAll, NoOrphan,
         CancelSeen, LocalIsRemote, PollSound

\* Every step keeps the invariant.
LEMMA NextInvariant ==
  ASSUME IInv, [Next]_vars
  PROVE  IInv'
  <1>1. CASE ProcessRequest
    BY <1>1, PrepareStep, SubmitAnsweredStep, SubmitLostStep, SubmitRefusedStep, LookupStep,
       LookupFailedStep, RecordStep, ResolveStep, StartRoundStep, PollStep, StopPollingStep,
       CollectStep, AbortStep
       DEF ProcessRequest
  <1>2. CASE FlowMesh
    BY <1>2, AppearStep, TaskEndsStep DEF FlowMesh
  <1> QED
    BY <1>1, <1>2, CancelRequestStep, CancelWorkflowStep, StutterStep DEF Next

\* The invariant holds throughout an execution.
LEMMA Invariant == Spec => []IInv
  BY InitInvariant, NextInvariant, PTL DEF Spec

-----------------------------------------------------------------------------
\* A client that was never misled knows at most one workflow.
LEMMA InvariantImpliesOneWorkflow ==
  ASSUME IInv
  PROVE  OneWorkflow
  <1>1. SUFFICES ASSUME ~blind PROVE ~(Cardinality(created) > 1)
    BY DEF OneWorkflow
  <1>2. \A v, w \in created : v = w
    BY <1>1 DEF IInv, ClientSeesAll
  <1>3. CASE created = {}
    BY <1>3, FS_EmptySet
  <1>4. CASE created # {}
    <2>1. PICK v : created = {v}
      BY <1>2, <1>4
    <2> QED
      BY <2>1, FS_Singleton
  <1> QED
    BY <1>3, <1>4

\* Lost replies, failed look-ups and cancellations at any await leave no second workflow
\* and none that runs on, as far as the client could see it: for every graph and every
\* number of retries (_submit_workflow, process_request, cancel_request).
THEOREM LeavesNothingRunning == Spec => []NothingLeftRunning
  <1>1. IInv => NothingLeftRunning
    <2> SUFFICES ASSUME IInv PROVE NothingLeftRunning
      OBVIOUS
    <2>1. CancelReachesWorkflow
      BY DEF IInv, CancelSeen, CancelReachesWorkflow
    <2> QED
      BY <2>1, InvariantImpliesOneWorkflow DEF IInv, NothingLeftRunning
  <1> QED
    BY <1>1, Invariant, PTL

\* process_request returns outputs only when every task completed at FlowMesh, and has by
\* then archived the response of every task it watches.
THEOREM OutputsAreComplete == Spec => []OutputsComplete
  <1>1. IInv => OutputsComplete
    <2> SUFFICES ASSUME IInv PROVE OutputsComplete
      OBVIOUS
    <2>1. OutputsNeedAllTasks
      BY DEF IInv, PollSound, LocalIsRemote, OutputsNeedAllTasks, Terminal
    <2>2. WatchedArchived
      BY DEF IInv, TypeOK, PollSound, WatchedArchived
    <2> QED
      BY <2>1, <2>2 DEF OutputsComplete
  <1> QED
    BY <1>1, Invariant, PTL

=============================================================================
