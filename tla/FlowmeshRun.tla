----------------------------- MODULE FlowmeshRun -----------------------------
(***************************************************************************)
(* One execution of FlowmeshRuntimeManager (src/lumilake_server/runtime/   *)
(* runtime_manager/flowmesh.py): process_request submits a workflow to the *)
(* FlowMesh service, with retries, and polls its tasks to the end, while   *)
(* cancel_request may run at any point between two of its awaits.          *)
(*                                                                         *)
(* FlowMesh is external; it is modelled by what the client code can see:   *)
(* a submit may create the workflow and lose the reply, a created workflow *)
(* may show late in the list, tasks end in any order.  Every workflow      *)
(* created here carries this execution's submit id.                        *)
(* A definition named D_Fault is D with a fault put in (see JobManager).   *)
(***************************************************************************)
EXTENDS Naturals, FiniteSets

CONSTANTS
  Tasks,          \* the tasks of the submitted graph
  Members,        \* member_request_ids
  OwnedBy,        \* member -> the tasks its graphs contributed to
  Retries,        \* how often a submit is retried (_FLOWMESH_RETRY_DELAYS_S)
  MaxTransient    \* bound: gateway errors (502/503/504) in one execution

ASSUME FlowmeshAssumption ==
  /\ OwnedBy \in [Members -> SUBSET Tasks]
  /\ Members # {}
  /\ Tasks \subseteq UNION {OwnedBy[m] : m \in Members}
  /\ Retries \in Nat /\ MaxTransient \in Nat

VARIABLES
  pc,          \* where process_request stands
  outcome,     \* how it ended: "none", "ok", "error" or "cancelled"
  attempt,     \* submits made
  transient,   \* gateway errors so far
  created,     \* workflows FlowMesh has created, numbered by attempt
  listed,      \* those that its list shows
  blind,       \* history: a look-up missed a created workflow, or a submit that had
               \* created one failed and was given up without a look-up
  asked,       \* those that FlowMesh was asked to cancel
  mine,        \* {} or {the workflow this execution got or adopted}
  recorded,    \* its entry in _batch_workflow_id
  remote,      \* task -> status at FlowMesh, in the workflow of this execution
  local,       \* task -> _execution_task_status
  watched,     \* the tasks whose responses the poll loop downloads
  archived,    \* the tasks whose response was downloaded
  flag,        \* the execution is in _cancelled_requests
  toCancel     \* workflows cancel_request found recorded and has yet to cancel

client == <<pc, outcome, attempt, mine, recorded, local, watched, archived>>
service == <<transient, created, listed, blind, asked, remote>>
vars == <<client, service, flag, toCancel>>

Terminal == {"DONE", "FAILED"}

\* FlowMesh cancels a task without making it terminal for the client.
Statuses == Terminal \cup {"PENDING", "CANCELLED"}

Init ==
  /\ pc = "start" /\ outcome = "none"
  /\ attempt = 0 /\ transient = 0
  /\ created = {} /\ listed = {} /\ blind = FALSE /\ asked = {}
  /\ mine = {} /\ recorded = {}
  /\ remote = [t \in Tasks |-> "PENDING"]
  /\ local = [t \in Tasks |-> "PENDING"]
  /\ watched = {} /\ archived = {}
  /\ flag = FALSE /\ toCancel = {}

\* The exception path of process_request: abort what was submitted, then raise.
Raise(reason) == pc' = "abort" /\ outcome' = reason

-----------------------------------------------------------------------------
(* Submission.                                                              *)

\* The check at the start, the building and archiving of the task spec, and the
\* check before the submit.
Prepare ==
  /\ pc \in {"start", "built"}
  /\ \/ flag /\ Raise("cancelled")
     \/ ~flag /\ pc = "start" /\ Raise("error")
     \/ ~flag /\ pc' = (IF pc = "start" THEN "built" ELSE "submit") /\ UNCHANGED outcome
  /\ UNCHANGED <<attempt, mine, recorded, local, watched, archived, service, flag, toCancel>>

\* A submit that is answered: FlowMesh created the workflow.
SubmitAnswered ==
  /\ pc = "submit"
  /\ attempt' = attempt + 1
  /\ created' = created \cup {attempt'}
  /\ listed' = listed \cup {attempt'}
  /\ mine' = {attempt'}
  /\ pc' = "accepted"
  /\ UNCHANGED <<outcome, recorded, local, watched, archived, transient, blind, asked,
                 remote, flag, toCancel>>

\* A submit that the gateway answers with 502, 503 or 504, whether or not
\* FlowMesh created the workflow.  The last attempt raises the error.
SubmitLost(creates) ==
  /\ pc = "submit"
  /\ transient < MaxTransient
  /\ transient' = transient + 1
  /\ attempt' = attempt + 1
  /\ created' = IF creates THEN created \cup {attempt'} ELSE created
  /\ listed' \in {listed, created'}
  /\ IF attempt' <= Retries THEN pc' = "lookup" /\ UNCHANGED <<outcome, blind>>
                            ELSE Raise("error") /\ blind' = (blind \/ created' # {})
  /\ UNCHANGED <<mine, recorded, local, watched, archived, asked, remote, flag, toCancel>>

\* A submit that fails otherwise (refused, a timeout of the client, a dropped
\* connection, status 500) is raised at once, without a look-up, although FlowMesh
\* may have created the workflow.
SubmitRefused(creates) ==
  /\ pc = "submit"
  /\ attempt' = attempt + 1
  /\ created' = IF creates THEN created \cup {attempt'} ELSE created
  /\ listed' \in {listed, created'}
  /\ Raise("error")
  /\ blind' = (blind \/ created' # {})
  /\ UNCHANGED <<mine, recorded, local, watched, archived, transient, asked, remote, flag,
                 toCancel>>

\* _find_submitted_workflow before a resubmit: adopt a workflow of an earlier
\* attempt, or go on.
Lookup ==
  /\ pc = "lookup"
  /\ IF listed = {} THEN pc' = "submit" /\ UNCHANGED mine
                    ELSE pc' = "accepted" /\ \E wf \in listed : mine' = {wf}
  /\ blind' = (blind \/ listed # created)
  /\ UNCHANGED <<outcome, attempt, recorded, local, watched, archived, transient, created, listed,
                 asked, remote, flag, toCancel>>

\* The look-up itself fails (_retry_transient_read gives up).
LookupFailed ==
  /\ pc = "lookup"
  /\ Raise("error")
  /\ blind' = (blind \/ created # {})
  /\ UNCHANGED <<attempt, mine, recorded, local, watched, archived, transient, created, listed,
                 asked, remote, flag, toCancel>>

-----------------------------------------------------------------------------
(* Supervision.                                                             *)

\* The workflow id is stored under the lock that cancel_request takes.
Record ==
  /\ pc = "accepted"
  /\ recorded' = mine
  /\ pc' = "recorded"
  /\ UNCHANGED <<outcome, attempt, mine, local, watched, archived, service, flag, toCancel>>

\* The tasks the poll loop downloads: the loop that attributes tasks to members
\* reuses the name task_ids, which then holds the tasks of the last member.
Watchable == {OwnedBy[m] : m \in Members}

\* The check after the record, then _resolve_task_node_maps and the status maps.
Resolve ==
  /\ pc = "recorded"
  /\ \/ flag /\ Raise("cancelled") /\ UNCHANGED watched
     \/ ~flag /\ Raise("error") /\ UNCHANGED watched
     \/ ~flag /\ pc' = "poll" /\ watched' \in Watchable /\ UNCHANGED outcome
  /\ UNCHANGED <<attempt, mine, recorded, local, archived, service, flag, toCancel>>

\* The head of the poll loop: the cancellation check, and the next round.
StartRound ==
  /\ pc = "poll"
  /\ \/ flag /\ Raise("cancelled")
     \/ ~flag /\ pc' = "round" /\ UNCHANGED outcome
  /\ UNCHANGED <<attempt, mine, recorded, local, watched, archived, service, flag, toCancel>>

\* update_task_status reads the tasks one by one, and skips the terminal ones: by
\* the end of the round what it read of a task may be what it was before.
Readings == {f \in [Tasks -> Statuses] :
               \A t \in Tasks : f[t] = local[t] \/ (local[t] \notin Terminal /\ f[t] = remote[t])}

\* What the round has seen decides how the loop goes on: every task terminal ends
\* it, a failed task aborts it.
AfterPoll(seen) ==
  CASE \A t \in Tasks : seen[t] \in Terminal -> pc' = "collect" /\ UNCHANGED outcome
    [] (\E t \in Tasks : seen[t] = "FAILED")
         /\ (\E t \in Tasks : seen[t] \notin Terminal) -> Raise("error")
    [] OTHER -> pc' = "poll" /\ UNCHANGED outcome

\* One round: update_task_status, then download the responses of newly completed
\* tasks.
Poll ==
  /\ pc = "round"
  /\ local' \in Readings
  /\ archived' = archived \cup {t \in watched : local'[t] = "DONE"}
  /\ AfterPoll(local')
  /\ UNCHANGED <<attempt, mine, recorded, watched, service, flag, toCancel>>

\* The other ways out of the loop: a read or a download fails for good, or the
\* poll timeout is reached.
StopPolling_OnlyWhenCancelled ==
  /\ pc \in {"poll", "round"}
  /\ flag
  /\ Raise("error")
  /\ UNCHANGED <<attempt, mine, recorded, local, watched, archived, service, flag, toCancel>>
StopPolling ==
  /\ pc \in {"poll", "round"}
  /\ Raise("error")
  /\ UNCHANGED <<attempt, mine, recorded, local, watched, archived, service, flag, toCancel>>

\* The outputs are collected, unless an output task failed or a result cannot be
\* read.
Collect_IgnoresFailures ==
  /\ pc = "collect"
  /\ pc' = "ended" /\ outcome' = "ok"
  /\ UNCHANGED <<attempt, mine, recorded, local, watched, archived, service, flag, toCancel>>
Collect ==
  /\ pc = "collect"
  /\ \/ (\A t \in Tasks : local[t] # "FAILED") /\ pc' = "ended" /\ outcome' = "ok"
     \/ Raise("error")
  /\ UNCHANGED <<attempt, mine, recorded, local, watched, archived, service, flag, toCancel>>

\* _abort_workflow for what was submitted; an error of the call is only logged.
Abort_UnlessCancelled ==
  /\ pc = "abort"
  /\ asked' = IF outcome = "cancelled" THEN asked ELSE asked \cup mine
  /\ pc' = "ended"
  /\ UNCHANGED <<outcome, attempt, mine, recorded, local, watched, archived, transient, created,
                 listed, blind, remote, flag, toCancel>>
Abort ==
  /\ pc = "abort"
  /\ asked' = asked \cup mine
  /\ pc' = "ended"
  /\ UNCHANGED <<outcome, attempt, mine, recorded, local, watched, archived, transient, created,
                 listed, blind, remote, flag, toCancel>>

-----------------------------------------------------------------------------
(* Cancellation.                                                            *)

\* cancel_request: under the lock, mark the execution and collect its workflows.
CancelRequest ==
  /\ ~flag
  /\ flag' = TRUE
  /\ toCancel' = recorded
  /\ UNCHANGED <<client, service>>

\* Then ask FlowMesh to cancel each; an error of the call is only logged.
CancelWorkflow(wf) ==
  /\ wf \in toCancel
  /\ asked' = asked \cup {wf}
  /\ toCancel' = toCancel \ {wf}
  /\ UNCHANGED <<client, transient, created, listed, blind, remote, flag>>

-----------------------------------------------------------------------------
(* FlowMesh, as the client sees it.                                         *)

\* A created workflow shows in the list at last.
Appear(wf) ==
  /\ wf \in created \ listed
  /\ listed' = listed \cup {wf}
  /\ UNCHANGED <<client, transient, created, blind, asked, remote, flag, toCancel>>

\* A task of this execution's workflow ends; once FlowMesh was asked to cancel,
\* it may end as cancelled, which is no terminal status to the client.
TaskEnds(t, status) ==
  /\ mine # {}
  /\ remote[t] = "PENDING"
  /\ status = "CANCELLED" => mine \subseteq asked
  /\ remote' = [remote EXCEPT ![t] = status]
  /\ UNCHANGED <<client, transient, created, listed, blind, asked, flag, toCancel>>

ProcessRequest ==
  \/ Prepare
  \/ SubmitAnswered
  \/ \E creates \in BOOLEAN : SubmitLost(creates) \/ SubmitRefused(creates)
  \/ Lookup \/ LookupFailed
  \/ Record \/ Resolve
  \/ StartRound \/ Poll \/ StopPolling
  \/ Collect \/ Abort

FlowMesh ==
  \/ \E wf \in created : Appear(wf)
  \/ \E t \in Tasks, status \in Terminal \cup {"CANCELLED"} : TaskEnds(t, status)

Next ==
  \/ ProcessRequest
  \/ CancelRequest
  \/ \E wf \in toCancel : CancelWorkflow(wf)
  \/ FlowMesh

Spec == Init /\ [][Next]_vars

\* process_request goes on, cancel_request finishes, and the clock reaches the
\* poll timeout.  Nothing is assumed of FlowMesh: its tasks may never end.
Fairness ==
  /\ WF_vars(ProcessRequest)
  /\ WF_vars(StopPolling)
  /\ WF_vars(\E wf \in toCancel : CancelWorkflow(wf))

LiveSpec == Spec /\ Fairness

-----------------------------------------------------------------------------
(* Correctness.                                                             *)

\* The variables hold values of their kinds.
TypeOK ==
  /\ pc \in {"start", "built", "submit", "lookup", "accepted", "recorded", "poll", "round",
             "collect", "abort", "ended"}
  /\ outcome \in {"none", "ok", "error", "cancelled"}
  /\ attempt \in 0 .. Retries + 1
  /\ transient \in 0 .. MaxTransient
  /\ mine \subseteq created /\ recorded \subseteq mine /\ listed \subseteq created
  /\ created \subseteq 1 .. Retries + 1
  /\ asked \subseteq created /\ toCancel \subseteq created
  /\ remote \in [Tasks -> Statuses]
  /\ local \in [Tasks -> Statuses]
  /\ watched \subseteq Tasks /\ archived \subseteq Tasks
  /\ flag \in BOOLEAN /\ blind \in BOOLEAN

\* _submit_workflow retries "without double-submitting": an execution that created
\* two FlowMesh workflows was misled by a look-up that did not show the first.
OneWorkflow == Cardinality(created) > 1 => blind

\* An execution that ends without outputs leaves no workflow that FlowMesh was not
\* asked to cancel ("so its remaining tasks stop holding workers"), with two
\* exceptions: one that a look-up did not show, and one whose submit failed and was
\* not followed by a look-up (the last attempt, or any error but 502, 503 and 504).
NoOrphan == pc = "ended" /\ outcome # "ok" => mine \subseteq asked /\ (created \subseteq asked \/ blind)

\* A cancellation is never lost between the submit and the record of the
\* workflow id: once the execution is over, the workflow of a cancelled request
\* was cancelled or cancel_request is about to do so.
CancelReachesWorkflow == pc = "ended" /\ flag => mine \subseteq asked \cup toCancel

\* Outputs are returned only if every task of the workflow completed at FlowMesh.
OutputsNeedAllTasks == outcome = "ok" => \A t \in Tasks : remote[t] = "DONE"

\* When the outputs are returned, the response of every task that the poll loop
\* watches was archived, the ones of its last round included.
WatchedArchived == outcome = "ok" => watched \subseteq archived

\* process_request ends, even if FlowMesh never finishes a task or lost it.
RunEnds == <>(pc = "ended")

\* Lost replies and cancellations at any await leave no second workflow and none that
\* runs on, unless a look-up missed it or it was given up on without one.
NothingLeftRunning == TypeOK /\ OneWorkflow /\ NoOrphan /\ CancelReachesWorkflow

\* Outputs are returned for completed workflows only, with the watched responses archived.
OutputsComplete == OutputsNeedAllTasks /\ WatchedArchived

=============================================================================
