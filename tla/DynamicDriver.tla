---------------------------- MODULE DynamicDriver ----------------------------
(***************************************************************************)
(* One dynamic job (routes/jobs.py): a driver task asks a planner for a    *)
(* subgraph per round, submits each round as a child job and waits for it, *)
(* while clients cancel the parent or a child.                             *)
(*                                                                         *)
(* All tasks share one event loop and suspend at each await; between two   *)
(* of them a step is atomic.  Saves run in threads: a save waits for the   *)
(* lock of its job, copies the record under it and writes the copy.  The   *)
(* save of the terminal hooks is different, its copy is older than the     *)
(* lock.  Records are abstracted to their status; the child of round r is  *)
(* job r.                                                                  *)
(*                                                                         *)
(* A definition named D_Fault is D with a fault put in; it is used only to *)
(* see that a property notices the fault.                                  *)
(***************************************************************************)
EXTENDS Integers

CONSTANTS
  MaxRounds,    \* spec.driver.max_rounds
  MaxFailures   \* bound: saves that raise

ASSUME DriverAssumption ==
  MaxRounds \in Nat \ {0} /\ MaxFailures \in Nat

Terminal == {"completed", "failed", "cancelled"}
Status == {"pending", "running"} \cup Terminal
None == "none"

Parent == -1
Rounds == 0 .. MaxRounds - 1
Jobs == Rounds \cup {Parent}
Tasks == {"driver", "task", "cancel", "abort"}
Writers == Tasks \cup {"ghost"}

VARIABLES
  api,       \* the planner is an endpoint (spec.driver.api), not a node of the round
  mem,       \* job -> status of its record in `jobs`
  rec,       \* job -> status in the archive
  kids,      \* record.child_job_ids
  round,     \* round_index
  pc,        \* task -> where it stands: driver, child task, the two cancel handlers
  at,        \* the child the last cancellation of a client is about
  todo,      \* children cancel_job has still to visit
  save,      \* writer -> [st, job, snap]: its running call of _job_storage.save
  told,      \* jobs whose cancellation reached the runtime
  emitted,   \* usage rows emitted for the parent
  acked,     \* a client was told that the parent is cancelled
  lost,      \* children left behind by an error of their submission or their task
  failures   \* saves that raised

records == <<mem, rec, kids, api>>
vars == <<api, mem, rec, kids, round, pc, at, todo, save, told, emitted, acked, lost, failures>>

NoSave == [st |-> "no", job |-> Parent, snap |-> None]

Init ==
  /\ api \in BOOLEAN
  /\ mem = [j \in Jobs |-> IF j = Parent THEN "pending" ELSE None]
  /\ rec = mem
  /\ kids = {} /\ round = 0
  /\ pc = [t \in Tasks |-> CASE t = "driver" -> "start" [] t = "task" -> "none" [] OTHER -> "idle"]
  /\ at = Parent /\ todo = {}
  /\ save = [w \in Writers |-> NoSave]
  /\ told = {} /\ emitted = 0 /\ acked = FALSE /\ lost = {} /\ failures = 0

Ended(j) == mem[j] \in Terminal
Child == round

-----------------------------------------------------------------------------
(* Saves.                                                                   *)

Call(w, j) == save' = [save EXCEPT ![w] = [st |-> "wait", job |-> j, snap |-> None]]
Done(w) == save[w].st = "ok"
Raised(w) == save[w].st = "err"
Idle(w) == save[w].st = "no"

\* save takes the lock of the job and copies the record, unless the caller did.
SaveBegin(w) ==
  /\ save[w].st = "wait"
  /\ \A v \in Writers : save[v].st = "write" => save[v].job # save[w].job
  /\ save' = [save EXCEPT ![w].st = "write",
                          ![w].snap = IF @ = None THEN mem[save[w].job] ELSE @]
  /\ UNCHANGED <<records, round, pc, at, todo, told, emitted, acked, lost, failures>>

SaveWrite(w) ==
  /\ save[w].st = "write"
  /\ rec' = [rec EXCEPT ![save[w].job] = save[w].snap]
  /\ save' = [save EXCEPT ![w] = IF w = "ghost" THEN NoSave ELSE [@ EXCEPT !.st = "ok"]]
  /\ UNCHANGED <<api, mem, kids, round, pc, at, todo, told, emitted, acked, lost, failures>>

SaveFails(w) ==
  /\ save[w].st = "write" /\ failures < MaxFailures
  /\ failures' = failures + 1
  /\ save' = [save EXCEPT ![w] = IF w = "ghost" THEN NoSave ELSE [@ EXCEPT !.st = "err"]]
  /\ UNCHANGED <<records, round, pc, at, todo, told, emitted, acked, lost>>

-----------------------------------------------------------------------------
(* _run_dynamic_job.                                                        *)

Go(l) == pc' = [pc EXCEPT !["driver"] = l]
DriverAt(l) == pc["driver"] = l /\ Idle("driver")
Elsewhere == UNCHANGED <<at, todo, acked, failures>>

\* An ended parent is not started.
Start ==
  /\ DriverAt("start")
  /\ IF Ended(Parent)
     THEN Go("hooks") /\ UNCHANGED <<mem, save>>
     ELSE /\ mem' = [mem EXCEPT ![Parent] = "running"]
          /\ Call("driver", Parent) /\ Go("round")
  /\ UNCHANGED <<api, rec, kids, round, told, emitted, lost>> /\ Elsewhere

\* A save of the driver returned: it goes on from the label it was called for.
SaveReturns ==
  /\ Done("driver")
  /\ save' = [save EXCEPT !["driver"] = NoSave]
  /\ UNCHANGED <<records, round, pc, told, emitted, lost>> /\ Elsewhere

\* It raised: the outermost except clause fails the parent, the finally clause of
\* the hooks gives up.  A child that has no task yet gets none.
SaveRaises ==
  /\ Raised("driver")
  /\ save' = [save EXCEPT !["driver"] = NoSave]
  /\ Go(CASE pc["driver"] = "emit" -> "ended"
          [] pc["driver"] = "hooks" -> "hooks"
          [] OTHER -> "fail")
  /\ lost' = IF pc["driver"] \in {"saveParent", "dispatch"} THEN lost \cup {Child} ELSE lost
  /\ UNCHANGED <<records, round, told, emitted>> /\ Elsewhere

\* The loop is over after max_rounds.  Round 0 of an endpoint planner runs no child.
\* build_round may refuse the subgraph.
BeginRound ==
  /\ DriverAt("round")
  /\ \/ round >= MaxRounds /\ Go("finish")
     \/ round < MaxRounds /\ api /\ round = 0 /\ Go("plan")
     \/ round < MaxRounds /\ ~ (api /\ round = 0) /\ \E l \in {"submit", "fail"} : Go(l)
  /\ UNCHANGED <<records, round, save, told, emitted, lost>> /\ Elsewhere

\* _submit_dynamic_child files the child, if the parent has not ended; a round that
\* cannot run without a GPU fails the parent instead.
Submit ==
  /\ DriverAt("submit")
  /\ \/ Ended(Parent) /\ Go("hooks") /\ UNCHANGED <<mem, kids, save>>
     \/ /\ ~ Ended(Parent)
        /\ mem' = [mem EXCEPT ![Child] = "pending"]
        /\ kids' = kids \cup {Child}
        /\ Call("driver", Child) /\ Go("saveParent")
     \/ /\ ~ Ended(Parent)
        /\ mem' = [mem EXCEPT ![Parent] = "failed"]
        /\ Call("driver", Parent) /\ Go("hooks") /\ UNCHANGED kids
  /\ UNCHANGED <<api, rec, round, told, emitted, lost>> /\ Elsewhere

SaveParent ==
  /\ DriverAt("saveParent")
  /\ Call("driver", Parent) /\ Go("dispatch")
  /\ UNCHANGED <<records, round, told, emitted, lost>> /\ Elsewhere

\* register_resource, which may refuse, then the task of the child.
Dispatch ==
  /\ DriverAt("dispatch")
  /\ \/ pc' = [pc EXCEPT !["driver"] = "wait", !["task"] = "start"] /\ UNCHANGED lost
     \/ Go("fail") /\ lost' = lost \cup {Child}
  /\ UNCHANGED <<records, round, save, told, emitted>> /\ Elsewhere

\* asyncio.wait_for: the task of the child ended by itself.
Joined ==
  /\ DriverAt("wait")
  /\ \/ pc["task"] = "ended" /\ Go("judge") /\ UNCHANGED lost
     \/ pc["task"] = "raised" /\ Go("fail")
        /\ lost' = IF Ended(Child) THEN lost ELSE lost \cup {Child}
  /\ UNCHANGED <<records, round, save, told, emitted>> /\ Elsewhere

\* job_timeout: the task is cancelled.  A save it waits for runs on in its thread;
\* a task inside its try block still goes through the finally clause.
Timeout_Never == FALSE /\ UNCHANGED vars
Timeout ==
  /\ DriverAt("wait") /\ pc["task"] \notin {"ended", "raised"}
  /\ Idle("ghost")
  /\ LET running == save["task"].st \in {"wait", "write"}
     IN \E inTry \in IF pc["task"] = "finally" THEN BOOLEAN
                     ELSE {pc["task"] \in {"execute", "result"}} :
        /\ save' = [save EXCEPT !["ghost"] = IF running THEN save["task"] ELSE NoSave,
                                !["task"] = IF inTry THEN [st |-> "wait", job |-> Child, snap |-> None]
                                            ELSE NoSave]
        /\ pc' = [pc EXCEPT !["driver"] = "cancelled", !["task"] = IF inTry THEN "final" ELSE "ended"]
  /\ UNCHANGED <<records, round, told, emitted, lost>> /\ Elsewhere

\* wait_for raises TimeoutError once the task is over, or what its last save raised.
\* The child is cancelled in the runtime; the child ends whether that worked or not.
TimedOut_NotMarked ==
  /\ DriverAt("cancelled") /\ pc["task"] \in {"ended", "raised"}
  /\ told' = told \cup {Child}
  /\ Go("fail")
  /\ UNCHANGED <<records, round, save, emitted, lost>> /\ Elsewhere
TimedOut ==
  /\ DriverAt("cancelled")
  /\ \/ /\ pc["task"] = "ended"
        /\ \/ told' = told \cup {Child} /\ mem' = [mem EXCEPT ![Child] = "cancelled"]
           \/ told' = told /\ mem' = [mem EXCEPT ![Child] = "failed"]
        /\ Call("driver", Child) /\ Go("fail") /\ UNCHANGED lost
     \/ /\ pc["task"] = "raised" /\ Go("fail")
        /\ lost' = IF Ended(Child) THEN lost ELSE lost \cup {Child}
        /\ UNCHANGED <<mem, save, told>>
  /\ UNCHANGED <<api, rec, kids, round, emitted>> /\ Elsewhere

\* The round counts only if its child completed with a result.
Judge_AnyStatus ==
  /\ DriverAt("judge")
  /\ Go("plan")
  /\ UNCHANGED <<records, round, save, told, emitted, lost>> /\ Elsewhere
Judge ==
  /\ DriverAt("judge")
  /\ \/ mem[Child] = "completed" /\ \E l \in {"plan", "fail"} : Go(l)
     \/ mem[Child] = "cancelled" /\ Go("giveUp")
     \/ mem[Child] \notin {"completed", "cancelled"} /\ Go("fail")
  /\ UNCHANGED <<records, round, save, told, emitted, lost>> /\ Elsewhere

\* The plan of the next round: stop, a subgraph, or something invalid.  An endpoint
\* is called for it, and round 0 of it goes on without a look at the parent.
Plan ==
  /\ DriverAt("plan")
  /\ \/ Go("finish") /\ UNCHANGED round
     \/ Go("fail") /\ UNCHANGED round
     \/ Go(IF api /\ round = 0 THEN "round" ELSE "advance") /\ round' = round + 1
  /\ UNCHANGED <<records, save, told, emitted, lost>> /\ Elsewhere

Advance ==
  /\ DriverAt("advance")
  /\ IF Ended(Parent) THEN Go("hooks") /\ UNCHANGED save
     ELSE Call("driver", Parent) /\ Go("round")
  /\ UNCHANGED <<records, round, told, emitted, lost>> /\ Elsewhere

\* Every end of the parent is decided under jobs_lock and only once.
EndParent(l, status) ==
  /\ DriverAt(l)
  /\ IF Ended(Parent) THEN UNCHANGED <<mem, save>>
     ELSE mem' = [mem EXCEPT ![Parent] = status] /\ Call("driver", Parent)
  /\ Go("hooks")
  /\ UNCHANGED <<api, rec, kids, round, told, emitted, lost>> /\ Elsewhere

Finish == EndParent("finish", "completed")
FailRun == EndParent("fail", "failed")
GiveUp == EndParent("giveUp", "cancelled")

\* _fire_parent_terminal_hooks: the record is copied here and saved as copied.
Hooks ==
  /\ DriverAt("hooks")
  /\ IF Ended(Parent)
     THEN /\ save' = [save EXCEPT !["driver"] = [st |-> "wait", job |-> Parent, snap |-> mem[Parent]]]
          /\ Go("emit")
     ELSE Go("ended") /\ UNCHANGED save
  /\ UNCHANGED <<records, round, told, emitted, lost>> /\ Elsewhere

Emit ==
  /\ DriverAt("emit")
  /\ emitted' = emitted + 1
  /\ Go("ended")
  /\ UNCHANGED <<records, round, save, told, lost>> /\ Elsewhere

-----------------------------------------------------------------------------
(* _run_job of the child of this round.                                     *)

Step(l) == pc' = [pc EXCEPT !["task"] = l]
TaskAt(l) == pc["task"] = l /\ Idle("task")
NotTask == UNCHANGED <<api, rec, kids, round, at, todo, told, emitted, acked, lost, failures>>

TaskStart ==
  /\ TaskAt("start")
  /\ IF Ended(Child) THEN Step("skip") /\ UNCHANGED mem
     ELSE Step("mark") /\ mem' = [mem EXCEPT ![Child] = "running"]
  /\ Call("task", Child)
  /\ NotTask

TaskSaveReturns ==
  /\ Done("task")
  /\ save' = [save EXCEPT !["task"] = NoSave]
  /\ Step(CASE pc["task"] = "mark" -> "execute"
            [] pc["task"] = "result" -> "finally"
            [] OTHER -> "ended")
  /\ UNCHANGED mem /\ NotTask

\* An error of the first or the last save escapes; one of the result is caught.
TaskSaveRaises ==
  /\ Raised("task")
  /\ save' = [save EXCEPT !["task"] = NoSave]
  /\ Step(IF pc["task"] = "result" THEN "finally" ELSE "raised")
  /\ UNCHANGED mem /\ NotTask

\* server.execute returned.
TaskReturns(result) ==
  /\ TaskAt("execute")
  /\ IF Ended(Child) THEN Step("finally") /\ UNCHANGED <<mem, save>>
     ELSE Step("result") /\ mem' = [mem EXCEPT ![Child] = result] /\ Call("task", Child)
  /\ NotTask

\* It raised, for a cancelled request RequestCancelledError.
TaskRaises ==
  /\ TaskAt("execute")
  /\ \E status \in {"failed"} \cup (IF Child \in told THEN {"cancelled"} ELSE {}) :
       mem' = [mem EXCEPT ![Child] = IF @ \in Terminal THEN @ ELSE status]
  /\ Step("finally") /\ UNCHANGED save
  /\ NotTask

TaskFinally ==
  /\ TaskAt("finally")
  /\ Step("final") /\ Call("task", Child)
  /\ UNCHANGED mem /\ NotTask

-----------------------------------------------------------------------------
(* DELETE /jobs/{id}, of the parent and of a child.                         *)

NotCancel == UNCHANGED <<api, rec, kids, round, emitted, lost, failures>>

CancelParent ==
  /\ pc["cancel"] = "idle" /\ ~ Ended(Parent)
  /\ mem' = [mem EXCEPT ![Parent] = "cancelled"]
  /\ Call("cancel", Parent)
  /\ pc' = [pc EXCEPT !["cancel"] = "saved"]
  /\ UNCHANGED <<at, todo, told, acked>> /\ NotCancel

\* An error of a save ends the request with status 500.
CancelRaises ==
  /\ Raised("cancel")
  /\ save' = [save EXCEPT !["cancel"] = NoSave]
  /\ pc' = [pc EXCEPT !["cancel"] = "idle"]
  /\ todo' = {}
  /\ UNCHANGED <<mem, at, told, acked>> /\ NotCancel

\* The runtime is told, as far as it answers; then the children are visited.
CancelTold_NoChildren ==
  /\ pc["cancel"] = "saved" /\ Done("cancel")
  /\ save' = [save EXCEPT !["cancel"] = NoSave]
  /\ told' = told \cup {Parent}
  /\ todo' = {}
  /\ pc' = [pc EXCEPT !["cancel"] = "visit"]
  /\ UNCHANGED <<mem, at, acked>> /\ NotCancel
CancelTold ==
  /\ pc["cancel"] = "saved" /\ Done("cancel")
  /\ save' = [save EXCEPT !["cancel"] = NoSave]
  /\ told' \in {told, told \cup {Parent}}
  /\ todo' = kids
  /\ pc' = [pc EXCEPT !["cancel"] = "visit"]
  /\ UNCHANGED <<mem, at, acked>> /\ NotCancel

IsFirst(k) == k \in todo /\ \A j \in todo : k <= j

VisitChild ==
  /\ pc["cancel"] = "visit" /\ Idle("cancel")
  /\ \E k \in todo :
       /\ IsFirst(k)
       /\ IF Ended(k) THEN todo' = todo \ {k} /\ UNCHANGED <<mem, save, pc>>
          ELSE /\ mem' = [mem EXCEPT ![k] = "cancelled"]
               /\ Call("cancel", k)
               /\ pc' = [pc EXCEPT !["cancel"] = "child"] /\ UNCHANGED todo
  /\ UNCHANGED <<at, told, acked>> /\ NotCancel

\* cancel_request(child): an error makes the child failed, saved once more.
ChildTold ==
  /\ pc["cancel"] = "child" /\ Done("cancel")
  /\ pc' = [pc EXCEPT !["cancel"] = "visit"]
  /\ \E k \in todo :
       /\ IsFirst(k) /\ todo' = todo \ {k}
       /\ \/ told' = told \cup {k} /\ save' = [save EXCEPT !["cancel"] = NoSave] /\ UNCHANGED mem
          \/ mem' = [mem EXCEPT ![k] = "failed"] /\ Call("cancel", k) /\ UNCHANGED told
  /\ UNCHANGED <<at, acked>> /\ NotCancel

\* The save of the failed child.
ChildSaved ==
  /\ pc["cancel"] = "visit" /\ Done("cancel")
  /\ save' = [save EXCEPT !["cancel"] = NoSave]
  /\ UNCHANGED <<mem, pc, at, todo, told, acked>> /\ NotCancel

CancelReturns ==
  /\ pc["cancel"] = "visit" /\ todo = {} /\ Idle("cancel")
  /\ acked' = TRUE
  /\ pc' = [pc EXCEPT !["cancel"] = "idle"]
  /\ UNCHANGED <<mem, at, todo, save, told>> /\ NotCancel

AbortChild(k) ==
  /\ pc["abort"] = "idle" /\ k \in kids /\ ~ Ended(k)
  /\ mem' = [mem EXCEPT ![k] = "cancelled"]
  /\ at' = k
  /\ Call("abort", k)
  /\ pc' = [pc EXCEPT !["abort"] = "saved"]
  /\ UNCHANGED <<todo, told, acked>> /\ NotCancel

AbortReturns ==
  /\ pc["abort"] = "saved" /\ save["abort"].st \in {"ok", "err"}
  /\ told' \in IF Done("abort") THEN {told, told \cup {at}} ELSE {told}
  /\ save' = [save EXCEPT !["abort"] = NoSave]
  /\ pc' = [pc EXCEPT !["abort"] = "idle"]
  /\ UNCHANGED <<mem, at, todo, acked>> /\ NotCancel

-----------------------------------------------------------------------------
DriverStep ==
  \/ Start \/ SaveReturns \/ SaveRaises \/ BeginRound \/ Submit \/ SaveParent \/ Dispatch
  \/ Joined \/ TimedOut \/ Judge \/ Plan \/ Advance \/ Finish \/ FailRun \/ GiveUp
  \/ Hooks \/ Emit
TaskStep == TaskStart \/ TaskSaveReturns \/ TaskSaveRaises \/ TaskFinally
Answer == TaskRaises \/ \E result \in {"completed", "failed"} : TaskReturns(result)
CancelStep == CancelRaises \/ CancelTold \/ VisitChild \/ ChildTold \/ ChildSaved \/ CancelReturns
Over == pc["driver"] = "ended" /\ UNCHANGED vars

Next ==
  \/ \E w \in Writers : SaveBegin(w) \/ SaveWrite(w) \/ SaveFails(w)
  \/ DriverStep \/ Timeout \/ TaskStep \/ Answer
  \/ CancelParent \/ CancelStep
  \/ AbortReturns \/ \E k \in kids : AbortChild(k)
  \/ Over

\* Fairness.  The event loop runs the tasks and the archive answers; job_timeout
\* passes.  Nothing is assumed of the runtime: server.execute may never return.
Spec == Init /\ [][Next]_vars
Fairness ==
  /\ \A w \in Writers : WF_vars(SaveWrite(w)) /\ SF_vars(SaveBegin(w))
  /\ WF_vars(DriverStep) /\ WF_vars(Timeout) /\ WF_vars(TaskStep)
  /\ WF_vars(CancelStep) /\ WF_vars(AbortReturns)
LiveSpec == Spec /\ Fairness

-----------------------------------------------------------------------------
(* Correctness.                                                             *)

TypeOK ==
  /\ api \in BOOLEAN
  /\ pc \in [Tasks -> {"start", "round", "submit", "saveParent", "dispatch", "wait", "cancelled",
                       "judge", "plan", "advance", "finish", "fail", "giveUp", "hooks", "emit",
                       "none", "mark", "skip", "execute", "result", "finally", "final", "ended",
                       "raised", "idle", "saved", "visit", "child"}]
  /\ mem \in [Jobs -> Status \cup {None}] /\ rec \in [Jobs -> Status \cup {None}]
  /\ kids \subseteq Rounds /\ round \in 0 .. MaxRounds
  /\ at \in Jobs /\ todo \subseteq kids /\ told \subseteq Jobs /\ lost \subseteq kids
  /\ save \in [Writers -> [st : {"no", "wait", "write", "ok", "err"}, job : Jobs,
                           snap : Status \cup {None}]]
  /\ emitted \in 0 .. 1 /\ acked \in BOOLEAN /\ failures \in 0 .. MaxFailures

\* Rounds follow one another: while a round runs, every round before it has
\* completed, and a completed parent has only completed rounds, whoever cancels,
\* times out or loses a save in between.
RoundsInOrder ==
  \A k \in kids : mem[Parent] = "completed" \/ (\E j \in kids : j > k) => mem[k] = "completed"

\* When a client has been told that the parent is cancelled no child is left
\* running: the one submitted while cancel_job was at work is either visited by it
\* or never filed.
CancelReachesChildren == acked => \A k \in kids : Ended(k)

\* A confirmed cancellation stays in the archive, whatever the driver saves after it
\* and however old the copy is that the terminal hooks save.
ConfirmedCancelStays == acked => mem[Parent] = "cancelled" /\ rec[Parent] = "cancelled"

\* Once the run is over, whatever the requests are still at, every child has ended,
\* unless an error broke off its submission or its task.
ChildrenSettled == pc["driver"] = "ended" => \A k \in kids \ lost : Ended(k)

\* When moreover nobody is at work, and if no save raised, the archive agrees with
\* memory for the parent and for every child.
AtRest ==
  /\ pc["driver"] = "ended" /\ pc["cancel"] = "idle" /\ pc["abort"] = "idle"
  /\ \A w \in Writers : Idle(w)
ArchiveSettled == AtRest /\ failures = 0 => rec = mem

\* A run that is over has an ended parent, and its usage was emitted exactly once,
\* however it ended, unless the save before that raised.
UsageEmitted == pc["driver"] = "ended" => Ended(Parent) /\ (failures = 0 => emitted = 1)

\* A round that hangs in the runtime does not hang the parent: the run ends, in a
\* terminal status, because job_timeout passes.
RunEnds == <>[](pc["driver"] = "ended" /\ Ended(Parent))

\* A confirmed cancellation of the parent leaves no child running and is never undone.
CancelHolds == CancelReachesChildren /\ ConfirmedCancelStays

\* A run that is over leaves ended children, an archive that agrees with memory, and its
\* usage emitted once.
RunSettled == TypeOK /\ ChildrenSettled /\ ArchiveSettled /\ UsageEmitted

=============================================================================
