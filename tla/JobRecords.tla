----------------------------- MODULE JobRecords -----------------------------
(***************************************************************************)
(* The life of one job record: the job routes (routes/jobs.py), the        *)
(* archive they save to (utils/job_storage.py), and the start-up recovery  *)
(* and shutdown around them (main.py, LumilakeServer.close).               *)
(*                                                                         *)
(* Jobs do not interact here: each has its own record, its own save lock   *)
(* and its own index entry, so one job is modelled.  A record is           *)
(* abstracted to its status.  The dictionary `jobs` holds at most one      *)
(* in-memory copy, but a handler that found none loads a copy of its own,  *)
(* and the recovery always does; each handler works on the copy it got.    *)
(*                                                                         *)
(* Handlers suspend at every call of the archive, which runs in a thread.  *)
(* A save takes the job's lock, copies the record, writes record.json and  *)
(* then updates the index; either write can fail, before or after it took  *)
(* effect, and the process can die between any two steps.                  *)
(*                                                                         *)
(* A definition named D_Fault is D with a fault put in; it is used only to *)
(* see that a property notices the fault.                                  *)
(***************************************************************************)
EXTENDS Naturals

CONSTANTS
  MaxLives,         \* bound: starts of the process; the last one does not end
  MaxFailures,      \* bound: archive calls that fail
  RecoveryAttempts  \* recover_in_flight_jobs_until_done(attempts)

ASSUME BoundsAssumption ==
  MaxLives \in Nat /\ MaxFailures \in Nat /\ RecoveryAttempts \in Nat \ {0}

Active == {"pending", "running"}
Terminal == {"completed", "failed", "cancelled"}
Status == Active \cup Terminal
None == "none"

Handlers == {"submit", "run", "cancel", "progress", "recover", "close"}
Copies == {"own", "cancel", "progress", "recover"}

VARIABLES
  phase,        \* of the process: down, starting, serving, closing
  life,         \* starts so far
  born,         \* the life that accepted the job, 0 before that
  rec,          \* status in record.json
  idx,          \* status in the jobs index
  mem,          \* copy -> status
  cached,       \* the copy in `jobs`
  on,           \* handler -> the copy it works on
  pc,           \* handler -> where it stands
  save,         \* handler -> state of its call of _job_storage.save
  snap,         \* handler -> status its running save has copied
  cancelSent,   \* server.cancel_request was called for the job
  attempts,     \* background recovery passes that failed
  failures,     \* archive calls that failed
  troubled,     \* one of them in this life
  acked,        \* the client was told the job id
  reloaded,     \* a request put a copy of the job of an earlier life into `jobs`
  cancelAcked   \* the process that runs the job confirmed its cancellation

storage == <<rec, idx>>
world == <<phase, life, born, attempts>>
history == <<failures, troubled, acked, reloaded, cancelAcked>>
saving == <<save, snap>>
vars == <<phase, life, born, rec, idx, mem, cached, on, pc, save, snap, cancelSent,
          attempts, failures, troubled, acked, reloaded, cancelAcked>>

Init ==
  /\ phase = "down" /\ life = 0 /\ born = 0
  /\ rec = None /\ idx = None
  /\ mem = [c \in Copies |-> None] /\ cached = None
  /\ on = [h \in Handlers |-> "own"]
  /\ pc = [h \in Handlers |-> "idle"]
  /\ save = [h \in Handlers |-> "no"] /\ snap = [h \in Handlers |-> None]
  /\ cancelSent = FALSE /\ attempts = 0
  /\ failures = 0 /\ troubled = FALSE
  /\ acked = FALSE /\ reloaded = FALSE /\ cancelAcked = FALSE

-----------------------------------------------------------------------------
(* The archive.                                                             *)

\* Handler h goes to label l and calls save there.
SaveAt(h, l) ==
  /\ pc' = [pc EXCEPT ![h] = l]
  /\ save' = [save EXCEPT ![h] = "wait"]

\* Handler h goes on to label l after its save.
GoAfterSave(h, l) ==
  /\ pc' = [pc EXCEPT ![h] = l]
  /\ save' = [save EXCEPT ![h] = "no"]

\* An archive call fails.
Fail ==
  /\ failures < MaxFailures
  /\ failures' = failures + 1
  /\ troubled' = TRUE
  /\ UNCHANGED <<acked, reloaded, cancelAcked>>

\* save takes the job's lock; asdict copies the record under it.
SaveBegin(h) ==
  /\ save[h] = "wait"
  /\ \A g \in Handlers : save[g] \notin {"record", "index"}
  /\ save' = [save EXCEPT ![h] = "record"]
  /\ snap' = [snap EXCEPT ![h] = mem[on[h]]]
  /\ UNCHANGED <<world, storage, mem, cached, on, pc, cancelSent, history>>

\* _save_record_blobs
SaveRecord(h) ==
  /\ save[h] = "record"
  /\ rec' = snap[h]
  /\ save' = [save EXCEPT ![h] = "index"]
  /\ UNCHANGED <<world, idx, mem, cached, on, pc, snap, cancelSent, history>>

\* The read-modify-write of the index, under the index lock.
SaveIndex(h) ==
  /\ save[h] = "index"
  /\ idx' = snap[h]
  /\ save' = [save EXCEPT ![h] = "ok"]
  /\ snap' = [snap EXCEPT ![h] = None]
  /\ UNCHANGED <<world, rec, mem, cached, on, pc, cancelSent, history>>

\* A write raises; it may have reached the archive all the same.
SaveFails(h) ==
  /\ Fail
  /\ \/ save[h] = "record" /\ rec' \in {rec, snap[h]} /\ UNCHANGED idx
     \/ save[h] = "index" /\ idx' \in {idx, snap[h]} /\ UNCHANGED rec
  /\ save' = [save EXCEPT ![h] = "err"]
  /\ snap' = [snap EXCEPT ![h] = None]
  /\ UNCHANGED <<world, mem, cached, on, pc, cancelSent>>

-----------------------------------------------------------------------------
(* POST /jobs and the task it starts, _run_job.                             *)

\* The route files the record in `jobs` and saves it.
SubmitJob ==
  /\ phase = "serving" /\ born = 0
  /\ born' = life
  /\ mem' = [mem EXCEPT !["own"] = "pending"]
  /\ cached' = "own"
  /\ SaveAt("submit", "save")
  /\ UNCHANGED <<phase, life, attempts, storage, on, snap, cancelSent, history>>

\* The job is registered, its task created and the client told.
SubmitReturns ==
  /\ pc["submit"] = "save" /\ save["submit"] = "ok"
  /\ acked' = TRUE
  /\ pc' = [pc EXCEPT !["submit"] = "idle", !["run"] = "start"]
  /\ save' = [save EXCEPT !["submit"] = "no"]
  /\ UNCHANGED <<world, storage, mem, cached, on, snap, cancelSent,
                 failures, troubled, reloaded, cancelAcked>>

\* The save, or after it register_resource, raised: no task is created.
SubmitRaises ==
  /\ pc["submit"] = "save" /\ save["submit"] \in {"ok", "err"}
  /\ GoAfterSave("submit", "idle")
  /\ UNCHANGED <<world, storage, mem, cached, on, snap, cancelSent, history>>

\* _run_job starts, unless the job has ended in the meantime.
RunStart ==
  /\ phase = "serving" /\ pc["run"] = "start"
  /\ IF mem["own"] \in Terminal
     THEN SaveAt("run", "skip") /\ UNCHANGED mem
     ELSE SaveAt("run", "mark") /\ mem' = [mem EXCEPT !["own"] = "running"]
  /\ UNCHANGED <<world, storage, cached, on, snap, cancelSent, history>>

\* The save of the start lies outside the try block: an error ends the task.
RunMarked ==
  /\ phase = "serving" /\ pc["run"] \in {"mark", "skip"}
  /\ \/ save["run"] = "ok" /\ pc["run"] = "mark" /\ GoAfterSave("run", "execute")
     \/ save["run"] = "ok" /\ pc["run"] = "skip" /\ GoAfterSave("run", "ended")
     \/ save["run"] = "err" /\ GoAfterSave("run", "lost")
  /\ UNCHANGED <<world, storage, mem, cached, on, snap, cancelSent, history>>

\* server.execute returned; the result counts only if the job has not ended.
RunReturns_Unguarded(result) ==
  /\ phase = "serving" /\ pc["run"] = "execute"
  /\ mem' = [mem EXCEPT !["own"] = result]
  /\ SaveAt("run", "result")
  /\ UNCHANGED <<world, storage, cached, on, snap, cancelSent, history>>
RunReturns(result) ==
  /\ phase = "serving" /\ pc["run"] = "execute"
  /\ IF mem["own"] \in Terminal
     THEN SaveAt("run", "final") /\ UNCHANGED mem
     ELSE SaveAt("run", "result") /\ mem' = [mem EXCEPT !["own"] = result]
  /\ UNCHANGED <<world, storage, cached, on, snap, cancelSent, history>>

\* server.execute, or the handling of its response, raised.
RunRaises ==
  /\ phase = "serving" /\ pc["run"] = "execute"
  /\ \E status \in {"failed"} \cup (IF cancelSent THEN {"cancelled"} ELSE {}) :
       mem' = [mem EXCEPT !["own"] = IF @ \in Terminal THEN @ ELSE status]
  /\ SaveAt("run", "final")
  /\ UNCHANGED <<world, storage, cached, on, snap, cancelSent, history>>

\* The save of the result; the except clause leaves a terminal status alone.
RunStored ==
  /\ phase = "serving" /\ pc["run"] = "result" /\ save["run"] \in {"ok", "err"}
  /\ SaveAt("run", "final")
  /\ UNCHANGED <<world, storage, mem, cached, on, snap, cancelSent, history>>

\* The save of the finally clause.
RunFinal ==
  /\ pc["run"] = "final"
  /\ \/ save["run"] = "ok" /\ GoAfterSave("run", "ended")
     \/ save["run"] = "err" /\ GoAfterSave("run", "lost")
  /\ UNCHANGED <<world, storage, mem, cached, on, snap, cancelSent, history>>

-----------------------------------------------------------------------------
(* Handlers that look the job up: DELETE /jobs/{id} and GET .../progress.   *)

\* _load_job_record: the copy in `jobs`, or else a new one from the archive.
Lookup(h) ==
  /\ phase = "serving" /\ acked
  /\ h \in {"cancel", "progress"} /\ pc[h] = "idle"
  /\ IF cached # None
     THEN on' = [on EXCEPT ![h] = cached] /\ pc' = [pc EXCEPT ![h] = "got"]
     ELSE on' = on /\ pc' = [pc EXCEPT ![h] = "load"]
  /\ UNCHANGED <<world, storage, mem, cached, saving, cancelSent, history>>

Load(h) ==
  /\ h \in {"cancel", "progress"} /\ pc[h] = "load"
  /\ mem' = [mem EXCEPT ![h] = rec]
  /\ on' = [on EXCEPT ![h] = h]
  /\ pc' = [pc EXCEPT ![h] = "file"]
  /\ UNCHANGED <<world, storage, cached, saving, cancelSent, history>>

LoadFails(h) ==
  /\ h \in {"cancel", "progress"} /\ pc[h] = "load"
  /\ Fail
  /\ pc' = [pc EXCEPT ![h] = "idle"]
  /\ UNCHANGED <<world, storage, mem, cached, on, saving, cancelSent>>

\* The loaded copy replaces whatever `jobs` holds by then.
FileCopy(h) ==
  /\ h \in {"cancel", "progress"} /\ pc[h] = "file"
  /\ cached' = h
  /\ reloaded' = TRUE
  /\ pc' = [pc EXCEPT ![h] = "got"]
  /\ UNCHANGED <<world, storage, mem, on, saving, cancelSent,
                 failures, troubled, acked, cancelAcked>>

\* cancel_job refuses an ended job (409), else marks it and saves.
CancelMark ==
  /\ pc["cancel"] = "got"
  /\ IF mem[on["cancel"]] \in Terminal
     THEN pc' = [pc EXCEPT !["cancel"] = "idle"] /\ UNCHANGED <<mem, save>>
     ELSE /\ mem' = [mem EXCEPT ![on["cancel"]] = "cancelled"]
          /\ SaveAt("cancel", "save")
  /\ UNCHANGED <<world, storage, cached, on, snap, cancelSent, history>>

\* Only a saved cancellation is passed to the runtime and confirmed.
CancelSaved ==
  /\ pc["cancel"] = "save"
  /\ \/ save["cancel"] = "ok" /\ cancelSent' = TRUE /\ cancelAcked' = (cancelAcked \/ born = life)
     \/ save["cancel"] = "err" /\ UNCHANGED <<cancelSent, cancelAcked>>
  /\ GoAfterSave("cancel", "idle")
  /\ UNCHANGED <<world, storage, mem, cached, on, snap, failures, troubled, acked, reloaded>>

\* get_job_progress saves the record when the runtime, which knows the jobs of
\* this life only, reports new progress, or FlowMesh new usage of an active job.
ProgressChanged ==
  /\ pc["progress"] = "got"
  /\ mem[on["progress"]] # "cancelled"
  /\ born = life \/ mem[on["progress"]] \in Active
  /\ SaveAt("progress", "save")
  /\ UNCHANGED <<world, storage, mem, cached, on, snap, cancelSent, history>>

\* It answers without a save, or after one.
ProgressReturns ==
  /\ \/ pc["progress"] = "got"
     \/ pc["progress"] = "save" /\ save["progress"] \in {"ok", "err"}
  /\ GoAfterSave("progress", "idle")
  /\ UNCHANGED <<world, storage, mem, cached, on, snap, cancelSent, history>>

-----------------------------------------------------------------------------
(* Start-up recovery: one pass before requests are served, and, if it       *)
(* failed, passes in the background.                                        *)

Boot ==
  /\ phase = "down" /\ life < MaxLives
  /\ phase' = "starting"
  /\ life' = life + 1
  /\ attempts' = 0
  /\ troubled' = FALSE
  /\ pc' = [pc EXCEPT !["recover"] = "list"]
  /\ UNCHANGED <<born, storage, mem, cached, on, saving, cancelSent,
                 failures, acked, reloaded, cancelAcked>>

\* The pass is over; the first one opens the server.
PassCompletes ==
  /\ phase' = IF phase = "starting" THEN "serving" ELSE phase
  /\ GoAfterSave("recover", "done")
  /\ UNCHANGED <<life, born, attempts>>

PassFails ==
  /\ phase' = IF phase = "starting" THEN "serving" ELSE phase
  /\ attempts' = IF phase = "starting" THEN 0 ELSE attempts + 1
  /\ GoAfterSave("recover", IF attempts' < RecoveryAttempts THEN "list" ELSE "gaveUp")
  /\ UNCHANGED <<life, born>>

\* iter_summaries: the candidates come from the index.
RecoverList ==
  /\ pc["recover"] = "list"
  /\ \/ idx \in Active /\ pc' = [pc EXCEPT !["recover"] = "check"] /\ UNCHANGED <<world, save>>
     \/ idx \notin Active /\ PassCompletes
  /\ UNCHANGED <<storage, mem, cached, on, snap, cancelSent, history>>

\* A job that is in memory is left alone.
RecoverCheck ==
  /\ pc["recover"] = "check"
  /\ \/ cached = None /\ pc' = [pc EXCEPT !["recover"] = "load"] /\ UNCHANGED <<world, save>>
     \/ cached # None /\ PassCompletes
  /\ UNCHANGED <<storage, mem, cached, on, snap, cancelSent, history>>

\* A job of this life is skipped; an ended one is saved again as it is, to repair
\* the index; any other becomes failed.
RecoverLoad_TrustsIndex ==
  /\ pc["recover"] = "load"
  /\ mem' = [mem EXCEPT !["recover"] = "failed"]
  /\ on' = [on EXCEPT !["recover"] = "recover"]
  /\ SaveAt("recover", "save")
  /\ UNCHANGED <<world, storage, cached, snap, cancelSent, history>>
RecoverLoad ==
  /\ pc["recover"] = "load"
  /\ IF rec # None /\ born < life
     THEN /\ mem' = [mem EXCEPT !["recover"] = IF rec \in Active THEN "failed" ELSE rec]
          /\ on' = [on EXCEPT !["recover"] = "recover"]
          /\ SaveAt("recover", "save") /\ UNCHANGED world
     ELSE PassCompletes /\ UNCHANGED <<mem, on>>
  /\ UNCHANGED <<storage, cached, snap, cancelSent, history>>

RecoverSaved ==
  /\ pc["recover"] = "save"
  /\ \/ save["recover"] = "ok" /\ PassCompletes
     \/ save["recover"] = "err" /\ PassFails
  /\ UNCHANGED <<storage, mem, cached, on, snap, cancelSent, history>>

\* The index or the record cannot be read.
RecoverFails_Forever ==
  /\ pc["recover"] \in {"list", "load"}
  /\ Fail
  /\ phase' = IF phase = "starting" THEN "serving" ELSE phase
  /\ pc' = [pc EXCEPT !["recover"] = "gaveUp"]
  /\ UNCHANGED <<life, born, attempts, storage, mem, cached, on, saving, cancelSent>>
RecoverFails ==
  /\ pc["recover"] \in {"list", "load"}
  /\ Fail
  /\ PassFails
  /\ UNCHANGED <<storage, mem, cached, on, snap, cancelSent>>

-----------------------------------------------------------------------------
(* The end of the process.                                                  *)

\* LumilakeServer.close, once the request handlers have returned:
\* mark_running_jobs_failed.  The event loop of the routes waits for it.
Close ==
  /\ phase = "serving" /\ life < MaxLives
  /\ \A h \in {"submit", "cancel", "progress"} : pc[h] = "idle"
  /\ phase' = "closing"
  /\ IF cached # None /\ mem[cached] \in Active
     THEN /\ mem' = [mem EXCEPT ![cached] = "failed"]
          /\ on' = [on EXCEPT !["close"] = cached]
          /\ SaveAt("close", "save")
     ELSE pc' = [pc EXCEPT !["close"] = "stop"] /\ UNCHANGED <<mem, on, save>>
  /\ UNCHANGED <<life, born, attempts, storage, cached, snap, cancelSent, history>>

CloseSaved ==
  /\ pc["close"] = "save" /\ save["close"] \in {"ok", "err"}
  /\ GoAfterSave("close", "stop")
  /\ UNCHANGED <<world, storage, mem, cached, on, snap, cancelSent, history>>

Writing(h) == save[h] \in {"wait", "record", "index"}

\* The background tasks are cancelled; a save in a thread runs to its end, and a
\* task inside its try block passes through the finally clause.
StopTasks ==
  /\ pc["close"] = "stop"
  /\ ~ Writing("run") /\ ~ Writing("recover")
  /\ LET inTry == pc["run"] \in {"execute", "result"}
     IN /\ pc' = [pc EXCEPT !["close"] = "exit", !["recover"] = "idle",
                            !["run"] = IF inTry THEN "final" ELSE "idle"]
        /\ save' = [save EXCEPT !["recover"] = "no", !["run"] = IF inTry THEN "wait" ELSE "no"]
  /\ UNCHANGED <<world, storage, mem, cached, on, snap, cancelSent, history>>

\* What a process loses when it ends.
Lose ==
  /\ phase' = "down"
  /\ mem' = [c \in Copies |-> None] /\ cached' = None
  /\ on' = [h \in Handlers |-> "own"]
  /\ pc' = [h \in Handlers |-> "idle"]
  /\ save' = [h \in Handlers |-> "no"] /\ snap' = [h \in Handlers |-> None]
  /\ cancelSent' = FALSE
  /\ UNCHANGED <<life, born, attempts, storage, history>>

Exit == pc["close"] = "exit" /\ pc["run"] # "final" /\ Lose

Crash == phase # "down" /\ life < MaxLives /\ Lose

-----------------------------------------------------------------------------
RunStep == RunStart \/ RunMarked \/ RunStored \/ RunFinal \/ RunRaises
             \/ \E result \in {"completed", "failed"} : RunReturns(result)
RecoverStep == RecoverList \/ RecoverCheck \/ RecoverLoad \/ RecoverSaved
SaveStep(h) == SaveRecord(h) \/ SaveIndex(h)

Next ==
  \/ \E h \in Handlers : SaveBegin(h) \/ SaveStep(h) \/ SaveFails(h)
  \/ SubmitJob \/ SubmitReturns \/ SubmitRaises
  \/ RunStep
  \/ \E h \in {"cancel", "progress"} : Lookup(h) \/ Load(h) \/ LoadFails(h) \/ FileCopy(h)
  \/ CancelMark \/ CancelSaved
  \/ ProgressChanged \/ ProgressReturns
  \/ Boot \/ RecoverStep \/ RecoverFails
  \/ Close \/ CloseSaved \/ StopTasks \/ Exit \/ Crash

Spec == Init /\ [][Next]_vars

\* Fairness.  A process that ended is started again; tasks are not abandoned by
\* their event loop, the archive answers the save that holds the job's lock (one at
\* a time does), server.execute returns, and the lock is not denied to a waiting
\* save of the run, the recovery or the shutdown forever.  Nothing is assumed of
\* requests: a client may go away.
Fairness ==
  /\ WF_vars(Boot) /\ WF_vars(RunStep) /\ WF_vars(RecoverStep)
  /\ WF_vars(\E h \in Handlers : SaveStep(h))
  /\ \A h \in {"run", "recover", "close"} : SF_vars(SaveBegin(h))
  /\ WF_vars(CloseSaved) /\ WF_vars(StopTasks) /\ WF_vars(Exit)

LiveSpec == Spec /\ Fairness

-----------------------------------------------------------------------------
(* Correctness.                                                             *)

TypeOK ==
  /\ phase \in {"down", "starting", "serving", "closing"}
  /\ life \in 0 .. MaxLives /\ born \in 0 .. life
  /\ rec \in Status \cup {None} /\ idx \in Status \cup {None}
  /\ mem \in [Copies -> Status \cup {None}]
  /\ cached \in {"own", "cancel", "progress", None}
  /\ on \in [Handlers -> Copies]
  /\ pc \in [Handlers -> {"idle", "save", "start", "mark", "skip", "execute", "result", "final",
                          "ended", "lost", "load", "file", "got", "list", "check", "done",
                          "gaveUp", "stop", "exit"}]
  /\ save \in [Handlers -> {"no", "wait", "record", "index", "ok", "err"}]
  /\ snap \in [Handlers -> Status \cup {None}]
  /\ attempts \in 0 .. RecoveryAttempts /\ failures \in 0 .. MaxFailures
  /\ {cancelSent, troubled, acked, reloaded, cancelAcked} \subseteq BOOLEAN

\* "a completed job is never reported failed" (recover_in_flight_jobs): once the
\* archive says completed it says so for good, through late saves of other
\* handlers, shutdown, crashes and recoveries from a lagging index.
CompletedStays == [][rec = "completed" => rec' = "completed"]_vars

\* A cancellation that the process running the job confirmed stays the job's
\* status, whatever the run saves after it and however often the server restarts.
ConfirmedCancelStays == cancelAcked => rec = "cancelled"

\* In the process that accepted the job, whenever no save is under way and no
\* archive call has failed, record, index and memory agree, whatever the order in
\* which the handlers marked, copied and wrote: no change is left without a save
\* that copies the record after it.
StorageSettled ==
  (/\ phase # "down" /\ born = life /\ ~ troubled
   /\ \A h \in Handlers : save[h] = "no")
  => rec = mem["own"] /\ idx = rec

\* After a completed recovery pass a job of an earlier process has ended and its
\* index entry agrees, however many restarts it took and however they were cut
\* short, unless a request put the job into memory after its own process ended: its
\* copy and the recovery's are saved in either order, and a crash between the two
\* writes can then leave an ended index entry, which no later pass looks behind.
RecoveryComplete ==
  pc["recover"] = "done" /\ acked /\ born < life /\ ~ reloaded
    => rec \in Terminal /\ idx = rec

\* Every confirmed job ends in the archive, across crashes, restarts and archive
\* errors (fewer than the recovery has attempts), unless the run itself was lost to
\* one or a request loaded the job of an earlier process.
JobSettles ==
  acked ~> rec \in Terminal \/ pc["run"] = "lost" \/ reloaded

\* Memory and archive agree: on a confirmed cancellation, between saves, and after
\* recovery.
RecordsAgree == TypeOK /\ ConfirmedCancelStays /\ StorageSettled /\ RecoveryComplete

=============================================================================
