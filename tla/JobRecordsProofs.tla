-------------------------- MODULE JobRecordsProofs --------------------------
(***************************************************************************)
(* Proofs about the life of a job record: RecordsAgree and CompletedStays  *)
(* hold for every number of process lives, archive failures and recovery   *)
(* attempts.                                                               *)
(*                                                                         *)
(* The argument distinguishes three periods.  Before the job exists        *)
(* nothing is stored.  In the process that accepted it (OwnLife) every     *)
(* handler works on the one copy in `jobs`, whose status ends once and for *)
(* all, and the save lock makes record.json follow it.  Afterwards (Over)  *)
(* handlers and recovery work on copies of record.json, which can carry a  *)
(* completed or confirmed-cancelled status on but not away.                *)
(***************************************************************************)
EXTENDS JobRecords, TLAPS

Locked(h) == save[h] \in {"record", "index"}

\* Where each handler can stand, and that it has a save exactly at its save labels.
LabelsSound ==
  /\ pc["submit"] \in {"idle", "save"}
  /\ pc["run"] \in {"idle", "start", "mark", "skip", "execute", "result", "final", "ended", "lost"}
  /\ \A h \in {"cancel", "progress"} : pc[h] \in {"idle", "load", "file", "got", "save"}
  /\ pc["recover"] \in {"idle", "list", "check", "load", "save", "done", "gaveUp"}
  /\ pc["close"] \in {"idle", "save", "stop", "exit"}
  /\ \A h \in Handlers : save[h] # "no" <=> pc[h] \in {"save", "mark", "skip", "result", "final"}
  /\ phase = "down" => /\ \A h \in Handlers : pc[h] = "idle"
                       /\ \A c \in Copies : mem[c] = None
                       /\ cached = None
  /\ phase # "down" => life > 0
  /\ pc["submit"] = "save" => pc["run"] = "idle"
  /\ pc["close"] # "idle" => phase = "closing"
  /\ phase = "starting" => attempts = 0
  /\ pc["recover"] \in {"list", "check", "load", "save"} => attempts < RecoveryAttempts

\* One save at a time holds the lock, and only it has a snapshot, which is what
\* record.json holds from the first write on.
SavesSound ==
  /\ \A g, h \in Handlers : Locked(g) /\ Locked(h) => g = h
  /\ \A h \in Handlers :
       /\ Locked(h) <=> snap[h] # None
       /\ save[h] = "index" => rec = snap[h]
       /\ save[h] = "ok" => rec # None /\ idx # None
       /\ save[h] # "no" => mem[on[h]] # None

\* Handlers that answer for a job have been told of one, and hold a copy.
CopiesSound ==
  /\ acked => rec # None /\ idx # None
  /\ cached # None => mem[cached] # None
  /\ cancelAcked => rec = "cancelled"
  /\ \A h \in {"cancel", "progress"} :
       /\ pc[h] # "idle" => acked
       /\ pc[h] = "file" => mem[h] # None /\ on[h] = h
       /\ pc[h] = "got" => mem[on[h]] # None

\* Before the job.
Unborn ==
  born = 0 =>
    /\ rec = None /\ idx = None /\ cached = None
    /\ mem = [c \in Copies |-> None] /\ on = [h \in Handlers |-> "own"]
    /\ pc["submit"] = "idle" /\ pc["run"] = "idle"
    /\ pc["cancel"] = "idle" /\ pc["progress"] = "idle"
    /\ pc["recover"] \in {"idle", "list", "done", "gaveUp"} /\ pc["close"] # "save"
    /\ ~ acked /\ ~ reloaded /\ ~ cancelAcked

\* A save that is still to copy the record, or has copied its present status.
Carries(h) == save[h] = "wait" \/ (save[h] = "record" /\ snap[h] = mem["own"])

\* In the process that accepted the job.
OwnLife ==
  born > 0 /\ born = life /\ phase # "down" =>
    /\ cached = "own" /\ on = [h \in Handlers |-> "own"]
    /\ ~ reloaded
    /\ \A h \in {"cancel", "progress"} : pc[h] \notin {"load", "file"}
    /\ pc["recover"] # "save"
    /\ rec \in Active \cup {None, mem["own"]}
    /\ idx \in Terminal => rec = idx
    /\ \A h \in Handlers : Locked(h) => /\ snap[h] \in Active \cup {mem["own"]}
                                        /\ rec \in Terminal => snap[h] = rec
                                        /\ rec = mem["own"] => snap[h] = rec
                                        /\ mem["own"] = "pending" => snap[h] = "pending"
    /\ mem["own"] = "pending" => rec \in {None, "pending"}
    /\ pc["cancel"] = "save" => /\ mem["own"] = "cancelled"
                                /\ Locked("cancel") => snap["cancel"] = "cancelled"
                                /\ save["cancel"] = "ok" => rec = "cancelled"
    /\ ~ troubled => /\ rec = mem["own"] \/ \E h \in Handlers : Carries(h)
                     /\ idx = rec \/ \E h \in Handlers : save[h] = "index"
                     /\ \A h \in Handlers : save[h] # "err"

\* After the process that accepted the job has ended.
Over ==
  born > 0 /\ (born < life \/ phase = "down") =>
    /\ pc["submit"] = "idle" /\ pc["run"] = "idle"
    /\ mem["own"] = None
    /\ \A c \in Copies :
         /\ mem[c] = "completed" => rec = "completed"
         /\ rec = "completed" => mem[c] \in {None, "completed"}
         /\ cancelAcked => mem[c] \in {None, "cancelled"}
    /\ \A h \in Handlers :
         /\ snap[h] = "completed" => rec = "completed"
         /\ rec = "completed" => snap[h] \in {None, "completed"}
         /\ cancelAcked => snap[h] \in {None, "cancelled"}

\* And as long as no request has put the job back into memory: only the recovery
\* writes, an ended status it copied from the record or gave it.
NotReloaded ==
  born > 0 /\ (born < life \/ phase = "down") /\ ~ reloaded =>
    /\ cached = None
    /\ \A h \in {"cancel", "progress"} : pc[h] \in {"idle", "load", "file"}
    /\ pc["close"] # "save"
    /\ idx \in Terminal => rec = idx
    /\ pc["recover"] = "save" =>
         /\ on["recover"] = "recover" /\ mem["recover"] \in Terminal
         /\ rec \in Terminal => mem["recover"] = rec
         /\ Locked("recover") => snap["recover"] = mem["recover"]
         /\ save["recover"] = "ok" => rec \in Terminal /\ idx = rec
    /\ acked /\ pc["recover"] = "done" => rec \in Terminal /\ idx = rec

\* The inductive invariant.
IInv == /\ TypeOK /\ LabelsSound /\ SavesSound /\ CopiesSound
        /\ Unborn /\ OwnLife /\ Over /\ NotReloaded

-----------------------------------------------------------------------------
(* Each step preserves the invariant.                                       *)

\* Nothing is stored or running before the first start.
LEMMA InitInv == Init => IInv
<1> SUFFICES ASSUME Init PROVE IInv
  OBVIOUS
<1>1. TypeOK
  <2>1. {cancelSent, troubled, acked, reloaded, cancelAcked} \subseteq BOOLEAN
    BY DEF Init
  <2>2. /\ life \in 0 .. MaxLives /\ born \in 0 .. life
        /\ attempts \in 0 .. RecoveryAttempts /\ failures \in 0 .. MaxFailures
    BY BoundsAssumption DEF Init
  <2> QED
    BY <2>1, <2>2 DEF Init, TypeOK, Copies
<1>2. LabelsSound /\ SavesSound /\ CopiesSound
  BY DEF Init, LabelsSound, SavesSound, CopiesSound, Locked, Handlers
<1>3. Unborn /\ OwnLife /\ Over /\ NotReloaded
  BY DEF Init, Unborn, OwnLife, Over, NotReloaded, Handlers
<1> QED BY <1>1, <1>2, <1>3 DEF IInv

\* The save that takes the lock copies the status its handler works on; from now on it
\* alone can write.
LEMMA SaveBeginStep ==
  ASSUME IInv, NEW h \in Handlers, SaveBegin(h)
  PROVE  IInv'
<1>1. TypeOK'
  BY DEF IInv, TypeOK, SaveBegin, storage, world, history
<1>2. LabelsSound'
  BY DEF LabelsSound, IInv, SaveBegin, world
<1>3. SavesSound'
  BY DEF SavesSound, Locked, IInv, TypeOK, SaveBegin, storage
<1>4. CopiesSound'
  BY DEF CopiesSound, IInv, SaveBegin, storage, history
<1>5. Unborn'
  BY DEF Unborn, IInv, SaveBegin, storage, world, history
<1>6. OwnLife'
  BY DEF OwnLife, Locked, Carries, IInv, TypeOK, SaveBegin, storage, world, history, Active,
         Terminal, None
<1>7. Over'
  BY DEF Over, IInv, TypeOK, SaveBegin, storage, world, history
<1>8. NotReloaded'
  BY DEF NotReloaded, Locked, IInv, TypeOK, SaveBegin, storage, world, history
<1> QED BY <1>1, <1>2, <1>3, <1>4, <1>5, <1>6, <1>7, <1>8 DEF IInv

\* record.json takes the copied status: in the job's own process a later one than it
\* held, afterwards the same if the job was completed or its cancellation confirmed.
LEMMA SaveRecordStep ==
  ASSUME IInv, NEW h \in Handlers, SaveRecord(h)
  PROVE  IInv'
<1>1. TypeOK'
  BY DEF IInv, TypeOK, SaveRecord, world, history
<1>2. LabelsSound'
  BY DEF LabelsSound, IInv, SaveRecord, world
<1>3. SavesSound'
  BY DEF SavesSound, Locked, IInv, SaveRecord
<1>4. CopiesSound'
  BY DEF CopiesSound, SavesSound, Unborn, OwnLife, Over, Locked, IInv, TypeOK, SaveRecord, history,
         Terminal
<1>5. Unborn'
  BY DEF Unborn, LabelsSound, IInv, SaveRecord, world, Handlers
<1>6. OwnLife'
  <2> SUFFICES ASSUME born > 0, born = life, phase # "down" PROVE OwnLife!2'
    BY DEF OwnLife, SaveRecord, world
  <2>1. OwnLife!2
    BY DEF OwnLife, IInv
  <2>2. (~ troubled => /\ rec = mem["own"] \/ \E g \in Handlers : Carries(g)
                       /\ idx = rec \/ \E g \in Handlers : save[g] = "index"
                       /\ \A g \in Handlers : save[g] # "err")'
    <3>1. ASSUME snap[h] # mem["own"], ~ troubled PROVE \E g \in Handlers : Carries(g)'
      <4>1. rec # mem["own"]
        BY <2>1, <3>1 DEF Locked, SaveRecord
      <4>2. PICK g \in Handlers : Carries(g)
        BY <2>1, <3>1, <4>1
      <4>3. g # h
        BY <3>1, <4>2 DEF Carries, SaveRecord
      <4> QED
        BY <4>2, <4>3 DEF Carries, SaveRecord
    <3>2. save'[h] = "index" /\ rec' = snap[h]
      BY DEF IInv, TypeOK, SaveRecord, storage
    <3> QED
      BY <2>1, <3>1, <3>2 DEF SaveRecord, history
  <2> QED
    BY <2>1, <2>2 DEF SavesSound, Locked, IInv, SaveRecord, history
<1>7. Over'
  BY DEF Over, SavesSound, Locked, IInv, SaveRecord, world, history
<1>8. NotReloaded'
  BY DEF NotReloaded, Over, LabelsSound, Locked, IInv, SaveRecord, world, history, Handlers
<1> QED BY <1>1, <1>2, <1>3, <1>4, <1>5, <1>6, <1>7, <1>8 DEF IInv

\* The index takes the status that record.json got from the same save.
LEMMA SaveIndexStep ==
  ASSUME IInv, NEW h \in Handlers, SaveIndex(h)
  PROVE  IInv'
<1>1. TypeOK'
  BY DEF IInv, TypeOK, SaveIndex, world, history
<1>2. LabelsSound'
  BY DEF LabelsSound, IInv, SaveIndex, world
<1>3. SavesSound'
  BY DEF SavesSound, Locked, IInv, TypeOK, SaveIndex
<1>4. CopiesSound'
  BY DEF CopiesSound, SavesSound, IInv, SaveIndex, history
<1>5. Unborn'
  BY DEF Unborn, LabelsSound, IInv, SaveIndex, world, Handlers
<1>6. OwnLife'
  BY DEF OwnLife, SavesSound, Locked, Carries, IInv, TypeOK, SaveIndex, world, history
<1>7. Over'
  BY DEF Over, IInv, SaveIndex, world, history, None
<1>8. NotReloaded'
  BY DEF NotReloaded, SavesSound, Locked, IInv, TypeOK, SaveIndex, world, history
<1> QED BY <1>1, <1>2, <1>3, <1>4, <1>5, <1>6, <1>7, <1>8 DEF IInv

\* A failed write may have taken effect; the lock is free again either way.
LEMMA SaveFailsStep ==
  ASSUME IInv, NEW h \in Handlers, SaveFails(h)
  PROVE  IInv'
<1>1. TypeOK'
  BY BoundsAssumption DEF IInv, TypeOK, SaveFails, Fail, world
<1>2. LabelsSound'
  BY DEF LabelsSound, IInv, SaveFails, world
<1>3. SavesSound'
  BY DEF SavesSound, Locked, IInv, TypeOK, SaveFails
<1>4. CopiesSound'
  BY DEF CopiesSound, SavesSound, Unborn, OwnLife, Over, Locked, IInv, TypeOK, SaveFails, Fail,
         Terminal
<1>5. Unborn'
  BY DEF Unborn, LabelsSound, IInv, SaveFails, world, Handlers
<1>6. OwnLife'
  BY DEF OwnLife, SavesSound, Locked, IInv, TypeOK, SaveFails, Fail, world
<1>7. Over'
  BY DEF Over, SavesSound, Locked, IInv, SaveFails, Fail, world, None
<1>8. NotReloaded'
  BY DEF NotReloaded, Over, LabelsSound, SavesSound, Locked, IInv, TypeOK, SaveFails, Fail, world,
         Handlers
<1> QED BY <1>1, <1>2, <1>3, <1>4, <1>5, <1>6, <1>7, <1>8 DEF IInv

\* The job enters its own life.
LEMMA SubmitJobStep ==
  ASSUME IInv, SubmitJob
  PROVE  IInv'
<1>1. TypeOK'
  BY DEF IInv, TypeOK, SubmitJob, SaveAt, storage, history, Handlers, Copies, Status, Active
<1>2. LabelsSound'
  BY DEF LabelsSound, Unborn, IInv, TypeOK, SubmitJob, SaveAt
<1>3. SavesSound'
  BY DEF SavesSound, Unborn, Locked, IInv, SubmitJob, SaveAt, Copies, None
<1>4. CopiesSound'
  BY DEF CopiesSound, IInv, TypeOK, SubmitJob, SaveAt, storage, history, Copies, None
<1>5. Unborn'
  BY DEF Unborn, LabelsSound, IInv, SubmitJob
<1>6. OwnLife'
  BY DEF OwnLife, Unborn, SavesSound, Locked, Carries, IInv, TypeOK, SubmitJob, SaveAt, storage,
         history, Handlers
<1>7. Over'
  BY DEF Over, IInv, TypeOK, SubmitJob
<1>8. NotReloaded'
  BY DEF NotReloaded, IInv, TypeOK, SubmitJob
<1> QED BY <1>1, <1>2, <1>3, <1>4, <1>5, <1>6, <1>7, <1>8 DEF IInv

\* The client learns the id only after record and index exist.
LEMMA SubmitReturnsStep ==
  ASSUME IInv, SubmitReturns
  PROVE  IInv'
<1>1. TypeOK'
  BY DEF IInv, TypeOK, SubmitReturns, storage, world, Handlers
<1>2. LabelsSound'
  BY DEF LabelsSound, IInv, TypeOK, SubmitReturns, world, Handlers
<1>3. SavesSound'
  BY DEF SavesSound, Locked, IInv, SubmitReturns, storage
<1>4. CopiesSound'
  BY DEF CopiesSound, SavesSound, IInv, TypeOK, SubmitReturns, storage, Handlers
<1>5. Unborn'
  BY DEF Unborn, IInv, SubmitReturns, world
<1>6. OwnLife'
  BY DEF OwnLife, Locked, Carries, IInv, TypeOK, SubmitReturns, storage, world, Handlers
<1>7. Over'
  BY DEF Over, IInv, SubmitReturns, world
<1>8. NotReloaded'
  BY DEF NotReloaded, Over, IInv, SubmitReturns, world
<1> QED BY <1>1, <1>2, <1>3, <1>4, <1>5, <1>6, <1>7, <1>8 DEF IInv

\* A failed submission leaves what its save has written.
LEMMA SubmitRaisesStep ==
  ASSUME IInv, SubmitRaises
  PROVE  IInv'
<1>1. TypeOK'
  BY DEF IInv, TypeOK, SubmitRaises, GoAfterSave, storage, world, history, Handlers
<1>2. LabelsSound'
  BY DEF LabelsSound, IInv, TypeOK, SubmitRaises, GoAfterSave, world
<1>3. SavesSound'
  BY DEF SavesSound, Locked, IInv, SubmitRaises, GoAfterSave, storage
<1>4. CopiesSound'
  BY DEF CopiesSound, IInv, SubmitRaises, GoAfterSave, storage, history
<1>5. Unborn'
  BY DEF Unborn, IInv, SubmitRaises, world
<1>6. OwnLife'
  BY DEF OwnLife, Locked, Carries, IInv, SubmitRaises, GoAfterSave, storage, world, history
<1>7. Over'
  BY DEF Over, IInv, SubmitRaises, world
<1>8. NotReloaded'
  BY DEF NotReloaded, Locked, IInv, SubmitRaises, GoAfterSave, storage, world, history
<1> QED BY <1>1, <1>2, <1>3, <1>4, <1>5, <1>6, <1>7, <1>8 DEF IInv

\* The run marks the job running only if it has not ended.
LEMMA RunStartStep ==
  ASSUME IInv, RunStart
  PROVE  IInv'
<1>1. TypeOK'
  BY DEF IInv, TypeOK, RunStart, SaveAt, storage, world, history, Status, Active
<1>2. LabelsSound'
  BY DEF LabelsSound, IInv, TypeOK, RunStart, SaveAt, world, Handlers
<1>3. SavesSound'
  BY DEF SavesSound, LabelsSound, Unborn, OwnLife, Over, Locked, IInv, TypeOK, RunStart, SaveAt,
         storage, Terminal, None
<1>4. CopiesSound'
  BY DEF CopiesSound, IInv, TypeOK, RunStart, SaveAt, storage, history, Handlers, Copies, None
<1>5. Unborn'
  BY DEF Unborn, IInv, RunStart, world
<1>6. OwnLife'
  BY DEF OwnLife, LabelsSound, CopiesSound, Locked, Carries, IInv, TypeOK, RunStart, SaveAt,
         storage, world, history, Handlers, Status, Active, None
<1>7. Over'
  BY DEF Over, IInv, RunStart, world
<1>8. NotReloaded'
  BY DEF NotReloaded, Locked, IInv, TypeOK, RunStart, SaveAt, storage, world, history, Handlers
<1> QED BY <1>1, <1>2, <1>3, <1>4, <1>5, <1>6, <1>7, <1>8 DEF IInv

\* The save of the start is over.
LEMMA RunMarkedStep ==
  ASSUME IInv, RunMarked
  PROVE  IInv'
<1>1. TypeOK'
  BY DEF IInv, TypeOK, RunMarked, GoAfterSave, storage, world, history
<1>2. LabelsSound'
  BY DEF LabelsSound, IInv, TypeOK, RunMarked, GoAfterSave, world, Handlers
<1>3. SavesSound'
  BY DEF SavesSound, Locked, IInv, TypeOK, RunMarked, GoAfterSave, storage
<1>4. CopiesSound'
  BY DEF CopiesSound, IInv, TypeOK, RunMarked, GoAfterSave, storage, history, Handlers
<1>5. Unborn'
  BY DEF Unborn, IInv, RunMarked, world
<1>6. OwnLife'
  BY DEF OwnLife, Locked, Carries, IInv, TypeOK, RunMarked, GoAfterSave, storage, world, history,
         Handlers
<1>7. Over'
  BY DEF Over, IInv, RunMarked, world
<1>8. NotReloaded'
  BY DEF NotReloaded, Locked, IInv, TypeOK, RunMarked, GoAfterSave, storage, world, history,
         Handlers
<1> QED BY <1>1, <1>2, <1>3, <1>4, <1>5, <1>6, <1>7, <1>8 DEF IInv

\* The result of the execution changes no ended status.
LEMMA RunReturnsStep ==
  ASSUME IInv, NEW result \in {"completed", "failed"}, RunReturns(result)
  PROVE  IInv'
<1>1. TypeOK'
  BY DEF IInv, TypeOK, RunReturns, SaveAt, storage, world, history, Status, Terminal
<1>2. LabelsSound'
  BY DEF LabelsSound, IInv, TypeOK, RunReturns, SaveAt, world, Handlers
<1>3. SavesSound'
  BY DEF SavesSound, LabelsSound, Unborn, OwnLife, Over, Locked, IInv, TypeOK, RunReturns, SaveAt,
         storage, Terminal, None
<1>4. CopiesSound'
  BY DEF CopiesSound, IInv, TypeOK, RunReturns, SaveAt, storage, history, Handlers, Copies, None
<1>5. Unborn'
  BY DEF Unborn, IInv, RunReturns, world
<1>6. OwnLife'
  BY DEF OwnLife, LabelsSound, CopiesSound, Locked, Carries, IInv, TypeOK, RunReturns, SaveAt,
         storage, world, history, Handlers, Status, Terminal, None
<1>7. Over'
  BY DEF Over, IInv, RunReturns, world
<1>8. NotReloaded'
  BY DEF NotReloaded, Locked, IInv, TypeOK, RunReturns, SaveAt, storage, world, history, Handlers
<1> QED BY <1>1, <1>2, <1>3, <1>4, <1>5, <1>6, <1>7, <1>8 DEF IInv

\* Nor does its failure.
LEMMA RunRaisesStep ==
  ASSUME IInv, RunRaises
  PROVE  IInv'
<1>1. TypeOK'
  BY DEF IInv, TypeOK, RunRaises, SaveAt, storage, world, history, Handlers, Copies, Status,
         Terminal
<1>2. LabelsSound'
  BY DEF LabelsSound, IInv, TypeOK, RunRaises, SaveAt, world
<1>3. SavesSound'
  BY DEF SavesSound, LabelsSound, Unborn, OwnLife, Over, Locked, IInv, TypeOK, RunRaises, SaveAt,
         storage, Terminal, None
<1>4. CopiesSound'
  BY DEF CopiesSound, IInv, RunRaises, SaveAt, storage, history, None
<1>5. Unborn'
  BY DEF Unborn, IInv, RunRaises, world
<1>6. OwnLife'
  BY DEF OwnLife, LabelsSound, CopiesSound, Locked, Carries, IInv, TypeOK, RunRaises, SaveAt,
         storage, world, history, Handlers, Status, Terminal, None
<1>7. Over'
  BY DEF Over, IInv, RunRaises, world
<1>8. NotReloaded'
  BY DEF NotReloaded, Locked, IInv, RunRaises, SaveAt, storage, world, history
<1> QED BY <1>1, <1>2, <1>3, <1>4, <1>5, <1>6, <1>7, <1>8 DEF IInv

\* The result is saved once more in the finally clause.
LEMMA RunStoredStep ==
  ASSUME IInv, RunStored
  PROVE  IInv'
<1>1. TypeOK'
  BY DEF IInv, TypeOK, RunStored, SaveAt, storage, world, history, Handlers
<1>2. LabelsSound'
  BY DEF LabelsSound, IInv, RunStored, SaveAt, world
<1>3. SavesSound'
  BY DEF SavesSound, Locked, IInv, RunStored, SaveAt, storage
<1>4. CopiesSound'
  BY DEF CopiesSound, IInv, RunStored, SaveAt, storage, history
<1>5. Unborn'
  BY DEF Unborn, IInv, RunStored, world
<1>6. OwnLife'
  BY DEF OwnLife, Locked, Carries, IInv, RunStored, SaveAt, storage, world, history
<1>7. Over'
  BY DEF Over, IInv, RunStored, world
<1>8. NotReloaded'
  BY DEF NotReloaded, Locked, IInv, RunStored, SaveAt, storage, world, history
<1> QED BY <1>1, <1>2, <1>3, <1>4, <1>5, <1>6, <1>7, <1>8 DEF IInv

\* The last save of the run is over.
LEMMA RunFinalStep ==
  ASSUME IInv, RunFinal
  PROVE  IInv'
<1>1. TypeOK'
  BY DEF IInv, TypeOK, RunFinal, GoAfterSave, storage, world, history
<1>2. LabelsSound'
  BY DEF LabelsSound, IInv, TypeOK, RunFinal, GoAfterSave, world, Handlers
<1>3. SavesSound'
  BY DEF SavesSound, Locked, IInv, TypeOK, RunFinal, GoAfterSave, storage
<1>4. CopiesSound'
  BY DEF CopiesSound, IInv, TypeOK, RunFinal, GoAfterSave, storage, history, Handlers
<1>5. Unborn'
  BY DEF Unborn, IInv, RunFinal, world
<1>6. OwnLife'
  BY DEF OwnLife, Locked, Carries, IInv, TypeOK, RunFinal, GoAfterSave, storage, world, history,
         Handlers
<1>7. Over'
  BY DEF Over, IInv, RunFinal, world
<1>8. NotReloaded'
  BY DEF NotReloaded, Locked, IInv, TypeOK, RunFinal, GoAfterSave, storage, world, history, Handlers
<1> QED BY <1>1, <1>2, <1>3, <1>4, <1>5, <1>6, <1>7, <1>8 DEF IInv

\* In the job's own process a request finds the one copy.
LEMMA LookupStep ==
  ASSUME IInv, NEW h \in {"cancel", "progress"}, Lookup(h)
  PROVE  IInv'
<1>1. TypeOK'
  BY DEF IInv, TypeOK, Lookup, storage, world, history, saving, Copies
<1>2. LabelsSound'
  BY DEF LabelsSound, IInv, TypeOK, Lookup, world, saving, Handlers
<1>3. SavesSound'
  BY DEF SavesSound, CopiesSound, Locked, IInv, TypeOK, Lookup, storage, saving
<1>4. CopiesSound'
  BY DEF CopiesSound, IInv, TypeOK, Lookup, storage, history, Handlers
<1>5. Unborn'
  BY DEF Unborn, IInv, Lookup, world
<1>6. OwnLife'
  BY DEF OwnLife, Locked, Carries, IInv, TypeOK, Lookup, storage, world, history, saving, Handlers,
         None
<1>7. Over'
  BY DEF Over, IInv, TypeOK, Lookup, storage, world, history, saving, Handlers
<1>8. NotReloaded'
  BY DEF NotReloaded, Locked, IInv, TypeOK, Lookup, storage, world, history, saving, Handlers
<1> QED BY <1>1, <1>2, <1>3, <1>4, <1>5, <1>6, <1>7, <1>8 DEF IInv

\* A request of a later process copies record.json.
LEMMA LoadStep ==
  ASSUME IInv, NEW h \in {"cancel", "progress"}, Load(h)
  PROVE  IInv'
<1>1. TypeOK'
  BY DEF IInv, TypeOK, Load, storage, world, history, saving, Handlers, Copies
<1>2. LabelsSound'
  BY DEF LabelsSound, IInv, Load, world, saving, Handlers
<1>3. SavesSound'
  BY DEF SavesSound, CopiesSound, Locked, IInv, TypeOK, Load, storage, saving, Copies
<1>4. CopiesSound'
  BY DEF CopiesSound, IInv, TypeOK, Load, storage, history, Copies
<1>5. Unborn'
  BY DEF Unborn, IInv, Load, world
<1>6. OwnLife'
  BY DEF OwnLife, IInv, Load, world
<1>7. Over'
  BY DEF Over, CopiesSound, IInv, Load, storage, world, history, saving
<1>8. NotReloaded'
  BY DEF NotReloaded, Locked, IInv, Load, storage, world, history, saving
<1> QED BY <1>1, <1>2, <1>3, <1>4, <1>5, <1>6, <1>7, <1>8 DEF IInv

\* A failed load changes nothing.
LEMMA LoadFailsStep ==
  ASSUME IInv, NEW h \in {"cancel", "progress"}, LoadFails(h)
  PROVE  IInv'
<1>1. TypeOK'
  BY BoundsAssumption DEF IInv, TypeOK, LoadFails, Fail, storage, world, saving, Handlers
<1>2. LabelsSound'
  BY DEF LabelsSound, IInv, LoadFails, world, saving
<1>3. SavesSound'
  BY DEF SavesSound, Locked, IInv, LoadFails, storage, saving
<1>4. CopiesSound'
  BY DEF CopiesSound, IInv, LoadFails, Fail, storage
<1>5. Unborn'
  BY DEF Unborn, IInv, LoadFails, world
<1>6. OwnLife'
  BY DEF OwnLife, IInv, LoadFails, world
<1>7. Over'
  BY DEF Over, IInv, LoadFails, Fail, storage, world, saving
<1>8. NotReloaded'
  BY DEF NotReloaded, Locked, IInv, LoadFails, Fail, storage, world, saving
<1> QED BY <1>1, <1>2, <1>3, <1>4, <1>5, <1>6, <1>7, <1>8 DEF IInv

\* The copy enters `jobs`: the job counts as reloaded.
LEMMA FileCopyStep ==
  ASSUME IInv, NEW h \in {"cancel", "progress"}, FileCopy(h)
  PROVE  IInv'
<1>1. TypeOK'
  BY DEF IInv, TypeOK, FileCopy, storage, world, saving, Handlers
<1>2. LabelsSound'
  BY DEF LabelsSound, IInv, FileCopy, world, saving, Handlers
<1>3. SavesSound'
  BY DEF SavesSound, Locked, IInv, FileCopy, storage, saving
<1>4. CopiesSound'
  BY DEF CopiesSound, IInv, FileCopy, storage
<1>5. Unborn'
  BY DEF Unborn, IInv, FileCopy, world
<1>6. OwnLife'
  BY DEF OwnLife, IInv, FileCopy, world
<1>7. Over'
  BY DEF Over, IInv, FileCopy, storage, world, saving
<1>8. NotReloaded'
  BY DEF NotReloaded, FileCopy
<1> QED BY <1>1, <1>2, <1>3, <1>4, <1>5, <1>6, <1>7, <1>8 DEF IInv

\* A cancellation marks a job that has not ended.
LEMMA CancelMarkStep ==
  ASSUME IInv, CancelMark
  PROVE  IInv'
<1>1. TypeOK'
  BY DEF IInv, TypeOK, CancelMark, SaveAt, storage, world, history, Status, Terminal
<1>2. LabelsSound'
  BY DEF LabelsSound, IInv, TypeOK, CancelMark, SaveAt, world, Handlers
<1>3. SavesSound'
  BY DEF SavesSound, LabelsSound, Locked, IInv, TypeOK, CancelMark, SaveAt, storage, None
<1>4. CopiesSound'
  BY DEF CopiesSound, IInv, TypeOK, CancelMark, SaveAt, storage, history, Handlers, Copies, None
<1>5. Unborn'
  BY DEF Unborn, IInv, CancelMark, world
<1>6. OwnLife'
  BY DEF OwnLife, LabelsSound, CopiesSound, Locked, Carries, IInv, TypeOK, CancelMark, SaveAt,
         storage, world, history, Handlers, Status, Terminal
<1>7. Over'
  BY DEF Over, CopiesSound, IInv, TypeOK, CancelMark, SaveAt, storage, world, history, Handlers,
         Copies, Terminal
<1>8. NotReloaded'
  BY DEF NotReloaded, IInv, CancelMark, world, history
<1> QED BY <1>1, <1>2, <1>3, <1>4, <1>5, <1>6, <1>7, <1>8 DEF IInv

\* A cancellation is confirmed after its own save has written it.
LEMMA CancelSavedStep ==
  ASSUME IInv, CancelSaved
  PROVE  IInv'
<1>1. TypeOK'
  <2>1. cancelSent' \in BOOLEAN /\ cancelAcked' \in BOOLEAN
    BY BoundsAssumption
       DEF IInv, TypeOK, CancelSaved, GoAfterSave, storage, world, history, saving, Handlers,
           Copies, Status, Active, Terminal, None
  <2> QED
    BY <2>1 DEF IInv, TypeOK, CancelSaved, GoAfterSave, storage, world, history, saving, Handlers
<1>2. LabelsSound'
  BY DEF LabelsSound, IInv, TypeOK, CancelSaved, GoAfterSave, world
<1>3. SavesSound'
  BY DEF SavesSound, Locked, IInv, CancelSaved, GoAfterSave, storage
<1>4. CopiesSound'
  BY DEF CopiesSound, LabelsSound, OwnLife, IInv, TypeOK, CancelSaved, GoAfterSave, storage,
         Handlers
<1>5. Unborn'
  BY DEF Unborn, IInv, CancelSaved, world
<1>6. OwnLife'
  BY DEF OwnLife, Locked, IInv, CancelSaved, GoAfterSave, storage, world, Handlers
<1>7. Over'
  BY DEF Over, LabelsSound, IInv, TypeOK, CancelSaved, GoAfterSave, storage, world, Handlers
<1>8. NotReloaded'
  BY DEF NotReloaded, IInv, CancelSaved, world
<1> QED BY <1>1, <1>2, <1>3, <1>4, <1>5, <1>6, <1>7, <1>8 DEF IInv

\* A progress request saves the copy it has.
LEMMA ProgressChangedStep ==
  ASSUME IInv, ProgressChanged
  PROVE  IInv'
<1>1. TypeOK'
  BY DEF IInv, TypeOK, ProgressChanged, SaveAt, storage, world, history, Handlers
<1>2. LabelsSound'
  BY DEF LabelsSound, IInv, TypeOK, ProgressChanged, SaveAt, world
<1>3. SavesSound'
  BY DEF SavesSound, LabelsSound, CopiesSound, Locked, IInv, ProgressChanged, SaveAt, storage
<1>4. CopiesSound'
  BY DEF CopiesSound, IInv, ProgressChanged, SaveAt, storage, history
<1>5. Unborn'
  BY DEF Unborn, IInv, ProgressChanged, world
<1>6. OwnLife'
  BY DEF OwnLife, LabelsSound, Locked, Carries, IInv, ProgressChanged, SaveAt, storage, world,
         history
<1>7. Over'
  BY DEF Over, IInv, ProgressChanged, SaveAt, storage, world, history
<1>8. NotReloaded'
  BY DEF NotReloaded, IInv, ProgressChanged, world, history
<1> QED BY <1>1, <1>2, <1>3, <1>4, <1>5, <1>6, <1>7, <1>8 DEF IInv

\* And answers.
LEMMA ProgressReturnsStep ==
  ASSUME IInv, ProgressReturns
  PROVE  IInv'
<1>1. TypeOK'
  BY DEF IInv, TypeOK, ProgressReturns, GoAfterSave, storage, world, history, Handlers
<1>2. LabelsSound'
  BY DEF LabelsSound, IInv, TypeOK, ProgressReturns, GoAfterSave, world
<1>3. SavesSound'
  BY DEF SavesSound, LabelsSound, Locked, IInv, ProgressReturns, GoAfterSave, storage
<1>4. CopiesSound'
  BY DEF CopiesSound, IInv, ProgressReturns, GoAfterSave, storage, history
<1>5. Unborn'
  BY DEF Unborn, IInv, ProgressReturns, world
<1>6. OwnLife'
  BY DEF OwnLife, LabelsSound, Locked, Carries, IInv, ProgressReturns, GoAfterSave, storage, world,
         history
<1>7. Over'
  BY DEF Over, IInv, ProgressReturns, GoAfterSave, storage, world, history
<1>8. NotReloaded'
  BY DEF NotReloaded, IInv, ProgressReturns, world, history
<1> QED BY <1>1, <1>2, <1>3, <1>4, <1>5, <1>6, <1>7, <1>8 DEF IInv

\* A new process starts with nothing in memory and does not own the job.
LEMMA BootStep ==
  ASSUME IInv, Boot
  PROVE  IInv'
<1>1. TypeOK'
  <2>1. life' \in 0 .. MaxLives /\ born' \in 0 .. life'
    BY BoundsAssumption DEF IInv, TypeOK, Boot
  <2>2. attempts' \in 0 .. RecoveryAttempts
    BY BoundsAssumption DEF Boot
  <2>3. pc' \in [Handlers -> {"idle", "save", "start", "mark", "skip", "execute", "result", "final",
                          "ended", "lost", "load", "file", "got", "list", "check", "done",
                          "gaveUp", "stop", "exit"}]
    BY DEF IInv, TypeOK, Boot, Handlers
  <2> QED
    BY <2>1, <2>2, <2>3, BoundsAssumption
       DEF IInv, TypeOK, Boot, storage, world, history, saving, Handlers, Copies, Status, Active,
           Terminal, None
<1>2. LabelsSound'
  BY BoundsAssumption DEF LabelsSound, IInv, TypeOK, Boot, saving
<1>3. SavesSound'
  BY DEF SavesSound, Locked, IInv, Boot, storage, saving
<1>4. CopiesSound'
  BY DEF CopiesSound, IInv, Boot, storage
<1>5. Unborn'
  BY DEF Unborn, IInv, Boot, storage
<1>6. OwnLife'
  BY DEF OwnLife, IInv, TypeOK, Boot
<1>7. Over'
  BY DEF Over, IInv, Boot, storage, saving
<1>8. NotReloaded'
  BY DEF NotReloaded, IInv, TypeOK, Boot, storage, Handlers
<1> QED BY <1>1, <1>2, <1>3, <1>4, <1>5, <1>6, <1>7, <1>8 DEF IInv

\* A pass that finds an ended index entry has nothing to do: the record ended alike.
LEMMA RecoverListStep ==
  ASSUME IInv, RecoverList
  PROVE  IInv'
<1>1. TypeOK'
  BY DEF IInv, TypeOK, RecoverList, PassCompletes, GoAfterSave, storage, world, history
<1>2. LabelsSound'
  BY DEF LabelsSound, IInv, TypeOK, RecoverList, PassCompletes, GoAfterSave, world, Handlers
<1>3. SavesSound'
  BY DEF SavesSound, LabelsSound, Locked, IInv, TypeOK, RecoverList, PassCompletes, GoAfterSave,
         storage
<1>4. CopiesSound'
  BY DEF CopiesSound, IInv, TypeOK, RecoverList, PassCompletes, GoAfterSave, storage, history,
         Handlers
<1>5. Unborn'
  BY DEF Unborn, IInv, TypeOK, RecoverList, PassCompletes, GoAfterSave, storage, world, history,
         Handlers, Active, None
<1>6. OwnLife'
  BY DEF OwnLife, LabelsSound, Locked, Carries, IInv, TypeOK, RecoverList, PassCompletes,
         GoAfterSave, storage, world, history, Handlers
<1>7. Over'
  BY DEF Over, IInv, TypeOK, RecoverList, PassCompletes, GoAfterSave, storage, world, history,
         Handlers
<1>8. NotReloaded'
  BY DEF NotReloaded, CopiesSound, IInv, TypeOK, RecoverList, PassCompletes, GoAfterSave, storage,
         world, history, Handlers, Status
<1> QED BY <1>1, <1>2, <1>3, <1>4, <1>5, <1>6, <1>7, <1>8 DEF IInv

\* The pass leaves a job in memory alone.
LEMMA RecoverCheckStep ==
  ASSUME IInv, RecoverCheck
  PROVE  IInv'
<1>1. TypeOK'
  BY DEF IInv, TypeOK, RecoverCheck, PassCompletes, GoAfterSave, storage, world, history
<1>2. LabelsSound'
  BY DEF LabelsSound, IInv, TypeOK, RecoverCheck, PassCompletes, GoAfterSave, world, Handlers
<1>3. SavesSound'
  BY DEF SavesSound, LabelsSound, Locked, IInv, TypeOK, RecoverCheck, PassCompletes, GoAfterSave,
         storage
<1>4. CopiesSound'
  BY DEF CopiesSound, IInv, TypeOK, RecoverCheck, PassCompletes, GoAfterSave, storage, history,
         Handlers
<1>5. Unborn'
  BY DEF Unborn, IInv, RecoverCheck, PassCompletes, world
<1>6. OwnLife'
  BY DEF OwnLife, LabelsSound, Locked, Carries, IInv, TypeOK, RecoverCheck, PassCompletes,
         GoAfterSave, storage, world, history, Handlers
<1>7. Over'
  BY DEF Over, IInv, TypeOK, RecoverCheck, PassCompletes, GoAfterSave, storage, world, history,
         Handlers
<1>8. NotReloaded'
  BY DEF NotReloaded, IInv, TypeOK, RecoverCheck, PassCompletes, storage, world, history, Handlers
<1> QED BY <1>1, <1>2, <1>3, <1>4, <1>5, <1>6, <1>7, <1>8 DEF IInv

\* The pass keeps an ended status and fails an active one.
LEMMA RecoverLoadStep ==
  ASSUME IInv, RecoverLoad
  PROVE  IInv'
<1>1. TypeOK'
  BY DEF IInv, TypeOK, RecoverLoad, PassCompletes, GoAfterSave, SaveAt, storage, world, history,
         Copies, Status, Terminal
<1>2. LabelsSound'
  BY DEF LabelsSound, IInv, TypeOK, RecoverLoad, PassCompletes, GoAfterSave, SaveAt, world, Handlers
<1>3. SavesSound'
  BY DEF SavesSound, LabelsSound, Locked, IInv, TypeOK, RecoverLoad, PassCompletes, GoAfterSave,
         SaveAt, storage, Copies, None
<1>4. CopiesSound'
  BY DEF CopiesSound, IInv, TypeOK, RecoverLoad, PassCompletes, GoAfterSave, SaveAt, storage,
         history, Handlers, Copies, None
<1>5. Unborn'
  BY DEF Unborn, IInv, RecoverLoad, PassCompletes, world
<1>6. OwnLife'
  BY DEF OwnLife, LabelsSound, Locked, Carries, IInv, TypeOK, RecoverLoad, PassCompletes,
         GoAfterSave, storage, world, history, Handlers
<1>7. Over'
  BY DEF Over, CopiesSound, IInv, TypeOK, RecoverLoad, PassCompletes, GoAfterSave, SaveAt, storage,
         world, history, Handlers, Copies, Active
<1>8. NotReloaded'
  BY DEF NotReloaded, LabelsSound, CopiesSound, Locked, IInv, TypeOK, RecoverLoad, PassCompletes,
         GoAfterSave, SaveAt, storage, world, history, Handlers, Copies, Status, Active, Terminal
<1> QED BY <1>1, <1>2, <1>3, <1>4, <1>5, <1>6, <1>7, <1>8 DEF IInv

\* A saved pass leaves an ended record and index.
LEMMA RecoverSavedStep ==
  ASSUME IInv, RecoverSaved
  PROVE  IInv'
<1>1. TypeOK'
  BY BoundsAssumption
     DEF LabelsSound, IInv, TypeOK, RecoverSaved, PassCompletes, PassFails, GoAfterSave, storage,
         history
<1>2. LabelsSound'
  BY DEF LabelsSound, IInv, TypeOK, RecoverSaved, PassCompletes, PassFails, GoAfterSave, Handlers
<1>3. SavesSound'
  BY DEF SavesSound, Locked, IInv, TypeOK, RecoverSaved, PassCompletes, PassFails, GoAfterSave,
         storage
<1>4. CopiesSound'
  BY DEF CopiesSound, IInv, TypeOK, RecoverSaved, PassCompletes, PassFails, GoAfterSave, storage,
         history, Handlers
<1>5. Unborn'
  BY DEF Unborn, IInv, RecoverSaved, PassCompletes, PassFails
<1>6. OwnLife'
  BY DEF OwnLife, IInv, RecoverSaved, PassCompletes, PassFails
<1>7. Over'
  BY DEF Over, IInv, TypeOK, RecoverSaved, PassCompletes, PassFails, GoAfterSave, storage, history,
         Handlers
<1>8. NotReloaded'
  BY DEF NotReloaded, IInv, TypeOK, RecoverSaved, PassCompletes, PassFails, GoAfterSave, storage,
         history, Handlers
<1> QED BY <1>1, <1>2, <1>3, <1>4, <1>5, <1>6, <1>7, <1>8 DEF IInv

\* A failed pass is counted.
LEMMA RecoverFailsStep ==
  ASSUME IInv, RecoverFails
  PROVE  IInv'
<1>1. TypeOK'
  BY BoundsAssumption
     DEF LabelsSound, IInv, TypeOK, RecoverFails, Fail, PassFails, GoAfterSave, storage, Handlers
<1>2. LabelsSound'
  BY DEF LabelsSound, IInv, TypeOK, RecoverFails, PassFails, GoAfterSave, Handlers
<1>3. SavesSound'
  BY DEF SavesSound, LabelsSound, Locked, IInv, RecoverFails, PassFails, GoAfterSave, storage
<1>4. CopiesSound'
  BY DEF CopiesSound, IInv, RecoverFails, Fail, PassFails, GoAfterSave, storage
<1>5. Unborn'
  BY DEF Unborn, IInv, RecoverFails, Fail, PassFails, GoAfterSave, storage
<1>6. OwnLife'
  BY DEF OwnLife, Locked, IInv, RecoverFails, Fail, PassFails, GoAfterSave, storage
<1>7. Over'
  BY DEF Over, IInv, RecoverFails, Fail, PassFails, GoAfterSave, storage
<1>8. NotReloaded'
  BY DEF NotReloaded, IInv, RecoverFails, Fail, PassFails, GoAfterSave, storage
<1> QED BY <1>1, <1>2, <1>3, <1>4, <1>5, <1>6, <1>7, <1>8 DEF IInv

\* Shutdown fails an active job in memory.
LEMMA CloseStep ==
  ASSUME IInv, Close
  PROVE  IInv'
<1>1. TypeOK'
  BY DEF IInv, TypeOK, Close, SaveAt, storage, history, Copies, Status, Terminal
<1>2. LabelsSound'
  BY DEF LabelsSound, IInv, TypeOK, Close, SaveAt, Handlers
<1>3. SavesSound'
  BY DEF SavesSound, LabelsSound, Locked, IInv, TypeOK, Close, SaveAt, storage, Active, None
<1>4. CopiesSound'
  BY DEF CopiesSound, IInv, TypeOK, Close, SaveAt, storage, history, Handlers, None
<1>5. Unborn'
  BY DEF Unborn, IInv, TypeOK, Close, storage, history, Handlers
<1>6. OwnLife'
  BY DEF OwnLife, LabelsSound, Locked, Carries, IInv, TypeOK, Close, SaveAt, storage, history,
         Handlers, Terminal
<1>7. Over'
  BY DEF Over, IInv, TypeOK, Close, SaveAt, storage, history, Handlers, Copies, Active, None
<1>8. NotReloaded'
  BY DEF NotReloaded, Locked, IInv, TypeOK, Close, storage, history, Handlers
<1> QED BY <1>1, <1>2, <1>3, <1>4, <1>5, <1>6, <1>7, <1>8 DEF IInv

\* Its save is over.
LEMMA CloseSavedStep ==
  ASSUME IInv, CloseSaved
  PROVE  IInv'
<1>1. TypeOK'
  BY DEF IInv, TypeOK, CloseSaved, GoAfterSave, storage, world, history, Handlers
<1>2. LabelsSound'
  BY DEF LabelsSound, IInv, TypeOK, CloseSaved, GoAfterSave, world
<1>3. SavesSound'
  BY DEF SavesSound, Locked, IInv, CloseSaved, GoAfterSave, storage
<1>4. CopiesSound'
  BY DEF CopiesSound, IInv, CloseSaved, GoAfterSave, storage, history
<1>5. Unborn'
  BY DEF Unborn, IInv, CloseSaved, world
<1>6. OwnLife'
  BY DEF OwnLife, Locked, Carries, IInv, CloseSaved, GoAfterSave, storage, world, history
<1>7. Over'
  BY DEF Over, IInv, CloseSaved, GoAfterSave, storage, world, history
<1>8. NotReloaded'
  BY DEF NotReloaded, IInv, CloseSaved, world, history
<1> QED BY <1>1, <1>2, <1>3, <1>4, <1>5, <1>6, <1>7, <1>8 DEF IInv

\* A cancelled run passes through its finally clause.
LEMMA StopTasksStep ==
  ASSUME IInv, StopTasks
  PROVE  IInv'
<1>1. TypeOK'
  BY DEF IInv, TypeOK, StopTasks, storage, world, history, Handlers
<1>2. LabelsSound'
  BY DEF LabelsSound, IInv, TypeOK, StopTasks, world, Handlers
<1>3. SavesSound'
  BY DEF SavesSound, CopiesSound, Unborn, OwnLife, Over, Locked, IInv, TypeOK, StopTasks, Writing,
         storage, None
<1>4. CopiesSound'
  BY DEF CopiesSound, IInv, TypeOK, StopTasks, storage, history, Handlers
<1>5. Unborn'
  BY DEF Unborn, IInv, TypeOK, StopTasks, storage, world, history, Handlers
<1>6. OwnLife'
  BY DEF OwnLife, Locked, Carries, IInv, TypeOK, StopTasks, Writing, storage, world, history,
         Handlers
<1>7. Over'
  BY DEF Over, IInv, TypeOK, StopTasks, storage, world, history, Handlers
<1>8. NotReloaded'
  BY DEF NotReloaded, IInv, TypeOK, StopTasks, storage, world, history, Handlers
<1> QED BY <1>1, <1>2, <1>3, <1>4, <1>5, <1>6, <1>7, <1>8 DEF IInv

\* What a process loses when it ends leaves the archive to the next one.
LEMMA ExitStep ==
  ASSUME IInv, Exit
  PROVE  IInv'
<1>1. TypeOK'
  BY BoundsAssumption
     DEF LabelsSound, SavesSound, IInv, TypeOK, Exit, Lose, storage, world, history, saving,
         Handlers, Copies, Status, Active, Terminal, None
<1>2. LabelsSound'
  BY DEF LabelsSound, Exit, Lose, Handlers
<1>3. SavesSound'
  BY DEF SavesSound, Locked, Exit, Lose
<1>4. CopiesSound'
  BY DEF CopiesSound, IInv, Exit, Lose, storage, history, Handlers
<1>5. Unborn'
  BY DEF Unborn, IInv, Exit, Lose, storage, history, Handlers
<1>6. OwnLife'
  BY DEF OwnLife, Exit, Lose
<1>7. Over'
  BY DEF Over, Exit, Lose, Handlers, Copies, None
<1>8. NotReloaded'
  BY DEF NotReloaded, OwnLife, IInv, TypeOK, Exit, Lose, storage, history, Handlers
<1> QED BY <1>1, <1>2, <1>3, <1>4, <1>5, <1>6, <1>7, <1>8 DEF IInv

\* The same when it dies between two steps.
LEMMA CrashStep ==
  ASSUME IInv, Crash
  PROVE  IInv'
<1>1. TypeOK'
  BY BoundsAssumption
     DEF LabelsSound, SavesSound, IInv, TypeOK, Crash, Lose, storage, world, history, saving,
         Handlers, Copies, Status, Active, Terminal, None
<1>2. LabelsSound'
  BY DEF LabelsSound, Crash, Lose, Handlers
<1>3. SavesSound'
  BY DEF SavesSound, Locked, Crash, Lose
<1>4. CopiesSound'
  BY DEF CopiesSound, IInv, Crash, Lose, storage, history, Handlers
<1>5. Unborn'
  BY DEF Unborn, IInv, Crash, Lose, storage, history, Handlers
<1>6. OwnLife'
  BY DEF OwnLife, Crash, Lose
<1>7. Over'
  BY DEF Over, Crash, Lose, Handlers, Copies, None
<1>8. NotReloaded'
  BY DEF NotReloaded, OwnLife, IInv, TypeOK, Crash, Lose, storage, history, Handlers
<1> QED BY <1>1, <1>2, <1>3, <1>4, <1>5, <1>6, <1>7, <1>8 DEF IInv

\* Steps that change nothing keep the invariant.
LEMMA StutterStep ==
  ASSUME IInv, UNCHANGED vars
  PROVE  IInv'
  BY DEF IInv, TypeOK, LabelsSound, SavesSound, CopiesSound, Unborn, OwnLife, Over, NotReloaded,
         Locked, Carries, vars

\* Every step keeps the invariant.
LEMMA NextInv == IInv /\ [Next]_vars => IInv'
<1> SUFFICES ASSUME IInv, [Next]_vars PROVE IInv'
  OBVIOUS
<1>1. CASE UNCHANGED vars
  BY <1>1, StutterStep
<1>2. CASE \E h \in Handlers : SaveBegin(h) \/ SaveStep(h) \/ SaveFails(h)
  BY <1>2, SaveBeginStep, SaveRecordStep, SaveIndexStep, SaveFailsStep DEF SaveStep
<1>3. CASE SubmitJob \/ SubmitReturns \/ SubmitRaises
  BY <1>3, SubmitJobStep, SubmitReturnsStep, SubmitRaisesStep
<1>4. CASE RunStep
  BY <1>4, RunStartStep, RunMarkedStep, RunReturnsStep, RunRaisesStep, RunStoredStep, RunFinalStep
     DEF RunStep
<1>5. CASE \E h \in {"cancel", "progress"} : Lookup(h) \/ Load(h) \/ LoadFails(h) \/ FileCopy(h)
  BY <1>5, LookupStep, LoadStep, LoadFailsStep, FileCopyStep
<1>6. CASE CancelMark \/ CancelSaved \/ ProgressChanged \/ ProgressReturns
  BY <1>6, CancelMarkStep, CancelSavedStep, ProgressChangedStep, ProgressReturnsStep
<1>7. CASE Boot \/ RecoverStep \/ RecoverFails
  BY <1>7, BootStep, RecoverListStep, RecoverCheckStep, RecoverLoadStep, RecoverSavedStep,
     RecoverFailsStep
     DEF RecoverStep
<1>8. CASE Close \/ CloseSaved \/ StopTasks \/ Exit \/ Crash
  BY <1>8, CloseStep, CloseSavedStep, StopTasksStep, ExitStep, CrashStep
<1> QED BY <1>1, <1>2, <1>3, <1>4, <1>5, <1>6, <1>7, <1>8 DEF Next

\* The invariant holds throughout.
LEMMA InvHolds == Spec => []IInv
  BY InitInv, NextInv, PTL DEF Spec

-----------------------------------------------------------------------------
(* The results.                                                             *)

\* In every number of lives, with every number of archive failures: a confirmed
\* cancellation stays, memory and archive agree between saves, and a completed
\* recovery leaves the job ended in record and index (cancel_job, _run_job,
\* recover_in_flight_jobs, JobStorage.save).
THEOREM RecordsStayInAgreement == Spec => []RecordsAgree
<1>1. IInv => RecordsAgree
  <2> SUFFICES ASSUME IInv PROVE RecordsAgree
    OBVIOUS
  <2>1. ConfirmedCancelStays
    BY DEF IInv, CopiesSound, ConfirmedCancelStays
  <2>2. StorageSettled
    <3> SUFFICES ASSUME phase # "down", born = life, ~ troubled, \A h \in Handlers : save[h] = "no"
                 PROVE  rec = mem["own"] /\ idx = rec
      BY DEF StorageSettled
    <3>1. born > 0
      BY DEF IInv, LabelsSound
    <3>2. \A h \in Handlers : ~ Carries(h) /\ save[h] # "index"
      BY DEF Carries
    <3> QED
      BY <3>1, <3>2 DEF IInv, OwnLife
  <2>3. RecoveryComplete
    <3> SUFFICES ASSUME pc["recover"] = "done", acked, born < life, ~ reloaded
                 PROVE  rec \in Terminal /\ idx = rec
      BY DEF RecoveryComplete
    <3>1. born > 0
      BY DEF IInv, Unborn, TypeOK
    <3> QED
      BY <3>1 DEF IInv, NotReloaded
  <2> QED
    BY <2>1, <2>2, <2>3 DEF IInv, RecordsAgree
<1> QED BY InvHolds, <1>1, PTL

\* Only a save changes record.json, and the snapshot of a save that runs while the
\* record says completed says completed too.
LEMMA CompletedStep == IInv /\ [Next]_vars => (rec = "completed" => rec' = "completed")
<1> SUFFICES ASSUME IInv, [Next]_vars, rec = "completed" PROVE rec' = "completed"
  OBVIOUS
<1>1. ASSUME NEW h \in Handlers, Locked(h) PROVE snap[h] = "completed"
  <2>1. snap[h] # None /\ born > 0
    BY <1>1 DEF IInv, SavesSound, Unborn, TypeOK, None
  <2>2. CASE born = life /\ phase # "down"
    BY <1>1, <2>1, <2>2 DEF IInv, OwnLife, Terminal
  <2>3. CASE born < life \/ phase = "down"
    BY <2>1, <2>3 DEF IInv, Over
  <2> QED BY <2>2, <2>3 DEF IInv, TypeOK
<1>2. CASE \E h \in Handlers : SaveRecord(h) \/ SaveFails(h)
  BY <1>1, <1>2 DEF SaveRecord, SaveFails, Locked
<1>3. CASE \E h \in Handlers : SaveBegin(h) \/ SaveIndex(h)
  BY <1>3 DEF SaveBegin, SaveIndex, storage
<1>4. CASE SubmitJob \/ SubmitReturns \/ SubmitRaises \/ RunStep
  BY <1>4
     DEF SubmitJob, SubmitReturns, SubmitRaises, RunStep, RunStart, RunMarked, RunStored, RunFinal,
         RunRaises, RunReturns, storage
<1>5. CASE \E h \in {"cancel", "progress"} : Lookup(h) \/ Load(h) \/ LoadFails(h) \/ FileCopy(h)
  BY <1>5 DEF Lookup, Load, LoadFails, FileCopy, storage
<1>6. CASE CancelMark \/ CancelSaved \/ ProgressChanged \/ ProgressReturns
  BY <1>6 DEF CancelMark, CancelSaved, ProgressChanged, ProgressReturns, storage
<1>7. CASE Boot \/ RecoverStep \/ RecoverFails
  BY <1>7
     DEF Boot, RecoverStep, RecoverList, RecoverCheck, RecoverLoad, RecoverSaved, RecoverFails,
         storage
<1>8. CASE Close \/ CloseSaved \/ StopTasks \/ Exit \/ Crash
  BY <1>8 DEF Close, CloseSaved, StopTasks, Exit, Crash, Lose, storage
<1>9. CASE UNCHANGED vars
  BY <1>9 DEF vars
<1> QED BY <1>2, <1>3, <1>4, <1>5, <1>6, <1>7, <1>8, <1>9 DEF Next, SaveStep

\* "a completed job is never reported failed": for every number of restarts, late
\* saves and recoveries from a lagging index.
THEOREM CompletedIsFinal == Spec => CompletedStays
<1>1. IInv /\ [Next]_vars => [rec = "completed" => rec' = "completed"]_vars
  BY CompletedStep
<1> QED BY <1>1, InvHolds, PTL DEF Spec, CompletedStays

=============================================================================
