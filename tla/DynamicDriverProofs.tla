------------------------ MODULE DynamicDriverProofs ------------------------
(***************************************************************************)
(* Proofs about a dynamic job: RoundsInOrder, CancelHolds and RunSettled   *)
(* hold for every number of rounds and of failing saves.                   *)
(*                                                                         *)
(* The driver's label says how far the current round is; every earlier     *)
(* round has completed.  The cancel handler works on a parent that has     *)
(* ended, so no child is filed behind its back.  For the archive, whoever  *)
(* changes a status has the duty to save it, and a save that copied an     *)
(* older status leaves that duty with somebody who still waits for the     *)
(* lock.                                                                   *)
(***************************************************************************)
EXTENDS DynamicDriver, TLAPS

Writes(w) == save[w].st = "write"

\* Where the tasks can stand, and that each has a save exactly where it calls one.
LabelsSound ==
  /\ pc["driver"] \in {"start", "round", "submit", "saveParent", "dispatch", "wait", "cancelled",
                       "judge", "plan", "advance", "finish", "fail", "giveUp", "hooks", "emit", "ended"}
  /\ pc["task"] \in {"none", "start", "mark", "skip", "execute", "result", "finally", "final",
                     "ended", "raised"}
  /\ pc["cancel"] \in {"idle", "saved", "visit", "child"}
  /\ pc["abort"] \in {"idle", "saved"}
  /\ ~ Idle("task") <=> pc["task"] \in {"mark", "skip", "result", "final"}
  /\ ~ Idle("task") => save["task"].job = round
  /\ pc["cancel"] = "idle" => Idle("cancel")
  /\ pc["cancel"] = "saved" => ~ Idle("cancel") /\ save["cancel"].job = Parent
  /\ pc["abort"] = "idle" <=> Idle("abort")
  /\ pc["driver"] \in {"submit", "judge", "plan", "finish", "giveUp", "wait", "cancelled", "ended"}
       => Idle("driver")
  /\ save["ghost"].st \in {"no", "wait", "write"}

\* How far the driver is.  Rounds before the current one have completed; the child of
\* the current one is filed from Submit on.
RoundsSound ==
  /\ pc["driver"] \in {"submit", "saveParent", "dispatch", "wait", "cancelled", "judge", "plan"}
       => round < MaxRounds
  /\ \A k \in kids : k <= round
  /\ pc["driver"] \in {"start", "round", "submit", "advance"} => \A k \in kids : k < round
  /\ pc["driver"] \in {"saveParent", "dispatch", "wait", "cancelled", "judge"} => round \in kids
  /\ \A k \in kids : k < round \/ pc["driver"] \in {"plan", "finish"} => mem[k] = "completed"
  /\ mem[Parent] = "completed" => /\ pc["driver"] \in {"hooks", "emit", "ended"}
                                  /\ \A k \in kids : mem[k] = "completed"

\* The task of the child runs only while the driver waits for it, and a task that ended
\* by itself left an ended child.
TaskSound ==
  /\ pc["driver"] \notin {"wait", "cancelled"} => pc["task"] \in {"none", "ended", "raised"}
  /\ pc["driver"] = "wait" => pc["task"] # "none"
  /\ pc["driver"] = "cancelled" => pc["task"] \in {"final", "ended", "raised"}
  /\ pc["driver"] = "wait" /\ pc["task"] \in {"skip", "result", "finally", "final", "ended"} => Ended(round)
  /\ pc["task"] = "raised" => failures > 0
  /\ \A w \in Writers : Raised(w) => failures > 0

\* Jobs that exist have a status; the others have none, anywhere.
JobsSound ==
  /\ mem[Parent] # None
  /\ \A k \in Rounds : IF k \in kids THEN mem[k] # None ELSE mem[k] = None /\ rec[k] = None
  /\ \A w \in Writers : ~ Idle(w) => save[w].job \in kids \cup {Parent}

\* The end of the parent and of its children.
EndsSound ==
  /\ pc["driver"] \in {"hooks", "emit", "ended"} => Ended(Parent)
  /\ pc["driver"] # "ended" => emitted = 0
  /\ pc["driver"] = "ended" /\ failures = 0 => emitted = 1
  /\ pc["driver"] = "judge" => Ended(round)
  /\ pc["driver"] \notin {"saveParent", "dispatch", "wait", "cancelled"}
       => \A k \in kids \ lost : Ended(k)

\* A running save has a copy and the lock of its job.  Only the hooks save a copy older
\* than the lock, of an ended parent.  Ended copies of the parent are what it ended as,
\* and once one is written no other copy is.
SnapsSound ==
  /\ \A v, w \in Writers : Writes(v) /\ Writes(w) /\ save[v].job = save[w].job => v = w
  /\ \A w \in Writers :
       /\ Writes(w) => save[w].snap # None
       /\ save[w].st = "wait" /\ save[w].snap # None
            => w = "driver" /\ save[w].job = Parent /\ save[w].snap \in Terminal
       /\ save[w].st \in {"wait", "write"} /\ save[w].job = Parent /\ save[w].snap \in Terminal
            => save[w].snap = mem[Parent]
       /\ Writes(w) /\ save[w].job = Parent /\ rec[Parent] \in Terminal => save[w].snap \in Terminal
  /\ rec[Parent] \in Terminal => rec[Parent] = mem[Parent]

\* The cancellation of the parent.
CancelSound ==
  /\ pc["cancel"] # "idle" \/ acked => mem[Parent] = "cancelled"
  /\ pc["cancel"] \in {"visit", "child"} \/ acked => rec[Parent] = "cancelled"
  /\ pc["cancel"] = "saved" =>
       /\ save["cancel"].st \in {"write"} => save["cancel"].snap = "cancelled"
       /\ Done("cancel") => rec[Parent] = "cancelled"
  /\ pc["cancel"] \in {"visit", "child"} => \A k \in kids \ todo : Ended(k)
  /\ pc["cancel"] = "child" => /\ ~ Idle("cancel")
                               /\ \A k \in todo : IsFirst(k) => mem[k] \in {"cancelled", "failed"}
  /\ acked => \A k \in kids : Ended(k)

\* Somebody has still to save the present status of job j.
Covers(w, j) ==
  /\ save[w].job = j
  /\ \/ save[w].st = "wait" /\ save[w].snap \in {None, mem[j]}
     \/ save[w].st = "write" /\ save[w].snap = mem[j]
Duty(j) ==
  \/ \E w \in Writers : Covers(w, j)
  \/ j = round /\ (pc["task"] = "finally" \/ pc["driver"] = "cancelled")

\* As long as no save raised: the archive agrees with memory or somebody has the duty
\* to save; and he has it while an older copy is being written.
SavesSound ==
  failures = 0 =>
    \A j \in Jobs :
      /\ rec[j] = mem[j] \/ Duty(j)
      /\ \A w \in Writers : Writes(w) /\ save[w].job = j /\ save[w].snap # mem[j] => Duty(j)

\* The inductive invariant.
IInv == /\ TypeOK /\ LabelsSound /\ RoundsSound /\ TaskSound /\ JobsSound /\ EndsSound
        /\ SnapsSound /\ CancelSound /\ SavesSound

-----------------------------------------------------------------------------
(* Each step preserves the invariant.                                       *)

\* The parent is no round, and a round that may begin is one of Rounds.
LEMMA JobFacts ==
  /\ Parent \notin Rounds /\ Parent \in Jobs /\ Rounds \subseteq Jobs /\ Rounds \subseteq Int
  /\ \A j \in Jobs : j \in Rounds \/ j = Parent
  /\ \A n \in 0 .. MaxRounds : n # Parent /\ (n < MaxRounds => n \in Rounds)
  BY DriverAssumption DEF Parent, Rounds, Jobs

\* The save that takes the lock copies the present status, so it covers what it saves.
LEMMA SaveBeginStep ==
  ASSUME IInv, NEW w \in Writers, SaveBegin(w)
  PROVE  IInv'
<1>1. TypeOK'
  BY DEF IInv, TypeOK, SaveBegin, records, Writers
<1>2. LabelsSound'
  BY DEF LabelsSound, IInv, TypeOK, SaveBegin, Idle, Writers, Tasks
<1>3. RoundsSound'
  BY DEF RoundsSound, IInv, SaveBegin, records
<1>4. TaskSound'
  BY DEF TaskSound, IInv, TypeOK, SaveBegin, records, Raised, Ended
<1>5. JobsSound'
  BY DEF JobsSound, IInv, TypeOK, SaveBegin, records, Idle
<1>6. EndsSound'
  BY DEF EndsSound, IInv, SaveBegin, records, Ended
<1>7. SnapsSound'
  BY DEF SnapsSound, JobsSound, RoundsSound, LabelsSound, CancelSound, EndsSound, IInv, TypeOK,
         SaveBegin, records, Idle, Done, Raised, Ended, Writes, NoSave, IsFirst, Status, Terminal,
         None
<1>8. CancelSound'
  BY DEF CancelSound, SnapsSound, LabelsSound, IInv, TypeOK, SaveBegin, records, Idle, Done, Ended,
         IsFirst, Writers, Tasks
<1>9. SavesSound'
  <2>1. /\ save'[w].st = "write" /\ save'[w].job = save[w].job
        /\ save'[w].snap = (IF save[w].snap = None THEN mem[save[w].job] ELSE save[w].snap)
        /\ \A v \in Writers : v # w => save'[v] = save[v]
    BY DEF IInv, TypeOK, SaveBegin
  <2>2. UNCHANGED <<mem, rec, round, pc, failures>>
    BY DEF SaveBegin, records
  <2>3. save'[w].snap = mem[save[w].job]
    BY <2>1 DEF SnapsSound, IInv, SaveBegin
  <2>4. ASSUME NEW j \in Jobs, Duty(j) PROVE Duty(j)'
    <3>1. ASSUME NEW v \in Writers, Covers(v, j) PROVE Covers(v, j)'
      BY <2>1, <2>2, <3>1 DEF Covers
    <3> QED
      BY <2>2, <2>4, <3>1 DEF Duty
  <2> QED
    BY <2>1, <2>2, <2>3, <2>4 DEF SavesSound, IInv, Writes
<1> QED BY <1>1, <1>2, <1>3, <1>4, <1>5, <1>6, <1>7, <1>8, <1>9 DEF IInv

\* The archive takes the copy; if that was not the present status, somebody else still
\* has the duty to save it.
LEMMA SaveWriteStep ==
  ASSUME IInv, NEW w \in Writers, SaveWrite(w)
  PROVE  IInv'
<1>1. TypeOK'
  BY JobFacts DEF IInv, TypeOK, SaveWrite, NoSave
<1>2. LabelsSound'
  BY DEF LabelsSound, IInv, SaveWrite, Idle, NoSave
<1>3. RoundsSound'
  BY DEF RoundsSound, IInv, SaveWrite
<1>4. TaskSound'
  BY DEF TaskSound, IInv, SaveWrite, Raised, Ended, NoSave
<1>5. JobsSound'
  BY DEF JobsSound, IInv, SaveWrite, Idle, NoSave
<1>6. EndsSound'
  BY DEF EndsSound, IInv, SaveWrite, Ended
<1>7. SnapsSound'
  BY DEF SnapsSound, RoundsSound, IInv, SaveWrite, Writes, NoSave
<1>8. CancelSound'
  BY DEF CancelSound, SnapsSound, LabelsSound, IInv, TypeOK, SaveWrite, Idle, Done, Ended, Writes,
         IsFirst, Terminal
<1>9. SavesSound'
  BY DEF SavesSound, Duty, Covers, SnapsSound, JobsSound, RoundsSound, TaskSound, LabelsSound, IInv,
         TypeOK, SaveWrite, Idle, Done, Raised, Ended, Writes, NoSave, IsFirst, Status, Terminal,
         None
<1> QED BY <1>1, <1>2, <1>3, <1>4, <1>5, <1>6, <1>7, <1>8, <1>9 DEF IInv

\* A save that raises excuses the archive, not the driver.
LEMMA SaveFailsStep ==
  ASSUME IInv, NEW w \in Writers, SaveFails(w)
  PROVE  IInv'
<1>1. TypeOK'
  BY DriverAssumption, JobFacts DEF IInv, TypeOK, SaveFails, records, NoSave
<1>2. LabelsSound'
  BY DEF LabelsSound, IInv, SaveFails, Idle, NoSave
<1>3. RoundsSound'
  BY DEF RoundsSound, IInv, SaveFails, records
<1>4. TaskSound'
  BY DEF TaskSound, IInv, TypeOK, SaveFails, records, Ended
<1>5. JobsSound'
  BY DEF JobsSound, IInv, SaveFails, records, Idle, NoSave
<1>6. EndsSound'
  BY DEF EndsSound, IInv, TypeOK, SaveFails, records, Ended
<1>7. SnapsSound'
  BY DEF SnapsSound, JobsSound, IInv, SaveFails, records, Writes, NoSave
<1>8. CancelSound'
  BY DEF CancelSound, IInv, SaveFails, records, Idle, Done, Ended, IsFirst
<1>9. SavesSound'
  BY DEF SavesSound, IInv, TypeOK, SaveFails
<1> QED BY <1>1, <1>2, <1>3, <1>4, <1>5, <1>6, <1>7, <1>8, <1>9 DEF IInv

\* The driver marks a parent that has not ended.
LEMMA StartStep ==
  ASSUME IInv, Start
  PROVE  IInv'
<1>1. TypeOK'
  BY JobFacts DEF IInv, TypeOK, Start, Go, Elsewhere, Call, Status
<1>2. LabelsSound'
  BY DEF LabelsSound, IInv, TypeOK, Start, Go, Idle, Call, Writers, Tasks
<1>3. RoundsSound'
  BY JobFacts DEF RoundsSound, IInv, TypeOK, Start, Go, DriverAt
<1>4. TaskSound'
  BY DEF TaskSound, IInv, TypeOK, Start, Go, DriverAt, Elsewhere, Call, Writers, Tasks
<1>5. JobsSound'
  BY JobFacts DEF JobsSound, IInv, TypeOK, Start, Idle, Call, None
<1>6. EndsSound'
  BY JobFacts DEF EndsSound, IInv, TypeOK, Start, Go, DriverAt, Ended
<1>7. SnapsSound'
  BY DEF SnapsSound, IInv, TypeOK, Start, Call, Ended, Writes, Terminal, None
<1>8. CancelSound'
  BY DEF CancelSound, IInv, TypeOK, Start, Go, Elsewhere, Idle, Done, Ended, IsFirst, Terminal,
         Tasks
<1>9. SavesSound'
  BY DEF SavesSound, Duty, Covers, IInv, TypeOK, Start, Go, DriverAt, Elsewhere, Idle, Call, Writes,
         Writers, Tasks
<1> QED BY <1>1, <1>2, <1>3, <1>4, <1>5, <1>6, <1>7, <1>8, <1>9 DEF IInv

\* A save of the driver is over.
LEMMA SaveReturnsStep ==
  ASSUME IInv, SaveReturns
  PROVE  IInv'
<1>1. TypeOK'
  BY JobFacts DEF IInv, TypeOK, SaveReturns, Elsewhere, records, NoSave, Writers, Tasks
<1>2. LabelsSound'
  BY DEF LabelsSound, IInv, SaveReturns, Idle, NoSave
<1>3. RoundsSound'
  BY DEF RoundsSound, IInv, SaveReturns, records
<1>4. TaskSound'
  BY DEF TaskSound, IInv, SaveReturns, Elsewhere, records, Raised, Ended, NoSave
<1>5. JobsSound'
  BY DEF JobsSound, IInv, SaveReturns, Idle, records, NoSave
<1>6. EndsSound'
  BY DEF EndsSound, IInv, SaveReturns, Elsewhere, records, Ended
<1>7. SnapsSound'
  BY DEF SnapsSound, IInv, SaveReturns, records, Writes, NoSave
<1>8. CancelSound'
  BY DEF CancelSound, IInv, SaveReturns, Elsewhere, Idle, records, Done, Ended, IsFirst
<1>9. SavesSound'
  BY DEF SavesSound, Duty, Covers, IInv, SaveReturns, Elsewhere, records, Done, Writes, NoSave
<1> QED BY <1>1, <1>2, <1>3, <1>4, <1>5, <1>6, <1>7, <1>8, <1>9 DEF IInv

\* An error of a save sends the driver to the end of the run.
LEMMA SaveRaisesStep ==
  ASSUME IInv, SaveRaises
  PROVE  IInv'
<1>1. TypeOK'
  BY JobFacts
     DEF RoundsSound, IInv, TypeOK, SaveRaises, Go, Elsewhere, records, Child, NoSave, Writers,
         Tasks
<1>2. LabelsSound'
  BY DEF LabelsSound, IInv, TypeOK, SaveRaises, Go, Idle, NoSave, Writers
<1>3. RoundsSound'
  BY DEF RoundsSound, LabelsSound, IInv, SaveRaises, Go, Idle, records, Raised
<1>4. TaskSound'
  BY DEF TaskSound, LabelsSound, IInv, SaveRaises, Go, Elsewhere, Idle, Raised
<1>5. JobsSound'
  BY DEF JobsSound, IInv, SaveRaises, Idle, records, NoSave
<1>6. EndsSound'
  BY DriverAssumption, JobFacts
     DEF EndsSound, RoundsSound, TaskSound, LabelsSound, IInv, TypeOK, SaveRaises, Go, Elsewhere,
         Idle, records, Child, Raised, Ended, Terminal, Writers
<1>7. SnapsSound'
  BY DEF SnapsSound, IInv, SaveRaises, records, Writes, NoSave
<1>8. CancelSound'
  BY DEF CancelSound, IInv, SaveRaises, Go, Elsewhere, Idle, records, Done, Ended, IsFirst
<1>9. SavesSound'
  BY DEF SavesSound, TaskSound, IInv, SaveRaises, Elsewhere, Writers, Tasks
<1> QED BY <1>1, <1>2, <1>3, <1>4, <1>5, <1>6, <1>7, <1>8, <1>9 DEF IInv

\* A new round has no child yet.
LEMMA BeginRoundStep ==
  ASSUME IInv, BeginRound
  PROVE  IInv'
<1>1. TypeOK'
  BY DEF IInv, TypeOK, BeginRound, Go, Elsewhere, records
<1>2. LabelsSound'
  BY DEF LabelsSound, IInv, TypeOK, BeginRound, Go, DriverAt, Idle, Tasks
<1>3. RoundsSound'
  BY DEF RoundsSound, IInv, TypeOK, BeginRound, Go, DriverAt, records
<1>4. TaskSound'
  BY DEF TaskSound, IInv, TypeOK, BeginRound, Go, DriverAt, Elsewhere, Writers, Tasks
<1>5. JobsSound'
  BY DEF JobsSound, IInv, BeginRound, Idle, records
<1>6. EndsSound'
  BY DEF EndsSound, IInv, TypeOK, BeginRound, Go, DriverAt, records, Ended
<1>7. SnapsSound'
  BY DEF SnapsSound, IInv, BeginRound, records, Writes
<1>8. CancelSound'
  BY DEF CancelSound, IInv, TypeOK, BeginRound, Go, Elsewhere, Idle, records, Done, Ended, IsFirst,
         Tasks
<1>9. SavesSound'
  BY DEF SavesSound, Duty, Covers, IInv, TypeOK, BeginRound, Go, DriverAt, Elsewhere, records,
         Writes, Tasks
<1> QED BY <1>1, <1>2, <1>3, <1>4, <1>5, <1>6, <1>7, <1>8, <1>9 DEF IInv

\* The child is filed only while the parent has not ended, so cancel_job is not at work.
LEMMA SubmitStep ==
  ASSUME IInv, Submit
  PROVE  IInv'
<1>1. TypeOK'
  <2>1. round \in Rounds
    BY JobFacts DEF RoundsSound, IInv, TypeOK, Submit, DriverAt
  <2>2. mem' \in [Jobs -> Status \cup {None}] /\ pc' \in [Tasks -> {"start", "round", "submit",
                       "saveParent", "dispatch", "wait", "cancelled",
                       "judge", "plan", "advance", "finish", "fail", "giveUp", "hooks", "emit",
                       "none", "mark", "skip", "execute", "result", "finally", "final", "ended",
                       "raised", "idle", "saved", "visit", "child"}]
    BY DEF IInv, TypeOK, Submit, Go, Status, Terminal
  <2>3. save' \in [Writers -> [st : {"no", "wait", "write", "ok", "err"}, job : Jobs,
                                  snap : Status \cup {None}]]
    BY <2>1, JobFacts DEF IInv, TypeOK, Submit, Child, Call
  <2>4. kids' \subseteq Rounds /\ kids \subseteq kids'
    BY <2>1
       DEF IInv, TypeOK, Submit, Go, DriverAt, Elsewhere, Idle, records, Child, Call, Done, Raised,
           Ended, Writes, NoSave, IsFirst, Status, Terminal, None, Writers, Tasks
  <2>5. UNCHANGED <<api, rec, round, told, emitted, lost, at, todo, acked, failures>>
    BY DEF Submit, Elsewhere
  <2> QED
    BY <2>2, <2>3, <2>4, <2>5 DEF IInv, TypeOK
<1>2. LabelsSound'
  BY DEF LabelsSound, IInv, TypeOK, Submit, Go, Idle, Call, Writers, Tasks
<1>3. RoundsSound'
  <2>1. CASE Ended(Parent) /\ kids' = kids /\ mem' = mem /\ pc'["driver"] = "hooks"
    BY <2>1 DEF RoundsSound, IInv, Submit
  <2>2. CASE /\ ~ Ended(Parent) /\ kids' = kids \cup {round} /\ pc'["driver"] = "saveParent"
             /\ mem' = [mem EXCEPT ![round] = "pending"]
    <3>1. round \in Rounds /\ round # Parent /\ mem'[Parent] = mem[Parent] /\ round \notin kids
      BY <2>2, JobFacts DEF RoundsSound, IInv, TypeOK, Submit, DriverAt
    <3>2. \A k \in kids : mem'[k] = mem[k] /\ k < round
      BY <2>2, <3>1 DEF RoundsSound, IInv, Submit, DriverAt
    <3> QED
      BY <2>2 DEF RoundsSound, IInv, TypeOK, Submit, DriverAt
  <2>3. CASE /\ ~ Ended(Parent) /\ kids' = kids /\ pc'["driver"] = "hooks"
             /\ mem' = [mem EXCEPT ![Parent] = "failed"]
    <3>1. mem'[Parent] = "failed" /\ \A k \in kids : mem'[k] = mem[k]
      BY <2>3, JobFacts DEF IInv, TypeOK
    <3> QED
      BY <2>3, <3>1 DEF RoundsSound, IInv, Submit
  <2> QED
    BY <2>1, <2>2, <2>3 DEF IInv, TypeOK, Submit, Go, Child, Tasks
<1>4. TaskSound'
  BY DEF TaskSound, IInv, TypeOK, Submit, Go, DriverAt, Elsewhere, Call, Writers, Tasks
<1>5. JobsSound'
  BY JobFacts DEF JobsSound, IInv, TypeOK, Submit, Idle, Call, None
<1>6. EndsSound'
  <2>1. UNCHANGED <<emitted, lost, failures>>
    BY DEF Submit, Elsewhere
  <2>2. CASE Ended(Parent) /\ kids' = kids /\ mem' = mem /\ pc'["driver"] = "hooks"
    BY <2>2 DEF EndsSound, IInv, Submit, DriverAt, Ended
  <2>3. CASE ~ Ended(Parent) /\ pc'["driver"] = "saveParent"
    BY <2>1, <2>3 DEF EndsSound, IInv
  <2>4. CASE /\ ~ Ended(Parent) /\ kids' = kids /\ pc'["driver"] = "hooks"
             /\ mem' = [mem EXCEPT ![Parent] = "failed"]
    <3>1. mem'[Parent] = "failed" /\ \A k \in kids : mem'[k] = mem[k]
      BY <2>4, JobFacts DEF IInv, TypeOK
    <3> QED
      BY <2>4, <3>1 DEF EndsSound, IInv, Submit, DriverAt, Ended, Terminal
  <2> QED
    BY <2>2, <2>3, <2>4 DEF IInv, TypeOK, Submit, Go, Tasks
<1>7. SnapsSound'
  BY DEF SnapsSound, IInv, TypeOK, Submit, Call, Ended, Writes, Terminal, None
<1>8. CancelSound'
  <2>1. /\ pc'["cancel"] = pc["cancel"] /\ UNCHANGED <<rec, todo, acked>>
        /\ save'["cancel"] = save["cancel"]
    BY DEF IInv, TypeOK, Submit, Go, Elsewhere, Call, Writers, Tasks
  <2>2. CASE Ended(Parent) /\ kids' = kids /\ mem' = mem
    BY <2>1, <2>2 DEF CancelSound, IInv, Idle, Done, Ended, IsFirst
  <2>3. CASE ~ Ended(Parent)
    <3>1. pc["cancel"] = "idle" /\ ~ acked
      BY <2>3 DEF CancelSound, IInv, Ended, Terminal
    <3> QED
      BY <2>1, <3>1 DEF CancelSound
  <2> QED
    BY <2>2, <2>3 DEF Submit
<1>9. SavesSound'
  BY DEF SavesSound, Duty, Covers, SnapsSound, JobsSound, RoundsSound, TaskSound, LabelsSound, IInv,
         TypeOK, Submit, Go, DriverAt, Elsewhere, Idle, records, Child, Call, Done, Ended, Writes,
         Status, None, Writers, Tasks
<1> QED BY <1>1, <1>2, <1>3, <1>4, <1>5, <1>6, <1>7, <1>8, <1>9 DEF IInv

\* The parent is saved with its new child.
LEMMA SaveParentStep ==
  ASSUME IInv, SaveParent
  PROVE  IInv'
<1>1. TypeOK'
  BY JobFacts DEF IInv, TypeOK, SaveParent, Go, Elsewhere, records, Call, Writers, Tasks
<1>2. LabelsSound'
  BY DEF LabelsSound, IInv, SaveParent, Go, DriverAt, Idle, Call
<1>3. RoundsSound'
  BY DEF RoundsSound, IInv, SaveParent, Go, DriverAt, records
<1>4. TaskSound'
  BY DEF TaskSound, IInv, SaveParent, Go, DriverAt, Elsewhere, Call, Writers, Tasks
<1>5. JobsSound'
  BY DEF JobsSound, IInv, SaveParent, Idle, records, Call
<1>6. EndsSound'
  BY DEF EndsSound, IInv, SaveParent, Go, DriverAt
<1>7. SnapsSound'
  BY DEF SnapsSound, IInv, SaveParent, records, Call, Writes, Terminal, None
<1>8. CancelSound'
  BY DEF CancelSound, IInv, SaveParent, Go, Elsewhere, Idle, records, Call, Done, Ended, IsFirst
<1>9. SavesSound'
  BY DEF SavesSound, Duty, Covers, RoundsSound, TaskSound, IInv, SaveParent, DriverAt, Elsewhere,
         Idle, records, Call, Writes
<1> QED BY <1>1, <1>2, <1>3, <1>4, <1>5, <1>6, <1>7, <1>8, <1>9 DEF IInv

\* A child whose registration fails is counted as lost.
LEMMA DispatchStep ==
  ASSUME IInv, Dispatch
  PROVE  IInv'
<1>1. TypeOK'
  <2>1. lost' \subseteq kids
    BY DEF RoundsSound, IInv, TypeOK, Dispatch, DriverAt, Child
  <2>2. pc' \in [Tasks -> {"start", "round", "submit", "saveParent", "dispatch", "wait", "cancelled",
                       "judge", "plan", "advance", "finish", "fail", "giveUp", "hooks", "emit",
                       "none", "mark", "skip", "execute", "result", "finally", "final", "ended",
                       "raised", "idle", "saved", "visit", "child"}]
    BY DEF IInv, TypeOK, Dispatch, Go
  <2>3. UNCHANGED <<api, mem, rec, kids, round, save, told, emitted, at, todo, acked, failures>>
    BY DEF Dispatch, Elsewhere, records
  <2> QED
    BY <2>1, <2>2, <2>3 DEF IInv, TypeOK
<1>2. LabelsSound'
  BY DEF LabelsSound, TaskSound, IInv, TypeOK, Dispatch, Go, DriverAt, Idle, Tasks
<1>3. RoundsSound'
  BY DEF RoundsSound, IInv, TypeOK, Dispatch, Go, DriverAt, records, Tasks
<1>4. TaskSound'
  BY DEF TaskSound, IInv, TypeOK, Dispatch, Go, DriverAt, Elsewhere, Writers, Tasks
<1>5. JobsSound'
  BY DriverAssumption DEF JobsSound, IInv, Dispatch, DriverAt, Idle, records, Child, None, Writers
<1>6. EndsSound'
  BY JobFacts
     DEF EndsSound, RoundsSound, IInv, TypeOK, Dispatch, Go, DriverAt, records, Child, Ended,
         Terminal, Tasks
<1>7. SnapsSound'
  BY DEF SnapsSound, IInv, Dispatch, records, Writes
<1>8. CancelSound'
  BY DEF CancelSound, IInv, TypeOK, Dispatch, Go, Elsewhere, Idle, records, Done, Ended, IsFirst,
         Tasks
<1>9. SavesSound'
  BY DEF SavesSound, Duty, Covers, TaskSound, IInv, Dispatch, DriverAt, Elsewhere, records, Writers,
         Tasks
<1> QED BY <1>1, <1>2, <1>3, <1>4, <1>5, <1>6, <1>7, <1>8, <1>9 DEF IInv

\* A task that ended by itself left an ended child.
LEMMA JoinedStep ==
  ASSUME IInv, Joined
  PROVE  IInv'
<1>1. TypeOK'
  <2>1. lost' \subseteq kids
    BY DEF RoundsSound, IInv, TypeOK, Joined, DriverAt, Child
  <2>2. pc' \in [Tasks -> {"start", "round", "submit", "saveParent", "dispatch", "wait", "cancelled",
                       "judge", "plan", "advance", "finish", "fail", "giveUp", "hooks", "emit",
                       "none", "mark", "skip", "execute", "result", "finally", "final", "ended",
                       "raised", "idle", "saved", "visit", "child"}]
    BY DEF IInv, TypeOK, Joined, Go
  <2>3. UNCHANGED <<api, mem, rec, kids, round, save, told, emitted, at, todo, acked, failures>>
    BY DEF Joined, Elsewhere, records
  <2> QED
    BY <2>1, <2>2, <2>3 DEF IInv, TypeOK
<1>2. LabelsSound'
  BY DEF LabelsSound, IInv, TypeOK, Joined, Go, DriverAt, Idle, Tasks
<1>3. RoundsSound'
  BY DEF RoundsSound, IInv, TypeOK, Joined, Go, DriverAt, records
<1>4. TaskSound'
  BY DEF TaskSound, IInv, TypeOK, Joined, Go, Elsewhere, Raised, Tasks
<1>5. JobsSound'
  BY DEF JobsSound, IInv, Joined, Idle, records, Child
<1>6. EndsSound'
  BY JobFacts
     DEF EndsSound, RoundsSound, TaskSound, IInv, TypeOK, Joined, Go, DriverAt, records, Child,
         Ended, Terminal
<1>7. SnapsSound'
  BY DEF SnapsSound, IInv, Joined, records, Writes
<1>8. CancelSound'
  BY DEF CancelSound, IInv, TypeOK, Joined, Go, Elsewhere, Idle, records, Done, Ended, IsFirst,
         Tasks
<1>9. SavesSound'
  BY DEF SavesSound, Duty, Covers, IInv, Joined, DriverAt, Elsewhere, records, Writes
<1> QED BY <1>1, <1>2, <1>3, <1>4, <1>5, <1>6, <1>7, <1>8, <1>9 DEF IInv

\* The save of the cancelled task runs on as the ghost; the child is still to be saved by
\* the driver.
LEMMA TimeoutStep ==
  ASSUME IInv, Timeout
  PROVE  IInv'
<1>1. TypeOK'
  BY JobFacts
     DEF RoundsSound, IInv, TypeOK, Timeout, DriverAt, Elsewhere, records, Child, NoSave, Writers,
         Tasks
<1>2. LabelsSound'
  BY DEF LabelsSound, IInv, TypeOK, Timeout, DriverAt, Idle, Child, NoSave, Writers, Tasks
<1>3. RoundsSound'
  BY DEF RoundsSound, IInv, TypeOK, Timeout, DriverAt, records, Tasks
<1>4. TaskSound'
  BY DEF TaskSound, IInv, TypeOK, Timeout, Elsewhere, Writers, Tasks
<1>5. JobsSound'
  BY DEF JobsSound, RoundsSound, IInv, TypeOK, Timeout, DriverAt, Idle, records, Child, NoSave,
         Writers, Tasks
<1>6. EndsSound'
  BY DEF EndsSound, IInv, TypeOK, Timeout, DriverAt, Tasks
<1>7. SnapsSound'
  <2>1. UNCHANGED <<mem, rec, round>>
    BY DEF Timeout, records
  <2>2. /\ \A w \in Writers \ {"task", "ghost"} : save'[w] = save[w]
        /\ Idle("ghost")
        /\ save["task"].job = round \/ Idle("task")
        /\ save'["task"].st \in {"no", "wait"} /\ save'["task"].snap = None
        /\ IF save["task"].st \in {"wait", "write"} THEN save'["ghost"] = save["task"]
           ELSE save'["ghost"].st = "no"
    BY DEF LabelsSound, IInv, TypeOK, Timeout, Go, NoSave, Writers, Tasks
  <2>3. \A v, w \in Writers : Writes(v)' /\ Writes(w)' /\ save'[v].job = save'[w].job => v = w
    BY <2>2 DEF SnapsSound, IInv, TypeOK, Writes, Writers, Tasks
  <2>4. round # Parent /\ (save'["ghost"].st = "no" \/ save'["ghost"].job = round)
    BY <2>2, JobFacts DEF IInv, TypeOK, Idle
  <2>5. save'["ghost"].st = "wait" => save'["ghost"].snap = None
    BY <2>2 DEF SnapsSound, IInv, TypeOK, Writers, Tasks
  <2>6. Writes("ghost")' => save'["ghost"].snap # None
    BY <2>2 DEF SnapsSound, IInv, TypeOK, Writes, Writers, Tasks
  <2>7. ASSUME NEW w \in Writers
        PROVE  /\ Writes(w)' => save'[w].snap # None
               /\ save'[w].st = "wait" /\ save'[w].snap # None
                    => w = "driver" /\ save'[w].job = Parent /\ save'[w].snap \in Terminal
               /\ save'[w].st \in {"wait", "write"} /\ save'[w].job = Parent /\ save'[w].snap \in Terminal
                    => save'[w].snap = mem[Parent]
               /\ Writes(w)' /\ save'[w].job = Parent /\ rec[Parent] \in Terminal => save'[w].snap \in Terminal
    <3>1. CASE w \notin {"task", "ghost"}
      <4>1. save'[w] = save[w]
        BY <2>2, <3>1
      <4> QED
        BY <4>1 DEF SnapsSound, Writes, IInv
    <3>2. CASE w = "task"
      BY <2>2, <3>2 DEF Writes, Terminal, None
    <3>3. CASE w = "ghost"
      BY <2>4, <2>5, <2>6, <3>3 DEF Writes
    <3> QED BY <3>1, <3>2, <3>3
  <2> QED
    BY <2>1, <2>3, <2>7 DEF SnapsSound, IInv
<1>8. CancelSound'
  BY DEF CancelSound, IInv, TypeOK, Timeout, Elsewhere, Idle, records, Done, Ended, IsFirst,
         Writers, Tasks
<1>9. SavesSound'
  <2>1. UNCHANGED <<mem, rec, round, failures>> /\ pc'["driver"] = "cancelled"
    BY DEF IInv, TypeOK, Timeout, Go, Elsewhere, records, Tasks
  <2>2. /\ \A w \in Writers \ {"task", "ghost"} : save'[w] = save[w]
        /\ Idle("ghost") /\ (save["task"].job = round \/ Idle("task"))
        /\ save'["task"].st \in {"no", "wait"}
        /\ IF save["task"].st \in {"wait", "write"} THEN save'["ghost"] = save["task"]
           ELSE save'["ghost"].st = "no"
    BY DEF LabelsSound, IInv, TypeOK, Timeout, Go, NoSave, Writers, Tasks
  <2>3. ASSUME NEW j \in Jobs, Duty(j) PROVE Duty(j)'
    <3>1. CASE j = round
      BY <2>1, <3>1 DEF Duty
    <3>2. CASE j # round
      <4>1. PICK w \in Writers : Covers(w, j)
        BY <2>3, <3>2 DEF Duty
      <4>2. w \notin {"task", "ghost"}
        BY <2>2, <3>2, <4>1 DEF Covers, Idle
      <4>3. Covers(w, j)'
        BY <2>1, <2>2, <4>1, <4>2 DEF Covers
      <4> QED BY <4>3 DEF Duty
    <3> QED BY <3>1, <3>2
  <2>4. ASSUME NEW j \in Jobs, NEW w \in Writers, Writes(w)', save'[w].job = j, save'[w].snap # mem[j],
               failures = 0
        PROVE  Duty(j)'
    <3>1. CASE w \in {"task", "ghost"}
      <4>1. j = round
        BY <2>2, <2>4, <3>1 DEF Writes, Idle
      <4> QED BY <2>1, <4>1 DEF Duty
    <3>2. CASE w \notin {"task", "ghost"}
      BY <2>2, <2>3, <2>4, <3>2 DEF IInv, SavesSound, Writes
    <3> QED BY <3>1, <3>2
  <2> QED
    BY <2>1, <2>3, <2>4 DEF IInv, SavesSound
<1> QED BY <1>1, <1>2, <1>3, <1>4, <1>5, <1>6, <1>7, <1>8, <1>9 DEF IInv

\* The child of a timed-out round ends, unless its last save raised.
LEMMA TimedOutStep ==
  ASSUME IInv, TimedOut
  PROVE  IInv'
<1>1. TypeOK'
  <2>1. round \in kids /\ round \in Rounds /\ round \in Jobs
    BY JobFacts DEF RoundsSound, IInv, TypeOK, TimedOut, DriverAt
  <2>2. lost' \subseteq kids
    BY <2>1
       DEF IInv, TypeOK, TimedOut, Go, DriverAt, Elsewhere, Idle, records, Child, Call, Done,
           Raised, Ended, Writes, NoSave, IsFirst, Status, Terminal, None, Writers, Tasks
  <2>3. told' \subseteq Jobs
    <3>1. told' = told \/ told' = told \cup {round}
      BY DEF TimedOut, Child
    <3> QED
      BY <2>1, <3>1 DEF IInv, TypeOK
  <2>4. mem' \in [Jobs -> Status \cup {None}]
    BY DEF IInv, TypeOK, TimedOut, Status, Terminal
  <2>5. save' \in [Writers -> [st : {"no", "wait", "write", "ok", "err"}, job : Jobs,
                                  snap : Status \cup {None}]]
    BY <2>1 DEF IInv, TypeOK, TimedOut, Child, Call
  <2>6. pc' \in [Tasks -> {"start", "round", "submit", "saveParent", "dispatch", "wait", "cancelled",
                       "judge", "plan", "advance", "finish", "fail", "giveUp", "hooks", "emit",
                       "none", "mark", "skip", "execute", "result", "finally", "final", "ended",
                       "raised", "idle", "saved", "visit", "child"}]
    BY DEF IInv, TypeOK, TimedOut, Go
  <2>7. UNCHANGED <<api, rec, kids, round, emitted, at, todo, acked, failures>>
    BY DEF TimedOut, Elsewhere
  <2> QED
    BY <2>2, <2>3, <2>4, <2>5, <2>6, <2>7 DEF IInv, TypeOK
<1>2. LabelsSound'
  BY DEF LabelsSound, IInv, TypeOK, TimedOut, Go, Idle, Call, Writers, Tasks
<1>3. RoundsSound'
  BY JobFacts DEF RoundsSound, IInv, TypeOK, TimedOut, Go, DriverAt, Child
<1>4. TaskSound'
  BY DEF TaskSound, IInv, TypeOK, TimedOut, Go, Elsewhere, Call, Raised, Tasks
<1>5. JobsSound'
  BY JobFacts DEF JobsSound, RoundsSound, IInv, TypeOK, TimedOut, DriverAt, Idle, Child, Call, None
<1>6. EndsSound'
  BY JobFacts
     DEF EndsSound, RoundsSound, IInv, TypeOK, TimedOut, Go, DriverAt, Child, Ended, Terminal
<1>7. SnapsSound'
  BY JobFacts DEF SnapsSound, IInv, TypeOK, TimedOut, Child, Call, Writes
<1>8. CancelSound'
  BY JobFacts
     DEF CancelSound, IInv, TypeOK, TimedOut, Go, Elsewhere, Idle, Child, Call, Done, Ended,
         IsFirst, Terminal, Writers, Tasks
<1>9. SavesSound'
  BY JobFacts
     DEF SavesSound, Duty, Covers, SnapsSound, JobsSound, RoundsSound, TaskSound, LabelsSound, IInv,
         TypeOK, TimedOut, Go, DriverAt, Elsewhere, Idle, records, Child, Call, Done, Raised, Ended,
         Writes, NoSave, IsFirst, Status, Terminal, None, Writers
<1> QED BY <1>1, <1>2, <1>3, <1>4, <1>5, <1>6, <1>7, <1>8, <1>9 DEF IInv

\* Only a completed child leads to the next plan.
LEMMA JudgeStep ==
  ASSUME IInv, Judge
  PROVE  IInv'
<1>1. TypeOK'
  BY DEF IInv, TypeOK, Judge, Go, Elsewhere, records
<1>2. LabelsSound'
  BY DEF LabelsSound, IInv, TypeOK, Judge, Go, DriverAt, Idle, Tasks
<1>3. RoundsSound'
  BY JobFacts DEF RoundsSound, IInv, TypeOK, Judge, Go, DriverAt, records, Child, Writers, Tasks
<1>4. TaskSound'
  BY DEF TaskSound, IInv, TypeOK, Judge, Go, DriverAt, Elsewhere, Writers, Tasks
<1>5. JobsSound'
  BY DEF JobsSound, IInv, Judge, Idle, records
<1>6. EndsSound'
  BY DEF EndsSound, IInv, TypeOK, Judge, Go, DriverAt, records, Ended
<1>7. SnapsSound'
  BY DEF SnapsSound, IInv, Judge, records, Writes
<1>8. CancelSound'
  BY DEF CancelSound, IInv, TypeOK, Judge, Go, Elsewhere, Idle, records, Done, Ended, IsFirst, Tasks
<1>9. SavesSound'
  BY DEF SavesSound, Duty, Covers, IInv, TypeOK, Judge, Go, DriverAt, Elsewhere, records, Writes,
         Tasks
<1> QED BY <1>1, <1>2, <1>3, <1>4, <1>5, <1>6, <1>7, <1>8, <1>9 DEF IInv

\* The next round begins after a completed one.
LEMMA PlanStep ==
  ASSUME IInv, Plan
  PROVE  IInv'
<1>1. TypeOK'
  BY DriverAssumption DEF RoundsSound, IInv, TypeOK, Plan, Go, DriverAt, Elsewhere, records
<1>2. LabelsSound'
  BY DEF LabelsSound, TaskSound, IInv, TypeOK, Plan, Go, DriverAt, Idle, Tasks
<1>3. RoundsSound'
  BY JobFacts DEF RoundsSound, IInv, TypeOK, Plan, Go, DriverAt, records, Tasks
<1>4. TaskSound'
  BY DEF TaskSound, IInv, TypeOK, Plan, Go, DriverAt, Elsewhere, Writers, Tasks
<1>5. JobsSound'
  BY DEF JobsSound, IInv, Plan, Elsewhere, Idle, records
<1>6. EndsSound'
  BY DEF EndsSound, IInv, TypeOK, Plan, Go, DriverAt, records, Ended
<1>7. SnapsSound'
  BY DEF SnapsSound, JobsSound, IInv, Plan, records, Writes
<1>8. CancelSound'
  BY DEF CancelSound, IInv, TypeOK, Plan, Go, Elsewhere, Idle, records, Done, Ended, IsFirst, Tasks
<1>9. SavesSound'
  BY DEF SavesSound, Duty, Covers, RoundsSound, TaskSound, IInv, Plan, DriverAt, Elsewhere, records,
         Writers, Tasks
<1> QED BY <1>1, <1>2, <1>3, <1>4, <1>5, <1>6, <1>7, <1>8, <1>9 DEF IInv

\* The parent is saved before the next round.
LEMMA AdvanceStep ==
  ASSUME IInv, Advance
  PROVE  IInv'
<1>1. TypeOK'
  BY JobFacts DEF IInv, TypeOK, Advance, Go, Elsewhere, records, Call
<1>2. LabelsSound'
  BY DEF LabelsSound, IInv, TypeOK, Advance, Go, Idle, Call, Writers, Tasks
<1>3. RoundsSound'
  BY DEF RoundsSound, IInv, TypeOK, Advance, Go, DriverAt, records
<1>4. TaskSound'
  BY DEF TaskSound, IInv, TypeOK, Advance, Go, DriverAt, Elsewhere, Call, Writers, Tasks
<1>5. JobsSound'
  BY DEF JobsSound, IInv, TypeOK, Advance, Idle, records, Call
<1>6. EndsSound'
  BY DEF EndsSound, IInv, TypeOK, Advance, Go, DriverAt, records, Ended
<1>7. SnapsSound'
  BY DEF SnapsSound, IInv, TypeOK, Advance, records, Call, Writes, Terminal, None
<1>8. CancelSound'
  BY DEF CancelSound, IInv, TypeOK, Advance, Go, Elsewhere, Idle, records, Done, Ended, IsFirst,
         Terminal, Tasks
<1>9. SavesSound'
  BY DriverAssumption, JobFacts
     DEF SavesSound, Duty, Covers, SnapsSound, JobsSound, RoundsSound, TaskSound, LabelsSound, IInv,
         TypeOK, Advance, Go, DriverAt, Elsewhere, Idle, records, Child, Call, Done, Raised, Ended,
         Writes, NoSave, IsFirst, Status, Terminal, None, Writers, Tasks
<1> QED BY <1>1, <1>2, <1>3, <1>4, <1>5, <1>6, <1>7, <1>8, <1>9 DEF IInv

\* Finish, FailRun and GiveUp end a parent that has not ended; only Finish completes it.
LEMMA EndParentStep ==
  ASSUME IInv, NEW l \in {"finish", "fail", "giveUp"}, NEW status \in Terminal, l # "finish" => status # "completed", EndParent(l, status)
  PROVE  IInv'
<1>1. TypeOK'
  BY JobFacts DEF IInv, TypeOK, EndParent, Go, Elsewhere, Call, Status, Tasks
<1>2. LabelsSound'
  BY DEF LabelsSound, IInv, TypeOK, EndParent, Go, Idle, Call, Writers, Tasks
<1>3. RoundsSound'
  BY JobFacts DEF RoundsSound, IInv, TypeOK, EndParent, Go, DriverAt, Tasks
<1>4. TaskSound'
  BY DEF TaskSound, IInv, TypeOK, EndParent, Go, DriverAt, Elsewhere, Call, Writers, Tasks
<1>5. JobsSound'
  BY JobFacts DEF JobsSound, IInv, TypeOK, EndParent, Idle, Call, Terminal, None
<1>6. EndsSound'
  BY JobFacts DEF EndsSound, IInv, TypeOK, EndParent, Go, DriverAt, Ended
<1>7. SnapsSound'
  BY DEF SnapsSound, IInv, TypeOK, EndParent, Call, Ended, Writes, Terminal, None
<1>8. CancelSound'
  BY DEF CancelSound, IInv, EndParent, Go, Elsewhere, Idle, Done, Ended, IsFirst, Terminal
<1>9. SavesSound'
  BY DriverAssumption, JobFacts
     DEF SavesSound, Duty, Covers, SnapsSound, JobsSound, RoundsSound, TaskSound, LabelsSound, IInv,
         TypeOK, EndParent, Go, DriverAt, Elsewhere, Idle, records, Child, Call, Done, Raised,
         Ended, Writes, NoSave, IsFirst, Status, Terminal, None, Writers, Tasks
<1> QED BY <1>1, <1>2, <1>3, <1>4, <1>5, <1>6, <1>7, <1>8, <1>9 DEF IInv

\* The hooks copy the status of an ended parent, which never changes again.
LEMMA HooksStep ==
  ASSUME IInv, Hooks
  PROVE  IInv'
<1>1. TypeOK'
  BY JobFacts DEF IInv, TypeOK, Hooks, Go, Elsewhere, records
<1>2. LabelsSound'
  BY DEF LabelsSound, IInv, TypeOK, Hooks, Go, DriverAt, Idle, Writers, Tasks
<1>3. RoundsSound'
  BY DEF RoundsSound, IInv, TypeOK, Hooks, Go, records
<1>4. TaskSound'
  BY DEF TaskSound, IInv, TypeOK, Hooks, Go, DriverAt, Elsewhere, Writers, Tasks
<1>5. JobsSound'
  BY DEF JobsSound, IInv, TypeOK, Hooks, Idle, records
<1>6. EndsSound'
  BY DEF EndsSound, IInv, TypeOK, Hooks, Go, DriverAt, records, Ended
<1>7. SnapsSound'
  BY DEF SnapsSound, IInv, TypeOK, Hooks, records, Ended, Writes
<1>8. CancelSound'
  BY DEF CancelSound, IInv, TypeOK, Hooks, Go, Elsewhere, Idle, records, Done, Ended, IsFirst,
         Writers, Tasks
<1>9. SavesSound'
  BY DriverAssumption, JobFacts
     DEF SavesSound, Duty, Covers, JobsSound, RoundsSound, IInv, TypeOK, Hooks, Go, DriverAt,
         Elsewhere, Idle, records, Writes, Tasks
<1> QED BY <1>1, <1>2, <1>3, <1>4, <1>5, <1>6, <1>7, <1>8, <1>9 DEF IInv

\* The usage is emitted by the last step of the driver.
LEMMA EmitStep ==
  ASSUME IInv, Emit
  PROVE  IInv'
<1>1. TypeOK'
  BY DEF EndsSound, IInv, TypeOK, Emit, Go, DriverAt, Elsewhere, records, Tasks
<1>2. LabelsSound'
  BY DEF LabelsSound, IInv, Emit, Go, DriverAt, Idle
<1>3. RoundsSound'
  BY DEF RoundsSound, IInv, Emit, Go, records
<1>4. TaskSound'
  BY DEF TaskSound, IInv, Emit, Go, DriverAt, Elsewhere, Writers, Tasks
<1>5. JobsSound'
  BY DEF JobsSound, IInv, Emit, Idle, records
<1>6. EndsSound'
  BY DEF EndsSound, IInv, TypeOK, Emit, Go, DriverAt, records, Ended, Tasks
<1>7. SnapsSound'
  BY DEF SnapsSound, IInv, Emit, records, Writes
<1>8. CancelSound'
  BY DEF CancelSound, IInv, Emit, Go, Elsewhere, Idle, records, Done, Ended, IsFirst
<1>9. SavesSound'
  BY DEF SavesSound, Duty, Covers, SnapsSound, JobsSound, RoundsSound, TaskSound, LabelsSound, IInv,
         Emit, DriverAt, Elsewhere, records, Writers, Tasks
<1> QED BY <1>1, <1>2, <1>3, <1>4, <1>5, <1>6, <1>7, <1>8, <1>9 DEF IInv

\* The task marks a child that has not ended.
LEMMA TaskStartStep ==
  ASSUME IInv, TaskStart
  PROVE  IInv'
<1>1. TypeOK'
  BY JobFacts
     DEF RoundsSound, TaskSound, IInv, TypeOK, TaskStart, Step, TaskAt, NotTask, Child, Call,
         Status, Writers, Tasks
<1>2. LabelsSound'
  BY DEF LabelsSound, IInv, TypeOK, TaskStart, Step, NotTask, Idle, Child, Call, Writers, Tasks
<1>3. RoundsSound'
  BY JobFacts DEF RoundsSound, IInv, TypeOK, TaskStart, Step, NotTask, Ended, Terminal, Tasks
<1>4. TaskSound'
  BY DEF TaskSound, IInv, TypeOK, TaskStart, Step, TaskAt, NotTask, Child, Call, Ended, Writers,
         Tasks
<1>5. JobsSound'
  BY JobFacts
     DEF JobsSound, RoundsSound, TaskSound, IInv, TypeOK, TaskStart, TaskAt, NotTask, Idle, Child,
         Call, None
<1>6. EndsSound'
  BY JobFacts DEF EndsSound, JobsSound, IInv, TypeOK, TaskStart, Step, NotTask, Child, Ended, Tasks
<1>7. SnapsSound'
  BY JobFacts
     DEF SnapsSound, JobsSound, IInv, TypeOK, TaskStart, NotTask, Call, Ended, Writes, Terminal,
         None
<1>8. CancelSound'
  BY JobFacts
     DEF CancelSound, LabelsSound, IInv, TypeOK, TaskStart, Step, NotTask, Idle, Call, Done, Ended,
         IsFirst, Terminal, Tasks
<1>9. SavesSound'
  BY DEF SavesSound, Duty, Covers, RoundsSound, IInv, TypeOK, TaskStart, TaskAt, NotTask, Idle,
         Child, Call, Writes, Writers, Tasks
<1> QED BY <1>1, <1>2, <1>3, <1>4, <1>5, <1>6, <1>7, <1>8, <1>9 DEF IInv

\* A save of the task is over.
LEMMA TaskSaveReturnsStep ==
  ASSUME IInv, TaskSaveReturns
  PROVE  IInv'
<1>1. TypeOK'
  BY JobFacts DEF IInv, TypeOK, TaskSaveReturns, Step, NotTask, NoSave, Writers, Tasks
<1>2. LabelsSound'
  BY DEF LabelsSound, IInv, TypeOK, TaskSaveReturns, Step, Idle, NoSave, Writers, Tasks
<1>3. RoundsSound'
  BY DEF RoundsSound, IInv, TaskSaveReturns, Step, NotTask
<1>4. TaskSound'
  BY DEF TaskSound, LabelsSound, IInv, TaskSaveReturns, Step, NotTask, Idle, Done, Raised, Ended,
         NoSave
<1>5. JobsSound'
  BY DEF JobsSound, IInv, TaskSaveReturns, NotTask, Idle, NoSave
<1>6. EndsSound'
  BY DEF EndsSound, IInv, TaskSaveReturns, Step, NotTask, Ended
<1>7. SnapsSound'
  BY DEF SnapsSound, JobsSound, IInv, TaskSaveReturns, NotTask, Writes, NoSave
<1>8. CancelSound'
  BY DEF CancelSound, IInv, TaskSaveReturns, Step, NotTask, Idle, Done, Ended, IsFirst
<1>9. SavesSound'
  BY DEF SavesSound, Duty, Covers, SnapsSound, JobsSound, RoundsSound, TaskSound, LabelsSound, IInv,
         TaskSaveReturns, Step, NotTask, Idle, Done, Writes, NoSave
<1> QED BY <1>1, <1>2, <1>3, <1>4, <1>5, <1>6, <1>7, <1>8, <1>9 DEF IInv

\* A save of the task raised.
LEMMA TaskSaveRaisesStep ==
  ASSUME IInv, TaskSaveRaises
  PROVE  IInv'
<1>1. TypeOK'
  BY JobFacts DEF IInv, TypeOK, TaskSaveRaises, Step, NotTask, NoSave, Writers, Tasks
<1>2. LabelsSound'
  BY DEF LabelsSound, IInv, TypeOK, TaskSaveRaises, Step, Idle, NoSave, Writers, Tasks
<1>3. RoundsSound'
  BY DEF RoundsSound, IInv, TaskSaveRaises, Step, NotTask
<1>4. TaskSound'
  BY DEF TaskSound, IInv, TaskSaveRaises, Step, NotTask, Ended, Writers, Tasks
<1>5. JobsSound'
  BY DEF JobsSound, IInv, TaskSaveRaises, NotTask, Idle, NoSave
<1>6. EndsSound'
  BY DEF EndsSound, IInv, TaskSaveRaises, Step, NotTask, Ended
<1>7. SnapsSound'
  BY DEF SnapsSound, IInv, TaskSaveRaises, NotTask, Writes, NoSave
<1>8. CancelSound'
  BY DEF CancelSound, IInv, TaskSaveRaises, Step, NotTask, Idle, Done, Ended, IsFirst
<1>9. SavesSound'
  BY DEF SavesSound, TaskSound, IInv, TaskSaveRaises, NotTask, Writers, Tasks
<1> QED BY <1>1, <1>2, <1>3, <1>4, <1>5, <1>6, <1>7, <1>8, <1>9 DEF IInv

\* A result changes no ended child.
LEMMA TaskReturnsStep ==
  ASSUME IInv, NEW result \in {"completed", "failed"}, TaskReturns(result)
  PROVE  IInv'
<1>1. TypeOK'
  BY JobFacts
     DEF RoundsSound, TaskSound, IInv, TypeOK, TaskReturns, Step, TaskAt, NotTask, Child, Call,
         Status, Terminal
<1>2. LabelsSound'
  BY DEF LabelsSound, IInv, TypeOK, TaskReturns, Step, TaskAt, NotTask, Idle, Child, Call, Writers,
         Tasks
<1>3. RoundsSound'
  BY JobFacts
     DEF RoundsSound, IInv, TypeOK, TaskReturns, Step, NotTask, Child, Ended, Terminal, Tasks
<1>4. TaskSound'
  BY JobFacts
     DEF TaskSound, RoundsSound, IInv, TypeOK, TaskReturns, Step, TaskAt, NotTask, Child, Call,
         Ended, Terminal, Writers, Tasks
<1>5. JobsSound'
  BY JobFacts
     DEF JobsSound, RoundsSound, TaskSound, IInv, TypeOK, TaskReturns, TaskAt, NotTask, Idle, Child,
         Call, None
<1>6. EndsSound'
  BY JobFacts DEF EndsSound, IInv, TypeOK, TaskReturns, Step, NotTask, Child, Ended, Tasks
<1>7. SnapsSound'
  BY JobFacts
     DEF SnapsSound, IInv, TypeOK, TaskReturns, NotTask, Call, Ended, Writes, Terminal, None
<1>8. CancelSound'
  BY JobFacts
     DEF CancelSound, IInv, TypeOK, TaskReturns, Step, NotTask, Idle, Call, Done, Ended, IsFirst,
         Terminal, Writers, Tasks
<1>9. SavesSound'
  BY DriverAssumption, JobFacts
     DEF SavesSound, Duty, Covers, SnapsSound, JobsSound, RoundsSound, TaskSound, LabelsSound, IInv,
         TypeOK, TaskReturns, Step, TaskAt, NotTask, Idle, Call, Raised, Ended, Writes, Status,
         Terminal, None, Writers, Tasks
<1> QED BY <1>1, <1>2, <1>3, <1>4, <1>5, <1>6, <1>7, <1>8, <1>9 DEF IInv

\* Nor does an error of the execution.
LEMMA TaskRaisesStep ==
  ASSUME IInv, TaskRaises
  PROVE  IInv'
<1>1. TypeOK'
  BY JobFacts
     DEF RoundsSound, TaskSound, IInv, TypeOK, TaskRaises, Step, TaskAt, NotTask, Child, Status,
         Terminal, Tasks
<1>2. LabelsSound'
  BY DEF LabelsSound, IInv, TaskRaises, Step, TaskAt, Idle
<1>3. RoundsSound'
  BY DEF RoundsSound, IInv, TaskRaises, Step, NotTask, Terminal
<1>4. TaskSound'
  BY JobFacts
     DEF TaskSound, RoundsSound, IInv, TypeOK, TaskRaises, Step, TaskAt, NotTask, Child, Ended,
         Terminal, Writers, Tasks
<1>5. JobsSound'
  BY DEF JobsSound, RoundsSound, TaskSound, IInv, TaskRaises, TaskAt, NotTask, Idle, Child, None
<1>6. EndsSound'
  BY DEF EndsSound, IInv, TaskRaises, Step, NotTask, Ended
<1>7. SnapsSound'
  BY DEF SnapsSound, IInv, TaskRaises, NotTask, Writes
<1>8. CancelSound'
  BY DEF CancelSound, IInv, TaskRaises, Step, NotTask, Idle, Done, Ended, IsFirst, Terminal
<1>9. SavesSound'
  BY DEF SavesSound, Duty, Covers, SnapsSound, JobsSound, RoundsSound, TaskSound, LabelsSound, IInv,
         TypeOK, TaskRaises, Step, TaskAt, NotTask, Idle, Child, Done, Raised, Ended, Writes,
         NoSave, IsFirst, Status, Terminal, None, Tasks
<1> QED BY <1>1, <1>2, <1>3, <1>4, <1>5, <1>6, <1>7, <1>8, <1>9 DEF IInv

\* The finally clause saves the child again.
LEMMA TaskFinallyStep ==
  ASSUME IInv, TaskFinally
  PROVE  IInv'
<1>1. TypeOK'
  BY JobFacts
     DEF RoundsSound, TaskSound, IInv, TypeOK, TaskFinally, Step, TaskAt, NotTask, Child, Call,
         Writers, Tasks
<1>2. LabelsSound'
  BY DEF LabelsSound, IInv, TypeOK, TaskFinally, Step, NotTask, Idle, Child, Call, Writers
<1>3. RoundsSound'
  BY DEF RoundsSound, IInv, TaskFinally, Step, NotTask
<1>4. TaskSound'
  BY DEF TaskSound, IInv, TaskFinally, Step, TaskAt, NotTask, Call, Ended, Writers, Tasks
<1>5. JobsSound'
  BY DEF JobsSound, RoundsSound, TaskSound, IInv, TaskFinally, TaskAt, NotTask, Idle, Child, Call
<1>6. EndsSound'
  BY DEF EndsSound, IInv, TaskFinally, Step, NotTask, Ended
<1>7. SnapsSound'
  BY DEF SnapsSound, IInv, TaskFinally, NotTask, Call, Writes, Terminal, None
<1>8. CancelSound'
  BY DEF CancelSound, IInv, TaskFinally, Step, NotTask, Idle, Call, Done, Ended, IsFirst
<1>9. SavesSound'
  BY DEF SavesSound, Duty, Covers, TaskSound, IInv, TypeOK, TaskFinally, TaskAt, NotTask, Idle,
         Child, Call, Writes, Writers, Tasks
<1> QED BY <1>1, <1>2, <1>3, <1>4, <1>5, <1>6, <1>7, <1>8, <1>9 DEF IInv

\* A parent that has not ended is marked cancelled.
LEMMA CancelParentStep ==
  ASSUME IInv, CancelParent
  PROVE  IInv'
<1>1. TypeOK'
  BY JobFacts DEF IInv, TypeOK, CancelParent, NotCancel, Call, Status, Terminal, Writers, Tasks
<1>2. LabelsSound'
  BY DEF LabelsSound, IInv, TypeOK, CancelParent, NotCancel, Idle, Call, Writers
<1>3. RoundsSound'
  BY DEF RoundsSound, IInv, CancelParent, NotCancel, Ended, Terminal
<1>4. TaskSound'
  BY DEF TaskSound, IInv, CancelParent, NotCancel, Call, Raised, Ended
<1>5. JobsSound'
  BY DEF JobsSound, IInv, CancelParent, NotCancel, Idle, Call, None
<1>6. EndsSound'
  BY DEF EndsSound, IInv, CancelParent, NotCancel, Ended
<1>7. SnapsSound'
  BY DEF SnapsSound, IInv, CancelParent, NotCancel, Call, Ended, Writes, Terminal, None
<1>8. CancelSound'
  BY JobFacts DEF CancelSound, IInv, TypeOK, CancelParent, Call, Done, Ended, Terminal, Writers
<1>9. SavesSound'
  BY DriverAssumption, JobFacts
     DEF SavesSound, Duty, Covers, SnapsSound, JobsSound, RoundsSound, TaskSound, LabelsSound, IInv,
         TypeOK, CancelParent, NotCancel, Idle, Call, Done, Raised, Ended, Writes, NoSave, IsFirst,
         Status, Terminal, None, Writers, Tasks
<1> QED BY <1>1, <1>2, <1>3, <1>4, <1>5, <1>6, <1>7, <1>8, <1>9 DEF IInv

\* A failed save ends the request without a confirmation.
LEMMA CancelRaisesStep ==
  ASSUME IInv, CancelRaises
  PROVE  IInv'
<1>1. TypeOK'
  BY JobFacts DEF IInv, TypeOK, CancelRaises, NotCancel, NoSave, Writers, Tasks
<1>2. LabelsSound'
  BY DEF LabelsSound, IInv, TypeOK, CancelRaises, NotCancel, Idle, NoSave, Writers
<1>3. RoundsSound'
  BY DEF RoundsSound, IInv, CancelRaises, NotCancel
<1>4. TaskSound'
  BY DEF TaskSound, IInv, CancelRaises, NotCancel, Ended, Writers, Tasks
<1>5. JobsSound'
  BY DEF JobsSound, IInv, CancelRaises, NotCancel, Idle, NoSave
<1>6. EndsSound'
  BY DEF EndsSound, IInv, CancelRaises, NotCancel, Ended
<1>7. SnapsSound'
  BY DEF SnapsSound, IInv, CancelRaises, NotCancel, Writes, NoSave
<1>8. CancelSound'
  BY DEF CancelSound, IInv, TypeOK, CancelRaises, NotCancel, Ended, Tasks
<1>9. SavesSound'
  BY DEF SavesSound, TaskSound, IInv, CancelRaises, NotCancel, Writers, Tasks
<1> QED BY <1>1, <1>2, <1>3, <1>4, <1>5, <1>6, <1>7, <1>8, <1>9 DEF IInv

\* With the parent saved as cancelled, every child is to be visited.
LEMMA CancelToldStep ==
  ASSUME IInv, CancelTold
  PROVE  IInv'
<1>1. TypeOK'
  BY JobFacts DEF IInv, TypeOK, CancelTold, NotCancel, NoSave, Writers, Tasks
<1>2. LabelsSound'
  BY DEF LabelsSound, IInv, TypeOK, CancelTold, NotCancel, Idle, Tasks
<1>3. RoundsSound'
  BY DEF RoundsSound, IInv, CancelTold, NotCancel
<1>4. TaskSound'
  BY DEF TaskSound, IInv, CancelTold, NotCancel, Raised, Ended, NoSave
<1>5. JobsSound'
  BY DEF JobsSound, IInv, CancelTold, NotCancel, Idle, NoSave
<1>6. EndsSound'
  BY DEF EndsSound, IInv, CancelTold, NotCancel, Ended
<1>7. SnapsSound'
  BY DEF SnapsSound, IInv, CancelTold, NotCancel, Writes, NoSave
<1>8. CancelSound'
  BY DEF CancelSound, IInv, CancelTold, NotCancel, Ended, NoSave
<1>9. SavesSound'
  BY DEF SavesSound, Duty, Covers, JobsSound, IInv, CancelTold, NotCancel, Done, Writes, NoSave
<1> QED BY <1>1, <1>2, <1>3, <1>4, <1>5, <1>6, <1>7, <1>8, <1>9 DEF IInv

\* A visited child has ended.
LEMMA VisitChildStep ==
  ASSUME IInv, VisitChild
  PROVE  IInv'
<1>1. TypeOK'
  <2>1. PICK k \in todo : VisitChild!2!(k)
    BY DEF VisitChild
  <2>2. k \in Rounds /\ k \in Jobs
    BY JobFacts DEF IInv, TypeOK, Tasks
  <2>3. todo' \subseteq kids /\ mem' \in [Jobs -> Status \cup {None}]
    BY <2>1 DEF IInv, TypeOK, Status, Terminal
  <2>4. save' \in [Writers -> [st : {"no", "wait", "write", "ok", "err"}, job : Jobs,
                                  snap : Status \cup {None}]]
    BY <2>1, <2>2 DEF IInv, TypeOK, Call
  <2>5. pc' \in [Tasks -> {"start", "round", "submit", "saveParent", "dispatch", "wait", "cancelled",
                       "judge", "plan", "advance", "finish", "fail", "giveUp", "hooks", "emit",
                       "none", "mark", "skip", "execute", "result", "finally", "final", "ended",
                       "raised", "idle", "saved", "visit", "child"}]
    BY <2>1 DEF IInv, TypeOK
  <2>6. UNCHANGED <<at, told, acked, api, rec, kids, round, emitted, lost, failures>>
    BY DEF VisitChild, NotCancel
  <2> QED
    BY <2>3, <2>4, <2>5, <2>6 DEF IInv, TypeOK
<1>2. LabelsSound'
  BY DEF LabelsSound, IInv, TypeOK, VisitChild, NotCancel, Idle, Call, Writers, Tasks
<1>3. RoundsSound'
  BY JobFacts DEF RoundsSound, IInv, TypeOK, VisitChild, NotCancel, Ended, Terminal, Tasks
<1>4. TaskSound'
  BY JobFacts
     DEF TaskSound, RoundsSound, IInv, TypeOK, VisitChild, NotCancel, Call, Ended, Writers, Tasks
<1>5. JobsSound'
  BY DriverAssumption, JobFacts DEF JobsSound, IInv, TypeOK, VisitChild, NotCancel, Idle, Call, None
<1>6. EndsSound'
  BY JobFacts DEF EndsSound, RoundsSound, IInv, TypeOK, VisitChild, NotCancel, Ended, Tasks
<1>7. SnapsSound'
  BY DriverAssumption, JobFacts DEF SnapsSound, IInv, TypeOK, VisitChild, NotCancel, Call, Writes
<1>8. CancelSound'
  <2>1. /\ pc["cancel"] = "visit" /\ mem[Parent] = "cancelled" /\ rec[Parent] = "cancelled"
        /\ \A j \in kids \ todo : Ended(j)
        /\ UNCHANGED <<acked, rec, kids>>
    BY DEF CancelSound, VisitChild, NotCancel, IInv
  <2>2. PICK k \in todo :
          /\ IsFirst(k)
          /\ IF Ended(k) THEN todo' = todo \ {k} /\ UNCHANGED <<mem, save, pc>>
             ELSE /\ mem' = [mem EXCEPT ![k] = "cancelled"]
                  /\ Call("cancel", k)
                  /\ pc' = [pc EXCEPT !["cancel"] = "child"] /\ UNCHANGED todo
    BY DEF VisitChild
  <2>3. k \in kids /\ k \in Jobs /\ k # Parent /\ k \in Int
    BY JobFacts DEF IInv, TypeOK
  <2>4. CASE Ended(k)
    BY <2>1, <2>2, <2>4 DEF CancelSound, Ended, IInv
  <2>5. CASE ~ Ended(k)
    <3>1. /\ mem' = [mem EXCEPT ![k] = "cancelled"] /\ todo' = todo
          /\ pc'["cancel"] = "child" /\ save'["cancel"].st = "wait"
      BY <2>2, <2>5 DEF Call, IInv, TypeOK, Writers, Tasks
    <3>2. mem'[k] = "cancelled" /\ \A j \in Jobs \ {k} : mem'[j] = mem[j]
      BY <2>3, <3>1 DEF IInv, TypeOK
    <3>3. mem'[Parent] = "cancelled"
      BY <2>1, <3>2, JobFacts
    <3>4. \A j \in kids \ todo : Ended(j)'
      BY <2>1, <3>2, JobFacts DEF Ended, IInv, TypeOK
    <3>5. \A j \in todo : IsFirst(j)' => j = k
      BY <2>2, <3>1, JobFacts DEF IsFirst, IInv, TypeOK
    <3>6. acked => \A j \in kids : Ended(j)'
      BY <2>3, <2>5 DEF CancelSound, IInv
    <3> QED
      BY <2>1, <3>1, <3>2, <3>4, <3>5, <3>6 DEF CancelSound, Idle
  <2> QED BY <2>4, <2>5
<1>9. SavesSound'
  BY DriverAssumption, JobFacts
     DEF SavesSound, Duty, Covers, SnapsSound, JobsSound, RoundsSound, TaskSound, LabelsSound, IInv,
         TypeOK, VisitChild, NotCancel, Idle, Call, Done, Ended, Writes, IsFirst, Status, Terminal,
         None, Writers, Tasks
<1> QED BY <1>1, <1>2, <1>3, <1>4, <1>5, <1>6, <1>7, <1>8, <1>9 DEF IInv

\* A child the runtime could not cancel is failed, still ended.
LEMMA ChildToldStep ==
  ASSUME IInv, ChildTold
  PROVE  IInv'
<1>1. TypeOK'
  <2>1. PICK k \in todo :
          /\ IsFirst(k) /\ todo' = todo \ {k}
          /\ \/ told' = told \cup {k} /\ save' = [save EXCEPT !["cancel"] = NoSave] /\ UNCHANGED mem
             \/ mem' = [mem EXCEPT ![k] = "failed"] /\ Call("cancel", k) /\ UNCHANGED told
    BY DEF ChildTold
  <2>2. k \in Rounds /\ k \in Jobs
    BY JobFacts DEF IInv, TypeOK
  <2>3. todo' \subseteq kids /\ told' \subseteq Jobs
    BY <2>1, <2>2 DEF IInv, TypeOK
  <2>4. mem' \in [Jobs -> Status \cup {None}]
    BY <2>1 DEF IInv, TypeOK, Status, Terminal
  <2>5. save' \in [Writers -> [st : {"no", "wait", "write", "ok", "err"}, job : Jobs,
                                  snap : Status \cup {None}]]
    BY <2>1, JobFacts DEF IInv, TypeOK, Call, NoSave
  <2>6. pc' \in [Tasks -> {"start", "round", "submit", "saveParent", "dispatch", "wait", "cancelled",
                       "judge", "plan", "advance", "finish", "fail", "giveUp", "hooks", "emit",
                       "none", "mark", "skip", "execute", "result", "finally", "final", "ended",
                       "raised", "idle", "saved", "visit", "child"}]
    BY DEF ChildTold, IInv, TypeOK, Tasks
  <2>7. UNCHANGED <<at, acked, api, rec, kids, round, emitted, lost, failures>>
    BY DEF ChildTold, NotCancel
  <2> QED
    BY <2>3, <2>4, <2>5, <2>6, <2>7 DEF IInv, TypeOK
<1>2. LabelsSound'
  BY DEF LabelsSound, IInv, TypeOK, ChildTold, NotCancel, Idle, Call, Writers, Tasks
<1>3. RoundsSound'
  BY JobFacts DEF RoundsSound, CancelSound, IInv, TypeOK, ChildTold, NotCancel
<1>4. TaskSound'
  BY JobFacts
     DEF TaskSound, RoundsSound, IInv, TypeOK, ChildTold, NotCancel, Call, Raised, Ended, NoSave,
         Terminal, Writers
<1>5. JobsSound'
  BY JobFacts DEF JobsSound, IInv, TypeOK, ChildTold, NotCancel, Idle, Call, NoSave, None
<1>6. EndsSound'
  BY JobFacts
     DEF EndsSound, RoundsSound, IInv, TypeOK, ChildTold, NotCancel, Ended, Terminal, Writers
<1>7. SnapsSound'
  BY JobFacts DEF SnapsSound, IInv, TypeOK, ChildTold, NotCancel, Call, Writes, NoSave
<1>8. CancelSound'
  BY JobFacts DEF CancelSound, IInv, TypeOK, ChildTold, NotCancel, Ended, Terminal, Tasks
<1>9. SavesSound'
  BY DriverAssumption, JobFacts
     DEF SavesSound, Duty, Covers, SnapsSound, JobsSound, RoundsSound, TaskSound, LabelsSound, IInv,
         TypeOK, ChildTold, NotCancel, Idle, Call, Done, Raised, Ended, Writes, NoSave, IsFirst,
         Status, Terminal, None, Writers, Tasks
<1> QED BY <1>1, <1>2, <1>3, <1>4, <1>5, <1>6, <1>7, <1>8, <1>9 DEF IInv

\* The save of a failed child is over.
LEMMA ChildSavedStep ==
  ASSUME IInv, ChildSaved
  PROVE  IInv'
<1>1. TypeOK'
  BY JobFacts DEF IInv, TypeOK, ChildSaved, NotCancel, NoSave, Writers, Tasks
<1>2. LabelsSound'
  BY DEF LabelsSound, IInv, ChildSaved, NotCancel, Idle
<1>3. RoundsSound'
  BY DEF RoundsSound, IInv, ChildSaved, NotCancel
<1>4. TaskSound'
  BY DEF TaskSound, IInv, ChildSaved, NotCancel, Raised, Ended, NoSave
<1>5. JobsSound'
  BY DEF JobsSound, IInv, ChildSaved, NotCancel, Idle, NoSave
<1>6. EndsSound'
  BY DEF EndsSound, IInv, ChildSaved, NotCancel, Ended
<1>7. SnapsSound'
  BY DEF SnapsSound, IInv, ChildSaved, NotCancel, Writes, NoSave
<1>8. CancelSound'
  BY DEF CancelSound, IInv, ChildSaved, NotCancel, Ended
<1>9. SavesSound'
  BY DEF SavesSound, Duty, Covers, SnapsSound, JobsSound, RoundsSound, TaskSound, LabelsSound, IInv,
         ChildSaved, NotCancel, Done, Writes, NoSave
<1> QED BY <1>1, <1>2, <1>3, <1>4, <1>5, <1>6, <1>7, <1>8, <1>9 DEF IInv

\* The confirmation follows the last visit.
LEMMA CancelReturnsStep ==
  ASSUME IInv, CancelReturns
  PROVE  IInv'
<1>1. TypeOK'
  BY DEF IInv, TypeOK, CancelReturns, NotCancel, Tasks
<1>2. LabelsSound'
  BY DEF LabelsSound, IInv, CancelReturns, NotCancel, Idle
<1>3. RoundsSound'
  BY DEF RoundsSound, IInv, CancelReturns, NotCancel
<1>4. TaskSound'
  BY DEF TaskSound, IInv, CancelReturns, NotCancel, Ended, Writers, Tasks
<1>5. JobsSound'
  BY DriverAssumption DEF JobsSound, IInv, CancelReturns, NotCancel, Idle
<1>6. EndsSound'
  BY DEF EndsSound, IInv, CancelReturns, NotCancel, Ended
<1>7. SnapsSound'
  BY DEF SnapsSound, IInv, CancelReturns, NotCancel, Writes
<1>8. CancelSound'
  BY DEF CancelSound, IInv, CancelReturns, NotCancel, Ended
<1>9. SavesSound'
  BY DEF SavesSound, Duty, Covers, SnapsSound, JobsSound, RoundsSound, TaskSound, LabelsSound, IInv,
         CancelReturns, NotCancel, Writers, Tasks
<1> QED BY <1>1, <1>2, <1>3, <1>4, <1>5, <1>6, <1>7, <1>8, <1>9 DEF IInv

\* A client cancels one child.
LEMMA AbortChildStep ==
  ASSUME IInv, NEW k \in kids, AbortChild(k)
  PROVE  IInv'
<1>1. TypeOK'
  BY JobFacts
     DEF EndsSound, IInv, TypeOK, AbortChild, NotCancel, Call, Ended, Status, Terminal, Writers,
         Tasks
<1>2. LabelsSound'
  BY DEF LabelsSound, IInv, TypeOK, AbortChild, NotCancel, Idle, Call, Writers
<1>3. RoundsSound'
  BY DEF RoundsSound, IInv, AbortChild, NotCancel, Ended, Terminal
<1>4. TaskSound'
  BY DEF TaskSound, IInv, AbortChild, NotCancel, Call, Raised, Ended
<1>5. JobsSound'
  BY DEF JobsSound, IInv, AbortChild, NotCancel, Idle, Call, None
<1>6. EndsSound'
  <2>1. k # Parent /\ k \in Jobs /\ round \in Int
    BY JobFacts DEF IInv, TypeOK
  <2>2. mem'[k] = "cancelled" /\ \A j \in Jobs \ {k} : mem'[j] = mem[j]
    BY <2>1 DEF AbortChild, IInv, TypeOK
  <2>3. /\ pc'["driver"] = pc["driver"]
        /\ UNCHANGED <<emitted, lost, failures, kids, round>>
    BY DEF AbortChild, NotCancel
  <2>4. \A j \in Jobs : Ended(j) => Ended(j)'
    BY <2>2 DEF Ended, Terminal
  <2>5. Parent \in Jobs /\ kids \subseteq Jobs
    BY JobFacts DEF IInv, TypeOK
  <2>6. pc["driver"] = "judge" => round \in Jobs
    BY <2>5 DEF IInv, RoundsSound
  <2> QED
    BY <2>3, <2>4, <2>5, <2>6 DEF EndsSound, IInv
<1>7. SnapsSound'
  BY DEF SnapsSound, JobsSound, IInv, AbortChild, NotCancel, Call, Ended, Writes, Terminal, None
<1>8. CancelSound'
  BY DEF CancelSound, IInv, AbortChild, NotCancel, Idle, Call, Done, Ended, IsFirst
<1>9. SavesSound'
  BY DriverAssumption, JobFacts
     DEF SavesSound, Duty, Covers, SnapsSound, JobsSound, RoundsSound, TaskSound, LabelsSound, IInv,
         TypeOK, AbortChild, NotCancel, Idle, Call, Done, Raised, Ended, Writes, NoSave, IsFirst,
         Status, Terminal, None, Writers, Tasks
<1> QED BY <1>1, <1>2, <1>3, <1>4, <1>5, <1>6, <1>7, <1>8, <1>9 DEF IInv

\* That request is over.
LEMMA AbortReturnsStep ==
  ASSUME IInv, AbortReturns
  PROVE  IInv'
<1>1. TypeOK'
  BY JobFacts DEF IInv, TypeOK, AbortReturns, NotCancel, NoSave, Writers, Tasks
<1>2. LabelsSound'
  BY DEF LabelsSound, IInv, TypeOK, AbortReturns, NotCancel, Idle, NoSave, Writers
<1>3. RoundsSound'
  BY DEF RoundsSound, IInv, AbortReturns, NotCancel
<1>4. TaskSound'
  BY DEF TaskSound, IInv, AbortReturns, NotCancel, Raised, Ended, NoSave
<1>5. JobsSound'
  BY DEF JobsSound, IInv, AbortReturns, NotCancel, Idle, NoSave
<1>6. EndsSound'
  BY DEF EndsSound, IInv, AbortReturns, NotCancel, Ended
<1>7. SnapsSound'
  BY DEF SnapsSound, IInv, AbortReturns, NotCancel, Writes, NoSave
<1>8. CancelSound'
  BY DEF CancelSound, IInv, AbortReturns, NotCancel, Idle, Done, Ended, IsFirst
<1>9. SavesSound'
  BY DEF SavesSound, Duty, Covers, SnapsSound, JobsSound, RoundsSound, TaskSound, LabelsSound, IInv,
         AbortReturns, NotCancel, Writes, NoSave
<1> QED BY <1>1, <1>2, <1>3, <1>4, <1>5, <1>6, <1>7, <1>8, <1>9 DEF IInv

\* A step that changes nothing.
LEMMA StutterStep ==
  ASSUME IInv, UNCHANGED vars
  PROVE  IInv'
  BY DEF IInv, TypeOK, LabelsSound, RoundsSound, TaskSound, JobsSound, EndsSound, SnapsSound,
         CancelSound, SavesSound, Duty, Covers, Writes, Idle, Done, Raised, Ended, IsFirst, vars

\* A dynamic job starts with a pending parent, no children and nobody at work.
LEMMA InitInv == Init => IInv
<1> SUFFICES ASSUME Init PROVE IInv
  OBVIOUS
<1>1. /\ pc["driver"] = "start" /\ pc["task"] = "none" /\ pc["cancel"] = "idle" /\ pc["abort"] = "idle"
      /\ \A w \in Writers : save[w] = NoSave
      /\ mem[Parent] = "pending" /\ \A k \in Rounds : mem[k] = None
  BY JobFacts DEF Init, Tasks
<1>2. TypeOK
  <2>1. pc \in [Tasks -> {"start", "none", "idle"}]
    BY DEF Init
  <2>2. mem \in [Jobs -> {"pending", None}] /\ save \in [Writers -> {NoSave}]
    BY DEF Init
  <2>3. NoSave \in [st : {"no", "wait", "write", "ok", "err"}, job : Jobs, snap : Status \cup {None}]
    BY JobFacts DEF NoSave
  <2>4. round \in 0 .. MaxRounds /\ failures \in 0 .. MaxFailures /\ emitted \in 0 .. 1 /\ at \in Jobs
    BY DriverAssumption, JobFacts DEF Init
  <2> QED
    BY <2>1, <2>2, <2>3, <2>4 DEF Init, TypeOK, Status
<1>3. LabelsSound
  BY <1>1 DEF LabelsSound, Idle, NoSave, Writers, Tasks
<1>4. RoundsSound /\ TaskSound /\ EndsSound
  BY <1>1 DEF Init, RoundsSound, TaskSound, EndsSound, Raised, NoSave
<1>5. JobsSound /\ SnapsSound /\ CancelSound
  BY <1>1 DEF Init, JobsSound, SnapsSound, CancelSound, Writes, NoSave, None
<1>6. SavesSound
  BY DEF Init, SavesSound, Writes, NoSave
<1> QED BY <1>2, <1>3, <1>4, <1>5, <1>6 DEF IInv

\* Every step keeps the invariant.
LEMMA NextInv == IInv /\ [Next]_vars => IInv'
<1> SUFFICES ASSUME IInv, [Next]_vars PROVE IInv'
  OBVIOUS
<1>1. CASE UNCHANGED vars
  BY <1>1, StutterStep
<1>2. CASE \E w \in Writers : SaveBegin(w) \/ SaveWrite(w) \/ SaveFails(w)
  BY <1>2, SaveBeginStep, SaveWriteStep, SaveFailsStep
<1>3. CASE DriverStep
  <2>1. CASE Finish
    BY <2>1, EndParentStep DEF Finish, Terminal
  <2>2. CASE FailRun
    BY <2>2, EndParentStep DEF FailRun, Terminal
  <2>3. CASE GiveUp
    BY <2>3, EndParentStep DEF GiveUp, Terminal
  <2> QED
    BY <1>3, <2>1, <2>2, <2>3, StartStep, SaveReturnsStep, SaveRaisesStep, BeginRoundStep,
       SubmitStep, SaveParentStep, DispatchStep, JoinedStep, TimedOutStep, JudgeStep, PlanStep,
       AdvanceStep, HooksStep, EmitStep
       DEF DriverStep
<1>4. CASE Timeout
  BY <1>4, TimeoutStep
<1>5. CASE TaskStep
  BY <1>5, TaskStartStep, TaskSaveReturnsStep, TaskSaveRaisesStep, TaskFinallyStep DEF TaskStep
<1>6. CASE Answer
  BY <1>6, TaskRaisesStep, TaskReturnsStep DEF Answer
<1>7. CASE CancelParent
  BY <1>7, CancelParentStep
<1>8. CASE CancelStep
  BY <1>8, CancelRaisesStep, CancelToldStep, VisitChildStep, ChildToldStep, ChildSavedStep,
     CancelReturnsStep
     DEF CancelStep
<1>9. CASE AbortReturns
  BY <1>9, AbortReturnsStep
<1>10. CASE \E k \in kids : AbortChild(k)
  BY <1>10, AbortChildStep
<1>11. CASE Over
  BY <1>11, StutterStep DEF Over
<1> QED
  BY <1>1, <1>2, <1>3, <1>4, <1>5, <1>6, <1>7, <1>8, <1>9, <1>10, <1>11 DEF Next

\* The invariant holds throughout.
LEMMA InvHolds == Spec => []IInv
  BY InitInv, NextInv, PTL DEF Spec

-----------------------------------------------------------------------------
(* The results.                                                             *)

\* For every max_rounds: a round runs only after every round before it completed, and a
\* completed parent has only completed rounds (_run_dynamic_job).
THEOREM RoundsStayInOrder == Spec => []RoundsInOrder
<1>1. IInv => RoundsInOrder
  <2> SUFFICES ASSUME IInv, NEW k \in kids, mem[Parent] = "completed" \/ (\E j \in kids : j > k)
               PROVE  mem[k] = "completed"
    BY DEF RoundsInOrder
  <2>1. CASE mem[Parent] = "completed"
    BY <2>1 DEF IInv, RoundsSound
  <2>2. CASE \E j \in kids : j > k
    <3>1. PICK j \in kids : j > k
      BY <2>2
    <3>2. j <= round /\ k \in Int /\ j \in Int /\ round \in Int
      BY JobFacts DEF IInv, RoundsSound, TypeOK
    <3>3. k < round
      BY <3>1, <3>2
    <3> QED
      BY <3>3 DEF IInv, RoundsSound
  <2> QED BY <2>1, <2>2
<1> QED BY <1>1, InvHolds, PTL

\* For every interleaving of cancel_job with the driver, the child's task and the saves:
\* once the client was told that the parent is cancelled every child has ended and the
\* cancellation stays in memory and in the archive.
THEOREM ConfirmedCancelHolds == Spec => []CancelHolds
<1>1. IInv => CancelHolds
  BY DEF IInv, CancelSound, CancelHolds, CancelReachesChildren, ConfirmedCancelStays
<1> QED BY <1>1, InvHolds, PTL

\* A run that is over leaves no child running but the lost ones, an archive that agrees
\* with memory if no save raised, and the usage emitted once
\* (_run_dynamic_job, _fire_parent_terminal_hooks).
THEOREM RunsEndSettled == Spec => []RunSettled
<1>1. IInv => RunSettled
  <2> SUFFICES ASSUME IInv PROVE RunSettled
    OBVIOUS
  <2>1. ChildrenSettled
    BY DEF IInv, EndsSound, ChildrenSettled
  <2>2. UsageEmitted
    BY DEF IInv, EndsSound, UsageEmitted
  <2>3. ArchiveSettled
    <3> SUFFICES ASSUME AtRest, failures = 0 PROVE rec = mem
      BY DEF ArchiveSettled
    <3>1. \A w \in Writers : save[w].st = "no"
      BY DEF AtRest, Idle
    <3>2. pc["driver"] # "cancelled" /\ pc["task"] # "finally"
      BY DEF AtRest, IInv, TaskSound
    <3>3. \A j \in Jobs : ~ Duty(j)
      BY <3>1, <3>2 DEF Duty, Covers
    <3>4. \A j \in Jobs : rec[j] = mem[j]
      BY <3>3 DEF IInv, SavesSound
    <3>5. rec \in [Jobs -> Status \cup {None}] /\ mem \in [Jobs -> Status \cup {None}]
      BY DEF IInv, TypeOK
    <3> QED
      BY <3>4, <3>5
  <2> QED
    BY <2>1, <2>2, <2>3 DEF RunSettled, IInv
<1> QED BY <1>1, InvHolds, PTL

=============================================================================
