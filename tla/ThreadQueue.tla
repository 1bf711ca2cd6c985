----------------------------- MODULE ThreadQueue -----------------------------
(***************************************************************************)
(* The two-way channel between the event loop of the routes and the event  *)
(* loop of the runtime, which run in different threads: TSQueue            *)
(* (runtime/utils/queue.py), the intake loop AsyncEventLoop that reads one *)
(* of them (runtime/utils/loop.py), the result queue of each request       *)
(* (runtime/request.py), and LumilakeServer._process_request and close     *)
(* around them.                                                            *)
(*                                                                         *)
(* A step is one atomic operation on shared data: a call of queue.Queue, a *)
(* read or write of _is_closed, a block under _waiters_lock.  An actor is  *)
(* one coroutine and registers at most one future at a time, so a future   *)
(* is named by its actor; when the actor gives it up, what other threads   *)
(* still hold of it has no effect.  put_nowait, close and get up to its    *)
(* wait contain no await: within one thread they do not interleave.        *)
(*                                                                         *)
(* A definition named D_Fault is D with a fault put in; it is used only to *)
(* see that a property notices the fault.                                  *)
(***************************************************************************)
EXTENDS Naturals, Sequences

CONSTANTS
  Requests,   \* requests that are executed
  In          \* the intake queue; every request is also the name of its result queue

Loop == <<"loop">>                   \* the intake loop task
Closer == <<"close">>                \* LumilakeServer.close
Call(r) == <<"call", r>>             \* _process_request on the loop of the routes
Answer(r) == <<"answer", r>>         \* the batch that puts the result of r
Actors == {Loop, Closer} \cup {Call(r) : r \in Requests} \cup {Answer(r) : r \in Requests}
Queues == Requests \cup {In}
Signal == "close signal"

\* The sentinel and the queue are objects of their own.
ASSUME QueueAssumption == In \notin Requests /\ Signal \notin Requests

VARIABLES
  queue,      \* queue -> its items
  closed,     \* _is_closed of the intake queue
  waiters,    \* queue -> actors whose future is registered
  pc,         \* actor -> where it stands
  grabbed,    \* actor -> futures it took from _waiters and has still to wake
  soon,       \* futures with a scheduled _set_waiter_result
  cancelled,  \* loop_task.cancel() was called
  pushed,     \* history: requests put into the intake queue, in this order
  handled     \* requests the loop has taken from it, in this order

vars == <<queue, closed, waiters, pc, grabbed, soon, cancelled, pushed, handled>>

Init ==
  /\ queue = [q \in Queues |-> <<>>] /\ closed = FALSE
  /\ waiters = [q \in Queues |-> {}]
  /\ pc = [a \in Actors |-> IF a = Loop THEN "try" ELSE "idle"]
  /\ grabbed = [a \in Actors |-> {}] /\ soon = {}
  /\ cancelled = FALSE
  /\ pushed = <<>> /\ handled = <<>>

Go(a, l) == pc' = [pc EXCEPT ![a] = l]

\* The queue an actor puts into and what, the queue it gets from.
PutQueue(a) == IF a[1] = "answer" THEN a[2] ELSE In
Item(a) == IF a = Closer THEN Signal ELSE a[2]
GetQueue(a) == IF a = Loop THEN In ELSE a[2]
Putters == {Closer} \cup {Call(r) : r \in Requests} \cup {Answer(r) : r \in Requests}
Getters == {Loop} \cup {Call(r) : r \in Requests}

\* No other coroutine of a's thread is inside put_nowait, close or get.
HasThread(a) ==
  \A b \in Actors \ {a} :
    (a[1] = "call") = (b[1] = "call")
      => pc[b] \notin {"push", "grab", "wake", "look", "register", "again", "relook"}

-----------------------------------------------------------------------------
(* put_nowait and close.                                                    *)

\* A closed queue refuses an item; close sets the flag.
Check(a) ==
  /\ pc[a] = "check"
  /\ IF PutQueue(a) = In /\ closed
     THEN Go(a, "refused") /\ UNCHANGED closed
     ELSE Go(a, "push") /\ closed' = (closed \/ a = Closer)
  /\ UNCHANGED <<queue, waiters, grabbed, soon, cancelled, pushed, handled>>

Push_Front(a) ==
  /\ pc[a] = "push"
  /\ queue' = [queue EXCEPT ![PutQueue(a)] = <<Item(a)>> \o @]
  /\ pushed' = IF PutQueue(a) = In /\ a # Closer THEN Append(pushed, a[2]) ELSE pushed
  /\ Go(a, "grab")
  /\ UNCHANGED <<closed, waiters, grabbed, soon, cancelled, handled>>
Push(a) ==
  /\ pc[a] = "push"
  /\ queue' = [queue EXCEPT ![PutQueue(a)] = Append(@, Item(a))]
  /\ pushed' = IF PutQueue(a) = In /\ a # Closer THEN Append(pushed, a[2]) ELSE pushed
  /\ Go(a, "grab")
  /\ UNCHANGED <<closed, waiters, grabbed, soon, cancelled, handled>>

\* _wake_waiters takes all registered futures under the lock ...
Grab(a) ==
  /\ pc[a] = "grab"
  /\ grabbed' = [grabbed EXCEPT ![a] = waiters[PutQueue(a)]]
  /\ waiters' = [waiters EXCEPT ![PutQueue(a)] = {}]
  /\ Go(a, "wake")
  /\ UNCHANGED <<queue, closed, soon, cancelled, pushed, handled>>

\* ... and schedules their results on their own loops.  Then a call waits for its
\* result, and close for the end of the loop task.
Wake(a) ==
  /\ pc[a] = "wake"
  /\ soon' = soon \cup grabbed[a]
  /\ grabbed' = [grabbed EXCEPT ![a] = {}]
  /\ Go(a, CASE a[1] = "call" -> "try" [] a = Closer -> "join" [] OTHER -> "done")
  /\ UNCHANGED <<queue, closed, waiters, cancelled, pushed, handled>>

-----------------------------------------------------------------------------
(* get.                                                                     *)

\* The future of a is given up.
Discard(a) ==
  /\ waiters' = [waiters EXCEPT ![GetQueue(a)] = @ \ {a}]
  /\ grabbed' = [b \in Actors |-> grabbed[b] \ {a}]
  /\ soon' = soon \ {a}

\* get_nowait at label l; it goes on at `empty` when there is nothing.  The loop
\* hands an item to handle_request, a call returns its result; the close signal ends
\* the loop.
Take(a, l, empty) ==
  /\ pc[a] = l
  /\ LET q == queue[GetQueue(a)]
     IN IF q = <<>>
        THEN Go(a, empty) /\ UNCHANGED <<queue, closed, waiters, grabbed, soon, handled>>
        ELSE /\ queue' = [queue EXCEPT ![GetQueue(a)] = Tail(@)]
             /\ Discard(a)
             /\ IF Head(q) = Signal
                THEN Go(a, "ended") /\ closed' = TRUE /\ UNCHANGED handled
                ELSE /\ Go(a, IF a = Loop THEN "handle" ELSE "returned")
                     /\ handled' = IF a = Loop THEN Append(handled, Head(q)) ELSE handled
                     /\ UNCHANGED closed
  /\ UNCHANGED <<cancelled, pushed>>

TakeFirst(a) == Take(a, "try", "look")
TakeAgain_Skipped(a) ==
  /\ pc[a] = "again" /\ Go(a, "relook")
  /\ UNCHANGED <<queue, closed, waiters, grabbed, soon, cancelled, pushed, handled>>
TakeAgain(a) == Take(a, "again", "relook")

\* Nothing there: a closed queue ends the getter, else it goes on.
Look(a) ==
  /\ pc[a] \in {"look", "relook"}
  /\ IF GetQueue(a) = In /\ closed
     THEN Go(a, "ended") /\ Discard(a)
     ELSE /\ Go(a, IF pc[a] = "look" THEN "register" ELSE "await")
          /\ UNCHANGED <<waiters, grabbed, soon>>
  /\ UNCHANGED <<queue, closed, cancelled, pushed, handled>>

Register(a) ==
  /\ pc[a] = "register"
  /\ waiters' = [waiters EXCEPT ![GetQueue(a)] = @ \cup {a}]
  /\ Go(a, "again")
  /\ UNCHANGED <<queue, closed, grabbed, soon, cancelled, pushed, handled>>

\* The event loop runs the scheduled callback and resumes the getter, which looks
\* again from the start.
Resume(a) ==
  /\ pc[a] = "await" /\ a \in soon
  /\ Discard(a)
  /\ Go(a, "try")
  /\ UNCHANGED <<queue, closed, cancelled, pushed, handled>>

-----------------------------------------------------------------------------
(* The intake loop, the requests and the shutdown.                          *)

\* _process_request calls add_event, unless the loop was stopped before.
Execute(r) ==
  /\ pc[Call(r)] = "idle" /\ pc[Closer] # "stopped"
  /\ Go(Call(r), "check")
  /\ UNCHANGED <<queue, closed, waiters, grabbed, soon, cancelled, pushed, handled>>

\* handle_request returns; the runtime will answer.  The loop takes the next one.
Handle_Once ==
  /\ pc[Loop] = "handle"
  /\ LET r == handled[Len(handled)]
     IN pc' = [pc EXCEPT ![Loop] = "ended", ![Answer(r)] = "check"]
  /\ UNCHANGED <<queue, closed, waiters, grabbed, soon, cancelled, pushed, handled>>
Handle ==
  /\ pc[Loop] = "handle"
  /\ LET r == handled[Len(handled)]
     IN pc' = [pc EXCEPT ![Loop] = "try", ![Answer(r)] = "check"]
  /\ UNCHANGED <<queue, closed, waiters, grabbed, soon, cancelled, pushed, handled>>

\* close cancels the loop task and then closes its channel.
BeginClose ==
  /\ pc[Closer] = "idle"
  /\ cancelled' = TRUE
  /\ Go(Closer, "check")
  /\ UNCHANGED <<queue, closed, waiters, grabbed, soon, pushed, handled>>

\* A cancelled task is ended where it is suspended: in get or in handle_request.
LoopCancelled ==
  /\ cancelled /\ pc[Loop] \in {"await", "handle"}
  /\ Go(Loop, "ended")
  /\ Discard(Loop)
  /\ UNCHANGED <<queue, closed, cancelled, pushed, handled>>

\* stop joins the loop task.
Join ==
  /\ pc[Closer] = "join" /\ pc[Loop] = "ended"
  /\ Go(Closer, "stopped")
  /\ UNCHANGED <<queue, closed, waiters, grabbed, soon, cancelled, pushed, handled>>

-----------------------------------------------------------------------------
PutStep(a) == HasThread(a) /\ (Check(a) \/ Push(a) \/ Grab(a) \/ Wake(a))
GetStep(a) ==
  HasThread(a) /\ (TakeFirst(a) \/ TakeAgain(a) \/ Look(a) \/ Register(a) \/ Resume(a))
Settled == \A a \in Putters : pc[a] \notin {"check", "push", "grab", "wake"}
Rest == Settled /\ UNCHANGED vars

Next ==
  \/ \E a \in Putters : PutStep(a)
  \/ \E a \in Getters : GetStep(a)
  \/ \E r \in Requests : Execute(r)
  \/ Handle \/ BeginClose \/ LoopCancelled \/ Join
  \/ Rest

\* Fairness.  Both event loops run their coroutines; the runtime answers every
\* request it took (ServerProgress of the module Server).
Spec ==
  /\ Init /\ [][Next]_vars
  /\ \A a \in Putters : WF_vars(PutStep(a))
  /\ \A a \in Getters : WF_vars(GetStep(a))
  /\ WF_vars(Handle) /\ WF_vars(LoopCancelled) /\ WF_vars(Join)

-----------------------------------------------------------------------------
(* Correctness.                                                             *)

TypeOK ==
  /\ queue \in [Queues -> Seq(Requests \cup {Signal})]
  /\ \A r \in Requests : Len(queue[r]) <= 1
  /\ waiters \in [Queues -> SUBSET Getters] /\ grabbed \in [Actors -> SUBSET Getters]
  /\ soon \subseteq Getters
  /\ pc \in [Actors -> {"idle", "check", "push", "grab", "wake", "done", "refused", "join",
                        "stopped", "try", "look", "register", "again", "relook", "await",
                        "handle", "returned", "ended"}]
  /\ {closed, cancelled} \subseteq BOOLEAN
  /\ pushed \in Seq(Requests) /\ handled \in Seq(Requests)

\* No wake-up is lost between the look at the queue, the registration of the future
\* and the wait: a getter that sleeps while its queue holds an item has a wake-up
\* under way, scheduled, taken, or about to be taken by the thread that put it.
WakeUnderWay(a) ==
  \/ a \in soon
  \/ \E b \in Putters : a \in grabbed[b]
  \/ /\ a \in waiters[GetQueue(a)]
     /\ \E b \in Putters : pc[b] = "grab" /\ PutQueue(b) = GetQueue(a)
NoLostWakeup == \A a \in Getters : pc[a] = "await" /\ queue[GetQueue(a)] # <<>> => WakeUnderWay(a)

\* Requests are handled in the order in which they were put, each once, whatever
\* threads put them; those not handled are still in the queue, which holds nothing
\* else but the close signal.
HandledInOrder ==
  /\ TypeOK
  /\ handled = SubSeq(pushed, 1, Len(handled))
  /\ \A i, j \in 1 .. Len(pushed) : pushed[i] = pushed[j] => i = j
  /\ \A i \in Len(handled) + 1 .. Len(pushed) :
       \E k \in 1 .. Len(queue[In]) : queue[In][k] = pushed[i]
  /\ Len(queue[In]) <= (Len(pushed) - Len(handled)) + 1

\* A request that the intake queue accepted gets its result, unless the server is
\* closed meanwhile.
EveryCallReturns ==
  \A r \in Requests : pc[Call(r)] = "push" ~> pc[Call(r)] = "returned" \/ cancelled

\* The server stops, wherever its loop and the calls are when close begins.
CloseEnds == pc[Closer] = "check" ~> pc[Closer] = "stopped"

\* Nobody waits for ever: calls get their results, and close comes to its end.
WaitsEnd == EveryCallReturns /\ CloseEnds

=============================================================================
