-------------------------- MODULE ThreadQueueProofs --------------------------
(***************************************************************************)
(* Proofs about the channel between the two event loops: NoLostWakeup and  *)
(* HandledInOrder hold for every set of requests and every interleaving of *)
(* the two threads.                                                        *)
(*                                                                         *)
(* NoLostWakeup rests on two facts about a getter that has registered: its *)
(* future is always somewhere (registered, taken by a putter, or           *)
(* scheduled), and the second look at the queue happens after the          *)
(* registration, so an item it did not see was put by a thread that has    *)
(* still to take the registered futures.  HandledInOrder rests on the      *)
(* shape of the intake queue: the requests put and not yet handled, in     *)
(* order, with at most one close signal among them.                        *)
(***************************************************************************)
EXTENDS ThreadQueue, TLAPS

PutLabels == {"idle", "check", "push", "grab", "wake", "refused"}
GetLabels == {"try", "look", "register", "again", "relook", "await", "ended"}

\* Where each actor can stand.
LabelsSound ==
  /\ pc[Loop] \in GetLabels \cup {"handle"}
  /\ pc[Closer] \in PutLabels \cup {"join", "stopped"}
  /\ \A r \in Requests : /\ pc[Call(r)] \in PutLabels \cup GetLabels \cup {"returned"}
                         /\ pc[Answer(r)] \in PutLabels \cup {"done"}

\* The future of a getter is registered, taken or scheduled.
Waits(a) ==
  a \in waiters[GetQueue(a)] \/ a \in soon \/ \E b \in Putters : a \in grabbed[b]

\* A registered getter's future is not forgotten, and from the second look on an item
\* in its queue has a wake-up under way.
WakesSound ==
  /\ \A a \in Getters :
       /\ pc[a] \in {"again", "relook", "await"} => Waits(a)
       /\ pc[a] \in {"relook", "await"} /\ queue[GetQueue(a)] # <<>> => WakeUnderWay(a)
  /\ \A b \in Putters : pc[b] # "wake" => grabbed[b] = {}

\* A queue q holds the requests of p behind those of h, in order ...
Unhandled(q, p, h) ==
  /\ Len(q) = Len(p) - Len(h)
  /\ \A i \in 1 .. Len(q) : q[i] = p[Len(h) + i]

\* ... or these with the close signal among them, at position k.
UnhandledWithSignal(q, p, h, k) ==
  /\ Len(q) = (Len(p) - Len(h)) + 1
  /\ q[k] = Signal
  /\ \A i \in 1 .. Len(q) : /\ i < k => q[i] = p[Len(h) + i]
                            /\ i > k => q[i] = p[(Len(h) + i) - 1]

\* The intake queue holds what was put and not handled, the close signal at most once.
IntakeSound ==
  /\ \/ Unhandled(queue[In], pushed, handled)
     \/ \E k \in 1 .. Len(queue[In]) : UnhandledWithSignal(queue[In], pushed, handled, k)
  /\ pc[Closer] \in {"idle", "check", "push"} => Unhandled(queue[In], pushed, handled)

\* Requests are handled in the order in which they were put, each once.
OrderSound ==
  /\ Len(handled) <= Len(pushed)
  /\ \A i \in 1 .. Len(handled) : handled[i] = pushed[i]
  /\ \A i, j \in 1 .. Len(pushed) : pushed[i] = pushed[j] => i = j

\* A request is put once, by its own call, and answered once, after it was handled.
OnceEach ==
  /\ \A r \in Requests, i \in 1 .. Len(pushed) :
       pushed[i] = r => pc[Call(r)] \notin {"idle", "check", "push", "refused"}
  /\ pc[Loop] = "handle" => handled # <<>> /\ pc[Answer(handled[Len(handled)])] = "idle"
  /\ \A r \in Requests :
       /\ pc[Answer(r)] # "idle" => \E i \in 1 .. Len(handled) : handled[i] = r
       /\ pc[Answer(r)] \in {"idle", "check", "push"} => queue[r] = <<>>

\* A result queue holds nothing but the result of its request.
ResultsSound == \A r \in Requests : queue[r] \in Seq({r})

\* The inductive invariant.
IInv ==
  TypeOK /\ LabelsSound /\ WakesSound /\ IntakeSound /\ OrderSound /\ OnceEach /\ ResultsSound

-----------------------------------------------------------------------------
(* The actors and their queues.                                             *)

\* Actors of different kinds differ, and each knows its queues.
LEMMA ActorFacts ==
  /\ Loop \in Getters /\ Loop \notin Putters /\ Closer \in Putters /\ Closer \notin Getters
  /\ Putters \subseteq Actors /\ Getters \subseteq Actors
  /\ GetQueue(Loop) = In /\ PutQueue(Closer) = In /\ Item(Closer) = Signal
  /\ \A r \in Requests :
       /\ Call(r) \in Putters /\ Call(r) \in Getters /\ Answer(r) \in Putters /\ Answer(r) \notin Getters
       /\ Call(r) # Loop /\ Call(r) # Closer /\ Answer(r) # Loop /\ Answer(r) # Closer
       /\ GetQueue(Call(r)) = r /\ PutQueue(Call(r)) = In /\ Item(Call(r)) = r
       /\ PutQueue(Answer(r)) = r /\ Item(Answer(r)) = r
       /\ Call(r)[1] = "call" /\ Call(r)[2] = r /\ Answer(r)[1] = "answer"
  /\ Closer[1] = "close"
  /\ \A r, s \in Requests : Call(r) # Answer(s) /\ (r # s => Call(r) # Call(s) /\ Answer(r) # Answer(s))
  BY DEF Loop, Closer, Call, Answer, Putters, Getters, Actors, GetQueue, PutQueue, Item

\* The kinds of putters.
LEMMA PutterKinds ==
  ASSUME NEW a \in Putters
  PROVE  a = Closer \/ (\E r \in Requests : a = Call(r)) \/ (\E r \in Requests : a = Answer(r))
  BY DEF Putters

\* The kinds of getters.
LEMMA GetterKinds ==
  ASSUME NEW a \in Getters
  PROVE  a = Loop \/ \E r \in Requests : a = Call(r)
  BY DEF Getters

\* Their queues.
LEMMA QueueFacts ==
  /\ \A a \in Putters : PutQueue(a) \in Queues /\ Item(a) \in Requests \cup {Signal}
  /\ \A a \in Getters : GetQueue(a) \in Queues
  /\ \A a, b \in Getters : GetQueue(a) = GetQueue(b) => a = b
  /\ In \in Queues /\ Requests \subseteq Queues /\ \A r \in Requests : r # In /\ r # Signal
<1>1. \A a \in Putters : PutQueue(a) \in Queues /\ Item(a) \in Requests \cup {Signal}
  BY ActorFacts, PutterKinds DEF Queues
<1>2. \A a \in Getters : GetQueue(a) \in Queues
  BY ActorFacts, GetterKinds DEF Queues
<1>3. \A a, b \in Getters : GetQueue(a) = GetQueue(b) => a = b
  BY ActorFacts, GetterKinds, QueueAssumption
<1> QED BY <1>1, <1>2, <1>3, QueueAssumption DEF Queues

-----------------------------------------------------------------------------
(* The intake queue as a sequence.                                          *)

Items == Requests \cup {Signal}

\* A request put behind the others.
LEMMA AppendRequest ==
  ASSUME NEW q \in Seq(Items), NEW p \in Seq(Requests), NEW h \in Seq(Requests), NEW r \in Requests,
         Len(h) <= Len(p)
  PROVE  /\ Unhandled(q, p, h) => Unhandled(Append(q, r), Append(p, r), h)
         /\ \A k \in 1 .. Len(q) : UnhandledWithSignal(q, p, h, k)
              => UnhandledWithSignal(Append(q, r), Append(p, r), h, k)
<1>0. Len(q) \in Nat /\ Len(p) \in Nat /\ Len(h) \in Nat
  OBVIOUS
<1>1. Len(Append(q, r)) = Len(q) + 1 /\ Len(Append(p, r)) = Len(p) + 1
  OBVIOUS
<1>2. /\ \A i \in 1 .. Len(q) : Append(q, r)[i] = q[i]
      /\ \A i \in 1 .. Len(p) : Append(p, r)[i] = p[i]
      /\ Append(q, r)[Len(q) + 1] = r /\ Append(p, r)[Len(p) + 1] = r
  OBVIOUS
<1>3. ASSUME Unhandled(q, p, h) PROVE Unhandled(Append(q, r), Append(p, r), h)
  <2>1. ASSUME NEW i \in 1 .. Len(q) + 1 PROVE Append(q, r)[i] = Append(p, r)[Len(h) + i]
    <3>1. CASE i = Len(q) + 1
      <4>1. Len(h) + i = Len(p) + 1
        BY <1>3, <3>1 DEF Unhandled
      <4> QED BY <1>2, <3>1, <4>1
    <3>2. CASE i \in 1 .. Len(q)
      <4>1. Len(h) + i \in 1 .. Len(p) /\ q[i] = p[Len(h) + i]
        BY <1>3, <3>2 DEF Unhandled
      <4> QED BY <1>2, <3>2, <4>1
    <3>3. i = Len(q) + 1 \/ i \in 1 .. Len(q)
      OBVIOUS
    <3> QED BY <3>1, <3>2, <3>3
  <2>2. Len(Append(q, r)) = Len(Append(p, r)) - Len(h)
    BY <1>3 DEF Unhandled
  <2> QED BY <1>1, <2>1, <2>2 DEF Unhandled
<1>4. ASSUME NEW k \in 1 .. Len(q), UnhandledWithSignal(q, p, h, k)
      PROVE  UnhandledWithSignal(Append(q, r), Append(p, r), h, k)
  <2>1. ASSUME NEW i \in 1 .. Len(q) + 1
        PROVE  /\ i < k => Append(q, r)[i] = Append(p, r)[Len(h) + i]
               /\ i > k => Append(q, r)[i] = Append(p, r)[(Len(h) + i) - 1]
    <3>1. CASE i = Len(q) + 1
      <4>1. (Len(h) + i) - 1 = Len(p) + 1 /\ ~ (i < k)
        BY <1>4, <3>1 DEF UnhandledWithSignal
      <4> QED BY <1>2, <3>1, <4>1
    <3>2. CASE i \in 1 .. Len(q) /\ i < k
      <4>1. Len(h) + i \in 1 .. Len(p) /\ q[i] = p[Len(h) + i]
        BY <1>4, <3>2 DEF UnhandledWithSignal
      <4> QED BY <1>0, <1>2, <3>2, <4>1
    <3>3. CASE i \in 1 .. Len(q) /\ i > k
      <4>1. (Len(h) + i) - 1 \in 1 .. Len(p) /\ q[i] = p[(Len(h) + i) - 1]
        BY <1>4, <3>3 DEF UnhandledWithSignal
      <4> QED BY <1>0, <1>2, <3>3, <4>1
    <3>4. i = Len(q) + 1 \/ (i \in 1 .. Len(q) /\ i < k) \/ (i \in 1 .. Len(q) /\ i > k) \/ i = k
      OBVIOUS
    <3>5. CASE i = k
      BY <3>5
    <3> QED BY <3>1, <3>2, <3>3, <3>4, <3>5
  <2>2. Append(q, r)[k] = Signal
    BY <1>4 DEF UnhandledWithSignal
  <2>3. Len(Append(q, r)) = (Len(Append(p, r)) - Len(h)) + 1
    BY <1>1, <1>4 DEF UnhandledWithSignal
  <2> QED BY <1>1, <2>1, <2>2, <2>3 DEF UnhandledWithSignal
<1> QED BY <1>3, <1>4

\* The close signal put behind them.
LEMMA AppendSignal ==
  ASSUME NEW q \in Seq(Items), NEW p \in Seq(Requests), NEW h \in Seq(Requests), Unhandled(q, p, h),
         Len(h) <= Len(p)
  PROVE  /\ Len(q) + 1 \in 1 .. Len(Append(q, Signal))
         /\ UnhandledWithSignal(Append(q, Signal), p, h, Len(q) + 1)
<1>1. Len(Append(q, Signal)) = Len(q) + 1 /\ Append(q, Signal)[Len(q) + 1] = Signal
  OBVIOUS
<1>2. \A i \in 1 .. Len(q) : Append(q, Signal)[i] = q[i]
  OBVIOUS
<1>3. Len(q) \in Nat /\ Len(p) \in Nat /\ Len(h) \in Nat
  OBVIOUS
<1> QED BY <1>1, <1>2, <1>3 DEF Unhandled, UnhandledWithSignal

\* A request taken from the front is the next one to handle.
LEMMA TakeRequest ==
  ASSUME NEW q \in Seq(Items), NEW p \in Seq(Requests), NEW h \in Seq(Requests), q # <<>>,
         Head(q) # Signal, Len(h) <= Len(p)
  PROVE  /\ Unhandled(q, p, h) =>
              /\ Len(h) + 1 <= Len(p) /\ Head(q) = p[Len(h) + 1]
              /\ Unhandled(Tail(q), p, Append(h, Head(q)))
         /\ \A k \in 1 .. Len(q) : UnhandledWithSignal(q, p, h, k) =>
              /\ Len(h) + 1 <= Len(p) /\ Head(q) = p[Len(h) + 1]
              /\ k - 1 \in 1 .. Len(Tail(q))
              /\ UnhandledWithSignal(Tail(q), p, Append(h, Head(q)), k - 1)
<1>1. /\ Len(q) \in Nat /\ Len(p) \in Nat /\ Len(h) \in Nat /\ Len(q) > 0 /\ Head(q) = q[1]
      /\ Len(Tail(q)) = Len(q) - 1 /\ \A i \in 1 .. Len(Tail(q)) : Tail(q)[i] = q[i + 1]
  OBVIOUS
<1>2. Len(Append(h, Head(q))) = Len(h) + 1
  OBVIOUS
<1>3. Unhandled(q, p, h) =>
        /\ Len(h) + 1 <= Len(p) /\ Head(q) = p[Len(h) + 1]
        /\ Unhandled(Tail(q), p, Append(h, Head(q)))
  BY <1>1 DEF Unhandled
<1>4. ASSUME NEW k \in 1 .. Len(q), UnhandledWithSignal(q, p, h, k)
      PROVE  /\ Len(h) + 1 <= Len(p) /\ Head(q) = p[Len(h) + 1]
             /\ k - 1 \in 1 .. Len(Tail(q))
             /\ UnhandledWithSignal(Tail(q), p, Append(h, Head(q)), k - 1)
  <2>1. k > 1 /\ Len(q) > 1
    BY <1>4 DEF UnhandledWithSignal
  <2>2. Len(h) + 1 <= Len(p) /\ Head(q) = p[Len(h) + 1] /\ k - 1 \in 1 .. Len(Tail(q))
    BY <1>4 DEF UnhandledWithSignal
  <2>3. Tail(q)[k - 1] = Signal
    BY <1>4 DEF UnhandledWithSignal
  <2>4. ASSUME NEW i \in 1 .. Len(Tail(q))
        PROVE  /\ i < k - 1 => Tail(q)[i] = p[(Len(h) + 1) + i]
               /\ i > k - 1 => Tail(q)[i] = p[((Len(h) + 1) + i) - 1]
    <3>1. i + 1 \in 1 .. Len(q) /\ Tail(q)[i] = q[i + 1]
      OBVIOUS
    <3>2. i < k - 1 => q[i + 1] = p[Len(h) + (i + 1)]
      BY <1>4 DEF UnhandledWithSignal
    <3>3. i > k - 1 => q[i + 1] = p[(Len(h) + (i + 1)) - 1]
      BY <1>4 DEF UnhandledWithSignal
    <3>4. Len(h) + (i + 1) = (Len(h) + 1) + i
      OBVIOUS
    <3> QED BY <1>1, <3>1, <3>2, <3>3, <3>4
  <2>5. Len(Tail(q)) = (Len(p) - Len(Append(h, Head(q)))) + 1
    <3>1. Len(q) = (Len(p) - Len(h)) + 1
      BY <1>4 DEF UnhandledWithSignal
    <3>2. Len(Tail(q)) = (Len(p) - (Len(h) + 1)) + 1
      BY <3>1
    <3> QED BY <3>2, <1>2
  <2>6. UnhandledWithSignal(Tail(q), p, Append(h, Head(q)), k - 1)
    BY <1>2, <2>3, <2>4, <2>5 DEF UnhandledWithSignal
  <2> QED BY <2>2, <2>6
<1> QED BY <1>3, <1>4

\* Behind the close signal are the requests that stay.
LEMMA TakeSignal ==
  ASSUME NEW q \in Seq(Items), NEW p \in Seq(Requests), NEW h \in Seq(Requests), q # <<>>,
         Head(q) = Signal, Len(h) <= Len(p)
  PROVE  /\ ~ Unhandled(q, p, h)
         /\ \A k \in 1 .. Len(q) : UnhandledWithSignal(q, p, h, k) => Unhandled(Tail(q), p, h)
<1>1. /\ Len(q) \in Nat /\ Len(p) \in Nat /\ Len(h) \in Nat /\ Len(q) > 0 /\ Head(q) = q[1]
      /\ Len(Tail(q)) = Len(q) - 1 /\ \A i \in 1 .. Len(Tail(q)) : Tail(q)[i] = q[i + 1]
  OBVIOUS
<1>2. ~ Unhandled(q, p, h)
  <2> SUFFICES ASSUME Unhandled(q, p, h) PROVE FALSE
    OBVIOUS
  <2>1. Len(h) + 1 \in 1 .. Len(p) /\ q[1] = p[Len(h) + 1]
    BY DEF Unhandled
  <2> QED BY <1>1, <2>1, QueueAssumption
<1>3. ASSUME NEW k \in 1 .. Len(q), UnhandledWithSignal(q, p, h, k) PROVE Unhandled(Tail(q), p, h)
  <2>1. k = 1
    <3> SUFFICES ASSUME k > 1 PROVE FALSE
      OBVIOUS
    <3>1. Len(h) + 1 \in 1 .. Len(p) /\ q[1] = p[Len(h) + 1]
      BY <1>3 DEF UnhandledWithSignal
    <3> QED BY <1>1, <3>1, QueueAssumption
  <2> QED BY <1>1, <1>3, <2>1 DEF Unhandled, UnhandledWithSignal
<1> QED BY <1>2, <1>3

-----------------------------------------------------------------------------
(* Each step preserves the invariant.                                       *)

\* The queues are empty and nobody waits.
LEMMA InitInv == Init => IInv
<1> SUFFICES ASSUME Init PROVE IInv
  OBVIOUS
<1>1. TypeOK
  <2>1. queue \in [Queues -> Seq(Items)] /\ \A r \in Requests : Len(queue[r]) <= 1
    BY QueueFacts DEF Init
  <2>2. waiters \in [Queues -> SUBSET Getters] /\ grabbed \in [Actors -> SUBSET Getters]
    BY DEF Init
  <2>3. closed \in BOOLEAN /\ cancelled \in BOOLEAN
    BY DEF Init
  <2>4. pushed \in Seq(Requests) /\ handled \in Seq(Requests)
    BY DEF Init
  <2> QED
    BY <2>1, <2>3 DEF Init, TypeOK
<1>2. LabelsSound /\ WakesSound
  BY ActorFacts DEF Init, LabelsSound, WakesSound, PutLabels, GetLabels
<1>3. IntakeSound /\ OrderSound
  BY QueueFacts DEF Init, IntakeSound, OrderSound, Unhandled
<1>4. OnceEach /\ ResultsSound
  BY ActorFacts, QueueFacts DEF Init, OnceEach, ResultsSound
<1> QED BY <1>1, <1>2, <1>3, <1>4 DEF IInv

\* A putter that finds the queue open goes on to put; nothing else changes.
LEMMA CheckStep ==
  ASSUME IInv, NEW a \in Putters, Check(a)
  PROVE  IInv'
<1>1. a \in Actors /\ pc[a] = "check" /\ pc' = [pc EXCEPT ![a] = IF PutQueue(a) = In /\ closed THEN "refused" ELSE "push"]
  BY ActorFacts DEF Check, Go
<1>2. UNCHANGED <<queue, waiters, grabbed, soon, cancelled, pushed, handled>>
  BY DEF Check
<1>3. TypeOK'
  <2>1. closed' \in BOOLEAN
    BY DEF Check, IInv, TypeOK
  <2> QED
    BY <1>1, <1>2, <2>1 DEF IInv, TypeOK
<1>4. LabelsSound'
  BY <1>1, ActorFacts DEF IInv, LabelsSound, PutLabels
<1>5. WakesSound'
  BY <1>1, <1>2 DEF IInv, WakesSound, Waits, WakeUnderWay
<1>6. IntakeSound' /\ OrderSound'
  BY <1>1, <1>2 DEF IInv, IntakeSound, OrderSound
<1>7. OnceEach'
  BY <1>1, <1>2 DEF IInv, OnceEach
<1>8. ResultsSound'
  BY <1>2 DEF IInv, ResultsSound
<1> QED BY <1>3, <1>4, <1>5, <1>6, <1>7, <1>8 DEF IInv

\* An item is put: a request behind those of the intake queue, the close signal there,
\* or a result into the empty queue of its request.
LEMMA PushStep ==
  ASSUME IInv, NEW a \in Putters, Push(a)
  PROVE  IInv'
<1>1. a \in Actors /\ pc[a] = "push" /\ pc' = [pc EXCEPT ![a] = "grab"]
  BY ActorFacts DEF Push, Go
<1>2. /\ queue' = [queue EXCEPT ![PutQueue(a)] = Append(@, Item(a))]
      /\ UNCHANGED <<closed, waiters, grabbed, soon, cancelled, handled>>
  BY DEF Push
<1>3. LabelsSound'
  BY <1>1, ActorFacts DEF IInv, LabelsSound, PutLabels
<1>4. WakesSound'
  <2>0. \A b \in Putters : pc'[b] # "wake" => grabbed'[b] = {}
    BY <1>1, <1>2 DEF IInv, WakesSound
  <2> SUFFICES ASSUME NEW c \in Getters
               PROVE  /\ pc'[c] \in {"again", "relook", "await"} => Waits(c)'
                      /\ pc'[c] \in {"relook", "await"} /\ queue'[GetQueue(c)] # <<>> => WakeUnderWay(c)'
    BY <2>0 DEF WakesSound
  <2>1. pc'[c] \in {"again", "relook", "await"} => Waits(c) /\ Waits(c)'
    BY <1>1, <1>2 DEF IInv, WakesSound, Waits
  <2>2. ASSUME pc'[c] \in {"relook", "await"}, queue'[GetQueue(c)] # <<>>, PutQueue(a) # GetQueue(c)
        PROVE  WakeUnderWay(c)'
    <3>1. WakeUnderWay(c)
      BY <1>1, <1>2, <2>2 DEF IInv, WakesSound
    <3> QED
      BY <3>1, <1>1, <1>2 DEF WakeUnderWay
  <2>3. ASSUME pc'[c] \in {"relook", "await"}, PutQueue(a) = GetQueue(c)
        PROVE  WakeUnderWay(c)'
    <3>1. pc'[a] = "grab"
      BY <1>1 DEF IInv, TypeOK
    <3> QED
      BY <3>1, <2>1, <2>3 DEF Waits, WakeUnderWay
  <2> QED BY <2>1, <2>2, <2>3
<1>5. CASE a = Closer
  <2>1. queue' = [queue EXCEPT ![In] = Append(queue[In], Signal)] /\ pushed' = pushed
    BY <1>5, ActorFacts DEF Push
  <2>2. TypeOK'
    BY <1>1, <1>2, <2>1, QueueFacts DEF IInv, TypeOK
  <2>3. IntakeSound' /\ OrderSound'
    <3>1. Unhandled(queue[In], pushed, handled) /\ Len(handled) <= Len(pushed)
      BY <1>1, <1>5 DEF IInv, IntakeSound, OrderSound
    <3>2. /\ queue'[In] = Append(queue[In], Signal) /\ queue[In] \in Seq(Items)
          /\ pushed \in Seq(Requests) /\ handled \in Seq(Requests) /\ pc'[Closer] = "grab"
      BY <1>1, <1>5, <2>1, QueueFacts DEF IInv, TypeOK, Items
    <3>3. \E k \in 1 .. Len(queue'[In]) : UnhandledWithSignal(queue'[In], pushed, handled, k)
      BY <3>1, <3>2, AppendSignal
    <3> QED
      BY <3>2, <3>3, <2>1, <1>2 DEF IInv, IntakeSound, OrderSound
  <2>4. OnceEach' /\ ResultsSound'
    BY <1>1, <1>2, <1>5, <2>1, ActorFacts, QueueFacts DEF IInv, OnceEach, ResultsSound
  <2> QED BY <1>3, <1>4, <2>2, <2>3, <2>4 DEF IInv
<1>6. ASSUME NEW r \in Requests, a = Call(r) PROVE IInv'
  <2>1. queue' = [queue EXCEPT ![In] = Append(queue[In], r)] /\ pushed' = Append(pushed, r)
    BY <1>2, <1>6, ActorFacts DEF Push
  <2>2. TypeOK'
    BY <1>1, <1>2, <2>1, QueueFacts DEF IInv, TypeOK
  <2>3. \A i \in 1 .. Len(pushed) : pushed[i] # r
    BY <1>1, <1>6 DEF IInv, OnceEach
  <2>4. /\ queue'[In] = Append(queue[In], r) /\ queue[In] \in Seq(Items)
        /\ pushed \in Seq(Requests) /\ handled \in Seq(Requests) /\ pc'[Closer] = pc[Closer]
        /\ Len(handled) <= Len(pushed)
    BY <1>1, <1>6, <2>1, QueueFacts, ActorFacts DEF IInv, TypeOK, OrderSound, Items
  <2>5. IntakeSound'
    <3>1. Unhandled(queue[In], pushed, handled) => Unhandled(queue'[In], pushed', handled')
      BY <2>1, <2>4, <1>2, AppendRequest
    <3>2. ASSUME NEW k \in 1 .. Len(queue[In]), UnhandledWithSignal(queue[In], pushed, handled, k)
          PROVE  /\ UnhandledWithSignal(queue'[In], pushed', handled', k)
                 /\ k \in 1 .. Len(queue'[In])
      <4>1. UnhandledWithSignal(queue'[In], pushed', handled', k)
        BY <2>1, <2>4, <1>2, <3>2, AppendRequest
      <4>2. Len(queue'[In]) = Len(queue[In]) + 1 /\ Len(queue[In]) \in Nat
        BY <2>4
      <4> QED BY <4>1, <4>2
    <3> QED
      BY <3>1, <3>2, <2>4 DEF IInv, IntakeSound
  <2>8. OrderSound'
    <3>1. /\ Len(pushed') = Len(pushed) + 1 /\ pushed'[Len(pushed) + 1] = r
          /\ \A i \in 1 .. Len(pushed) : pushed'[i] = pushed[i]
          /\ Len(pushed) \in Nat /\ Len(handled) \in Nat
      BY <2>1
    <3>2. \A i, j \in 1 .. Len(pushed') : pushed'[i] = pushed'[j] => i = j
      BY <3>1, <2>3 DEF IInv, OrderSound
    <3>3. Len(handled') <= Len(pushed') /\ \A i \in 1 .. Len(handled') : handled'[i] = pushed'[i]
      BY <3>1, <1>2 DEF IInv, OrderSound
    <3> QED BY <3>2, <3>3 DEF OrderSound
  <2>6. OnceEach'
    BY <1>1, <1>2, <1>6, <2>1, <2>4, ActorFacts, QueueFacts DEF IInv, TypeOK, OnceEach
  <2>7. ResultsSound'
    BY <1>2 DEF IInv, ResultsSound
  <2> QED BY <1>3, <1>4, <2>2, <2>5, <2>6, <2>7, <2>8 DEF IInv
<1>7. ASSUME NEW r \in Requests, a = Answer(r) PROVE IInv'
  <2>1. queue' = [queue EXCEPT ![r] = Append(queue[r], r)] /\ pushed' = pushed
    BY <1>2, <1>7, ActorFacts, QueueFacts DEF Push
  <2>2. queue[r] = <<>> /\ queue'[r] = <<r>> /\ queue'[In] = queue[In]
    <3>1. queue[r] = <<>>
      BY <1>1, <1>7 DEF IInv, OnceEach
    <3>2. queue'[r] = Append(<<>>, r) /\ queue'[In] = queue[In]
      BY <3>1, <2>1, QueueFacts DEF IInv, TypeOK
    <3> QED BY <3>1, <3>2
  <2>3. TypeOK'
    BY <1>1, <1>2, <2>1, <2>2, QueueFacts DEF IInv, TypeOK
  <2>4. IntakeSound' /\ OrderSound'
    <3>1. pc'[Closer] = pc[Closer]
      BY <1>1, <1>7, ActorFacts
    <3> QED
      BY <1>2, <2>1, <2>2, <3>1 DEF IInv, IntakeSound, OrderSound
  <2>5. OnceEach'
    BY <1>1, <1>2, <1>7, <2>1 DEF IInv, TypeOK, OnceEach
  <2>6. ResultsSound'
    <3>1. <<r>> \in Seq({r})
      OBVIOUS
    <3> QED
      BY <2>1 DEF IInv, ResultsSound
  <2> QED BY <1>3, <1>4, <2>3, <2>4, <2>5, <2>6 DEF IInv
<1> QED BY <1>5, <1>6, <1>7, PutterKinds

\* The registered futures change hands.
LEMMA GrabStep ==
  ASSUME IInv, NEW a \in Putters, Grab(a)
  PROVE  IInv'
<1>1. a \in Actors /\ pc[a] = "grab" /\ pc' = [pc EXCEPT ![a] = "wake"]
  BY ActorFacts DEF Grab, Go
<1>2. /\ grabbed' = [grabbed EXCEPT ![a] = waiters[PutQueue(a)]]
      /\ waiters' = [waiters EXCEPT ![PutQueue(a)] = {}]
      /\ UNCHANGED <<queue, closed, soon, cancelled, pushed, handled>>
  BY DEF Grab
<1>3. TypeOK'
  BY <1>1, <1>2, QueueFacts DEF IInv, TypeOK
<1>4. LabelsSound'
  BY <1>1, ActorFacts DEF IInv, LabelsSound, PutLabels
<1>5. WakesSound'
  <2>0. grabbed[a] = {}
    BY <1>1 DEF IInv, WakesSound
  <2> QED
    BY <1>1, <1>2, ActorFacts DEF IInv, TypeOK, WakesSound, Waits, WakeUnderWay
<1>6. IntakeSound' /\ OrderSound' /\ ResultsSound'
  <2>1. pc'[Closer] \in {"idle", "check", "push"} => pc[Closer] \in {"idle", "check", "push"}
    BY <1>1
  <2> QED
    BY <1>2, <2>1 DEF IInv, IntakeSound, OrderSound, ResultsSound
<1>7. OnceEach'
  BY <1>1, <1>2 DEF IInv, OnceEach
<1> QED BY <1>3, <1>4, <1>5, <1>6, <1>7 DEF IInv

\* The taken futures are scheduled.
LEMMA WakeStep ==
  ASSUME IInv, NEW a \in Putters, Wake(a)
  PROVE  IInv'
<1>1. /\ a \in Actors /\ pc[a] = "wake"
      /\ pc' = [pc EXCEPT ![a] = CASE a[1] = "call" -> "try" [] a = Closer -> "join" [] OTHER -> "done"]
  BY ActorFacts DEF Wake, Go
<1>2. /\ soon' = soon \cup grabbed[a]
      /\ grabbed' = [grabbed EXCEPT ![a] = {}]
      /\ UNCHANGED <<queue, closed, waiters, cancelled, pushed, handled>>
  BY DEF Wake
<1>3. TypeOK'
  BY <1>1, <1>2 DEF IInv, TypeOK
<1>4. LabelsSound'
  BY <1>1, ActorFacts DEF IInv, LabelsSound, GetLabels
<1>5. WakesSound'
  <2>1. ASSUME NEW c \in Getters
        PROVE  (Waits(c) => Waits(c)') /\ (WakeUnderWay(c) => WakeUnderWay(c)')
    <3>1. \A b \in Putters : b # a => pc'[b] = pc[b] /\ grabbed'[b] = grabbed[b]
      BY <1>1, <1>2
    <3> QED
      BY <1>1, <1>2 DEF Waits, WakeUnderWay
  <2>2. \A c \in Getters : pc'[c] \in {"again", "relook", "await"} => pc'[c] = pc[c]
    BY <1>1
  <2>3. \A b \in Putters : pc'[b] # "wake" => grabbed'[b] = {}
    BY <1>1, <1>2 DEF IInv, TypeOK, WakesSound
  <2> QED
    BY <1>2, <2>1, <2>2, <2>3 DEF IInv, WakesSound
<1>6. IntakeSound' /\ OrderSound' /\ ResultsSound'
  <2>1. pc'[Closer] \in {"idle", "check", "push"} => pc[Closer] \in {"idle", "check", "push"}
    BY <1>1
  <2> QED
    BY <1>2, <2>1 DEF IInv, IntakeSound, OrderSound, ResultsSound
<1>7. OnceEach'
  BY <1>1, <1>2 DEF IInv, OnceEach
<1> QED BY <1>3, <1>4, <1>5, <1>6, <1>7 DEF IInv

\* Giving up one's own future leaves the wake-ups of the other getters alone.
LEMMA DiscardKeeps ==
  ASSUME TypeOK, NEW a \in Getters, Discard(a), NEW c \in Getters, c # a,
         \A b \in Putters : pc[b] = "grab" => pc'[b] = "grab"
  PROVE  (Waits(c) => Waits(c)') /\ (WakeUnderWay(c) => WakeUnderWay(c)')
<1>1. soon' = soon \ {a} /\ \A b \in Putters : grabbed'[b] = grabbed[b] \ {a}
  BY ActorFacts DEF Discard
<1>2. waiters'[GetQueue(c)] = waiters[GetQueue(c)]
  BY QueueFacts DEF Discard
<1> QED BY <1>1, <1>2 DEF Waits, WakeUnderWay

\* The types after it.
LEMMA DiscardTypes ==
  ASSUME TypeOK, NEW a \in Getters, Discard(a)
  PROVE  /\ waiters' \in [Queues -> SUBSET Getters] /\ grabbed' \in [Actors -> SUBSET Getters]
         /\ soon' \subseteq Getters
         /\ \A b \in Putters : grabbed[b] = {} => grabbed'[b] = {}
  BY ActorFacts DEF Discard, TypeOK

\* A getter that stops waiting and moves to a label where it is not registered keeps
\* the facts about wake-ups, whatever becomes of its own queue.
LEMMA LeaveWaiting ==
  ASSUME IInv, NEW a \in Getters, Discard(a), NEW l, pc' = [pc EXCEPT ![a] = l],
         l \notin {"again", "relook", "await", "wake"}, pc[a] \notin {"grab", "wake"},
         \A q \in Queues : q # GetQueue(a) => queue'[q] = queue[q]
  PROVE  WakesSound'
<1>1. a \in Actors /\ pc'[a] = l /\ \A b \in Actors : b # a => pc'[b] = pc[b]
  BY ActorFacts DEF IInv, TypeOK
<1>2. \A b \in Putters : pc[b] = "grab" => pc'[b] = "grab"
  OBVIOUS
<1>3. ASSUME NEW c \in Getters
      PROVE  /\ pc'[c] \in {"again", "relook", "await"} => Waits(c)'
             /\ pc'[c] \in {"relook", "await"} /\ queue'[GetQueue(c)] # <<>> => WakeUnderWay(c)'
  <2>1. CASE c = a
    BY <2>1, <1>1
  <2>2. CASE c # a
    <3>1. pc'[c] = pc[c] /\ queue'[GetQueue(c)] = queue[GetQueue(c)]
      BY <2>2, QueueFacts
    <3>2. (Waits(c) => Waits(c)') /\ (WakeUnderWay(c) => WakeUnderWay(c)')
      BY <2>2, DiscardKeeps DEF IInv
    <3> QED BY <3>1, <3>2 DEF IInv, WakesSound
  <2> QED BY <2>1, <2>2
<1>4. \A b \in Putters : pc'[b] # "wake" => grabbed'[b] = {}
  <2>1. \A b \in Putters : pc'[b] # "wake" => pc[b] # "wake"
    OBVIOUS
  <2> QED BY <2>1, DiscardTypes DEF IInv, WakesSound
<1> QED BY <1>3, <1>4 DEF WakesSound

\* A getter takes an item, or goes on when there is none: the loop the next request or
\* the close signal, a call its result.
LEMMA TakeStep ==
  ASSUME IInv, NEW a \in Getters, NEW l, NEW empty, Take(a, l, empty),
         <<l, empty>> \in {<<"try", "look">>, <<"again", "relook">>}
  PROVE  IInv'
<1>0. /\ a \in Actors /\ pc[a] = l /\ l \in {"try", "again"} /\ UNCHANGED <<cancelled, pushed>>
      /\ (l = "try" => empty = "look") /\ (l = "again" => empty = "relook")
  BY ActorFacts DEF Take
<1>1. CASE queue[GetQueue(a)] = <<>>
  <2>1. pc' = [pc EXCEPT ![a] = empty] /\ UNCHANGED <<queue, closed, waiters, grabbed, soon, handled>>
    BY <1>1 DEF Take, Go
  <2>2. TypeOK'
    BY <1>0, <2>1 DEF IInv, TypeOK
  <2>3. LabelsSound'
    BY <2>1, ActorFacts DEF IInv, LabelsSound, GetLabels
  <2>4. WakesSound'
    <3>1. ASSUME NEW c \in Getters
          PROVE  (Waits(c) => Waits(c)') /\ (WakeUnderWay(c) => WakeUnderWay(c)')
      BY <1>0, <2>1 DEF Waits, WakeUnderWay
    <3>2. \A b \in Putters : pc'[b] # "wake" => grabbed'[b] = {}
      BY <1>0, <2>1 DEF IInv, WakesSound
    <3>3. /\ \A c \in Getters : c # a => pc'[c] = pc[c]
          /\ pc'[a] \in {"again", "relook", "await"} => pc[a] = "again"
      BY <1>0, <2>1
    <3> QED
      BY <1>1, <2>1, <3>1, <3>2, <3>3 DEF IInv, WakesSound
  <2>5. IntakeSound' /\ OrderSound' /\ ResultsSound'
    <3>1. pc'[Closer] = pc[Closer]
      BY <2>1, ActorFacts
    <3> QED
      BY <1>0, <2>1 DEF IInv, IntakeSound, OrderSound, ResultsSound
  <2>6. OnceEach'
    BY <1>0, <2>1 DEF IInv, OnceEach
  <2> QED BY <2>2, <2>3, <2>4, <2>5, <2>6 DEF IInv
<1>2. CASE queue[GetQueue(a)] # <<>>
  <2> DEFINE q == queue[GetQueue(a)]
  <2>1. queue' = [queue EXCEPT ![GetQueue(a)] = Tail(q)] /\ Discard(a)
    BY <1>2 DEF Take
  <2>2. /\ q \in Seq(Items) /\ Head(q) \in Items /\ Tail(q) \in Seq(Items)
        /\ Len(Tail(q)) <= Len(q) /\ queue'[GetQueue(a)] = Tail(q)
        /\ \A p \in Queues : p # GetQueue(a) => queue'[p] = queue[p]
    <3>1. q \in Seq(Items) /\ queue'[GetQueue(a)] = Tail(q)
      BY <2>1, QueueFacts DEF IInv, TypeOK, Items
    <3>2. Head(q) \in Items /\ Tail(q) \in Seq(Items) /\ Len(Tail(q)) = Len(q) - 1
      BY <3>1, <1>2
    <3> QED
      BY <2>1, <3>1, <3>2
  <2>3. queue' \in [Queues -> Seq(Items)] /\ \A r \in Requests : Len(queue'[r]) <= 1
    BY <2>1, <2>2, QueueFacts DEF IInv, TypeOK, Items
  <2>4. CASE a = Loop /\ Head(q) = Signal
    <3>1. pc' = [pc EXCEPT ![a] = "ended"] /\ closed' = TRUE /\ handled' = handled
      BY <1>2, <2>4 DEF Take, Go
    <3>2. TypeOK'
      BY <1>0, <2>1, <2>3, <3>1, DiscardTypes DEF IInv, TypeOK
    <3>3. LabelsSound'
      BY <3>1, ActorFacts DEF IInv, LabelsSound, GetLabels
    <3>4. WakesSound'
      BY <1>0, <2>1, <2>2, <3>1, LeaveWaiting
    <3>5. IntakeSound'
      <4>1. /\ q = queue[In] /\ queue'[In] = Tail(q)
            /\ pushed \in Seq(Requests) /\ handled \in Seq(Requests) /\ Len(handled) <= Len(pushed)
        BY <2>2, <2>4, ActorFacts DEF IInv, TypeOK, OrderSound
      <4>2. Unhandled(Tail(q), pushed, handled)
        BY <2>2, <2>4, <4>1, TakeSignal DEF IInv, IntakeSound
      <4> QED BY <1>0, <3>1, <4>1, <4>2 DEF IntakeSound
    <3>6. OrderSound'
      BY <1>0, <3>1 DEF IInv, OrderSound
    <3>7. OnceEach' /\ ResultsSound'
      BY <1>0, <2>2, <2>4, <3>1, ActorFacts, QueueFacts DEF IInv, TypeOK, OnceEach, ResultsSound
    <3> QED BY <3>2, <3>3, <3>4, <3>5, <3>6, <3>7 DEF IInv
  <2>5. CASE a = Loop /\ Head(q) # Signal
    <3>1. /\ pc' = [pc EXCEPT ![a] = "handle"] /\ closed' = closed
          /\ handled' = Append(handled, Head(q)) /\ Head(q) \in Requests
      BY <2>2, <2>5 DEF Take, Go, Items
    <3>2. /\ q = queue[In] /\ queue'[In] = Tail(q)
          /\ pushed \in Seq(Requests) /\ handled \in Seq(Requests) /\ Len(handled) <= Len(pushed)
          /\ pc'[Closer] = pc[Closer] /\ pc'[Loop] = "handle" /\ handled' \in Seq(Requests)
      BY <2>2, <2>5, <3>1, ActorFacts DEF IInv, TypeOK, OrderSound
    <3>3. TypeOK'
      BY <1>0, <2>1, <2>3, <3>1, DiscardTypes DEF IInv, TypeOK
    <3>4. LabelsSound'
      BY <2>5, <3>1, ActorFacts DEF IInv, LabelsSound
    <3>5. WakesSound'
      BY <1>0, <2>1, <2>2, <3>1, LeaveWaiting
    <3>6. IntakeSound' /\ Len(handled) + 1 <= Len(pushed) /\ Head(q) = pushed[Len(handled) + 1]
      <4>1. CASE Unhandled(q, pushed, handled)
        <5>1. /\ Unhandled(Tail(q), pushed, handled')
              /\ Len(handled) + 1 <= Len(pushed) /\ Head(q) = pushed[Len(handled) + 1]
          BY <2>2, <2>5, <3>1, <3>2, <4>1, TakeRequest
        <5> QED BY <1>0, <3>2, <5>1 DEF IntakeSound
      <4>2. CASE ~ Unhandled(q, pushed, handled)
        <5>1. PICK k \in 1 .. Len(q) : UnhandledWithSignal(q, pushed, handled, k)
          BY <3>2, <4>2 DEF IInv, IntakeSound
        <5>2. /\ k - 1 \in 1 .. Len(Tail(q)) /\ UnhandledWithSignal(Tail(q), pushed, handled', k - 1)
              /\ Len(handled) + 1 <= Len(pushed) /\ Head(q) = pushed[Len(handled) + 1]
          BY <2>2, <2>5, <3>1, <3>2, <5>1, TakeRequest
        <5>3. pc'[Closer] \notin {"idle", "check", "push"}
          BY <3>2, <4>2 DEF IInv, IntakeSound
        <5> QED BY <1>0, <3>2, <5>2, <5>3 DEF IntakeSound
      <4> QED BY <4>1, <4>2
    <3>7. OrderSound'
      <4>1. /\ Len(handled') = Len(handled) + 1 /\ handled'[Len(handled) + 1] = Head(q)
            /\ \A i \in 1 .. Len(handled) : handled'[i] = handled[i]
            /\ Len(pushed) \in Nat /\ Len(handled) \in Nat
        BY <3>1
      <4> QED
        BY <1>0, <3>6, <4>1 DEF IInv, OrderSound
    <3>8. OnceEach'
      <4>1. /\ Len(handled') = Len(handled) + 1 /\ handled'[Len(handled) + 1] = Head(q)
            /\ \A i \in 1 .. Len(handled) : handled'[i] = handled[i]
            /\ Len(pushed) \in Nat /\ Len(handled) \in Nat
        BY <3>1
      <4>2. handled' # <<>>
        BY <3>1
      <4>3. pc[Answer(Head(q))] = "idle"
        <5> SUFFICES ASSUME NEW i \in 1 .. Len(handled), handled[i] = Head(q) PROVE FALSE
          BY <3>1 DEF IInv, OnceEach
        <5>1. pushed[i] = pushed[Len(handled) + 1] /\ i # Len(handled) + 1
          BY <3>6 DEF IInv, OrderSound
        <5> QED
          BY <3>6 DEF IInv, OrderSound
      <4>4. \A r \in Requests : /\ pc'[Call(r)] = pc[Call(r)] /\ pc'[Answer(r)] = pc[Answer(r)]
                                /\ queue'[r] = queue[r]
        BY <2>2, <2>5, <3>1, ActorFacts, QueueFacts
      <4>5. \A r \in Requests : pc'[Answer(r)] # "idle" => \E i \in 1 .. Len(handled') : handled'[i] = r
        BY <4>1, <4>4 DEF IInv, OnceEach
      <4> QED
        BY <1>0, <3>1, <4>3, <4>4 DEF IInv, OnceEach
    <3>9. ResultsSound'
      BY <2>2, <2>5, ActorFacts, QueueFacts DEF IInv, ResultsSound
    <3> QED BY <3>3, <3>4, <3>5, <3>6, <3>7, <3>8, <3>9 DEF IInv
  <2>6. ASSUME NEW r \in Requests, a = Call(r) PROVE IInv'
    <3>1. q \in Seq({r}) /\ Head(q) = r /\ Tail(q) \in Seq({r}) /\ Tail(q) = <<>>
      <4>1. q \in Seq({r}) /\ Len(q) <= 1
        BY <2>6, ActorFacts DEF IInv, TypeOK, ResultsSound
      <4> QED BY <4>1, <1>2
    <3>2. pc' = [pc EXCEPT ![a] = "returned"] /\ closed' = closed /\ handled' = handled
      BY <2>6, <3>1, ActorFacts, QueueFacts DEF Take, Go
    <3>3. TypeOK'
      BY <1>0, <2>1, <2>3, <3>2, DiscardTypes DEF IInv, TypeOK
    <3>4. LabelsSound'
      BY <2>6, <3>2, ActorFacts DEF IInv, LabelsSound
    <3>5. WakesSound'
      BY <1>0, <2>1, <2>2, <3>2, LeaveWaiting
    <3>6. IntakeSound' /\ OrderSound'
      <4>1. pc'[Closer] = pc[Closer] /\ queue'[In] = queue[In]
        BY <2>2, <2>6, <3>2, ActorFacts, QueueFacts
      <4> QED BY <1>0, <3>2, <4>1 DEF IInv, IntakeSound, OrderSound
    <3>7. OnceEach' /\ ResultsSound'
      <4>0. queue'[r] = <<>>
        BY <2>2, <2>6, <3>1, ActorFacts
      <4>1. \A s \in Requests : queue'[s] = queue[s] \/ queue'[s] = <<>>
        BY <2>2, <2>6, <4>0, ActorFacts, QueueFacts
      <4>2. ResultsSound'
        <5>1. \A s \in Requests : <<>> \in Seq({s})
          OBVIOUS
        <5> QED BY <4>1, <5>1 DEF IInv, ResultsSound
      <4> QED
        BY <1>0, <3>2, <4>1, <4>2 DEF IInv, OnceEach
    <3> QED BY <3>3, <3>4, <3>5, <3>6, <3>7 DEF IInv
  <2> QED BY <2>4, <2>5, <2>6, GetterKinds
<1> QED BY <1>1, <1>2

\* A getter that finds nothing ends with a closed queue, else registers or sleeps.
LEMMA LookStep ==
  ASSUME IInv, NEW a \in Getters, Look(a)
  PROVE  IInv'
<1>0. a \in Actors /\ pc[a] \in {"look", "relook"} /\ UNCHANGED <<queue, closed, cancelled, pushed, handled>>
  BY ActorFacts DEF Look
<1>1. PICK l \in {"ended", "register", "await"} :
        /\ pc' = [pc EXCEPT ![a] = l]
        /\ \/ l = "ended" /\ Discard(a)
           \/ /\ l = (IF pc[a] = "look" THEN "register" ELSE "await")
              /\ UNCHANGED <<waiters, grabbed, soon>>
  BY DEF Look, Go
<1>2. TypeOK'
  BY <1>0, <1>1, DiscardTypes DEF IInv, TypeOK
<1>3. LabelsSound'
  BY <1>1, ActorFacts DEF IInv, LabelsSound, GetLabels
<1>4. WakesSound'
  <2>1. CASE l = "ended" /\ Discard(a)
    BY <1>0, <1>1, <2>1, LeaveWaiting
  <2>2. CASE UNCHANGED <<waiters, grabbed, soon>> /\ l = (IF pc[a] = "look" THEN "register" ELSE "await")
    <3>1. ASSUME NEW c \in Getters
          PROVE  (Waits(c) => Waits(c)') /\ (WakeUnderWay(c) => WakeUnderWay(c)')
      BY <1>0, <1>1, <2>2 DEF Waits, WakeUnderWay
    <3>2. \A b \in Putters : pc'[b] # "wake" => grabbed'[b] = {}
      BY <1>0, <1>1, <2>2 DEF IInv, WakesSound
    <3>3. /\ \A c \in Getters : c # a => pc'[c] = pc[c]
          /\ pc'[a] \in {"again", "relook", "await"} => pc[a] = "relook"
      BY <1>0, <1>1
    <3> QED
      BY <1>0, <3>1, <3>2, <3>3 DEF IInv, WakesSound
  <2> QED BY <1>1, <2>1, <2>2
<1>5. IntakeSound' /\ OrderSound' /\ ResultsSound'
  <2>1. pc'[Closer] = pc[Closer]
    BY <1>1, ActorFacts
  <2> QED
    BY <1>0, <2>1 DEF IInv, IntakeSound, OrderSound, ResultsSound
<1>6. OnceEach'
  BY <1>0, <1>1 DEF IInv, OnceEach
<1> QED BY <1>2, <1>3, <1>4, <1>5, <1>6 DEF IInv

\* It registers its future before it looks again.
LEMMA RegisterStep ==
  ASSUME IInv, NEW a \in Getters, Register(a)
  PROVE  IInv'
<1>1. /\ a \in Actors /\ pc[a] = "register" /\ pc' = [pc EXCEPT ![a] = "again"]
      /\ waiters' = [waiters EXCEPT ![GetQueue(a)] = @ \cup {a}]
      /\ UNCHANGED <<queue, closed, grabbed, soon, cancelled, pushed, handled>>
  BY ActorFacts DEF Register, Go
<1>2. TypeOK'
  BY <1>1, QueueFacts DEF IInv, TypeOK
<1>3. LabelsSound'
  BY <1>1, ActorFacts DEF IInv, LabelsSound, GetLabels
<1>4. WakesSound'
  <2>1. /\ a \in waiters'[GetQueue(a)]
        /\ \A c \in Getters : waiters[GetQueue(c)] \subseteq waiters'[GetQueue(c)]
    BY <1>1, QueueFacts DEF IInv, TypeOK
  <2>2. Waits(a)'
    BY <2>1 DEF Waits
  <2>3. ASSUME NEW c \in Getters
        PROVE  (Waits(c) => Waits(c)') /\ (WakeUnderWay(c) => WakeUnderWay(c)')
    BY <1>1 DEF Waits, WakeUnderWay
  <2>4. \A b \in Putters : pc'[b] # "wake" => grabbed'[b] = {}
    BY <1>1 DEF IInv, WakesSound
  <2>5. pc'[a] = "again" /\ \A c \in Getters : c # a => pc'[c] = pc[c]
    BY <1>1 DEF IInv, TypeOK
  <2> QED
    BY <1>1, <2>2, <2>3 DEF IInv, WakesSound
<1>5. IntakeSound' /\ OrderSound' /\ ResultsSound'
  <2>1. pc'[Closer] = pc[Closer]
    BY <1>1, ActorFacts
  <2> QED
    BY <1>1 DEF IInv, IntakeSound, OrderSound, ResultsSound
<1>6. OnceEach'
  BY <1>1 DEF IInv, OnceEach
<1> QED BY <1>2, <1>3, <1>4, <1>5, <1>6 DEF IInv

\* A getter gives up its future: woken, to look again, or, in the loop, cancelled.
LEMMA GiveUpStep ==
  ASSUME IInv, NEW a \in Getters, NEW l \in {"try", "ended"}, pc[a] \in {"await", "handle"},
         pc' = [pc EXCEPT ![a] = l], Discard(a),
         UNCHANGED <<queue, closed, cancelled, pushed, handled>>
  PROVE  IInv'
<1>1. a \in Actors
  BY ActorFacts
<1>2. TypeOK'
  BY <1>1, DiscardTypes DEF IInv, TypeOK
<1>3. LabelsSound'
  BY ActorFacts DEF IInv, LabelsSound, GetLabels
<1>4. WakesSound'
  BY LeaveWaiting
<1>5. IntakeSound' /\ OrderSound' /\ ResultsSound'
  <2>1. pc'[Closer] = pc[Closer]
    BY ActorFacts
  <2> QED
    BY DEF IInv, IntakeSound, OrderSound, ResultsSound
<1>6. OnceEach'
  BY DEF IInv, OnceEach
<1> QED BY <1>2, <1>3, <1>4, <1>5, <1>6 DEF IInv

\* A request is answered by its own batch, once.
LEMMA HandleStep ==
  ASSUME IInv, Handle
  PROVE  IInv'
<1>1. PICK r : r = handled[Len(handled)]
  OBVIOUS
<1>2. /\ pc[Loop] = "handle" /\ pc' = [pc EXCEPT ![Loop] = "try", ![Answer(r)] = "check"]
      /\ UNCHANGED <<queue, closed, waiters, grabbed, soon, cancelled, pushed, handled>>
  BY <1>1 DEF Handle
<1>3. r \in Requests /\ pc[Answer(r)] = "idle" /\ Len(handled) \in 1 .. Len(handled)
  <2>1. handled \in Seq(Requests) /\ handled # <<>> /\ pc[Answer(r)] = "idle"
    BY <1>1, <1>2 DEF IInv, TypeOK, OnceEach
  <2> QED BY <1>1, <2>1
<1>4. /\ Loop \in Actors /\ Answer(r) \in Actors /\ pc'[Loop] = "try" /\ pc'[Answer(r)] = "check"
      /\ \A b \in Actors : b # Loop /\ b # Answer(r) => pc'[b] = pc[b]
  BY <1>2, <1>3, ActorFacts DEF IInv, TypeOK
<1>5. TypeOK'
  BY <1>2, <1>4 DEF IInv, TypeOK
<1>6. LabelsSound'
  BY <1>4, ActorFacts DEF IInv, LabelsSound, PutLabels, GetLabels
<1>7. WakesSound'
  <2>1. \A b \in Putters : pc'[b] = pc[b] \/ (pc[b] = "idle" /\ pc'[b] = "check")
    BY <1>3, <1>4, ActorFacts
  <2>2. ASSUME NEW c \in Getters
        PROVE  (Waits(c) => Waits(c)') /\ (WakeUnderWay(c) => WakeUnderWay(c)')
    BY <1>2, <2>1 DEF Waits, WakeUnderWay
  <2>3. \A c \in Getters : pc'[c] = pc[c] \/ pc'[c] = "try"
    BY <1>3, <1>4, ActorFacts
  <2> QED
    BY <1>2, <2>1, <2>2, <2>3 DEF IInv, WakesSound
<1>8. IntakeSound' /\ OrderSound' /\ ResultsSound'
  <2>1. pc'[Closer] = pc[Closer]
    BY <1>3, <1>4, ActorFacts
  <2> QED
    BY <1>2, <2>1 DEF IInv, IntakeSound, OrderSound, ResultsSound
<1>9. OnceEach'
  <2>1. \A s \in Requests : /\ pc'[Call(s)] = pc[Call(s)]
                            /\ s # r => pc'[Answer(s)] = pc[Answer(s)]
    BY <1>3, <1>4, ActorFacts
  <2>2. \E i \in 1 .. Len(handled) : handled[i] = r
    BY <1>1, <1>3
  <2> QED
    BY <1>2, <1>3, <1>4, <2>1, <2>2 DEF IInv, OnceEach
<1> QED BY <1>5, <1>6, <1>7, <1>8, <1>9 DEF IInv

\* Steps of the calls and of the shutdown between their operations on the queue.
LEMMA MoveStep ==
  ASSUME IInv, NEW a \in Putters, NEW l,
         (pc[a] = "idle" /\ l = "check") \/ (pc[a] = "join" /\ l = "stopped"),
         pc' = [pc EXCEPT ![a] = l], cancelled' \in BOOLEAN, a = Closer \/ \E r \in Requests : a = Call(r),
         UNCHANGED <<queue, closed, waiters, grabbed, soon, pushed, handled>>
  PROVE  IInv'
<1>1. /\ a \in Actors /\ l \in {"check", "stopped"} /\ pc[a] \in {"idle", "join"}
      /\ pc'[a] = l /\ \A b \in Actors : b # a => pc'[b] = pc[b]
  BY ActorFacts DEF IInv, TypeOK
<1>2. TypeOK'
  BY <1>1 DEF IInv, TypeOK
<1>3. LabelsSound'
  BY DEF IInv, LabelsSound, PutLabels, GetLabels
<1>4. WakesSound'
  <2>1. ASSUME NEW c \in Getters
        PROVE  (Waits(c) => Waits(c)') /\ (WakeUnderWay(c) => WakeUnderWay(c)')
    BY DEF Waits, WakeUnderWay
  <2> QED
    BY <2>1 DEF IInv, WakesSound
<1>5. IntakeSound' /\ OrderSound' /\ ResultsSound'
  <2>1. pc'[Closer] \in {"idle", "check", "push"} => pc[Closer] \in {"idle", "check", "push"}
    OBVIOUS
  <2> QED
    BY DEF IInv, IntakeSound, OrderSound, ResultsSound
<1>6. OnceEach'
  <2>1. /\ pc'[Loop] = pc[Loop] /\ \A r \in Requests : pc'[Answer(r)] = pc[Answer(r)]
        /\ \A r \in Requests : pc'[Call(r)] = pc[Call(r)] \/ (pc[Call(r)] = "idle" /\ pc'[Call(r)] = "check")
    BY ActorFacts DEF IInv, LabelsSound, PutLabels, GetLabels
  <2>2. pc[Loop] = "handle" => handled[Len(handled)] \in Requests
    <3>1. pc[Loop] = "handle" => handled \in Seq(Requests) /\ handled # <<>>
      BY DEF IInv, TypeOK, OnceEach
    <3> QED BY <3>1
  <2> QED BY <2>1, <2>2 DEF IInv, OnceEach
<1> QED BY <1>2, <1>3, <1>4, <1>5, <1>6 DEF IInv

\* Every step keeps the invariant.
LEMMA NextInv == IInv /\ [Next]_vars => IInv'
<1> SUFFICES ASSUME IInv, [Next]_vars PROVE IInv'
  OBVIOUS
<1>1. CASE UNCHANGED vars
  <2>1. TypeOK' /\ LabelsSound' /\ IntakeSound' /\ OrderSound'
    BY <1>1 DEF IInv, TypeOK, LabelsSound, IntakeSound, OrderSound, vars
  <2>2. WakesSound'
    BY <1>1 DEF IInv, WakesSound, Waits, WakeUnderWay, vars
  <2>3. OnceEach' /\ ResultsSound'
    BY <1>1 DEF IInv, OnceEach, ResultsSound, vars
  <2> QED BY <2>1, <2>2, <2>3 DEF IInv
<1>2. ASSUME NEW a \in Putters, PutStep(a) PROVE IInv'
  BY <1>2, CheckStep, PushStep, GrabStep, WakeStep DEF PutStep
<1>3. ASSUME NEW a \in Getters, GetStep(a) PROVE IInv'
  <2>1. CASE TakeFirst(a)
    BY <2>1, TakeStep DEF TakeFirst
  <2>2. CASE TakeAgain(a)
    BY <2>2, TakeStep DEF TakeAgain
  <2>3. CASE Look(a)
    BY <2>3, LookStep
  <2>4. CASE Register(a)
    BY <2>4, RegisterStep
  <2>5. CASE Resume(a)
    BY <2>5, GiveUpStep DEF Resume, Go
  <2> QED BY <1>3, <2>1, <2>2, <2>3, <2>4, <2>5 DEF GetStep
<1>4. ASSUME NEW r \in Requests, Execute(r) PROVE IInv'
  <2>1. cancelled' \in BOOLEAN
    BY <1>4 DEF Execute, IInv, TypeOK
  <2> QED
    BY <1>4, <2>1, MoveStep, ActorFacts DEF Execute, Go
<1>5. CASE Handle
  BY <1>5, HandleStep
<1>6. CASE BeginClose
  <2>1. cancelled' \in BOOLEAN
    BY <1>6 DEF BeginClose
  <2> QED
    BY <1>6, <2>1, MoveStep, ActorFacts DEF BeginClose, Go
<1>7. CASE LoopCancelled
  BY <1>7, GiveUpStep, ActorFacts DEF LoopCancelled, Go
<1>8. CASE Join
  <2>1. cancelled' \in BOOLEAN
    BY <1>8 DEF Join, IInv, TypeOK
  <2> QED
    BY <1>8, <2>1, MoveStep, ActorFacts DEF Join, Go
<1> QED BY <1>1, <1>2, <1>3, <1>4, <1>5, <1>6, <1>7, <1>8 DEF Next, Rest

\* The invariant holds throughout.
LEMMA InvHolds == Spec => []IInv
  BY InitInv, NextInv, PTL DEF Spec

-----------------------------------------------------------------------------
(* The results.                                                             *)

\* No wake-up is lost between TSQueue.get and put_nowait of another thread, for every
\* number of calls and every interleaving.
THEOREM WakeupsAreNotLost == Spec => []NoLostWakeup
<1>1. IInv => NoLostWakeup
  BY DEF IInv, WakesSound, NoLostWakeup
<1> QED BY <1>1, InvHolds, PTL

\* What the queue holds besides the close signal is what was put and not handled.
LEMMA NothingMissing ==
  ASSUME NEW q \in Seq(Items), NEW p \in Seq(Requests), NEW h \in Seq(Requests), Len(h) <= Len(p),
         Unhandled(q, p, h) \/ \E k \in 1 .. Len(q) : UnhandledWithSignal(q, p, h, k)
  PROVE  /\ Len(q) <= (Len(p) - Len(h)) + 1
         /\ \A i \in Len(h) + 1 .. Len(p) : \E k \in 1 .. Len(q) : q[k] = p[i]
<1>1. Len(q) \in Nat /\ Len(p) \in Nat /\ Len(h) \in Nat
  OBVIOUS
<1>2. CASE Unhandled(q, p, h)
  <2>1. ASSUME NEW i \in Len(h) + 1 .. Len(p) PROVE \E k \in 1 .. Len(q) : q[k] = p[i]
    <3>1. i - Len(h) \in 1 .. Len(q) /\ Len(h) + (i - Len(h)) = i
      BY <1>2 DEF Unhandled
    <3>2. q[i - Len(h)] = p[i]
      BY <1>2, <3>1 DEF Unhandled
    <3> QED BY <3>1, <3>2
  <2> QED BY <1>1, <1>2, <2>1 DEF Unhandled
<1>3. ASSUME NEW k \in 1 .. Len(q), UnhandledWithSignal(q, p, h, k)
      PROVE  /\ Len(q) <= (Len(p) - Len(h)) + 1
             /\ \A i \in Len(h) + 1 .. Len(p) : \E n \in 1 .. Len(q) : q[n] = p[i]
  <2>1. ASSUME NEW i \in Len(h) + 1 .. Len(p) PROVE \E n \in 1 .. Len(q) : q[n] = p[i]
    <3>1. CASE i - Len(h) < k
      <4>1. i - Len(h) \in 1 .. Len(q) /\ Len(h) + (i - Len(h)) = i
        BY <1>3 DEF UnhandledWithSignal
      <4>2. q[i - Len(h)] = p[i]
        BY <1>3, <3>1 DEF UnhandledWithSignal
      <4> QED BY <4>1, <4>2
    <3>2. CASE ~ (i - Len(h) < k)
      <4>1. /\ (i - Len(h)) + 1 \in 1 .. Len(q) /\ (i - Len(h)) + 1 > k
            /\ (Len(h) + ((i - Len(h)) + 1)) - 1 = i
        BY <1>3, <3>2 DEF UnhandledWithSignal
      <4>2. q[(i - Len(h)) + 1] = p[i]
        BY <1>3, <4>1 DEF UnhandledWithSignal
      <4> QED BY <4>1, <4>2
    <3> QED BY <3>1, <3>2
  <2> QED BY <1>1, <1>3, <2>1 DEF UnhandledWithSignal
<1> QED BY <1>2, <1>3

\* The intake loop handles the requests in the order in which they were put, each once,
\* and those it has not handled are in the queue (AsyncEventLoop over TSQueue).
THEOREM HandledInPutOrder == Spec => []HandledInOrder
<1>1. IInv => HandledInOrder
  <2> SUFFICES ASSUME IInv PROVE HandledInOrder
    OBVIOUS
  <2>1. /\ handled \in Seq(Requests) /\ pushed \in Seq(Requests) /\ queue[In] \in Seq(Items)
        /\ Len(handled) <= Len(pushed) /\ \A i \in 1 .. Len(handled) : handled[i] = pushed[i]
    BY QueueFacts DEF IInv, TypeOK, OrderSound, Items
  <2>2. handled = SubSeq(pushed, 1, Len(handled))
    <3>1. SubSeq(pushed, 1, Len(handled)) = [i \in 1 .. Len(handled) |-> pushed[i]]
      OBVIOUS
    <3>2. handled = [i \in 1 .. Len(handled) |-> handled[i]]
      BY <2>1
    <3> QED BY <2>1, <3>1, <3>2
  <2>3. /\ Len(queue[In]) <= (Len(pushed) - Len(handled)) + 1
        /\ \A i \in Len(handled) + 1 .. Len(pushed) :
             \E k \in 1 .. Len(queue[In]) : queue[In][k] = pushed[i]
    BY <2>1, NothingMissing DEF IInv, IntakeSound
  <2> QED BY <2>2, <2>3 DEF IInv, OrderSound, HandledInOrder
<1> QED BY <1>1, InvHolds, PTL

=============================================================================
