----------------------- MODULE ServiceDispatch_proofs -----------------------
(***************************************************************************)
(* Proofs about ServiceDispatch, for any numbers of services, workers,      *)
(* posting threads and messages, when every send goes through the overload  *)
(* that looks at Invoke_ (Acceptors = {}).                                  *)
(***************************************************************************)
EXTENDS ServiceDispatch, TLAPS

-----------------------------------------------------------------------------
(* The inductive invariant.                                                *)

\* a thread inside send has a service to send to
TargetOK == \A t \in Threads : spc[t] # "idle" => target[t] \in Services

\* a worker has a service exactly while it is inside service::start
CurOK ==
  \A w \in Workers :
    cur[w] \in Services
      <=> wpc[w] \in {"size", "pop", "run", "requeue", "clear"}

\* services are deleted by Cancel only, which shuts the queue down
ShutOK == freed # {} => shutdown

\* no more messages are taken from a service than were put there
MailOK == \A s \in Services : popped[s] <= pushed[s]

\* the loop of service::start counts at most the messages that are there
LeftOK ==
  \A w \in Workers :
    wpc[w] \in {"pop", "run"} => left[w] <= Queued(cur[w])

Typed == TypeOK /\ TargetOK /\ CurOK /\ MailOK

Placed == ScheduledOnce /\ InvokeIsScheduled /\ FreedIsNotRun /\ ShutOK

IInv == Typed /\ Placed /\ LeftOK

-----------------------------------------------------------------------------
(* What the queue operations do to the places of services.                 *)

\* Push adds one service to those on the queue, at its end.
LEMMA PushPlaces ==
  ASSUME gqueue \in Seq(Services), NEW s \in Services, Push(s), freed' = freed
  PROVE  /\ gqueue' \in Seq(Services)
         /\ asleep' \subseteq asleep
         /\ \A x \in Services : InQueue(x)' <=> InQueue(x) \/ x = s
         /\ QueuedOnce /\ (~InQueue(s) \/ s \in freed) => QueuedOnce'
  BY DEF Push, InQueue, QueuedOnce

\* WaitAndPop removes the service at the front and no other.
LEMMA PopPlaces ==
  ASSUME gqueue \in Seq(Services), gqueue # <<>>, gqueue' = Tail(gqueue),
         freed = {}, freed' = freed,
         NEW s, s = Head(gqueue)
  PROVE  /\ s \in Services
         /\ gqueue' \in Seq(Services)
         /\ \A x \in Services : InQueue(x) <=> InQueue(x)' \/ x = s
         /\ QueuedOnce => QueuedOnce' /\ ~InQueue(s)'
<1>1. /\ Len(gqueue) > 0
      /\ DOMAIN gqueue = 1 .. Len(gqueue)
      /\ gqueue' \in Seq(Services)
      /\ Len(gqueue') = Len(gqueue) - 1
      /\ DOMAIN gqueue' = 1 .. Len(gqueue')
      /\ s = gqueue[1] /\ s \in Services
  OBVIOUS
<1>2. \A i \in DOMAIN gqueue' : gqueue'[i] = gqueue[i + 1]
  OBVIOUS
<1>3. ASSUME NEW x \in Services, InQueue(x)
      PROVE  InQueue(x)' \/ x = s
  <2>1. PICK i \in DOMAIN gqueue : gqueue[i] = x
    BY <1>3 DEF InQueue
  <2>2. CASE i = 1
    BY <2>1, <2>2, <1>1
  <2>3. CASE i > 1
    <3>1. i - 1 \in DOMAIN gqueue' /\ gqueue'[i - 1] = x
      BY <2>1, <2>3, <1>1, <1>2
    <3> QED BY <3>1 DEF InQueue
  <2> QED BY <2>2, <2>3, <1>1
<1>4. ASSUME NEW x \in Services, InQueue(x)' \/ x = s
      PROVE  InQueue(x)
  BY <1>4, <1>1, <1>2 DEF InQueue
<1>5. ASSUME QueuedOnce
      PROVE  QueuedOnce' /\ ~InQueue(s)'
  <2>1. \A i \in DOMAIN gqueue' : i \in Nat /\ i + 1 \in DOMAIN gqueue
    BY <1>1
  <2>2. \A i, j \in DOMAIN gqueue' : gqueue'[i] = gqueue'[j] => i + 1 = j + 1
    BY <1>5, <1>2, <2>1 DEF QueuedOnce
  <2>3. QueuedOnce'
    BY <2>1, <2>2 DEF QueuedOnce
  <2>4. \A i \in DOMAIN gqueue' : gqueue'[i] # gqueue[1]
    BY <1>5, <1>1, <1>2, <2>1 DEF QueuedOnce
  <2> QED BY <1>1, <2>3, <2>4 DEF InQueue
<1> QED BY <1>1, <1>3, <1>4, <1>5

-----------------------------------------------------------------------------
(* Typing.                                                                 *)

\* Every step keeps the types of the variables, and what is behind the target of a send.
LEMMA TypedStep ==
  ASSUME Typed, [Next]_vars
  PROVE  Typed'
<1> USE DispatchAssumption
    DEF Typed, TypeOK, TargetOK, CurOK, MailOK, Threads, WorkerPCs, Goto,
        Queued,
        queueVars, mailVars, workVars, sendVars, stopVars
<1>1. ASSUME NEW t \in Threads, NEW s \in Services,
             PushMessage(t, s) \/ SendRaw(t, s)
      PROVE  Typed'
  <2>1. PICK next \in {"cas", "push"} : DeliverTo(t, s, next)
    BY <1>1 DEF PushMessage, SendRaw
  <2>2. pushed' \in [Services -> Nat] /\ MailOK'
    <3>1. CASE s \in freed
      BY <2>1, <3>1 DEF DeliverTo
    <3>2. CASE s \notin freed
      <4>1. pushed' = [pushed EXCEPT ![s] = @ + 1] /\ popped' = popped
        BY <2>1, <3>2 DEF DeliverTo
      <4> QED BY <4>1
    <3> QED BY <3>1, <3>2
  <2> QED BY <2>1, <2>2 DEF DeliverTo
<1>2. ASSUME NEW t \in Threads, CompareExchange(t)
      PROVE  Typed'
  BY <1>2 DEF CompareExchange
<1>3. ASSUME NEW t \in Threads, QueuePush(t)
      PROVE  Typed'
  <2>1. PICK s \in Services : s = target[t]
    BY <1>3 DEF QueuePush
  <2>2. gqueue' \in Seq(Services) /\ asleep' \subseteq asleep
    BY <1>3, <2>1, PushPlaces DEF QueuePush
  <2> QED BY <1>3, <2>2 DEF QueuePush, Push
<1>4. ASSUME NEW w \in Workers, LoopCheck(w)
      PROVE  Typed'
  BY <1>4 DEF LoopCheck
<1>5. ASSUME NEW w \in Workers,
             \/ WaitReturnsNull(w) \/ WaitSleeps(w) \/ SpuriousWakeup(w)
             \/ ReadSize(w) \/ PopNull(w) \/ EndHandler(w) \/ CheckEmpty(w)
      PROVE  Typed'
  <2>1. CASE ReadSize(w)
    <3>1. SizeRead(cur[w]) \subseteq Nat
      BY <1>5, <2>1 DEF ReadSize, SizeRead
    <3> QED BY <1>5, <2>1, <3>1 DEF ReadSize
  <2>2. CASE WaitReturnsNull(w) \/ WaitSleeps(w) \/ SpuriousWakeup(w)
    BY <1>5, <2>2 DEF WaitReturnsNull, WaitSleeps, SpuriousWakeup
  <2>3. CASE PopNull(w)
    BY <1>5, <2>3 DEF PopNull
  <2>4. CASE EndHandler(w) \/ CheckEmpty(w)
    BY <1>5, <2>4 DEF EndHandler, CheckEmpty
  <2> QED BY <1>5, <2>1, <2>2, <2>3, <2>4
<1>6. ASSUME NEW w \in Workers, WaitPops(w)
      PROVE  Typed'
  <2>1. Head(gqueue) \in Services /\ gqueue' \in Seq(Services)
    BY <1>6 DEF WaitPops
  <2> QED BY <1>6, <2>1 DEF WaitPops
<1>7. ASSUME NEW w \in Workers, PopMessage(w)
      PROVE  Typed'
  BY <1>7 DEF PopMessage
<1>8. ASSUME NEW w \in Workers, Requeue(w)
      PROVE  Typed'
  <2>1. PICK s \in Services : s = cur[w]
    BY <1>8 DEF Requeue
  <2>2. gqueue' \in Seq(Services) /\ asleep' \subseteq asleep
    BY <1>8, <2>1, PushPlaces DEF Requeue
  <2> QED BY <1>8, <2>2 DEF Requeue, Push
<1>9. ASSUME NEW w \in Workers, ClearInvoke(w)
      PROVE  Typed'
  BY <1>9 DEF ClearInvoke
<1>10. ASSUME Signal \/ StopStep
       PROVE  Typed'
  <2>1. CASE Signal
    BY <2>1 DEF Signal
  <2>2. CASE Cancel
    <3>1. freed' \subseteq Services /\ gqueue' \in Seq(Services)
      BY <2>2 DEF Cancel, DeleteQueued
    <3>2. popped' \in [Services -> Nat] /\ MailOK'
      BY <2>2 DEF Cancel, DeleteQueued
    <3> QED BY <2>2, <3>1, <3>2 DEF Cancel
  <2>3. ASSUME NEW w \in Workers, SetStop(w) PROVE Typed'
    BY <2>3 DEF SetStop
  <2> QED BY <1>10, <2>1, <2>2, <2>3 DEF StopStep
<1>11. CASE UNCHANGED vars
  BY <1>11 DEF vars
<1> QED
  BY <1>1, <1>2, <1>3, <1>4, <1>5, <1>6, <1>7, <1>8, <1>9, <1>10, <1>11
  DEF Next, SendStep, WorkerStep

-----------------------------------------------------------------------------
(* The places of the services.                                             *)

\* Placed speaks of the queue and of the places and flags of the services that
\* are not deleted only.
LEMMA PlacedSame ==
  ASSUME Placed, freed \subseteq Services,
         UNCHANGED <<gqueue, shutdown, cur, freed>>,
         \A s \in Services \ freed : Invoke_'[s] = Invoke_[s],
         \A t \in Threads, s \in Services \ freed : InPush(t, s)' <=> InPush(t, s)
  PROVE  Placed'
<1>1. \A s \in Services : InQueue(s)' <=> InQueue(s)
  BY DEF InQueue
<1>2. \A w \in Workers, s \in Services : InHand(w, s)' <=> InHand(w, s)
  BY DEF InHand
<1>3. \A s \in Services \ freed : Scheduled(s)' <=> Scheduled(s)
  BY <1>1, <1>2 DEF Scheduled
<1>4. ScheduledOnce'
  <2>1. QueuedOnce'
    BY DEF Placed, ScheduledOnce, QueuedOnce
  <2> QED BY <1>1, <1>2, <2>1 DEF Placed, ScheduledOnce
<1>5. InvokeIsScheduled'
  BY <1>3 DEF Placed, InvokeIsScheduled
<1>6. FreedIsNotRun' /\ ShutOK'
  BY DEF Placed, FreedIsNotRun, ShutOK
<1> QED BY <1>4, <1>5, <1>6 DEF Placed

\* A sender whose compare-exchange succeeds holds the service alone, unless it
\* was deleted: the flag was clear, so it was at no place.
LEMMA CompareExchangePlaced ==
  ASSUME Typed, Placed, NEW t \in Threads, CompareExchange(t)
  PROVE  Placed'
<1> USE DEF Typed, TypeOK, TargetOK
<1>0. PICK s \in Services : s = target[t]
  BY DEF CompareExchange
<1>1. /\ UNCHANGED <<gqueue, shutdown, cur, freed>>
      /\ \A u \in Threads, x \in Services \ {s} : InPush(u, x)' <=> InPush(u, x)
      /\ \A x \in Services \ {s} : Invoke_'[x] = Invoke_[x]
      /\ Invoke_'[s]
  BY <1>0 DEF CompareExchange, InPush, queueVars, workVars, stopVars
<1>2. CASE s \in freed
  BY <1>1, <1>2, PlacedSame
<1>3. CASE s \notin freed /\ Invoke_[s]
  <2>1. FlagRead(s) = {TRUE}
    BY <1>3 DEF FlagRead
  <2>2. \A u \in Threads : InPush(u, s)' <=> InPush(u, s)
    BY <1>0, <2>1 DEF CompareExchange, InPush
  <2> QED BY <1>1, <1>3, <2>2, PlacedSame
<1>4. CASE s \notin freed /\ ~Invoke_[s]
  <2>1. ~Scheduled(s)
    BY <1>4 DEF Placed, InvokeIsScheduled
  <2>2. FlagRead(s) = {FALSE}
    BY <1>4 DEF FlagRead
  <2>3. \A u \in Threads : InPush(u, s)' <=> u = t
    BY <1>0, <2>1, <2>2 DEF CompareExchange, InPush, Scheduled
  <2>4. \A x \in Services : InQueue(x)' <=> InQueue(x)
    BY <1>1 DEF InQueue
  <2>5. \A w \in Workers, x \in Services : InHand(w, x)' <=> InHand(w, x)
    BY <1>1 DEF InHand
  <2>6. \A x \in Services : Scheduled(x)' <=> Scheduled(x) \/ x = s
    BY <1>1, <2>3, <2>4, <2>5 DEF Scheduled
  <2>7. ScheduledOnce'
    <3>1. QueuedOnce'
      BY <1>1 DEF QueuedOnce, Placed, ScheduledOnce
    <3> QED
      BY <1>1, <2>1, <2>3, <2>4, <2>5, <3>1 DEF Placed, ScheduledOnce, Scheduled
  <2>8. InvokeIsScheduled'
    BY <1>1, <2>6 DEF Placed, InvokeIsScheduled
  <2>9. FreedIsNotRun' /\ ShutOK'
    BY <1>1 DEF Placed, FreedIsNotRun, ShutOK
  <2> QED BY <2>7, <2>8, <2>9 DEF Placed
<1> QED BY <1>2, <1>3, <1>4

\* A service moves from the hands of a sender or of a worker to the queue.
LEMMA MovedPlaced ==
  ASSUME Typed, Placed, NEW s \in Services \ freed, Push(s), ~InQueue(s),
         Scheduled(s), ~(\E w \in Workers : InHand(w, s)'),
         ~(\E t \in Threads : InPush(t, s)'),
         \A w \in Workers, x \in Services \ {s} : InHand(w, x)' <=> InHand(w, x),
         \A t \in Threads, x \in Services \ {s} : InPush(t, x)' <=> InPush(t, x),
         UNCHANGED <<Invoke_, freed>>
  PROVE  Placed'
<1>1. /\ \A x \in Services : InQueue(x)' <=> InQueue(x) \/ x = s
      /\ QueuedOnce'
  BY PushPlaces DEF Typed, TypeOK, Placed, ScheduledOnce
<1>2. \A x \in Services : Scheduled(x)' <=> Scheduled(x)
  BY <1>1 DEF Scheduled
<1>3. ScheduledOnce'
  BY <1>1 DEF Placed, ScheduledOnce
<1>4. InvokeIsScheduled'
  BY <1>2 DEF Placed, InvokeIsScheduled
<1>5. FreedIsNotRun' /\ ShutOK'
  <2>1. \A w \in Workers : cur[w] \notin freed
    BY DEF Placed, FreedIsNotRun
  <2>2. \A w \in Workers : cur'[w] \notin freed
    BY <2>1 DEF InHand, Typed, TypeOK
  <2> QED BY <2>2 DEF Placed, FreedIsNotRun, ShutOK, Push
<1> QED BY <1>3, <1>4, <1>5 DEF Placed

\* Pushing a service to the global queue (service_manager::send) leaves it in one place.
LEMMA QueuePushPlaced ==
  ASSUME Typed, Placed, NEW t \in Threads, QueuePush(t)
  PROVE  Placed'
<1>0. PICK s \in Services : s = target[t]
  BY DEF QueuePush, Typed, TargetOK
<1>1. InPush(t, s) /\ Push(s) /\ UNCHANGED <<cur, Invoke_, freed, shutdown>>
  BY <1>0 DEF QueuePush, InPush, workVars, stopVars, Push
<1>2. \A w \in Workers, x \in Services : InHand(w, x)' <=> InHand(w, x)
  BY <1>1 DEF InHand
<1>3. \A u \in Threads, x \in Services : InPush(u, x)' <=> InPush(u, x) /\ u # t
  BY DEF QueuePush, InPush, Typed, TypeOK
<1>4. \A u \in Threads, x \in Services \ {s} : InPush(u, x)' <=> InPush(u, x)
  BY <1>0, <1>3 DEF InPush
<1>5. CASE s \notin freed
  <2>1. /\ ~InQueue(s) /\ Scheduled(s)
        /\ \A w \in Workers : ~InHand(w, s)
        /\ \A u \in Threads : InPush(u, s) => u = t
    BY <1>1, <1>5 DEF Placed, ScheduledOnce, Scheduled
  <2> QED BY <1>1, <1>2, <1>3, <1>4, <1>5, <2>1, MovedPlaced
<1>6. CASE s \in freed
  <2>1. /\ \A x \in Services \ freed : InQueue(x)' <=> InQueue(x)
        /\ QueuedOnce'
    BY <1>1, <1>6, PushPlaces DEF Typed, TypeOK, Placed, ScheduledOnce
  <2>2. \A x \in Services \ freed : Scheduled(x)' <=> Scheduled(x)
    BY <1>2, <1>4, <1>6, <2>1 DEF Scheduled
  <2>3. ScheduledOnce'
    BY <1>1, <1>2, <1>4, <1>6, <2>1 DEF Placed, ScheduledOnce
  <2>4. InvokeIsScheduled' /\ FreedIsNotRun' /\ ShutOK'
    BY <1>1, <2>2 DEF Placed, InvokeIsScheduled, FreedIsNotRun, ShutOK
  <2> QED BY <2>3, <2>4 DEF Placed
<1> QED BY <1>5, <1>6

\* So does a worker that puts its service back (service::start).
LEMMA RequeuePlaced ==
  ASSUME Typed, Placed, NEW w \in Workers, Requeue(w)
  PROVE  Placed'
<1> USE DispatchAssumption DEF Typed, TypeOK, CurOK
<1>0. PICK s \in Services : s = cur[w]
  BY DEF Requeue
<1>1. /\ InHand(w, s) /\ Push(s) /\ s \notin freed
      /\ UNCHANGED <<spc, target, Invoke_, freed>>
  BY <1>0 DEF Requeue, InHand, sendVars, stopVars, Placed, FreedIsNotRun
<1>2. /\ ~InQueue(s) /\ Scheduled(s)
      /\ \A t \in Threads : ~InPush(t, s)
      /\ \A v \in Workers : InHand(v, s) => v = w
  BY <1>1 DEF Placed, ScheduledOnce, Scheduled
<1>3. \A v \in Workers, x \in Services : InHand(v, x)' <=> InHand(v, x) /\ v # w
  BY DEF Requeue, InHand
<1>4. \A v \in Workers, x \in Services \ {s} : InHand(v, x)' <=> InHand(v, x)
  BY <1>0, <1>3 DEF InHand
<1>5. \A t \in Threads, x \in Services : InPush(t, x)' <=> InPush(t, x)
  BY <1>1 DEF InPush
<1> QED BY <1>1, <1>2, <1>3, <1>4, <1>5, MovedPlaced

\* A worker takes the service from the queue.
LEMMA WaitPopsPlaced ==
  ASSUME Typed, Placed, NEW w \in Workers, WaitPops(w)
  PROVE  Placed'
<1> USE DispatchAssumption DEF Typed, TypeOK, CurOK
<1> freed = {} /\ freed' = freed
  BY DEF WaitPops, stopVars, Placed, ShutOK
<1>0. PICK s \in Services : s = Head(gqueue)
  BY PopPlaces DEF WaitPops
<1>1. /\ \A x \in Services : InQueue(x) <=> InQueue(x)' \/ x = s
      /\ QueuedOnce' /\ ~InQueue(s)'
      /\ UNCHANGED <<spc, target, Invoke_, freed>>
  BY <1>0, PopPlaces
  DEF WaitPops, Placed, ScheduledOnce, sendVars, stopVars
<1>2. /\ cur[w] \notin Services
      /\ \A v \in Workers : ~InHand(v, s)
      /\ \A t \in Threads : ~InPush(t, s)
  <2>1. InQueue(s)
    BY <1>1
  <2> QED BY <2>1 DEF WaitPops, Placed, ScheduledOnce
<1>3. \A v \in Workers, x \in Services :
        InHand(v, x)' <=> InHand(v, x) \/ (v = w /\ x = s)
  BY <1>0, <1>2 DEF WaitPops, InHand
<1>4. \A t \in Threads, x \in Services : InPush(t, x)' <=> InPush(t, x)
  BY <1>1 DEF InPush
<1>5. \A x \in Services : Scheduled(x)' <=> Scheduled(x)
  BY <1>1, <1>3, <1>4 DEF Scheduled
<1>6. ScheduledOnce'
  BY <1>1, <1>2, <1>3, <1>4 DEF Placed, ScheduledOnce
<1>7. InvokeIsScheduled' /\ FreedIsNotRun' /\ ShutOK'
  BY <1>1, <1>5 DEF Placed, InvokeIsScheduled, FreedIsNotRun, ShutOK
<1> QED BY <1>6, <1>7 DEF Placed

\* The worker that clears the flag was the only place of its service.
LEMMA ClearInvokePlaced ==
  ASSUME Typed, Placed, NEW w \in Workers, ClearInvoke(w)
  PROVE  Placed'
<1> USE DispatchAssumption DEF Typed, TypeOK, CurOK
<1>0. PICK s \in Services : s = cur[w]
  BY DEF ClearInvoke
<1>1. /\ InHand(w, s)
      /\ UNCHANGED <<gqueue, shutdown, spc, target, freed>>
      /\ \A x \in Services : Invoke_'[x] <=> Invoke_[x] /\ x # s
  BY <1>0 DEF ClearInvoke, InHand, queueVars, sendVars, stopVars
<1>2. /\ ~InQueue(s) /\ s \notin freed
      /\ \A t \in Threads : ~InPush(t, s)
      /\ \A v \in Workers : InHand(v, s) => v = w
  BY <1>1 DEF Placed, ScheduledOnce, FreedIsNotRun, InHand
<1>3. \A v \in Workers, x \in Services : InHand(v, x)' <=> InHand(v, x) /\ v # w
  BY DEF ClearInvoke, InHand
<1>4. /\ \A x \in Services : InQueue(x)' <=> InQueue(x)
      /\ \A t \in Threads, x \in Services : InPush(t, x)' <=> InPush(t, x)
  BY <1>1 DEF InQueue, InPush
<1>5. \A x \in Services : Scheduled(x)' <=> Scheduled(x) /\ x # s
  BY <1>0, <1>2, <1>3, <1>4 DEF Scheduled, InHand
<1>6. ScheduledOnce'
  <2>1. QueuedOnce'
    BY <1>1 DEF QueuedOnce, Placed, ScheduledOnce
  <2> QED BY <2>1, <1>1, <1>3, <1>4 DEF Placed, ScheduledOnce
<1>7. InvokeIsScheduled'
  BY <1>1, <1>2, <1>5 DEF Placed, InvokeIsScheduled
<1>8. FreedIsNotRun' /\ ShutOK'
  BY <1>1, <1>3 DEF Placed, FreedIsNotRun, ShutOK, InHand
<1> QED BY <1>6, <1>7, <1>8 DEF Placed

\* Cancel deletes exactly the services on the queue, which are nowhere else.
LEMMA CancelPlaced ==
  ASSUME Typed, Placed, Cancel
  PROVE  Placed'
<1> USE DEF Typed, TypeOK
<1>1. /\ \A x \in Services : ~InQueue(x)'
      /\ \A x \in Services : x \in freed' <=> x \in freed \/ InQueue(x)
      /\ freed' \subseteq Services
      /\ shutdown'
      /\ UNCHANGED <<cur, spc, target, Invoke_>>
  BY DEF Cancel, DeleteQueued, InQueue, workVars, sendVars
<1>2. QueuedOnce'
  BY DEF Cancel, QueuedOnce
<1>3. /\ \A w \in Workers, x \in Services : InHand(w, x)' <=> InHand(w, x)
      /\ \A t \in Threads, x \in Services : InPush(t, x)' <=> InPush(t, x)
  BY <1>1 DEF InHand, InPush
<1>4. \A x \in Services \ freed' :
        x \in Services \ freed /\ (Scheduled(x)' <=> Scheduled(x))
  BY <1>1, <1>3 DEF Scheduled
<1>5. ScheduledOnce'
  BY <1>1, <1>2, <1>3, <1>4 DEF Placed, ScheduledOnce
<1>6. InvokeIsScheduled' /\ ShutOK'
  BY <1>1, <1>4 DEF Placed, InvokeIsScheduled, ShutOK
<1>7. FreedIsNotRun'
  <2>1. \A w \in Workers : cur[w] \notin freed
    BY DEF Placed, FreedIsNotRun
  <2>2. \A w \in Workers, x \in Services \ freed : InHand(w, x) => ~InQueue(x)
    BY DEF Placed, ScheduledOnce
  <2> QED BY <1>1, <2>1, <2>2 DEF FreedIsNotRun, InHand
<1> QED BY <1>5, <1>6, <1>7 DEF Placed

\* Every step leaves each service in one place: nowhere, queued, or in one hand.
LEMMA PlacedStep ==
  ASSUME Acceptors = {}, Typed, Placed, [Next]_vars
  PROVE  Placed'
<1> USE DispatchAssumption DEF Typed, TypeOK
<1>1. ASSUME NEW t \in Threads, NEW s \in Services, PushMessage(t, s)
      PROVE  Placed'
  <2>1. \A u \in Threads, x \in Services : InPush(u, x)' <=> InPush(u, x)
    BY <1>1 DEF PushMessage, DeliverTo, InPush
  <2> QED
    BY <1>1, <2>1, PlacedSame
    DEF PushMessage, DeliverTo, queueVars, workVars, stopVars
<1>2. ASSUME NEW t \in Threads, NEW s \in Services, SendRaw(t, s)
      PROVE  Placed'
  BY <1>2 DEF SendRaw
<1>3. ASSUME NEW w \in Workers,
             \/ LoopCheck(w) \/ WaitReturnsNull(w) \/ WaitSleeps(w)
             \/ SpuriousWakeup(w) \/ ReadSize(w) \/ PopMessage(w)
             \/ PopNull(w) \/ EndHandler(w) \/ CheckEmpty(w)
      PROVE  Placed'
  <2>1. UNCHANGED <<gqueue, shutdown, cur, Invoke_, freed, spc, target>>
    BY <1>3
    DEF LoopCheck, WaitReturnsNull, WaitSleeps, SpuriousWakeup, ReadSize,
        PopMessage, PopNull, EndHandler, CheckEmpty, queueVars, workVars,
        sendVars, stopVars
  <2>2. \A u \in Threads, x \in Services : InPush(u, x)' <=> InPush(u, x)
    BY <2>1 DEF InPush
  <2> QED BY <2>1, <2>2, PlacedSame
<1>4. ASSUME \/ Signal
             \/ \E w \in Workers : SetStop(w)
             \/ UNCHANGED vars
      PROVE  Placed'
  <2>1. UNCHANGED <<gqueue, shutdown, cur, Invoke_, freed, spc, target>>
    BY <1>4
    DEF Signal, SetStop, vars, queueVars, workVars, sendVars, stopVars
  <2>2. \A u \in Threads, x \in Services : InPush(u, x)' <=> InPush(u, x)
    BY <2>1 DEF InPush
  <2> QED BY <2>1, <2>2, PlacedSame
<1> QED
  BY <1>1, <1>2, <1>3, <1>4, CompareExchangePlaced, QueuePushPlaced,
     RequeuePlaced, WaitPopsPlaced, ClearInvokePlaced, CancelPlaced
  DEF Next, SendStep, WorkerStep, StopStep

-----------------------------------------------------------------------------
(* The count read without the lock.                                        *)

\* Only the worker inside a service takes messages from it, so what it counted
\* stays there until it takes it.
LEMMA LeftStep ==
  ASSUME Typed, Placed, LeftOK, [Next]_vars
  PROVE  LeftOK'
<1> USE DispatchAssumption
    DEF Typed, TypeOK, CurOK, MailOK, LeftOK, Queued, WorkerPCs, Goto
<1>1. \A v, w \in Workers : cur[v] = cur[w] /\ cur[w] \in Services => v = w
  BY DEF Placed, ScheduledOnce, InHand, FreedIsNotRun
<1>2. ASSUME NEW t \in Threads, NEW s \in Services,
             PushMessage(t, s) \/ SendRaw(t, s)
      PROVE  LeftOK'
  <2>1. /\ popped' = popped /\ wpc' = wpc /\ cur' = cur /\ left' = left
        /\ pushed' = pushed \/ pushed' = [pushed EXCEPT ![s] = @ + 1]
    BY <1>2 DEF PushMessage, SendRaw, DeliverTo, workVars
  <2>2. \A x \in Services :
          /\ pushed'[x] \in Nat
          /\ pushed[x] - popped[x] <= pushed'[x] - popped'[x]
    <3>1. CASE pushed' = pushed
      BY <2>1, <3>1
    <3>2. CASE pushed' = [pushed EXCEPT ![s] = @ + 1]
      BY <2>1, <3>2
    <3> QED BY <2>1, <3>1, <3>2
  <2>3. ASSUME NEW w \in Workers, wpc[w] \in {"pop", "run"}
        PROVE  left[w] <= pushed'[cur[w]] - popped'[cur[w]]
    <3>1. PICK x \in Services : x = cur[w]
      BY <2>3
    <3>2. left[w] <= pushed[x] - popped[x]
      BY <2>3, <3>1
    <3>3. pushed[x] \in Nat /\ popped[x] \in Nat /\ left[w] \in Nat
          /\ pushed'[x] \in Nat
      BY <2>1, <2>2
    <3> QED BY <2>1, <2>2, <3>1, <3>2, <3>3
  <2> QED BY <2>1, <2>3
<1>3. ASSUME NEW w \in Workers, PopMessage(w)
      PROVE  LeftOK'
  BY <1>1, <1>3 DEF PopMessage
<1>4. ASSUME NEW w \in Workers, ReadSize(w) \/ PopNull(w) \/ EndHandler(w)
      PROVE  LeftOK'
  <2>1. SizeRead(cur[w]) = {Queued(cur[w])}
    BY DEF SizeRead, Placed, FreedIsNotRun
  <2> QED BY <1>4, <2>1 DEF ReadSize, PopNull, EndHandler, mailVars
<1>5. ASSUME NEW w \in Workers,
             LoopCheck(w) \/ WaitReturnsNull(w) \/ WaitPops(w)
      PROVE  LeftOK'
  BY <1>5 DEF LoopCheck, WaitReturnsNull, WaitPops, mailVars
<1>6. ASSUME NEW w \in Workers, CheckEmpty(w) \/ Requeue(w) \/ ClearInvoke(w)
      PROVE  LeftOK'
  BY <1>6 DEF CheckEmpty, Requeue, ClearInvoke, mailVars
<1>7. ASSUME \/ \E t \in Threads : SendStep(t)
             \/ \E w \in Workers :
                  WaitSleeps(w) \/ SpuriousWakeup(w) \/ SetStop(w)
             \/ Signal \/ UNCHANGED vars
      PROVE  LeftOK'
  <2>1. UNCHANGED <<mailVars, workVars>>
    BY <1>7
    DEF SendStep, CompareExchange, QueuePush, WaitSleeps, SpuriousWakeup,
        Signal, SetStop, vars
  <2> QED BY <2>1 DEF mailVars, workVars
<1>8. CASE Cancel
  <2>1. UNCHANGED <<pushed, workVars>>
    BY <1>8 DEF Cancel
  <2>2. \A w \in Workers :
          cur[w] \in Services => popped'[cur[w]] = popped[cur[w]]
    BY <1>8
    DEF Cancel, DeleteQueued, InQueue, InHand, Placed, ScheduledOnce,
        FreedIsNotRun
  <2> QED BY <2>1, <2>2 DEF workVars
<1> QED
  BY <1>2, <1>3, <1>4, <1>5, <1>6, <1>7, <1>8 DEF Next, WorkerStep, StopStep

-----------------------------------------------------------------------------
(* The invariant, and what follows from it.                                *)

\* The invariant holds when the workers start.
THEOREM InitIInv == Init => IInv
<1> SUFFICES ASSUME Init PROVE IInv
  OBVIOUS
<1> USE DispatchAssumption DEF Init
<1>1. Typed
  <2>1. TypeOK
    <3>1. gqueue \in Seq(Services)
      OBVIOUS
    <3>2. /\ pushed \in [Services -> Nat] /\ popped \in [Services -> Nat]
          /\ Invoke_ \in [Services -> BOOLEAN]
          /\ left \in [Workers -> Nat]
      OBVIOUS
    <3>3. /\ wpc \in [Workers -> WorkerPCs]
          /\ cur \in [Workers -> Services \cup {None}]
      BY DEF WorkerPCs
    <3>4. /\ spc \in [Threads -> {"idle", "cas", "push"}]
          /\ target \in [Threads -> Services \cup {None}]
      OBVIOUS
    <3> QED BY <3>1, <3>2, <3>3, <3>4 DEF TypeOK
  <2>2. TargetOK /\ CurOK /\ MailOK
    BY DEF TargetOK, CurOK, MailOK
  <2> QED BY <2>1, <2>2 DEF Typed
<1>2. \A s \in Services :
        /\ ~InQueue(s)
        /\ \A w \in Workers : ~InHand(w, s)
        /\ \A t \in Threads : ~InPush(t, s)
  BY DEF InQueue, InHand, InPush
<1>3. ScheduledOnce
  BY <1>2 DEF ScheduledOnce, QueuedOnce
<1>4. InvokeIsScheduled /\ FreedIsNotRun /\ ShutOK
  BY <1>2 DEF InvokeIsScheduled, FreedIsNotRun, ShutOK, Scheduled
<1>5. LeftOK
  BY DEF LeftOK
<1> QED BY <1>1, <1>3, <1>4, <1>5 DEF IInv, Placed

\* The inductive invariant holds in every state, whatever the numbers of
\* services, workers, senders and messages.
THEOREM Invariance == ASSUME Acceptors = {} PROVE Spec => []IInv
<1>1. Init => IInv
  BY InitIInv
<1>2. IInv /\ [Next]_vars => IInv'
  BY TypedStep, PlacedStep, LeftStep DEF IInv
<1> QED BY <1>1, <1>2, PTL DEF Spec

\* Every variable keeps its type.
THEOREM TypeCorrect == ASSUME Acceptors = {} PROVE Spec => []TypeOK
<1>1. IInv => TypeOK
  BY DEF IInv, Typed
<1> QED BY <1>1, Invariance, PTL

\* A service is on the global queue, with a worker or with a sender, and at
\* one of these places only: compare-exchange, requeue and clear never let two
\* threads have it.
THEOREM OnePlace == ASSUME Acceptors = {} PROVE Spec => []ScheduledOnce
<1>1. IInv => ScheduledOnce
  BY DEF IInv, Placed
<1> QED BY <1>1, Invariance, PTL

\* Invoke_ tells exactly whether a service that was not deleted is scheduled.
THEOREM FlagMeansScheduled ==
  ASSUME Acceptors = {} PROVE Spec => []InvokeIsScheduled
<1>1. IInv => InvokeIsScheduled
  BY DEF IInv, Placed
<1> QED BY <1>1, Invariance, PTL

\* No two workers run handlers of one service: its Lua state needs no lock.
THEOREM MutualExclusion ==
  ASSUME Acceptors = {} PROVE Spec => []OneWorkerPerService
<1>1. IInv => OneWorkerPerService
  BY DEF IInv, Typed, CurOK, Placed, ScheduledOnce, InHand, OneWorkerPerService,
         FreedIsNotRun
<1> QED BY <1>1, Invariance, PTL

\* The loop of service::start finds every message it counted.
THEOREM NoNullPop == ASSUME Acceptors = {} PROVE Spec => []PopNeverNull
<1>1. IInv => PopNeverNull
  BY DEF IInv, Typed, TypeOK, CurOK, MailOK, LeftOK, Queued, PopNeverNull
<1> QED BY <1>1, Invariance, PTL

\* No worker is ever inside a service that the shutdown deleted: Cancel deletes
\* none that is run, and a deleted one is not handed out, though sends may go on
\* queueing it.  (The senders do use deleted services: DeletedIsUnused fails.)
THEOREM NoDeletedRun ==
  ASSUME Acceptors = {} PROVE Spec => []FreedIsNotRun
<1>1. IInv => FreedIsNotRun
  BY DEF IInv, Placed
<1> QED BY <1>1, Invariance, PTL

-----------------------------------------------------------------------------
(* ServiceDispatch implements ActorModel.                                  *)

Pending == [s \in Services |-> Queued(s)]
Active  == {cur[w] : w \in {v \in Workers : wpc[v] = "run"}}

\* What Active stands for.
LEMMA ActiveMember ==
  \A s : s \in Active <=> \E w \in Workers : wpc[w] = "run" /\ cur[w] = s
  BY DEF Active

\* Sending is Send, taking a message from the queue of a service is Begin, the
\* return of its handler is End, Cancel deletes the services on the queue, and
\* every other step is invisible, as is a send to a deleted service.
LEMMA StepSimulation ==
  ASSUME IInv, IInv', [Next]_vars
  PROVE  Actors!Next \/ UNCHANGED <<Pending, Active>>
<1> USE DispatchAssumption
    DEF IInv, Typed, TypeOK, CurOK, MailOK, Queued, WorkerPCs, Goto
<1>1. ASSUME NEW t \in Threads, NEW s \in Services,
             PushMessage(t, s) \/ SendRaw(t, s)
      PROVE  Actors!Next \/ UNCHANGED <<Pending, Active>>
  <2>0. CASE s \in freed
    BY <1>1, <2>0
    DEF PushMessage, SendRaw, DeliverTo, Pending, Active, workVars
  <2>1. ASSUME s \notin freed
        PROVE  Pending' = [Pending EXCEPT ![s] = @ + 1]
    <3>1. popped' = popped /\ pushed' = [pushed EXCEPT ![s] = @ + 1]
      BY <1>1, <2>1 DEF PushMessage, SendRaw, DeliverTo
    <3>2. \A x \in Services : pushed[x] \in Nat /\ popped[x] \in Nat
      OBVIOUS
    <3>3. \A x \in Services :
            pushed'[x] - popped'[x]
              = IF x = s THEN pushed[x] - popped[x] + 1 ELSE pushed[x] - popped[x]
      BY <3>1, <3>2
    <3> QED BY <3>3 DEF Pending
  <2>2. Active' = Active
    BY <1>1 DEF PushMessage, SendRaw, DeliverTo, Active, workVars
  <2> QED BY <2>0, <2>1, <2>2 DEF Actors!Next, Actors!Send, Pending, Active
<1>2. ASSUME NEW w \in Workers, PopMessage(w)
      PROVE  Actors!Next
  <2>1. PICK s \in Services : s = cur[w]
    BY <1>2 DEF PopMessage
  <2>2. Pending[s] > 0 /\ Pending' = [Pending EXCEPT ![s] = @ - 1]
    <3>1. pushed' = pushed /\ popped' = [popped EXCEPT ![s] = @ + 1]
      BY <1>2, <2>1 DEF PopMessage
    <3>2. \A x \in Services : pushed[x] \in Nat /\ popped[x] \in Nat
      OBVIOUS
    <3>3. \A x \in Services :
            pushed'[x] - popped'[x]
              = IF x = s THEN pushed[x] - popped[x] - 1 ELSE pushed[x] - popped[x]
      BY <3>1, <3>2
    <3>4. pushed[s] - popped[s] > 0
      BY <1>2, <2>1 DEF PopMessage
    <3> QED BY <3>3, <3>4 DEF Pending
  <2>3. s \notin Active
    BY <1>2, <2>1, ActiveMember
    DEF PopMessage, Placed, ScheduledOnce, InHand, FreedIsNotRun
  <2>4. Active' = Active \cup {s}
    BY <1>2, <2>1 DEF PopMessage, Active
  <2> QED
    BY <2>2, <2>3, <2>4 DEF Actors!Next, Actors!Begin, Pending, Active
<1>3. ASSUME NEW w \in Workers, EndHandler(w)
      PROVE  Actors!Next
  <2>1. PICK s \in Services : s = cur[w]
    BY <1>3 DEF EndHandler
  <2>2. Pending' = Pending
    BY <1>3 DEF EndHandler, Pending, mailVars
  <2>3. s \in Active
    BY <1>3, <2>1, ActiveMember DEF EndHandler
  <2>4. \A v \in Workers : cur[v] = s => v = w
    BY <2>1 DEF Placed, ScheduledOnce, InHand, FreedIsNotRun
  <2>5. Active' = Active \ {s}
    BY <1>3, <2>1, <2>4 DEF EndHandler, Active
  <2> QED BY <2>2, <2>3, <2>5 DEF Actors!Next, Actors!End, Pending, Active
<1>4. ASSUME NEW w \in Workers,
             \/ LoopCheck(w) \/ WaitReturnsNull(w) \/ WaitPops(w)
             \/ ReadSize(w) \/ PopNull(w) \/ CheckEmpty(w) \/ Requeue(w)
             \/ ClearInvoke(w)
      PROVE  UNCHANGED <<Pending, Active>>
  <2>1. UNCHANGED mailVars
    BY <1>4
    DEF LoopCheck, WaitReturnsNull, WaitPops, ReadSize, PopNull, CheckEmpty,
        Requeue, ClearInvoke
  <2>2. \A v \in Workers :
          (wpc'[v] = "run" <=> wpc[v] = "run")
          /\ (wpc[v] = "run" => cur'[v] = cur[v])
    <3>0. CASE WaitPops(w)
      <4>1. wpc[w] = "wait" /\ wpc' = [wpc EXCEPT ![w] = "size"]
        BY <3>0 DEF WaitPops
      <4>2. \A v \in Workers \ {w} : cur'[v] = cur[v]
        BY <3>0 DEF WaitPops
      <4> QED BY <4>1, <4>2
    <3>1. CASE LoopCheck(w) \/ WaitReturnsNull(w)
      BY <3>1 DEF LoopCheck, WaitReturnsNull
    <3>2. CASE ReadSize(w) \/ PopNull(w) \/ CheckEmpty(w)
      BY <3>2 DEF ReadSize, PopNull, CheckEmpty
    <3>3. CASE Requeue(w) \/ ClearInvoke(w)
      BY <3>3 DEF Requeue, ClearInvoke
    <3> QED BY <1>4, <3>0, <3>1, <3>2, <3>3
  <2> QED BY <2>1, <2>2 DEF mailVars, Pending, Active
<1>5. ASSUME \/ \E t \in Threads : SendStep(t)
             \/ \E w \in Workers :
                  WaitSleeps(w) \/ SpuriousWakeup(w) \/ SetStop(w)
             \/ Signal \/ UNCHANGED vars
      PROVE  UNCHANGED <<Pending, Active>>
  <2>1. UNCHANGED <<mailVars, workVars>>
    BY <1>5
    DEF SendStep, CompareExchange, QueuePush, WaitSleeps, SpuriousWakeup,
        Signal, SetStop, vars
  <2> QED BY <2>1 DEF mailVars, workVars, Pending, Active
<1>6. CASE Cancel
  <2> DEFINE D == {gqueue[i] : i \in DOMAIN gqueue}
  <2>1. D \subseteq Services /\ \A s \in D : InQueue(s)
    BY DEF InQueue
  <2>2. D \cap Active = {}
    BY <2>1, ActiveMember DEF Placed, ScheduledOnce, InHand, FreedIsNotRun
  <2>3. Active' = Active
    BY <1>6 DEF Cancel, workVars, Active
  <2>4. Pending' = [s \in Services |-> IF s \in D THEN 0 ELSE Pending[s]]
    <3>1. /\ pushed' = pushed
          /\ popped' = [s \in Services |->
                          IF s \in D THEN pushed[s] ELSE popped[s]]
      BY <1>6 DEF Cancel, DeleteQueued
    <3> HIDE DEF D
    <3>2. \A s \in Services : pushed[s] - pushed[s] = 0
      OBVIOUS
    <3>3. \A s \in Services :
            pushed'[s] - popped'[s]
              = IF s \in D THEN 0 ELSE pushed[s] - popped[s]
      BY <3>1, <3>2
    <3> QED BY <3>3 DEF Pending
  <2> HIDE DEF D
  <2>5. Actors!Delete(D)
    <3>1. D \cap Active = {} /\ UNCHANGED Active
      BY <2>2, <2>3
    <3>2. Pending' = [s \in Services |-> IF s \in D THEN 0 ELSE Pending[s]]
      BY <2>4
    <3> QED BY ONLY <3>1, <3>2 DEF Actors!Delete, Pending, Active
  <2>6. D \in SUBSET Services
    BY <2>1
  <2> QED BY <2>5, <2>6 DEF Actors!Next, Actors!Delete
<1> QED
  BY <1>1, <1>2, <1>3, <1>4, <1>5, <1>6 DEF Next, WorkerStep, StopStep

\* The scheduler implements the actor abstraction: each service takes its
\* messages one at a time, none twice, and takes none while it handles one.
THEOREM Refinement == ASSUME Acceptors = {} PROVE Spec => ActorSpec
<1>1. Init => Actors!Init
  BY DEF Init, Actors!Init, Queued
<1>2. IInv /\ IInv' /\ [Next]_vars => [Actors!Next]_(Actors!vars)
  BY StepSimulation DEF Actors!vars, Pending, Active
<1> QED BY <1>1, <1>2, Invariance, PTL DEF Spec, ActorSpec, Actors!Spec

=============================================================================
