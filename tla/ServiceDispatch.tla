--------------------------- MODULE ServiceDispatch ---------------------------
(***************************************************************************)
(* The scheduler of onbnet: how a message sent to a service (an actor with  *)
(* one Lua state) gets one of the message workers to run the service.       *)
(*                                                                          *)
(*   service_manager::send   pushes the message on the service's own queue, *)
(*                           and puts the service on the global queue when  *)
(*                           the flag Invoke_ was clear;                    *)
(*   message_worker::start   pops a service and calls service::start;       *)
(*   service::start          handles as many messages as were queued when   *)
(*                           it began, then puts the service back or clears *)
(*                           Invoke_;                                       *)
(*   onbnet_server::stop     stops each worker and cancels the global queue,*)
(*                           which deletes the services still on it.        *)
(*                                                                          *)
(* service_vector_ goes on pointing to a deleted service, so threads may    *)
(* use it.  The use finds any value at all in memory that is nobody's       *)
(* (FlagRead, SizeRead), or it crashes, which ends the behaviour there.     *)
(*                                                                          *)
(* Every step below is one critical section of a producer_consumer_queue,   *)
(* one atomic operation, or one step of a thread that touches only its own  *)
(* state.  The messages of a service are numbered in arrival order, so its  *)
(* queue is the interval popped[s]+1 .. pushed[s].                          *)
(***************************************************************************)
EXTENDS Naturals, Sequences, FiniteSets

CONSTANTS
  Services,   \* the registered services (service_vector_)
  Workers,    \* the message_worker threads
  Posters,    \* the other threads that send: the timer and the socket worker
  Acceptors,  \* the posters that also use send(msg), the overload that never
              \* looks at Invoke_ (connect_listen.cc uses it on every accept)
  MaxMsgs,    \* bound on the number of messages sent
  MaxStray,   \* bound on the deleted services that sends put on the queue
  None        \* no service

ASSUME DispatchAssumption ==
  /\ Workers \cap Posters = {}
  /\ Acceptors \subseteq Posters
  /\ MaxMsgs \in Nat
  /\ MaxStray \in Nat
  /\ None \notin Services

Threads == Workers \cup Posters

VARIABLES
  gqueue,     \* onbnet_server::gqueue_, the services waiting for a worker
  shutdown,   \* gqueue_._shutdown
  asleep,     \* the workers blocked in gqueue_._condition.wait
  pushed,     \* per service, the messages ever pushed on service::gqueue
  popped,     \* per service, the messages popped from it
  Invoke_,    \* service::Invoke_
  wpc,        \* what each worker is about to do
  cur,        \* the service a worker is inside service::start of
  left,       \* iterations left of the loop of service::start (n - i)
  spc,        \* what each thread is about to do in service_manager::send
  target,     \* the service that send is for
  toStop,     \* the workers onbnet_server::stop has still to stop
  is_stop,    \* the workers whose is_stop_ is set
  cancelling, \* message_worker::stop is about to call Cancel
  freed       \* the services Cancel has deleted

queueVars == <<gqueue, shutdown, asleep>>
mailVars  == <<pushed, popped>>
workVars  == <<wpc, cur, left>>
sendVars  == <<spc, target>>
stopVars  == <<toStop, is_stop, cancelling, freed>>
vars == <<queueVars, mailVars, Invoke_, workVars, sendVars, stopVars>>

WorkerPCs == {"loop", "wait", "size", "pop", "run", "requeue", "clear", "done"}

TypeOK ==
  /\ gqueue \in Seq(Services)
  /\ shutdown \in BOOLEAN
  /\ asleep \subseteq Workers
  /\ pushed \in [Services -> Nat]
  /\ popped \in [Services -> Nat]
  /\ Invoke_ \in [Services -> BOOLEAN]
  /\ wpc \in [Workers -> WorkerPCs]
  /\ cur \in [Workers -> Services \cup {None}]
  /\ left \in [Workers -> Nat]
  /\ spc \in [Threads -> {"idle", "cas", "push"}]
  /\ target \in [Threads -> Services \cup {None}]
  /\ toStop \subseteq Workers
  /\ is_stop \subseteq Workers
  /\ cancelling \in BOOLEAN
  /\ freed \subseteq Services

Init ==
  /\ gqueue = <<>>
  /\ shutdown = FALSE
  /\ asleep = {}
  /\ pushed = [s \in Services |-> 0]
  /\ popped = [s \in Services |-> 0]
  /\ Invoke_ = [s \in Services |-> FALSE]
  /\ wpc = [w \in Workers |-> "loop"]
  /\ cur = [w \in Workers |-> None]
  /\ left = [w \in Workers |-> 0]
  /\ spc = [t \in Threads |-> "idle"]
  /\ target = [t \in Threads |-> None]
  /\ toStop = {}
  /\ is_stop = {}
  /\ cancelling = FALSE
  /\ freed = {}

-----------------------------------------------------------------------------
(* producer_consumer_queue, as the two kinds of queue use it.              *)

\* size() of a service's own queue
Queued(s) == pushed[s] - popped[s]

\* what a thread may find in the queue's count and in Invoke_: their values,
\* and anything in a deleted service
SizeRead(s) == IF s \in freed THEN 0 .. MaxMsgs ELSE {Queued(s)}
FlagRead(s) == IF s \in freed THEN BOOLEAN ELSE {Invoke_[s]}

\* mutant: Push without notify_one
Push_NoNotify(s) ==
  /\ gqueue' = Append(gqueue, s)
  /\ UNCHANGED <<shutdown, asleep>>

\* Push: append and wake one waiter, if there is one
Push(s) ==
  /\ gqueue' = Append(gqueue, s)
  /\ IF asleep = {} THEN UNCHANGED asleep
                    ELSE \E w \in asleep : asleep' = asleep \ {w}
  /\ UNCHANGED shutdown

InQueue(s) == \E i \in DOMAIN gqueue : gqueue[i] = s

-----------------------------------------------------------------------------
(* service_manager::send.  A worker sends from inside a handler, the other  *)
(* threads whenever they like, to deleted services too.                     *)

\* the messages sent so far, as <<service, number>>
Sent == {m \in Services \X (1 .. MaxMsgs) : m[2] <= pushed[m[1]]}

\* the deleted services on the global queue
Stray == {i \in DOMAIN gqueue : gqueue[i] \in freed}

\* S->push_message(msg); then both overloads go on to a step of their own.
\* What is pushed to a deleted service is nowhere.
DeliverTo(t, s, next) ==
  /\ spc[t] = "idle"
  /\ t \in Workers => wpc[t] = "run"
  /\ IF s \in freed
       THEN /\ Cardinality(Stray) < MaxStray
            /\ UNCHANGED pushed
       ELSE /\ Cardinality(Sent) < MaxMsgs
            /\ pushed' = [pushed EXCEPT ![s] = @ + 1]
  /\ spc' = [spc EXCEPT ![t] = next]
  /\ target' = [target EXCEPT ![t] = s]
  /\ UNCHANGED <<queueVars, popped, Invoke_, workVars, stopVars>>

\* send(serviceId, msg)
PushMessage(t, s) == DeliverTo(t, s, "cas")

\* send(msg): queue->Push(S) follows whatever Invoke_ holds
SendRaw(t, s) == t \in Acceptors /\ DeliverTo(t, s, "push")

\* mutant: the result of the exchange is ignored
CompareExchange_Ignored(t) ==
  /\ spc[t] = "cas"
  /\ Invoke_' = [Invoke_ EXCEPT ![target[t]] = TRUE]
  /\ spc' = [spc EXCEPT ![t] = "push"]
  /\ UNCHANGED <<queueVars, mailVars, workVars, target, stopVars>>

\* S->Invoke_.compare_exchange_weak(false, true)
CompareExchange(t) ==
  /\ spc[t] = "cas"
  /\ \E oldv \in FlagRead(target[t]) :
       spc' = [spc EXCEPT ![t] = IF oldv THEN "idle" ELSE "push"]
  /\ Invoke_' = [Invoke_ EXCEPT ![target[t]] = TRUE]
  /\ UNCHANGED <<queueVars, mailVars, workVars, target, stopVars>>

\* queue->Push(S)
QueuePush(t) ==
  /\ spc[t] = "push"
  /\ Push(target[t])
  /\ spc' = [spc EXCEPT ![t] = "idle"]
  /\ UNCHANGED <<mailVars, Invoke_, workVars, target, stopVars>>

SendStep(t) == CompareExchange(t) \/ QueuePush(t)

-----------------------------------------------------------------------------
(* message_worker::start and service::start.                               *)

Goto(w, pc) == wpc' = [wpc EXCEPT ![w] = pc]

\* while (!is_stop_)
LoopCheck(w) ==
  /\ wpc[w] = "loop"
  /\ Goto(w, IF w \in is_stop THEN "done" ELSE "wait")
  /\ UNCHANGED <<queueVars, mailVars, Invoke_, cur, left, sendVars, stopVars>>

\* WaitAndPop finds the queue shut down and returns a null service
WaitReturnsNull(w) ==
  /\ wpc[w] = "wait" /\ w \notin asleep
  /\ shutdown
  /\ Goto(w, "loop")
  /\ UNCHANGED <<queueVars, mailVars, Invoke_, cur, left, sendVars, stopVars>>

\* WaitAndPop finds nothing and blocks in _condition.wait
WaitSleeps(w) ==
  /\ wpc[w] = "wait" /\ w \notin asleep
  /\ ~shutdown /\ gqueue = <<>>
  /\ asleep' = asleep \cup {w}
  /\ UNCHANGED <<gqueue, shutdown, mailVars, Invoke_, workVars, sendVars,
                 stopVars>>

\* mutant: WaitAndPop asks only whether the queue is empty, not for _shutdown
WaitPops_Anyway(w) ==
  /\ wpc[w] = "wait" /\ w \notin asleep
  /\ gqueue # <<>>
  /\ gqueue' = Tail(gqueue)
  /\ cur' = [cur EXCEPT ![w] = Head(gqueue)]
  /\ Goto(w, "size")
  /\ UNCHANGED <<shutdown, asleep, mailVars, Invoke_, left, sendVars, stopVars>>

\* WaitAndPop takes the service at the front
WaitPops(w) ==
  /\ wpc[w] = "wait" /\ w \notin asleep
  /\ ~shutdown /\ gqueue # <<>>
  /\ gqueue' = Tail(gqueue)
  /\ cur' = [cur EXCEPT ![w] = Head(gqueue)]
  /\ Goto(w, "size")
  /\ UNCHANGED <<shutdown, asleep, mailVars, Invoke_, left, sendVars, stopVars>>

\* condition_variable::wait may return without a notification
SpuriousWakeup(w) ==
  /\ w \in asleep
  /\ asleep' = asleep \ {w}
  /\ UNCHANGED <<gqueue, shutdown, mailVars, Invoke_, workVars, sendVars,
                 stopVars>>

\* mutant: the loop runs for i <= n
ReadSize_OneMore(w) ==
  /\ wpc[w] = "size"
  /\ left' = [left EXCEPT ![w] = Queued(cur[w]) + 1]
  /\ Goto(w, "pop")
  /\ UNCHANGED <<queueVars, mailVars, Invoke_, cur, sendVars, stopVars>>

\* int n = gqueue.Size()
ReadSize(w) ==
  /\ wpc[w] = "size"
  /\ \E n \in SizeRead(cur[w]) : left' = [left EXCEPT ![w] = n]
  /\ Goto(w, "pop")
  /\ UNCHANGED <<queueVars, mailVars, Invoke_, cur, sendVars, stopVars>>

\* mutant: the loop does not test i < n
PopMessage_NoBound(w) ==
  /\ wpc[w] = "pop"
  /\ Queued(cur[w]) > 0
  /\ popped' = [popped EXCEPT ![cur[w]] = @ + 1]
  /\ left' = [left EXCEPT ![w] = @ - 1]
  /\ Goto(w, "run")
  /\ UNCHANGED <<queueVars, pushed, Invoke_, cur, sendVars, stopVars>>

\* mutant: PopPtr returns the front and leaves it there
PopMessage_Peek(w) ==
  /\ wpc[w] = "pop" /\ left[w] > 0
  /\ Queued(cur[w]) > 0
  /\ left' = [left EXCEPT ![w] = @ - 1]
  /\ Goto(w, "run")
  /\ UNCHANGED <<queueVars, mailVars, Invoke_, cur, sendVars, stopVars>>

\* one round of the loop: PopPtr, and the handler is entered with the message
PopMessage(w) ==
  /\ wpc[w] = "pop" /\ left[w] > 0
  /\ Queued(cur[w]) > 0
  /\ popped' = [popped EXCEPT ![cur[w]] = @ + 1]
  /\ left' = [left EXCEPT ![w] = @ - 1]
  /\ Goto(w, "run")
  /\ UNCHANGED <<queueVars, pushed, Invoke_, cur, sendVars, stopVars>>

\* one round of the loop in which PopPtr returns null
PopNull(w) ==
  /\ wpc[w] = "pop" /\ left[w] > 0
  /\ Queued(cur[w]) = 0
  /\ left' = [left EXCEPT ![w] = @ - 1]
  /\ UNCHANGED <<queueVars, mailVars, Invoke_, wpc, cur, sendVars, stopVars>>

\* (*lua_state_)(msg) returns or throws, its own sends being over
EndHandler(w) ==
  /\ wpc[w] = "run" /\ spc[w] = "idle"
  /\ Goto(w, "pop")
  /\ UNCHANGED <<queueVars, mailVars, Invoke_, cur, left, sendVars, stopVars>>

\* if (!gqueue.Empty())
CheckEmpty(w) ==
  /\ wpc[w] = "pop" /\ left[w] = 0
  /\ \E n \in SizeRead(cur[w]) : Goto(w, IF n > 0 THEN "requeue" ELSE "clear")
  /\ UNCHANGED <<queueVars, mailVars, Invoke_, cur, left, sendVars, stopVars>>

\* mutant: Invoke_ is cleared although the service goes back on the queue
Requeue_Clears(w) ==
  /\ wpc[w] = "requeue"
  /\ Push(cur[w])
  /\ Invoke_' = [Invoke_ EXCEPT ![cur[w]] = FALSE]
  /\ cur' = [cur EXCEPT ![w] = None]
  /\ Goto(w, "loop")
  /\ UNCHANGED <<mailVars, left, sendVars, stopVars>>

\* push_global_msg_queue(this); return true
Requeue(w) ==
  /\ wpc[w] = "requeue"
  /\ Push(cur[w])
  /\ cur' = [cur EXCEPT ![w] = None]
  /\ Goto(w, "loop")
  /\ UNCHANGED <<mailVars, Invoke_, left, sendVars, stopVars>>

\* mutant: the flag is not reset
ClearInvoke_Not(w) ==
  /\ wpc[w] = "clear"
  /\ cur' = [cur EXCEPT ![w] = None]
  /\ Goto(w, "loop")
  /\ UNCHANGED <<queueVars, mailVars, Invoke_, left, sendVars, stopVars>>

\* Invoke_.store(false); return false
ClearInvoke(w) ==
  /\ wpc[w] = "clear"
  /\ Invoke_' = [Invoke_ EXCEPT ![cur[w]] = FALSE]
  /\ cur' = [cur EXCEPT ![w] = None]
  /\ Goto(w, "loop")
  /\ UNCHANGED <<queueVars, mailVars, left, sendVars, stopVars>>

WorkerStep(w) ==
  \/ LoopCheck(w) \/ WaitReturnsNull(w) \/ WaitSleeps(w) \/ WaitPops(w)
  \/ ReadSize(w) \/ PopMessage(w) \/ PopNull(w) \/ EndHandler(w)
  \/ CheckEmpty(w) \/ Requeue(w) \/ ClearInvoke(w)

-----------------------------------------------------------------------------
(* onbnet_server::stop, run by the handler of SIGINT and SIGTERM.          *)

\* a signal arrives; the handler may run again once it has returned
Signal ==
  /\ toStop = {} /\ ~cancelling
  /\ toStop' = Workers
  /\ UNCHANGED <<queueVars, mailVars, Invoke_, workVars, sendVars, is_stop,
                 cancelling, freed>>

\* message_worker::stop: is_stop_ = true
SetStop(w) ==
  /\ w \in toStop /\ ~cancelling
  /\ toStop' = toStop \ {w}
  /\ is_stop' = is_stop \cup {w}
  /\ cancelling' = TRUE
  /\ UNCHANGED <<queueVars, mailVars, Invoke_, workVars, sendVars, freed>>

\* the services on the global queue are deleted; ~service() cancels each one's
\* own queue, and the messages on it are gone
DeleteQueued ==
  LET D == {gqueue[i] : i \in DOMAIN gqueue}
  IN  /\ freed' = freed \cup D
      /\ popped' = [s \in Services |-> IF s \in D THEN pushed[s] ELSE popped[s]]

\* mutant: Cancel without notify_all
Cancel_NoNotify ==
  /\ cancelling
  /\ cancelling' = FALSE
  /\ DeleteQueued
  /\ gqueue' = <<>>
  /\ shutdown' = TRUE
  /\ UNCHANGED <<asleep, pushed, Invoke_, workVars, sendVars, toStop, is_stop>>

\* message_worker::stop: gqueue->Cancel() deletes every service on the queue
Cancel ==
  /\ cancelling
  /\ cancelling' = FALSE
  /\ DeleteQueued
  /\ gqueue' = <<>>
  /\ shutdown' = TRUE
  /\ asleep' = {}
  /\ UNCHANGED <<pushed, Invoke_, workVars, sendVars, toStop, is_stop>>

StopStep == Cancel \/ \E w \in Workers : SetStop(w)

-----------------------------------------------------------------------------
Next ==
  \/ \E t \in Threads :
       \/ \E s \in Services : PushMessage(t, s) \/ SendRaw(t, s)
       \/ SendStep(t)
  \/ \E w \in Workers : WorkerStep(w) \/ SpuriousWakeup(w)
  \/ Signal \/ StopStep

Spec == Init /\ [][Next]_vars

\* The kernel runs every thread that can run and a handler returns, after any
\* number of sends (hence SF); nothing makes a thread send, a condition variable
\* wake up by itself or a signal come.
Fairness ==
  /\ \A t \in Threads : WF_vars(SendStep(t))
  /\ \A w \in Workers : WF_vars(WorkerStep(w)) /\ SF_vars(EndHandler(w))
  /\ WF_vars(StopStep)

FairSpec == Spec /\ Fairness

-----------------------------------------------------------------------------
(* Safety.  A service that is scheduled is at one place: on the queue, in   *)
(* the hands of a worker, or in those of a sender about to queue it.        *)

InHand(w, s) == cur[w] = s
InPush(t, s) == spc[t] = "push" /\ target[t] = s

Scheduled(s) ==
  \/ InQueue(s)
  \/ \E w \in Workers : InHand(w, s)
  \/ \E t \in Threads : InPush(t, s)

QueuedOnce ==
  \A i, j \in DOMAIN gqueue :
    gqueue[i] = gqueue[j] /\ gqueue[i] \notin freed => i = j

\* A service is at no two of these places, nor twice at one: send must not
\* queue a service that is queued or running, nor service::start requeue one
\* that a sender is queueing.  (Sends may queue a deleted service repeatedly.)
ScheduledOnce ==
  /\ QueuedOnce
  /\ \A s \in Services \ freed :
       /\ \A v, w \in Workers : InHand(v, s) /\ InHand(w, s) => v = w
       /\ \A t, u \in Threads : InPush(t, s) /\ InPush(u, s) => t = u
       /\ \A w \in Workers : InHand(w, s) => ~InQueue(s)
       /\ \A t \in Threads : InPush(t, s) => ~InQueue(s)
       /\ \A w \in Workers, t \in Threads : ~(InHand(w, s) /\ InPush(t, s))

\* Invoke_ is set for exactly the services that are scheduled, so a service
\* whose flag is set has a worker coming for it (unless Cancel deleted it).
InvokeIsScheduled ==
  \A s \in Services \ freed : Invoke_[s] <=> Scheduled(s)

\* Two workers are never inside one service: its Lua state is not locked.
OneWorkerPerService ==
  \A v, w \in Workers :
    wpc[v] = "run" /\ wpc[w] = "run" /\ cur[v] = cur[w] => v = w

\* PopPtr never returns null inside the loop of service::start, whose count
\* was read without the lock: nobody else takes the messages it counted.
PopNeverNull ==
  \A w \in Workers : wpc[w] = "pop" /\ left[w] > 0 => Queued(cur[w]) > 0

\* No worker has a deleted service in hand, though the threads that send go on
\* putting deleted services on the queue that the workers wait on: a worker's
\* service is never deleted under it, and none is handed out after Cancel.
FreedIsNotRun ==
  \A w \in Workers : cur[w] \notin freed

\* Not so for the other threads: a send that began before Cancel, or begins
\* after it, uses a deleted service, and a second Cancel deletes it again.
DeletedIsUnused ==
  /\ \A t \in Threads : spc[t] = "cas" => target[t] \notin freed
  /\ cancelling => Stray = {}

-----------------------------------------------------------------------------
(* Liveness.                                                               *)

\* A message that is queued when its service is on the global queue is handled,
\* whatever the workers do with the other services, unless the server stops.
ScheduledMessagesHandled ==
  \A s \in Services : \A k \in 1 .. MaxMsgs :
    (InQueue(s) /\ pushed[s] >= k) ~> (popped[s] >= k \/ shutdown)

\* Once the server starts to stop every worker leaves its loop, those blocked
\* on the queue included, unless the use of a deleted service crashes it first.
StopTerminates ==
  (toStop # {}) ~> (\A w \in Workers : wpc[w] = "done")

\* Every message a send accepted is handled, unless the server stops.
EveryMessageHandled ==
  \A s \in Services : \A k \in 1 .. MaxMsgs :
    (pushed[s] >= k) ~> (popped[s] >= k \/ shutdown)

-----------------------------------------------------------------------------
(* What the scheduler promises: an actor handles one message at a time.    *)

Actors == INSTANCE ActorModel WITH
  pending <- [s \in Services |-> Queued(s)],
  active  <- {cur[w] : w \in {v \in Workers : wpc[v] = "run"}}

ActorSpec == Actors!Spec

=============================================================================
