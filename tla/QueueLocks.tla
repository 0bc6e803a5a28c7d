----------------------------- MODULE QueueLocks -----------------------------
(***************************************************************************)
(* producer_consumer_queue.h with its mutex, its condition variable and the *)
(* count that Size reads without the mutex, in its two uses: the global     *)
(* queue (Push, WaitAndPop, Cancel) and the queue of a service (PushPtr,    *)
(* Size, PopPtr, Empty).  The functions begin when their callers like; a    *)
(* service has one consumer.                                                *)
(*                                                                          *)
(* Cancel runs in a signal handler, on the stack of some thread, which does *)
(* not go on before the handler has returned.  A mutex that this thread     *)
(* holds is never released then.                                            *)
(***************************************************************************)
EXTENDS Naturals, Sequences, FiniteSets

CONSTANTS
  Consumers, Producers,
  Handler,      \* the signal handler
  Main,         \* the main thread, which waits for the others
  Interrupted,  \* the threads that the handler may interrupt
  Nil,
  Values,
  MaxPushes,    \* bound on the calls of Push
  MaxCancels    \* bound on those of Cancel

\* what is assumed of the constants, where this module is instantiated
QueueLocksAssumption ==
  /\ Interrupted \subseteq Consumers \cup Producers \cup {Main}
  /\ {MaxPushes, MaxCancels} \subseteq Nat
  /\ Consumers \cap Producers = {}
  /\ {Handler, Main, Nil} \cap (Consumers \cup Producers) = {} /\ Handler # Nil

Threads == Consumers \cup Producers \cup {Handler}

VARIABLES
  use,          \* "global" or "service"
  _queueLock,   \* who holds the mutex
  _queue, _count, _shutdown,
  blocked,      \* those in _condition.wait who have not been notified
  pc,
  value,        \* per producer, what it pushes
  left,         \* per consumer of a service, the rounds of its loop to come
  on,           \* the thread the handler interrupts
  pushes, cancels

vars == <<use, _queueLock, _queue, _count, _shutdown, blocked, pc, value, left, on,
          pushes, cancels>>

TypeOK ==
  /\ use \in {"global", "service"}
  /\ _queueLock \in Threads \cup {Nil}
  /\ _queue \in Seq(Values) /\ _count \in 0 .. MaxPushes /\ _shutdown \in BOOLEAN
  /\ blocked \subseteq Consumers
  /\ pc \in [Threads -> {"out", "push?", "push", "count", "notify", "wait?", "wait", "next",
                         "pop?", "pop", "sub", "empty?", "empty", "cancel?", "cancel",
                         "reset", "notify_all", "unlock"}]
  /\ value \in [Producers -> Values \cup {Nil}]
  /\ left \in [Consumers -> 0 .. MaxPushes]
  /\ on \in Interrupted \cup {Nil}
  /\ pushes \in 0 .. MaxPushes /\ cancels \in 0 .. MaxCancels

Init ==
  /\ use \in {"global", "service"}
  /\ _queueLock = Nil /\ _queue = <<>> /\ _count = 0 /\ _shutdown = FALSE
  /\ blocked = {} /\ pc = [t \in Threads |-> "out"]
  /\ value = [p \in Producers |-> Nil] /\ left = [c \in Consumers |-> 0]
  /\ on = Nil /\ pushes = 0 /\ cancels = 0

\* a thread at "here" goes on to "there", unless the handler runs on its stack
Goes(t, here, there) == on # t /\ pc[t] = here /\ pc' = [pc EXCEPT ![t] = there]

-----------------------------------------------------------------------------
(* The mutex.                                                              *)

Entry == [push |-> "push?", wait |-> "wait?", pop |-> "pop?", empty |-> "empty?",
          cancel |-> "cancel?"]

\* mutant: the mutex does not exclude
Lock_Shared(t) ==
  /\ \E f \in DOMAIN Entry : Goes(t, Entry[f], f)
  /\ t \notin blocked /\ _queueLock' = t
  /\ UNCHANGED <<use, _queue, _count, _shutdown, blocked, value, left, on, pushes, cancels>>

\* one who waits takes it when he has been notified
Lock(t) ==
  /\ \E f \in DOMAIN Entry : Goes(t, Entry[f], f)
  /\ t \notin blocked
  /\ _queueLock = Nil /\ _queueLock' = t
  /\ UNCHANGED <<use, _queue, _count, _shutdown, blocked, value, left, on, pushes, cancels>>

\* a consumer of a service goes on with its loop; the handler returns
Unlock(t) ==
  /\ Goes(t, "unlock", IF t \in Consumers /\ use = "service" THEN "next" ELSE "out")
  /\ _queueLock' = Nil
  /\ value' = IF t \in Producers THEN [value EXCEPT ![t] = Nil] ELSE value
  /\ on' = IF t = Handler THEN Nil ELSE on
  /\ UNCHANGED <<use, _queue, _count, _shutdown, blocked, left, pushes, cancels>>

-----------------------------------------------------------------------------
(* Push and PushPtr.                                                       *)

CallPush(p, v) ==
  /\ Goes(p, "out", "push?") /\ pushes < MaxPushes
  /\ pushes' = pushes + 1 /\ value' = [value EXCEPT ![p] = v]
  /\ UNCHANGED <<use, _queueLock, _queue, _count, _shutdown, blocked, left, on, cancels>>

PushItem(p) ==
  /\ Goes(p, "push", "count")
  /\ _queue' = Append(_queue, value[p])
  /\ UNCHANGED <<use, _queueLock, _count, _shutdown, blocked, value, left, on, pushes, cancels>>

FetchAdd(p) ==
  /\ Goes(p, "count", "notify")
  /\ _count' = _count + 1
  /\ UNCHANGED <<use, _queueLock, _queue, _shutdown, blocked, value, left, on, pushes, cancels>>

\* mutant: only the first item is announced
NotifyOne_IfFirst(p) ==
  /\ Goes(p, "notify", "unlock")
  /\ IF blocked = {} \/ Len(_queue) > 1 THEN UNCHANGED blocked
                                        ELSE \E c \in blocked : blocked' = blocked \ {c}
  /\ UNCHANGED <<use, _queueLock, _queue, _count, _shutdown, value, left, on, pushes, cancels>>

NotifyOne(p) ==
  /\ Goes(p, "notify", "unlock")
  /\ IF blocked = {} THEN UNCHANGED blocked
                     ELSE \E c \in blocked : blocked' = blocked \ {c}
  /\ UNCHANGED <<use, _queueLock, _queue, _count, _shutdown, value, left, on, pushes, cancels>>

-----------------------------------------------------------------------------
(* WaitAndPop.                                                             *)

CallWait(c) ==
  /\ use = "global" /\ Goes(c, "out", "wait?")
  /\ UNCHANGED <<use, _queueLock, _queue, _count, _shutdown, blocked, value, left, on, pushes,
                 cancels>>

\* wait releases the mutex and blocks
Wait(c) ==
  /\ Goes(c, "wait", "wait?")
  /\ _queue = <<>> /\ ~_shutdown
  /\ blocked' = blocked \cup {c} /\ _queueLock' = Nil
  /\ UNCHANGED <<use, _queue, _count, _shutdown, value, left, on, pushes, cancels>>

Spurious(c) ==
  /\ c \in blocked /\ blocked' = blocked \ {c}
  /\ UNCHANGED <<use, _queueLock, _queue, _count, _shutdown, pc, value, left, on, pushes, cancels>>

WaitShutdown(c) ==
  /\ Goes(c, "wait", "unlock") /\ _shutdown
  /\ UNCHANGED <<use, _queueLock, _queue, _count, _shutdown, blocked, value, left, on, pushes,
                 cancels>>

WaitFront(c) ==
  /\ Goes(c, "wait", "sub")
  /\ _queue # <<>> /\ ~_shutdown /\ _queue' = Tail(_queue)
  /\ UNCHANGED <<use, _queueLock, _count, _shutdown, blocked, value, left, on, pushes, cancels>>

FetchSub(c) ==
  /\ Goes(c, "sub", "unlock")
  /\ _count' = _count - 1
  /\ UNCHANGED <<use, _queueLock, _queue, _shutdown, blocked, value, left, on, pushes, cancels>>

-----------------------------------------------------------------------------
(* Size, PopPtr and Empty, as service::start calls them.                   *)

\* one worker runs a service
Size(c) ==
  /\ use = "service" /\ Goes(c, "out", "next")
  /\ \A d \in Consumers : pc[d] = "out"
  /\ left' = [left EXCEPT ![c] = _count]
  /\ UNCHANGED <<use, _queueLock, _queue, _count, _shutdown, blocked, value, on, pushes, cancels>>

CallPop(c) ==
  /\ Goes(c, "next", "pop?") /\ left[c] > 0
  /\ UNCHANGED <<use, _queueLock, _queue, _count, _shutdown, blocked, value, left, on, pushes,
                 cancels>>

PopPtr(c) ==
  /\ Goes(c, "pop", IF _queue = <<>> \/ _shutdown THEN "unlock" ELSE "sub")
  /\ _queue' = IF _queue = <<>> \/ _shutdown THEN _queue ELSE Tail(_queue)
  /\ left' = [left EXCEPT ![c] = @ - 1]
  /\ UNCHANGED <<use, _queueLock, _count, _shutdown, blocked, value, on, pushes, cancels>>

\* after the loop
CallEmpty(c) ==
  /\ Goes(c, "next", "empty?") /\ left[c] = 0
  /\ UNCHANGED <<use, _queueLock, _queue, _count, _shutdown, blocked, value, left, on, pushes,
                 cancels>>

\* what follows Empty is another call, on another queue
Empty(c) ==
  /\ Goes(c, "empty", "out") /\ _queueLock' = Nil
  /\ UNCHANGED <<use, _queue, _count, _shutdown, blocked, value, left, on, pushes, cancels>>

-----------------------------------------------------------------------------
(* Cancel, of the global queue only.                                       *)

\* a signal comes while thread t runs; stop calls Cancel for every worker
CallCancel(t) ==
  /\ use = "global" /\ on = Nil /\ t \in Interrupted /\ cancels < MaxCancels
  /\ Goes(Handler, "out", "cancel?")
  /\ on' = t /\ cancels' = cancels + 1
  /\ UNCHANGED <<use, _queueLock, _queue, _count, _shutdown, blocked, value, left, pushes>>

DeleteAll ==
  /\ Goes(Handler, "cancel", "reset")
  /\ _queue' = <<>>
  /\ UNCHANGED <<use, _queueLock, _count, _shutdown, blocked, value, left, on, pushes, cancels>>

SetShutdown ==
  /\ Goes(Handler, "reset", "notify_all")
  /\ _shutdown' = TRUE /\ _count' = 0
  /\ UNCHANGED <<use, _queueLock, _queue, blocked, value, left, on, pushes, cancels>>

NotifyAll ==
  /\ Goes(Handler, "notify_all", "unlock")
  /\ blocked' = {}
  /\ UNCHANGED <<use, _queueLock, _queue, _count, _shutdown, value, left, on, pushes, cancels>>

ProducerStep(p) == \/ \E v \in Values : CallPush(p, v)
                   \/ PushItem(p) \/ FetchAdd(p) \/ NotifyOne(p)
WaiterStep(c)   == CallWait(c) \/ Wait(c) \/ Spurious(c) \/ WaitShutdown(c) \/ WaitFront(c)
ServiceStep(c)  == Size(c) \/ CallPop(c) \/ PopPtr(c) \/ CallEmpty(c) \/ Empty(c)
HandlerStep     == (\E t \in Interrupted : CallCancel(t)) \/ DeleteAll \/ SetShutdown \/ NotifyAll

Next ==
  \/ \E t \in Threads : Lock(t) \/ Unlock(t)
  \/ \E p \in Producers : ProducerStep(p)
  \/ \E c \in Consumers : WaiterStep(c) \/ ServiceStep(c) \/ FetchSub(c)
  \/ HandlerStep

Spec == Init /\ [][Next]_vars

-----------------------------------------------------------------------------
(* Properties.                                                             *)

\* A push counts when it notifies, Cancel when it has deleted what there was.
Pushing    == \E p \in Producers : pc[p] \in {"count", "notify"}
Cancelling == pc[Handler] \in {"reset", "notify_all"}

Atomic == INSTANCE AtomicQueue WITH
  queue    <- IF Pushing THEN SubSeq(_queue, 1, Len(_queue) - 1) ELSE _queue,
  shutdown <- _shutdown \/ Cancelling,
  asleep   <- IF Cancelling THEN {} ELSE blocked

\* The queue with its mutex does what the atomic queue does.
QueueIsAtomic == Atomic!Spec

\* As long as someone is blocked, there is for every item a consumer on its way to
\* take it: no item waits with a sleeper beside it.
ItemHasTaker ==
  _queueLock = Nil /\ blocked # {} =>
    Len(_queue) <= Cardinality({c \in Consumers \ blocked : pc[c] = "wait?"})

\* The consumer of a service finds as many messages as Size has counted, which reads
\* _count while others push.
SizeIsThere == use = "service" => \A c \in Consumers : left[c] <= Len(_queue)

\* What fails when the handler interrupts those who use the queue: it gets the mutex.
HandlerReturns == ~(on # Nil /\ pc[Handler] = "cancel?" /\ _queueLock = on)

=============================================================================
