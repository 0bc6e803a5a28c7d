----------------------------- MODULE AtomicQueue -----------------------------
(***************************************************************************)
(* What a producer_consumer_queue promises to those who share it: every     *)
(* operation is one step.  The scheduler (ServiceDispatch) is modelled over *)
(* queues of this kind; QueueLocks has the mutex and the condition          *)
(* variable.                                                                *)
(***************************************************************************)
EXTENDS Sequences

CONSTANTS Consumers, Values

VARIABLES
  queue,
  shutdown,
  asleep      \* the consumers blocked in _condition.wait

vars == <<queue, shutdown, asleep>>

Init == queue = <<>> /\ shutdown = FALSE /\ asleep = {}

\* one of those who are asleep wakes up, if there is one
Push(v) ==
  /\ queue' = Append(queue, v)
  /\ IF asleep = {} THEN UNCHANGED asleep
                    ELSE \E c \in asleep : asleep' = asleep \ {c}
  /\ UNCHANGED shutdown

Pop == ~shutdown /\ queue # <<>> /\ queue' = Tail(queue) /\ UNCHANGED <<shutdown, asleep>>

Sleep(c) ==
  /\ ~shutdown /\ queue = <<>> /\ c \notin asleep
  /\ asleep' = asleep \cup {c}
  /\ UNCHANGED <<queue, shutdown>>

SpuriousWakeup(c) == c \in asleep /\ asleep' = asleep \ {c} /\ UNCHANGED <<queue, shutdown>>

Cancel == queue' = <<>> /\ shutdown' = TRUE /\ asleep' = {}

Next ==
  \/ \E v \in Values : Push(v)
  \/ \E c \in Consumers : Sleep(c) \/ SpuriousWakeup(c)
  \/ Pop \/ Cancel

Spec == Init /\ [][Next]_vars

=============================================================================
