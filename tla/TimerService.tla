---------------------------- MODULE TimerService ----------------------------
(***************************************************************************)
(* What onbnet promises of its timers: a timer asked for with a delay of d  *)
(* ticks fires once, after exactly d ticks, and timers due at one tick fire *)
(* in the order in which they were asked for.  TimerWheel implements it.    *)
(***************************************************************************)
EXTENDS Integers, Sequences, SequencesExt

CONSTANTS
  Timers,   \* the timer nodes
  Delays    \* the delays that may be asked for

VARIABLE pending   \* the timers asked for, oldest first, with the ticks to go

Asked(n) == \E i \in DOMAIN pending : pending[i].timer = n

Init == pending = <<>>

Add(n, d) ==
  /\ ~Asked(n)
  /\ pending' = Append(pending, [timer |-> n, due |-> d])

\* time does not pass while a timer is due
Tick ==
  /\ \A i \in DOMAIN pending : pending[i].due > 0
  /\ pending' = [i \in DOMAIN pending |-> [pending[i] EXCEPT !.due = @ - 1]]

\* the oldest of the timers that are due fires
Fire(i) ==
  /\ pending[i].due = 0
  /\ \A j \in 1 .. i - 1 : pending[j].due > 0
  /\ pending' = RemoveAt(pending, i)

Next ==
  \/ \E n \in Timers, d \in Delays : Add(n, d)
  \/ Tick
  \/ \E i \in DOMAIN pending : Fire(i)

Spec == Init /\ [][Next]_pending

=============================================================================
