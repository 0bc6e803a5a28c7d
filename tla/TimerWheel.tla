----------------------------- MODULE TimerWheel -----------------------------
(***************************************************************************)
(* The hierarchical timing wheel behind onbnet.sleep and onbnet.timeout:    *)
(* timewheel.cc, and the thread of timer.cc that turns it.                  *)
(*                                                                          *)
(* The wheel sorts timers by the digits of their time: the last one, with   *)
(* NEAR values, has a near slot per tick, each of the four before it LEVEL  *)
(* slots.  A tick may move one slot of a level to the lower ones.  The      *)
(* clock wraps (2^8 near slots and four times 2^6 make a uint32_t).         *)
(* Message workers add timers at any time; the timer thread unlocks the     *)
(* wheel while it runs the callbacks of a slot it has emptied.  Each action *)
(* is one section under the spinlock, or one callback.                      *)
(***************************************************************************)
EXTENDS Integers, Sequences, SequencesExt

CONSTANTS
  NEAR,     \* TIME_NEAR, 1 << TIME_NEAR_SHIFT
  LEVEL,    \* TIME_LEVEL, 1 << TIME_LEVEL_SHIFT
  Timers,   \* the timer nodes that can be in use at one time
  Delays    \* the delays that message workers ask for

\* the slots of level l (0 is the near wheel), and the ticks that each stands for
Size(l) == IF l = 0 THEN NEAR ELSE LEVEL
Window(l) ==
  <<1, NEAR, NEAR * LEVEL, NEAR * LEVEL * LEVEL, NEAR * LEVEL * LEVEL * LEVEL,
    NEAR * LEVEL * LEVEL * LEVEL * LEVEL>>[l + 1]
Span == Window(5)   \* uint32_t wraps at Span

\* lsleep passes an int, so a delay that is not negative is below Span \div 2.
\* A negative one wraps to a time just behind the clock, for which the wheel has
\* no slot that it empties in time (t[0][0], say, is never moved).
ASSUME WheelAssumption ==
  /\ NEAR \in Nat \ {0, 1} /\ LEVEL \in Nat \ {0, 1}
  /\ Delays \subseteq 0 .. (Span \div 2) - 1

VARIABLES
  time,     \* T->time
  wheel,    \* T->near (level 0) and T->t (levels 1 to 4)
  expire,   \* node->expire
  pc,       \* where the timer thread is in update_time_wheel_timer
  batch,    \* the list it took with link_clear, minus the nodes already run
  _close,   \* timer::_close
  pending   \* history: the timers added and not fired, with the ticks to go

vars == <<time, wheel, expire, pc, batch, _close, pending>>

Slots == UNION {{l} \X (0 .. Size(l) - 1) : l \in 0 .. 4}

TypeOK ==
  /\ time \in 0 .. Span - 1
  /\ wheel \in [Slots -> Seq(Timers)]
  /\ expire \in [Timers -> 0 .. Span - 1]
  /\ pc \in {"sleep", "first", "second", "closed"}
  /\ batch \in Seq(Timers)
  /\ _close \in BOOLEAN
  /\ pending \in Seq([timer : Timers, due : -1 .. Span])

Init ==
  /\ time = 0
  /\ wheel = [s \in Slots |-> <<>>]
  /\ expire = [n \in Timers |-> 0]
  /\ pc = "sleep"
  /\ batch = <<>>
  /\ _close = FALSE
  /\ pending = <<>>

-----------------------------------------------------------------------------
(* The wheel.                                                              *)

\* the digit of a time that level l sorts by
Digit(tm, l) == (tm \div Window(l)) % Size(l)

SharesWindow(a, b, l) == a \div Window(l) = b \div Window(l)

\* add_node: the first level whose window the times share, near if they share a
\* near window; the last level takes what is left
LevelFor(tm, now) ==
  CHOOSE l \in 0 .. 4 :
    /\ l = 4 \/ SharesWindow(tm, now, l + 1)
    /\ \A k \in 0 .. l - 1 : ~SharesWindow(tm, now, k + 1)

SlotFor(tm, now) == <<LevelFor(tm, now), Digit(tm, LevelFor(tm, now))>>

AddNode(w, n, tm, now) == [w EXCEPT ![SlotFor(tm, now)] = Append(@, n)]

\* mutant: the slot keeps its nodes
Moved_Kept(w, s, now) ==
  LET v[i \in 0 .. Len(w[s])] ==
        IF i = 0 THEN w ELSE AddNode(v[i - 1], w[s][i], expire[w[s][i]], now)
  IN  v

\* move_list: empty a slot and add its nodes again, in order
Moved(w, s, now) ==
  LET v[i \in 0 .. Len(w[s])] ==
        IF i = 0 THEN [w EXCEPT ![s] = <<>>]
                 ELSE AddNode(v[i - 1], w[s][i], expire[w[s][i]], now)
  IN  v

MoveList(w, s, now) == Moved(w, s, now)[Len(w[s])]

\* mutant: a clock that wraps to 0 moves nothing
SlotToMove_NoWrap(ct) ==
  {<<l, Digit(ct, l)>> :
     l \in {k \in 1 .. 4 : ct % Window(k) = 0 /\ Digit(ct, k) # 0}}

\* mutant: the slot of the first level is never moved
SlotToMove_NoFirst(ct) ==
  IF ct = 0 THEN {<<4, 0>>}
            ELSE {<<l, Digit(ct, l)>> :
                    l \in {k \in 2 .. 4 : ct % Window(k) = 0 /\ Digit(ct, k) # 0}}

\* timer_shift: the slot to move at clock ct, at most one
SlotToMove(ct) ==
  IF ct = 0 THEN {<<4, 0>>}
            ELSE {<<l, Digit(ct, l)>> :
                    l \in {k \in 1 .. 4 : ct % Window(k) = 0 /\ Digit(ct, k) # 0}}

Shifted(w, ct) ==
  IF SlotToMove(ct) = {} THEN w
                         ELSE MoveList(w, CHOOSE s \in SlotToMove(ct) : TRUE, ct)

Due(tm) == <<0, Digit(tm, 0)>>

-----------------------------------------------------------------------------
Asked(n) == \E i \in DOMAIN pending : pending[i].timer = n

\* mutant: the time of a node is wider than the clock
AddTimer_Wide(n, d) ==
  /\ ~Asked(n)
  /\ expire' = [expire EXCEPT ![n] = time + d]
  /\ wheel' = AddNode(wheel, n, time + d, time)
  /\ pending' = Append(pending, [timer |-> n, due |-> d])
  /\ UNCHANGED <<time, pc, batch, _close>>

\* timer_wheel_add, called by lsleep in a message worker
AddTimer(n, d) ==
  /\ ~Asked(n)
  /\ LET tm == (time + d) % Span IN
       /\ expire' = [expire EXCEPT ![n] = tm]
       /\ wheel' = AddNode(wheel, n, tm, time)
  /\ pending' = Append(pending, [timer |-> n, due |-> d])
  /\ UNCHANGED <<time, pc, batch, _close>>

\* The thread enters update_time_wheel_timer, or comes back with the lock after
\* the callbacks of its first timerExecute.
InFirst == (pc = "sleep" /\ ~_close) \/ (pc = "first" /\ batch = <<>>)

\* first timerExecute: a node with delay 0 came after the last tick
ExecuteFirst ==
  /\ InFirst
  /\ wheel[Due(time)] # <<>>
  /\ batch' = wheel[Due(time)]
  /\ wheel' = [wheel EXCEPT ![Due(time)] = <<>>]
  /\ pc' = "first"
  /\ UNCHANGED <<time, expire, _close, pending>>

\* in pending, a timer whose tick has passed (FiresOnTimeInOrder excludes it)
Overdue == -1

\* timer_shift, and the first round of the second timerExecute
ShiftAndExecute ==
  /\ InFirst
  /\ wheel[Due(time)] = <<>>
  /\ LET ct == (time + 1) % Span
         w  == Shifted(wheel, ct)
     IN  /\ time' = ct
         /\ batch' = w[Due(ct)]
         /\ wheel' = [w EXCEPT ![Due(ct)] = <<>>]
         /\ pc' = IF w[Due(ct)] = <<>> THEN "sleep" ELSE "second"
  /\ pending' = [i \in DOMAIN pending |->
                   [pending[i] EXCEPT !.due = IF @ = Overdue THEN @ ELSE @ - 1]]
  /\ UNCHANGED <<expire, _close>>

\* the later rounds of the second timerExecute
ExecuteSecond ==
  /\ pc = "second" /\ batch = <<>>
  /\ batch' = wheel[Due(time)]
  /\ wheel' = [wheel EXCEPT ![Due(time)] = <<>>]
  /\ pc' = IF wheel[Due(time)] = <<>> THEN "sleep" ELSE "second"
  /\ UNCHANGED <<time, expire, _close, pending>>

\* n->cb(); delete n (0 for a node that is not in use)
Callback ==
  /\ batch # <<>>
  /\ batch' = Tail(batch)
  /\ expire' = [expire EXCEPT ![Head(batch)] = 0]
  /\ pending' = RemoveFirstMatch(pending, LAMBDA p : p.timer = Head(batch))
  /\ UNCHANGED <<time, wheel, pc, _close>>

\* timer::stop; the loop of timer::run ends at its next test
Close == _close' = TRUE /\ UNCHANGED <<time, wheel, expire, pc, batch, pending>>

Leave ==
  /\ pc = "sleep" /\ _close
  /\ pc' = "closed"
  /\ UNCHANGED <<time, wheel, expire, batch, _close, pending>>

TimerThread == ExecuteFirst \/ ShiftAndExecute \/ ExecuteSecond \/ Callback \/ Leave

Next ==
  \/ \E n \in Timers, d \in Delays : AddTimer(n, d)
  \/ TimerThread
  \/ Close

Spec == Init /\ [][Next]_vars

\* The timer thread keeps running; nobody has to add a timer or stop the server.
FairSpec == Spec /\ WF_vars(TimerThread)

-----------------------------------------------------------------------------
(* Properties.                                                             *)

Occurs(n, q) == {i \in DOMAIN q : q[i] = n}
Places(n) == {<<"batch", i>> : i \in Occurs(n, batch)}
             \cup UNION {{<<s, i>> : i \in Occurs(n, wheel[s])} : s \in Slots}

\* A timer that was added and has not fired is in exactly one place, a slot or
\* the list whose callbacks run, and once there; a free node is in no place: no
\* cascade loses, duplicates or keeps a node.
OnePlace ==
  \A n \in Timers :
    IF Asked(n) THEN \E p \in Places(n) : Places(n) = {p} ELSE Places(n) = {}

\* The near slots hold the timers of the present near window that are still to
\* come, each in the slot of its own tick, so a slot is emptied at its tick only.
NearIsAhead ==
  \A j \in 0 .. NEAR - 1 : \A i \in DOMAIN wheel[<<0, j>>] :
    LET tm == expire[wheel[<<0, j>>][i]]
    IN  Digit(tm, 0) = j /\ SharesWindow(tm, time, 1) /\ tm >= time

\* No cascade of timer_shift loses, duplicates or keeps a node, and the near slots
\* hold what is still to come in the present window.
SlotsSound == OnePlace /\ NearIsAhead

\* Every timer fires after exactly its delay, once, and those of one tick in the
\* order they were added, wherever in the wheel they started.
Service == INSTANCE TimerService
FiresOnTimeInOrder == Service!Spec

\* Every timer that was added fires, unless the server stops.  The thread leaves
\* its loop over a slot only when it finds the slot empty, so the clock stands
\* still while workers add timers of delay 0 as fast as it runs them; the
\* property is about the behaviours in which it gets to sleep again and again.
EveryTimerFires ==
  []<>(pc = "sleep") => \A n \in Timers : Asked(n) ~> (~Asked(n) \/ _close)

=============================================================================
