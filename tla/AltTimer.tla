------------------------------ MODULE AltTimer ------------------------------
(***************************************************************************)
(* The timer of timer.cc over its binary heap, red-black tree or skip list  *)
(* (the timing wheel, which the server uses, is in TimerWheel).  Timers are *)
(* asked for by callbacks, before the thread starts, and by other threads   *)
(* while it sleeps or between two of its steps.  Nothing here takes a lock: *)
(* an add_* of another thread inside one of the thread's own operations on  *)
(* the structure (timer.cc:138-158 beside :166-218) is a data race, which   *)
(* is not modelled.  key[n] is the time to go of node n, negative when it   *)
(* is late: the code keeps times of the clock.                              *)
(***************************************************************************)
EXTENDS Integers

CONSTANTS
  MaxHeap, MaxTree, MaxList,   \* timers pending or running at one time, in each
  Delays,      \* the delays asked for
  Types,       \* the structures to use, of MIN_HEAP, RBTREE and ZKIPLIST
  MaxLevel,    \* ZSKIPLIST_MAXLEVEL
  Block,       \* pointers that the least block of malloc holds
  FirstSize,   \* the first capacity of the heap
  Idle         \* the first sleep of the thread, 50 in the code

MaxOf(T) == CHOOSE x \in T : \A y \in T : y <= x
MaxSleep == MaxOf(Delays \cup {Idle})

Nodes     == 1 .. MaxOf({MaxHeap, MaxTree, MaxList})
HeapSlots == 0 .. MaxHeap

Heap == INSTANCE MinHeap
Tree == INSTANCE RbTree
List == INSTANCE SkipList

\* what is assumed of the constants, where this module is instantiated
AltTimerAssumption ==
  /\ {MaxHeap, MaxTree, MaxList, MaxLevel, Block} \subseteq Nat \ {0}
  /\ FirstSize \in Nat \ {0} /\ Idle \in Nat \ {0}
  /\ Delays \subseteq Nat
  /\ Types \subseteq {"MIN_HEAP", "RBTREE", "ZKIPLIST"}

VARIABLES
  _Type, store,   \* the structure in use, and _heap, _rbtree or _zskiplist
  key,            \* entry->time, node->key or node->score, less the present
  sleep,          \* the local of run()
  pc, running,    \* where the thread is, and the node whose callback it runs
  _close,
  asked           \* history: the timers added and not yet fired

vars == <<_Type, store, key, sleep, pc, running, _close, asked>>

Members(k) == CASE k = "MIN_HEAP" -> Heap!HeapMembers(store)
                [] k = "RBTREE"   -> Tree!TreeMembers(store)
                [] k = "ZKIPLIST" -> List!ListMembers(store)

TypeOK ==
  /\ _Type \in Types
  /\ Members(_Type) \subseteq Nodes
  /\ key \in [Nodes -> Int]
  /\ sleep \in 1 .. MaxSleep
  /\ pc \in {"start", "loop", "callback", "sleep", "closed"}
  /\ running \in Nodes \cup {0}
  /\ _close \in BOOLEAN
  /\ asked \subseteq Nodes

Init ==
  /\ _Type \in Types
  /\ store = CASE _Type = "MIN_HEAP" -> Heap!HeapInit(Nodes)
               [] _Type = "RBTREE"   -> Tree!TreeInit(Nodes)
               [] _Type = "ZKIPLIST" -> List!ListInit(Nodes)
  /\ key = [n \in Nodes |-> 0]
  /\ sleep = Idle
  /\ pc = "start"
  /\ running = 0
  /\ _close = FALSE
  /\ asked = {}

\* the code has followed a null pointer of the tree, or written past a node of the list
Faulted == _Type \in {"RBTREE", "ZKIPLIST"} /\ store.fault

-----------------------------------------------------------------------------

AtMost == CASE _Type = "MIN_HEAP" -> MaxHeap [] _Type = "RBTREE" -> MaxTree
            [] _Type = "ZKIPLIST" -> MaxList

Free == (1 .. AtMost) \ (asked \cup {running})

\* add_timer: a new node, here the free one of the least number
Add(d) ==
  /\ pc # "closed"
  /\ Free # {}
  /\ LET n == CHOOSE n \in Free : \A m \in Free : n <= m
         k == [key EXCEPT ![n] = d]
     IN /\ key' = k
        /\ asked' = asked \cup {n}
        /\ \/ _Type = "MIN_HEAP" /\ store' = Heap!HeapPush(store, n, k)
           \/ _Type = "RBTREE" /\ store' = Tree!TreeInsert(store, n, k)
           \/ /\ _Type = "ZKIPLIST"
              /\ \E allocated, level \in 1 .. MaxLevel :
                   store' = List!ListInsert(store, n, allocated, level, k)
  /\ UNCHANGED <<_Type, sleep, pc, running, _close>>

Start ==
  /\ pc = "start"
  /\ pc' = "loop"
  /\ UNCHANGED <<_Type, store, key, sleep, running, _close, asked>>

Top == CASE _Type = "MIN_HEAP" -> store.p[0]
         [] _Type = "RBTREE"   -> Tree!TreeMin(store)
         [] _Type = "ZKIPLIST" -> List!ListMin(store)

Without == CASE _Type = "MIN_HEAP" -> Heap!HeapPop(store, key)
             [] _Type = "RBTREE"   -> Tree!TreeDeleteMin(store)
             [] _Type = "ZKIPLIST" -> List!ListDeleteHead(store)

\* one timer at most fires
Fire ==
  /\ store' = Without
  /\ running' = Top
  /\ asked' = asked \ {Top}
  /\ key' = [key EXCEPT ![Top] = 0]
  /\ pc' = "callback"
  /\ UNCHANGED <<_Type, sleep, _close>>

\* when none is due, the thread will sleep until one is; without any, sleep keeps
\* its value
Wait ==
  /\ sleep' = IF Members(_Type) # {} THEN key[Top] ELSE sleep
  /\ pc' = "sleep"
  /\ UNCHANGED <<_Type, store, key, running, _close, asked>>

\* update_min_heap_timer and the like
Update ==
  /\ pc = "loop" /\ ~_close
  /\ \/ Members(_Type) # {} /\ key[Top] <= 0 /\ Fire
     \/ (Members(_Type) # {} => key[Top] > 0) /\ Wait

\* stop(), here from a callback
Stop ==
  /\ pc = "callback"
  /\ _close' = TRUE
  /\ UNCHANGED <<_Type, store, key, sleep, pc, running, asked>>

\* the callback returns and the node is deleted
Return ==
  /\ pc = "callback"
  /\ running' = 0
  /\ store' = CASE _Type = "MIN_HEAP" -> Heap!HeapFree(store, running)
                [] _Type = "RBTREE"   -> Tree!TreeFree(store, running)
                [] _Type = "ZKIPLIST" -> List!ListFree(store, running)
  /\ pc' = "sleep"
  /\ UNCHANGED <<_Type, key, sleep, _close, asked>>

\* the rest of the loop: it sleeps until sleep ticks after it looked at the clock
Sleep ==
  /\ pc = "sleep"
  /\ key' = [n \in Nodes |-> IF n \in asked THEN key[n] - sleep ELSE 0]
  /\ pc' = "loop"
  /\ UNCHANGED <<_Type, store, sleep, running, _close, asked>>

Exit ==
  /\ pc = "loop" /\ _close
  /\ pc' = "closed"
  /\ UNCHANGED <<_Type, store, key, sleep, running, _close, asked>>

Run == Update \/ Return \/ Sleep \/ Exit

Next == ~Faulted /\ ((\E d \in Delays : Add(d)) \/ Start \/ Stop \/ Run)

Spec == Init /\ [][Next]_vars

-----------------------------------------------------------------------------

\* No timer is lost and none is kept: the structure, with all its links, holds
\* just the timers asked for and not fired, whatever was added and popped before,
\* as long as there was no fault.
HoldsAsked == ~Faulted => Members(_Type) = asked

\* The structures keep their order and their links (min_heap_idx and the capacity
\* of the heap, parents in the tree, levels of the skip list) until a fault.
KeepsOrder ==
  ~Faulted =>
    CASE _Type = "MIN_HEAP" -> Heap!HeapShape(store, key)
      [] _Type = "RBTREE"   -> Tree!TreeShape(store, key)
      [] _Type = "ZKIPLIST" -> List!ListShape(store, key)

\* rbtree_delete never follows the null pointers of its sentinel, and zsl_insert never
\* writes past the levels of a node.  Neither holds (rbtree.cc:251, zkiplist.cc:72-84).
NoFault == ~Faulted

\* A timer is late by no more than one sleep for every timer there can be: the
\* thread fires one timer between two sleeps, and sleeps for as long as it did last
\* (until a timer that has fired since, perhaps) even when another is due.
LateByQueue == \A n \in asked : key[n] >= -(MaxSleep * AtMost)

\* A timer fires when it is due and no timer is due before it.
FiresEarliest ==
  [][\A n \in asked \ asked' : key[n] <= 0 /\ \A m \in asked : key[n] <= key[m]]_vars

=============================================================================
