------------------------------ MODULE MinHeap ------------------------------
(***************************************************************************)
(* The binary heap of timer entries of minheap.cc.  A heap is a record:     *)
(* p is the array of entries (indexed from 0, its n first places in use), a *)
(* the capacity it was given, idx the min_heap_idx of every entry.  Entries *)
(* are identified by numbers and key[e] is the time of entry e.             *)
(***************************************************************************)
EXTENDS Integers

CONSTANTS HeapSlots,   \* indices 0 .. the number of entries in use at one time
          FirstSize    \* the capacity of the first allocation, 8 in the code

NoIndex == -1          \* min_heap_idx of an entry that left the heap

\* min_heap_init: the size is 0 unless the owner of the timer gives another
HeapInit(Entries) ==
  [p   |-> [i \in HeapSlots |-> 0],
   n   |-> 0,
   a   |-> 0,
   idx |-> [e \in Entries |-> 0]]

\* (s->p[i] = e)->min_heap_idx = i
Place(h, i, e) == [h EXCEPT !.p[i] = e, !.idx[e] = i]

RECURSIVE ShiftUp(_, _, _, _)

ShiftUp(h, hole, e, key) ==
  LET parent == (hole - 1) \div 2 IN
  IF hole # 0 /\ key[h.p[parent]] > key[e]
    THEN ShiftUp(Place(h, hole, h.p[parent]), parent, e, key)
    ELSE Place(h, hole, e)

RECURSIVE ShiftDown(_, _, _, _)

\* the right child may be the place behind the last entry
ShiftDown(h, hole, e, key) ==
  LET right == 2 * (hole + 1)
      child == IF right = h.n \/ key[h.p[right]] > key[h.p[right - 1]]
                 THEN right - 1 ELSE right
  IN IF right <= h.n /\ key[e] > key[h.p[child]]
       THEN ShiftDown(Place(h, hole, h.p[child]), child, e, key)
       ELSE Place(h, hole, e)

\* min_heap_reserve, for one more entry
Reserve(h) ==
  IF h.a >= h.n + 1 THEN h
  ELSE [h EXCEPT !.a = IF h.a = 0 THEN FirstSize ELSE 2 * h.a]

HeapPush(h, e, key) ==
  ShiftUp([Reserve(h) EXCEPT !.n = @ + 1], h.n, e, key)

\* The last entry takes the place of the first, and the place it leaves (0 here) is
\* not read again.
HeapPop(h, key) ==
  LET top == h.p[0] IN
  [ShiftDown([h EXCEPT !.n = @ - 1], 0, h.p[h.n - 1], key)
     EXCEPT !.idx[top] = NoIndex, !.p[h.n - 1] = 0]

\* the entry is deleted; a new one starts with 0
HeapFree(h, e) == [h EXCEPT !.idx[e] = 0]

HeapMembers(h) == {h.p[i] : i \in 0 .. h.n - 1}

\* every entry knows its place, no later than its children, within the array
HeapShape(h, key) ==
  /\ h.n <= h.a
  /\ \A i \in 0 .. h.n - 1 :
       /\ h.idx[h.p[i]] = i
       /\ i > 0 => key[h.p[(i - 1) \div 2]] <= key[h.p[i]]

=============================================================================
