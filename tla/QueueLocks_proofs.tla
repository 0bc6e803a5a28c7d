------------------------- MODULE QueueLocks_proofs -------------------------
(***************************************************************************)
(* Proofs about QueueLocks, for any threads and values: what its mutex      *)
(* protects, what its count says, and that it implements AtomicQueue.       *)
(***************************************************************************)
EXTENDS QueueLocks, FiniteSetTheorems, SequenceTheorems, TLAPS

-----------------------------------------------------------------------------
(* The inductive invariant.                                                *)

ConsumerSteps == {"out", "wait?", "wait", "next", "pop?", "pop", "sub", "empty?", "empty", "unlock"}
ProducerSteps == {"out", "push?", "push", "count", "notify", "unlock"}
HandlerSteps  == {"out", "cancel?", "cancel", "reset", "notify_all", "unlock"}

\* the steps between taking the mutex and releasing it
Critical == {"push", "count", "notify", "wait", "pop", "sub", "empty", "cancel", "reset",
             "notify_all", "unlock"}

\* every thread is in its own functions, and in a critical section with the mutex
Roles ==
  /\ \A c \in Consumers : pc[c] \in ConsumerSteps
  /\ \A p \in Producers : pc[p] \in ProducerSteps
  /\ pc[Handler] \in HandlerSteps
  /\ \A t \in Threads : pc[t] \in Critical <=> _queueLock = t
  /\ \A p \in Producers : pc[p] \in {"push?", "push"} => value[p] \in Values

\* the two uses do not mix; a service has one consumer, and nothing cancels it
UsesApart ==
  /\ \A c \in blocked : pc[c] = "wait?"
  /\ use = "service" =>
       /\ blocked = {} /\ ~_shutdown /\ pc[Handler] = "out"
       /\ \A c, d \in Consumers : pc[c] # "out" /\ pc[d] # "out" => c = d
       /\ \A c \in Consumers : pc[c] \notin {"wait?", "wait"}
  /\ use = "global" =>
       \A c \in Consumers : pc[c] \notin {"next", "pop?", "pop", "empty?", "empty"}

\* what Size has counted is used up when the loop ends
Rounds ==
  /\ \A c \in Consumers : pc[c] \in {"out", "empty?", "empty"} => left[c] = 0
  /\ \A c \in Consumers : pc[c] \in {"pop?", "pop"} => left[c] > 0
  /\ use = "global" => \A c \in Consumers : left[c] = 0

\* what is pushed stays until it is announced; Cancel leaves nothing and nobody asleep
Announced ==
  /\ Pushing => _queue # <<>>
  /\ Cancelling => _queue = <<>>
  /\ pc[Handler] = "notify_all" => _shutdown
  /\ _shutdown /\ pc[Handler] # "notify_all" => blocked = {}

Counting == IF \E p \in Producers : pc[p] = "count" THEN 1 ELSE 0
Subbing  == IF \E c \in Consumers : pc[c] = "sub" THEN 1 ELSE 0
Coming   == {p \in Producers : pc[p] \in {"push?", "push"}}

\* _count is the length of the queue, but for the step that the holder of the mutex owes
Counted ==
  /\ pc[Handler] # "reset" => _count + Counting = Len(_queue) + Subbing
  /\ IsFiniteSet(Coming)
  /\ Len(_queue) + Cardinality(Coming) + Subbing <= pushes

Takers  == {c \in Consumers \ blocked : pc[c] = "wait?"}
Serving == IF \/ \E c \in Consumers : pc[c] = "wait"
              \/ \E p \in Producers : pc[p] \in {"count", "notify"}
             THEN 1 ELSE 0

\* beside a sleeper every item has a consumer that comes for it, or is about to have one
TakersCome ==
  /\ IsFiniteSet(Takers) /\ IsFiniteSet(blocked)
  /\ blocked # {} => Len(_queue) <= Cardinality(Takers) + Serving

IInv == /\ TypeOK /\ Roles /\ UsesApart /\ Rounds /\ Announced /\ Counted /\ TakersCome
        /\ SizeIsThere

-----------------------------------------------------------------------------
(* A step of one thread.                                                   *)

\* The threads of different kinds are different, and none is Nil.
LEMMA Kinds ==
  ASSUME QueueLocksAssumption
  PROVE  /\ Consumers \cap Producers = {} /\ Handler \notin Consumers /\ Handler \notin Producers
         /\ Nil \notin Threads /\ Threads = Consumers \cup Producers \cup {Handler}
         /\ MaxPushes \in Nat /\ MaxCancels \in Nat
  BY DEF QueueLocksAssumption, Threads

\* Goes moves one thread.
LEMMA GoesDoes ==
  ASSUME TypeOK, NEW t \in Threads, NEW here, NEW there, Goes(t, here, there)
  PROVE  /\ pc[t] = here /\ pc'[t] = there
         /\ \A d \in Threads \ {t} : pc'[d] = pc[d]
  BY DEF Goes, TypeOK

\* Who is in a critical section is alone there.
LEMMA Alone ==
  ASSUME Roles, NEW t \in Threads, pc[t] \in Critical
  PROVE  _queueLock = t /\ \A d \in Threads \ {t} : pc[d] \notin Critical
  BY DEF Roles

\* The counts are 0 or 1, and which it is.
LEMMA CountsAre ==
  /\ Counting \in {0, 1} /\ (Counting = 1 <=> \E p \in Producers : pc[p] = "count")
  /\ Subbing \in {0, 1} /\ (Subbing = 1 <=> \E c \in Consumers : pc[c] = "sub")
  /\ Serving \in {0, 1}
  /\ Serving = 1 <=> \/ \E c \in Consumers : pc[c] = "wait"
                     \/ \E p \in Producers : pc[p] \in {"count", "notify"}
BY DEF Counting, Subbing, Serving

\* The same of the next state.
LEMMA CountsAreNext ==
  /\ Counting' \in {0, 1} /\ (Counting' = 1 <=> \E p \in Producers : pc'[p] = "count")
  /\ Subbing' \in {0, 1} /\ (Subbing' = 1 <=> \E c \in Consumers : pc'[c] = "sub")
  /\ Serving' \in {0, 1}
  /\ Serving' = 1 <=> \/ \E c \in Consumers : pc'[c] = "wait"
                      \/ \E p \in Producers : pc'[p] \in {"count", "notify"}
BY DEF Counting, Subbing, Serving

\* The functions that take the mutex, and where they begin.
LEMMA EntryIs ==
  /\ DOMAIN Entry = {"push", "wait", "pop", "empty", "cancel"}
  /\ Entry["push"] = "push?" /\ Entry["wait"] = "wait?" /\ Entry["pop"] = "pop?"
  /\ Entry["empty"] = "empty?" /\ Entry["cancel"] = "cancel?"
BY DEF Entry

\* What taking the mutex does.
LEMMA LockDoes ==
  ASSUME TypeOK, NEW t \in Threads, Lock(t)
  PROVE  /\ t \notin blocked /\ _queueLock = Nil /\ _queueLock' = t
         /\ UNCHANGED <<use, _queue, _count, _shutdown, blocked, value, left, on, pushes, cancels>>
         /\ \/ pc[t] = "push?" /\ pc'[t] = "push"
            \/ pc[t] = "wait?" /\ pc'[t] = "wait"
            \/ pc[t] = "pop?" /\ pc'[t] = "pop"
            \/ pc[t] = "empty?" /\ pc'[t] = "empty"
            \/ pc[t] = "cancel?" /\ pc'[t] = "cancel"
         /\ \A d \in Threads \ {t} : pc'[d] = pc[d]
<1>1. PICK f \in {"push", "wait", "pop", "empty", "cancel"} : Goes(t, Entry[f], f)
  BY EntryIs DEF Lock
<1>2. /\ pc[t] = Entry[f] /\ pc'[t] = f
      /\ \A d \in Threads \ {t} : pc'[d] = pc[d]
  BY <1>1, GoesDoes
<1> QED BY <1>2, EntryIs DEF Lock

\* The mutex and the functions a thread is in change together.
LEMMA RolesMove ==
  ASSUME QueueLocksAssumption, TypeOK, Roles, NEW t \in Threads, NEW here, NEW there,
         Goes(t, here, there),
         t \in Consumers => there \in ConsumerSteps,
         t \in Producers => there \in ProducerSteps,
         t = Handler => there \in HandlerSteps,
         \/ (here \in Critical <=> there \in Critical) /\ UNCHANGED _queueLock
         \/ here \notin Critical /\ there \in Critical /\ _queueLock = Nil /\ _queueLock' = t
         \/ here \in Critical /\ there \notin Critical /\ _queueLock' = Nil,
         \A p \in Producers : pc'[p] \in {"push?", "push"} => value'[p] \in Values
  PROVE  Roles'
<1>1. /\ pc[t] = here /\ pc'[t] = there
      /\ \A d \in Threads \ {t} : pc'[d] = pc[d]
  BY GoesDoes
<1>2. /\ \A c \in Consumers : pc'[c] \in ConsumerSteps
      /\ \A p \in Producers : pc'[p] \in ProducerSteps
      /\ pc'[Handler] \in HandlerSteps
  BY <1>1, Kinds DEF Roles
<1>3. \A d \in Threads : pc'[d] \in Critical <=> _queueLock' = d
  <2>1. ASSUME NEW d \in Threads
        PROVE  /\ pc[d] \in Critical <=> _queueLock = d
               /\ d # t => pc'[d] = pc[d]
               /\ d # Nil
    BY <1>1, Kinds DEF Roles
  <2> QED BY <1>1, <2>1
<1> QED BY <1>2, <1>3 DEF Roles

\* What each step asks of the pc and the mutex.
LEMMA RolesStep ==
  ASSUME QueueLocksAssumption
  PROVE  TypeOK /\ Roles /\ UsesApart /\ [Next]_vars => Roles'
<1> SUFFICES ASSUME TypeOK, Roles, UsesApart, [Next]_vars
             PROVE  Roles'
  OBVIOUS
<1>0. /\ Consumers \cap Producers = {} /\ Handler \notin Consumers /\ Handler \notin Producers
      /\ Consumers \subseteq Threads /\ Producers \subseteq Threads /\ Handler \in Threads
      /\ Threads = Consumers \cup Producers \cup {Handler}
  BY Kinds
<1>1. ASSUME NEW t \in Threads, NEW here, NEW there, Goes(t, here, there), UNCHANGED value,
             there \notin {"push?", "push"} \/ here = "push?"
      PROVE  \A p \in Producers : pc'[p] \in {"push?", "push"} => value'[p] \in Values
  BY <1>0, <1>1, GoesDoes DEF Roles
<1>2. ASSUME NEW t \in Threads, Lock(t)
      PROVE  Roles'
  <2>1. PICK f \in {"push", "wait", "pop", "empty", "cancel"} :
           Goes(t, Entry[f], f) /\ UNCHANGED value /\ _queueLock = Nil /\ _queueLock' = t
    BY <1>2, EntryIs DEF Lock
  <2>2. /\ t \in Consumers => f \in ConsumerSteps
        /\ t \in Producers => f \in ProducerSteps
        /\ t = Handler => f \in HandlerSteps
    <3>1. pc[t] = Entry[f]
      BY <2>1, GoesDoes
    <3> QED BY <3>1, EntryIs DEF Roles, ConsumerSteps, ProducerSteps, HandlerSteps
  <2>3. f \in Critical /\ Entry[f] \notin Critical /\ f \notin {"push?", "wait?"}
    BY EntryIs DEF Critical
  <2>4. f = "push" => Entry[f] = "push?"
    BY EntryIs
  <2>5. \A p \in Producers : pc'[p] \in {"push?", "push"} => value'[p] \in Values
    BY <1>1, <2>1, <2>3, <2>4
  <2> QED BY <2>1, <2>2, <2>3, <2>5, RolesMove
<1>3. ASSUME NEW t \in Threads, Unlock(t)
      PROVE  Roles'
  <2> DEFINE there == IF t \in Consumers /\ use = "service" THEN "next" ELSE "out"
  <2>1. Goes(t, "unlock", there) /\ _queueLock' = Nil
    BY <1>3 DEF Unlock
  <2>2. there \in {"next", "out"} /\ (t \notin Consumers => there = "out")
    OBVIOUS
  <2>3. value' = IF t \in Producers THEN [value EXCEPT ![t] = Nil] ELSE value
    BY <1>3 DEF Unlock
  <2> HIDE DEF there
  <2>4. \A p \in Producers : pc'[p] \in {"push?", "push"} => value'[p] \in Values
    <3>1. \A p \in Producers \ {t} : value'[p] = value[p]
      BY <2>3 DEF TypeOK
    <3> QED BY <1>0, <2>1, <2>2, <3>1, GoesDoes DEF Roles
  <2> QED BY <1>0, <2>1, <2>2, <2>4, RolesMove
          DEF ConsumerSteps, ProducerSteps, HandlerSteps, Critical
<1>4. ASSUME NEW p \in Producers, NEW v \in Values, CallPush(p, v)
      PROVE  Roles'
  <2>1. /\ Goes(p, "out", "push?") /\ UNCHANGED _queueLock
        /\ value' = [value EXCEPT ![p] = v]
    BY <1>4 DEF CallPush
  <2>2. value'[p] = v /\ \A q \in Producers \ {p} : value'[q] = value[q]
    BY <2>1 DEF TypeOK
  <2>3. \A q \in Producers : pc'[q] \in {"push?", "push"} => value'[q] \in Values
    BY <1>0, <2>1, <2>2, GoesDoes DEF Roles
  <2> QED BY <1>0, <2>1, <2>3, RolesMove DEF ProducerSteps, Critical
<1>5. ASSUME NEW p \in Producers, PushItem(p) \/ FetchAdd(p) \/ NotifyOne(p)
      PROVE  Roles'
  <2>1. PICK here, there \in {"push", "count", "notify", "unlock"} :
           /\ Goes(p, here, there) /\ UNCHANGED <<_queueLock, value>> /\ there # "push"
    BY <1>5 DEF PushItem, FetchAdd, NotifyOne
  <2> QED BY <1>0, <1>1, <2>1, RolesMove DEF ProducerSteps, Critical
<1>6. ASSUME NEW c \in Consumers, CallWait(c) \/ Size(c) \/ CallPop(c) \/ CallEmpty(c)
      PROVE  Roles'
  <2>1. PICK here, there \in {"out", "wait?", "next", "pop?", "empty?"} :
           Goes(c, here, there) /\ UNCHANGED <<_queueLock, value>>
    BY <1>6 DEF CallWait, Size, CallPop, CallEmpty
  <2> QED BY <1>0, <1>1, <2>1, RolesMove DEF ConsumerSteps, Critical
<1>7. ASSUME NEW c \in Consumers, WaitShutdown(c) \/ WaitFront(c) \/ PopPtr(c) \/ FetchSub(c)
      PROVE  Roles'
  <2>1. PICK here, there \in {"wait", "pop", "sub", "unlock"} :
           Goes(c, here, there) /\ UNCHANGED <<_queueLock, value>>
    BY <1>7 DEF WaitShutdown, WaitFront, PopPtr, FetchSub
  <2> QED BY <1>0, <1>1, <2>1, RolesMove DEF ConsumerSteps, Critical
<1>8. ASSUME NEW c \in Consumers, Wait(c) \/ Empty(c)
      PROVE  Roles'
  <2>1. PICK here \in {"wait", "empty"}, there \in {"wait?", "out"} :
           Goes(c, here, there) /\ _queueLock' = Nil /\ UNCHANGED value
    BY <1>8 DEF Wait, Empty
  <2> QED BY <1>0, <1>1, <2>1, RolesMove DEF ConsumerSteps, Critical
<1>9. ASSUME NEW t, CallCancel(t)
      PROVE  Roles'
  <2>1. Goes(Handler, "out", "cancel?") /\ UNCHANGED <<_queueLock, value>>
    BY <1>9 DEF CallCancel
  <2> QED BY <1>0, <1>1, <2>1, RolesMove DEF HandlerSteps, Critical
<1>10. CASE DeleteAll \/ SetShutdown \/ NotifyAll
  <2>1. PICK here, there \in {"cancel", "reset", "notify_all", "unlock"} :
           Goes(Handler, here, there) /\ UNCHANGED <<_queueLock, value>>
    BY <1>10 DEF DeleteAll, SetShutdown, NotifyAll
  <2> QED BY <1>0, <1>1, <2>1, RolesMove DEF HandlerSteps, Critical
<1>11. CASE UNCHANGED vars \/ \E c \in Consumers : Spurious(c)
  <2>1. UNCHANGED <<pc, _queueLock, value>>
    BY <1>11 DEF vars, Spurious
  <2> QED BY <2>1 DEF Roles
<1> QED
  BY <1>2, <1>3, <1>4, <1>5, <1>6, <1>7, <1>8, <1>9, <1>10, <1>11
  DEF Next, ProducerStep, WaiterStep, ServiceStep, HandlerStep

\* What releasing the mutex does.
LEMMA UnlockDoes ==
  ASSUME TypeOK, NEW t \in Threads, Unlock(t)
  PROVE  /\ pc[t] = "unlock" /\ pc'[t] \in {"next", "out"}
         /\ pc'[t] = "next" <=> t \in Consumers /\ use = "service"
         /\ \A d \in Threads \ {t} : pc'[d] = pc[d]
         /\ _queueLock' = Nil
         /\ UNCHANGED <<use, _queue, _count, _shutdown, blocked, left, pushes, cancels>>
<1> DEFINE there == IF t \in Consumers /\ use = "service" THEN "next" ELSE "out"
<1>1. Goes(t, "unlock", there)
  BY DEF Unlock
<1>2. there \in {"next", "out"} /\ (there = "next" <=> t \in Consumers /\ use = "service")
  OBVIOUS
<1> HIDE DEF there
<1>3. /\ pc[t] = "unlock" /\ pc'[t] = there
      /\ \A d \in Threads \ {t} : pc'[d] = pc[d]
  BY <1>1, GoesDoes
<1> QED BY <1>2, <1>3 DEF Unlock

\* What a pop of a service does, which finds something or not.
LEMMA PopPtrDoes ==
  ASSUME QueueLocksAssumption, TypeOK, NEW c \in Consumers, PopPtr(c)
  PROVE  /\ pc[c] = "pop" /\ pc'[c] \in {"unlock", "sub"}
         /\ pc'[c] = "sub" => _queue # <<>> /\ ~_shutdown /\ _queue' = Tail(_queue)
         /\ pc'[c] = "unlock" => (_queue = <<>> \/ _shutdown) /\ _queue' = _queue
         /\ \A d \in Threads \ {c} : pc'[d] = pc[d]
         /\ left'[c] = left[c] - 1 /\ \A d \in Consumers \ {c} : left'[d] = left[d]
         /\ UNCHANGED <<use, _queueLock, _count, _shutdown, blocked, value, on, pushes, cancels>>
<1> DEFINE there == IF _queue = <<>> \/ _shutdown THEN "unlock" ELSE "sub"
<1>1. Goes(c, "pop", there) /\ c \in Threads
  BY Kinds DEF PopPtr
<1>2. /\ there \in {"unlock", "sub"}
      /\ there = "sub" => _queue # <<>> /\ ~_shutdown
      /\ there = "unlock" => _queue = <<>> \/ _shutdown
  OBVIOUS
<1>3. _queue' = IF there = "unlock" THEN _queue ELSE Tail(_queue)
  BY DEF PopPtr
<1> HIDE DEF there
<1>4. /\ pc[c] = "pop" /\ pc'[c] = there
      /\ \A d \in Threads \ {c} : pc'[d] = pc[d]
  BY <1>1, GoesDoes
<1>5. left' = [left EXCEPT ![c] = @ - 1] /\ left \in [Consumers -> 0 .. MaxPushes]
  BY DEF PopPtr, TypeOK
<1>6. left'[c] = left[c] - 1 /\ \A d \in Consumers \ {c} : left'[d] = left[d]
  BY <1>5
<1> QED BY <1>2, <1>3, <1>4, <1>6 DEF PopPtr

-----------------------------------------------------------------------------
(* What every step leaves as it is.                                        *)

\* The two uses stay apart.
LEMMA UsesApartStep ==
  ASSUME QueueLocksAssumption
  PROVE  TypeOK /\ Roles /\ UsesApart /\ [Next]_vars => UsesApart'
<1> SUFFICES ASSUME TypeOK, Roles, UsesApart, [Next]_vars
             PROVE  UsesApart'
  OBVIOUS
<1>0. /\ Consumers \cap Producers = {} /\ Handler \notin Consumers /\ Handler \notin Producers
      /\ Consumers \subseteq Threads /\ Producers \subseteq Threads /\ Handler \in Threads
      /\ blocked \subseteq Consumers
      /\ Threads = Consumers \cup Producers \cup {Handler}
  BY Kinds DEF TypeOK
<1>2. ASSUME NEW t \in Threads, Lock(t)
      PROVE  UsesApart'
  BY <1>0, <1>2, LockDoes DEF UsesApart, Roles, ConsumerSteps, ProducerSteps, HandlerSteps
<1>3. ASSUME NEW t \in Threads, Unlock(t)
      PROVE  UsesApart'
  BY <1>0, <1>3, UnlockDoes DEF UsesApart
<1>4. ASSUME NEW p \in Producers,
             \/ \E v \in Values : CallPush(p, v)
             \/ PushItem(p) \/ FetchAdd(p)
      PROVE  UsesApart'
  <2>1. \A d \in Threads \ {p} : pc'[d] = pc[d]
    BY <1>0, <1>4, GoesDoes DEF CallPush, PushItem, FetchAdd
  <2>2. UNCHANGED <<use, blocked, _shutdown>>
    BY <1>4 DEF CallPush, PushItem, FetchAdd
  <2> QED BY <1>0, <2>1, <2>2 DEF UsesApart
<1>5. ASSUME NEW p \in Producers, NotifyOne(p)
      PROVE  UsesApart'
  <2>1. \A d \in Threads \ {p} : pc'[d] = pc[d]
    BY <1>0, <1>5, GoesDoes DEF NotifyOne
  <2>2. UNCHANGED <<use, _shutdown>> /\ blocked' \subseteq blocked
    BY <1>5 DEF NotifyOne
  <2> QED BY <1>0, <2>1, <2>2 DEF UsesApart
<1>6. ASSUME NEW c \in Consumers, CallWait(c)
      PROVE  UsesApart'
  <2>1. /\ use = "global" /\ use' = "global" /\ blocked' = blocked
        /\ pc[c] = "out" /\ pc'[c] = "wait?"
        /\ \A d \in Threads \ {c} : pc'[d] = pc[d]
    BY <1>0, <1>6, GoesDoes DEF CallWait
  <2> QED BY <1>0, <2>1 DEF UsesApart
<1>7. ASSUME NEW c \in Consumers, Wait(c)
      PROVE  UsesApart'
  <2>1. /\ use' = use /\ blocked' = blocked \cup {c}
        /\ pc[c] = "wait" /\ pc'[c] = "wait?"
        /\ \A d \in Threads \ {c} : pc'[d] = pc[d]
    BY <1>0, <1>7, GoesDoes DEF Wait
  <2>2. use # "service"
    BY <2>1 DEF UsesApart
  <2> QED BY <1>0, <2>1, <2>2 DEF UsesApart
<1>8. ASSUME NEW c \in Consumers, WaitShutdown(c) \/ WaitFront(c) \/ FetchSub(c)
      PROVE  UsesApart'
  <2>1. /\ UNCHANGED <<use, blocked, _shutdown>>
        /\ pc[c] \in {"wait", "sub"} /\ pc'[c] \in {"sub", "unlock"}
        /\ \A d \in Threads \ {c} : pc'[d] = pc[d]
    BY <1>0, <1>8, GoesDoes DEF WaitShutdown, WaitFront, FetchSub
  <2> QED BY <1>0, <2>1 DEF UsesApart
<1>9. ASSUME NEW c \in Consumers, Size(c)
      PROVE  UsesApart'
  <2>1. /\ use = "service" /\ UNCHANGED <<use, blocked, _shutdown>>
        /\ \A d \in Consumers : pc[d] = "out"
        /\ pc'[c] = "next"
        /\ \A d \in Threads \ {c} : pc'[d] = pc[d]
    BY <1>0, <1>9, GoesDoes DEF Size
  <2> QED BY <1>0, <2>1 DEF UsesApart
<1>10. ASSUME NEW c \in Consumers, CallPop(c) \/ CallEmpty(c)
       PROVE  UsesApart'
  <2>1. /\ UNCHANGED <<use, blocked, _shutdown>>
        /\ pc[c] = "next" /\ pc'[c] \in {"pop?", "empty?"}
        /\ \A d \in Threads \ {c} : pc'[d] = pc[d]
    BY <1>0, <1>10, GoesDoes DEF CallPop, CallEmpty
  <2> QED BY <1>0, <2>1 DEF UsesApart
<1>11. ASSUME NEW c \in Consumers, PopPtr(c)
       PROVE  UsesApart'
  BY <1>0, <1>11, PopPtrDoes DEF UsesApart
<1>12. ASSUME NEW c \in Consumers, Empty(c)
       PROVE  UsesApart'
  <2>1. /\ UNCHANGED <<use, blocked, _shutdown>>
        /\ pc[c] = "empty" /\ pc'[c] = "out"
        /\ \A d \in Threads \ {c} : pc'[d] = pc[d]
    BY <1>0, <1>12, GoesDoes DEF Empty
  <2> QED BY <1>0, <2>1 DEF UsesApart
<1>13. ASSUME NEW t, CallCancel(t)
       PROVE  UsesApart'
  <2>1. /\ UNCHANGED <<use, blocked, _shutdown>> /\ use = "global"
        /\ \A d \in Threads \ {Handler} : pc'[d] = pc[d]
    BY <1>0, <1>13, GoesDoes DEF CallCancel
  <2> QED BY <1>0, <2>1 DEF UsesApart
<1>14. CASE DeleteAll \/ SetShutdown \/ NotifyAll
  <2>1. /\ UNCHANGED use /\ blocked' \subseteq blocked /\ pc[Handler] # "out"
        /\ \A d \in Threads \ {Handler} : pc'[d] = pc[d]
    BY <1>0, <1>14, GoesDoes DEF DeleteAll, SetShutdown, NotifyAll
  <2> QED BY <1>0, <2>1 DEF UsesApart
<1>15. CASE UNCHANGED vars \/ \E c \in Consumers : Spurious(c)
  <2>1. UNCHANGED <<use, pc, _shutdown>> /\ blocked' \subseteq blocked
    BY <1>15 DEF vars, Spurious
  <2> QED BY <2>1 DEF UsesApart
<1> QED
  BY <1>2, <1>3, <1>4, <1>5, <1>6, <1>7, <1>8, <1>9, <1>10, <1>11, <1>12, <1>13, <1>14, <1>15
  DEF Next, ProducerStep, WaiterStep, ServiceStep, HandlerStep

\* The loop of a service uses up what Size has counted.
LEMMA RoundsStep ==
  ASSUME QueueLocksAssumption
  PROVE  TypeOK /\ Roles /\ UsesApart /\ Rounds /\ [Next]_vars => Rounds'
<1> SUFFICES ASSUME TypeOK, Roles, UsesApart, Rounds, [Next]_vars
             PROVE  Rounds'
  OBVIOUS
<1>0. /\ Consumers \cap Producers = {} /\ Handler \notin Consumers /\ Handler \notin Producers
      /\ Consumers \subseteq Threads /\ Producers \subseteq Threads /\ Handler \in Threads
      /\ Threads = Consumers \cup Producers \cup {Handler}
      /\ \A c \in Consumers : left[c] \in Nat
  BY Kinds DEF TypeOK
<1>2. ASSUME NEW t \in Threads, Lock(t)
      PROVE  Rounds'
  BY <1>0, <1>2, LockDoes DEF Rounds
<1>3. ASSUME NEW t \in Threads, Unlock(t)
      PROVE  Rounds'
  <2>1. t \in Consumers /\ pc'[t] = "out" => left[t] = 0
    BY <1>0, <1>3, UnlockDoes DEF Rounds, TypeOK
  <2> QED BY <1>0, <1>3, <2>1, UnlockDoes DEF Rounds
<1>4. ASSUME NEW t \in Producers \cup {Handler},
             UNCHANGED <<use, left>>, \A d \in Threads \ {t} : pc'[d] = pc[d]
      PROVE  Rounds'
  BY <1>0, <1>4 DEF Rounds
<1>5. ASSUME NEW p \in Producers, ProducerStep(p)
      PROVE  Rounds'
  BY <1>0, <1>4, <1>5, GoesDoes DEF ProducerStep, CallPush, PushItem, FetchAdd, NotifyOne
<1>6. CASE HandlerStep
  BY <1>0, <1>4, <1>6, GoesDoes DEF HandlerStep, CallCancel, DeleteAll, SetShutdown, NotifyAll
<1>7. ASSUME NEW c \in Consumers, CallWait(c) \/ Wait(c) \/ WaitShutdown(c) \/ WaitFront(c) \/ FetchSub(c)
      PROVE  Rounds'
  <2>1. /\ UNCHANGED <<use, left>>
        /\ pc'[c] \in {"wait?", "unlock", "sub"}
        /\ \A d \in Threads \ {c} : pc'[d] = pc[d]
    BY <1>0, <1>7, GoesDoes DEF CallWait, Wait, WaitShutdown, WaitFront, FetchSub
  <2> QED BY <1>0, <2>1 DEF Rounds
<1>8. ASSUME NEW c \in Consumers, Size(c)
      PROVE  Rounds'
  <2>1. /\ pc'[c] = "next" /\ \A d \in Threads \ {c} : pc'[d] = pc[d]
        /\ left' = [left EXCEPT ![c] = _count] /\ use = "service" /\ use' = use
    BY <1>0, <1>8, GoesDoes DEF Size
  <2>2. \A d \in Consumers \ {c} : left'[d] = left[d]
    BY <2>1 DEF TypeOK
  <2> QED BY <1>0, <2>1, <2>2 DEF Rounds
<1>9. ASSUME NEW c \in Consumers, CallPop(c) \/ CallEmpty(c) \/ Empty(c)
      PROVE  Rounds'
  <2>1. /\ UNCHANGED <<use, left>>
        /\ \/ pc'[c] = "pop?" /\ left[c] > 0
           \/ pc'[c] = "empty?" /\ left[c] = 0
           \/ pc[c] = "empty" /\ pc'[c] = "out"
        /\ \A d \in Threads \ {c} : pc'[d] = pc[d]
    BY <1>0, <1>9, GoesDoes DEF CallPop, CallEmpty, Empty
  <2> QED BY <1>0, <2>1 DEF Rounds
<1>10. ASSUME NEW c \in Consumers, PopPtr(c)
       PROVE  Rounds'
  <2>1. use = "service" /\ left[c] > 0
    BY <1>0, <1>10, PopPtrDoes DEF UsesApart, Rounds, TypeOK
  <2> QED BY <1>0, <1>10, <2>1, PopPtrDoes DEF Rounds
<1>11. CASE UNCHANGED vars \/ \E c \in Consumers : Spurious(c)
  <2>1. UNCHANGED <<use, pc, left>>
    BY <1>11 DEF vars, Spurious
  <2> QED BY <2>1 DEF Rounds
<1> QED
  BY <1>2, <1>3, <1>5, <1>6, <1>7, <1>8, <1>9, <1>10, <1>11
  DEF Next, WaiterStep, ServiceStep

\* What is pushed stays until it is announced, and Cancel leaves nobody asleep.
LEMMA AnnouncedStep ==
  ASSUME QueueLocksAssumption
  PROVE  TypeOK /\ Roles /\ UsesApart /\ Announced /\ [Next]_vars => Announced'
<1> SUFFICES ASSUME TypeOK, Roles, UsesApart, Announced, [Next]_vars
             PROVE  Announced'
  OBVIOUS
<1>0. /\ Consumers \cap Producers = {} /\ Handler \notin Consumers /\ Handler \notin Producers
      /\ Consumers \subseteq Threads /\ Producers \subseteq Threads /\ Handler \in Threads
      /\ Threads = Consumers \cup Producers \cup {Handler}
  BY Kinds
<1>1. ASSUME NEW t \in Threads, UNCHANGED <<_queue, _shutdown>>,
             blocked' \subseteq blocked,
             pc[t] \notin {"notify_all"}, pc'[t] \notin {"count", "notify", "reset", "notify_all"},
             \A d \in Threads \ {t} : pc'[d] = pc[d]
      PROVE  Announced'
  BY <1>0, <1>1 DEF Announced, Pushing, Cancelling
<1>2. ASSUME NEW t \in Threads, Lock(t) \/ Unlock(t)
      PROVE  Announced'
  BY <1>1, <1>2, LockDoes, UnlockDoes
<1>3. ASSUME NEW p \in Producers, NEW v \in Values, CallPush(p, v)
      PROVE  Announced'
  BY <1>0, <1>1, <1>3, GoesDoes DEF CallPush
<1>4. ASSUME NEW p \in Producers, PushItem(p)
      PROVE  Announced'
  <2>1. /\ pc[p] = "push" /\ pc'[p] = "count" /\ \A d \in Threads \ {p} : pc'[d] = pc[d]
        /\ UNCHANGED <<_shutdown, blocked>> /\ _queue' = Append(_queue, value[p])
    BY <1>0, <1>4, GoesDoes DEF PushItem
  <2>2. _queue' # <<>>
    BY <2>1 DEF TypeOK
  <2>3. pc[Handler] \notin {"reset", "notify_all"}
    BY <1>0, <2>1, Alone DEF Critical
  <2> QED BY <1>0, <2>1, <2>2, <2>3 DEF Announced, Pushing, Cancelling
<1>5. ASSUME NEW p \in Producers, FetchAdd(p) \/ NotifyOne(p)
      PROVE  Announced'
  <2>1. /\ pc[p] \in {"count", "notify"} /\ pc'[p] \in {"notify", "unlock"}
        /\ \A d \in Threads \ {p} : pc'[d] = pc[d]
        /\ UNCHANGED <<_shutdown, _queue>> /\ blocked' \subseteq blocked
    BY <1>0, <1>5, GoesDoes DEF FetchAdd, NotifyOne
  <2> QED BY <1>0, <2>1 DEF Announced, Pushing, Cancelling
<1>6. ASSUME NEW c \in Consumers, CallWait(c) \/ WaitShutdown(c) \/ FetchSub(c) \/ Size(c)
                                    \/ CallPop(c) \/ CallEmpty(c) \/ Empty(c)
      PROVE  Announced'
  BY <1>0, <1>1, <1>6, GoesDoes DEF CallWait, WaitShutdown, FetchSub, Size, CallPop, CallEmpty, Empty
<1>7. ASSUME NEW c \in Consumers, Wait(c)
      PROVE  Announced'
  <2>1. /\ pc[c] = "wait" /\ pc'[c] = "wait?" /\ \A d \in Threads \ {c} : pc'[d] = pc[d]
        /\ UNCHANGED <<_shutdown, _queue>> /\ ~_shutdown
    BY <1>0, <1>7, GoesDoes DEF Wait
  <2> QED BY <1>0, <2>1 DEF Announced, Pushing, Cancelling
<1>8. ASSUME NEW c \in Consumers, WaitFront(c) \/ PopPtr(c)
      PROVE  Announced'
  <2>1. /\ pc[c] \in {"wait", "pop"} /\ pc'[c] \in {"sub", "unlock"}
        /\ \A d \in Threads \ {c} : pc'[d] = pc[d]
        /\ UNCHANGED <<_shutdown, blocked>>
    BY <1>0, <1>8, GoesDoes, PopPtrDoes DEF WaitFront
  <2>2. \A d \in Threads \ {c} : pc[d] \notin Critical
    BY <1>0, <2>1, Alone DEF Critical
  <2>3. ~Pushing' /\ ~Cancelling' /\ pc'[Handler] # "notify_all" /\ pc[Handler] # "notify_all"
    BY <1>0, <2>1, <2>2 DEF Critical, Pushing, Cancelling
  <2> QED BY <2>1, <2>3 DEF Announced
<1>9. ASSUME NEW t, CallCancel(t)
      PROVE  Announced'
  BY <1>0, <1>1, <1>9, GoesDoes DEF CallCancel
<1>10. CASE DeleteAll \/ SetShutdown \/ NotifyAll
  <2>1. /\ pc[Handler] \in {"cancel", "reset", "notify_all"}
        /\ \A d \in Threads \ {Handler} : pc'[d] = pc[d]
    BY <1>0, <1>10, GoesDoes DEF DeleteAll, SetShutdown, NotifyAll
  <2>2. \A d \in Threads \ {Handler} : pc[d] \notin Critical
    BY <1>0, <2>1, Alone DEF Critical
  <2>3. ~Pushing'
    BY <1>0, <2>1, <2>2 DEF Critical, Pushing
  <2>4. CASE DeleteAll
    <3>1. /\ pc[Handler] = "cancel" /\ pc'[Handler] = "reset" /\ _queue' = <<>>
          /\ UNCHANGED <<_shutdown, blocked>>
      BY <1>0, <2>4, GoesDoes DEF DeleteAll
    <3> QED BY <2>3, <3>1 DEF Announced, Cancelling
  <2>5. CASE SetShutdown
    <3>1. /\ pc[Handler] = "reset" /\ pc'[Handler] = "notify_all" /\ _shutdown' = TRUE
          /\ UNCHANGED <<_queue, blocked>>
      BY <1>0, <2>5, GoesDoes DEF SetShutdown
    <3> QED BY <2>3, <3>1 DEF Announced, Cancelling
  <2>6. CASE NotifyAll
    <3>1. pc[Handler] = "notify_all" /\ pc'[Handler] = "unlock" /\ blocked' = {}
      BY <1>0, <2>6, GoesDoes DEF NotifyAll
    <3> QED BY <2>3, <3>1 DEF Announced, Cancelling
  <2> QED BY <1>10, <2>4, <2>5, <2>6
<1>11. CASE UNCHANGED vars \/ \E c \in Consumers : Spurious(c)
  <2>1. UNCHANGED <<pc, _shutdown, _queue>> /\ blocked' \subseteq blocked
    BY <1>11 DEF vars, Spurious
  <2> QED BY <2>1 DEF Announced, Pushing, Cancelling
<1> QED
  BY <1>2, <1>3, <1>4, <1>5, <1>6, <1>7, <1>8, <1>9, <1>10, <1>11
  DEF Next, ProducerStep, WaiterStep, ServiceStep, HandlerStep

\* Types are kept.
LEMMA TypeStep ==
  ASSUME QueueLocksAssumption
  PROVE  TypeOK /\ Roles /\ UsesApart /\ Rounds /\ Counted /\ [Next]_vars => TypeOK'
<1> SUFFICES ASSUME TypeOK, Roles, UsesApart, Rounds, Counted, [Next]_vars
             PROVE  TypeOK'
  OBVIOUS
<1>0. /\ Consumers \cap Producers = {} /\ Handler \notin Consumers /\ Handler \notin Producers
      /\ Consumers \subseteq Threads /\ Producers \subseteq Threads /\ Handler \in Threads
      /\ Threads = Consumers \cup Producers \cup {Handler}
      /\ MaxPushes \in Nat /\ MaxCancels \in Nat
  BY Kinds
<1> DEFINE Step == {"out", "push?", "push", "count", "notify", "wait?", "wait", "next",
                    "pop?", "pop", "sub", "empty?", "empty", "cancel?", "cancel",
                    "reset", "notify_all", "unlock"}
<1>1. pc' \in [Threads -> Step]
  <2>1. pc' = pc \/ \E t \in Threads : \E here, there : Goes(t, here, there)
    BY <1>0 DEF Next, vars, Lock, Unlock, ProducerStep, CallPush, PushItem, FetchAdd, NotifyOne,
       WaiterStep, CallWait, Wait, Spurious, WaitShutdown, WaitFront, FetchSub, ServiceStep, Size,
       CallPop, PopPtr, CallEmpty, Empty, HandlerStep, CallCancel, DeleteAll, SetShutdown, NotifyAll
  <2>2. pc \in [Threads -> Step]
    BY DEF TypeOK
  <2>3. DOMAIN pc' = Threads /\ pc' = [t \in Threads |-> pc'[t]]
    BY <2>1, <2>2 DEF Goes
  <2>4. \A t \in Threads : pc'[t] \in Step
    <3>1. Roles'
      BY RolesStep
    <3> QED BY <1>0, <3>1 DEF Roles, ConsumerSteps, ProducerSteps, HandlerSteps
  <2> HIDE DEF Step
  <2> QED BY <2>3, <2>4
<1> HIDE DEF Step
<1>2. /\ use' \in {"global", "service"} /\ _shutdown' \in BOOLEAN
      /\ _queueLock' \in Threads \cup {Nil}
      /\ on' \in Interrupted \cup {Nil}
  BY <1>0 DEF TypeOK, Next, vars, Lock, Unlock, ProducerStep, CallPush, PushItem, FetchAdd, NotifyOne,
     WaiterStep, CallWait, Wait, Spurious, WaitShutdown, WaitFront, FetchSub, ServiceStep, Size,
     CallPop, PopPtr, CallEmpty, Empty, HandlerStep, CallCancel, DeleteAll, SetShutdown, NotifyAll
<1>3. pushes' \in 0 .. MaxPushes /\ cancels' \in 0 .. MaxCancels
  BY <1>0 DEF TypeOK, Next, vars, Lock, Unlock, ProducerStep, CallPush, PushItem, FetchAdd, NotifyOne,
     WaiterStep, CallWait, Wait, Spurious, WaitShutdown, WaitFront, FetchSub, ServiceStep, Size,
     CallPop, PopPtr, CallEmpty, Empty, HandlerStep, CallCancel, DeleteAll, SetShutdown, NotifyAll
<1>4. blocked' \subseteq Consumers
  BY <1>0 DEF TypeOK, Next, vars, Lock, Unlock, ProducerStep, CallPush, PushItem, FetchAdd, NotifyOne,
     WaiterStep, CallWait, Wait, Spurious, WaitShutdown, WaitFront, FetchSub, ServiceStep, Size,
     CallPop, PopPtr, CallEmpty, Empty, HandlerStep, CallCancel, DeleteAll, SetShutdown, NotifyAll
<1>5. value' \in [Producers -> Values \cup {Nil}]
  BY <1>0 DEF TypeOK, Next, vars, Lock, Unlock, ProducerStep, CallPush, PushItem, FetchAdd, NotifyOne,
     WaiterStep, CallWait, Wait, Spurious, WaitShutdown, WaitFront, FetchSub, ServiceStep, Size,
     CallPop, PopPtr, CallEmpty, Empty, HandlerStep, CallCancel, DeleteAll, SetShutdown, NotifyAll
<1>6. _queue' \in Seq(Values)
  <2>1. \/ UNCHANGED _queue \/ _queue' = <<>>
        \/ _queue # <<>> /\ _queue' = Tail(_queue)
        \/ \E p \in Producers : PushItem(p)
    BY DEF Next, vars, Lock, Unlock, ProducerStep, CallPush, FetchAdd, NotifyOne,
     WaiterStep, CallWait, Wait, Spurious, WaitShutdown, WaitFront, FetchSub, ServiceStep, Size,
     CallPop, PopPtr, CallEmpty, Empty, HandlerStep, CallCancel, DeleteAll, SetShutdown, NotifyAll
  <2>2. ASSUME NEW p \in Producers, PushItem(p)
        PROVE  _queue' \in Seq(Values)
    <3>1. value[p] \in Values
      BY <1>0, <2>2, GoesDoes DEF PushItem, Roles
    <3> QED BY <2>2, <3>1 DEF PushItem, TypeOK
  <2>3. _queue \in Seq(Values)
    BY DEF TypeOK
  <2>4. <<>> \in Seq(Values) /\ (_queue # <<>> => Tail(_queue) \in Seq(Values))
    BY <2>3
  <2> QED BY <2>1, <2>2, <2>3, <2>4
<1>7. left' \in [Consumers -> 0 .. MaxPushes]
  <2>1. \/ UNCHANGED left
        \/ \E c \in Consumers : Size(c) \/ PopPtr(c)
    BY DEF Next, vars, Lock, Unlock, ProducerStep, CallPush, PushItem, FetchAdd, NotifyOne,
     WaiterStep, CallWait, Wait, Spurious, WaitShutdown, WaitFront, FetchSub, ServiceStep,
     CallPop, CallEmpty, Empty, HandlerStep, CallCancel, DeleteAll, SetShutdown, NotifyAll
  <2>2. ASSUME NEW c \in Consumers, Size(c)
        PROVE  left' \in [Consumers -> 0 .. MaxPushes]
    BY <2>2 DEF Size, TypeOK
  <2>3. ASSUME NEW c \in Consumers, PopPtr(c)
        PROVE  left' \in [Consumers -> 0 .. MaxPushes]
    <3>1. left[c] \in 0 .. MaxPushes /\ left[c] > 0
      BY <2>3, PopPtrDoes DEF TypeOK, Rounds
    <3> QED BY <1>0, <2>3, <3>1 DEF PopPtr, TypeOK
  <2> QED BY <2>1, <2>2, <2>3 DEF TypeOK
<1>8. _count' \in 0 .. MaxPushes
  <2>1. \/ UNCHANGED _count \/ _count' = 0
        \/ \E p \in Producers : FetchAdd(p)
        \/ \E c \in Consumers : FetchSub(c)
    BY DEF Next, vars, Lock, Unlock, ProducerStep, CallPush, PushItem, NotifyOne,
     WaiterStep, CallWait, Wait, Spurious, WaitShutdown, WaitFront, ServiceStep, Size, PopPtr,
     CallPop, CallEmpty, Empty, HandlerStep, CallCancel, DeleteAll, SetShutdown, NotifyAll
  <2> DEFINE L == Len(_queue)
             K == Cardinality(Coming)
  <2>2. L \in Nat /\ K \in Nat /\ _count \in 0 .. MaxPushes /\ pushes \in 0 .. MaxPushes
    BY FS_CardinalityType DEF TypeOK, Counted
  <2>3. /\ pc[Handler] # "reset" => _count + Counting = L + Subbing
        /\ L + K + Subbing <= pushes
    BY DEF Counted
  <2> HIDE DEF L, K
  <2>4. ASSUME NEW p \in Producers, FetchAdd(p)
        PROVE  _count' \in 0 .. MaxPushes
    <3>1. _count' = _count + 1 /\ pc[p] = "count"
      BY <1>0, <2>4, GoesDoes DEF FetchAdd
    <3>2. pc[Handler] # "reset"
      BY <1>0, <3>1, Alone DEF Critical
    <3> QED BY <1>0, <2>2, <2>3, <3>1, <3>2, CountsAre
  <2>5. ASSUME NEW c \in Consumers, FetchSub(c)
        PROVE  _count' \in 0 .. MaxPushes
    <3>1. _count' = _count - 1 /\ pc[c] = "sub"
      BY <1>0, <2>5, GoesDoes DEF FetchSub
    <3>2. pc[Handler] # "reset" /\ \A p \in Producers : pc[p] # "count"
      BY <1>0, <3>1, Alone DEF Critical
    <3> QED BY <1>0, <2>2, <2>3, <3>1, <3>2, CountsAre
  <2> QED BY <1>0, <2>1, <2>2, <2>4, <2>5
<1> QED BY <1>1, <1>2, <1>3, <1>4, <1>5, <1>6, <1>7, <1>8 DEF TypeOK, Step

\* _count says how long the queue is, and a call of Push adds one item.
LEMMA CountedStep ==
  ASSUME QueueLocksAssumption
  PROVE  TypeOK /\ Roles /\ UsesApart /\ Announced /\ Counted /\ [Next]_vars => Counted'
<1> SUFFICES ASSUME TypeOK, Roles, UsesApart, Announced, Counted, [Next]_vars
             PROVE  Counted'
  OBVIOUS
<1>0. /\ Consumers \cap Producers = {} /\ Handler \notin Consumers /\ Handler \notin Producers
      /\ Consumers \subseteq Threads /\ Producers \subseteq Threads /\ Handler \in Threads
      /\ Threads = Consumers \cup Producers \cup {Handler}
  BY Kinds
<1> DEFINE L == Len(_queue)
           K == Cardinality(Coming)
<1>a. /\ L \in Nat /\ K \in Nat /\ _count \in Nat /\ pushes \in Nat
      /\ IsFiniteSet(Coming)
  BY FS_CardinalityType DEF TypeOK, Counted
<1>b. /\ pc[Handler] # "reset" => _count + Counting = L + Subbing
      /\ L + K + Subbing <= pushes
  BY DEF Counted
<1>c. ASSUME IsFiniteSet(Coming'), pc'[Handler] # "reset" => _count' + Counting' = L' + Subbing',
             L' + K' + Subbing' <= pushes'
      PROVE  Counted'
  BY <1>c DEF Counted
<1>d. /\ _queue' = <<>> => L' = 0
      /\ _queue # <<>> /\ _queue' = Tail(_queue) => L' = L - 1 /\ L > 0
      /\ \A v \in Values : _queue' = Append(_queue, v) => L' = L + 1
      /\ _queue' = _queue => L' = L
  BY DEF TypeOK
<1>e. Coming' = Coming => K' = K
  OBVIOUS
<1> HIDE DEF L, K
\* a step that neither moves an item nor counts one
<1>1. ASSUME NEW t \in Threads, UNCHANGED <<_queue, _count, pushes>>,
             pc[t] \notin {"push?", "push", "count", "sub", "reset"},
             pc'[t] \notin {"push?", "push", "count", "sub", "reset"},
             \A d \in Threads \ {t} : pc'[d] = pc[d]
      PROVE  Counted'
  <2>1. Coming' = Coming
    BY <1>0, <1>1 DEF Coming
  <2>2. Counting' = Counting /\ Subbing' = Subbing
    BY <1>0, <1>1, CountsAre, CountsAreNext
  <2>3. pc'[Handler] # "reset" => pc[Handler] # "reset"
    BY <1>0, <1>1
  <2> QED BY <1>1, <1>a, <1>b, <1>c, <1>d, <1>e, <2>1, <2>2, <2>3
<1>2. ASSUME NEW t \in Threads, Lock(t)
      PROVE  Counted'
  <2>1. CASE pc[t] = "push?"
    <3>1. Coming' = Coming
      BY <1>0, <1>2, <2>1, LockDoes DEF Coming
    <3>2. Counting' = Counting /\ Subbing' = Subbing
      BY <1>0, <1>2, <2>1, LockDoes, CountsAre, CountsAreNext
    <3>3. pc'[Handler] # "reset" => pc[Handler] # "reset"
      BY <1>0, <1>2, <2>1, LockDoes
    <3>4. UNCHANGED <<_queue, _count, pushes>>
      BY <1>2 DEF Lock
    <3> QED BY <1>a, <1>b, <1>c, <1>d, <1>e, <3>1, <3>2, <3>3, <3>4
  <2> QED BY <1>1, <1>2, <2>1, LockDoes
<1>3. ASSUME NEW t \in Threads, Unlock(t)
      PROVE  Counted'
  BY <1>1, <1>3, UnlockDoes
<1>4. ASSUME NEW p \in Producers, NEW v \in Values, CallPush(p, v)
      PROVE  Counted'
  <2>1. /\ pc[p] = "out" /\ pc'[p] = "push?" /\ \A d \in Threads \ {p} : pc'[d] = pc[d]
        /\ UNCHANGED <<_queue, _count>> /\ pushes' = pushes + 1
    BY <1>0, <1>4, GoesDoes DEF CallPush
  <2>2. Coming' = Coming \cup {p} /\ p \notin Coming
    BY <1>0, <2>1 DEF Coming
  <2>3. IsFiniteSet(Coming') /\ K' = K + 1
    BY <1>a, <2>2, FS_AddElement DEF K
  <2>4. Counting' = Counting /\ Subbing' = Subbing
    BY <1>0, <2>1, CountsAre, CountsAreNext
  <2>5. pc'[Handler] # "reset" => pc[Handler] # "reset"
    BY <1>0, <2>1
  <2> QED BY <1>a, <1>b, <1>c, <1>d, <2>1, <2>3, <2>4, <2>5, CountsAre
<1>5. ASSUME NEW p \in Producers, PushItem(p)
      PROVE  Counted'
  <2>1. /\ pc[p] = "push" /\ pc'[p] = "count" /\ \A d \in Threads \ {p} : pc'[d] = pc[d]
        /\ UNCHANGED <<_count, pushes>> /\ _queue' = Append(_queue, value[p])
    BY <1>0, <1>5, GoesDoes DEF PushItem
  <2>2. value[p] \in Values
    BY <2>1 DEF Roles
  <2>3. Coming' = Coming \ {p} /\ p \in Coming
    BY <1>0, <2>1 DEF Coming
  <2>4. IsFiniteSet(Coming') /\ K' = K - 1
    BY <1>a, <2>3, FS_RemoveElement DEF K
  <2>5. \A d \in Threads \ {p} : pc[d] \notin Critical
    BY <1>0, <2>1, Alone DEF Critical
  <2>6. Counting = 0 /\ Counting' = 1 /\ Subbing' = Subbing /\ pc[Handler] # "reset"
    BY <1>0, <2>1, <2>5, CountsAre, CountsAreNext DEF Critical
  <2> QED BY <1>a, <1>b, <1>c, <1>d, <2>1, <2>2, <2>4, <2>6, CountsAre
<1>6. ASSUME NEW p \in Producers, FetchAdd(p)
      PROVE  Counted'
  <2>1. /\ pc[p] = "count" /\ pc'[p] = "notify" /\ \A d \in Threads \ {p} : pc'[d] = pc[d]
        /\ UNCHANGED <<_queue, pushes>> /\ _count' = _count + 1
    BY <1>0, <1>6, GoesDoes DEF FetchAdd
  <2>2. Coming' = Coming
    BY <1>0, <2>1 DEF Coming
  <2>3. \A d \in Threads \ {p} : pc[d] \notin Critical
    BY <1>0, <2>1, Alone DEF Critical
  <2>4. Counting = 1 /\ Counting' = 0 /\ Subbing' = Subbing /\ pc[Handler] # "reset"
    BY <1>0, <2>1, <2>3, CountsAre, CountsAreNext DEF Critical
  <2> QED BY <1>a, <1>b, <1>c, <1>d, <1>e, <2>1, <2>2, <2>4, CountsAre
<1>7. ASSUME NEW p \in Producers, NotifyOne(p)
      PROVE  Counted'
  BY <1>0, <1>1, <1>7, GoesDoes DEF NotifyOne
<1>8. ASSUME NEW c \in Consumers, CallWait(c) \/ WaitShutdown(c) \/ Size(c) \/ Wait(c)
                                    \/ CallPop(c) \/ CallEmpty(c) \/ Empty(c)
      PROVE  Counted'
  BY <1>0, <1>1, <1>8, GoesDoes DEF CallWait, WaitShutdown, Size, Wait, CallPop, CallEmpty, Empty
<1>9. ASSUME NEW c \in Consumers, WaitFront(c) \/ PopPtr(c)
      PROVE  Counted'
  <2>1. CASE pc'[c] = "unlock"
    BY <1>0, <1>1, <1>9, <2>1, GoesDoes, PopPtrDoes DEF WaitFront
  <2>2. CASE pc'[c] # "unlock"
    <3>1. /\ pc[c] \in {"wait", "pop"} /\ pc'[c] = "sub"
          /\ \A d \in Threads \ {c} : pc'[d] = pc[d]
          /\ UNCHANGED <<_count, pushes>> /\ _queue # <<>> /\ _queue' = Tail(_queue)
      BY <1>0, <1>9, <2>2, GoesDoes, PopPtrDoes DEF WaitFront
    <3>2. Coming' = Coming
      BY <1>0, <3>1 DEF Coming
    <3>3. \A d \in Threads \ {c} : pc[d] \notin Critical
      BY <1>0, <3>1, Alone DEF Critical
    <3>4. Counting' = Counting /\ Subbing = 0 /\ Subbing' = 1 /\ pc[Handler] # "reset"
      BY <1>0, <3>1, <3>3, CountsAre, CountsAreNext DEF Critical
    <3> QED BY <1>a, <1>b, <1>c, <1>d, <1>e, <3>1, <3>2, <3>4, CountsAre
  <2> QED BY <2>1, <2>2
<1>10. ASSUME NEW c \in Consumers, FetchSub(c)
       PROVE  Counted'
  <2>1. /\ pc[c] = "sub" /\ pc'[c] = "unlock" /\ \A d \in Threads \ {c} : pc'[d] = pc[d]
        /\ UNCHANGED <<_queue, pushes>> /\ _count' = _count - 1
    BY <1>0, <1>10, GoesDoes DEF FetchSub
  <2>2. Coming' = Coming
    BY <1>0, <2>1 DEF Coming
  <2>3. \A d \in Threads \ {c} : pc[d] \notin Critical
    BY <1>0, <2>1, Alone DEF Critical
  <2>4. Counting' = Counting /\ Subbing = 1 /\ Subbing' = 0 /\ pc[Handler] # "reset"
    BY <1>0, <2>1, <2>3, CountsAre, CountsAreNext DEF Critical
  <2> QED BY <1>a, <1>b, <1>c, <1>d, <1>e, <2>1, <2>2, <2>4, CountsAre
<1>11. ASSUME NEW t, CallCancel(t)
       PROVE  Counted'
  BY <1>0, <1>1, <1>11, GoesDoes DEF CallCancel
<1>12. CASE DeleteAll \/ SetShutdown
  <2>1. /\ pc[Handler] \in {"cancel", "reset"} /\ \A d \in Threads \ {Handler} : pc'[d] = pc[d]
        /\ pc'[Handler] \in {"reset", "notify_all"} /\ UNCHANGED pushes
        /\ pc'[Handler] # "reset" => _count' = 0
    BY <1>0, <1>12, GoesDoes DEF DeleteAll, SetShutdown
  <2>2. _queue' = <<>>
    <3>1. CASE DeleteAll
      BY <3>1 DEF DeleteAll
    <3>2. CASE SetShutdown
      BY <1>0, <3>2, GoesDoes DEF SetShutdown, Announced, Cancelling
    <3> QED BY <1>12, <3>1, <3>2
  <2>3. Coming' = Coming
    BY <1>0, <2>1 DEF Coming
  <2>4. \A d \in Threads \ {Handler} : pc[d] \notin Critical
    BY <1>0, <2>1, Alone DEF Critical
  <2>5. Counting' = 0 /\ Subbing' = 0
    BY <1>0, <2>1, <2>4, CountsAreNext DEF Critical
  <2> QED BY <1>a, <1>b, <1>c, <1>d, <1>e, <2>1, <2>2, <2>3, <2>5, CountsAre
<1>13. CASE NotifyAll
  BY <1>0, <1>1, <1>13, GoesDoes DEF NotifyAll
<1>14. CASE UNCHANGED vars \/ \E c \in Consumers : Spurious(c)
  <2>1. UNCHANGED <<pc, _queue, _count, pushes>>
    BY <1>14 DEF vars, Spurious
  <2>2. Coming' = Coming /\ Counting' = Counting /\ Subbing' = Subbing
    BY <2>1 DEF Coming, Counting, Subbing
  <2> QED BY <1>a, <1>b, <1>c, <1>d, <1>e, <2>1, <2>2
<1> QED
  BY <1>2, <1>3, <1>4, <1>5, <1>6, <1>7, <1>8, <1>9, <1>10, <1>11, <1>12, <1>13, <1>14
  DEF Next, ProducerStep, WaiterStep, ServiceStep, HandlerStep

\* Beside a sleeper, someone comes for every item.
LEMMA TakersComeStep ==
  ASSUME QueueLocksAssumption
  PROVE  TypeOK /\ Roles /\ UsesApart /\ Announced /\ TakersCome /\ [Next]_vars => TakersCome'
<1> SUFFICES ASSUME TypeOK, Roles, UsesApart, Announced, TakersCome, [Next]_vars
             PROVE  TakersCome'
  OBVIOUS
<1>0. /\ Consumers \cap Producers = {} /\ Handler \notin Consumers /\ Handler \notin Producers
      /\ Consumers \subseteq Threads /\ Producers \subseteq Threads /\ Handler \in Threads
      /\ Threads = Consumers \cup Producers \cup {Handler}
      /\ blocked \subseteq Consumers /\ \A c \in blocked : pc[c] = "wait?"
  BY Kinds DEF TypeOK, UsesApart
<1> DEFINE L == Len(_queue)
           K == Cardinality(Takers)
<1>a. /\ L \in Nat /\ K \in Nat /\ IsFiniteSet(Takers) /\ IsFiniteSet(blocked)
      /\ blocked # {} => L <= K + Serving
  BY FS_CardinalityType DEF TypeOK, TakersCome
<1>c. ASSUME IsFiniteSet(Takers'), IsFiniteSet(blocked'), blocked' # {} => L' <= K' + Serving'
      PROVE  TakersCome'
  BY <1>c DEF TakersCome
<1>d. /\ _queue' = <<>> => L' = 0
      /\ _queue = <<>> => L = 0
      /\ _queue # <<>> /\ _queue' = Tail(_queue) => L' = L - 1 /\ L > 0
      /\ \A v \in Values : _queue' = Append(_queue, v) => L' = L + 1
      /\ _queue' = _queue => L' = L
  BY DEF TypeOK
<1>e. Takers' = Takers => K' = K
  OBVIOUS
<1>f. IsFiniteSet(Takers') => K' \in Nat
  BY FS_CardinalityType
<1> HIDE DEF L, K
\* a step beside those that wait
<1>1. ASSUME NEW t \in Threads, UNCHANGED <<_queue, blocked>>,
             pc[t] \notin {"wait?", "wait", "count", "notify"},
             pc'[t] \notin {"wait?", "wait", "count", "notify"},
             \A d \in Threads \ {t} : pc'[d] = pc[d]
      PROVE  TakersCome'
  <2>1. Takers' = Takers
    BY <1>0, <1>1 DEF Takers
  <2>2. Serving' = Serving
    BY <1>0, <1>1, CountsAre, CountsAreNext
  <2> QED BY <1>1, <1>a, <1>c, <1>d, <1>e, <2>1, <2>2
<1>2. ASSUME NEW t \in Threads, Lock(t)
      PROVE  TakersCome'
  <2>1. CASE pc[t] = "wait?"
    <3>1. /\ t \notin blocked /\ _queueLock = Nil /\ pc'[t] = "wait"
          /\ \A d \in Threads \ {t} : pc'[d] = pc[d]
          /\ UNCHANGED <<_queue, blocked>> /\ t \in Consumers
      BY <1>0, <1>2, <2>1, LockDoes DEF Roles, ConsumerSteps, ProducerSteps, HandlerSteps
    <3>2. Takers' = Takers \ {t} /\ t \in Takers
      BY <1>0, <2>1, <3>1 DEF Takers
    <3>3. IsFiniteSet(Takers') /\ K' = K - 1
      BY <1>a, <3>2, FS_RemoveElement DEF K
    <3>4. Serving' = 1
      BY <3>1, CountsAreNext
    <3>5. Serving = 0
      BY <1>0, <3>1, CountsAre, Kinds DEF Roles, Critical
    <3> QED BY <1>a, <1>c, <1>d, <3>1, <3>3, <3>4, <3>5
  <2> QED BY <1>1, <1>2, <2>1, LockDoes
<1>3. ASSUME NEW t \in Threads, Unlock(t)
      PROVE  TakersCome'
  BY <1>1, <1>3, UnlockDoes
<1>4. ASSUME NEW p \in Producers, NEW v \in Values, CallPush(p, v)
      PROVE  TakersCome'
  BY <1>0, <1>1, <1>4, GoesDoes DEF CallPush
<1>5. ASSUME NEW p \in Producers, PushItem(p)
      PROVE  TakersCome'
  <2>1. /\ pc[p] = "push" /\ pc'[p] = "count" /\ \A d \in Threads \ {p} : pc'[d] = pc[d]
        /\ UNCHANGED blocked /\ _queue' = Append(_queue, value[p])
    BY <1>0, <1>5, GoesDoes DEF PushItem
  <2>2. value[p] \in Values
    BY <2>1 DEF Roles
  <2>3. Takers' = Takers
    BY <1>0, <2>1 DEF Takers
  <2>4. \A d \in Threads \ {p} : pc[d] \notin Critical
    BY <1>0, <2>1, Alone DEF Critical
  <2>5. Serving = 0 /\ Serving' = 1
    BY <1>0, <2>1, <2>4, CountsAre, CountsAreNext DEF Critical
  <2> QED BY <1>a, <1>c, <1>d, <1>e, <2>1, <2>2, <2>3, <2>5
<1>6. ASSUME NEW p \in Producers, FetchAdd(p)
      PROVE  TakersCome'
  <2>1. /\ pc[p] = "count" /\ pc'[p] = "notify" /\ \A d \in Threads \ {p} : pc'[d] = pc[d]
        /\ UNCHANGED <<_queue, blocked>>
    BY <1>0, <1>6, GoesDoes DEF FetchAdd
  <2>2. Takers' = Takers
    BY <1>0, <2>1 DEF Takers
  <2>3. Serving = 1 /\ Serving' = 1
    BY <1>0, <2>1, CountsAre, CountsAreNext
  <2> QED BY <1>a, <1>c, <1>d, <1>e, <2>1, <2>2, <2>3
<1>7. ASSUME NEW p \in Producers, NotifyOne(p)
      PROVE  TakersCome'
  <2>1. /\ pc[p] = "notify" /\ pc'[p] = "unlock" /\ \A d \in Threads \ {p} : pc'[d] = pc[d]
        /\ UNCHANGED _queue
        /\ (blocked = {} /\ blocked' = {}) \/ \E c \in blocked : blocked' = blocked \ {c}
    BY <1>0, <1>7, GoesDoes DEF NotifyOne
  <2>2. Serving = 1 /\ (Serving' = 0 \/ Serving' = 1)
    BY <1>0, <2>1, CountsAre, CountsAreNext
  <2>3. CASE blocked = {} /\ blocked' = {}
    <3>1. Takers' = Takers
      BY <1>0, <2>1, <2>3 DEF Takers
    <3> QED BY <1>a, <1>c, <2>3, <3>1
  <2>4. ASSUME NEW c \in blocked, blocked' = blocked \ {c}
        PROVE  TakersCome'
    <3>1. Takers' = Takers \cup {c} /\ c \notin Takers
      BY <1>0, <2>1, <2>4 DEF Takers
    <3>2. IsFiniteSet(Takers') /\ K' = K + 1 /\ IsFiniteSet(blocked')
      BY <1>a, <2>4, <3>1, FS_AddElement, FS_RemoveElement DEF K
    <3>3. L <= K + 1 /\ L' = L
      BY <1>a, <1>d, <2>1, <2>2, <2>4
    <3>4. L' <= K' + Serving'
      BY <1>a, <2>2, <3>2, <3>3
    <3> QED BY <1>c, <3>2, <3>4
  <2> QED BY <2>1, <2>3, <2>4
<1>8. ASSUME NEW c \in Consumers, CallWait(c)
      PROVE  TakersCome'
  <2>1. /\ pc[c] = "out" /\ pc'[c] = "wait?" /\ \A d \in Threads \ {c} : pc'[d] = pc[d]
        /\ UNCHANGED <<_queue, blocked>>
    BY <1>0, <1>8, GoesDoes DEF CallWait
  <2>2. Takers' = Takers \cup {c} /\ c \notin Takers
    BY <1>0, <2>1 DEF Takers
  <2>3. IsFiniteSet(Takers') /\ K' = K + 1
    BY <1>a, <2>2, FS_AddElement DEF K
  <2>4. Serving' = Serving
    BY <1>0, <2>1, CountsAre, CountsAreNext
  <2> QED BY <1>a, <1>c, <1>d, <2>1, <2>3, <2>4, CountsAre
<1>9. ASSUME NEW c \in Consumers, Wait(c)
      PROVE  TakersCome'
  <2>1. /\ pc[c] = "wait" /\ pc'[c] = "wait?" /\ \A d \in Threads \ {c} : pc'[d] = pc[d]
        /\ _queue = <<>> /\ UNCHANGED _queue /\ blocked' = blocked \cup {c}
    BY <1>0, <1>9, GoesDoes DEF Wait
  <2>2. Takers' = Takers
    BY <1>0, <2>1 DEF Takers
  <2>3. IsFiniteSet(blocked')
    BY <1>a, <2>1, FS_AddElement
  <2>4. Serving' = 0 \/ Serving' = 1
    BY CountsAreNext
  <2>5. blocked' # {} => L' <= K' + Serving'
    BY <1>a, <1>d, <1>e, <2>1, <2>2, <2>3, <2>4
  <2> QED BY <1>a, <1>c, <2>1, <2>2, <2>3, <2>5
<1>10. ASSUME NEW c \in Consumers, Spurious(c)
       PROVE  TakersCome'
  <2>1. c \in blocked /\ blocked' = blocked \ {c} /\ UNCHANGED <<pc, _queue>>
    BY <1>10 DEF Spurious
  <2>2. Takers' = Takers \cup {c} /\ c \notin Takers
    BY <1>0, <2>1 DEF Takers
  <2>3. IsFiniteSet(Takers') /\ K' = K + 1 /\ IsFiniteSet(blocked')
    BY <1>a, <2>1, <2>2, FS_AddElement, FS_RemoveElement DEF K
  <2>4. Serving' = Serving
    BY <2>1 DEF Serving
  <2> QED BY <1>a, <1>c, <1>d, <2>1, <2>3, <2>4, CountsAre
<1>11. ASSUME NEW c \in Consumers, WaitShutdown(c)
       PROVE  TakersCome'
  <2>1. /\ pc[c] = "wait" /\ pc'[c] = "unlock" /\ \A d \in Threads \ {c} : pc'[d] = pc[d]
        /\ _shutdown /\ UNCHANGED blocked
    BY <1>0, <1>11, GoesDoes DEF WaitShutdown
  <2>2. pc[Handler] # "notify_all"
    BY <1>0, <2>1, Alone DEF Critical
  <2>3. blocked' = {}
    BY <2>1, <2>2 DEF Announced
  <2>4. Takers' = Takers
    BY <1>0, <2>1 DEF Takers
  <2> QED BY <1>a, <1>c, <2>1, <2>3, <2>4
<1>12. ASSUME NEW c \in Consumers, WaitFront(c)
       PROVE  TakersCome'
  <2>1. /\ pc[c] = "wait" /\ pc'[c] = "sub" /\ \A d \in Threads \ {c} : pc'[d] = pc[d]
        /\ _queue # <<>> /\ _queue' = Tail(_queue) /\ UNCHANGED blocked
    BY <1>0, <1>12, GoesDoes DEF WaitFront
  <2>2. Takers' = Takers
    BY <1>0, <2>1 DEF Takers
  <2>3. Serving = 1
    BY <2>1, CountsAre
  <2>4. Serving' = 0 \/ Serving' = 1
    BY CountsAreNext
  <2>5. blocked' # {} => L' <= K' + Serving'
    BY <1>a, <1>d, <1>e, <2>1, <2>2, <2>3, <2>4
  <2> QED BY <1>a, <1>c, <2>1, <2>2, <2>3, <2>5
<1>13. ASSUME NEW c \in Consumers, Size(c) \/ CallPop(c) \/ CallEmpty(c) \/ Empty(c) \/ FetchSub(c)
       PROVE  TakersCome'
  BY <1>0, <1>1, <1>13, GoesDoes DEF Size, CallPop, CallEmpty, Empty, FetchSub
<1>14. ASSUME NEW c \in Consumers, PopPtr(c)
       PROVE  TakersCome'
  <2>1. /\ pc[c] = "pop" /\ pc'[c] \in {"unlock", "sub"} /\ UNCHANGED blocked
        /\ \A d \in Threads \ {c} : pc'[d] = pc[d]
    BY <1>14, PopPtrDoes
  <2>2. blocked' = {}
    BY <2>1 DEF UsesApart, TypeOK
  <2>3. Takers' = Takers
    BY <1>0, <2>1 DEF Takers
  <2> QED BY <1>a, <1>c, <2>1, <2>2, <2>3
<1>15. ASSUME NEW t, CallCancel(t)
       PROVE  TakersCome'
  BY <1>0, <1>1, <1>15, GoesDoes DEF CallCancel
<1>16. CASE DeleteAll
  <2>1. /\ \A d \in Threads \ {Handler} : pc'[d] = pc[d]
        /\ _queue' = <<>> /\ UNCHANGED blocked
    BY <1>0, <1>16, GoesDoes DEF DeleteAll
  <2>2. Takers' = Takers
    BY <1>0, <2>1 DEF Takers
  <2>3. Serving' = 0 \/ Serving' = 1
    BY CountsAreNext
  <2>4. L' = 0
    <3>1. _queue' = <<>>
      BY <2>1
    <3> QED BY <1>d, <3>1
  <2>5. K' = K
    BY <1>e, <2>2
  <2>6. L' <= K' + Serving'
    BY <1>a, <2>3, <2>4, <2>5
  <2> QED BY <1>a, <1>c, <2>1, <2>2, <2>6
<1>17. CASE SetShutdown
  BY <1>0, <1>1, <1>17, GoesDoes DEF SetShutdown
<1>18. CASE NotifyAll
  <2>1. blocked' = {} /\ \A d \in Threads \ {Handler} : pc'[d] = pc[d]
    BY <1>0, <1>18, GoesDoes DEF NotifyAll
  <2>2. Takers' = Takers \cup blocked
    BY <1>0, <2>1 DEF Takers
  <2>3. IsFiniteSet(Takers') /\ IsFiniteSet(blocked')
    BY <1>a, <2>1, <2>2, FS_Union, FS_EmptySet
  <2> QED BY <1>c, <2>1, <2>3
<1>19. CASE UNCHANGED vars
  <2>1. UNCHANGED <<pc, _queue, blocked>>
    BY <1>19 DEF vars
  <2>2. Takers' = Takers /\ Serving' = Serving
    BY <2>1 DEF Takers, Serving
  <2> QED BY <1>a, <1>c, <1>d, <1>e, <2>1, <2>2
<1> QED
  BY <1>2, <1>3, <1>4, <1>5, <1>6, <1>7, <1>8, <1>9, <1>10, <1>11, <1>12, <1>13, <1>14, <1>15,
     <1>16, <1>17, <1>18, <1>19
  DEF Next, ProducerStep, WaiterStep, ServiceStep, HandlerStep

\* What Size has counted is there, whoever pushes meanwhile.
LEMMA SizeIsThereStep ==
  ASSUME QueueLocksAssumption
  PROVE  TypeOK /\ Roles /\ UsesApart /\ Rounds /\ Counted /\ SizeIsThere /\ [Next]_vars
           => SizeIsThere'
<1> SUFFICES ASSUME TypeOK, Roles, UsesApart, Rounds, Counted, SizeIsThere, [Next]_vars
             PROVE  SizeIsThere'
  OBVIOUS
<1>0. /\ Consumers \cap Producers = {} /\ Handler \notin Consumers /\ Handler \notin Producers
      /\ Consumers \subseteq Threads /\ Producers \subseteq Threads /\ Handler \in Threads
  BY Kinds
<1> DEFINE L == Len(_queue)
<1>a. L \in Nat /\ _count \in Nat /\ \A c \in Consumers : left[c] \in Nat
  BY DEF TypeOK
<1>d. /\ _queue # <<>> /\ _queue' = Tail(_queue) => L' = L - 1 /\ L > 0
      /\ \A v \in Values : _queue' = Append(_queue, v) => L' = L + 1
      /\ _queue' = _queue => L' = L
      /\ _queue = <<>> => L = 0
  BY DEF TypeOK
<1>b. use = "service" => \A c \in Consumers : left[c] <= L
  BY DEF SizeIsThere
<1>c. ASSUME use' = "service" => \A c \in Consumers : left'[c] <= L'
      PROVE  SizeIsThere'
  BY <1>c DEF SizeIsThere
<1>e. use' = use
  BY DEF Next, vars, Lock, Unlock, ProducerStep, CallPush, PushItem, FetchAdd, NotifyOne,
     WaiterStep, CallWait, Wait, Spurious, WaitShutdown, WaitFront, FetchSub, ServiceStep, Size,
     CallPop, PopPtr, CallEmpty, Empty, HandlerStep, CallCancel, DeleteAll, SetShutdown, NotifyAll
<1> HIDE DEF L
<1>1. CASE use # "service"
  BY <1>1, <1>c, <1>e
<1>2. CASE UNCHANGED <<_queue, left>>
  BY <1>2, <1>b, <1>c, <1>d, <1>e
<1>3. ASSUME NEW p \in Producers, PushItem(p)
      PROVE  SizeIsThere'
  <2>1. /\ value[p] \in Values /\ _queue' = Append(_queue, value[p]) /\ UNCHANGED left
    BY <1>0, <1>3, GoesDoes DEF PushItem, Roles
  <2>2. L' = L + 1
    BY <1>d, <2>1
  <2> QED BY <1>a, <1>b, <1>c, <1>e, <2>1, <2>2
<1>4. ASSUME NEW c \in Consumers, WaitFront(c), use = "service"
      PROVE  FALSE
  BY <1>0, <1>4, GoesDoes DEF WaitFront, UsesApart
<1>5. ASSUME NEW c \in Consumers, Size(c)
      PROVE  SizeIsThere'
  <2>1. /\ \A d \in Consumers : pc[d] = "out"
        /\ left' = [left EXCEPT ![c] = _count] /\ UNCHANGED _queue /\ use = "service"
    BY <1>5 DEF Size
  <2>2. left'[c] = _count /\ \A d \in Consumers \ {c} : left'[d] = 0
    BY <2>1 DEF TypeOK, Rounds
  <2>3. Subbing = 0 /\ (Counting = 0 \/ Counting = 1)
    BY <2>1, CountsAre
  <2>4. pc[Handler] # "reset"
    BY <2>1 DEF UsesApart
  <2>5. _count + Counting = L + Subbing
    BY <2>4 DEF Counted, L
  <2>6. _count <= L
    BY <1>a, <2>3, <2>5
  <2>7. L' = L
    BY <1>d, <2>1
  <2>8. \A d \in Consumers : left'[d] <= L'
    BY <1>a, <2>2, <2>6, <2>7
  <2> QED BY <1>c, <2>8
<1>6. ASSUME NEW c \in Consumers, PopPtr(c), use = "service"
      PROVE  SizeIsThere'
  <2>1. /\ pc[c] = "pop" /\ pc'[c] \in {"unlock", "sub"}
        /\ left'[c] = left[c] - 1 /\ \A d \in Consumers \ {c} : left'[d] = left[d]
    BY <1>6, PopPtrDoes
  <2>2. left[c] > 0 /\ left[c] <= L
    BY <1>b, <1>6, <2>1 DEF Rounds
  <2>3. \A d \in Consumers \ {c} : left'[d] = 0
    BY <1>6, <2>1 DEF UsesApart, Rounds
  <2>4. pc'[c] = "sub"
    <3>1. pc'[c] = "unlock" => _queue = <<>> \/ _shutdown
      BY <1>6, PopPtrDoes
    <3>2. ~_shutdown
      BY <1>6 DEF UsesApart
    <3>3. _queue # <<>>
      BY <1>a, <1>d, <2>2
    <3> QED BY <2>1, <3>1, <3>2, <3>3
  <2>5. L' = L - 1 /\ L > 0
    BY <1>6, <1>d, <2>4, PopPtrDoes
  <2>6. \A d \in Consumers : left'[d] <= L'
    BY <1>a, <2>1, <2>2, <2>3, <2>5
  <2> QED BY <1>c, <2>6
<1>7. CASE DeleteAll
  <2>1. use # "service"
    BY <1>7, <1>0, GoesDoes DEF DeleteAll, UsesApart
  <2> QED BY <1>1, <2>1
<1>8. \/ UNCHANGED <<_queue, left>>
      \/ \E p \in Producers : PushItem(p)
      \/ \E c \in Consumers : WaitFront(c) \/ Size(c) \/ PopPtr(c)
      \/ DeleteAll
  BY DEF Next, vars, Lock, Unlock, ProducerStep, CallPush, FetchAdd, NotifyOne,
     WaiterStep, CallWait, Wait, Spurious, WaitShutdown, FetchSub, ServiceStep,
     CallPop, CallEmpty, Empty, HandlerStep, CallCancel, SetShutdown, NotifyAll
<1> QED BY <1>1, <1>2, <1>3, <1>4, <1>5, <1>6, <1>7, <1>8

-----------------------------------------------------------------------------
(* The theorems.                                                           *)

\* The invariant holds when the threads start.
LEMMA IInvInit ==
  ASSUME QueueLocksAssumption
  PROVE  Init => IInv
<1> SUFFICES ASSUME Init
             PROVE  IInv
  OBVIOUS
<1>0. /\ Consumers \cap Producers = {} /\ Handler \notin Consumers /\ Handler \notin Producers
      /\ Consumers \subseteq Threads /\ Producers \subseteq Threads /\ Handler \in Threads
      /\ Nil \notin Threads /\ MaxPushes \in Nat /\ MaxCancels \in Nat
  BY Kinds
<1>1. TypeOK
  <2>1. /\ use \in {"global", "service"} /\ _queueLock \in Threads \cup {Nil}
        /\ _shutdown \in BOOLEAN /\ blocked \subseteq Consumers /\ on \in Interrupted \cup {Nil}
    BY DEF Init
  <2>2. _queue \in Seq(Values)
    BY DEF Init
  <2>3. _count \in 0 .. MaxPushes /\ pushes \in 0 .. MaxPushes /\ cancels \in 0 .. MaxCancels
    BY <1>0 DEF Init
  <2>4. value \in [Producers -> Values \cup {Nil}] /\ left \in [Consumers -> 0 .. MaxPushes]
    BY <1>0 DEF Init
  <2>5. pc = [t \in Threads |-> "out"]
    BY DEF Init
  <2> QED BY <2>1, <2>2, <2>3, <2>4, <2>5 DEF TypeOK
<1>2. \A t \in Threads : pc[t] = "out"
  BY DEF Init
<1>3. Roles
  BY <1>0, <1>2 DEF Init, Roles, ConsumerSteps, ProducerSteps, HandlerSteps, Critical
<1>4. UsesApart /\ Rounds
  BY <1>0, <1>2 DEF Init, UsesApart, Rounds
<1>5. Announced
  BY <1>0, <1>2 DEF Init, Announced, Pushing, Cancelling
<1>6. Counted
  <2>1. Coming = {} /\ Counting = 0 /\ Subbing = 0
    BY <1>0, <1>2, CountsAre DEF Coming
  <2>2. IsFiniteSet(Coming) /\ Cardinality(Coming) = 0
    BY <2>1, FS_EmptySet
  <2> QED BY <2>1, <2>2 DEF Init, Counted
<1>7. TakersCome
  <2>1. Takers = {} /\ blocked = {}
    BY <1>0, <1>2 DEF Init, Takers
  <2> QED BY <2>1, FS_EmptySet DEF TakersCome
<1>8. SizeIsThere
  BY DEF Init, SizeIsThere
<1> QED BY <1>1, <1>3, <1>4, <1>5, <1>6, <1>7, <1>8 DEF IInv

\* Every step keeps it.
LEMMA IInvStep ==
  ASSUME QueueLocksAssumption
  PROVE  IInv /\ [Next]_vars => IInv'
BY RolesStep, UsesApartStep, RoundsStep, AnnouncedStep, TypeStep, CountedStep, TakersComeStep,
   SizeIsThereStep DEF IInv

\* The mutex, the count and the sleepers agree with the queue in every state.
THEOREM Invariance ==
  ASSUME QueueLocksAssumption
  PROVE  Spec => []IInv
<1>1. Init => IInv
  BY IInvInit
<1>2. IInv /\ [Next]_vars => IInv'
  BY IInvStep
<1> QED BY <1>1, <1>2, PTL DEF Spec

\* Types: among them, _count never goes below zero nor above the pushes (fetch_sub of
\* an unsigned count).
THEOREM TypeCorrect ==
  ASSUME QueueLocksAssumption
  PROVE  Spec => []TypeOK
<1>1. IInv => TypeOK
  BY DEF IInv
<1> QED BY <1>1, Invariance, PTL

\* What Size has counted is in the queue until the consumer takes it, although it reads
\* _count without the mutex.
THEOREM SizeHolds ==
  ASSUME QueueLocksAssumption
  PROVE  Spec => []SizeIsThere
<1>1. IInv => SizeIsThere
  BY DEF IInv
<1> QED BY <1>1, Invariance, PTL

\* No item waits with nobody but sleepers beside it: notify_one is not lost.
THEOREM NoLostWakeup ==
  ASSUME QueueLocksAssumption
  PROVE  Spec => []ItemHasTaker
<1>1. ASSUME IInv
      PROVE  ItemHasTaker
  <2>1. SUFFICES ASSUME _queueLock = Nil, blocked # {}
                 PROVE  Len(_queue) <= Cardinality(Takers)
    BY DEF ItemHasTaker, Takers
  <2>2. Serving = 0
    <3>1. \A t \in Threads : pc[t] \notin Critical
      BY <1>1, <2>1, Kinds DEF IInv, Roles
    <3> QED BY <3>1, Kinds, CountsAre DEF Critical
  <2>3. Len(_queue) <= Cardinality(Takers) + Serving /\ IsFiniteSet(Takers)
    BY <1>1, <2>1 DEF IInv, TakersCome
  <2>4. Cardinality(Takers) \in Nat
    BY <2>3, FS_CardinalityType
  <2> QED BY <2>2, <2>3, <2>4
<1> QED BY <1>1, Invariance, PTL

-----------------------------------------------------------------------------
(* The refinement: the queue with its mutex is an AtomicQueue.  A push has  *)
(* its effect when it notifies, a pop when the item leaves, Cancel when the *)
(* items are deleted.                                                       *)

absQueue    == IF Pushing THEN SubSeq(_queue, 1, Len(_queue) - 1) ELSE _queue
absShutdown == _shutdown \/ Cancelling
absAsleep   == IF Cancelling THEN {} ELSE blocked

\* What has been appended is taken off again by the abstraction.
LEMMA FrontOfAppend ==
  ASSUME NEW S, NEW s \in Seq(S), NEW e \in S
  PROVE  SubSeq(Append(s, e), 1, Len(Append(s, e)) - 1) = s
<1> DEFINE a == Append(s, e)
           f == SubSeq(a, 1, Len(a) - 1)
<1>1. /\ a \in Seq(S) /\ Len(a) = Len(s) + 1 /\ Len(s) \in Nat
      /\ \A i \in 1 .. Len(s) : a[i] = s[i]
  BY AppendProperties, LenProperties
<1>2. \A i \in 1 .. Len(a) - 1 : a[i] \in S
  BY <1>1
<1> HIDE DEF a
<1>3. /\ f \in Seq(S) /\ Len(f) = Len(s)
      /\ \A i \in 1 .. Len(s) : f[i] = a[i]
  <2>1. 1 \in Int /\ Len(a) - 1 \in Int
    BY <1>1
  <2>2. /\ f \in Seq(S)
        /\ Len(f) = IF 1 <= Len(a) - 1 THEN (Len(a) - 1) - 1 + 1 ELSE 0
        /\ \A i \in 1 .. (Len(a) - 1) - 1 + 1 : f[i] = a[1 + i - 1]
    BY <1>2, <2>1, SubSeqProperties
  <2> HIDE DEF f
  <2> QED BY <1>1, <2>2
<1> HIDE DEF f
<1>4. f = s
  BY <1>1, <1>3, SeqEqual
<1> QED BY <1>4 DEF a, f

\* A queue that is not empty is one that an append has made.
LEMMA AppendOfFront ==
  ASSUME NEW S, NEW q \in Seq(S), q # <<>>
  PROVE  \E e \in S : q = Append(SubSeq(q, 1, Len(q) - 1), e)
<1>1. PICK s \in Seq(S), e \in S : q = Append(s, e)
  BY SequenceEmptyOrAppend
<1>2. SubSeq(q, 1, Len(q) - 1) = s
  BY <1>1, FrontOfAppend
<1> QED BY <1>1, <1>2

\* The steps of the atomic queue, in terms of what the abstraction sees.
LEMMA AtomicSteps ==
  /\ \A v \in Values :
       /\ absQueue' = Append(absQueue, v) /\ absShutdown' = absShutdown
       /\ (absAsleep = {} /\ absAsleep' = {}) \/ \E c \in absAsleep : absAsleep' = absAsleep \ {c}
       => Atomic!Next
  /\ \A c \in Consumers :
       /\ ~absShutdown /\ absQueue = <<>> /\ c \notin absAsleep
       /\ absAsleep' = absAsleep \cup {c} /\ absQueue' = absQueue /\ absShutdown' = absShutdown
       => Atomic!Next
  /\ \A c \in Consumers :
       /\ c \in absAsleep /\ absAsleep' = absAsleep \ {c}
       /\ absQueue' = absQueue /\ absShutdown' = absShutdown
       => Atomic!Next
  /\ /\ ~absShutdown /\ absQueue # <<>> /\ absQueue' = Tail(absQueue)
     /\ absShutdown' = absShutdown /\ absAsleep' = absAsleep
     => Atomic!Next
  /\ absQueue' = <<>> /\ absShutdown' = TRUE /\ absAsleep' = {} => Atomic!Next
  /\ absQueue' = absQueue /\ absShutdown' = absShutdown /\ absAsleep' = absAsleep
     => UNCHANGED Atomic!vars
BY DEF Atomic!Next, Atomic!Push, Atomic!Pop, Atomic!Sleep, Atomic!SpuriousWakeup, Atomic!Cancel,
       Atomic!vars, absQueue, absShutdown, absAsleep

\* A step that neither moves an item, nor anyone who is blocked, nor Cancel on, is none.
LEMMA Stutters ==
  ASSUME QueueLocksAssumption, TypeOK, NEW t \in Threads,
         UNCHANGED <<_queue, _shutdown, blocked>>,
         \A d \in Threads \ {t} : pc'[d] = pc[d],
         pc[t] \in {"count", "notify"} <=> pc'[t] \in {"count", "notify"},
         pc[t] \in {"reset", "notify_all"} <=> pc'[t] \in {"reset", "notify_all"}
  PROVE  absQueue' = absQueue /\ absShutdown' = absShutdown /\ absAsleep' = absAsleep
<1>1. (Pushing' <=> Pushing) /\ (Cancelling' <=> Cancelling)
  BY Kinds DEF Pushing, Cancelling
<1> QED BY <1>1 DEF absQueue, absShutdown, absAsleep

\* Every step of a thread is a step of the atomic queue, or none.
LEMMA StepRefines ==
  ASSUME QueueLocksAssumption, IInv, [Next]_vars
  PROVE  Atomic!Next \/ UNCHANGED Atomic!vars
<1>0. /\ Consumers \cap Producers = {} /\ Handler \notin Consumers /\ Handler \notin Producers
      /\ Consumers \subseteq Threads /\ Producers \subseteq Threads /\ Handler \in Threads
      /\ Threads = Consumers \cup Producers \cup {Handler}
  BY Kinds
<1>a. TypeOK /\ Roles /\ UsesApart /\ Announced
  BY DEF IInv
<1>b. _queue \in Seq(Values) /\ blocked \subseteq Consumers
  BY <1>a DEF TypeOK
<1>c. ASSUME NEW t \in Threads, pc[t] \in Critical
      PROVE  \A d \in Threads \ {t} : pc[d] \notin Critical
  BY <1>a, <1>c, Alone
<1> DEFINE Done == Atomic!Next \/ UNCHANGED Atomic!vars
<1>1. ASSUME NEW t \in Threads, Lock(t) \/ Unlock(t)
      PROVE  Done
  <2>1. /\ UNCHANGED <<_queue, _shutdown, blocked>>
        /\ \A d \in Threads \ {t} : pc'[d] = pc[d]
        /\ pc[t] \notin {"count", "notify", "reset", "notify_all"}
        /\ pc'[t] \notin {"count", "notify", "reset", "notify_all"}
    BY <1>1, <1>a, LockDoes, UnlockDoes
  <2> QED BY <1>a, <2>1, Stutters, AtomicSteps
<1>2. ASSUME NEW p \in Producers, NEW v \in Values, CallPush(p, v)
      PROVE  Done
  <2>1. /\ UNCHANGED <<_queue, _shutdown, blocked>>
        /\ \A d \in Threads \ {p} : pc'[d] = pc[d]
        /\ pc[p] = "out" /\ pc'[p] = "push?"
    BY <1>0, <1>2, <1>a, GoesDoes DEF CallPush
  <2> QED BY <1>0, <1>a, <2>1, Stutters, AtomicSteps
<1>3. ASSUME NEW p \in Producers, PushItem(p)
      PROVE  Done
  <2>1. /\ pc[p] = "push" /\ pc'[p] = "count" /\ \A d \in Threads \ {p} : pc'[d] = pc[d]
        /\ UNCHANGED <<_shutdown, blocked>> /\ _queue' = Append(_queue, value[p])
        /\ value[p] \in Values
    BY <1>0, <1>3, <1>a, GoesDoes DEF PushItem, Roles
  <2>2. ~Pushing /\ Pushing' /\ (Cancelling' <=> Cancelling)
    BY <1>0, <1>c, <2>1 DEF Pushing, Cancelling, Critical
  <2>3. SubSeq(_queue', 1, Len(_queue') - 1) = _queue
    BY <1>b, <2>1, FrontOfAppend
  <2>4. absQueue' = absQueue
    BY <2>2, <2>3 DEF absQueue
  <2>5. absShutdown' = absShutdown /\ absAsleep' = absAsleep
    BY <2>1, <2>2 DEF absShutdown, absAsleep
  <2> QED BY <2>4, <2>5, AtomicSteps
<1>4. ASSUME NEW p \in Producers, FetchAdd(p)
      PROVE  Done
  <2>1. /\ UNCHANGED <<_queue, _shutdown, blocked>>
        /\ \A d \in Threads \ {p} : pc'[d] = pc[d]
        /\ pc[p] = "count" /\ pc'[p] = "notify"
    BY <1>0, <1>4, <1>a, GoesDoes DEF FetchAdd
  <2> QED BY <1>0, <1>a, <2>1, Stutters, AtomicSteps
<1>5. ASSUME NEW p \in Producers, NotifyOne(p)
      PROVE  Done
  <2>1. /\ pc[p] = "notify" /\ pc'[p] = "unlock" /\ \A d \in Threads \ {p} : pc'[d] = pc[d]
        /\ UNCHANGED <<_queue, _shutdown>>
        /\ (blocked = {} /\ blocked' = {}) \/ \E c \in blocked : blocked' = blocked \ {c}
    BY <1>0, <1>5, <1>a, GoesDoes DEF NotifyOne
  <2>2. Pushing /\ ~Pushing' /\ ~Cancelling /\ ~Cancelling'
    BY <1>0, <1>c, <2>1 DEF Pushing, Cancelling, Critical
  <2>3. PICK v \in Values : _queue = Append(SubSeq(_queue, 1, Len(_queue) - 1), v)
    BY <1>a, <1>b, <2>2, AppendOfFront DEF Announced
  <2>4. absQueue' = Append(absQueue, v)
    BY <2>1, <2>2, <2>3 DEF absQueue
  <2>5. absShutdown' = absShutdown /\ absAsleep = blocked /\ absAsleep' = blocked'
    BY <2>1, <2>2 DEF absShutdown, absAsleep
  <2>6. (absAsleep = {} /\ absAsleep' = {}) \/ \E c \in absAsleep : absAsleep' = absAsleep \ {c}
    BY <2>1, <2>5
  <2> QED BY <2>4, <2>5, <2>6, AtomicSteps
<1>6. ASSUME NEW c \in Consumers, CallWait(c) \/ WaitShutdown(c) \/ FetchSub(c) \/ Size(c)
                                    \/ CallPop(c) \/ CallEmpty(c) \/ Empty(c)
      PROVE  Done
  <2>1. /\ UNCHANGED <<_queue, _shutdown, blocked>>
        /\ \A d \in Threads \ {c} : pc'[d] = pc[d]
        /\ pc[c] \notin {"count", "notify", "reset", "notify_all"}
        /\ pc'[c] \notin {"count", "notify", "reset", "notify_all"}
    BY <1>0, <1>6, <1>a, GoesDoes
    DEF CallWait, WaitShutdown, FetchSub, Size, CallPop, CallEmpty, Empty
  <2> QED BY <1>0, <1>a, <2>1, Stutters, AtomicSteps
<1>7. ASSUME NEW c \in Consumers, Wait(c)
      PROVE  Done
  <2>1. /\ pc[c] = "wait" /\ pc'[c] = "wait?" /\ \A d \in Threads \ {c} : pc'[d] = pc[d]
        /\ _queue = <<>> /\ ~_shutdown /\ UNCHANGED <<_queue, _shutdown>>
        /\ blocked' = blocked \cup {c}
    BY <1>0, <1>7, <1>a, GoesDoes DEF Wait
  <2>2. ~Pushing /\ ~Pushing' /\ ~Cancelling /\ ~Cancelling' /\ c \notin blocked
    BY <1>0, <1>a, <1>c, <2>1 DEF Pushing, Cancelling, Critical, UsesApart
  <2>3. /\ absQueue = <<>> /\ absQueue' = absQueue /\ ~absShutdown /\ absShutdown' = absShutdown
        /\ c \notin absAsleep /\ absAsleep' = absAsleep \cup {c}
    BY <2>1, <2>2 DEF absQueue, absShutdown, absAsleep
  <2> QED BY <2>3, AtomicSteps
<1>8. ASSUME NEW c \in Consumers, Spurious(c)
      PROVE  Done
  <2>1. c \in blocked /\ blocked' = blocked \ {c} /\ UNCHANGED <<pc, _queue, _shutdown>>
    BY <1>8 DEF Spurious
  <2>2. (Pushing' <=> Pushing) /\ (Cancelling' <=> Cancelling)
    BY <2>1 DEF Pushing, Cancelling
  <2>3. absQueue' = absQueue /\ absShutdown' = absShutdown
    BY <2>1, <2>2 DEF absQueue, absShutdown
  <2>4. absAsleep' = absAsleep \/ (c \in absAsleep /\ absAsleep' = absAsleep \ {c})
    BY <2>1, <2>2 DEF absAsleep
  <2> QED BY <2>3, <2>4, AtomicSteps
<1>9. ASSUME NEW c \in Consumers, WaitFront(c) \/ PopPtr(c)
      PROVE  Done
  <2>1. /\ pc[c] \in {"wait", "pop"} /\ pc'[c] \in {"sub", "unlock"}
        /\ \A d \in Threads \ {c} : pc'[d] = pc[d] /\ UNCHANGED <<_shutdown, blocked>>
        /\ \/ _queue' = _queue
           \/ _queue # <<>> /\ ~_shutdown /\ _queue' = Tail(_queue)
    BY <1>0, <1>9, <1>a, GoesDoes, PopPtrDoes DEF WaitFront
  <2>2. ~Pushing /\ ~Pushing' /\ ~Cancelling /\ ~Cancelling'
    BY <1>0, <1>c, <2>1 DEF Pushing, Cancelling, Critical
  <2>3. UNCHANGED <<_shutdown, blocked>>
    BY <1>9, PopPtrDoes, <1>a DEF WaitFront
  <2>4. /\ absQueue = _queue /\ absQueue' = _queue' /\ absShutdown = _shutdown
        /\ absShutdown' = absShutdown /\ absAsleep' = absAsleep
    BY <2>2, <2>3, <1>a DEF absQueue, absShutdown, absAsleep, TypeOK
  <2> QED BY <2>1, <2>4, AtomicSteps
<1>10. ASSUME NEW t, CallCancel(t)
       PROVE  Done
  <2>1. /\ UNCHANGED <<_queue, _shutdown, blocked>>
        /\ \A d \in Threads \ {Handler} : pc'[d] = pc[d]
        /\ pc[Handler] = "out" /\ pc'[Handler] = "cancel?"
    BY <1>0, <1>10, <1>a, GoesDoes DEF CallCancel
  <2> QED BY <1>0, <1>a, <2>1, Stutters, AtomicSteps
<1>11. CASE DeleteAll
  <2>1. /\ pc[Handler] = "cancel" /\ pc'[Handler] = "reset" /\ _queue' = <<>>
        /\ \A d \in Threads \ {Handler} : pc'[d] = pc[d]
    BY <1>0, <1>11, <1>a, GoesDoes DEF DeleteAll
  <2>2. ~Pushing' /\ Cancelling'
    BY <1>0, <1>c, <2>1 DEF Pushing, Cancelling, Critical
  <2>3. absQueue' = <<>> /\ absShutdown' = TRUE /\ absAsleep' = {}
    BY <2>1, <2>2 DEF absQueue, absShutdown, absAsleep
  <2> QED BY <2>3, AtomicSteps
<1>12. CASE SetShutdown
  <2>1. /\ pc[Handler] = "reset" /\ pc'[Handler] = "notify_all" /\ UNCHANGED _queue
        /\ \A d \in Threads \ {Handler} : pc'[d] = pc[d]
    BY <1>0, <1>12, <1>a, GoesDoes DEF SetShutdown
  <2>2. ~Pushing /\ ~Pushing' /\ Cancelling /\ Cancelling'
    BY <1>0, <1>c, <2>1 DEF Pushing, Cancelling, Critical
  <2>3. absQueue' = absQueue /\ absShutdown' = absShutdown /\ absAsleep' = absAsleep
    BY <2>1, <2>2 DEF absQueue, absShutdown, absAsleep
  <2> QED BY <2>3, AtomicSteps
<1>13. CASE NotifyAll
  <2>1. /\ pc[Handler] = "notify_all" /\ pc'[Handler] = "unlock" /\ UNCHANGED <<_queue, _shutdown>>
        /\ blocked' = {} /\ \A d \in Threads \ {Handler} : pc'[d] = pc[d]
    BY <1>0, <1>13, <1>a, GoesDoes DEF NotifyAll
  <2>2. ~Pushing /\ ~Pushing' /\ Cancelling /\ ~Cancelling' /\ _shutdown
    BY <1>0, <1>a, <1>c, <2>1 DEF Pushing, Cancelling, Critical, Announced
  <2>3. absQueue' = absQueue /\ absShutdown' = absShutdown /\ absAsleep' = absAsleep
    BY <2>1, <2>2 DEF absQueue, absShutdown, absAsleep
  <2> QED BY <2>3, AtomicSteps
<1>14. CASE UNCHANGED vars
  BY <1>14 DEF vars, Atomic!vars, Pushing, Cancelling
<1> QED
  BY <1>1, <1>2, <1>3, <1>4, <1>5, <1>6, <1>7, <1>8, <1>9, <1>10, <1>11, <1>12, <1>13, <1>14
  DEF Next, ProducerStep, WaiterStep, ServiceStep, HandlerStep

\* producer_consumer_queue, with its mutex and its condition variable, does what the
\* atomic queue does that the scheduler is modelled over.
THEOREM Refinement ==
  ASSUME QueueLocksAssumption
  PROVE  Spec => QueueIsAtomic
<1>1. Init => Atomic!Init
  BY Kinds DEF Init, Atomic!Init, Pushing, Cancelling
<1>2. IInv /\ [Next]_vars => [Atomic!Next]_(Atomic!vars)
  BY StepRefines
<1> QED BY <1>1, <1>2, Invariance, PTL DEF Spec, QueueIsAtomic, Atomic!Spec

=============================================================================
