------------------------ MODULE SocketChannel_proofs ------------------------
(***************************************************************************)
(* Proofs about SocketChannel, for any callers and any bounds on the        *)
(* connections, requests and closes.                                        *)
(***************************************************************************)
EXTENDS SocketChannel, SequenceTheorems, NaturalsInduction, WellFoundedInduction, TLAPS

-----------------------------------------------------------------------------
(* The inductive invariant.  close and changehost come when no dispatch     *)
(* coroutine is still to start.                                             *)

Entry == [r : Requests, co : Callers]

\* x is in q once at most
Single(q, x) == \A i, j \in DOMAIN q : q[i] = x /\ q[j] = x => i = j

\* where a coroutine runs that has not given up control
Places ==
  \A c \in Callers :
    /\ at[c] \in {"enter", "connect", "done", "check", "send"} => running = c
    /\ at[c] = "send" => Usable(c)
    /\ at[c] # "response" => __result[c] = None

\* one coroutine at a time makes a connection, and the others know
OneMaker ==
  \A c \in Callers :
    /\ Maker(c) => __connecting # <<>> /\ \A d \in Callers : Maker(d) => c = d
    /\ at[c] \in Making => __authcoroutine = Nil
    /\ at[c] \in {"connect", "open", "yield"} => __sock = 0
    /\ at[c] \in {"open", "yield"} =>
         fd[c] \in Fds /\ link[fd[c]] # "none" /\ reader[fd[c]] = "none"

\* a descriptor that nobody has used, or whose connection is gone, has nothing
Unused ==
  \A t \in Fds :
    /\ t > connects => link[t] = "none"
    /\ link[t] = "none" => reader[t] = "none"
    /\ reader[t] = "none" => asked[t] = <<>> /\ arrived[t] = <<>>
    /\ link[t] = "lost" => arrived[t] = <<>>

\* the dispatch coroutine is there as long as it is known, and belongs to the connection
\* in use; what is pending is its business, and a close signal means that it must end
Dispatched ==
  /\ __dispatch_thread = 0 => pending = <<>>
  /\ \A t \in Fds :
       /\ __dispatch_thread = t => reader[t] \in {"forked", "loop", "pop", "read"}
       /\ reads[t] # NoOne <=> reader[t] = "read" /\ mode = "order"
       /\ reader[t] = "forked" =>
            __sock = t /\ \A c \in Callers : __authcoroutine = c => __result[c] = None
  /\ \A i \in DOMAIN pending : pending[i] = Signal => __sock = 0
  /\ OneReader /\ SignalEndsItsOwn

\* who has an entry waits for the answer to that request, and has one entry
Owed(e) ==
  /\ at[e.co] = "response" /\ running # e.co
  /\ __result[e.co] = None /\ request[e.co] = e.r

Entries ==
  /\ \A i \in DOMAIN pending : pending[i] # Signal => Owed(pending[i])
  /\ \A t \in Fds : reads[t] # NoOne => Owed(reads[t])
  /\ \A i, j \in DOMAIN pending : pending[i].co = pending[j].co /\ pending[i] # Signal => i = j
  /\ \A t \in Fds, i \in DOMAIN pending : reads[t] # NoOne => pending[i].co # reads[t].co

\* who waits for an answer has an entry until there is a result
Listens(c) == \/ \E t \in Fds : reads[t].co = c
              \/ \E i \in DOMAIN pending : pending[i].co = c

Asking ==
  \A c \in Callers : at[c] = "response" /\ __result[c] = None => Listens(c)

\* who is woken is so once, and finds what it was waiting for
Ready(c) ==
  /\ running # c
  /\ \/ at[c] = "open" /\ link[fd[c]] # "new"
     \/ at[c] = "connecting" /\ c \notin Range(__connecting)
     \/ at[c] = "response" /\ __result[c] # None

Woken ==
  \A c \in Callers :
    /\ c \in Range(wakeup_queue) => Ready(c)
    /\ Single(wakeup_queue, c)
    /\ at[c] = "response" /\ running # c /\ __result[c] # None => c \in Range(wakeup_queue)

\* __connecting has those who wait, once
Listed ==
  /\ \A c \in Callers : at[c] = "connecting" /\ running # c =>
       c \in Range(__connecting) \cup Range(wakeup_queue)
  /\ \A c \in Callers :
       c \in Range(__connecting) => at[c] = "connecting" /\ running # c
  /\ \A c \in Callers : Single(__connecting, c)

\* who makes the connection does so until the list is empty, or has abandoned it
Kept == ~abandoned => MakerWorks

\* a result is the answer to the request of who has it
Results ==
  \A c \in Callers : __result[c].kind \in {"answer", "refusal"} => __result[c].r = request[c]

\* By order: the requests whose answers have arrived or are on their way are, from the
\* first on, those for which the dispatch coroutine has an entry.
Behind(t)      == IF reads[t] = NoOne THEN 0 ELSE 1
EntryAt(t, i)  == IF i <= Behind(t) THEN reads[t].r ELSE pending[i - Behind(t)].r
Coming(t)      == Len(arrived[t]) + Len(asked[t])
AnswerAt(t, i) == IF i <= Len(arrived[t]) THEN arrived[t][i].r ELSE asked[t][i - Len(arrived[t])]

InOrder ==
  \A t \in Fds : mode = "order" /\ t = __dispatch_thread /\ link[t] # "lost" =>
    /\ Coming(t) <= Len(pending) + Behind(t)
    /\ __sock # 0 => Coming(t) = Len(pending) + Behind(t)
    /\ \A i \in 1 .. Coming(t) : AnswerAt(t, i) = EntryAt(t, i)

Apart == Places /\ OneMaker /\ Unused
Owing == Dispatched /\ Entries /\ Asking /\ Results
Told  == Woken /\ Listed /\ Kept

IInv == TypeOK /\ Apart /\ Owing /\ Told /\ InOrder /\ AuthFirst

-----------------------------------------------------------------------------
(* Only keeps the elements of a sequence that are in a set.                 *)

\* A set of numbers that is not empty has a least one.
LEMMA LeastOf ==
  ASSUME NEW B, B \subseteq Nat, B # {}
  PROVE  \E n \in B : \A m \in B : n <= m
<1> DEFINE R == OpToRel(<, Nat)
<1>1. PICK n \in B : \A m \in B : ~(<<m, n>> \in R)
  BY NatLessThanWellFounded, WFMin
<1>2. \A m \in B : ~(m < n)
  BY <1>1 DEF OpToRel
<1> QED BY <1>2

\* f collects the elements of s up to n that are in S
Collects(f, s, S, n) ==
  \A i \in 0 .. n :
    f[i] = IF i = 0 THEN <<>> ELSE IF s[i] \in S THEN Append(f[i - 1], s[i]) ELSE f[i - 1]

\* The function that Only is defined by exists.
LEMMA OnlyIs ==
  ASSUME NEW T, NEW s \in Seq(T), NEW S
  PROVE  \E f : Collects(f, s, S, Len(s)) /\ Only(s, S) = f[Len(s)]
<1> DEFINE Next1(f, i) == IF i = 0 THEN <<>>
                          ELSE IF s[i] \in S THEN Append(f[i - 1], s[i]) ELSE f[i - 1]
           Good(n) == \E f : f = [i \in 0 .. n |-> Next1(f, i)]
<1>0. Len(s) \in Nat
  OBVIOUS
<1>1. \A n \in Nat : Good(n)
  <2> SUFFICES ASSUME {n \in Nat : ~Good(n)} # {} PROVE FALSE
    OBVIOUS
  <2>1. PICK n \in Nat : ~Good(n) /\ \A m \in Nat : ~Good(m) => n <= m
    <3> DEFINE B == {n \in Nat : ~Good(n)}
    <3>1. B \subseteq Nat /\ B # {}
      OBVIOUS
    <3> HIDE DEF B
    <3>2. PICK n \in B : \A m \in B : n <= m
      BY <3>1, LeastOf
    <3> QED BY <3>2 DEF B
  <2>2. CASE n = 0
    <3> DEFINE f == [i \in 0 .. 0 |-> <<>>]
    <3>1. f = [i \in 0 .. 0 |-> Next1(f, i)]
      OBVIOUS
    <3> QED BY <3>1, <2>1, <2>2
  <2>3. CASE n # 0
    <3>1. n - 1 \in Nat /\ Good(n - 1)
      <4>1. n - 1 \in Nat /\ ~(n <= n - 1)
        BY <2>1, <2>3
      <4>2. \A m \in Nat : ~Good(m) => n <= m
        BY <2>1
      <4> HIDE DEF Good
      <4> QED BY <4>1, <4>2
    <3>2. PICK f : f = [i \in 0 .. (n - 1) |-> Next1(f, i)]
      BY <3>1
    <3> DEFINE g == [i \in 0 .. n |-> IF i < n THEN f[i] ELSE Next1(f, n)]
    <3>3. \A i \in 0 .. (n - 1) : g[i] = f[i]
      BY <2>3
    <3>4. \A i \in 0 .. n : g[i] = Next1(g, i)
      <4> SUFFICES ASSUME NEW i \in 0 .. n PROVE g[i] = Next1(g, i)
        OBVIOUS
      <4>1. i # 0 => i - 1 \in 0 .. (n - 1)
        BY <2>1
      <4>2. i # 0 => g[i - 1] = f[i - 1]
        BY <4>1, <3>3
      <4>3. Next1(g, i) = Next1(f, i)
        BY <4>2
      <4>4. i < n => i \in 0 .. (n - 1)
        BY <2>1
      <4>5. i < n => f[i] = Next1(f, i)
        BY <4>4, <3>2
      <4>6. ~(i < n) => i = n
        BY <2>1
      <4> QED BY <4>3, <4>5, <4>6
    <3>5. g = [i \in 0 .. n |-> Next1(g, i)]
      BY <3>4
    <3> HIDE DEF g
    <3> QED BY <3>5, <2>1
  <2> QED BY <2>2, <2>3
<1> DEFINE F == CHOOSE f : f = [i \in 0 .. Len(s) |-> Next1(f, i)]
<1>2. Only(s, S) = F[Len(s)]
  BY DEF Only
<1>3. F = [i \in 0 .. Len(s) |-> Next1(F, i)]
  <2> HIDE DEF Next1
  <2> QED BY <1>0, <1>1
<1> HIDE DEF F
<1>4. Collects(F, s, S, Len(s))
  BY <1>3 DEF Collects
<1> QED BY <1>2, <1>4

\* What is collected of the first n elements.
CollectedOf(q, s, S, n) ==
  /\ q \in Seq(S)
  /\ \A i \in 1 .. Len(q) : \E j \in 1 .. n : q[i] = s[j]
  /\ \A j \in 1 .. n : s[j] \in S => \E i \in 1 .. Len(q) : q[i] = s[j]
  /\ \A x : (\A i, j \in 1 .. n : s[i] = x /\ s[j] = x => i = j)
              => \A i, j \in 1 .. Len(q) : q[i] = x /\ q[j] = x => i = j
  /\ (\A j \in 1 .. n : s[j] \in S) => Len(q) = n /\ \A j \in 1 .. n : q[j] = s[j]

\* One element more is collected or passed over.
LEMMA CollectsMore ==
  ASSUME NEW q, NEW s, NEW S, NEW n \in Nat, CollectedOf(q, s, S, n)
  PROVE  CollectedOf(IF s[n + 1] \in S THEN Append(q, s[n + 1]) ELSE q, s, S, n + 1)
<1> USE DEF CollectedOf
<1>1. CASE s[n + 1] \notin S
  <2>1. \A j \in 1 .. (n + 1) : s[j] \in S => j \in 1 .. n
    BY <1>1
  <2>2. n + 1 \in 1 .. (n + 1) /\ 1 .. n \subseteq 1 .. (n + 1)
    OBVIOUS
  <2>3. ASSUME NEW x, \A i, j \in 1 .. (n + 1) : s[i] = x /\ s[j] = x => i = j
        PROVE  \A i, j \in 1 .. Len(q) : q[i] = x /\ q[j] = x => i = j
    <3>1. \A i, j \in 1 .. n : s[i] = x /\ s[j] = x => i = j
      BY <2>3, <2>2
    <3> QED BY <3>1
  <2>4. ~ \A j \in 1 .. (n + 1) : s[j] \in S
    BY <1>1, <2>2
  <2>5. \A i \in 1 .. Len(q) : \E j \in 1 .. (n + 1) : q[i] = s[j]
    BY <2>2
  <2>6. \A j \in 1 .. (n + 1) : s[j] \in S => \E i \in 1 .. Len(q) : q[i] = s[j]
    BY <2>1
  <2>7. CollectedOf(q, s, S, n + 1)
    BY <2>3, <2>4, <2>5, <2>6
  <2> QED BY <1>1, <2>7
<1>2. CASE s[n + 1] \in S
  <2> DEFINE p == Append(q, s[n + 1])
  <2>1. /\ p \in Seq(S) /\ Len(p) = Len(q) + 1 /\ Len(q) \in Nat
        /\ \A i \in 1 .. Len(q) : p[i] = q[i]
        /\ p[Len(q) + 1] = s[n + 1]
    BY <1>2, AppendProperties
  <2> HIDE DEF p
  <2>2. \A i \in 1 .. Len(p) : i \in 1 .. Len(q) \/ i = Len(q) + 1
    BY <2>1
  <2>3. \A i \in 1 .. (n + 1) : i \in 1 .. n \/ i = n + 1
    OBVIOUS
  <2>4. /\ n + 1 \in 1 .. (n + 1) /\ 1 .. n \subseteq 1 .. (n + 1)
        /\ Len(q) + 1 \in 1 .. Len(p) /\ 1 .. Len(q) \subseteq 1 .. Len(p)
    BY <2>1
  <2>5. \A i \in 1 .. Len(p) : \E j \in 1 .. (n + 1) : p[i] = s[j]
    BY <2>1, <2>2, <2>4
  <2>6. \A j \in 1 .. (n + 1) : s[j] \in S => \E i \in 1 .. Len(p) : p[i] = s[j]
    BY <2>1, <2>3, <2>4
  <2>7. ASSUME NEW x, \A i, j \in 1 .. (n + 1) : s[i] = x /\ s[j] = x => i = j,
               NEW i \in 1 .. Len(p), NEW j \in 1 .. Len(p), p[i] = x, p[j] = x
        PROVE  i = j
    <3>0. \A k, l \in 1 .. n : s[k] = x /\ s[l] = x => k = l
      BY <2>7, <2>4
    <3>4. \A k, l \in 1 .. Len(q) : q[k] = x /\ q[l] = x => k = l
      BY <3>0
    <3>1. i \in 1 .. Len(q) /\ j \in 1 .. Len(q) => i = j
      <4> HIDE DEF CollectedOf
      <4> QED BY <3>4, <2>7, <2>1
    <3>2. \A k \in 1 .. Len(q) : q[k] = x => s[n + 1] # x
      <4> SUFFICES ASSUME NEW k \in 1 .. Len(q), q[k] = x, s[n + 1] = x PROVE FALSE
        OBVIOUS
      <4>1. PICK m \in 1 .. n : s[m] = x
        OBVIOUS
      <4>2. m \in 1 .. (n + 1) /\ m # n + 1
        OBVIOUS
      <4> QED BY <4>1, <4>2, <2>4, <2>7
    <3> QED BY <3>1, <3>2, <2>1, <2>2, <2>7
  <2>8. ASSUME \A j \in 1 .. (n + 1) : s[j] \in S
        PROVE  Len(p) = n + 1 /\ \A j \in 1 .. (n + 1) : p[j] = s[j]
    <3>1. Len(q) = n /\ \A j \in 1 .. n : q[j] = s[j]
      BY <2>8, <2>4
    <3> QED BY <3>1, <2>1, <2>3
  <2>9. CollectedOf(p, s, S, n + 1)
    BY <2>1, <2>5, <2>6, <2>7, <2>8
  <2>10. p = IF s[n + 1] \in S THEN Append(q, s[n + 1]) ELSE q
    BY <1>2 DEF p
  <2> HIDE DEF CollectedOf
  <2> QED BY <2>9, <2>10
<1> QED BY <1>1, <1>2

\* Only(s, S) has the elements of s that are in S, each as often as s has it at most once,
\* and is s when all are.
LEMMA OnlyDoes ==
  ASSUME NEW T, NEW s \in Seq(T), NEW S
  PROVE  CollectedOf(Only(s, S), s, S, Len(s))
<1>1. PICK f : Collects(f, s, S, Len(s)) /\ Only(s, S) = f[Len(s)]
  BY OnlyIs
<1> DEFINE Bad == {n \in 0 .. Len(s) : ~CollectedOf(f[n], s, S, n)}
<1>0. Len(s) \in Nat
  OBVIOUS
<1>2. ASSUME Bad # {} PROVE FALSE
  <2>1. Bad \subseteq Nat
    OBVIOUS
  <2>2. PICK n \in Bad : \A m \in Bad : n <= m
    BY <1>2, <2>1, LeastOf
  <2>3. f[n] = IF n = 0 THEN <<>> ELSE IF s[n] \in S THEN Append(f[n - 1], s[n]) ELSE f[n - 1]
    BY <1>1 DEF Collects
  <2>4. n # 0
    <3> SUFFICES ASSUME n = 0 PROVE FALSE
      OBVIOUS
    <3>1. CollectedOf(<<>>, s, S, 0)
      BY DEF CollectedOf
    <3> QED BY <3>1, <2>3
  <2>5. n - 1 \in Nat /\ n - 1 \in 0 .. Len(s) /\ (n - 1) + 1 = n /\ ~(n <= n - 1)
    BY <2>4
  <2>6. CollectedOf(f[n - 1], s, S, n - 1)
    BY <2>5, <2>2
  <2>7. CollectedOf(f[n], s, S, n)
    <3> DEFINE k == n - 1
    <3>1. k \in Nat /\ k + 1 = n /\ CollectedOf(f[k], s, S, k)
      BY <2>5, <2>6
    <3>2. f[n] = IF s[k + 1] \in S THEN Append(f[k], s[k + 1]) ELSE f[k]
      BY <3>1, <2>3, <2>4
    <3> HIDE DEF k
    <3>3. CollectedOf(f[n], s, S, k + 1)
      BY <3>1, <3>2, CollectsMore
    <3> QED BY <3>1, <3>3
  <2> QED BY <2>7
<1>3. Len(s) \notin Bad
  BY <1>2
<1> QED BY <1>1, <1>0, <1>3

-----------------------------------------------------------------------------
(* The operators of the model.                                             *)

\* Callers, descriptors, 0 and Nil are different, and Signal is no entry.
LEMMA Kinds ==
  ASSUME SocketChannelAssumption
  PROVE  /\ Callers \cap Fds = {} /\ 0 \notin Callers /\ 0 \notin Fds /\ Nil \notin Callers
         /\ Fds \subseteq Nat /\ Requests \subseteq Nat /\ 0 \notin Requests
         /\ \A e \in Entry : e.co \in Callers /\ e.r \in Requests /\ e # Signal
         /\ Signal.co = Nil /\ Signal.r = 0 /\ Busy = 0 /\ Busy \notin Callers
BY DEF SocketChannelAssumption, Fds, Requests, Entry, Signal, Busy

\* A coroutine that goes somewhere.
LEMMA GoesDoes ==
  ASSUME TypeOK, NEW c \in Callers, NEW place, Goes(c, place)
  PROVE  at'[c] = place /\ \A d \in Callers \ {c} : at'[d] = at[d]
BY DEF Goes, TypeOK

\* A coroutine whose call has ended.
LEMMA EndedDoes ==
  ASSUME TypeOK, NEW c \in Callers, Ended(c)
  PROVE  /\ at'[c] = "idle" /\ request'[c] = 0 /\ UNCHANGED running
         /\ \A d \in Callers \ {c} : at'[d] = at[d] /\ request'[d] = request[d] /\ fd'[d] = fd[d]
BY DEF Ended, Goes, TypeOK

\* Its types.
LEMMA EndedTypes ==
  ASSUME TypeOK, NEW c \in Callers, Ended(c)
  PROVE  /\ at' \in [Callers -> {"idle", "enter", "connect", "open", "yield", "done",
                                 "connecting", "check", "send", "response"}]
         /\ task' \in [Callers -> {"none", "connect", "request", "response"}]
         /\ request' \in [Callers -> Requests \cup {0}] /\ fd' \in [Callers -> Fds \cup {0}]
BY DEF Ended, Goes, TypeOK

\* The tokens of wakeup_queue, and what they name.
Tokens == Callers \cup Fds

\* Waking some tokens appends those that sleep, each as often as it is named.
LEMMA WakeDoes ==
  ASSUME wakeup_queue \in Seq(Tokens), NEW tokens \in Seq(Tokens), Wake(tokens)
  PROVE  /\ wakeup_queue' \in Seq(Tokens)
         /\ \A k : k \in Range(wakeup_queue') <=>
                     k \in Range(wakeup_queue) \/ (k \in Range(tokens) /\ Sleeping(k))
         /\ \A k : Single(wakeup_queue, k) /\ Single(tokens, k)
                   /\ ~(k \in Range(wakeup_queue) /\ k \in Range(tokens) /\ Sleeping(k))
                     => Single(wakeup_queue', k)
<1> DEFINE S == {k \in Range(tokens) : Sleeping(k)}
           q == Only(tokens, S)
<1>1. CollectedOf(q, tokens, S, Len(tokens))
  BY OnlyDoes
<1>2. S \subseteq Tokens
  BY RangeOfSeq
<1>3. q \in Seq(S) /\ q \in Seq(Tokens)
  <2>1. q \in Seq(S)
    BY <1>1 DEF CollectedOf
  <2> HIDE DEF q, S
  <2> QED BY <2>1, <1>2, SeqMonotonic
<1>4. wakeup_queue' = wakeup_queue \o q
  BY DEF Wake
<1>5. \A i \in 1 .. Len(q) : q[i] \in S
  <2> HIDE DEF q, S
  <2> QED BY <1>3, ElementOfSeq
<1>6. \A k \in S : \E i \in 1 .. Len(q) : q[i] = k
  <2>1. \A k \in S : \E j \in 1 .. Len(tokens) : tokens[j] = k
    BY DEF Range
  <2>2. \A j \in 1 .. Len(tokens) : tokens[j] \in S => \E i \in 1 .. Len(q) : q[i] = tokens[j]
    BY <1>1 DEF CollectedOf
  <2> HIDE DEF q, S
  <2> QED BY <2>1, <2>2
<1>7. ASSUME NEW k, Single(tokens, k) PROVE \A i, j \in 1 .. Len(q) : q[i] = k /\ q[j] = k => i = j
  <2>1. \A i, j \in 1 .. Len(tokens) : tokens[i] = k /\ tokens[j] = k => i = j
    BY <1>7 DEF Single
  <2> HIDE DEF q, S
  <2> QED BY <2>1, <1>1 DEF CollectedOf
<1>8. \A k : k \in S <=> k \in Range(tokens) /\ Sleeping(k)
  OBVIOUS
<1> HIDE DEF S, q
<1> DEFINE m == Len(wakeup_queue)
           w == wakeup_queue \o q
<1>9. /\ w \in Seq(Tokens) /\ Len(w) = m + Len(q) /\ m \in Nat /\ Len(q) \in Nat
      /\ \A i \in 1 .. m + Len(q) : w[i] = IF i <= m THEN wakeup_queue[i] ELSE q[i - m]
  BY <1>3, ConcatProperties
<1>10. DOMAIN w = 1 .. m + Len(q) /\ DOMAIN wakeup_queue = 1 .. m
  BY <1>9
<1> HIDE DEF w, m
<1>11. /\ \A i \in 1 .. m : i \in 1 .. m + Len(q) /\ w[i] = wakeup_queue[i]
       /\ \A i \in 1 .. Len(q) : i + m \in 1 .. m + Len(q) /\ w[i + m] = q[i]
       /\ \A i \in 1 .. m + Len(q) : i \in 1 .. m \/ (i - m \in 1 .. Len(q) /\ w[i] = q[i - m])
  BY <1>9
<1>12. \A k : k \in Range(w) <=> k \in Range(wakeup_queue) \/ k \in S
  <2> SUFFICES ASSUME NEW k
               PROVE  k \in Range(w) <=> k \in Range(wakeup_queue) \/ k \in S
    OBVIOUS
  <2>1. k \in Range(w) <=> \E i \in 1 .. m + Len(q) : w[i] = k
    BY <1>10 DEF Range
  <2>2. k \in Range(wakeup_queue) <=> \E i \in 1 .. m : wakeup_queue[i] = k
    BY <1>10 DEF Range
  <2>3. k \in S <=> \E i \in 1 .. Len(q) : q[i] = k
    BY <1>5, <1>6
  <2>4. k \in Range(w) => k \in Range(wakeup_queue) \/ k \in S
    BY <2>1, <2>2, <2>3, <1>11
  <2>5. k \in Range(wakeup_queue) => k \in Range(w)
    BY <2>1, <2>2, <1>11
  <2>6. k \in S => k \in Range(w)
    BY <2>1, <2>3, <1>11
  <2> QED BY <2>4, <2>5, <2>6
<1>13. ASSUME NEW k, Single(wakeup_queue, k), Single(tokens, k), ~(k \in Range(wakeup_queue) /\ k \in S)
       PROVE  Single(w, k)
  <2> SUFFICES ASSUME NEW i \in 1 .. m + Len(q), NEW j \in 1 .. m + Len(q), w[i] = k, w[j] = k
               PROVE  i = j
    BY <1>10 DEF Single
  <2>1. CASE k \notin S
    <3>1. i \in 1 .. m /\ j \in 1 .. m
      BY <2>1, <1>5, <1>11
    <3> QED BY <3>1, <1>10, <1>11, <1>13 DEF Single
  <2>2. CASE k \notin Range(wakeup_queue)
    <3>1. i \notin 1 .. m /\ j \notin 1 .. m
      BY <2>2, <1>10, <1>11 DEF Range
    <3>2. /\ i - m \in 1 .. Len(q) /\ j - m \in 1 .. Len(q)
          /\ q[i - m] = k /\ q[j - m] = k
      BY <3>1, <1>11
    <3>3. i - m = j - m
      BY <3>2, <1>7, <1>13
    <3> QED BY <3>3, <1>9
  <2> QED BY <2>1, <2>2, <1>13
<1>14. wakeup_queue' = w
  BY <1>4 DEF w
<1> QED BY <1>8, <1>9, <1>12, <1>13, <1>14

\* The callers that some entries name.
LEMMA CallersOfIs ==
  ASSUME SocketChannelAssumption, NEW q \in Seq(Entry \cup {Signal})
  PROVE  /\ CallersOf(q) \in Seq(Callers)
         /\ \A c \in Callers : c \in Range(CallersOf(q)) <=> \E i \in DOMAIN q : q[i].co = c
         /\ \A c \in Callers : (\A i, j \in DOMAIN q : q[i].co = c /\ q[j].co = c => i = j)
                                 => Single(CallersOf(q), c)
<1> DEFINE n == Len(q)
           s == [i \in DOMAIN q |-> q[i].co]
<1>1. n \in Nat /\ DOMAIN q = 1 .. n /\ \A i \in 1 .. n : q[i] \in Entry \cup {Signal}
  BY LenProperties, ElementOfSeq
<1>2. \A i \in 1 .. n : q[i].co \in Callers \cup {Nil}
  BY <1>1, Kinds
<1>3. s \in Seq(Callers \cup {Nil}) /\ Len(s) = n /\ \A i \in 1 .. n : s[i] = q[i].co
  BY <1>1, <1>2
<1> DEFINE p == Only(s, Callers)
<1>4. CollectedOf(p, s, Callers, n)
  <2> HIDE DEF s
  <2> QED BY <1>3, OnlyDoes
<1>5. CallersOf(q) = p
  BY DEF CallersOf
<1> HIDE DEF s, p, n
<1>6. p \in Seq(Callers) /\ DOMAIN p = 1 .. Len(p)
  BY <1>4 DEF CollectedOf
<1>7. ASSUME NEW c \in Callers PROVE c \in Range(p) <=> \E i \in DOMAIN q : q[i].co = c
  <2>1. c \in Range(p) <=> \E i \in 1 .. Len(p) : p[i] = c
    BY <1>6 DEF Range
  <2>2. \A i \in 1 .. Len(p) : \E j \in 1 .. n : p[i] = s[j]
    BY <1>4 DEF CollectedOf
  <2>3. \A j \in 1 .. n : s[j] \in Callers => \E i \in 1 .. Len(p) : p[i] = s[j]
    BY <1>4 DEF CollectedOf
  <2>4. \A j \in 1 .. n : s[j] = c <=> q[j].co = c
    BY <1>3
  <2>5. c \in Range(p) => \E j \in 1 .. n : s[j] = c
    BY <2>1, <2>2
  <2>6. (\E j \in 1 .. n : s[j] = c) => c \in Range(p)
    BY <2>1, <2>3
  <2> QED BY <2>4, <2>5, <2>6, <1>1
<1>8. ASSUME NEW c \in Callers, \A i, j \in DOMAIN q : q[i].co = c /\ q[j].co = c => i = j
      PROVE  Single(p, c)
  <2>1. \A i, j \in 1 .. n : s[i] = c /\ s[j] = c => i = j
    BY <1>1, <1>3, <1>8
  <2>2. \A i, j \in 1 .. Len(p) : p[i] = c /\ p[j] = c => i = j
    BY <2>1, <1>4 DEF CollectedOf
  <2> QED BY <2>2, <1>6 DEF Single
<1> QED BY <1>5, <1>6, <1>7, <1>8

\* What is left pending without an entry.
LEMMA LeftIs ==
  ASSUME pending \in Seq(Entry \cup {Signal}), NEW e
  PROVE  /\ Left(e) \in Seq(Entry \cup {Signal})
         /\ \A i \in DOMAIN Left(e) : \E j \in DOMAIN pending : Left(e)[i] = pending[j] /\ pending[j] # e
         /\ \A j \in DOMAIN pending : pending[j] # e => \E i \in DOMAIN Left(e) : Left(e)[i] = pending[j]
         /\ \A x : Single(pending, x) => Single(Left(e), x)
         /\ e \notin Range(pending) => Left(e) = pending
<1> DEFINE S == Range(pending) \ {e}
           p == Only(pending, S)
           n == Len(pending)
<1>1. CollectedOf(p, pending, S, n)
  BY OnlyDoes
<1>2. n \in Nat /\ DOMAIN pending = 1 .. n /\ \A i \in 1 .. n : pending[i] \in S <=> pending[i] # e
  BY DEF Range
<1>3. S \subseteq Entry \cup {Signal}
  BY RangeOfSeq
<1>4. Left(e) = p
  BY DEF Left
<1>5. e \notin Range(pending) => \A i \in 1 .. n : pending[i] \in S
  BY DEF Range
<1> HIDE DEF S, p, n
<1>6. p \in Seq(S) /\ DOMAIN p = 1 .. Len(p) /\ \A i \in 1 .. Len(p) : p[i] \in S
  BY <1>1, ElementOfSeq DEF CollectedOf
<1>7. p \in Seq(Entry \cup {Signal})
  BY <1>3, <1>6, SeqMonotonic
<1>8. \A i \in DOMAIN p : \E j \in DOMAIN pending : p[i] = pending[j] /\ pending[j] # e
  <2>1. \A i \in 1 .. Len(p) : \E j \in 1 .. n : p[i] = pending[j]
    BY <1>1 DEF CollectedOf
  <2> QED BY <2>1, <1>2, <1>6
<1>9. \A j \in DOMAIN pending : pending[j] # e => \E i \in DOMAIN p : p[i] = pending[j]
  <2>1. \A j \in 1 .. n : pending[j] \in S => \E i \in 1 .. Len(p) : p[i] = pending[j]
    BY <1>1 DEF CollectedOf
  <2> QED BY <2>1, <1>2, <1>6
<1>10. ASSUME NEW x, Single(pending, x) PROVE Single(p, x)
  <2>1. \A i, j \in 1 .. n : pending[i] = x /\ pending[j] = x => i = j
    BY <1>2, <1>10 DEF Single
  <2>2. \A i, j \in 1 .. Len(p) : p[i] = x /\ p[j] = x => i = j
    BY <2>1, <1>1 DEF CollectedOf
  <2> QED BY <2>2, <1>6 DEF Single
<1>11. ASSUME e \notin Range(pending) PROVE p = pending
  <2>1. Len(p) = n /\ \A i \in 1 .. n : p[i] = pending[i]
    BY <1>1, <1>5, <1>11 DEF CollectedOf
  <2>2. n = Len(pending)
    BY DEF n
  <2> QED BY <2>1, <2>2, <1>7, SeqEqual
<1> QED BY <1>4, <1>7, <1>8, <1>9, <1>10, <1>11

\* wakeup_queue grows by the callers among some tokens that sleep.
Wakes(tokens) ==
  /\ wakeup_queue' \in Seq(Tokens)
  /\ \A c \in Callers :
       /\ c \in Range(wakeup_queue') <=>
            c \in Range(wakeup_queue) \/ (c \in Range(tokens) /\ Sleeping(c))
       /\ Single(wakeup_queue, c) /\ Single(tokens, c)
          /\ ~(c \in Range(wakeup_queue) /\ c \in Range(tokens) /\ Sleeping(c))
            => Single(wakeup_queue', c)

\* Nobody is woken.
LEMMA WakesNobody ==
  ASSUME wakeup_queue \in Seq(Tokens), UNCHANGED wakeup_queue, NEW tokens,
         \A c \in Callers : c \notin Range(tokens)
  PROVE  Wakes(tokens)
BY DEF Wakes, Single

\* Those who are told are woken, with the dispatch coroutine or without.
LEMMA WakeTokens ==
  ASSUME SocketChannelAssumption, TypeOK, NEW tokens \in Seq(Callers),
         Wake(tokens) \/ Wake(WaitWake \o tokens)
  PROVE  Wakes(tokens)
<1>1. wakeup_queue \in Seq(Tokens) /\ __wait_response \in Fds \cup {0}
  BY DEF TypeOK, Tokens
<1>2. tokens \in Seq(Tokens)
  BY SeqMonotonic DEF Tokens
<1>3. CASE Wake(tokens)
  BY <1>1, <1>2, <1>3, WakeDoes DEF Wakes
<1>4. CASE Wake(WaitWake \o tokens)
  <2>1. CASE __wait_response = 0
    <3>1. WaitWake \o tokens = tokens
      BY <2>1, <1>2, ConcatEmptySeq DEF WaitWake
    <3> QED BY <3>1, <1>4, <1>3
  <2>2. CASE __wait_response # 0
    <3> DEFINE one == <<__wait_response>>
               all == one \o tokens
    <3>1. one \in Seq(Tokens) /\ Len(one) = 1 /\ one[1] = __wait_response
      BY <1>1, <2>2 DEF Tokens
    <3>5. Range(one) = {__wait_response}
      BY DEF Range
    <3>10. all = WaitWake \o tokens
      BY <2>2 DEF WaitWake
    <3> HIDE DEF one
    <3>11. Len(tokens) \in Nat
      OBVIOUS
    <3>12. all \in Seq(Tokens) /\ Range(all) = Range(one) \cup Range(tokens)
      BY <3>1, <1>2, ConcatProperties, RangeConcatenation
    <3>13. Len(all) = 1 + Len(tokens)
           /\ \A i \in 1 .. 1 + Len(tokens) : all[i] = IF i <= 1 THEN one[i] ELSE tokens[i - 1]
      BY <3>1, <1>2, ConcatProperties
    <3>2. all \in Seq(Tokens) /\ Range(all) = Range(one) \cup Range(tokens)
          /\ Len(all) = 1 + Len(tokens) /\ Len(tokens) \in Nat
          /\ \A i \in 1 .. 1 + Len(tokens) : all[i] = IF i <= 1 THEN __wait_response ELSE tokens[i - 1]
      <4>1. \A i \in 1 .. 1 + Len(tokens) : i <= 1 => i = 1
        BY <3>11
      <4> QED BY <3>1, <3>11, <3>12, <3>13, <4>1
    <3>3. Wake(all)
      BY <1>4, <3>10
    <3>4. DOMAIN all = 1 .. 1 + Len(tokens) /\ DOMAIN tokens = 1 .. Len(tokens)
      BY <3>2
    <3> HIDE DEF all
    <3>6. \A c \in Callers : c # __wait_response
      BY <1>1, Kinds
    <3>7. \A c \in Callers : c \in Range(all) <=> c \in Range(tokens)
      BY <3>2, <3>5, <3>6
    <3>8. ASSUME NEW c \in Callers, Single(tokens, c) PROVE Single(all, c)
      <4> SUFFICES ASSUME NEW i \in 1 .. 1 + Len(tokens), NEW j \in 1 .. 1 + Len(tokens),
                          all[i] = c, all[j] = c
                   PROVE  i = j
        BY <3>4 DEF Single
      <4>1. i # 1 /\ j # 1
        BY <3>2, <3>6
      <4>2. i - 1 \in 1 .. Len(tokens) /\ j - 1 \in 1 .. Len(tokens)
            /\ tokens[i - 1] = c /\ tokens[j - 1] = c
        BY <4>1, <3>2
      <4>3. i - 1 = j - 1
        BY <4>2, <3>4, <3>8 DEF Single
      <4> QED BY <4>3, <3>2
    <3>9. /\ wakeup_queue' \in Seq(Tokens)
          /\ \A k : k \in Range(wakeup_queue') <=>
                      k \in Range(wakeup_queue) \/ (k \in Range(all) /\ Sleeping(k))
          /\ \A k : Single(wakeup_queue, k) /\ Single(all, k)
                    /\ ~(k \in Range(wakeup_queue) /\ k \in Range(all) /\ Sleeping(k))
                      => Single(wakeup_queue', k)
      BY <1>1, <3>2, <3>3, WakeDoes
    <3> QED BY <3>7, <3>8, <3>9 DEF Wakes
  <2> QED BY <2>1, <2>2
<1> QED BY <1>3, <1>4

\* Waking the dispatch coroutine wakes no caller.
LEMMA WakeDispatch ==
  ASSUME SocketChannelAssumption, TypeOK, Wake(WaitWake)
  PROVE  Wakes(<<>>)
<1>1. WaitWake \in Seq(Fds)
  BY DEF TypeOK, WaitWake
<1>2. <<>> \in Seq(Callers) /\ WaitWake \o <<>> = WaitWake
  BY <1>1, ConcatEmptySeq
<1> QED BY <1>2, WakeTokens

\* The socket is closed.
LEMMA CloseDoes ==
  ASSUME SocketChannelAssumption, TypeOK, NEW others \in Seq(Callers), CloseSocket(others)
  PROVE  __sock' = 0 /\ __wait_response' \in Fds \cup {0} /\ Wakes(others)
<1>1. __sock' = 0 /\ __wait_response' \in Fds \cup {0}
  BY DEF CloseSocket, TypeOK
<1>2. Wake(others) \/ Wake(WaitWake \o others)
  BY DEF CloseSocket
<1> QED BY <1>1, <1>2, WakeTokens

\* An entry is pending.
LEMMA PushDoes ==
  ASSUME SocketChannelAssumption, TypeOK, NEW entry, push_response(entry)
  PROVE  pending' = Append(pending, entry) /\ __wait_response' \in Fds \cup {0} /\ Wakes(<<>>)
<1>1. pending' = Append(pending, entry) /\ __wait_response' \in Fds \cup {0}
  BY DEF push_response, TypeOK
<1>2. CASE Wake(WaitWake)
  BY <1>1, <1>2, WakeDispatch
<1>3. CASE UNCHANGED wakeup_queue
  <2>1. wakeup_queue \in Seq(Tokens) /\ \A c \in Callers : c \notin Range(<<>>)
    BY DEF TypeOK, Tokens, Range
  <2> QED BY <1>1, <2>1, <1>3, WakesNobody
<1> QED BY <1>1, <1>2, <1>3 DEF push_response

\* Nothing is woken.
LEMMA NoWake ==
  ASSUME TypeOK, UNCHANGED wakeup_queue
  PROVE  Wakes(<<>>)
<1>1. wakeup_queue \in Seq(Tokens) /\ \A c \in Callers : c \notin Range(<<>>)
  BY DEF TypeOK, Tokens, Range
<1> QED BY <1>1, WakesNobody

\* An error ends the call, and with it __auth and its socket.
LEMMA RaiseDoes ==
  ASSUME SocketChannelAssumption, TypeOK, NEW c \in Callers, Raise(c)
  PROVE  /\ Ended(c) /\ __wait_response' \in Fds \cup {0} /\ Wakes(<<>>)
         /\ \/ __authcoroutine = c /\ __authcoroutine' = Nil /\ __sock' = 0
            \/ __authcoroutine # c /\ UNCHANGED <<__authcoroutine, __sock>>
<1>1. CASE Authenticating(c)
  <2>1. Ended(c) /\ __authcoroutine' = Nil /\ CloseSocket(<<>>)
    BY <1>1 DEF Raise
  <2>2. <<>> \in Seq(Callers)
    OBVIOUS
  <2> QED BY <1>1, <2>1, <2>2, CloseDoes DEF Authenticating
<1>2. CASE ~Authenticating(c)
  <2>1. Ended(c) /\ UNCHANGED <<__authcoroutine, __sock, __wait_response, wakeup_queue>>
    BY <1>2 DEF Raise
  <2>2. __wait_response' \in Fds \cup {0}
    BY <2>1 DEF TypeOK
  <2> QED BY <1>2, <2>1, <2>2, NoWake DEF Authenticating
<1> QED BY <1>1, <1>2

\* The end of a dispatch coroutine tells those who are left.
LEMMA EndDispatchDoes ==
  ASSUME SocketChannelAssumption, TypeOK, NEW t \in Fds, NEW told, NEW result, NEW kind,
         NEW q \in Seq(Entry \cup {Signal}), EndDispatch(t, told, result, q, kind)
  PROVE  /\ reader'[t] = "ended" /\ reads'[t] = NoOne /\ __dispatch_thread' = 0
         /\ running' = 0 /\ pending' = <<>>
         /\ \A u \in Fds \ {t} : reader'[u] = reader[u] /\ reads'[u] = reads[u]
         /\ __result' \in [Callers -> {__result[c] : c \in Callers} \cup {result, Result(kind, 0)}]
         /\ \A c \in Callers :
              __result'[c] = IF c = told THEN result
                             ELSE IF \E i \in DOMAIN q : q[i].co = c THEN Result(kind, 0)
                             ELSE __result[c]
<1>1. \A c \in Callers : c \in Range(CallersOf(q)) <=> \E i \in DOMAIN q : q[i].co = c
  BY CallersOfIs
<1>2. __result' = [c \in Callers |-> IF c = told THEN result
                                     ELSE IF c \in Range(CallersOf(q)) THEN Result(kind, 0)
                                     ELSE __result[c]]
  BY DEF EndDispatch
<1>3. \A c \in Callers :
        __result'[c] = IF c = told THEN result
                       ELSE IF \E i \in DOMAIN q : q[i].co = c THEN Result(kind, 0)
                       ELSE __result[c]
  BY <1>1, <1>2
<1>4. __result' \in [Callers -> {__result[c] : c \in Callers} \cup {result, Result(kind, 0)}]
  BY <1>2
<1>5. /\ reader'[t] = "ended" /\ reads'[t] = NoOne
      /\ \A u \in Fds \ {t} : reader'[u] = reader[u] /\ reads'[u] = reads[u]
  BY DEF EndDispatch, TypeOK
<1>6. __dispatch_thread' = 0 /\ running' = 0 /\ pending' = <<>>
  BY DEF EndDispatch, Suspend
<1> QED BY <1>3, <1>4, <1>5, <1>6

\* Whom an answer is for.
LEMMA EntryOfIs ==
  ASSUME SocketChannelAssumption, TypeOK, NEW t \in Fds, NEW answer, answer.r \in Requests,
         EntryOf(t, answer) # NoOne
  PROVE  /\ EntryOf(t, answer) \in Entry
         /\ mode = "order" => EntryOf(t, answer) = reads[t]
         /\ mode # "order" =>
              EntryOf(t, answer) \in Range(pending) /\ EntryOf(t, answer).r = answer.r
<1>1. CASE mode = "order"
  BY <1>1 DEF EntryOf, TypeOK, Entry
<1>2. CASE mode # "order"
  <2>1. \E e \in Range(pending) : e.r = answer.r
    BY <1>2 DEF EntryOf
  <2> DEFINE e == CHOOSE e \in Range(pending) : e.r = answer.r
  <2>2. e \in Range(pending) /\ e.r = answer.r
    BY <2>1
  <2>3. EntryOf(t, answer) = e
    BY <1>2, <2>1 DEF EntryOf
  <2> HIDE DEF e
  <2>4. Range(pending) \subseteq Entry \cup {Signal}
    BY RangeOfSeq DEF TypeOK, Entry
  <2>5. e # Signal
    BY <2>2, Kinds
  <2> QED BY <1>2, <2>2, <2>3, <2>4, <2>5
<1> QED BY <1>1, <1>2

\* What RemoveAt leaves of a sequence.
LEMMA RemoveAtIs ==
  ASSUME NEW T, NEW s \in Seq(T), NEW i \in DOMAIN s
  PROVE  /\ RemoveAt(s, i) \in Seq(T)
         /\ i = 1 => /\ Len(RemoveAt(s, i)) = Len(s) - 1
                     /\ \A j \in 1 .. Len(s) - 1 : RemoveAt(s, i)[j] = s[j + 1]
<1>1. Len(s) \in Nat /\ i \in 1 .. Len(s) /\ \A j \in 1 .. Len(s) : s[j] \in T
  BY LenProperties, ElementOfSeq
<1> DEFINE a == SubSeq(s, 1, i - 1)
           b == SubSeq(s, i + 1, Len(s))
<1>0. i = 1 => /\ (i + 1 <= Len(s) => Len(s) - (i + 1) + 1 = Len(s) - 1)
                /\ (~(i + 1 <= Len(s)) => Len(s) - 1 = 0)
                /\ Len(s) - (i + 1) + 1 = Len(s) - 1
                /\ \A j \in 1 .. Len(s) - 1 : i + 1 + j - 1 = j + 1
  <2> DEFINE l == Len(s)
  <2>1. l \in Nat /\ (1 <= l \/ i # 1)
    BY <1>1
  <2> HIDE DEF l
  <2>2. i = 1 => /\ (i + 1 <= l => l - (i + 1) + 1 = l - 1)
                 /\ (~(i + 1 <= l) => l - 1 = 0)
                 /\ l - (i + 1) + 1 = l - 1
                 /\ \A j \in 1 .. l - 1 : i + 1 + j - 1 = j + 1
    BY <2>1
  <2> QED BY <2>2 DEF l
<1>2. a \in Seq(T) /\ Len(a) = IF 1 <= i - 1 THEN (i - 1) - 1 + 1 ELSE 0
  BY <1>1, SubSeqProperties
<1>3. b \in Seq(T) /\ Len(b) = (IF i + 1 <= Len(s) THEN Len(s) - (i + 1) + 1 ELSE 0)
      /\ \A j \in 1 .. Len(s) - (i + 1) + 1 : b[j] = s[i + 1 + j - 1]
  BY <1>1, SubSeqProperties
<1>4. RemoveAt(s, i) = a \o b
  BY DEF RemoveAt
<1> HIDE DEF a, b
<1>5. a \o b \in Seq(T)
  BY <1>2, <1>3, ConcatProperties
<1>6. ASSUME i = 1
      PROVE  Len(a \o b) = Len(s) - 1 /\ \A j \in 1 .. Len(s) - 1 : (a \o b)[j] = s[j + 1]
  <2>1. Len(a) = 0
    BY <1>6, <1>2
  <2>2. a \o b = b
    BY <2>1, <1>2, <1>3, EmptySeq, ConcatEmptySeq
  <2>3. Len(b) = Len(s) - 1 /\ \A j \in 1 .. Len(s) - 1 : b[j] = s[j + 1]
    BY <1>0, <1>3, <1>6
  <2> QED BY <2>2, <2>3
<1> QED BY <1>4, <1>5, <1>6

-----------------------------------------------------------------------------
(* Typing.                                                                  *)

\* The parts of TypeOK.
ChannelTyped ==
  /\ mode \in Modes /\ auth \in BOOLEAN
  /\ __sock \in Fds \cup {0} /\ __wait_response \in Fds \cup {0}
  /\ __dispatch_thread \in Fds \cup {0}
  /\ __closed \in BOOLEAN /\ __authcoroutine \in Callers \cup {Nil}

ConnectingTyped ==
  /\ __connecting \in Seq(Callers \cup {Busy})
  /\ __connecting # <<>> => Head(__connecting) = Busy /\ Tail(__connecting) \in Seq(Callers)

PendingTyped == pending \in Seq(Entry \cup {Signal})

ResultTyped ==
  __result \in [Callers -> [kind : {"none", "answer", "refusal", "socket_error", "message"},
                            r : Requests \cup {0}]]

PlaceNames == {"idle", "enter", "connect", "open", "yield", "done",
            "connecting", "check", "send", "response"}

CallerTyped ==
  /\ at \in [Callers -> PlaceNames]
  /\ task \in [Callers -> {"none", "connect", "request", "response"}]
  /\ request \in [Callers -> Requests \cup {0}] /\ fd \in [Callers -> Fds \cup {0}]

ReaderTyped ==
  /\ reader \in [Fds -> {"none", "forked", "loop", "pop", "read", "ended"}]
  /\ reads \in [Fds -> Entry \cup {NoOne}]

RunTyped == running \in Callers \cup Fds \cup {0} /\ wakeup_queue \in Seq(Tokens)

SocketTyped ==
  /\ link \in [Fds -> {"none", "new", "up", "lost"}]
  /\ asked \in [Fds -> Seq(Requests)]
  /\ arrived \in [Fds -> Seq([kind : {"answer", "refusal", "garbage"}, r : Requests])]

CountsTyped ==
  /\ connects \in 0 .. MaxConnects /\ requests \in 0 .. MaxRequests
  /\ closes \in 0 .. MaxCloses /\ crashed \in BOOLEAN

Typed == /\ ChannelTyped /\ ConnectingTyped /\ PendingTyped /\ ResultTyped /\ CallerTyped
         /\ ReaderTyped /\ RunTyped /\ SocketTyped /\ CountsTyped

\* TypeOK is the conjunction of its parts.
LEMMA TypeParts == TypeOK <=> Typed /\ abandoned \in BOOLEAN
BY DEF TypeOK, Typed, ChannelTyped, ConnectingTyped, PendingTyped, ResultTyped, CallerTyped,
       PlaceNames, ReaderTyped, RunTyped, SocketTyped, CountsTyped, Entry, Tokens

\* The same after a step.
LEMMA TypePartsNext == TypeOK' <=> Typed' /\ abandoned' \in BOOLEAN
BY DEF TypeOK, Typed, ChannelTyped, ConnectingTyped, PendingTyped, ResultTyped, CallerTyped,
       PlaceNames, ReaderTyped, RunTyped, SocketTyped, CountsTyped, Entry, Tokens

\* What callers do with abandoned: it stays as it is but where a maker's call ends with an
\* error, or where the maker waits in its own list.
LEMMA CallerAbandons ==
  ASSUME NEW c \in Callers, CallerStep(c)
  PROVE  UNCHANGED abandoned \/ Abandons(c)
<1>1. CASE Begin(c) \/ Finish(c) \/ Timer(c) \/ YieldWhileDispatched(c) \/ Close(c) \/ ChangeHost(c)
  BY <1>1 DEF Begin, Finish, Timer, YieldWhileDispatched, Close, ChangeHost, callerVars
<1>2. CASE (\E t \in {"connect", "request", "response"} : Call(c, t)) \/ Opened(c) \/ Yielded(c) \/ Send(c)
  BY <1>2 DEF Call, Opened, Yielded, Send
<1>3. CASE Enter(c) \/ Connect(c) \/ Done(c) \/ Check(c) \/ Answered(c)
  BY <1>3 DEF Enter, Connect, Done, Check, Answered, Raise
<1> QED BY <1>1, <1>2, <1>3 DEF CallerStep

\* A step of a caller keeps the types.
LEMMA TypeCaller ==
  ASSUME SocketChannelAssumption, TypeOK, OneMaker, NEW c \in Callers, CallerStep(c)
  PROVE  TypeOK'
<1> USE DEF Typed, ChannelTyped, ConnectingTyped, PendingTyped, ResultTyped, CallerTyped,
            PlaceNames, ReaderTyped, RunTyped, SocketTyped, CountsTyped
<1>0. Typed
  BY TypeParts
<1>13. abandoned' \in BOOLEAN
  BY CallerAbandons DEF Abandons, TypeOK
<1> USE <1>13
<1>1. CASE Begin(c) \/ Finish(c) \/ Timer(c) \/ YieldWhileDispatched(c)
  <2>1. /\ UNCHANGED <<channelVars, callerVars, readerVars, wakeup_queue, socketVars, counts, crashed>>
        /\ running' \in {c, 0}
    BY <1>1 DEF Begin, Finish, Timer, YieldWhileDispatched, Suspend
  <2>2. RunTyped'
    BY <1>0, <2>1
  <2>3. Typed'
    BY <1>0, <2>1, <2>2 DEF channelVars, callerVars, readerVars, socketVars, counts
  <2> QED BY <2>3, TypePartsNext
<1>2. ASSUME NEW t \in {"connect", "request", "response"}, Call(c, t) PROVE TypeOK'
  <2>1. Typed'
    BY <1>0, <1>2 DEF Call, Goes, readerVars, socketVars, counts
  <2> QED BY <2>1, TypePartsNext
<1>3. CASE Enter(c)
  <2>1. UNCHANGED <<mode, auth, __closed, pending, __dispatch_thread, __result, readerVars,
                    socketVars, counts, crashed>>
    BY <1>3 DEF Enter
  <2>2. PendingTyped' /\ ResultTyped' /\ ReaderTyped' /\ SocketTyped' /\ CountsTyped'
    BY <1>0, <2>1 DEF readerVars, socketVars, counts
  <2>3. CASE Raise(c) /\ UNCHANGED __connecting
    <3>1. /\ Ended(c) /\ __wait_response' \in Fds \cup {0} /\ wakeup_queue' \in Seq(Tokens)
          /\ \/ __authcoroutine' = Nil /\ __sock' = 0
             \/ UNCHANGED <<__authcoroutine, __sock>>
      BY <2>3, RaiseDoes DEF Wakes
    <3>2. CallerTyped' /\ UNCHANGED running
      BY <3>1, EndedTypes DEF Ended
    <3>3. ChannelTyped' /\ ConnectingTyped' /\ RunTyped'
      BY <1>0, <2>1, <2>3, <3>1, <3>2
    <3>4. Typed'
      BY <2>2, <3>2, <3>3
    <3> QED BY <3>4, TypePartsNext
  <2>4. CASE ~Raise(c)
    <3>1. UNCHANGED <<task, request, fd, __sock, __authcoroutine, __wait_response, wakeup_queue>>
          /\ \E p \in {"send", "connecting", "connect"} : Goes(c, p)
          /\ running' \in {running, 0}
      BY <1>3, <2>4 DEF Enter, Suspend
    <3>2. CallerTyped' /\ ChannelTyped' /\ RunTyped'
      BY <1>0, <2>1, <3>1 DEF Goes
    <3>3. \/ UNCHANGED __connecting
          \/ __connecting # <<>> /\ __connecting' = Append(__connecting, c)
          \/ __connecting' = <<Busy>>
      BY <1>3, <2>4 DEF Enter
    <3>4. ConnectingTyped'
      <4>1. CASE UNCHANGED __connecting
        BY <4>1, <1>0
      <4>2. CASE __connecting # <<>> /\ __connecting' = Append(__connecting, c)
        <5>1. /\ __connecting \in Seq(Callers \cup {Busy}) /\ c \in Callers \cup {Busy}
              /\ Head(__connecting) = Busy /\ Tail(__connecting) \in Seq(Callers)
          BY <1>0, <4>2
        <5>2. /\ Head(__connecting') = Busy
              /\ Tail(__connecting') = Append(Tail(__connecting), c)
          BY <4>2, <5>1, HeadTailAppend
        <5> QED BY <4>2, <5>1, <5>2, AppendProperties
      <4>3. CASE __connecting' = <<Busy>>
        <5>1. __connecting' \in Seq(Callers \cup {Busy})
              /\ Head(__connecting') = Busy /\ Tail(__connecting') = <<>>
          BY <4>3
        <5>2. <<>> \in Seq(Callers)
          OBVIOUS
        <5> QED BY <5>1, <5>2
      <4> QED BY <3>3, <4>1, <4>2, <4>3
    <3>5. Typed'
      BY <2>2, <3>2, <3>4
    <3> QED BY <3>5, TypePartsNext
  <2>5. Raise(c) => UNCHANGED __connecting
    <3>1. Raise(c) => UNCHANGED at \/ at'[c] = "idle"
      BY DEF Raise, Ended, Goes, TypeOK
    <3> QED BY <1>3, <3>1 DEF Enter, Goes, TypeOK
  <2> QED BY <2>3, <2>4, <2>5
<1>4. CASE Connect(c)
  <2>1. UNCHANGED <<channelVars, readerVars, wakeup_queue, asked, arrived, requests, closes, crashed>>
    BY <1>4 DEF Connect
  <2>2. CASE connects' = connects + 1
    <3>1. /\ connects < MaxConnects /\ fd' = [fd EXCEPT ![c] = connects + 1]
          /\ link' = [link EXCEPT ![connects + 1] = "new"]
          /\ Goes(c, "open") /\ running' = 0 /\ UNCHANGED <<task, request>>
      BY <1>0, <1>4, <2>2 DEF Connect, Suspend
    <3>2. connects + 1 \in Fds /\ connects' \in 0 .. MaxConnects
      BY <1>0, <2>2, <3>1 DEF SocketChannelAssumption, Fds
    <3> DEFINE t == connects + 1
    <3> HIDE DEF t
    <3>3. t \in Fds /\ fd' = [fd EXCEPT ![c] = t] /\ link' = [link EXCEPT ![t] = "new"]
      BY <3>1, <3>2 DEF t
    <3>6. at' \in [Callers -> PlaceNames]
      BY <1>0, <3>1 DEF Goes
    <3>7. fd' \in [Callers -> Fds \cup {0}]
      BY <1>0, <3>3
    <3>8. link' \in [Fds -> {"none", "new", "up", "lost"}]
      BY <1>0, <3>3
    <3>4. CallerTyped' /\ SocketTyped'
      BY <1>0, <2>1, <3>1, <3>6, <3>7, <3>8
    <3>5. Typed'
      BY <1>0, <2>1, <3>1, <3>2, <3>4 DEF channelVars, readerVars
    <3> QED BY <3>5, TypePartsNext
  <2>3. CASE connects' # connects + 1
    <3>1. UNCHANGED <<link, connects, running>> /\ CallerTyped'
      BY <1>0, <1>4, <2>3, EndedTypes DEF Connect, Goes, Ended
    <3>2. Typed'
      BY <1>0, <2>1, <3>1 DEF channelVars, readerVars
    <3> QED BY <3>2, TypePartsNext
  <2> QED BY <2>2, <2>3
<1>5. CASE Opened(c)
  <2>1. /\ pending' = Append(pending, Signal) /\ __wait_response' \in Fds \cup {0}
           /\ wakeup_queue' \in Seq(Tokens)
        \/ UNCHANGED <<pending, __wait_response, wakeup_queue>>
    BY <1>5, PushDoes DEF Opened, Wakes
  <2>2. PendingTyped'
    <3>1. Append(pending, Signal) \in Seq(Entry \cup {Signal})
      BY <1>0, AppendProperties
    <3> QED BY <1>0, <2>1, <3>1
  <2>3. Typed'
    BY <1>0, <1>5, <2>1, <2>2 DEF Opened, Goes, readerVars, socketVars, counts
  <2> QED BY <2>3, TypePartsNext
<1>6. CASE Yielded(c)
  <2>1. fd[c] \in Fds
    BY <1>6 DEF Yielded, OneMaker
  <2>2. Typed'
    BY <1>0, <1>6, <2>1 DEF Yielded, Goes, socketVars, counts
  <2> QED BY <2>2, TypePartsNext
<1>7. CASE Done(c)
  <2>1. /\ UNCHANGED <<mode, auth, __sock, __closed, __authcoroutine, pending, __wait_response,
                       __dispatch_thread, __result, readerVars, socketVars, counts, crashed, running>>
        /\ UNCHANGED __connecting \/ __connecting' = <<>>
    BY <1>7 DEF Done, Connected, Ended
  <2>2. ChannelTyped' /\ ConnectingTyped' /\ PendingTyped' /\ ResultTyped' /\ ReaderTyped'
        /\ SocketTyped' /\ CountsTyped'
    <3>1. ConnectingTyped'
      <4>1. <<>> \in Seq(Callers \cup {Busy})
        OBVIOUS
      <4> QED BY <1>0, <2>1, <4>1
    <3> QED BY <1>0, <2>1, <3>1 DEF readerVars, socketVars, counts
  <2>3. CallerTyped'
    BY <1>0, <1>7, EndedTypes DEF Done, Goes
  <2>4. wakeup_queue' \in Seq(Tokens)
    <3>1. __connecting # <<>>
      BY <1>7 DEF Done, OneMaker, Maker, Making
    <3>2. Waiters \in Seq(Callers)
      BY <1>0, <3>1 DEF Waiters
    <3> QED BY <1>0, <1>7, <3>2, WakeTokens DEF Done, Wakes
  <2>5. Typed'
    BY <1>0, <2>1, <2>2, <2>3, <2>4
  <2> QED BY <2>5, TypePartsNext
<1>8. CASE Check(c)
  <2>1. UNCHANGED <<mode, auth, __closed, __connecting, pending, __dispatch_thread, __result,
                    readerVars, socketVars, counts, crashed>>
    BY <1>8 DEF Check
  <2>2. \/ /\ Goes(c, "send")
           /\ UNCHANGED <<__sock, __authcoroutine, __wait_response, task, request, fd, running,
                          wakeup_queue>>
        \/ Raise(c)
    BY <1>8 DEF Check
  <2>3. CASE Raise(c)
    <3>1. /\ Ended(c) /\ __wait_response' \in Fds \cup {0} /\ wakeup_queue' \in Seq(Tokens)
          /\ \/ __authcoroutine' = Nil /\ __sock' = 0
             \/ UNCHANGED <<__authcoroutine, __sock>>
      BY <2>3, RaiseDoes DEF Wakes
    <3>2. CallerTyped' /\ UNCHANGED running
      BY <3>1, EndedTypes DEF Ended
    <3>3. Typed'
      BY <1>0, <2>1, <3>1, <3>2 DEF readerVars, socketVars, counts
    <3> QED BY <3>3, TypePartsNext
  <2>4. CASE ~Raise(c)
    <3>1. Typed'
      BY <1>0, <2>1, <2>2, <2>4 DEF Goes, readerVars, socketVars, counts
    <3> QED BY <3>1, TypePartsNext
  <2> QED BY <2>3, <2>4
<1>9. CASE Send(c)
  <2>1. UNCHANGED <<mode, auth, __sock, __closed, __connecting, __authcoroutine, __dispatch_thread,
                    __result, readerVars, link, arrived, connects, closes>>
    BY <1>9 DEF Send
  <2>2. CASE requests' = requests + 1
    <3> DEFINE r == requests + 1
               entry == [r |-> r, co |-> c]
    <3>1. /\ requests < MaxRequests /\ request' = [request EXCEPT ![c] = r]
          /\ asked' = [asked EXCEPT ![__sock] = Append(@, r)]
          /\ push_response(entry) /\ Goes(c, "response") /\ Suspend
          /\ UNCHANGED <<task, fd, crashed>>
      BY <1>0, <1>9, <2>2 DEF Send
    <3>2. r \in Requests /\ r \in 0 .. MaxRequests
      BY <1>0, <3>1 DEF Requests, SocketChannelAssumption
    <3>3. entry \in Entry
      BY <3>2 DEF Entry
    <3> HIDE DEF entry
    <3>4. pending' = Append(pending, entry) /\ __wait_response' \in Fds \cup {0}
          /\ wakeup_queue' \in Seq(Tokens)
      BY <3>1, PushDoes DEF Wakes
    <3>5. PendingTyped'
      BY <1>0, <3>3, <3>4, AppendProperties
    <3>6. asked' \in [Fds -> Seq(Requests)]
      BY <1>0, <3>1, <3>2, AppendProperties
    <3> HIDE DEF r
    <3>7. CallerTyped'
      BY <1>0, <3>1, <3>2 DEF Goes
    <3>8. requests' \in 0 .. MaxRequests
      BY <2>2, <3>2 DEF r
    <3>9. Typed'
      BY <1>0, <2>1, <3>1, <3>4, <3>5, <3>6, <3>7, <3>8 DEF Suspend, readerVars
    <3> QED BY <3>9, TypePartsNext
  <2>3. CASE requests' # requests + 1
    <3>1. /\ UNCHANGED <<pending, __wait_response, wakeup_queue, requests, asked>>
          /\ \/ Ended(c) /\ UNCHANGED crashed
             \/ crashed' = TRUE /\ UNCHANGED <<at, task, request, fd, running>>
      BY <1>9, <2>3 DEF Send
    <3>2. CallerTyped' /\ UNCHANGED running /\ crashed' \in BOOLEAN
      BY <1>0, <3>1, EndedTypes DEF Ended
    <3>3. Typed'
      BY <1>0, <2>1, <3>1, <3>2 DEF readerVars
    <3> QED BY <3>3, TypePartsNext
  <2> QED BY <2>2, <2>3
<1>10. CASE Answered(c)
  <2>1. /\ __result' = [__result EXCEPT ![c] = None]
        /\ UNCHANGED <<mode, auth, __closed, __connecting, pending, __dispatch_thread, readerVars,
                       socketVars, counts, crashed>>
    BY <1>10 DEF Answered
  <2>2. ResultTyped'
    BY <1>0, <2>1 DEF None, Result
  <2>3. CASE Raise(c)
    <3>1. /\ Ended(c) /\ __wait_response' \in Fds \cup {0} /\ wakeup_queue' \in Seq(Tokens)
          /\ \/ __authcoroutine' = Nil /\ __sock' = 0
             \/ UNCHANGED <<__authcoroutine, __sock>>
      BY <2>3, RaiseDoes DEF Wakes
    <3>2. CallerTyped' /\ UNCHANGED running
      BY <3>1, EndedTypes DEF Ended
    <3>3. Typed'
      BY <1>0, <2>1, <2>2, <3>1, <3>2 DEF readerVars, socketVars, counts
    <3> QED BY <3>3, TypePartsNext
  <2>4. CASE CloseSocket(<<>>) /\ ~Raise(c)
    <3>1. __sock' = 0 /\ __wait_response' \in Fds \cup {0} /\ wakeup_queue' \in Seq(Tokens)
      <4>1. <<>> \in Seq(Callers)
        OBVIOUS
      <4> QED BY <2>4, <4>1, CloseDoes DEF Wakes
    <3>2. UNCHANGED running /\ CallerTyped' /\ __authcoroutine' \in {__authcoroutine, Nil}
      BY <1>0, <1>10, <2>4, EndedTypes DEF Answered, Goes, Ended
    <3>3. Typed'
      BY <1>0, <2>1, <2>2, <3>1, <3>2 DEF readerVars, socketVars, counts
    <3> QED BY <3>3, TypePartsNext
  <2>5. CASE ~CloseSocket(<<>>) /\ ~Raise(c)
    <3>1. UNCHANGED <<__sock, __wait_response, wakeup_queue, running>>
          /\ CallerTyped' /\ __authcoroutine' \in {__authcoroutine, Nil}
      BY <1>0, <1>10, <2>5, EndedTypes DEF Answered, Goes, Ended
    <3>2. Typed'
      BY <1>0, <2>1, <2>2, <3>1 DEF readerVars, socketVars, counts
    <3> QED BY <3>2, TypePartsNext
  <2> QED BY <2>3, <2>4, <2>5
<1>11. CASE Close(c)
  <2>1. /\ UNCHANGED <<mode, auth, __connecting, __authcoroutine, __dispatch_thread, __result,
                       callerVars, readerVars, running, socketVars, connects, requests, crashed>>
        /\ __closed' = TRUE /\ __sock' = 0 /\ closes < MaxCloses /\ closes' = closes + 1
        /\ pending' \in {pending, Append(pending, Signal)}
        /\ (__wait_response' = 0 /\ Wake(WaitWake)) \/ UNCHANGED <<__wait_response, wakeup_queue>>
    BY <1>11 DEF Close, MayClose
  <2>2. wakeup_queue' \in Seq(Tokens) /\ __wait_response' \in Fds \cup {0}
    BY <1>0, <2>1, WakeDispatch DEF Wakes
  <2>3. PendingTyped'
    <3>1. Append(pending, Signal) \in Seq(Entry \cup {Signal})
      BY <1>0, AppendProperties
    <3> QED BY <1>0, <2>1, <3>1
  <2>4. closes' \in 0 .. MaxCloses
    BY <1>0, <2>1 DEF SocketChannelAssumption
  <2>5. Typed'
    BY <1>0, <2>1, <2>2, <2>3, <2>4 DEF callerVars, readerVars, socketVars
  <2> QED BY <2>5, TypePartsNext
<1>12. CASE ChangeHost(c)
  <2>1. /\ UNCHANGED <<mode, auth, __closed, __connecting, __authcoroutine, pending,
                       __dispatch_thread, __result, callerVars, readerVars, running, socketVars,
                       connects, requests, crashed>>
        /\ closes < MaxCloses /\ closes' = closes + 1 /\ CloseSocket(<<>>)
    BY <1>12 DEF ChangeHost, MayClose
  <2>2. __sock' = 0 /\ wakeup_queue' \in Seq(Tokens) /\ __wait_response' \in Fds \cup {0}
    <3>1. <<>> \in Seq(Callers)
      OBVIOUS
    <3> QED BY <2>1, <3>1, CloseDoes DEF Wakes
  <2>3. closes' \in 0 .. MaxCloses
    BY <1>0, <2>1 DEF SocketChannelAssumption
  <2>4. Typed'
    BY <1>0, <2>1, <2>2, <2>3 DEF callerVars, readerVars, socketVars
  <2> QED BY <2>4, TypePartsNext
<1> QED BY <1>1, <1>2, <1>3, <1>4, <1>5, <1>6, <1>7, <1>8, <1>9, <1>10, <1>11, <1>12
        DEF CallerStep

\* The end of a dispatch coroutine keeps the types of what it changes.
LEMMA TypeEnd ==
  ASSUME SocketChannelAssumption, TypeOK, NEW t \in Fds, NEW told, NEW result, NEW kind,
         NEW q \in Seq(Entry \cup {Signal}), EndDispatch(t, told, result, q, kind),
         result \in [kind : {"none", "answer", "refusal", "socket_error", "message"},
                     r : Requests \cup {0}],
         kind \in {"socket_error", "message"}
  PROVE  /\ PendingTyped' /\ ResultTyped' /\ ReaderTyped'
         /\ __dispatch_thread' = 0 /\ running' = 0
<1>1. /\ reader' = [reader EXCEPT ![t] = "ended"] /\ reads' = [reads EXCEPT ![t] = NoOne]
      /\ __dispatch_thread' = 0 /\ running' = 0 /\ pending' = <<>>
  BY DEF EndDispatch, Suspend
<1>2. Typed
  BY TypeParts
<1>3. ReaderTyped'
  BY <1>1, <1>2 DEF Typed, ReaderTyped
<1>4. PendingTyped'
  <2>1. <<>> \in Seq(Entry \cup {Signal})
    OBVIOUS
  <2> QED BY <1>1, <2>1 DEF PendingTyped
<1>5. ResultTyped'
  <2> DEFINE R == [kind : {"none", "answer", "refusal", "socket_error", "message"},
                   r : Requests \cup {0}]
  <2>1. Result(kind, 0) \in R
    BY DEF Result
  <2>2. \A c \in Callers : __result[c] \in R
    BY <1>2 DEF Typed, ResultTyped
  <2>3. __result' \in [Callers -> {__result[c] : c \in Callers} \cup {result, Result(kind, 0)}]
    BY EndDispatchDoes
  <2>4. {__result[c] : c \in Callers} \cup {result, Result(kind, 0)} \subseteq R
    BY <2>1, <2>2
  <2> HIDE DEF R
  <2>5. __result' \in [Callers -> R]
    BY <2>3, <2>4
  <2> QED BY <2>5 DEF ResultTyped, R
<1> QED BY <1>1, <1>3, <1>4, <1>5

\* A step of a dispatch coroutine keeps the types.
LEMMA TypeDispatch ==
  ASSUME SocketChannelAssumption, TypeOK, NEW t \in Fds, DispatchStep(t)
  PROVE  TypeOK'
<1> USE DEF Typed, ChannelTyped, ConnectingTyped, PendingTyped, ResultTyped, CallerTyped,
            PlaceNames, ReaderTyped, RunTyped, SocketTyped, CountsTyped
<1>0. Typed
  BY TypeParts
<1>13. abandoned' \in BOOLEAN
  BY DEF DispatchStep, RunFork, pop_response, ReadBySession, ReadAnswer, ReadFails, ReadWaits,
         callerVars, TypeOK
<1> USE <1>13
<1>1. CASE RunFork(t)
  <2>1. /\ UNCHANGED <<mode, auth, __sock, __closed, __connecting, __authcoroutine, pending,
                       __wait_response, __result, callerVars, reads, wakeup_queue, socketVars,
                       counts, crashed>>
        /\ \E p \in {"loop", "ended"} : reader' = [reader EXCEPT ![t] = p]
        /\ running' \in {t, running} /\ __dispatch_thread' \in {0, __dispatch_thread}
    BY <1>1 DEF RunFork
  <2>2. ReaderTyped' /\ RunTyped'
    BY <1>0, <2>1
  <2>3. Typed'
    BY <1>0, <2>1, <2>2 DEF callerVars, socketVars, counts
  <2> QED BY <2>3, TypePartsNext
<1>2. CASE pop_response(t)
  <2>1. UNCHANGED <<mode, auth, __sock, __closed, __connecting, __authcoroutine, callerVars,
                    socketVars, counts, crashed>>
    BY <1>2 DEF pop_response
  <2>2. CASE EndDispatch(t, Nil, None, pending, "message") /\ Wake(CallersOf(pending))
             /\ UNCHANGED __wait_response
    <3>1. PendingTyped' /\ ResultTyped' /\ ReaderTyped' /\ __dispatch_thread' = 0 /\ running' = 0
      BY <1>0, <2>2, TypeEnd DEF None, Result
    <3>2. wakeup_queue' \in Seq(Tokens)
      BY <1>0, <2>2, CallersOfIs, WakeTokens DEF Wakes
    <3>3. Typed'
      BY <1>0, <2>1, <2>2, <3>1, <3>2 DEF callerVars, socketVars, counts
    <3> QED BY <3>3, TypePartsNext
  <2>3. CASE /\ pending # <<>> /\ Head(pending) # Signal
             /\ reads' = [reads EXCEPT ![t] = Head(pending)] /\ pending' = Tail(pending)
             /\ reader' = [reader EXCEPT ![t] = "read"]
             /\ UNCHANGED <<__wait_response, __dispatch_thread, __result, running, wakeup_queue>>
    <3>1. Head(pending) \in Entry /\ PendingTyped'
      BY <1>0, <2>3, HeadTailProperties
    <3>2. ReaderTyped'
      BY <1>0, <2>3, <3>1
    <3>3. Typed'
      BY <1>0, <2>1, <2>3, <3>1, <3>2 DEF callerVars, socketVars, counts
    <3> QED BY <3>3, TypePartsNext
  <2>4. CASE /\ __wait_response' = t /\ reader' = [reader EXCEPT ![t] = "pop"] /\ Suspend
             /\ UNCHANGED <<reads, pending, __dispatch_thread, __result, wakeup_queue>>
    <3>1. Typed'
      BY <1>0, <2>1, <2>4 DEF callerVars, socketVars, counts, Suspend
    <3> QED BY <3>1, TypePartsNext
  <2> QED BY <1>2, <2>2, <2>3, <2>4 DEF pop_response
<1>3. CASE ReadBySession(t)
  <2>1. Typed'
    BY <1>0, <1>3 DEF ReadBySession, channelVars, callerVars, socketVars, counts
  <2> QED BY <2>1, TypePartsNext
<1>4. CASE ReadAnswer(t)
  <2> DEFINE answer == Head(arrived[t])
             entry == EntryOf(t, answer)
             result == Result(answer.kind, answer.r)
  <2>1. /\ UNCHANGED <<mode, auth, __sock, __closed, __connecting, __authcoroutine,
                       __wait_response, callerVars, link, asked, counts, crashed>>
        /\ arrived[t] # <<>> /\ answer.kind # "garbage" /\ entry # NoOne
        /\ arrived' = [arrived EXCEPT ![t] = Tail(@)]
    BY <1>4 DEF ReadAnswer
  <2>2. /\ answer \in [kind : {"answer", "refusal", "garbage"}, r : Requests]
        /\ Tail(arrived[t]) \in Seq([kind : {"answer", "refusal", "garbage"}, r : Requests])
    <3>1. arrived[t] \in Seq([kind : {"answer", "refusal", "garbage"}, r : Requests])
      BY <1>0
    <3> QED BY <2>1, <3>1, HeadTailProperties
  <2> HIDE DEF answer
  <2>3. SocketTyped'
    BY <1>0, <2>1, <2>2
  <2>4. entry \in Entry
    BY <2>1, <2>2, EntryOfIs
  <2>5. result \in [kind : {"none", "answer", "refusal", "socket_error", "message"},
                    r : Requests \cup {0}]
    BY <2>1, <2>2 DEF Result
  <2>6. entry.co \in Callers
    BY <2>4, Kinds
  <2>7. Left(entry) \in Seq(Entry \cup {Signal})
    BY <1>0, LeftIs
  <2>8. \/ /\ EndDispatch(t, entry.co, result, Left(entry), "message")
           /\ Wake(<<entry.co>> \o CallersOf(Left(entry)))
        \/ /\ __result' = [__result EXCEPT ![entry.co] = result]
           /\ pending' = Left(entry) /\ Wake(<<entry.co>>)
           /\ reader' = [reader EXCEPT ![t] = "loop"]
           /\ reads' = [reads EXCEPT ![t] = NoOne]
           /\ UNCHANGED <<__dispatch_thread, running>>
    BY <1>4 DEF ReadAnswer, answer
  <2> HIDE DEF entry, result
  <2>9. CASE /\ EndDispatch(t, entry.co, result, Left(entry), "message")
             /\ Wake(<<entry.co>> \o CallersOf(Left(entry)))
    <3>1. PendingTyped' /\ ResultTyped' /\ ReaderTyped' /\ __dispatch_thread' = 0 /\ running' = 0
      BY <2>5, <2>7, <2>9, TypeEnd
    <3>2. <<entry.co>> \o CallersOf(Left(entry)) \in Seq(Callers)
      <4>1. CallersOf(Left(entry)) \in Seq(Callers) /\ <<entry.co>> \in Seq(Callers)
        BY <2>6, <2>7, CallersOfIs
      <4> QED BY <4>1, ConcatProperties
    <3>3. wakeup_queue' \in Seq(Tokens)
      BY <2>9, <3>2, WakeTokens DEF Wakes
    <3>4. Typed'
      BY <1>0, <2>1, <2>3, <3>1, <3>3 DEF callerVars, counts
    <3> QED BY <3>4, TypePartsNext
  <2>10. CASE /\ __result' = [__result EXCEPT ![entry.co] = result]
              /\ pending' = Left(entry) /\ Wake(<<entry.co>>)
              /\ reader' = [reader EXCEPT ![t] = "loop"]
              /\ reads' = [reads EXCEPT ![t] = NoOne]
              /\ UNCHANGED <<__dispatch_thread, running>>
    <3>1. <<entry.co>> \in Seq(Callers)
      BY <2>6
    <3>2. wakeup_queue' \in Seq(Tokens)
      BY <2>10, <3>1, WakeTokens DEF Wakes
    <3>3. ReaderTyped' /\ ResultTyped' /\ PendingTyped'
      BY <1>0, <2>5, <2>7, <2>10
    <3>4. Typed'
      BY <1>0, <2>1, <2>3, <2>10, <3>2, <3>3 DEF callerVars, counts
    <3> QED BY <3>4, TypePartsNext
  <2> QED BY <2>8, <2>9, <2>10
<1>5. CASE ReadFails(t)
  <2>1. /\ UNCHANGED <<mode, auth, __closed, __connecting, __authcoroutine, callerVars, link,
                       asked, counts, crashed>>
        /\ arrived' = [arrived EXCEPT ![t] = <<>>]
        /\ CloseSocket((IF reads[t] = NoOne THEN <<>> ELSE <<reads[t].co>>) \o CallersOf(pending))
    BY <1>5 DEF ReadFails
  <2>2. PICK kind \in {"message", "socket_error"} :
          EndDispatch(t, reads[t].co, Result(kind, 0), pending, kind)
    BY <1>5 DEF ReadFails
  <2>3. PendingTyped' /\ ResultTyped' /\ ReaderTyped' /\ __dispatch_thread' = 0 /\ running' = 0
    <3>1. /\ kind \in {"socket_error", "message"}
          /\ Result(kind, 0) \in [kind : {"none", "answer", "refusal", "socket_error", "message"},
                                  r : Requests \cup {0}]
      BY DEF Result
    <3> QED BY <1>0, <2>2, <3>1, TypeEnd
  <2> DEFINE tokens == (IF reads[t] = NoOne THEN <<>> ELSE <<reads[t].co>>) \o CallersOf(pending)
  <2>4. tokens \in Seq(Callers)
    <3>1. reads[t] # NoOne => reads[t].co \in Callers
      BY <1>0, Kinds
    <3>2. (IF reads[t] = NoOne THEN <<>> ELSE <<reads[t].co>>) \in Seq(Callers)
      BY <3>1
    <3>3. CallersOf(pending) \in Seq(Callers)
      BY <1>0, CallersOfIs
    <3> QED BY <3>2, <3>3, ConcatProperties
  <2>5. __sock' = 0 /\ __wait_response' \in Fds \cup {0} /\ wakeup_queue' \in Seq(Tokens)
    BY <2>1, <2>4, CloseDoes DEF Wakes
  <2>6. SocketTyped'
    <3>1. <<>> \in Seq([kind : {"answer", "refusal", "garbage"}, r : Requests])
      OBVIOUS
    <3> QED BY <1>0, <2>1, <3>1
  <2>7. Typed'
    BY <1>0, <2>1, <2>3, <2>5, <2>6 DEF callerVars, counts
  <2> QED BY <2>7, TypePartsNext
<1>6. CASE ReadWaits(t)
  <2>1. Typed'
    BY <1>0, <1>6 DEF ReadWaits, Suspend, channelVars, callerVars, readerVars, socketVars, counts
  <2> QED BY <2>1, TypePartsNext
<1> QED BY <1>1, <1>2, <1>3, <1>4, <1>5, <1>6 DEF DispatchStep

\* So do the server, the socket and the runtime.
LEMMA TypeOthers ==
  ASSUME SocketChannelAssumption, TypeOK, SocketStep \/ Resume
  PROVE  TypeOK'
<1> USE DEF Typed, ChannelTyped, ConnectingTyped, PendingTyped, ResultTyped, CallerTyped,
            PlaceNames, ReaderTyped, RunTyped, SocketTyped, CountsTyped
<1>0. Typed
  BY TypeParts
<1>13. abandoned' \in BOOLEAN
  BY DEF SocketStep, Resume, Established, Answer, PeerCloses, callerVars, TypeOK
<1> USE <1>13
<1>1. CASE Resume
  <2>1. /\ UNCHANGED <<channelVars, callerVars, readerVars, socketVars, counts, crashed>>
        /\ wakeup_queue # <<>> /\ wakeup_queue' = Tail(wakeup_queue)
        /\ running' \in {Head(wakeup_queue), 0}
    BY <1>1 DEF Resume
  <2>2. Head(wakeup_queue) \in Tokens /\ Tail(wakeup_queue) \in Seq(Tokens)
    BY <1>0, <2>1, HeadTailProperties
  <2>3. RunTyped'
    BY <2>1, <2>2 DEF Tokens
  <2>4. Typed'
    BY <1>0, <2>1, <2>3 DEF channelVars, callerVars, readerVars, socketVars, counts
  <2> QED BY <2>4, TypePartsNext
<1>2. ASSUME NEW c \in Callers, Established(c) PROVE TypeOK'
  <2>1. /\ UNCHANGED <<channelVars, callerVars, readerVars, running, asked, arrived, counts, crashed>>
        /\ link' = [link EXCEPT ![fd[c]] = "up"] /\ Wake(<<c>>)
    BY <1>2 DEF Established
  <2>2. wakeup_queue' \in Seq(Tokens)
    <3>1. <<c>> \in Seq(Callers)
      OBVIOUS
    <3> QED BY <2>1, <3>1, WakeTokens DEF Wakes
  <2>3. SocketTyped' /\ RunTyped'
    BY <1>0, <2>1, <2>2
  <2>4. Typed'
    BY <1>0, <2>1, <2>3 DEF channelVars, callerVars, readerVars, counts
  <2> QED BY <2>4, TypePartsNext
<1>3. ASSUME NEW t \in Fds, NEW i \in Requests, NEW kind \in {"answer", "refusal", "garbage"},
             Answer(t, i, kind)
      PROVE  TypeOK'
  <2> DEFINE answer == [kind |-> kind, r |-> asked[t][i]]
  <2>1. /\ UNCHANGED <<channelVars, callerVars, readerVars, running, link, counts, crashed>>
        /\ i \in DOMAIN asked[t] /\ asked' = [asked EXCEPT ![t] = RemoveAt(@, i)]
        /\ arrived' = [arrived EXCEPT ![t] = Append(@, answer)]
        /\ Wake(<<t>>) \/ UNCHANGED wakeup_queue
    BY <1>3 DEF Answer
  <2>2. asked[t] \in Seq(Requests)
    BY <1>0
  <2>3. answer \in [kind : {"answer", "refusal", "garbage"}, r : Requests]
    BY <2>1, <2>2, ElementOfSeq
  <2>4. RemoveAt(asked[t], i) \in Seq(Requests)
    BY <2>1, <2>2, RemoveAtIs
  <2> HIDE DEF answer
  <2>5. Append(arrived[t], answer) \in Seq([kind : {"answer", "refusal", "garbage"}, r : Requests])
    BY <1>0, <2>3, AppendProperties
  <2>6. SocketTyped'
    BY <1>0, <2>1, <2>4, <2>5
  <2>7. RunTyped'
    <3>1. <<t>> \in Seq(Tokens)
      BY DEF Tokens
    <3>2. Wake(<<t>>) => wakeup_queue' \in Seq(Tokens)
      BY <1>0, <3>1, WakeDoes
    <3> QED BY <1>0, <2>1, <3>2
  <2>8. Typed'
    BY <1>0, <2>1, <2>6, <2>7 DEF channelVars, callerVars, readerVars, counts
  <2> QED BY <2>8, TypePartsNext
<1>4. ASSUME NEW t \in Fds, PeerCloses(t) PROVE TypeOK'
  <2>1. SocketTyped'
    <3>1. <<>> \in Seq([kind : {"answer", "refusal", "garbage"}, r : Requests])
          /\ <<>> \in Seq(Requests)
      OBVIOUS
    <3> QED BY <1>0, <1>4, <3>1 DEF PeerCloses
  <2>2. Typed'
    BY <1>0, <1>4, <2>1 DEF PeerCloses, channelVars, callerVars, readerVars, counts
  <2> QED BY <2>2, TypePartsNext
<1> QED BY <1>1, <1>2, <1>3, <1>4 DEF SocketStep

\* Every step keeps the types.
LEMMA TypeStep ==
  ASSUME SocketChannelAssumption, TypeOK, OneMaker, [Next]_vars
  PROVE  TypeOK'
<1>1. CASE UNCHANGED vars
  BY <1>1 DEF vars, channelVars, callerVars, readerVars, socketVars, counts, TypeOK
<1> QED BY <1>1, TypeCaller, TypeDispatch, TypeOthers DEF Next

-----------------------------------------------------------------------------
(* Frames.                                                                  *)

\* A step of a caller leaves the others where they are, and what has been read.
LEMMA CallerFrame ==
  ASSUME SocketChannelAssumption, TypeOK, NEW c \in Callers, CallerStep(c)
  PROVE  /\ \A d \in Callers \ {c} :
              /\ at'[d] = at[d] /\ request'[d] = request[d] /\ fd'[d] = fd[d]
              /\ __result'[d] = __result[d]
         /\ UNCHANGED <<mode, auth, reads, arrived>>
         /\ running \in {c, 0} /\ running' \in {c, 0}
         /\ running = c \/ (running = 0 /\ at[c] \in {"idle", "yield"})
<1>1. CASE Begin(c) \/ Finish(c) \/ Timer(c) \/ YieldWhileDispatched(c)
  BY <1>1 DEF Begin, Finish, Timer, YieldWhileDispatched, Suspend, Message, channelVars, callerVars,
              readerVars, socketVars, counts
<1>2. ASSUME NEW t \in {"connect", "request", "response"}, Call(c, t)
      PROVE  /\ \A d \in Callers \ {c} :
                  /\ at'[d] = at[d] /\ request'[d] = request[d] /\ fd'[d] = fd[d]
                  /\ __result'[d] = __result[d]
             /\ UNCHANGED <<mode, auth, reads, arrived>>
             /\ running = c /\ running' = c
  BY <1>2, GoesDoes DEF Call, readerVars, socketVars
<1>3. CASE Enter(c)
  <2>1. UNCHANGED <<mode, auth, __result, readerVars, socketVars>> /\ running = c
    BY <1>3 DEF Enter
  <2>2. \/ Ended(c)
        \/ /\ UNCHANGED <<task, request, fd>> /\ running' \in {running, 0}
           /\ \E p \in {"send", "connecting", "connect"} : Goes(c, p)
    BY <1>3 DEF Enter, Raise, Suspend
  <2> QED BY <2>1, <2>2, GoesDoes, EndedDoes DEF readerVars, socketVars
<1>4. CASE Connect(c)
  <2>1. UNCHANGED <<channelVars, readerVars, arrived>> /\ running = c
    BY <1>4 DEF Connect
  <2>2. \/ Ended(c)
        \/ UNCHANGED <<request, fd, running>> /\ Goes(c, "done")
        \/ UNCHANGED request /\ fd' = [fd EXCEPT ![c] = connects + 1] /\ Goes(c, "open") /\ running' = 0
    BY <1>4 DEF Connect, Suspend
  <2>3. CASE fd' = [fd EXCEPT ![c] = connects + 1] /\ UNCHANGED request
             /\ Goes(c, "open") /\ running' = 0
    BY <2>1, <2>3, GoesDoes DEF channelVars, readerVars, TypeOK
  <2>4. CASE Ended(c)
    BY <2>1, <2>4, EndedDoes DEF channelVars, readerVars
  <2>5. CASE UNCHANGED <<request, fd, running>> /\ Goes(c, "done")
    BY <2>1, <2>5, GoesDoes DEF channelVars, readerVars
  <2> QED BY <2>2, <2>3, <2>4, <2>5
<1>5. CASE Opened(c)
  BY <1>5, GoesDoes DEF Opened, readerVars, socketVars
<1>6. CASE Yielded(c)
  BY <1>6, GoesDoes DEF Yielded, socketVars
<1>7. CASE Done(c)
  <2>1. \/ Ended(c) \/ (Goes(c, "check") /\ UNCHANGED <<request, fd, running>>)
    BY <1>7 DEF Done
  <2> QED BY <1>7, <2>1, GoesDoes, EndedDoes DEF Done, readerVars, socketVars
<1>8. CASE Check(c)
  <2>1. \/ Ended(c) \/ (Goes(c, "send") /\ UNCHANGED <<request, fd, running>>)
    BY <1>8 DEF Check, Raise
  <2> QED BY <1>8, <2>1, GoesDoes, EndedDoes DEF Check, readerVars, socketVars
<1>9. CASE Send(c)
  <2>1. UNCHANGED <<mode, auth, __result, readerVars, arrived>> /\ running = c
    BY <1>9 DEF Send
  <2>2. \/ Ended(c) \/ UNCHANGED <<at, request, fd, running>>
        \/ Goes(c, "response") /\ running' = 0 /\ UNCHANGED fd
           /\ request' = [request EXCEPT ![c] = requests + 1]
    BY <1>9 DEF Send, Suspend
  <2>3. CASE Goes(c, "response") /\ running' = 0 /\ UNCHANGED fd
             /\ request' = [request EXCEPT ![c] = requests + 1]
    BY <2>1, <2>3, GoesDoes DEF readerVars, TypeOK
  <2>4. CASE Ended(c)
    BY <2>1, <2>4, EndedDoes DEF readerVars
  <2>5. CASE UNCHANGED <<at, request, fd, running>>
    BY <2>1, <2>5 DEF readerVars
  <2> QED BY <2>2, <2>3, <2>4, <2>5
<1>10. CASE Answered(c)
  <2>1. UNCHANGED <<mode, auth, readerVars, socketVars>> /\ running = c
    BY <1>10 DEF Answered
  <2>2. \A d \in Callers \ {c} : __result'[d] = __result[d]
    BY <1>10 DEF Answered, TypeOK
  <2>3. \/ Ended(c)
        \/ UNCHANGED <<request, fd, running>> /\ \E p \in {"enter", "connect", "done"} : Goes(c, p)
    BY <1>10 DEF Answered, Raise
  <2> QED BY <2>1, <2>2, <2>3, GoesDoes, EndedDoes DEF readerVars, socketVars
<1>11. CASE Close(c) \/ ChangeHost(c)
  BY <1>11 DEF Close, ChangeHost, MayClose, callerVars, readerVars, socketVars
<1> QED BY <1>1, <1>2, <1>3, <1>4, <1>5, <1>6, <1>7, <1>8, <1>9, <1>10, <1>11 DEF CallerStep

\* A step of a dispatch coroutine leaves the callers where they are.
LEMMA DispatchFrame ==
  ASSUME SocketChannelAssumption, TypeOK, NEW t \in Fds, DispatchStep(t)
  PROVE  /\ UNCHANGED <<mode, auth, __authcoroutine, __connecting, callerVars, link, asked, counts, crashed>>
         /\ running \in {t, 0} /\ running' \in {t, 0}
         /\ \A c \in Callers : running # c /\ running' # c
         /\ \A u \in Fds \ {t} : /\ reader'[u] = reader[u] /\ reads'[u] = reads[u]
                                 /\ arrived'[u] = arrived[u]
<1>1. /\ UNCHANGED <<mode, auth, __authcoroutine, __connecting, callerVars, link, asked, counts, crashed>>
      /\ running \in {t, 0}
  BY DEF DispatchStep, RunFork, pop_response, ReadBySession, ReadAnswer, ReadFails, ReadWaits,
         channelVars, socketVars
<1>2. running' \in {t, 0} /\ \A u \in Fds \ {t} : reader'[u] = reader[u] /\ reads'[u] = reads[u]
                                                  /\ arrived'[u] = arrived[u]
  <2>1. CASE RunFork(t) \/ pop_response(t) \/ ReadBySession(t) \/ ReadWaits(t)
    BY <2>1 DEF RunFork, pop_response, ReadBySession, ReadWaits, EndDispatch, Suspend, TypeOK,
                readerVars, socketVars
  <2>2. CASE ReadAnswer(t)
    BY <2>2 DEF ReadAnswer, EndDispatch, Suspend, TypeOK
  <2>3. CASE ReadFails(t)
    BY <2>3 DEF ReadFails, EndDispatch, Suspend, TypeOK
  <2> QED BY <2>1, <2>2, <2>3 DEF DispatchStep
<1>3. \A c \in Callers : c # t /\ c # 0
  BY Kinds
<1> QED BY <1>1, <1>2, <1>3

\* So do the server and the socket.
LEMMA SocketFrame ==
  ASSUME SocketStep
  PROVE  UNCHANGED <<channelVars, callerVars, readerVars, running, counts, crashed>>
BY DEF SocketStep, Established, Answer, PeerCloses

-----------------------------------------------------------------------------
(* Where the callers are.                                                   *)

\* The step of a caller, for the caller.
LEMMA PlacesCaller ==
  ASSUME SocketChannelAssumption, TypeOK, Places, NEW c \in Callers, CallerStep(c)
  PROVE  /\ at'[c] \in {"enter", "connect", "done", "check", "send"} => running' = c
         /\ at'[c] = "send" => Usable(c)'
         /\ at'[c] # "response" => __result'[c] = None
<1>0. at[c] # "response" => __result[c] = None
  BY DEF Places
<1>12. (at[c] = "send" => Usable(c)) /\ (at[c] \in {"enter", "connect", "done", "check", "send"} => running = c)
  BY DEF Places
<1>1. CASE Begin(c) \/ Timer(c) \/ Finish(c) \/ YieldWhileDispatched(c)
  <2>1. UNCHANGED <<channelVars, callerVars>> /\ at[c] \in {"idle", "yield"}
    BY <1>1 DEF Begin, Finish, Timer, YieldWhileDispatched
  <2> QED BY <2>1, <1>0 DEF channelVars, callerVars
<1>2. ASSUME NEW t \in {"connect", "request", "response"}, Call(c, t)
      PROVE  at'[c] = "enter" /\ running' = c /\ __result'[c] = None
  BY <1>2, <1>0, GoesDoes DEF Call
<1>3. CASE Enter(c)
  <2>1. __result'[c] = None /\ running = c
    BY <1>3, <1>0 DEF Enter
  <2>2. \/ Ended(c)
        \/ /\ Goes(c, "send") /\ Usable(c) /\ UNCHANGED <<__sock, __authcoroutine, running>>
        \/ Goes(c, "connecting")
        \/ Goes(c, "connect") /\ UNCHANGED running
    BY <1>3 DEF Enter, Raise
  <2> QED BY <2>1, <2>2, GoesDoes, EndedDoes DEF Usable
<1>4. CASE Connect(c)
  <2>1. __result'[c] = None /\ running = c
    BY <1>4, <1>0 DEF Connect, channelVars
  <2>2. Ended(c) \/ Goes(c, "open") \/ (Goes(c, "done") /\ UNCHANGED running)
    BY <1>4 DEF Connect
  <2> QED BY <2>1, <2>2, GoesDoes, EndedDoes
<1>5. CASE Opened(c)
  BY <1>5, <1>0, GoesDoes DEF Opened
<1>6. CASE Yielded(c)
  <2>1. __result'[c] = None /\ running' = c /\ (Goes(c, "enter") \/ Goes(c, "done"))
    BY <1>6, <1>0 DEF Yielded
  <2> QED BY <2>1, GoesDoes
<1>7. CASE Done(c)
  <2>1. __result'[c] = None /\ running = c /\ (Ended(c) \/ (Goes(c, "check") /\ UNCHANGED running))
    BY <1>7, <1>0 DEF Done
  <2> QED BY <2>1, GoesDoes, EndedDoes
<1>8. CASE Check(c)
  <2>1. /\ __result'[c] = None /\ running = c
        /\ \/ Ended(c)
           \/ /\ Goes(c, "send") /\ Usable(c) /\ UNCHANGED <<__sock, __authcoroutine, running>>
    BY <1>8, <1>0 DEF Check, Raise
  <2> QED BY <2>1, GoesDoes, EndedDoes DEF Usable
<1>9. CASE Send(c)
  <2>1. UNCHANGED <<__sock, __authcoroutine, __result>> /\ running = c /\ at[c] = "send"
    BY <1>9 DEF Send
  <2>2. Ended(c) \/ Goes(c, "response") \/ UNCHANGED <<at, running>>
    BY <1>9 DEF Send
  <2> QED BY <2>1, <2>2, <1>0, <1>12, GoesDoes, EndedDoes DEF Usable
<1>10. CASE Answered(c)
  <2>1. __result'[c] = None /\ running = c
    BY <1>10 DEF Answered, TypeOK
  <2>2. \/ Ended(c)
        \/ UNCHANGED running /\ \E p \in {"enter", "connect", "done"} : Goes(c, p)
    BY <1>10 DEF Answered, Raise
  <2> QED BY <2>1, <2>2, GoesDoes, EndedDoes
<1>11. CASE Close(c) \/ ChangeHost(c)
  <2>1. UNCHANGED <<callerVars, __result>> /\ at[c] = "idle"
    BY <1>11 DEF Close, ChangeHost, MayClose
  <2> QED BY <2>1, <1>0 DEF callerVars
<1> QED BY <1>1, <1>2, <1>3, <1>4, <1>5, <1>6, <1>7, <1>8, <1>9, <1>10, <1>11 DEF CallerStep

-----------------------------------------------------------------------------
(* What the dispatch coroutine tells the callers.                           *)

\* a caller is left alone
Untold(c) ==
  /\ __result'[c] = __result[c]
  /\ c \in Range(wakeup_queue') <=> c \in Range(wakeup_queue)
  /\ Single(wakeup_queue, c) => Single(wakeup_queue', c)
  /\ Listens(c)' <=> Listens(c)

\* or it has its result and is woken
ToldNow(c) ==
  /\ Listens(c) /\ ~Listens(c)'
  /\ __result'[c] # None
  /\ __result'[c].kind \in {"answer", "refusal"} => __result'[c].r = request[c]
  /\ c \in Range(wakeup_queue')
  /\ Single(wakeup_queue, c) /\ c \notin Range(wakeup_queue) => Single(wakeup_queue', c)

\* Whoever reads is the dispatch coroutine of the channel, and alone.
LEMMA ReaderAlone ==
  ASSUME SocketChannelAssumption, TypeOK, Dispatched, NEW t \in Fds, reader[t] \in {"loop", "pop", "read"}
  PROVE  /\ t = __dispatch_thread
         /\ \A u \in Fds \ {t} : reads[u] = NoOne
         /\ \A c \in Callers :
              Listens(c) <=> reads[t].co = c \/ \E i \in DOMAIN pending : pending[i].co = c
<1>1. t = __dispatch_thread
  BY DEF Dispatched, OneReader
<1>2. \A u \in Fds \ {t} : reads[u] = NoOne
  BY <1>1 DEF Dispatched, OneReader
<1>3. \A c \in Callers : NoOne.co # c
  BY Kinds DEF NoOne
<1> QED BY <1>1, <1>2, <1>3 DEF Listens

\* Who listens sleeps in wait_for_response.
LEMMA ListenerSleeps ==
  ASSUME SocketChannelAssumption, TypeOK, Entries, NEW c \in Callers, Listens(c)
  PROVE  /\ at[c] = "response" /\ running # c /\ __result[c] = None /\ Sleeping(c)
         /\ \A t \in Fds : reads[t].co = c => reads[t] \in Entry /\ reads[t].r = request[c]
         /\ \A i \in DOMAIN pending : pending[i].co = c => pending[i] \in Entry /\ pending[i].r = request[c]
<1>1. \A t \in Fds : reads[t] \in Entry \cup {NoOne}
  BY DEF TypeOK, Entry
<1>2. \A i \in DOMAIN pending : pending[i] \in Entry \cup {Signal}
  BY DEF TypeOK, Entry
<1>3. Signal.co # c /\ NoOne.co # c
  BY Kinds DEF NoOne
<1>4. \A t \in Fds : reads[t].co = c => reads[t] \in Entry /\ Owed(reads[t])
  BY <1>1, <1>3 DEF Entries
<1>5. \A i \in DOMAIN pending : pending[i].co = c => pending[i] \in Entry /\ Owed(pending[i])
  BY <1>2, <1>3 DEF Entries
<1> QED BY <1>4, <1>5 DEF Listens, Owed, Sleeping

\* At the end of a dispatch coroutine everyone who listens is told.
LEMMA EndTells ==
  ASSUME SocketChannelAssumption, TypeOK, Dispatched, Entries, NEW t \in Fds,
         reader[t] \in {"loop", "pop", "read"},
         pending' = <<>>, reads'[t] = NoOne, \A u \in Fds \ {t} : reads'[u] = reads[u],
         NEW tokens, Wakes(tokens),
         \A c \in Callers : c \in Range(tokens) <=> Listens(c),
         \A c \in Callers : Single(tokens, c),
         \A c \in Callers : ~Listens(c) => __result'[c] = __result[c],
         \A c \in Callers : Listens(c) =>
           /\ __result'[c] # None
           /\ __result'[c].kind \in {"answer", "refusal"} => __result'[c].r = request[c],
         NEW c \in Callers
  PROVE  Untold(c) \/ ToldNow(c)
<1>1. ~Listens(c)'
  <2>1. \A u \in Fds : reads'[u] = NoOne
    BY ReaderAlone
  <2>2. NoOne.co # c
    BY Kinds DEF NoOne
  <2>3. \A i \in DOMAIN pending' : FALSE
    OBVIOUS
  <2> QED BY <2>1, <2>2, <2>3 DEF Listens
<1>2. CASE Listens(c)
  BY <1>1, <1>2, ListenerSleeps DEF ToldNow, Wakes
<1>3. CASE ~Listens(c)
  BY <1>1, <1>3 DEF Untold, Wakes
<1> QED BY <1>2, <1>3

\* Nothing that a caller looks at has changed.
LEMMA QuietTells ==
  ASSUME UNCHANGED <<__result, wakeup_queue, pending, reads>>, NEW c \in Callers
  PROVE  Untold(c)
BY DEF Untold, Listens

\* The entry that an answer is for, and the others.
LEMMA AnswerIsFor ==
  ASSUME SocketChannelAssumption, TypeOK, Unused, Dispatched, Entries, InOrder, NEW t \in Fds,
         reader[t] = "read", arrived[t] # <<>>,
         EntryOf(t, Head(arrived[t])) # NoOne
  PROVE  LET entry == EntryOf(t, Head(arrived[t]))
         IN  /\ entry \in Entry /\ entry.r = Head(arrived[t]).r
             /\ Listens(entry.co) /\ request[entry.co] = entry.r
             /\ Left(entry) \in Seq(Entry \cup {Signal})
             /\ mode = "order" => entry = reads[t] /\ Left(entry) = pending
             /\ mode # "order" => reads[t] = NoOne
             /\ \A i, j \in DOMAIN Left(entry) :
                  Left(entry)[i].co = Left(entry)[j].co /\ Left(entry)[i] # Signal => i = j
             /\ \A i \in DOMAIN Left(entry) :
                  Left(entry)[i].co # entry.co /\ \E j \in DOMAIN pending : Left(entry)[i] = pending[j]
             /\ \A c \in Callers : Listens(c) <=>
                  c = entry.co \/ \E i \in DOMAIN Left(entry) : Left(entry)[i].co = c
<1> DEFINE answer == Head(arrived[t])
           entry == EntryOf(t, answer)
<1>1. arrived[t] \in Seq([kind : {"answer", "refusal", "garbage"}, r : Requests])
  BY DEF TypeOK
<1>2. answer.r \in Requests /\ answer = arrived[t][1] /\ Len(arrived[t]) \in Nat /\ Len(arrived[t]) >= 1
  <2> DEFINE a == arrived[t]
  <2>1. a \in Seq([kind : {"answer", "refusal", "garbage"}, r : Requests]) /\ a # <<>>
    BY <1>1
  <2> HIDE DEF a
  <2>2. Head(a) \in [kind : {"answer", "refusal", "garbage"}, r : Requests]
    BY <2>1, HeadTailProperties
  <2>3. Len(a) \in Nat /\ Len(a) # 0
    BY <2>1, EmptySeq
  <2>4. Len(a) >= 1 /\ Head(a) = a[1]
    BY <2>1, <2>3
  <2> QED BY <2>2, <2>3, <2>4 DEF a
<1> HIDE DEF answer
<1>3. /\ entry \in Entry
      /\ mode = "order" => entry = reads[t]
      /\ mode # "order" => entry \in Range(pending) /\ entry.r = answer.r
  BY <1>2, EntryOfIs DEF answer
<1> HIDE DEF entry
<1>4. pending \in Seq(Entry \cup {Signal})
  BY DEF TypeOK, Entry
<1>5. entry # Signal /\ entry.co \in Callers /\ entry.co # Nil
  BY <1>3, Kinds
<1>6. /\ Left(entry) \in Seq(Entry \cup {Signal})
      /\ \A i \in DOMAIN Left(entry) : \E j \in DOMAIN pending : Left(entry)[i] = pending[j] /\ pending[j] # entry
      /\ \A j \in DOMAIN pending : pending[j] # entry => \E i \in DOMAIN Left(entry) : Left(entry)[i] = pending[j]
      /\ \A x : Single(pending, x) => Single(Left(entry), x)
      /\ entry \notin Range(pending) => Left(entry) = pending
  BY <1>4, LeftIs
<1> DEFINE q == Left(entry)
<1> HIDE DEF q
<1>7. \A i, j \in DOMAIN q : q[i].co = q[j].co /\ q[i] # Signal => i = j
  <2> SUFFICES ASSUME NEW i \in DOMAIN q, NEW j \in DOMAIN q, q[i].co = q[j].co, q[i] # Signal
               PROVE  i = j
    OBVIOUS
  <2>1. PICK k \in DOMAIN pending : q[i] = pending[k]
    BY <1>6 DEF q
  <2>2. PICK l \in DOMAIN pending : q[j] = pending[l]
    BY <1>6 DEF q
  <2>3. k = l
    BY <2>1, <2>2 DEF Entries
  <2>4. Single(pending, q[i])
    BY <2>1 DEF Entries, Single
  <2>5. Single(q, q[i])
    BY <2>4, <1>6 DEF q
  <2> QED BY <2>1, <2>2, <2>3, <2>5 DEF Single
<1>8. CASE mode = "order"
  <2>1. entry = reads[t] /\ reads[t] # NoOne
    BY <1>3, <1>5, <1>8 DEF NoOne
  <2>2. \A i \in DOMAIN pending : pending[i].co # entry.co
    BY <2>1 DEF Entries
  <2>3. entry \notin Range(pending)
    BY <2>2 DEF Range
  <2>4. q = pending
    BY <2>3, <1>6 DEF q
  <2>5. entry.r = answer.r
    <3>1. t = __dispatch_thread /\ link[t] # "lost"
      BY ReaderAlone DEF Unused
    <3>2. /\ Coming(t) \in Nat /\ Coming(t) >= 1
      <4>1. asked[t] \in Seq(Requests)
        BY DEF TypeOK
      <4>2. Len(asked[t]) \in Nat
        BY <4>1
      <4> DEFINE m == Len(arrived[t])
                 n == Len(asked[t])
      <4>3. m \in Nat /\ m >= 1 /\ n \in Nat /\ Coming(t) = m + n
        BY <1>2, <4>2 DEF Coming
      <4> HIDE DEF m, n
      <4> QED BY <4>3
    <3>3. 1 \in 1 .. Coming(t)
      BY <3>2
    <3>4. AnswerAt(t, 1) = EntryAt(t, 1)
      BY <1>8, <3>1, <3>3 DEF InOrder
    <3>5. AnswerAt(t, 1) = answer.r
      BY <1>2 DEF AnswerAt
    <3>6. EntryAt(t, 1) = reads[t].r
      BY <2>1 DEF EntryAt, Behind
    <3> QED BY <2>1, <3>4, <3>5, <3>6
  <2>6. Listens(entry.co)
    BY <2>1 DEF Listens
  <2>7. request[entry.co] = entry.r
    BY <2>1 DEF Entries, Owed
  <2>8. \A c \in Callers : Listens(c) <=> c = entry.co \/ \E i \in DOMAIN q : q[i].co = c
    BY <2>1, <2>4, ReaderAlone
  <2> QED BY <1>3, <1>6, <1>7, <1>8, <2>1, <2>2, <2>4, <2>5, <2>6, <2>7, <2>8 DEF q, answer, entry
<1>9. CASE mode # "order"
  <2>1. reads[t] = NoOne
    BY <1>9 DEF Dispatched
  <2>2. PICK k \in DOMAIN pending : pending[k] = entry
    BY <1>3, <1>9 DEF Range
  <2>3. Listens(entry.co)
    BY <2>2 DEF Listens
  <2>4. request[entry.co] = entry.r
    BY <2>2, <1>5 DEF Entries, Owed
  <2>5. \A j \in DOMAIN pending : pending[j].co = entry.co => pending[j] = entry
    BY <2>2, <1>5 DEF Entries
  <2>6. \A i \in DOMAIN q : q[i].co # entry.co /\ \E j \in DOMAIN pending : q[i] = pending[j]
    BY <2>5, <1>6 DEF q
  <2>7. \A c \in Callers : NoOne.co # c
    BY Kinds DEF NoOne
  <2>8. ASSUME NEW c \in Callers
        PROVE  Listens(c) <=> c = entry.co \/ \E i \in DOMAIN q : q[i].co = c
    <3>1. Listens(c) <=> \E i \in DOMAIN pending : pending[i].co = c
      BY <2>1, <2>7, ReaderAlone
    <3>2. (\E i \in DOMAIN pending : pending[i].co = c) => c = entry.co \/ \E i \in DOMAIN q : q[i].co = c
      BY <1>6 DEF q
    <3>3. (\E i \in DOMAIN q : q[i].co = c) => \E i \in DOMAIN pending : pending[i].co = c
      BY <2>6
    <3> QED BY <3>1, <3>2, <3>3, <2>2
  <2> QED BY <1>3, <1>6, <1>7, <1>9, <2>1, <2>3, <2>4, <2>6, <2>8 DEF q, answer, entry
<1> QED BY <1>8, <1>9

\* One caller before others who are not it.
LEMMA FirstThen ==
  ASSUME NEW k \in Callers, NEW p \in Seq(Callers), k \notin Range(p),
         \A c \in Callers : Single(p, c)
  PROVE  /\ <<k>> \o p \in Seq(Callers)
         /\ \A c \in Callers : c \in Range(<<k>> \o p) <=> c = k \/ c \in Range(p)
         /\ \A c \in Callers : Single(<<k>> \o p, c)
<1> DEFINE o == <<k>>
           w == o \o p
<1>1. o \in Seq(Callers) /\ Len(o) = 1 /\ o[1] = k /\ Range(o) = {k}
  BY DEF Range
<1> HIDE DEF o
<1>2. /\ w \in Seq(Callers) /\ Len(w) = Len(o) + Len(p)
      /\ \A i \in 1 .. Len(o) + Len(p) : w[i] = IF i <= Len(o) THEN o[i] ELSE p[i - Len(o)]
  BY <1>1, ConcatProperties
<1>3. Range(w) = {k} \cup Range(p)
  <2>1. Range(w) = Range(o) \cup Range(p)
    BY <1>1, RangeConcatenation
  <2> QED BY <2>1, <1>1
<1>4. Len(p) \in Nat /\ DOMAIN p = 1 .. Len(p) /\ DOMAIN w = 1 .. Len(w)
  BY <1>2
<1> DEFINE n == Len(p)
<1>5. /\ n \in Nat /\ DOMAIN p = 1 .. n /\ DOMAIN w = 1 .. 1 + n
      /\ \A i \in 1 .. 1 + n : w[i] = IF i <= 1 THEN o[i] ELSE p[i - 1]
  BY <1>1, <1>2, <1>4
<1> HIDE DEF w, n
<1>6. ASSUME NEW c \in Callers PROVE Single(w, c)
  <2> SUFFICES ASSUME NEW i \in 1 .. 1 + n, NEW j \in 1 .. 1 + n, w[i] = c, w[j] = c
               PROVE  i = j
    BY <1>5 DEF Single
  <2>1. \A l \in 1 .. 1 + n : ~(l <= 1) => l - 1 \in 1 .. n /\ w[l] = p[l - 1]
    BY <1>5
  <2>2. \A l \in 1 .. n : p[l] # k
    BY <1>5 DEF Range
  <2>3. \A l \in 1 .. 1 + n : l <= 1 => l = 1 /\ w[l] = k
    BY <1>1, <1>5
  <2>4. CASE c = k
    BY <2>1, <2>2, <2>3, <2>4
  <2>5. CASE c # k
    <3>1. /\ i - 1 \in 1 .. n /\ p[i - 1] = c
          /\ j - 1 \in 1 .. n /\ p[j - 1] = c
      BY <2>1, <2>3, <2>5
    <3>2. i - 1 = j - 1
      BY <3>1, <1>5 DEF Single
    <3> QED BY <3>2, <1>5
  <2> QED BY <2>4, <2>5
<1> QED BY <1>2, <1>3, <1>6 DEF w, o

\* A step of a dispatch coroutine tells some and leaves the others alone.
LEMMA DispatchTells ==
  ASSUME SocketChannelAssumption, TypeOK, Unused, Dispatched, Entries, InOrder,
         NEW t \in Fds, DispatchStep(t)
  PROVE  \A c \in Callers : Untold(c) \/ ToldNow(c)
<1>0. pending \in Seq(Entry \cup {Signal}) /\ \A c \in Callers : NoOne.co # c
  BY Kinds DEF TypeOK, Entry, NoOne
<1>1. CASE RunFork(t) \/ ReadBySession(t) \/ ReadWaits(t)
  BY <1>1, QuietTells DEF RunFork, ReadBySession, ReadWaits, channelVars, readerVars
<1>2. CASE pop_response(t)
  <2>1. reader[t] \in {"loop", "pop"} /\ running = t
    BY <1>2 DEF pop_response
  <2>2. reads[t] = NoOne
    BY <2>1 DEF Dispatched
  <2>3. CASE EndDispatch(t, Nil, None, pending, "message") /\ Wake(CallersOf(pending))
    <3>1. /\ reads'[t] = NoOne /\ pending' = <<>>
          /\ \A u \in Fds \ {t} : reads'[u] = reads[u]
          /\ \A c \in Callers :
               __result'[c] = IF c = Nil THEN None
                              ELSE IF \E i \in DOMAIN pending : pending[i].co = c
                                   THEN Result("message", 0) ELSE __result[c]
      BY <1>0, <2>3, EndDispatchDoes
    <3>2. /\ CallersOf(pending) \in Seq(Callers)
          /\ \A c \in Callers :
               c \in Range(CallersOf(pending)) <=> \E i \in DOMAIN pending : pending[i].co = c
          /\ \A c \in Callers : Single(CallersOf(pending), c)
      <4>1. \A c \in Callers : \A i, j \in DOMAIN pending : pending[i].co = c /\ pending[j].co = c => i = j
        BY <1>0, Kinds DEF Entries
      <4> QED BY <1>0, <4>1, CallersOfIs
    <3>3. \A c \in Callers : c \in Range(CallersOf(pending)) <=> Listens(c)
      BY <1>0, <2>1, <2>2, <3>2, ReaderAlone
    <3>4. Wakes(CallersOf(pending))
      BY <2>3, <3>2, WakeTokens
    <3>5. \A c \in Callers : c # Nil
      BY Kinds
    <3>6. /\ \A c \in Callers : ~Listens(c) => __result'[c] = __result[c]
          /\ \A c \in Callers : Listens(c) => __result'[c] = Result("message", 0)
      BY <3>1, <3>2, <3>3, <3>5
    <3>7. Result("message", 0) # None /\ Result("message", 0).kind = "message"
      BY DEF Result, None
    <3>8. \A c \in Callers : Listens(c) =>
            /\ __result'[c] # None
            /\ __result'[c].kind \in {"answer", "refusal"} => __result'[c].r = request[c]
      BY <3>6, <3>7
    <3> QED BY <2>1, <3>1, <3>2, <3>3, <3>4, <3>6, <3>8, EndTells
  <2>4. CASE /\ pending # <<>> /\ Head(pending) # Signal
             /\ reads' = [reads EXCEPT ![t] = Head(pending)] /\ pending' = Tail(pending)
             /\ UNCHANGED <<__result, wakeup_queue>>
    <3> SUFFICES ASSUME NEW c \in Callers PROVE Listens(c)' <=> Listens(c)
      BY <2>4 DEF Untold
    <3> DEFINE n == Len(pending)
    <3>1. /\ n \in Nat /\ n >= 1 /\ Head(pending) = pending[1] /\ DOMAIN pending = 1 .. n
          /\ DOMAIN Tail(pending) = 1 .. (n - 1)
          /\ \A i \in 1 .. (n - 1) : Tail(pending)[i] = pending[i + 1]
      BY <1>0, <2>4
    <3>2. reads'[t] = pending[1] /\ \A u \in Fds \ {t} : reads'[u] = reads[u]
      BY <2>4, <3>1 DEF TypeOK
    <3>3. Listens(c) <=> \E i \in 1 .. n : pending[i].co = c
      BY <1>0, <2>1, <2>2, <3>1, ReaderAlone
    <3>4. Listens(c)' <=> pending[1].co = c \/ \E i \in 1 .. (n - 1) : pending[i + 1].co = c
      <4>1. \A u \in Fds \ {t} : reads'[u].co # c
        BY <1>0, <2>1, <3>2, ReaderAlone
      <4>2. Listens(c)' <=> (\E u \in Fds : reads'[u].co = c)
                             \/ \E i \in DOMAIN pending' : pending'[i].co = c
        BY DEF Listens
      <4>3. (\E u \in Fds : reads'[u].co = c) <=> pending[1].co = c
        BY <4>1, <3>2
      <4>4. (\E i \in DOMAIN pending' : pending'[i].co = c) <=> \E i \in 1 .. (n - 1) : pending[i + 1].co = c
        BY <2>4, <3>1
      <4> QED BY <4>2, <4>3, <4>4
    <3> HIDE DEF n
    <3>5. \A i \in 1 .. n : i = 1 \/ (i - 1 \in 1 .. (n - 1) /\ (i - 1) + 1 = i)
      BY <3>1
    <3>6. 1 \in 1 .. n /\ \A i \in 1 .. (n - 1) : i + 1 \in 1 .. n
      BY <3>1
    <3>7. (\E i \in 1 .. n : pending[i].co = c)
            <=> pending[1].co = c \/ \E i \in 1 .. (n - 1) : pending[i + 1].co = c
      <4>1. ASSUME NEW i \in 1 .. n, pending[i].co = c
            PROVE  pending[1].co = c \/ \E j \in 1 .. (n - 1) : pending[j + 1].co = c
        BY <3>5, <4>1
      <4> QED BY <4>1, <3>6
    <3> QED BY <3>3, <3>4, <3>7
  <2>5. CASE UNCHANGED <<reads, pending, __result, wakeup_queue>>
    BY <2>5, QuietTells
  <2> QED BY <1>2, <2>3, <2>4, <2>5 DEF pop_response
<1>3. CASE ReadAnswer(t)
  <2> DEFINE answer == Head(arrived[t])
             entry == EntryOf(t, answer)
             result == Result(answer.kind, answer.r)
             q == Left(entry)
  <2>1. /\ reader[t] = "read" /\ arrived[t] # <<>> /\ answer.kind # "garbage" /\ entry # NoOne
        /\ \/ /\ EndDispatch(t, entry.co, result, q, "message")
              /\ Wake(<<entry.co>> \o CallersOf(q))
           \/ /\ __result' = [__result EXCEPT ![entry.co] = result]
              /\ pending' = q /\ Wake(<<entry.co>>)
              /\ reads' = [reads EXCEPT ![t] = NoOne]
    BY <1>3 DEF ReadAnswer
  <2>2. /\ entry \in Entry /\ entry.r = answer.r
        /\ Listens(entry.co) /\ request[entry.co] = entry.r
        /\ q \in Seq(Entry \cup {Signal})
        /\ mode = "order" => entry = reads[t] /\ q = pending
        /\ mode # "order" => reads[t] = NoOne
        /\ \A i, j \in DOMAIN q : q[i].co = q[j].co /\ q[i] # Signal => i = j
        /\ \A i \in DOMAIN q : q[i].co # entry.co /\ \E j \in DOMAIN pending : q[i] = pending[j]
        /\ \A c \in Callers : Listens(c) <=> (c = entry.co \/ \E i \in DOMAIN q : q[i].co = c)
    BY <2>1, AnswerIsFor
  <2>3. entry.co \in Callers
    BY <2>2, Kinds
  <2>4. result.kind \in {"answer", "refusal"} /\ result.r = answer.r /\ result # None
    <3>1. arrived[t] \in Seq([kind : {"answer", "refusal", "garbage"}, r : Requests])
      BY DEF TypeOK
    <3>2. answer \in [kind : {"answer", "refusal", "garbage"}, r : Requests]
      BY <2>1, <3>1, HeadTailProperties
    <3> HIDE DEF answer
    <3> QED BY <2>1, <3>2 DEF Result, None
  <2> HIDE DEF answer, entry, result, q
  <2>5. CASE /\ EndDispatch(t, entry.co, result, q, "message")
             /\ Wake(<<entry.co>> \o CallersOf(q))
    <3> DEFINE tokens == <<entry.co>> \o CallersOf(q)
    <3>1. /\ reads'[t] = NoOne /\ pending' = <<>>
          /\ \A u \in Fds \ {t} : reads'[u] = reads[u]
          /\ \A c \in Callers :
               __result'[c] = IF c = entry.co THEN result
                              ELSE IF \E i \in DOMAIN q : q[i].co = c
                                   THEN Result("message", 0) ELSE __result[c]
      BY <2>2, <2>5, EndDispatchDoes
    <3>2. /\ CallersOf(q) \in Seq(Callers)
          /\ \A c \in Callers : c \in Range(CallersOf(q)) <=> \E i \in DOMAIN q : q[i].co = c
          /\ \A c \in Callers : Single(CallersOf(q), c)
      <4>1. \A c \in Callers : \A i, j \in DOMAIN q : q[i].co = c /\ q[j].co = c => i = j
        BY <2>2, Kinds
      <4> QED BY <2>2, <4>1, CallersOfIs
    <3>3. /\ tokens \in Seq(Callers)
          /\ \A c \in Callers : c \in Range(tokens) <=> (c = entry.co \/ c \in Range(CallersOf(q)))
          /\ \A c \in Callers : Single(tokens, c)
      <4>1. entry.co \notin Range(CallersOf(q))
        BY <2>2, <2>3, <3>2
      <4> QED BY <2>3, <3>2, <4>1, FirstThen
    <3>4. Wakes(tokens)
      BY <2>5, <3>3, WakeTokens
    <3> HIDE DEF tokens
    <3>5. \A c \in Callers : c \in Range(tokens) <=> Listens(c)
      BY <2>2, <3>2, <3>3
    <3>6. \A c \in Callers : ~Listens(c) => __result'[c] = __result[c]
      BY <2>2, <3>1
    <3>7. Result("message", 0) # None /\ Result("message", 0).kind = "message"
      BY DEF Result, None
    <3>8. \A c \in Callers : Listens(c) =>
            /\ __result'[c] # None
            /\ __result'[c].kind \in {"answer", "refusal"} => __result'[c].r = request[c]
      BY <2>2, <2>4, <3>1, <3>7
    <3> QED BY <2>1, <3>1, <3>3, <3>4, <3>5, <3>6, <3>8, EndTells
  <2>6. CASE /\ __result' = [__result EXCEPT ![entry.co] = result]
             /\ pending' = q /\ Wake(<<entry.co>>)
             /\ reads' = [reads EXCEPT ![t] = NoOne]
    <3>1. /\ __result'[entry.co] = result
          /\ \A c \in Callers \ {entry.co} : __result'[c] = __result[c]
      BY <2>3, <2>6 DEF TypeOK
    <3>2. \A u \in Fds : reads'[u] = NoOne
      BY <2>1, <2>6, ReaderAlone DEF TypeOK
    <3>3. \A c \in Callers : Listens(c)' <=> \E i \in DOMAIN q : q[i].co = c
      BY <1>0, <2>6, <3>2 DEF Listens
    <3>4. /\ <<entry.co>> \in Seq(Callers)
          /\ \A c \in Callers : c \in Range(<<entry.co>>) <=> c = entry.co
          /\ \A c \in Callers : Single(<<entry.co>>, c)
      BY <2>3 DEF Range, Single
    <3>5. Wakes(<<entry.co>>)
      BY <2>6, <3>4, WakeTokens
    <3>6. Sleeping(entry.co)
      BY <2>2, <2>3, ListenerSleeps
    <3>7. ASSUME NEW c \in Callers, c = entry.co PROVE ToldNow(c)
      <4>1. Listens(c) /\ ~Listens(c)'
        BY <2>2, <3>3, <3>7
      <4>2. result.r = request[c]
        BY <2>2, <2>4, <3>7
      <4>3. c \in Range(<<entry.co>>) /\ Single(<<entry.co>>, c)
        BY <3>4, <3>7
      <4>4. /\ c \in Range(wakeup_queue')
            /\ Single(wakeup_queue, c) /\ c \notin Range(wakeup_queue)
                 => Single(wakeup_queue', c)
        BY <3>5, <3>6, <3>7, <4>3 DEF Wakes
      <4> QED BY <2>4, <3>1, <3>7, <4>1, <4>2, <4>4 DEF ToldNow
    <3>8. ASSUME NEW c \in Callers, c # entry.co PROVE Untold(c)
      BY <2>2, <3>1, <3>3, <3>4, <3>5, <3>8 DEF Untold, Wakes
    <3> QED BY <3>7, <3>8
  <2> QED BY <2>1, <2>5, <2>6
<1>4. CASE ReadFails(t)
  <2> DEFINE first == IF reads[t] = NoOne THEN <<>> ELSE <<reads[t].co>>
             tokens == first \o CallersOf(pending)
  <2>1. reader[t] = "read" /\ CloseSocket(tokens)
    BY <1>4 DEF ReadFails
  <2>2. PICK kind \in {"message", "socket_error"} :
          EndDispatch(t, reads[t].co, Result(kind, 0), pending, kind)
    BY <1>4 DEF ReadFails
  <2>3. /\ reads'[t] = NoOne /\ pending' = <<>>
        /\ \A u \in Fds \ {t} : reads'[u] = reads[u]
        /\ \A c \in Callers :
             __result'[c] = IF c = reads[t].co THEN Result(kind, 0)
                            ELSE IF \E i \in DOMAIN pending : pending[i].co = c
                                 THEN Result(kind, 0) ELSE __result[c]
    BY <1>0, <2>2, EndDispatchDoes
  <2>4. /\ CallersOf(pending) \in Seq(Callers)
        /\ \A c \in Callers :
             c \in Range(CallersOf(pending)) <=> \E i \in DOMAIN pending : pending[i].co = c
        /\ \A c \in Callers : Single(CallersOf(pending), c)
    <3>1. \A c \in Callers : \A i, j \in DOMAIN pending : pending[i].co = c /\ pending[j].co = c => i = j
      BY <1>0, Kinds DEF Entries
    <3> QED BY <1>0, <3>1, CallersOfIs
  <2>5. \A c \in Callers : Listens(c) <=> c = reads[t].co \/ c \in Range(CallersOf(pending))
    BY <2>1, <2>4, ReaderAlone
  <2>6. /\ tokens \in Seq(Callers)
        /\ \A c \in Callers :
             c \in Range(tokens) <=> (c = reads[t].co \/ c \in Range(CallersOf(pending)))
        /\ \A c \in Callers : Single(tokens, c)
    <3>1. CASE reads[t] = NoOne
      <4>1. tokens = CallersOf(pending)
        BY <2>4, <3>1, ConcatEmptySeq
      <4>2. \A c \in Callers : c # reads[t].co
        BY <1>0, <3>1
      <4> QED BY <2>4, <4>1, <4>2
    <3>2. CASE reads[t] # NoOne
      <4>1. reads[t].co \in Callers
        BY <3>2, Kinds DEF TypeOK, Entry
      <4>2. reads[t].co \notin Range(CallersOf(pending))
        BY <2>4, <3>2, <4>1 DEF Entries
      <4>3. tokens = <<reads[t].co>> \o CallersOf(pending)
        BY <3>2
      <4> HIDE DEF tokens
      <4> QED BY <2>4, <4>1, <4>2, <4>3, FirstThen
    <3> QED BY <3>1, <3>2
  <2> HIDE DEF tokens
  <2>7. Wakes(tokens)
    BY <2>1, <2>6, CloseDoes
  <2>8. Result(kind, 0) # None /\ Result(kind, 0).kind \notin {"answer", "refusal"}
    BY DEF Result, None
  <2>9. /\ \A c \in Callers : ~Listens(c) => __result'[c] = __result[c]
        /\ \A c \in Callers : Listens(c) => __result'[c] = Result(kind, 0)
    BY <2>3, <2>4, <2>5
  <2>10. \A c \in Callers : Listens(c) =>
           /\ __result'[c] # None
           /\ __result'[c].kind \in {"answer", "refusal"} => __result'[c].r = request[c]
    BY <2>8, <2>9
  <2>11. \A c \in Callers : c \in Range(tokens) <=> Listens(c)
    BY <2>5, <2>6
  <2> QED BY <2>1, <2>3, <2>6, <2>7, <2>9, <2>10, <2>11, EndTells
<1> QED BY <1>1, <1>2, <1>3, <1>4 DEF DispatchStep

-----------------------------------------------------------------------------
(* What the step of a caller does to the channel.                           *)

\* no dispatch coroutine is still to start
NoFork == \A t \in Fds : reader[t] # "forked"

\* It leaves the entries alone,
Leaves(c) ==
  /\ UNCHANGED <<pending, asked, __dispatch_thread, reader>> /\ at'[c] # "response"
  /\ __sock' = __sock \/ (__sock' = 0 /\ NoFork)
  /\ __authcoroutine' \in {__authcoroutine, Nil}

\* or signals the end of the dispatch coroutine,
Signals(c) ==
  /\ pending' = Append(pending, Signal) /\ __dispatch_thread # 0
  /\ __sock' = 0 /\ NoFork /\ at'[c] # "response"
  /\ UNCHANGED <<asked, __dispatch_thread, reader, __authcoroutine>>

\* or writes a request and waits for the answer,
Sends(c) ==
  /\ at[c] = "send" /\ at'[c] = "response" /\ running = c /\ running' = 0
  /\ requests + 1 \in Requests /\ request'[c] = requests + 1
  /\ asked' = [asked EXCEPT ![__sock] = Append(@, requests + 1)]
  /\ pending' = Append(pending, [r |-> requests + 1, co |-> c])
  /\ UNCHANGED <<__sock, __authcoroutine, __dispatch_thread, __result, reader>>

\* or has a new connection, whose dispatch coroutine is to start.
Connects(c) ==
  /\ at[c] = "yield" /\ at'[c] # "response" /\ __dispatch_thread = 0
  /\ fd[c] \in Fds /\ reader[fd[c]] = "none"
  /\ __sock' = fd[c] /\ __dispatch_thread' = fd[c]
  /\ reader' = [reader EXCEPT ![fd[c]] = "forked"]
  /\ __authcoroutine' \in {__authcoroutine, c}
  /\ UNCHANGED <<pending, asked, __result>>

\* A caller leaves the connection and who waits for an answer alone, signals the dispatch
\* coroutine, sends a request or has a new connection.
LEMMA CallerEffects ==
  ASSUME SocketChannelAssumption, ~EarlyClose, TypeOK, OneMaker, Dispatched,
         NEW c \in Callers, CallerStep(c)
  PROVE  Leaves(c) \/ Signals(c) \/ Sends(c) \/ Connects(c)
<1>0. (__sock = 0 => NoFork) /\ (__authcoroutine = c /\ __result[c] # None => NoFork)
  BY Kinds DEF Dispatched, NoFork
<1>1. CASE Begin(c) \/ Timer(c) \/ Finish(c) \/ YieldWhileDispatched(c)
  <2>1. UNCHANGED <<channelVars, callerVars, readerVars, socketVars>> /\ at[c] \in {"idle", "yield"}
    BY <1>1 DEF Begin, Finish, Timer, YieldWhileDispatched
  <2> QED BY <2>1 DEF channelVars, callerVars, readerVars, socketVars, Leaves
<1>2. ASSUME NEW t \in {"connect", "request", "response"}, Call(c, t)
      PROVE  Leaves(c)
  <2>1. /\ at'[c] = "enter"
        /\ UNCHANGED <<pending, asked, __dispatch_thread, reader, __sock, __authcoroutine>>
    BY <1>2, GoesDoes DEF Call, readerVars, socketVars
  <2> QED BY <2>1 DEF Leaves
<1>3. CASE Enter(c) \/ Check(c)
  <2>1. UNCHANGED <<pending, asked, __dispatch_thread, reader>>
    BY <1>3 DEF Enter, Check, readerVars, socketVars
  <2>2. CASE ~Usable(c) /\ Raise(c)
    <3>1. at'[c] = "idle"
      BY <2>2, EndedDoes DEF Raise
    <3>2. \/ __authcoroutine = c /\ __authcoroutine' = Nil /\ __sock' = 0
          \/ __authcoroutine # c /\ UNCHANGED <<__authcoroutine, __sock>>
      BY <2>2, RaiseDoes
    <3>3. __authcoroutine = c => __sock = 0
      BY <2>2 DEF Usable
    <3> QED BY <2>1, <3>1, <3>2, <3>3 DEF Leaves
  <2>3. CASE /\ UNCHANGED <<__sock, __authcoroutine>>
             /\ \E p \in {"send", "connecting", "connect"} : Goes(c, p)
    BY <2>1, <2>3, GoesDoes DEF Leaves
  <2> QED BY <1>3, <2>2, <2>3 DEF Enter, Check
<1>4. CASE Connect(c)
  <2>1. UNCHANGED <<pending, asked, __dispatch_thread, reader, __sock, __authcoroutine>>
    BY <1>4 DEF Connect, channelVars, readerVars
  <2>2. Ended(c) \/ Goes(c, "open") \/ Goes(c, "done")
    BY <1>4 DEF Connect
  <2> QED BY <2>1, <2>2, GoesDoes, EndedDoes DEF Leaves
<1>5. CASE Opened(c)
  <2>1. /\ UNCHANGED <<asked, __dispatch_thread, reader, __sock, __authcoroutine>>
        /\ at'[c] = "yield" /\ __sock = 0
    BY <1>5, GoesDoes DEF Opened, readerVars, socketVars, OneMaker
  <2>2. CASE HasDispatch
    <3>1. pending' = Append(pending, Signal) /\ __dispatch_thread # 0
      BY <1>5, <2>2 DEF Opened, push_response, HasDispatch
    <3> QED BY <1>0, <2>1, <3>1 DEF Signals
  <2>3. CASE ~HasDispatch
    BY <1>5, <2>1, <2>3 DEF Opened, Leaves
  <2> QED BY <2>2, <2>3
<1>6. CASE Yielded(c)
  <2>1. at'[c] # "response" /\ at[c] = "yield" /\ __dispatch_thread = 0
    BY <1>6, GoesDoes DEF Yielded, DispatchGone
  <2>2. fd[c] \in Fds /\ reader[fd[c]] = "none"
    BY <2>1 DEF OneMaker
  <2> QED BY <1>6, <2>1, <2>2 DEF Yielded, Connects, socketVars
<1>7. CASE Done(c)
  <2>1. UNCHANGED <<pending, asked, __dispatch_thread, reader, __sock, __authcoroutine>>
    BY <1>7 DEF Done, readerVars, socketVars
  <2>2. Ended(c) \/ Goes(c, "check")
    BY <1>7 DEF Done
  <2> QED BY <2>1, <2>2, GoesDoes, EndedDoes DEF Leaves
<1>8. CASE Send(c)
  <2>1. /\ UNCHANGED <<__dispatch_thread, reader, __sock, __authcoroutine, __result>>
        /\ running = c /\ at[c] = "send"
    BY <1>8 DEF Send, readerVars
  <2>2. \/ Ended(c) /\ UNCHANGED <<pending, asked>>
        \/ UNCHANGED <<at, pending, asked>>
        \/ /\ requests < MaxRequests
           /\ request' = [request EXCEPT ![c] = requests + 1]
           /\ asked' = [asked EXCEPT ![__sock] = Append(@, requests + 1)]
           /\ push_response([r |-> requests + 1, co |-> c]) /\ Goes(c, "response") /\ Suspend
    BY <1>8 DEF Send
  <2>3. CASE Ended(c) /\ UNCHANGED <<pending, asked>>
    BY <2>1, <2>3, EndedDoes DEF Leaves
  <2>4. CASE UNCHANGED <<at, pending, asked>>
    BY <2>1, <2>4 DEF Leaves
  <2>5. CASE /\ requests < MaxRequests
             /\ request' = [request EXCEPT ![c] = requests + 1]
             /\ asked' = [asked EXCEPT ![__sock] = Append(@, requests + 1)]
             /\ push_response([r |-> requests + 1, co |-> c]) /\ Goes(c, "response") /\ Suspend
    <3>1. requests + 1 \in Requests
      BY <2>5 DEF TypeOK, Requests, SocketChannelAssumption
    <3>2. request'[c] = requests + 1 /\ at'[c] = "response" /\ running' = 0
      BY <2>5, GoesDoes DEF TypeOK, Suspend
    <3>3. pending' = Append(pending, [r |-> requests + 1, co |-> c])
      BY <2>5 DEF push_response
    <3> QED BY <2>1, <2>5, <3>1, <3>2, <3>3 DEF Sends
  <2> QED BY <2>2, <2>3, <2>4, <2>5
<1>9. CASE Answered(c)
  <2>1. UNCHANGED <<pending, asked, __dispatch_thread, reader>>
    BY <1>9 DEF Answered, readerVars, socketVars
  <2>2. CASE Ended(c) /\ UNCHANGED <<__sock, __authcoroutine>>
    BY <2>1, <2>2, EndedDoes DEF Leaves
  <2>3. CASE /\ \E p \in {"enter", "connect", "done"} : Goes(c, p)
             /\ UNCHANGED __sock /\ __authcoroutine' \in {__authcoroutine, Nil}
    BY <2>1, <2>3, GoesDoes DEF Leaves
  <2>4. CASE /\ Authenticating(c) /\ __result[c].kind = "socket_error"
             /\ CloseSocket(<<>>) /\ __authcoroutine' = Nil /\ Goes(c, "done")
    <3>1. __result[c] # None
      BY <2>4 DEF None, Result
    <3> QED BY <1>0, <2>1, <2>4, <3>1, GoesDoes DEF Authenticating, CloseSocket, Leaves
  <2>5. CASE Authenticating(c) /\ __result[c].kind \in {"refusal", "message"} /\ Raise(c)
    <3>1. __result[c] # None
      BY <2>5 DEF None, Result
    <3>2. at'[c] = "idle" /\ __authcoroutine' = Nil /\ __sock' = 0
      BY <2>5, EndedDoes, RaiseDoes DEF Raise, Authenticating
    <3> QED BY <1>0, <2>1, <2>5, <3>1, <3>2 DEF Authenticating, Leaves
  <2> QED BY <1>9, <2>2, <2>3, <2>4, <2>5 DEF Answered
<1>10. CASE Close(c)
  <2>1. /\ UNCHANGED <<asked, __dispatch_thread, reader, __authcoroutine, at>>
        /\ at[c] = "idle" /\ __sock' = 0 /\ NoFork
    BY <1>10 DEF Close, MayClose, callerVars, readerVars, socketVars, NoFork
  <2> QED BY <1>10, <2>1 DEF Close, HasDispatch, Leaves, Signals
<1>11. CASE ChangeHost(c)
  <2>1. /\ UNCHANGED <<pending, asked, __dispatch_thread, reader, __authcoroutine, at>>
        /\ at[c] = "idle" /\ __sock' = 0 /\ NoFork
    BY <1>11 DEF ChangeHost, MayClose, CloseSocket, callerVars, readerVars, socketVars, NoFork
  <2> QED BY <2>1 DEF Leaves
<1> QED BY <1>1, <1>2, <1>3, <1>4, <1>5, <1>6, <1>7, <1>8, <1>9, <1>10, <1>11 DEF CallerStep

\* It takes no result along, and nobody's entry names it.
LEMMA CallerHasNone ==
  ASSUME SocketChannelAssumption, ~EarlyClose, TypeOK, Places, OneMaker, Dispatched, Entries,
         NEW c \in Callers, CallerStep(c)
  PROVE  /\ __result'[c] = None
         /\ ~Listens(c)
<1>1. __result'[c] = None
  <2>1. CASE at'[c] = "response"
    <3>1. Sends(c)
      BY <2>1, CallerEffects DEF Leaves, Signals, Connects
    <3> QED BY <3>1 DEF Sends, Places
  <2>2. CASE at'[c] # "response"
    BY <2>2, PlacesCaller
  <2> QED BY <2>1, <2>2
<1>2. ~Listens(c)
  BY CallerFrame, ListenerSleeps
<1> QED BY <1>1, <1>2

\* The steps that leave the channel and the callers alone.
LEMMA ResumeFrame ==
  ASSUME Resume
  PROVE  /\ UNCHANGED <<channelVars, callerVars, readerVars, socketVars, counts, crashed>>
         /\ running = 0 /\ wakeup_queue # <<>> /\ wakeup_queue' = Tail(wakeup_queue)
         /\ running' = IF Sleeping(Head(wakeup_queue)) THEN Head(wakeup_queue) ELSE 0
BY DEF Resume

\* Whatever happens, one of these does.
Steps ==
  \/ \E c \in Callers : CallerStep(c)
  \/ \E t \in Fds : DispatchStep(t)
  \/ Resume \/ SocketStep
  \/ UNCHANGED vars

\* Every step keeps Places.
LEMMA PlacesStep ==
  ASSUME SocketChannelAssumption, TypeOK, Places, Unused, Dispatched, Entries, InOrder, Steps
  PROVE  Places'
<1>1. ASSUME NEW c \in Callers, CallerStep(c) PROVE Places'
  <2>1. ASSUME NEW d \in Callers, d # c
        PROVE  /\ at'[d] \notin {"enter", "connect", "done", "check", "send"}
               /\ at'[d] # "response" => __result'[d] = None
    <3>1. at'[d] = at[d] /\ __result'[d] = __result[d] /\ running \in {c, 0}
      BY <1>1, <2>1, CallerFrame
    <3>2. running # d
      BY <2>1, <3>1, Kinds
    <3> QED BY <3>1, <3>2 DEF Places
  <2> QED BY <1>1, <2>1, PlacesCaller DEF Places
<1>2. ASSUME NEW t \in Fds, DispatchStep(t) PROVE Places'
  <2>1. UNCHANGED callerVars /\ \A c \in Callers : running # c
    BY <1>2, DispatchFrame
  <2>2. ASSUME NEW c \in Callers
        PROVE  /\ at'[c] \notin {"enter", "connect", "done", "check", "send"}
               /\ at'[c] # "response" => __result'[c] = None
    <3>1. at'[c] = at[c] /\ running # c
      BY <2>1 DEF callerVars
    <3>2. Untold(c) \/ ToldNow(c)
      BY <1>2, DispatchTells
    <3>3. ToldNow(c) => at[c] = "response"
      BY ListenerSleeps DEF ToldNow
    <3> QED BY <3>1, <3>2, <3>3 DEF Places, Untold
  <2> QED BY <2>2 DEF Places
<1>3. CASE Resume
  <2>1. UNCHANGED <<at, __result>> /\ \A c \in Callers : running # c
    BY <1>3, ResumeFrame, Kinds DEF channelVars, callerVars
  <2> QED BY <2>1 DEF Places
<1>4. CASE SocketStep \/ UNCHANGED vars
  <2>1. UNCHANGED <<channelVars, callerVars, running>>
    BY <1>4, SocketFrame DEF vars
  <2> QED BY <2>1 DEF Places, Usable, channelVars, callerVars
<1> QED BY <1>1, <1>2, <1>3, <1>4 DEF Steps

-----------------------------------------------------------------------------
(* One connection is made at a time.                                        *)

\* The step of a caller, for it and for the others.
Makes(c) ==
  /\ Maker(c)' => __connecting' # <<>> /\ (Maker(c) \/ __connecting = <<>>)
  /\ __connecting' = <<>> => __connecting = <<>> \/ Maker(c)
  /\ at'[c] \in Making => __authcoroutine' = Nil
  /\ at'[c] \in {"connect", "open", "yield"} => __sock' = 0
  /\ at'[c] \in {"open", "yield"} =>
       fd'[c] \in Fds /\ link'[fd'[c]] # "none" /\ reader'[fd'[c]] = "none"
  /\ __authcoroutine' \in {__authcoroutine, Nil, c}
  /\ Maker(c) \/ (__authcoroutine' \in {__authcoroutine, Nil} /\ __sock' \in {__sock, 0})

\* A caller starts to make a connection only when nobody makes one.
LEMMA CallerMakes ==
  ASSUME SocketChannelAssumption, TypeOK, OneMaker, Unused, NEW c \in Callers, CallerStep(c)
  PROVE  Makes(c)
<1> USE DEF Makes
<1>0. /\ Maker(c) => __connecting # <<>>
      /\ at[c] \in Making => __authcoroutine = Nil
      /\ at[c] \in {"connect", "open", "yield"} => __sock = 0
      /\ at[c] \in {"open", "yield"} =>
           fd[c] \in Fds /\ link[fd[c]] # "none" /\ reader[fd[c]] = "none"
      /\ \A d \in Callers : Maker(d) => __connecting # <<>>
      /\ c # Nil
  BY Kinds DEF OneMaker
<1>1. CASE Begin(c) \/ Timer(c) \/ Finish(c) \/ YieldWhileDispatched(c) \/ Close(c) \/ ChangeHost(c)
  <2>1. /\ UNCHANGED <<__connecting, __authcoroutine, callerVars, readerVars, socketVars>>
        /\ __sock' \in {__sock, 0}
    BY <1>1 DEF Begin, Finish, Timer, YieldWhileDispatched, Close, ChangeHost, CloseSocket, channelVars
  <2> QED BY <1>0, <2>1 DEF Maker, callerVars, readerVars, socketVars
<1>2. ASSUME NEW t \in {"connect", "request", "response"}, Call(c, t)
      PROVE  Makes(c)
  <2>1. at'[c] = "enter" /\ UNCHANGED <<__connecting, __sock, __authcoroutine>>
    BY <1>2, GoesDoes DEF Call
  <2> QED BY <1>0, <2>1 DEF Maker, Making
<1>3. CASE Enter(c) \/ Check(c)
  <2>0. at[c] \in {"enter", "check", "connecting"}
    BY <1>3 DEF Enter, Check
  <2>1. CASE Raise(c) /\ UNCHANGED __connecting
    <3>1. at'[c] = "idle"
      BY <2>1, EndedDoes DEF Raise
    <3>2. \/ __authcoroutine = c /\ __authcoroutine' = Nil /\ __sock' = 0
          \/ __authcoroutine # c /\ UNCHANGED <<__authcoroutine, __sock>>
      BY <2>1, RaiseDoes
    <3> QED BY <1>0, <2>1, <3>1, <3>2 DEF Maker, Making
  <2>2. CASE /\ UNCHANGED <<__sock, __authcoroutine, __connecting>> /\ Goes(c, "send")
    BY <1>0, <2>2, GoesDoes DEF Maker, Making
  <2>3. CASE /\ UNCHANGED <<__sock, __authcoroutine>> /\ Goes(c, "connecting") /\ __connecting # <<>>
             /\ __connecting' = Append(__connecting, c)
    <3>1. __connecting' # <<>>
      <4>1. __connecting \in Seq(Callers \cup {Busy})
        BY DEF TypeOK
      <4> QED BY <2>3, <4>1, AppendProperties
    <3> QED BY <1>0, <2>3, <3>1, GoesDoes DEF Maker, Making
  <2>4. CASE /\ UNCHANGED <<__sock, __authcoroutine>> /\ Goes(c, "connect") /\ __connecting = <<>>
             /\ __connecting' = <<Busy>> /\ ~Usable(c)
    <3>1. __authcoroutine = Nil
      BY <1>0, <2>4 DEF Maker, TypeOK
    <3>2. __sock = 0
      BY <2>4, <3>1 DEF Usable
    <3>3. at'[c] = "connect" /\ __connecting' # <<>>
      BY <2>4, GoesDoes
    <3> QED BY <2>4, <3>1, <3>2, <3>3
  <2> QED BY <1>3, <2>1, <2>2, <2>3, <2>4 DEF Enter, Check
<1>4. CASE Connect(c)
  <2>1. UNCHANGED <<__connecting, __sock, __authcoroutine, reader>> /\ at[c] = "connect"
    BY <1>4 DEF Connect, channelVars, readerVars
  <2>2. Maker(c)
    BY <2>1 DEF Maker, Making
  <2>3. CASE Ended(c) \/ Goes(c, "done")
    BY <1>0, <2>1, <2>2, <2>3, GoesDoes, EndedDoes DEF Making
  <2>4. CASE /\ connects < MaxConnects /\ fd' = [fd EXCEPT ![c] = connects + 1]
             /\ link' = [link EXCEPT ![connects + 1] = "new"] /\ Goes(c, "open")
    <3>1. connects + 1 \in Fds /\ connects + 1 > connects
      BY <2>4 DEF TypeOK, Fds, SocketChannelAssumption
    <3>2. fd'[c] = connects + 1 /\ link'[connects + 1] = "new" /\ at'[c] = "open"
      BY <2>4, <3>1, GoesDoes DEF TypeOK
    <3>3. reader[connects + 1] = "none"
      BY <3>1 DEF Unused
    <3> QED BY <1>0, <2>1, <2>2, <3>1, <3>2, <3>3 DEF Making
  <2> QED BY <1>4, <2>3, <2>4 DEF Connect
<1>5. CASE Opened(c)
  <2>1. /\ UNCHANGED <<__connecting, __sock, __authcoroutine, fd, reader, link>>
        /\ at[c] = "open" /\ at'[c] = "yield"
    BY <1>5, GoesDoes DEF Opened, readerVars, socketVars
  <2> QED BY <1>0, <2>1 DEF Maker, Making
<1>6. CASE Yielded(c)
  <2>1. /\ UNCHANGED __connecting /\ at[c] = "yield" /\ at'[c] \in {"enter", "done"}
        /\ __authcoroutine' \in {__authcoroutine, c}
        /\ at'[c] = "done" => UNCHANGED __authcoroutine
    BY <1>6, GoesDoes DEF Yielded
  <2> QED BY <1>0, <2>1 DEF Maker, Making
<1>7. CASE Done(c)
  <2>1. UNCHANGED <<__sock, __authcoroutine>> /\ at[c] = "done"
    BY <1>7 DEF Done
  <2>2. at'[c] \in {"check", "idle"}
    BY <1>7, GoesDoes, EndedDoes DEF Done
  <2> QED BY <1>0, <2>1, <2>2 DEF Maker, Making
<1>8. CASE Send(c)
  <2>1. UNCHANGED <<__connecting, __sock, __authcoroutine>> /\ at[c] = "send"
    BY <1>8 DEF Send
  <2>2. Ended(c) \/ Goes(c, "response") \/ UNCHANGED at
    BY <1>8 DEF Send
  <2>3. at'[c] \in {"idle", "response", "send"}
    BY <2>1, <2>2, GoesDoes, EndedDoes
  <2> QED BY <1>0, <2>1, <2>3 DEF Maker, Making
<1>9. CASE Answered(c)
  <2>1. UNCHANGED __connecting
    BY <1>9 DEF Answered
  <2>2. CASE ~Authenticating(c) /\ Ended(c) /\ UNCHANGED <<__sock, __authcoroutine>>
    BY <1>0, <2>1, <2>2, EndedDoes DEF Maker, Making, Authenticating
  <2>3. CASE Authenticating(c) /\ Goes(c, "enter") /\ UNCHANGED <<__sock, __authcoroutine>>
    BY <1>0, <2>1, <2>3, GoesDoes DEF Maker, Making, Authenticating
  <2>4. CASE /\ Authenticating(c) /\ __authcoroutine' = Nil
             /\ Goes(c, IF __sock = 0 THEN "connect" ELSE "done") /\ UNCHANGED __sock
    BY <1>0, <2>1, <2>4, GoesDoes DEF Maker, Making, Authenticating
  <2>5. CASE Authenticating(c) /\ CloseSocket(<<>>) /\ __authcoroutine' = Nil /\ Goes(c, "done")
    BY <1>0, <2>1, <2>5, GoesDoes DEF Maker, Making, Authenticating, CloseSocket
  <2>6. CASE Authenticating(c) /\ Raise(c)
    <3>1. at'[c] = "idle" /\ __authcoroutine' = Nil /\ __sock' = 0
      BY <2>6, EndedDoes, RaiseDoes DEF Raise, Authenticating
    <3> QED BY <1>0, <2>1, <2>6, <3>1 DEF Maker, Making, Authenticating
  <2> QED BY <1>9, <2>2, <2>3, <2>4, <2>5, <2>6 DEF Answered
<1> QED BY <1>1, <1>2, <1>3, <1>4, <1>5, <1>6, <1>7, <1>8, <1>9 DEF CallerStep

\* What a caller leaves of the descriptors of others.
LEMMA CallerLinks ==
  ASSUME SocketChannelAssumption, TypeOK, OneMaker, Unused, NEW c \in Callers, CallerStep(c)
  PROVE  /\ \A t \in Fds : \/ link'[t] = link[t]
                           \/ link[t] = "none" /\ link'[t] = "new" /\ t <= connects'
         /\ \A t \in Fds : reader'[t] = reader[t] \/ (Maker(c) /\ link[t] # "none")
         /\ connects' >= connects
<1>1. CASE Connect(c)
  <2>1. UNCHANGED reader
    BY <1>1 DEF Connect, readerVars
  <2>2. CASE UNCHANGED <<link, connects>>
    BY <2>1, <2>2 DEF TypeOK
  <2>3. CASE /\ connects < MaxConnects /\ connects' = connects + 1
             /\ link' = [link EXCEPT ![connects + 1] = "new"]
    <3>1. connects + 1 \in Fds /\ connects + 1 > connects /\ connects + 1 <= connects + 1
      BY <2>3 DEF TypeOK, Fds, SocketChannelAssumption
    <3>2. link[connects + 1] = "none"
      BY <3>1 DEF Unused
    <3> QED BY <2>1, <2>3, <3>1, <3>2 DEF TypeOK
  <2> QED BY <1>1, <2>2, <2>3 DEF Connect
<1>2. CASE Yielded(c)
  <2>1. Maker(c) /\ link[fd[c]] # "none" /\ fd[c] \in Fds
    BY <1>2 DEF Yielded, OneMaker, Maker, Making
  <2> QED BY <1>2, <2>1 DEF Yielded, TypeOK, socketVars, counts
<1>3. CASE UNCHANGED <<link, reader, connects>>
  BY <1>3 DEF TypeOK
<1>4. Connect(c) \/ Yielded(c) \/ UNCHANGED <<link, reader, connects>>
  BY DEF CallerStep, Begin, Finish, Timer, Call, Enter, Opened, YieldWhileDispatched, Done, Check, Send,
         Answered, Close, ChangeHost, MayClose, readerVars, socketVars, counts
<1> QED BY <1>1, <1>2, <1>3, <1>4

\* Every step keeps OneMaker.
LEMMA OneMakerStep ==
  ASSUME SocketChannelAssumption, TypeOK, OneMaker, Unused, Dispatched, Steps
  PROVE  OneMaker'
<1>1. ASSUME NEW c \in Callers, CallerStep(c) PROVE OneMaker'
  <2>1. Makes(c)
    BY <1>1, CallerMakes
  <2>2. /\ \A d \in Callers \ {c} : at'[d] = at[d] /\ fd'[d] = fd[d]
        /\ \A t \in Fds : link'[t] = "none" => link[t] = "none"
        /\ \A t \in Fds : reader'[t] = reader[t] \/ Maker(c)
    BY <1>1, CallerFrame, CallerLinks
  <2>3. ASSUME NEW d \in Callers, d # c, Maker(d)' PROVE Maker(d)
    <3>1. CASE at'[d] \in Making
      BY <2>2, <2>3, <3>1 DEF Maker
    <3>2. CASE __authcoroutine' = d
      <4>1. __authcoroutine = d
        BY <2>1, <2>3, <3>2, Kinds DEF Makes
      <4> QED BY <4>1 DEF Maker
    <3> QED BY <2>3, <3>1, <3>2 DEF Maker
  <2>4. ASSUME NEW d \in Callers, Maker(d)'
        PROVE  __connecting' # <<>> /\ \A e \in Callers : Maker(e)' => d = e
    <3>1. ASSUME NEW e \in Callers, Maker(e)', d # e PROVE FALSE
      <4>1. CASE d # c /\ e # c
        BY <2>3, <2>4, <3>1, <4>1 DEF OneMaker
      <4>2. ASSUME NEW x \in Callers, x # c, Maker(x)', Maker(c)' PROVE FALSE
        <5>1. Maker(x)
          BY <2>3, <4>2
        <5>2. __connecting # <<>> /\ ~Maker(c)
          BY <4>2, <5>1 DEF OneMaker
        <5> QED BY <2>1, <4>2, <5>2 DEF Makes
      <4> QED BY <2>4, <3>1, <4>1, <4>2
    <3>2. __connecting' # <<>>
      <4>1. CASE d = c
        BY <2>1, <2>4, <4>1 DEF Makes
      <4>2. CASE d # c
        <5>1. Maker(d)
          BY <2>3, <2>4, <4>2
        <5>2. __connecting # <<>> /\ ~Maker(c)
          BY <4>2, <5>1 DEF OneMaker
        <5> QED BY <2>1, <5>2 DEF Makes
      <4> QED BY <4>1, <4>2
    <3> QED BY <3>1, <3>2
  <2>5. ASSUME NEW d \in Callers
        PROVE  /\ at'[d] \in Making => __authcoroutine' = Nil
               /\ at'[d] \in {"connect", "open", "yield"} => __sock' = 0
               /\ at'[d] \in {"open", "yield"} =>
                    fd'[d] \in Fds /\ link'[fd'[d]] # "none" /\ reader'[fd'[d]] = "none"
    <3>1. CASE d = c
      BY <2>1, <3>1 DEF Makes
    <3>2. CASE d # c /\ at[d] \in Making
      <4>1. ~Maker(c)
        BY <3>2 DEF OneMaker, Maker
      <4>2. __authcoroutine' \in {__authcoroutine, Nil} /\ __sock' \in {__sock, 0}
        BY <2>1, <4>1 DEF Makes
      <4> QED BY <2>2, <3>2, <4>1, <4>2 DEF OneMaker
    <3>3. CASE d # c /\ at[d] \notin Making
      BY <2>2, <3>3 DEF Making
    <3> QED BY <3>1, <3>2, <3>3
  <2> QED BY <2>4, <2>5 DEF OneMaker
<1>2. ASSUME NEW t \in Fds, DispatchStep(t) PROVE OneMaker'
  <2>1. /\ UNCHANGED <<__authcoroutine, __connecting, at, fd, link>>
        /\ \A u \in Fds \ {t} : reader'[u] = reader[u]
    BY <1>2, DispatchFrame DEF callerVars
  <2>2. reader[t] # "none"
    BY <1>2 DEF DispatchStep, RunFork, pop_response, ReadBySession, ReadAnswer, ReadFails, ReadWaits
  <2>3. __sock' \in {__sock, 0}
    BY <1>2 DEF DispatchStep, RunFork, pop_response, ReadBySession, ReadAnswer, ReadFails, ReadWaits,
                CloseSocket, channelVars
  <2>4. \A u \in Fds : reader[u] = "none" => reader'[u] = "none"
    BY <2>1, <2>2
  <2>5. \A c \in Callers : Maker(c)' <=> Maker(c)
    BY <2>1 DEF Maker
  <2> QED BY <2>1, <2>3, <2>4, <2>5 DEF OneMaker
<1>3. CASE Resume \/ UNCHANGED vars
  <2>1. UNCHANGED <<channelVars, callerVars, readerVars, socketVars>>
    BY <1>3, ResumeFrame DEF vars
  <2> QED BY <2>1 DEF OneMaker, Maker, channelVars, callerVars, readerVars, socketVars
<1>4. CASE SocketStep
  <2>1. UNCHANGED <<channelVars, callerVars, readerVars>>
    BY <1>4, SocketFrame
  <2>2. \A t \in Fds : link'[t] = "none" => link[t] = "none"
    BY <1>4 DEF SocketStep, Established, Answer, PeerCloses, TypeOK
  <2> QED BY <2>1, <2>2 DEF OneMaker, Maker, channelVars, callerVars, readerVars
<1> QED BY <1>1, <1>2, <1>3, <1>4 DEF Steps

-----------------------------------------------------------------------------
(* What the step of a dispatch coroutine does to the channel.               *)

\* It only moves on,
Moves(t) ==
  /\ UNCHANGED <<reads, pending, __dispatch_thread, __sock, arrived, __result>>
  /\ \E p \in {"loop", "pop", "read"} :
       /\ reader' = [reader EXCEPT ![t] = p]
       /\ \/ p = reader[t]
          \/ reader[t] = "forked" /\ p = "loop"
          \/ reader[t] = "loop" /\ p = "pop"
          \/ reader[t] = "loop" /\ p = "read" /\ mode # "order"

\* or takes the first entry, to read its answer,
Takes(t) ==
  /\ reader[t] \in {"loop", "pop"} /\ mode = "order" /\ __sock # 0
  /\ pending # <<>> /\ Head(pending) # Signal
  /\ reads' = [reads EXCEPT ![t] = Head(pending)] /\ pending' = Tail(pending)
  /\ reader' = [reader EXCEPT ![t] = "read"]
  /\ UNCHANGED <<__dispatch_thread, __sock, arrived, __result>>

\* or has read an answer,
Reads(t) ==
  /\ reader[t] = "read" /\ arrived[t] # <<>> /\ __sock # 0
  /\ EntryOf(t, Head(arrived[t])) # NoOne
  /\ pending' = Left(EntryOf(t, Head(arrived[t])))
  /\ reads' = [reads EXCEPT ![t] = NoOne] /\ reader' = [reader EXCEPT ![t] = "loop"]
  /\ arrived' = [arrived EXCEPT ![t] = Tail(@)]
  /\ UNCHANGED <<__dispatch_thread, __sock>>

\* or ends.
Ends(t) ==
  /\ reader[t] \in {"loop", "pop", "read"} /\ __sock' = 0
  /\ pending' = <<>> /\ __dispatch_thread' = 0
  /\ reads' = [reads EXCEPT ![t] = NoOne] /\ reader' = [reader EXCEPT ![t] = "ended"]
  /\ \/ UNCHANGED arrived
     \/ arrived' = [arrived EXCEPT ![t] = <<>>]
     \/ arrived[t] # <<>> /\ arrived' = [arrived EXCEPT ![t] = Tail(@)]

\* A dispatch coroutine moves on, takes an entry, reads an answer or ends.
LEMMA DispatchEffects ==
  ASSUME SocketChannelAssumption, TypeOK, Dispatched, NEW t \in Fds, DispatchStep(t)
  PROVE  Moves(t) \/ Takes(t) \/ Reads(t) \/ Ends(t)
<1>1. CASE RunFork(t)
  <2>1. reader[t] = "forked" /\ __sock # 0
    BY <1>1, Kinds DEF RunFork, Dispatched
  <2>2. /\ UNCHANGED <<reads, pending, __dispatch_thread, __sock, arrived, __result>>
        /\ reader' = [reader EXCEPT ![t] = "loop"]
    BY <1>1, <2>1 DEF RunFork, socketVars
  <2> QED BY <2>1, <2>2 DEF Moves
<1>2. CASE pop_response(t)
  <2>1. /\ reader[t] \in {"loop", "pop"} /\ mode = "order"
        /\ UNCHANGED <<__sock, arrived>>
    BY <1>2 DEF pop_response, socketVars
  <2>2. CASE /\ __sock = 0 \/ (pending # <<>> /\ Head(pending) = Signal)
             /\ EndDispatch(t, Nil, None, pending, "message")
    <3>1. __sock = 0
      <4>1. CASE pending # <<>> /\ Head(pending) = Signal
        <5>1. 1 \in DOMAIN pending /\ Head(pending) = pending[1]
          BY <4>1 DEF TypeOK
        <5> QED BY <4>1, <5>1 DEF Dispatched
      <4> QED BY <2>2, <4>1
    <3> QED BY <2>1, <2>2, <3>1 DEF EndDispatch, Ends
  <2>3. CASE /\ __sock # 0 /\ pending # <<>> /\ Head(pending) # Signal
             /\ reads' = [reads EXCEPT ![t] = Head(pending)] /\ pending' = Tail(pending)
             /\ reader' = [reader EXCEPT ![t] = "read"]
             /\ UNCHANGED <<__dispatch_thread, __result>>
    BY <2>1, <2>3 DEF Takes
  <2>4. CASE /\ reader' = [reader EXCEPT ![t] = "pop"]
             /\ UNCHANGED <<reads, pending, __dispatch_thread, __result>>
    BY <2>1, <2>4 DEF Moves
  <2> QED BY <1>2, <2>2, <2>3, <2>4 DEF pop_response
<1>3. CASE ReadBySession(t)
  <2>1. /\ reader[t] = "loop" /\ mode # "order" /\ reader' = [reader EXCEPT ![t] = "read"]
        /\ UNCHANGED <<reads, pending, __dispatch_thread, __sock, arrived, __result>>
    BY <1>3 DEF ReadBySession, channelVars, socketVars
  <2> QED BY <2>1 DEF Moves
<1>4. CASE ReadAnswer(t)
  <2>1. /\ reader[t] = "read" /\ arrived[t] # <<>> /\ EntryOf(t, Head(arrived[t])) # NoOne
        /\ arrived' = [arrived EXCEPT ![t] = Tail(@)] /\ UNCHANGED __sock
    BY <1>4 DEF ReadAnswer
  <2>2. CASE __sock = 0
    <3>1. \E told, result, q : EndDispatch(t, told, result, q, "message")
      BY <1>4, <2>2 DEF ReadAnswer
    <3> QED BY <2>1, <2>2, <3>1 DEF EndDispatch, Ends
  <2>3. CASE __sock # 0
    BY <1>4, <2>1, <2>3 DEF ReadAnswer, Reads
  <2> QED BY <2>2, <2>3
<1>5. CASE ReadFails(t)
  <2>1. /\ reader[t] = "read" /\ arrived' = [arrived EXCEPT ![t] = <<>>] /\ __sock' = 0
    BY <1>5 DEF ReadFails, CloseSocket
  <2>2. \E told, result, q, kind : EndDispatch(t, told, result, q, kind)
    BY <1>5 DEF ReadFails
  <2> QED BY <2>1, <2>2 DEF EndDispatch, Ends
<1>6. CASE ReadWaits(t)
  <2>1. /\ reader[t] = "read"
        /\ UNCHANGED <<reader, reads, pending, __dispatch_thread, __sock, arrived, __result>>
    BY <1>6 DEF ReadWaits, channelVars, readerVars, socketVars
  <2>2. reader' = [reader EXCEPT ![t] = "read"]
    BY <2>1 DEF TypeOK
  <2> QED BY <2>1, <2>2 DEF Moves
<1> QED BY <1>1, <1>2, <1>3, <1>4, <1>5, <1>6 DEF DispatchStep

-----------------------------------------------------------------------------
(* What is unused has nothing.                                              *)

\* Every step keeps Unused.
LEMMA UnusedStep ==
  ASSUME SocketChannelAssumption, ~EarlyClose, TypeOK, Places, OneMaker, Unused, Dispatched, Steps
  PROVE  Unused'
<1>0. connects \in Nat /\ Fds \subseteq Nat
  BY DEF TypeOK, Fds
<1>1. ASSUME NEW c \in Callers, CallerStep(c) PROVE Unused'
  <2>1. UNCHANGED arrived
    BY <1>1, CallerFrame
  <2>2. ASSUME NEW t \in Fds
        PROVE  /\ t > connects' => link'[t] = "none"
               /\ link'[t] = "none" => reader'[t] = "none"
               /\ link'[t] = "lost" => arrived'[t] = <<>>
    <3>1. \/ link'[t] = link[t]
          \/ link[t] = "none" /\ link'[t] = "new" /\ t <= connects'
      BY <1>1, CallerLinks
    <3>2. reader'[t] = reader[t] \/ link[t] # "none"
      BY <1>1, CallerLinks
    <3>3. connects' >= connects /\ (connects' = connects \/ connects' = connects + 1)
      <4>1. connects' = connects \/ connects' = connects + 1
        BY <1>1 DEF CallerStep, Begin, Finish, Timer, Call, Enter, Connect, Opened, YieldWhileDispatched,
                    Yielded, Done, Check, Send, Answered, Close, ChangeHost, MayClose, counts
      <4> QED BY <1>0, <4>1
    <3>4. t > connects' => t > connects /\ ~(t <= connects')
      BY <1>0, <3>3
    <3> QED BY <2>1, <3>1, <3>2, <3>4 DEF Unused
  <2>3. ASSUME NEW t \in Fds, reader'[t] = "none" PROVE asked'[t] = <<>> /\ arrived'[t] = <<>>
    <3>1. reader[t] = "none"
      BY <1>1, <2>3, CallerEffects DEF Leaves, Signals, Sends, Connects, TypeOK
    <3>2. asked[t] = <<>> /\ arrived'[t] = <<>>
      BY <2>1, <3>1 DEF Unused
    <3>3. CASE Sends(c)
      <4>1. __sock # 0
        BY <3>3 DEF Sends, Places, Usable
      <4>2. reader[__sock] # "none" /\ __sock \in Fds
        BY <4>1 DEF Dispatched, SignalEndsItsOwn, TypeOK
      <4> QED BY <3>1, <3>2, <3>3, <4>2 DEF Sends, TypeOK
    <3>4. CASE UNCHANGED asked
      BY <3>2, <3>4
    <3> QED BY <1>1, <3>3, <3>4, CallerEffects DEF Leaves, Signals, Connects
  <2> QED BY <2>1, <2>2, <2>3 DEF Unused
<1>2. ASSUME NEW t \in Fds, DispatchStep(t) PROVE Unused'
  <2>1. /\ UNCHANGED <<link, asked, connects>>
        /\ \A u \in Fds \ {t} : reader'[u] = reader[u] /\ arrived'[u] = arrived[u]
    BY <1>2, DispatchFrame DEF counts
  <2>2. /\ reader[t] # "none" /\ reader'[t] # "none"
        /\ arrived'[t] = arrived[t] \/ arrived'[t] = <<>> \/ arrived[t] # <<>>
    BY <1>2, DispatchEffects DEF Moves, Takes, Reads, Ends, TypeOK
  <2> QED BY <2>1, <2>2 DEF Unused
<1>3. CASE Resume \/ UNCHANGED vars
  <2>1. UNCHANGED <<connects, reader, link, asked, arrived>>
    BY <1>3, ResumeFrame DEF vars, counts, readerVars, socketVars
  <2> QED BY <2>1 DEF Unused
<1>4. CASE SocketStep
  <2>1. UNCHANGED <<connects, reader, fd>>
    BY <1>4, SocketFrame DEF counts, readerVars, callerVars
  <2>2. ASSUME NEW c \in Callers, Established(c) PROVE Unused'
    <3>1. UNCHANGED <<asked, arrived>> /\ link[fd[c]] = "new" /\ link' = [link EXCEPT ![fd[c]] = "up"]
      BY <2>2 DEF Established
    <3>2. \A t \in Fds : link'[t] = link[t] \/ (link[t] = "new" /\ link'[t] = "up")
      BY <3>1 DEF TypeOK
    <3> QED BY <2>1, <3>1, <3>2 DEF Unused
  <2>3. ASSUME NEW t \in Fds, NEW i \in Requests, NEW kind \in {"answer", "refusal", "garbage"},
               Answer(t, i, kind)
        PROVE  Unused'
    <3>1. /\ UNCHANGED link /\ link[t] = "up" /\ i \in DOMAIN asked[t]
          /\ asked' = [asked EXCEPT ![t] = RemoveAt(@, i)]
          /\ arrived' = [arrived EXCEPT ![t] = Append(@, [kind |-> kind, r |-> asked[t][i]])]
      BY <2>3 DEF Answer
    <3>2. asked[t] # <<>>
      BY <3>1
    <3>3. \A u \in Fds \ {t} : asked'[u] = asked[u] /\ arrived'[u] = arrived[u]
      BY <3>1 DEF TypeOK
    <3> QED BY <2>1, <3>1, <3>2, <3>3 DEF Unused
  <2>4. ASSUME NEW t \in Fds, PeerCloses(t) PROVE Unused'
    <3>1. /\ \A u \in Fds \ {t} : link'[u] = link[u] /\ asked'[u] = asked[u] /\ arrived'[u] = arrived[u]
          /\ link[t] = "up" /\ link'[t] = "lost" /\ asked'[t] = <<>> /\ arrived'[t] = <<>>
      BY <2>4 DEF PeerCloses, TypeOK
    <3> QED BY <2>1, <3>1 DEF Unused
  <2> QED BY <1>4, <2>2, <2>3, <2>4 DEF SocketStep
<1> QED BY <1>1, <1>2, <1>3, <1>4 DEF Steps

-----------------------------------------------------------------------------
(* The dispatch coroutine is there and is the right one.                    *)

\* Every step keeps Dispatched.
LEMMA DispatchedStep ==
  ASSUME SocketChannelAssumption, ~EarlyClose, TypeOK, Places, OneMaker, Unused, Dispatched, Entries, InOrder,
         Steps
  PROVE  Dispatched'
<1>0. 0 \notin Fds /\ pending \in Seq(Entry \cup {Signal}) /\ \A e \in Entry : e # Signal
  BY Kinds DEF TypeOK, Entry
<1>1. ASSUME NEW c \in Callers, CallerStep(c) PROVE Dispatched'
  <2>1. /\ UNCHANGED <<reads, mode>> /\ __result'[c] = None
        /\ \A d \in Callers \ {c} : __result'[d] = __result[d]
    <3>1. CASE at'[c] = "response"
      <4>1. Sends(c)
        BY <1>1, <3>1, CallerEffects DEF Leaves, Signals, Connects
      <4> QED BY <1>1, <4>1, CallerFrame DEF Sends, Places
    <3> QED BY <1>1, <3>1, CallerFrame, PlacesCaller
  <2>2. CASE Leaves(c)
    <3>1. /\ UNCHANGED <<pending, __dispatch_thread, reader>>
          /\ __sock' = __sock \/ (__sock' = 0 /\ NoFork)
          /\ __authcoroutine' \in {__authcoroutine, Nil}
      BY <2>2 DEF Leaves
    <3>2. \A t \in Fds : reader[t] = "forked" =>
            __sock' = t /\ \A d \in Callers : __authcoroutine' = d => __result'[d] = None
      <4>1. ASSUME NEW t \in Fds, reader[t] = "forked", NEW d \in Callers, __authcoroutine' = d
            PROVE  __result'[d] = None
        <5>1. d # Nil
          BY Kinds
        <5> QED BY <2>1, <3>1, <4>1, <5>1 DEF Dispatched
      <4> QED BY <3>1, <4>1 DEF Dispatched, NoFork
    <3> QED BY <2>1, <3>1, <3>2 DEF Dispatched, OneReader, SignalEndsItsOwn
  <2>3. CASE Signals(c)
    <3>1. /\ UNCHANGED <<__dispatch_thread, reader>>
          /\ __sock' = 0 /\ NoFork /\ __dispatch_thread # 0
      BY <2>3 DEF Signals
    <3> QED BY <2>1, <3>1 DEF Dispatched, OneReader, SignalEndsItsOwn, NoFork
  <2>4. CASE Sends(c)
    <3>1. /\ UNCHANGED <<__dispatch_thread, reader, __sock, __authcoroutine>>
          /\ pending' = Append(pending, [r |-> requests + 1, co |-> c])
          /\ [r |-> requests + 1, co |-> c] \in Entry
      BY <2>4 DEF Sends, Entry
    <3>2. __sock # 0 /\ __dispatch_thread # 0
      <4>1. __sock # 0
        BY <2>4 DEF Sends, Places, Usable
      <4> QED BY <4>1 DEF Dispatched, SignalEndsItsOwn
    <3>3. \A i \in DOMAIN pending' : pending'[i] # Signal
      <4>1. \A i \in DOMAIN pending : pending[i] # Signal
        BY <3>2 DEF Dispatched
      <4>2. \A i \in DOMAIN pending' : \/ i \in DOMAIN pending /\ pending'[i] = pending[i]
                                       \/ pending'[i] = [r |-> requests + 1, co |-> c]
        BY <1>0, <3>1
      <4> QED BY <1>0, <3>1, <4>1, <4>2
    <3> QED BY <2>1, <3>1, <3>2, <3>3 DEF Dispatched, OneReader, SignalEndsItsOwn
  <2>5. CASE Connects(c)
    <3> DEFINE t == fd[c]
    <3>1. /\ t \in Fds /\ __dispatch_thread = 0 /\ __sock' = t /\ __dispatch_thread' = t
          /\ reader[t] = "none" /\ reader'[t] = "forked"
          /\ \A u \in Fds \ {t} : reader'[u] = reader[u]
          /\ UNCHANGED pending /\ __authcoroutine' \in {__authcoroutine, c} /\ UNCHANGED __result
          /\ __authcoroutine = Nil
      BY <2>5 DEF Connects, TypeOK, OneMaker, Making
    <3> HIDE DEF t
    <3>2. pending' = <<>> /\ \A u \in Fds \ {t} : reader'[u] \in {"none", "ended"}
      <4>1. pending' = <<>>
        BY <3>1 DEF Dispatched
      <4>2. \A u \in Fds : reader[u] \in {"none", "ended"}
        BY <1>0, <3>1 DEF Dispatched, OneReader, TypeOK
      <4> QED BY <3>1, <4>1, <4>2
    <3>3. \A d \in Callers : __authcoroutine' = d => __result'[d] = None
      <4>1. \A d \in Callers : d # Nil
        BY Kinds
      <4> QED BY <2>1, <3>1, <4>1
    <3>4. \A u \in Fds : reads[u] # NoOne <=> reader[u] = "read" /\ mode = "order"
      BY DEF Dispatched
    <3>5. \A u \in Fds : reads'[u] # NoOne <=> reader'[u] = "read" /\ mode' = "order"
      <4>1. reads[t] = NoOne
        BY <3>1, <3>4
      <4> QED BY <2>1, <3>1, <3>4, <4>1
    <3>6. OneReader' /\ SignalEndsItsOwn'
      BY <3>1, <3>2 DEF OneReader, SignalEndsItsOwn
    <3>7. \A u \in Fds : /\ __dispatch_thread' = u => reader'[u] = "forked"
                         /\ reader'[u] = "forked" => u = t
      BY <3>1, <3>2
    <3>8. \A i \in DOMAIN pending' : FALSE
      BY <3>2
    <3>9. __dispatch_thread' # 0
      BY <1>0, <3>1
    <3> QED BY <3>1, <3>3, <3>5, <3>6, <3>7, <3>8, <3>9 DEF Dispatched
  <2> QED BY <1>1, <2>2, <2>3, <2>4, <2>5, CallerEffects
<1>2. ASSUME NEW t \in Fds, DispatchStep(t) PROVE Dispatched'
  <2>0. UNCHANGED <<mode, __authcoroutine>>
    BY <1>2, DispatchFrame
  <2>1. \A u \in Fds \ {t} : reader'[u] = reader[u] /\ reads'[u] = reads[u]
    BY <1>2, DispatchFrame
  <2>2. reader[t] \in {"forked", "loop", "pop", "read"} /\ t = __dispatch_thread
    BY <1>2, DispatchEffects DEF Moves, Takes, Reads, Ends, Dispatched, OneReader
  <2>3. \A u \in Fds \ {t} : reader'[u] \in {"none", "ended"} /\ reads'[u] = NoOne
    BY <2>1, <2>2 DEF Dispatched, OneReader, TypeOK
  <2>4. CASE Moves(t)
    <3>1. UNCHANGED <<reads, pending, __dispatch_thread, __sock>>
      BY <2>4 DEF Moves
    <3>2. PICK p \in {"loop", "pop", "read"} :
            /\ reader'[t] = p
            /\ \/ p = reader[t]
               \/ reader[t] = "forked" /\ p = "loop"
               \/ reader[t] = "loop" /\ p = "pop"
               \/ reader[t] = "loop" /\ p = "read" /\ mode # "order"
      BY <2>4 DEF Moves, TypeOK
    <3>3. reads'[t] # NoOne <=> reader'[t] = "read" /\ mode' = "order"
      <4>1. reads[t] # NoOne <=> reader[t] = "read" /\ mode = "order"
        BY DEF Dispatched
      <4> QED BY <2>0, <3>1, <3>2, <4>1
    <3> QED BY <2>0, <2>2, <2>3, <3>1, <3>2, <3>3 DEF Dispatched, OneReader, SignalEndsItsOwn
  <2>5. CASE Takes(t)
    <3>1. /\ UNCHANGED <<__dispatch_thread, __sock>> /\ mode = "order" /\ __sock # 0
          /\ pending # <<>> /\ Head(pending) # Signal
          /\ reads'[t] = Head(pending) /\ pending' = Tail(pending) /\ reader'[t] = "read"
      BY <2>5 DEF Takes, TypeOK
    <3>2. \A i \in DOMAIN pending' : i + 1 \in DOMAIN pending /\ pending'[i] = pending[i + 1]
      BY <1>0, <3>1
    <3>3. \A i \in DOMAIN pending' : pending'[i] # Signal
      BY <3>1, <3>2 DEF Dispatched
    <3>4. reads'[t] # NoOne
      BY <3>1 DEF NoOne
    <3>5. __dispatch_thread' # 0
      BY <1>0, <2>2, <3>1
    <3> QED BY <2>0, <2>2, <2>3, <3>1, <3>3, <3>4, <3>5 DEF Dispatched, OneReader, SignalEndsItsOwn
  <2>6. CASE Reads(t)
    <3> DEFINE entry == EntryOf(t, Head(arrived[t]))
    <3>1. /\ UNCHANGED <<__dispatch_thread, __sock>> /\ __sock # 0
          /\ reads'[t] = NoOne /\ pending' = Left(entry) /\ reader'[t] = "loop"
      BY <2>6 DEF Reads, TypeOK
    <3>2. \A i \in DOMAIN Left(entry) : \E j \in DOMAIN pending : Left(entry)[i] = pending[j]
      BY <2>6, AnswerIsFor DEF Reads
    <3> HIDE DEF entry
    <3>3. \A i \in DOMAIN pending' : pending'[i] # Signal
      BY <3>1, <3>2 DEF Dispatched
    <3>5. __dispatch_thread' # 0
      BY <1>0, <2>2, <3>1
    <3> QED BY <2>0, <2>2, <2>3, <3>1, <3>3, <3>5 DEF Dispatched, OneReader, SignalEndsItsOwn
  <2>7. CASE Ends(t)
    <3>1. /\ reader'[t] = "ended" /\ reads'[t] = NoOne /\ pending' = <<>>
          /\ __dispatch_thread' = 0 /\ __sock' = 0
      BY <2>7 DEF Ends, TypeOK
    <3> QED BY <1>0, <2>3, <3>1 DEF Dispatched, OneReader, SignalEndsItsOwn
  <2> QED BY <1>2, <2>4, <2>5, <2>6, <2>7, DispatchEffects
<1>3. CASE Resume \/ SocketStep \/ UNCHANGED vars
  <2>1. UNCHANGED <<channelVars, readerVars>>
    BY <1>3, ResumeFrame, SocketFrame DEF vars
  <2> QED BY <2>1 DEF Dispatched, OneReader, SignalEndsItsOwn, channelVars, readerVars
<1> QED BY <1>1, <1>2, <1>3 DEF Steps

-----------------------------------------------------------------------------
(* Who is owed an answer.                                                   *)

\* One entry more.
LEMMA OneMore ==
  ASSUME pending \in Seq(Entry \cup {Signal}), NEW e, e \in Entry \cup {Signal},
         pending' = Append(pending, e)
  PROVE  /\ \A i \in DOMAIN pending : i \in DOMAIN pending' /\ pending'[i] = pending[i]
         /\ \A i \in DOMAIN pending' : \/ i \in DOMAIN pending /\ pending'[i] = pending[i]
                                       \/ i = Len(pending) + 1 /\ pending'[i] = e
         /\ \E i \in DOMAIN pending' : pending'[i] = e
<1>1. Len(pending) \in Nat
  OBVIOUS
<1>2. /\ DOMAIN pending = 1 .. Len(pending) /\ DOMAIN pending' = 1 .. Len(pending) + 1
      /\ \A i \in 1 .. Len(pending) : pending'[i] = pending[i]
      /\ pending'[Len(pending) + 1] = e
  BY AppendProperties
<1> DEFINE n == Len(pending)
<1> HIDE DEF n
<1>3. /\ n \in Nat /\ DOMAIN pending = 1 .. n /\ DOMAIN pending' = 1 .. n + 1
      /\ \A i \in 1 .. n : pending'[i] = pending[i]
      /\ pending'[n + 1] = e
  BY <1>1, <1>2 DEF n
<1>4. /\ \A i \in 1 .. n : i \in 1 .. n + 1
      /\ \A i \in 1 .. n + 1 : i \in 1 .. n \/ i = n + 1
      /\ n + 1 \in 1 .. n + 1
  BY <1>3
<1> QED BY <1>3, <1>4 DEF n

\* The step of a caller keeps the entries of the others and adds none but its own.
LEMMA EntriesCaller ==
  ASSUME SocketChannelAssumption, ~EarlyClose, TypeOK, Places, OneMaker, Dispatched, Entries,
         NEW c \in Callers, CallerStep(c)
  PROVE  Entries'
<1>0. pending \in Seq(Entry \cup {Signal}) /\ \A e \in Entry : e # Signal /\ e.co \in Callers
  BY Kinds DEF TypeOK, Entry
<1>1. \A d \in Callers \ {c} : /\ at'[d] = at[d] /\ request'[d] = request[d]
                               /\ __result'[d] = __result[d]
  BY CallerFrame
<1>2. running' \in {c, 0} /\ UNCHANGED reads /\ c # 0
  BY CallerFrame, Kinds
<1>3. /\ \A i \in DOMAIN pending : pending[i].co # c
      /\ \A t \in Fds : reads[t].co # c
  BY CallerHasNone DEF Listens
<1>4. ASSUME NEW e \in Entry, Owed(e), e.co # c
      PROVE  /\ at'[e.co] = "response" /\ running' # e.co
             /\ __result'[e.co] = None /\ request'[e.co] = e.r
  <2>1. e.co \in Callers /\ e.co # 0
    BY <1>0, Kinds
  <2> QED BY <1>1, <1>2, <1>4, <2>1 DEF Owed
<1>5. \A i \in DOMAIN pending : pending[i] # Signal =>
        pending[i] \in Entry /\ Owed(pending[i])
  BY <1>0 DEF Entries
<1>6. \A t \in Fds : reads[t] # NoOne => reads[t] \in Entry /\ Owed(reads[t])
  BY DEF Entries, TypeOK, Entry
<1>7. \A t \in Fds : reads'[t] # NoOne =>
        /\ at'[reads'[t].co] = "response" /\ running' # reads'[t].co
        /\ __result'[reads'[t].co] = None /\ request'[reads'[t].co] = reads'[t].r
  BY <1>2, <1>3, <1>4, <1>6
<1>8. ASSUME NEW e, e \in Entry \cup {Signal}, pending' = Append(pending, e),
             e # Signal => /\ e.co = c /\ at'[c] = "response" /\ running' # c
                           /\ __result'[c] = None /\ request'[c] = e.r
      PROVE  Entries'
  <2>1. \A i \in DOMAIN pending' : \/ i \in DOMAIN pending /\ pending'[i] = pending[i]
                                   \/ i = Len(pending) + 1 /\ pending'[i] = e
    BY <1>0, <1>8, OneMore
  <2>2. ASSUME NEW i \in DOMAIN pending', pending'[i] # Signal
        PROVE  /\ at'[pending'[i].co] = "response" /\ running' # pending'[i].co
               /\ __result'[pending'[i].co] = None /\ request'[pending'[i].co] = pending'[i].r
    <3>1. CASE i \in DOMAIN pending /\ pending'[i] = pending[i]
      BY <1>3, <1>4, <1>5, <2>2, <3>1
    <3>2. CASE pending'[i] = e
      BY <1>8, <2>2, <3>2
    <3> QED BY <2>1, <3>1, <3>2
  <2>3. ASSUME NEW i \in DOMAIN pending', NEW j \in DOMAIN pending',
               pending'[i].co = pending'[j].co, pending'[i] # Signal
        PROVE  i = j
    <3>1. CASE i \in DOMAIN pending /\ pending'[i] = pending[i] /\ j \in DOMAIN pending /\ pending'[j] = pending[j]
      BY <2>3, <3>1 DEF Entries
    <3>2. CASE /\ i \in DOMAIN pending /\ pending'[i] = pending[i]
               /\ j = Len(pending) + 1 /\ pending'[j] = e
      <4>1. e # Signal
        <5>1. pending[i].co \in Callers
          BY <1>0, <1>5, <2>3, <3>2
        <5> QED BY <2>3, <3>2, <5>1, Kinds
      <4> QED BY <1>3, <1>8, <2>3, <3>2, <4>1
    <3>3. CASE /\ j \in DOMAIN pending /\ pending'[j] = pending[j]
               /\ i = Len(pending) + 1 /\ pending'[i] = e
      BY <1>3, <1>8, <2>3, <3>3
    <3>4. CASE i = Len(pending) + 1 /\ j = Len(pending) + 1
      BY <3>4
    <3> QED BY <2>1, <3>1, <3>2, <3>3, <3>4
  <2>4. ASSUME NEW t \in Fds, NEW i \in DOMAIN pending', reads'[t] # NoOne
        PROVE  pending'[i].co # reads'[t].co
    <3>1. CASE i \in DOMAIN pending /\ pending'[i] = pending[i]
      BY <1>2, <2>4, <3>1 DEF Entries
    <3>2. CASE pending'[i] = e
      <4>1. reads[t].co \in Callers /\ reads[t].co # c
        BY <1>0, <1>2, <1>3, <1>6, <2>4
      <4> QED BY <1>2, <1>8, <3>2, <4>1, Kinds
    <3> QED BY <2>1, <3>1, <3>2
  <2> QED BY <1>7, <2>2, <2>3, <2>4 DEF Entries, Owed
<1>9. CASE UNCHANGED pending
  <2>1. \A i \in DOMAIN pending' : pending'[i] # Signal =>
          /\ at'[pending'[i].co] = "response" /\ running' # pending'[i].co
          /\ __result'[pending'[i].co] = None /\ request'[pending'[i].co] = pending'[i].r
    BY <1>3, <1>4, <1>5, <1>9
  <2> QED BY <1>2, <1>7, <1>9, <2>1 DEF Entries, Owed
<1>10. CASE Signals(c)
  BY <1>8, <1>10 DEF Signals
<1>11. CASE Sends(c)
  <2> DEFINE e == [r |-> requests + 1, co |-> c]
  <2>1. e \in Entry /\ e.co = c /\ e.r = requests + 1
    BY <1>11 DEF Sends, Entry
  <2>2. /\ pending' = Append(pending, e) /\ at'[c] = "response" /\ running' # c
        /\ __result'[c] = None /\ request'[c] = requests + 1
    BY <1>2, <1>11, CallerHasNone DEF Sends
  <2> HIDE DEF e
  <2> QED BY <1>8, <2>1, <2>2
<1> QED BY <1>9, <1>10, <1>11, CallerEffects DEF Leaves, Connects

\* The entries that there are after the step of a dispatch coroutine were there before.
LEMMA EntriesFrom ==
  ASSUME SocketChannelAssumption, TypeOK, Unused, Dispatched, Entries, InOrder,
         NEW t \in Fds, DispatchStep(t)
  PROVE  /\ \A i \in DOMAIN pending' : \E j \in DOMAIN pending : pending'[i] = pending[j]
         /\ \A u \in Fds : reads'[u] # NoOne =>
              reads'[u] = reads[u] \/ \E j \in DOMAIN pending : reads'[u] = pending[j]
         /\ \A i, j \in DOMAIN pending' :
              pending'[i].co = pending'[j].co /\ pending'[i] # Signal => i = j
         /\ \A u \in Fds, i \in DOMAIN pending' : reads'[u] # NoOne => pending'[i].co # reads'[u].co
<1>1. pending \in Seq(Entry \cup {Signal})
  BY DEF TypeOK, Entry
<1>2. \A u \in Fds \ {t} : reads'[u] = reads[u]
  BY DispatchFrame
<1>3. /\ \A i, j \in DOMAIN pending : pending[i].co = pending[j].co /\ pending[i] # Signal => i = j
      /\ \A u \in Fds, i \in DOMAIN pending : reads[u] # NoOne => pending[i].co # reads[u].co
  BY DEF Entries
<1>4. CASE Moves(t)
  BY <1>3, <1>4 DEF Moves
<1>5. CASE Takes(t)
  <2>1. /\ pending # <<>> /\ Head(pending) # Signal /\ reads'[t] = Head(pending)
        /\ pending' = Tail(pending) /\ reader[t] \in {"loop", "pop", "read"}
    BY <1>5 DEF Takes, TypeOK
  <2>2. /\ Head(pending) = pending[1] /\ 1 \in DOMAIN pending
        /\ \A i \in DOMAIN pending' : i + 1 \in DOMAIN pending /\ pending'[i] = pending[i + 1]
        /\ \A i, j \in DOMAIN pending' : i + 1 = j + 1 => i = j
        /\ \A i \in DOMAIN pending' : i + 1 # 1
    BY <1>1, <2>1
  <2>3. \A u \in Fds \ {t} : reads'[u] = NoOne
    BY <1>2, <2>1, ReaderAlone
  <2>4. \A i, j \in DOMAIN pending' :
          pending'[i].co = pending'[j].co /\ pending'[i] # Signal => i = j
    BY <1>3, <2>2
  <2>5. \A i \in DOMAIN pending' : pending'[i].co # pending[1].co
    BY <1>3, <2>1, <2>2
  <2> QED BY <2>1, <2>2, <2>3, <2>4, <2>5
<1>6. CASE Reads(t)
  <2> DEFINE entry == EntryOf(t, Head(arrived[t]))
  <2>1. /\ reads'[t] = NoOne /\ pending' = Left(entry) /\ reader[t] = "read"
    BY <1>6 DEF Reads, TypeOK
  <2>2. /\ \A i, j \in DOMAIN Left(entry) :
             Left(entry)[i].co = Left(entry)[j].co /\ Left(entry)[i] # Signal => i = j
        /\ \A i \in DOMAIN Left(entry) : \E j \in DOMAIN pending : Left(entry)[i] = pending[j]
    BY <1>6, AnswerIsFor DEF Reads
  <2>3. \A u \in Fds : reads'[u] = NoOne
    BY <1>2, <2>1, ReaderAlone
  <2> HIDE DEF entry
  <2> QED BY <2>1, <2>2, <2>3
<1>7. CASE Ends(t)
  <2>1. \A i \in DOMAIN pending' : FALSE
    BY <1>7 DEF Ends
  <2>2. reads'[t] = NoOne
    BY <1>7 DEF Ends, TypeOK
  <2> QED BY <1>2, <2>1, <2>2
<1> QED BY <1>4, <1>5, <1>6, <1>7, DispatchEffects

\* The step of a dispatch coroutine keeps Entries.
LEMMA EntriesDispatch ==
  ASSUME SocketChannelAssumption, TypeOK, Unused, Dispatched, Entries, InOrder,
         NEW t \in Fds, DispatchStep(t)
  PROVE  Entries'
<1>1. UNCHANGED callerVars /\ \A c \in Callers : running' # c
  BY DispatchFrame
<1>2. ASSUME NEW e \in Entry, Owed(e), Listens(e.co)'
      PROVE  /\ at'[e.co] = "response" /\ running' # e.co
             /\ __result'[e.co] = None /\ request'[e.co] = e.r
  <2>1. PICK c \in Callers : c = e.co
    BY Kinds
  <2>2. Untold(c) \/ ToldNow(c)
    BY DispatchTells
  <2> QED BY <1>1, <1>2, <2>1, <2>2 DEF Untold, ToldNow, Owed, callerVars
<1>3. ASSUME NEW e, e \in Entry, Listens(e.co)',
             (\E i \in DOMAIN pending : e = pending[i]) \/ (\E u \in Fds : e = reads[u])
      PROVE  /\ at'[e.co] = "response" /\ running' # e.co
             /\ __result'[e.co] = None /\ request'[e.co] = e.r
  <2>1. e # Signal /\ e # NoOne
    BY <1>3, Kinds DEF NoOne
  <2>2. Owed(e)
    BY <1>3, <2>1 DEF Entries
  <2> QED BY <1>2, <1>3, <2>2
<1>4. /\ \A i \in DOMAIN pending : pending[i] \in Entry \cup {Signal}
      /\ \A u \in Fds : reads[u] \in Entry \cup {NoOne}
  BY DEF TypeOK, Entry
<1>5. ASSUME NEW i \in DOMAIN pending', pending'[i] # Signal
      PROVE  /\ at'[pending'[i].co] = "response" /\ running' # pending'[i].co
             /\ __result'[pending'[i].co] = None /\ request'[pending'[i].co] = pending'[i].r
  <2>1. PICK e : e = pending'[i]
    OBVIOUS
  <2>2. Listens(e.co)'
    BY <2>1 DEF Listens
  <2>3. e \in Entry /\ \E j \in DOMAIN pending : e = pending[j]
    BY <1>4, <1>5, <2>1, EntriesFrom
  <2> QED BY <1>3, <2>1, <2>2, <2>3
<1>6. ASSUME NEW u \in Fds, reads'[u] # NoOne
      PROVE  /\ at'[reads'[u].co] = "response" /\ running' # reads'[u].co
             /\ __result'[reads'[u].co] = None /\ request'[reads'[u].co] = reads'[u].r
  <2>1. PICK e : e = reads'[u]
    OBVIOUS
  <2>2. Listens(e.co)'
    BY <2>1 DEF Listens
  <2>3. e = reads[u] \/ \E j \in DOMAIN pending : e = pending[j]
    BY <1>6, <2>1, EntriesFrom
  <2>4. e \in Entry
    BY <1>4, <1>6, <2>1, <2>3 DEF NoOne
  <2> QED BY <1>3, <2>1, <2>2, <2>3, <2>4
<1> QED BY <1>5, <1>6, EntriesFrom DEF Entries, Owed

\* Every step keeps Entries.
LEMMA EntriesStep ==
  ASSUME SocketChannelAssumption, ~EarlyClose, TypeOK, Places, OneMaker, Unused, Dispatched, Entries,
         Woken, InOrder, Steps
  PROVE  Entries'
<1>1. CASE Resume
  <2>1. UNCHANGED <<at, request, __result, pending, reads>>
    BY <1>1, ResumeFrame DEF channelVars, callerVars, readerVars
  <2>2. ASSUME NEW c \in Callers, at[c] = "response", __result[c] = None PROVE running' # c
    <3>1. wakeup_queue # <<>> /\ running' \in {Head(wakeup_queue), 0}
      BY <1>1, ResumeFrame
    <3>2. Head(wakeup_queue) \in Range(wakeup_queue)
      BY <3>1 DEF TypeOK, Range
    <3>3. c \notin Range(wakeup_queue)
      BY <2>2 DEF Woken, Ready
    <3> QED BY <3>1, <3>2, <3>3, Kinds
  <2>3. ASSUME NEW e \in Entry, Owed(e) PROVE running' # e.co
    BY <2>2, <2>3, Kinds DEF Owed
  <2>4. /\ \A i \in DOMAIN pending : pending[i] # Signal => pending[i] \in Entry /\ Owed(pending[i])
        /\ \A t \in Fds : reads[t] # NoOne => reads[t] \in Entry /\ Owed(reads[t])
    BY DEF Entries, TypeOK, Entry
  <2> QED BY <2>1, <2>3, <2>4 DEF Entries, Owed
<1>2. CASE SocketStep \/ UNCHANGED vars
  <2>1. UNCHANGED <<channelVars, callerVars, readerVars, running>>
    BY <1>2, SocketFrame DEF vars
  <2> QED BY <2>1 DEF Entries, Owed, channelVars, callerVars, readerVars
<1> QED BY <1>1, <1>2, EntriesCaller, EntriesDispatch DEF Steps

\* Every step keeps Asking and Results.
LEMMA AskingStep ==
  ASSUME SocketChannelAssumption, ~EarlyClose, TypeOK, Places, OneMaker, Unused, Dispatched, Entries,
         Asking, Results, InOrder, Steps
  PROVE  Asking' /\ Results'
<1>0. pending \in Seq(Entry \cup {Signal})
  BY DEF TypeOK, Entry
<1>1. ASSUME NEW c \in Callers, CallerStep(c) PROVE Asking' /\ Results'
  <2>1. /\ \A d \in Callers \ {c} : /\ at'[d] = at[d] /\ request'[d] = request[d]
                                     /\ __result'[d] = __result[d]
        /\ UNCHANGED reads
    BY <1>1, CallerFrame
  <2>2. __result'[c] = None
    BY <1>1, CallerHasNone
  <2>3. ASSUME NEW d \in Callers, Listens(d) PROVE Listens(d)'
    <3>1. CASE UNCHANGED pending
      BY <2>1, <2>3, <3>1 DEF Listens
    <3>2. CASE Signals(c) \/ Sends(c)
      <4>1. PICK e \in Entry \cup {Signal} : pending' = Append(pending, e)
        BY <3>2 DEF Signals, Sends, Entry
      <4>2. \A i \in DOMAIN pending : i \in DOMAIN pending' /\ pending'[i] = pending[i]
        BY <1>0, <4>1, OneMore
      <4> QED BY <2>1, <2>3, <4>2 DEF Listens
    <3> QED BY <1>1, <3>1, <3>2, CallerEffects DEF Leaves, Connects
  <2>4. ASSUME at'[c] = "response" PROVE Listens(c)'
    <3>1. Sends(c)
      BY <1>1, <2>4, CallerEffects DEF Leaves, Signals, Connects
    <3> DEFINE e == [r |-> requests + 1, co |-> c]
    <3>2. e \in Entry /\ e.co = c /\ pending' = Append(pending, e)
      BY <3>1 DEF Sends, Entry
    <3> HIDE DEF e
    <3>3. PICK i \in DOMAIN pending' : pending'[i] = e
      BY <1>0, <3>2, OneMore
    <3> QED BY <3>2, <3>3 DEF Listens
  <2>5. None.kind = "none"
    BY DEF None, Result
  <2> QED BY <2>1, <2>2, <2>3, <2>4, <2>5 DEF Asking, Results
<1>2. ASSUME NEW t \in Fds, DispatchStep(t) PROVE Asking' /\ Results'
  <2>1. UNCHANGED callerVars
    BY <1>2, DispatchFrame
  <2>2. \A c \in Callers : Untold(c) \/ ToldNow(c)
    BY <1>2, DispatchTells
  <2> QED BY <2>1, <2>2 DEF Asking, Results, Untold, ToldNow, callerVars
<1>3. CASE Resume \/ SocketStep \/ UNCHANGED vars
  <2>1. UNCHANGED <<channelVars, callerVars, readerVars>>
    BY <1>3, ResumeFrame, SocketFrame DEF vars
  <2> QED BY <2>1 DEF Asking, Results, Listens, channelVars, callerVars, readerVars
<1> QED BY <1>1, <1>2, <1>3 DEF Steps

\* Every step keeps AuthFirst.
LEMMA AuthFirstStep ==
  ASSUME SocketChannelAssumption, ~EarlyClose, TypeOK, Places, OneMaker, Unused, Dispatched, Entries,
         InOrder, AuthFirst, Steps
  PROVE  AuthFirst'
<1>0. pending \in Seq(Entry \cup {Signal}) /\ NoOne.co = Nil /\ Signal.co = Nil
  BY Kinds DEF TypeOK, Entry, NoOne
<1>1. ASSUME NEW c \in Callers, CallerStep(c) PROVE AuthFirst'
  <2>1. UNCHANGED reads
    BY <1>1, CallerFrame
  <2>2. CASE Leaves(c)
    BY <2>1, <2>2 DEF Leaves, AuthFirst
  <2>3. CASE Signals(c) \/ Sends(c)
    <3>1. PICK e \in Entry \cup {Signal} : /\ pending' = Append(pending, e)
                                           /\ e = Signal \/ (e.co = c /\ Sends(c))
      BY <2>3 DEF Signals, Sends, Entry
    <3>2. UNCHANGED __authcoroutine
      BY <2>3 DEF Signals, Sends
    <3>3. __authcoroutine # Nil => e.co \in {Nil, __authcoroutine}
      BY <1>0, <3>1 DEF Sends, Places, Usable
    <3>4. \A i \in DOMAIN pending' : \/ i \in DOMAIN pending /\ pending'[i] = pending[i]
                                     \/ pending'[i] = e
      BY <1>0, <3>1, OneMore
    <3> QED BY <2>1, <3>2, <3>3, <3>4 DEF AuthFirst
  <2>4. CASE Connects(c)
    <3>1. /\ __dispatch_thread = 0 /\ UNCHANGED pending
      BY <2>4 DEF Connects
    <3>2. pending' = <<>> /\ \A u \in Fds : reads'[u] = NoOne
      BY <2>1, <3>1, Kinds DEF Dispatched, OneReader
    <3> QED BY <1>0, <3>2 DEF AuthFirst
  <2> QED BY <1>1, <2>2, <2>3, <2>4, CallerEffects
<1>2. ASSUME NEW t \in Fds, DispatchStep(t) PROVE AuthFirst'
  <2>1. UNCHANGED __authcoroutine
    BY <1>2, DispatchFrame
  <2>2. /\ \A i \in DOMAIN pending' : \E j \in DOMAIN pending : pending'[i] = pending[j]
        /\ \A u \in Fds : reads'[u] # NoOne =>
             reads'[u] = reads[u] \/ \E j \in DOMAIN pending : reads'[u] = pending[j]
    BY <1>2, EntriesFrom
  <2> QED BY <1>0, <2>1, <2>2 DEF AuthFirst
<1>3. CASE Resume \/ SocketStep \/ UNCHANGED vars
  <2>1. UNCHANGED <<channelVars, readerVars>>
    BY <1>3, ResumeFrame, SocketFrame DEF vars
  <2> QED BY <2>1 DEF AuthFirst, channelVars, readerVars
<1> QED BY <1>1, <1>2, <1>3 DEF Steps

-----------------------------------------------------------------------------
(* Who waits for the connection, and who is woken.                          *)

\* The step of a caller leaves __connecting alone, or waits in it, or is the first in it,
\* or wakes all that are in it.
Queues(c) ==
  \/ UNCHANGED __connecting /\ Wakes(<<>>) /\ at'[c] # "connecting"
  \/ /\ __connecting' = Append(__connecting, c) /\ Wakes(<<>>)
     /\ at'[c] = "connecting" /\ running' = 0
  \/ __connecting = <<>> /\ __connecting' = <<Busy>> /\ Wakes(<<>>) /\ at'[c] # "connecting"
  \/ /\ __connecting # <<>> /\ __connecting' = <<>> /\ Wakes(Tail(__connecting))
     /\ at'[c] # "connecting"

\* What a caller does with __connecting is one of the four.
LEMMA CallerQueues ==
  ASSUME SocketChannelAssumption, TypeOK, OneMaker, NEW c \in Callers, CallerStep(c)
  PROVE  Queues(c)
<1> USE DEF Queues
<1>0. UNCHANGED wakeup_queue => Wakes(<<>>)
  BY NoWake
<1>1. CASE Begin(c) \/ Timer(c) \/ Finish(c) \/ YieldWhileDispatched(c)
  <2>1. UNCHANGED <<channelVars, callerVars, wakeup_queue>> /\ at[c] \in {"idle", "yield"}
    BY <1>1 DEF Begin, Finish, Timer, YieldWhileDispatched
  <2> QED BY <1>0, <2>1 DEF channelVars, callerVars
<1>2. ASSUME NEW t \in {"connect", "request", "response"}, Call(c, t)
      PROVE  Queues(c)
  <2>1. at'[c] = "enter" /\ UNCHANGED <<__connecting, wakeup_queue>>
    BY <1>2, GoesDoes DEF Call
  <2> QED BY <1>0, <2>1
<1>3. CASE Enter(c) \/ Check(c)
  <2>1. CASE Raise(c) /\ UNCHANGED __connecting
    <3>1. at'[c] = "idle" /\ Wakes(<<>>)
      BY <2>1, EndedDoes, RaiseDoes
    <3> QED BY <2>1, <3>1
  <2>2. CASE Goes(c, "send") /\ UNCHANGED <<__connecting, wakeup_queue>>
    BY <1>0, <2>2, GoesDoes
  <2>3. CASE /\ Goes(c, "connecting") /\ Suspend
             /\ __connecting' = Append(__connecting, c) /\ UNCHANGED wakeup_queue
    BY <1>0, <2>3, GoesDoes DEF Suspend
  <2>4. CASE /\ Goes(c, "connect") /\ UNCHANGED wakeup_queue
             /\ __connecting = <<>> /\ __connecting' = <<Busy>>
    BY <1>0, <2>4, GoesDoes
  <2> QED BY <1>3, <2>1, <2>2, <2>3, <2>4 DEF Enter, Check
<1>4. CASE Connect(c)
  <2>1. UNCHANGED <<__connecting, wakeup_queue>>
    BY <1>4 DEF Connect, channelVars
  <2>2. Ended(c) \/ Goes(c, "open") \/ Goes(c, "done")
    BY <1>4 DEF Connect
  <2> QED BY <1>0, <2>1, <2>2, GoesDoes, EndedDoes
<1>5. CASE Opened(c)
  <2>1. UNCHANGED __connecting /\ at'[c] = "yield"
    BY <1>5, GoesDoes DEF Opened
  <2>2. push_response(Signal) \/ UNCHANGED wakeup_queue
    BY <1>5 DEF Opened
  <2>3. Wakes(<<>>)
    BY <1>0, <2>2, PushDoes
  <2> QED BY <2>1, <2>3
<1>6. CASE Yielded(c)
  <2>1. UNCHANGED <<__connecting, wakeup_queue>> /\ at'[c] \in {"enter", "done"}
    BY <1>6, GoesDoes DEF Yielded
  <2> QED BY <1>0, <2>1
<1>7. CASE Done(c)
  <2>1. CASE __connecting' = <<>> /\ Wake(Tail(__connecting)) /\ Goes(c, "check")
    <3>1. __connecting # <<>>
      BY <1>7 DEF Done, OneMaker, Maker, Making
    <3>2. Tail(__connecting) \in Seq(Callers)
      BY <3>1 DEF TypeOK
    <3>3. Wakes(Tail(__connecting))
      BY <2>1, <3>2, WakeTokens
    <3> QED BY <2>1, <3>1, <3>3, GoesDoes
  <2>2. CASE Ended(c) /\ UNCHANGED <<__connecting, wakeup_queue>>
    BY <1>0, <2>2, EndedDoes
  <2> QED BY <1>7, <2>1, <2>2 DEF Done, Connected, Waiters
<1>8. CASE Send(c)
  <2>1. UNCHANGED __connecting /\ at[c] = "send"
    BY <1>8 DEF Send
  <2>2. Ended(c) \/ Goes(c, "response") \/ UNCHANGED at
    BY <1>8 DEF Send
  <2>3. UNCHANGED wakeup_queue \/ \E e : push_response(e)
    BY <1>8 DEF Send
  <2>4. Wakes(<<>>)
    BY <1>0, <2>3, PushDoes
  <2> QED BY <2>1, <2>2, <2>4, GoesDoes, EndedDoes
<1>9. CASE Answered(c)
  <2>1. UNCHANGED __connecting
    BY <1>9 DEF Answered
  <2>2. Ended(c) \/ \E p \in {"enter", "connect", "done"} : Goes(c, p)
    BY <1>9 DEF Answered, Raise
  <2>3. at'[c] # "connecting"
    BY <2>2, GoesDoes, EndedDoes
  <2>4. UNCHANGED wakeup_queue \/ CloseSocket(<<>>) \/ Raise(c)
    BY <1>9 DEF Answered
  <2>5. <<>> \in Seq(Callers)
    OBVIOUS
  <2>6. Wakes(<<>>)
    BY <1>0, <2>4, <2>5, CloseDoes, RaiseDoes
  <2> QED BY <2>1, <2>3, <2>6
<1>10. CASE Close(c) \/ ChangeHost(c)
  <2>1. UNCHANGED <<__connecting, at>> /\ at[c] = "idle"
    BY <1>10 DEF Close, ChangeHost, MayClose, callerVars
  <2>2. UNCHANGED wakeup_queue \/ CloseSocket(<<>>) \/ Wake(WaitWake)
    BY <1>10 DEF Close, ChangeHost
  <2>3. <<>> \in Seq(Callers)
    OBVIOUS
  <2>4. Wakes(<<>>)
    BY <1>0, <2>2, <2>3, CloseDoes, WakeDispatch
  <2> QED BY <2>1, <2>4
<1> QED BY <1>1, <1>2, <1>3, <1>4, <1>5, <1>6, <1>7, <1>8, <1>9, <1>10 DEF CallerStep

\* A sequence that is not empty is its head and its tail.
LEMMA TailOf ==
  ASSUME NEW T, NEW s \in Seq(T), s # <<>>, NEW d
  PROVE  /\ d \in Range(s) <=> (d = Head(s) \/ d \in Range(Tail(s)))
         /\ Single(s, d) => Single(Tail(s), d) /\ ~(d = Head(s) /\ d \in Range(Tail(s)))
<1> DEFINE n == Len(s)
           w == Tail(s)
<1>1. n \in Nat /\ n >= 1 /\ s[1] = Head(s) /\ DOMAIN s = 1 .. n
      /\ DOMAIN w = 1 .. (n - 1) /\ \A i \in 1 .. (n - 1) : w[i] = s[i + 1]
  OBVIOUS
<1> HIDE DEF n, w
<1>2. /\ \A i \in 1 .. (n - 1) : i + 1 \in 1 .. n /\ i + 1 # 1
      /\ \A i \in 1 .. n : i # 1 => i - 1 \in 1 .. (n - 1) /\ (i - 1) + 1 = i
      /\ \A i, j \in 1 .. (n - 1) : i + 1 = j + 1 => i = j
      /\ 1 \in 1 .. n
  BY <1>1
<1>3. d \in Range(w) <=> \E i \in 1 .. (n - 1) : s[i + 1] = d
  BY <1>1 DEF Range
<1>4. d \in Range(s) <=> \E i \in 1 .. n : s[i] = d
  BY <1>1 DEF Range
<1>5. ASSUME NEW i \in 1 .. n, s[i] = d
      PROVE  d = Head(s) \/ \E j \in 1 .. (n - 1) : s[j + 1] = d
  BY <1>1, <1>2, <1>5
<1>6. (d = Head(s) \/ \E j \in 1 .. (n - 1) : s[j + 1] = d) => \E i \in 1 .. n : s[i] = d
  BY <1>1, <1>2
<1>7. d \in Range(s) <=> (d = Head(s) \/ d \in Range(w))
  BY <1>3, <1>4, <1>5, <1>6
<1>8. ASSUME Single(s, d) PROVE Single(w, d) /\ ~(d = Head(s) /\ d \in Range(w))
  <2>1. \A i, j \in 1 .. n : s[i] = d /\ s[j] = d => i = j
    BY <1>1, <1>8 DEF Single
  <2>2. \A i, j \in 1 .. (n - 1) : s[i + 1] = d /\ s[j + 1] = d => i = j
    BY <1>2, <2>1
  <2>3. Single(w, d)
    BY <1>1, <2>2 DEF Single
  <2>4. \A i \in 1 .. (n - 1) : ~(s[i + 1] = d /\ s[1] = d)
    BY <1>2, <2>1
  <2> QED BY <1>1, <1>3, <2>3, <2>4
<1> QED BY <1>7, <1>8 DEF w

\* The callers that wait in __connecting when it is not empty are its tail.
LEMMA ConnectingTail ==
  ASSUME SocketChannelAssumption, TypeOK, __connecting # <<>>, NEW d \in Callers
  PROVE  /\ d \in Range(Tail(__connecting)) <=> d \in Range(__connecting)
         /\ Single(__connecting, d) => Single(Tail(__connecting), d)
<1>1. __connecting \in Seq(Callers \cup {Busy}) /\ Head(__connecting) # d
  BY Kinds DEF TypeOK
<1> QED BY <1>1, TailOf

\* The callers in a sequence to which one is appended.
LEMMA AppendCallers ==
  ASSUME SocketChannelAssumption, NEW s \in Seq(Callers \cup {Busy}), NEW c \in Callers, NEW d \in Callers
  PROVE  /\ d \in Range(Append(s, c)) <=> d \in Range(s) \/ d = c
         /\ Single(s, d) /\ (d = c => d \notin Range(s)) => Single(Append(s, c), d)
<1> DEFINE n == Len(s)
           w == Append(s, c)
<1>1. n \in Nat /\ DOMAIN s = 1 .. n /\ DOMAIN w = 1 .. n + 1
      /\ (\A i \in 1 .. n : w[i] = s[i]) /\ w[n + 1] = c
  BY AppendProperties
<1> HIDE DEF n, w
<1>2. /\ \A i \in 1 .. n : i \in 1 .. n + 1
      /\ \A i \in 1 .. n + 1 : i \in 1 .. n \/ i = n + 1
      /\ n + 1 \in 1 .. n + 1
  BY <1>1
<1>3. d \in Range(w) <=> (d \in Range(s) \/ d = c)
  <2>1. d \in Range(w) <=> \E i \in 1 .. n + 1 : w[i] = d
    BY <1>1 DEF Range
  <2>2. d \in Range(s) <=> \E i \in 1 .. n : s[i] = d
    BY <1>1 DEF Range
  <2>3. d \in Range(w) => d \in Range(s) \/ d = c
    BY <1>1, <1>2, <2>1, <2>2
  <2>4. d \in Range(s) => d \in Range(w)
    BY <1>1, <1>2, <2>1, <2>2
  <2>5. d = c => d \in Range(w)
    BY <1>1, <1>2, <2>1
  <2> QED BY <2>3, <2>4, <2>5
<1>4. ASSUME Single(s, d), d = c => d \notin Range(s) PROVE Single(w, d)
  <2> SUFFICES ASSUME NEW i \in 1 .. n + 1, NEW j \in 1 .. n + 1, w[i] = d, w[j] = d PROVE i = j
    BY <1>1 DEF Single
  <2>1. d = c => \A k \in 1 .. n : s[k] # d
    BY <1>1, <1>4 DEF Range
  <2>2. \A k, l \in 1 .. n : s[k] = d /\ s[l] = d => k = l
    BY <1>1, <1>4 DEF Single
  <2> QED BY <1>1, <1>2, <2>1, <2>2
<1> QED BY <1>3, <1>4 DEF w

\* Who is ready stays so while a caller runs.
LEMMA CallerReady ==
  ASSUME SocketChannelAssumption, ~EarlyClose, TypeOK, Places, OneMaker, Unused, Dispatched, Entries,
         Woken, Listed, NEW c \in Callers, CallerStep(c), NEW d \in Callers
  PROVE  /\ Ready(d) => d # c /\ Ready(d)'
         /\ d \in Range(wakeup_queue') /\ d \notin Range(wakeup_queue) => Ready(d)'
         /\ d \in Range(wakeup_queue) => d \in Range(wakeup_queue')
         /\ Single(wakeup_queue', d)
<1>1. Queues(c)
  BY CallerQueues
<1>2. /\ d # c => at'[d] = at[d] /\ fd'[d] = fd[d] /\ __result'[d] = __result[d]
      /\ running \in {c, 0} /\ running' \in {c, 0}
      /\ running = c \/ (running = 0 /\ at[c] \in {"idle", "yield"})
  BY CallerFrame
<1>3. d # 0 /\ d # Busy /\ <<>> \in Seq(Callers) /\ d \notin Range(<<>>) /\ Single(<<>>, d)
  BY Kinds DEF Range, Single
<1>4. Ready(d) => d # c
  BY <1>2 DEF Ready
<1>5. ASSUME d # c, d \notin Range(__connecting) PROVE d \notin Range(__connecting')
  <2>1. CASE __connecting' = Append(__connecting, c)
    BY <1>5, <2>1, AppendCallers DEF TypeOK
  <2>2. CASE __connecting' = <<Busy>>
    BY <1>3, <2>2 DEF Range
  <2>3. CASE __connecting' = <<>>
    BY <1>3, <2>3
  <2> QED BY <1>1, <1>5, <2>1, <2>2, <2>3 DEF Queues
<1>6. ASSUME Ready(d) PROVE Ready(d)'
  <2>1. d # c /\ running' # d
    BY <1>2, <1>3, <1>4, <1>6
  <2>2. ASSUME at[d] = "open", link[fd[d]] # "new" PROVE link'[fd[d]] # "new"
    <3>1. fd[d] \in Fds /\ link[fd[d]] # "none"
      BY <2>2 DEF OneMaker
    <3> QED BY <2>2, <3>1, CallerLinks
  <2> QED BY <1>2, <1>5, <1>6, <2>1, <2>2 DEF Ready
<1>7. CASE Wakes(<<>>)
  BY <1>3, <1>4, <1>6, <1>7 DEF Wakes, Woken
<1>8. CASE __connecting # <<>> /\ __connecting' = <<>> /\ Wakes(Tail(__connecting))
  <2>1. /\ d \in Range(Tail(__connecting)) <=> d \in Range(__connecting)
        /\ Single(Tail(__connecting), d)
    BY <1>8, ConnectingTail DEF Listed
  <2>2. d \in Range(__connecting) => at[d] = "connecting" /\ running # d
    BY DEF Listed
  <2>3. ASSUME d \in Range(__connecting) PROVE d # c /\ d \notin Range(wakeup_queue) /\ Ready(d)'
    <3>1. d # c
      BY <1>2, <2>2, <2>3
    <3>2. at'[d] = "connecting" /\ running' # d /\ d \notin Range(__connecting')
      BY <1>2, <1>3, <1>8, <2>2, <2>3, <3>1
    <3>3. d \notin Range(wakeup_queue)
      BY <2>2, <2>3 DEF Woken, Ready
    <3> QED BY <3>1, <3>2, <3>3 DEF Ready
  <2>4. d \in Range(wakeup_queue') <=>
          (d \in Range(wakeup_queue) \/ (d \in Range(Tail(__connecting)) /\ Sleeping(d)))
    BY <1>8 DEF Wakes
  <2>5. Single(wakeup_queue, d)
    BY DEF Woken
  <2>6. Single(wakeup_queue', d)
    BY <1>8, <2>1, <2>3, <2>5 DEF Wakes
  <2> QED BY <1>4, <1>6, <2>1, <2>3, <2>4, <2>6
<1> QED BY <1>1, <1>4, <1>6, <1>7, <1>8 DEF Queues

\* Every step keeps Woken.
LEMMA WokenStep ==
  ASSUME SocketChannelAssumption, ~EarlyClose, TypeOK, Places, OneMaker, Unused, Dispatched, Entries,
         Woken, Listed, InOrder, Steps
  PROVE  Woken'
<1>1. ASSUME NEW c \in Callers, CallerStep(c) PROVE Woken'
  <2> SUFFICES ASSUME NEW d \in Callers
               PROVE  /\ d \in Range(wakeup_queue') => Ready(d)'
                      /\ Single(wakeup_queue', d)
                      /\ at'[d] = "response" /\ running' # d /\ __result'[d] # None
                           => d \in Range(wakeup_queue')
    BY DEF Woken
  <2>1. d \in Range(wakeup_queue) => Ready(d)
    BY DEF Woken
  <2>2. /\ Ready(d) => Ready(d)'
        /\ d \in Range(wakeup_queue') /\ d \notin Range(wakeup_queue) => Ready(d)'
        /\ d \in Range(wakeup_queue) => d \in Range(wakeup_queue')
        /\ Single(wakeup_queue', d)
    BY <1>1, CallerReady
  <2>3. CASE d = c
    BY <1>1, <2>1, <2>2, <2>3, CallerHasNone
  <2>4. CASE d # c
    <3>1. at'[d] = at[d] /\ __result'[d] = __result[d] /\ running # d
      BY <1>1, <2>4, CallerFrame, Kinds
    <3> QED BY <2>1, <2>2, <3>1 DEF Woken
  <2> QED BY <2>3, <2>4
<1>2. ASSUME NEW t \in Fds, DispatchStep(t) PROVE Woken'
  <2> SUFFICES ASSUME NEW d \in Callers
               PROVE  /\ d \in Range(wakeup_queue') => Ready(d)'
                      /\ Single(wakeup_queue', d)
                      /\ at'[d] = "response" /\ running' # d /\ __result'[d] # None
                           => d \in Range(wakeup_queue')
    BY DEF Woken
  <2>1. UNCHANGED <<__connecting, at, fd, link>> /\ running # d /\ running' # d
    BY <1>2, DispatchFrame DEF callerVars
  <2>2. CASE Untold(d)
    BY <2>1, <2>2 DEF Untold, Woken, Ready
  <2>3. CASE ToldNow(d)
    <3>1. at[d] = "response" /\ __result[d] = None
      BY <2>3, ListenerSleeps DEF ToldNow
    <3>2. d \notin Range(wakeup_queue)
      BY <3>1 DEF Woken, Ready
    <3>3. Ready(d)'
      BY <2>1, <2>3, <3>1 DEF Ready, ToldNow
    <3> QED BY <2>3, <3>2, <3>3 DEF ToldNow, Woken
  <2> QED BY <1>2, <2>2, <2>3, DispatchTells
<1>3. CASE Resume
  <2> SUFFICES ASSUME NEW d \in Callers
               PROVE  /\ d \in Range(wakeup_queue') => Ready(d)'
                      /\ Single(wakeup_queue', d)
                      /\ at'[d] = "response" /\ running' # d /\ __result'[d] # None
                           => d \in Range(wakeup_queue')
    BY DEF Woken
  <2>1. /\ UNCHANGED <<__connecting, at, fd, link, __result>>
        /\ running = 0 /\ wakeup_queue # <<>> /\ wakeup_queue' = Tail(wakeup_queue)
        /\ running' = IF Sleeping(Head(wakeup_queue)) THEN Head(wakeup_queue) ELSE 0
    BY <1>3, ResumeFrame DEF channelVars, callerVars, socketVars
  <2>2. /\ wakeup_queue \in Seq(Tokens) /\ d # 0
        /\ Single(wakeup_queue, d) /\ d \in Range(wakeup_queue) => Ready(d)
        /\ at[d] = "response" /\ running # d /\ __result[d] # None => d \in Range(wakeup_queue)
    BY Kinds DEF Woken, TypeOK, Tokens
  <2>3. /\ d \in Range(wakeup_queue) <=> (d = Head(wakeup_queue) \/ d \in Range(wakeup_queue'))
        /\ Single(wakeup_queue, d) =>
             Single(wakeup_queue', d) /\ ~(d = Head(wakeup_queue) /\ d \in Range(wakeup_queue'))
    BY <2>1, <2>2, TailOf
  <2>4. Single(wakeup_queue', d) /\ ~(d = Head(wakeup_queue) /\ d \in Range(wakeup_queue'))
    BY <2>3 DEF Woken
  <2>5. ASSUME d \in Range(wakeup_queue') PROVE Ready(d)'
    <3>1. Ready(d) /\ running' # d
      BY <2>1, <2>2, <2>3, <2>4, <2>5 DEF Woken
    <3> QED BY <2>1, <3>1 DEF Ready
  <2>6. ASSUME at[d] = "response", running' # d, __result[d] # None PROVE d \in Range(wakeup_queue')
    <3>1. d \in Range(wakeup_queue)
      BY <2>1, <2>2, <2>6
    <3>2. Sleeping(d)
      BY <2>1, <2>2, <2>6 DEF Sleeping
    <3> QED BY <2>1, <2>3, <2>6, <3>1, <3>2
  <2> QED BY <2>1, <2>4, <2>5, <2>6
<1>4. CASE SocketStep
  <2> SUFFICES ASSUME NEW d \in Callers
               PROVE  /\ d \in Range(wakeup_queue') => Ready(d)'
                      /\ Single(wakeup_queue', d)
                      /\ at'[d] = "response" /\ running' # d /\ __result'[d] # None
                           => d \in Range(wakeup_queue')
    BY DEF Woken
  <2>1. UNCHANGED <<__connecting, __result, at, fd, running>>
    BY <1>4, SocketFrame DEF channelVars, callerVars
  <2>2. \A t \in Fds : link[t] # "new" => link'[t] # "new"
    BY <1>4 DEF SocketStep, Established, Answer, PeerCloses, TypeOK
  <2>3. ASSUME Ready(d) PROVE Ready(d)'
    <3>1. at[d] = "open" => fd[d] \in Fds
      BY DEF OneMaker
    <3> QED BY <2>1, <2>2, <2>3, <3>1 DEF Ready
  <2>4. ASSUME NEW c \in Callers, Established(c)
        PROVE  /\ d \in Range(wakeup_queue') => Ready(d)'
               /\ Single(wakeup_queue', d)
               /\ d \in Range(wakeup_queue) => d \in Range(wakeup_queue')
    <3>1. Wake(<<c>>) /\ at[c] = "open" /\ link[fd[c]] = "new" /\ running = 0
          /\ link' = [link EXCEPT ![fd[c]] = "up"]
      BY <2>4 DEF Established, Message
    <3>2. fd[c] \in Fds /\ link'[fd[c]] = "up"
      BY <3>1 DEF OneMaker, TypeOK
    <3>3. Ready(c)' /\ c \notin Range(wakeup_queue)
      BY <2>1, <3>1, <3>2, Kinds DEF Ready, Woken
    <3>4. <<c>> \in Seq(Callers) /\ (d \in Range(<<c>>) <=> d = c) /\ Single(<<c>>, d)
      BY DEF Range, Single
    <3>5. Wakes(<<c>>)
      BY <3>1, <3>4, WakeTokens
    <3> QED BY <2>3, <3>3, <3>4, <3>5 DEF Wakes, Woken
  <2>5. ASSUME Wakes(<<>>)
        PROVE  /\ d \in Range(wakeup_queue') => Ready(d)'
               /\ Single(wakeup_queue', d)
               /\ d \in Range(wakeup_queue) => d \in Range(wakeup_queue')
    <3>1. d \notin Range(<<>>) /\ Single(<<>>, d)
      BY DEF Range, Single
    <3> QED BY <2>3, <2>5, <3>1 DEF Wakes, Woken
  <2>6. ASSUME NEW t \in Fds, Wake(<<t>>) PROVE Wakes(<<>>)
    <3>1. WaitWake \in Seq(Fds) /\ <<t>> \in Seq(Tokens) /\ wakeup_queue \in Seq(Tokens)
      BY DEF WaitWake, TypeOK, Tokens
    <3>2. \A k \in Callers : k \notin Range(<<t>>) /\ k \notin Range(<<>>)
      BY Kinds DEF Range
    <3>3. \A k \in Callers : Single(<<t>>, k)
      BY Kinds DEF Single
    <3> QED BY <2>6, <3>1, <3>2, <3>3, WakeDoes DEF Wakes
  <2>7. (\E c \in Callers : Established(c)) \/ Wakes(<<>>)
    BY <1>4, <2>6, NoWake DEF SocketStep, Answer, PeerCloses
  <2> QED BY <2>1, <2>4, <2>5, <2>7 DEF Woken
<1>5. CASE UNCHANGED vars
  BY <1>5 DEF Woken, Ready, vars, channelVars, callerVars, socketVars
<1> QED BY <1>1, <1>2, <1>3, <1>4, <1>5 DEF Steps

\* wakeup_queue loses nobody but the one that is resumed.
LEMMA ListedOthers ==
  ASSUME SocketChannelAssumption, TypeOK, Entries, OneMaker, Unused, Dispatched, InOrder, Woken,
         Steps, NEW d \in Callers, ~ \E c \in Callers : CallerStep(c)
  PROVE  /\ UNCHANGED <<__connecting, at>>
         /\ d \in Range(wakeup_queue) => d \in Range(wakeup_queue') \/ (Ready(d) /\ running' = d)
         /\ running' = d => running = d \/ d \in Range(wakeup_queue)
         /\ running = d => running' = d
<1>1. ASSUME NEW t \in Fds, DispatchStep(t)
      PROVE  /\ UNCHANGED <<__connecting, at>> /\ running # d /\ running' # d
             /\ d \in Range(wakeup_queue) => d \in Range(wakeup_queue')
  BY <1>1, DispatchFrame, DispatchTells DEF callerVars, Untold, ToldNow
<1>2. CASE Resume
  <2>1. /\ UNCHANGED <<__connecting, at>>
        /\ running = 0 /\ wakeup_queue # <<>> /\ wakeup_queue' = Tail(wakeup_queue)
        /\ running' = IF Sleeping(Head(wakeup_queue)) THEN Head(wakeup_queue) ELSE 0
    BY <1>2, ResumeFrame DEF channelVars, callerVars
  <2>2. wakeup_queue \in Seq(Tokens) /\ d # 0
    BY Kinds DEF TypeOK, Tokens
  <2>3. d \in Range(wakeup_queue) <=> (d = Head(wakeup_queue) \/ d \in Range(wakeup_queue'))
    BY <2>1, <2>2, TailOf
  <2>4. d \in Range(wakeup_queue) => Ready(d)
    BY DEF Woken
  <2>5. Ready(d) => Sleeping(d)
    BY DEF Ready, Sleeping
  <2> QED BY <2>1, <2>2, <2>3, <2>4, <2>5
<1>3. CASE SocketStep \/ UNCHANGED vars
  <2>1. UNCHANGED <<__connecting, at, running>>
    BY <1>3, SocketFrame DEF vars, channelVars, callerVars
  <2>2. d \in Range(wakeup_queue) => d \in Range(wakeup_queue')
    <3>1. CASE UNCHANGED wakeup_queue
      BY <3>1
    <3>2. ASSUME NEW k \in Tokens, Wake(<<k>>) PROVE d \in Range(wakeup_queue) => d \in Range(wakeup_queue')
      <4>1. <<k>> \in Seq(Tokens) /\ wakeup_queue \in Seq(Tokens)
        BY DEF TypeOK, Tokens
      <4> QED BY <3>2, <4>1, WakeDoes
    <3> QED BY <1>3, <3>1, <3>2 DEF SocketStep, Established, Answer, PeerCloses, vars, Tokens
  <2> QED BY <2>1, <2>2
<1> QED BY <1>1, <1>2, <1>3 DEF Steps

\* Every step keeps Listed.
LEMMA ListedStep ==
  ASSUME SocketChannelAssumption, ~EarlyClose, TypeOK, Places, OneMaker, Unused, Dispatched, Entries,
         Woken, Listed, InOrder, Steps
  PROVE  Listed'
<1>0. \A d \in Callers :
        /\ at[d] = "connecting" /\ running # d => d \in Range(__connecting) \cup Range(wakeup_queue)
        /\ d \in Range(__connecting) => at[d] = "connecting" /\ running # d
        /\ Single(__connecting, d)
  BY DEF Listed
<1> SUFFICES ASSUME NEW d \in Callers
             PROVE  /\ at'[d] = "connecting" /\ running' # d =>
                         d \in Range(__connecting') \cup Range(wakeup_queue')
                    /\ d \in Range(__connecting') => at'[d] = "connecting" /\ running' # d
                    /\ Single(__connecting', d)
  BY DEF Listed
<1>1. ASSUME NEW c \in Callers, CallerStep(c)
      PROVE  /\ at'[d] = "connecting" /\ running' # d =>
                  d \in Range(__connecting') \cup Range(wakeup_queue')
             /\ d \in Range(__connecting') => at'[d] = "connecting" /\ running' # d
             /\ Single(__connecting', d)
  <2>1. Queues(c)
    BY <1>1, CallerQueues
  <2>2. /\ d # c => at'[d] = at[d] /\ running # d /\ running' # d
        /\ running = c \/ (running = 0 /\ at[c] \in {"idle", "yield"})
        /\ d # 0 /\ d # Busy
    BY <1>1, CallerFrame, Kinds
  <2>3. d \in Range(wakeup_queue) => d \in Range(wakeup_queue')
    BY <1>1, CallerReady
  <2>4. c \notin Range(__connecting)
    BY <1>0, <2>2
  <2>5. CASE UNCHANGED __connecting /\ at'[c] # "connecting"
    BY <1>0, <2>2, <2>3, <2>4, <2>5
  <2>6. CASE /\ __connecting' = Append(__connecting, c)
             /\ at'[c] = "connecting" /\ running' = 0
    <3>1. /\ d \in Range(__connecting') <=> (d \in Range(__connecting) \/ d = c)
          /\ Single(__connecting, d) /\ (d = c => d \notin Range(__connecting)) => Single(__connecting', d)
      BY <2>6, AppendCallers DEF TypeOK
    <3> QED BY <1>0, <2>2, <2>3, <2>4, <2>6, <3>1
  <2>7. CASE __connecting = <<>> /\ __connecting' = <<Busy>> /\ at'[c] # "connecting"
    <3>1. d \notin Range(__connecting) /\ d \notin Range(__connecting') /\ Single(__connecting', d)
      BY <2>2, <2>7 DEF Range, Single
    <3> QED BY <1>0, <2>2, <2>3, <2>7, <3>1
  <2>8. CASE /\ __connecting # <<>> /\ __connecting' = <<>> /\ Wakes(Tail(__connecting))
             /\ at'[c] # "connecting"
    <3>1. d \notin Range(__connecting') /\ Single(__connecting', d)
      BY <2>8 DEF Range, Single
    <3>2. ASSUME d \in Range(__connecting) PROVE d \in Range(wakeup_queue')
      <4>1. Sleeping(d) /\ d \in Range(Tail(__connecting))
        BY <1>0, <2>8, <3>2, ConnectingTail DEF Sleeping
      <4> QED BY <2>8, <4>1 DEF Wakes
    <3> QED BY <1>0, <2>2, <2>3, <2>8, <3>1, <3>2
  <2> QED BY <2>1, <2>5, <2>6, <2>7, <2>8 DEF Queues
<1>2. CASE ~ \E c \in Callers : CallerStep(c)
  <2>1. /\ UNCHANGED <<__connecting, at>>
        /\ d \in Range(wakeup_queue) => d \in Range(wakeup_queue') \/ (Ready(d) /\ running' = d)
        /\ running' = d => running = d \/ d \in Range(wakeup_queue)
        /\ running = d => running' = d
    BY <1>2, ListedOthers
  <2>2. d \in Range(wakeup_queue) /\ d \in Range(__connecting) => FALSE
    BY <1>0 DEF Woken, Ready
  <2> QED BY <1>0, <2>1, <2>2
<1> QED BY <1>1, <1>2

\* The step of a caller, for __connecting and who makes the connection.
Keeps(c) ==
  /\ abandoned => abandoned'
  /\ UNCHANGED __authcoroutine \/ Maker(c)
  /\ Maker(c) => abandoned' \/ __connecting' = <<>> \/ (Maker(c)' /\ at'[c] # "connecting")
  /\ __connecting = <<>> => __connecting' = <<>> \/ at'[c] = "connect"

\* A maker stops making the connection when the list is empty, or abandons it.
LEMMA CallerKeeps ==
  ASSUME SocketChannelAssumption, TypeOK, NEW c \in Callers, CallerStep(c)
  PROVE  Keeps(c)
<1> USE DEF Keeps
<1>0. abandoned \in BOOLEAN /\ (UNCHANGED abandoned \/ Abandons(c))
  BY CallerAbandons DEF TypeOK
<1>1. abandoned => abandoned'
  BY <1>0 DEF Abandons
<1>2. Abandons(c) /\ Maker(c) => abandoned'
  BY <1>0 DEF Abandons
<1>3. CASE Begin(c) \/ Timer(c) \/ Finish(c) \/ YieldWhileDispatched(c) \/ Close(c) \/ ChangeHost(c)
  <2>1. UNCHANGED <<at, __authcoroutine, __connecting>> /\ at[c] # "connecting"
    BY <1>3 DEF Begin, Finish, Timer, YieldWhileDispatched, Close, ChangeHost, MayClose, channelVars,
                callerVars
  <2> QED BY <1>1, <2>1 DEF Maker
<1>4. ASSUME NEW t \in {"connect", "request", "response"}, Call(c, t)
      PROVE  Keeps(c)
  <2>1. at[c] = "idle" /\ at'[c] = "enter" /\ UNCHANGED <<__connecting, __authcoroutine>>
    BY <1>4, GoesDoes DEF Call
  <2> QED BY <1>1, <2>1 DEF Maker, Making
<1>5. CASE Enter(c) \/ Check(c)
  <2>0. at[c] \in {"enter", "check", "connecting"}
    BY <1>5 DEF Enter, Check
  <2>1. CASE Raise(c) /\ UNCHANGED __connecting
    BY <1>1, <1>2, <2>1, RaiseDoes DEF Raise, Maker
  <2>2. CASE UNCHANGED <<__authcoroutine, __connecting>> /\ Goes(c, "send")
    BY <1>1, <2>0, <2>2, GoesDoes DEF Maker, Making
  <2>3. CASE UNCHANGED __authcoroutine /\ Abandons(c) /\ __connecting # <<>>
    BY <1>1, <1>2, <2>3
  <2>4. CASE UNCHANGED __authcoroutine /\ Goes(c, "connect") /\ __connecting = <<>>
    BY <1>1, <2>4, GoesDoes DEF Maker, Making
  <2> QED BY <1>5, <2>1, <2>2, <2>3, <2>4 DEF Enter, Check
<1>6. CASE Connect(c)
  <2>1. UNCHANGED <<__connecting, __authcoroutine>> /\ at[c] = "connect"
    BY <1>6 DEF Connect, channelVars
  <2>2. CASE Abandons(c)
    BY <1>1, <1>2, <2>1, <2>2
  <2>3. CASE Goes(c, "done") \/ Goes(c, "open")
    BY <1>1, <2>1, <2>3, GoesDoes DEF Maker, Making
  <2> QED BY <1>6, <2>2, <2>3 DEF Connect
<1>7. CASE Opened(c)
  <2>1. UNCHANGED <<__connecting, __authcoroutine>> /\ at'[c] = "yield"
    BY <1>7, GoesDoes DEF Opened
  <2> QED BY <1>1, <2>1 DEF Maker, Making
<1>8. CASE Yielded(c)
  <2>1. /\ UNCHANGED __connecting /\ at[c] = "yield" /\ at'[c] \in {"enter", "done"}
        /\ at'[c] = "done" \/ __authcoroutine' = c
    BY <1>8, GoesDoes DEF Yielded, TypeOK
  <2> QED BY <1>1, <2>1 DEF Maker, Making
<1>9. CASE Done(c)
  <2>1. UNCHANGED __authcoroutine /\ at[c] = "done"
    BY <1>9 DEF Done
  <2>2. __connecting' = <<>> \/ (UNCHANGED __connecting /\ Abandons(c))
    BY <1>9 DEF Done, Connected
  <2> QED BY <1>1, <1>2, <2>1, <2>2
<1>10. CASE Send(c)
  <2>1. UNCHANGED <<__connecting, __authcoroutine>> /\ at[c] = "send"
    BY <1>10 DEF Send
  <2>2. \/ __authcoroutine # c
        \/ Goes(c, "response") \/ UNCHANGED at
    BY <1>10 DEF Send, Authenticating
  <2>3. __authcoroutine # c => ~Maker(c)
    BY <2>1 DEF Maker, Making
  <2> QED BY <1>1, <2>1, <2>2, <2>3, GoesDoes DEF Maker
<1>11. CASE Answered(c)
  <2>1. UNCHANGED __connecting /\ at[c] = "response"
    BY <1>11 DEF Answered
  <2>2. __authcoroutine # c => ~Maker(c)
    BY <2>1 DEF Maker, Making
  <2>3. CASE ~Authenticating(c) /\ UNCHANGED __authcoroutine
    BY <1>1, <2>1, <2>2, <2>3 DEF Authenticating
  <2>4. CASE Authenticating(c) /\ Goes(c, "enter") /\ UNCHANGED __authcoroutine
    BY <1>1, <2>1, <2>4, GoesDoes DEF Maker, Authenticating
  <2>5. CASE Authenticating(c) /\ \E p \in {"connect", "done"} : Goes(c, p)
    BY <1>1, <2>1, <2>5, GoesDoes DEF Maker, Making, Authenticating
  <2>6. CASE Authenticating(c) /\ Raise(c)
    BY <1>1, <1>2, <2>1, <2>6, RaiseDoes DEF Raise, Maker, Authenticating
  <2> QED BY <1>11, <2>3, <2>4, <2>5, <2>6 DEF Answered
<1> QED BY <1>3, <1>4, <1>5, <1>6, <1>7, <1>8, <1>9, <1>10, <1>11 DEF CallerStep

\* Every step keeps Kept.
LEMMA KeptStep ==
  ASSUME SocketChannelAssumption, TypeOK, OneMaker, Kept, Steps
  PROVE  Kept'
<1>0. abandoned \in BOOLEAN
  BY DEF TypeOK
<1>1. ASSUME NEW c \in Callers, CallerStep(c), ~abandoned', __connecting' # <<>>
      PROVE  \E d \in Callers : Maker(d)' /\ at'[d] # "connecting"
  <2>1. Keeps(c) /\ ~abandoned
    BY <1>1, CallerKeeps DEF Keeps
  <2>2. CASE __connecting = <<>>
    <3>1. at'[c] = "connect"
      BY <1>1, <2>1, <2>2 DEF Keeps
    <3> QED BY <3>1 DEF Maker, Making
  <2>3. CASE __connecting # <<>>
    <3>1. PICK d \in Callers : Maker(d) /\ at[d] # "connecting"
      BY <2>1, <2>3 DEF Kept, MakerWorks
    <3>2. CASE d = c
      BY <1>1, <2>1, <3>1, <3>2 DEF Keeps
    <3>3. CASE d # c
      <4>1. ~Maker(c)
        BY <3>1, <3>3 DEF OneMaker
      <4>2. UNCHANGED __authcoroutine /\ at'[d] = at[d]
        BY <1>1, <2>1, <3>3, <4>1, CallerFrame DEF Keeps
      <4> QED BY <3>1, <4>2 DEF Maker
    <3> QED BY <3>2, <3>3
  <2> QED BY <2>2, <2>3
<1>2. CASE ~ \E c \in Callers : CallerStep(c)
  <2>1. UNCHANGED <<abandoned, at, __connecting, __authcoroutine>>
    BY <1>2, DispatchFrame, ResumeFrame, SocketFrame DEF Steps, channelVars, callerVars, vars
  <2> QED BY <2>1 DEF Kept, MakerWorks, Maker
<1> QED BY <1>1, <1>2 DEF Kept, MakerWorks

-----------------------------------------------------------------------------
(* The answers come in the order of the entries.                            *)

\* The answers arrived and asked for are those of the entries, from the first on.
OrderOf(a, b, p, e, exact) ==
  LET h == IF e = NoOne THEN 0 ELSE 1
      n == Len(a) + Len(b)
  IN  /\ n <= Len(p) + h
      /\ exact => n = Len(p) + h
      /\ \A i \in 1 .. n : (IF i <= Len(a) THEN a[i].r ELSE b[i - Len(a)])
                             = (IF i <= h THEN e.r ELSE p[i - h].r)

\* InOrder says so of the dispatch coroutine's connection.
LEMMA OrderIs ==
  InOrder <=> \A t \in Fds : mode = "order" /\ t = __dispatch_thread /\ link[t] # "lost" =>
                OrderOf(arrived[t], asked[t], pending, reads[t], __sock # 0)
BY DEF InOrder, OrderOf, Coming, Behind, AnswerAt, EntryAt

\* The same after a step.
LEMMA OrderIsNext ==
  InOrder' <=> \A t \in Fds : mode' = "order" /\ t = __dispatch_thread' /\ link'[t] # "lost" =>
                OrderOf(arrived'[t], asked'[t], pending', reads'[t], __sock' # 0)
BY DEF InOrder, OrderOf, Coming, Behind, AnswerAt, EntryAt

Arrival == [kind : {"answer", "refusal", "garbage"}, r : Requests]

\* Nothing is known of the number of entries when the socket is closed.
LEMMA OrderClosed ==
  ASSUME NEW a, NEW b, NEW p, NEW e, NEW exact, OrderOf(a, b, p, e, exact)
  PROVE  OrderOf(a, b, p, e, FALSE)
BY DEF OrderOf

\* A close signal is the last entry.
LEMMA OrderPush ==
  ASSUME NEW a \in Seq(Arrival), NEW b \in Seq(Requests), NEW p \in Seq(Entry \cup {Signal}),
         NEW e, NEW exact, OrderOf(a, b, p, e, exact), NEW x \in Entry \cup {Signal}
  PROVE  OrderOf(a, b, Append(p, x), e, FALSE)
<1> DEFINE h == IF e = NoOne THEN 0 ELSE 1
           n == Len(a) + Len(b)
           l == Len(p)
           w == Append(p, x)
<1>1. n \in Nat /\ l \in Nat /\ h \in {0, 1}
  OBVIOUS
<1>2. Len(w) = l + 1 /\ \A i \in 1 .. l : w[i] = p[i]
  BY AppendProperties
<1>3. n <= l + h
  BY DEF OrderOf
<1>4. \A i \in 1 .. n : (IF i <= Len(a) THEN a[i].r ELSE b[i - Len(a)])
                          = (IF i <= h THEN e.r ELSE p[i - h].r)
  BY DEF OrderOf
<1> HIDE DEF h, n, l, w
<1>5. n <= Len(w) + h
  BY <1>1, <1>2, <1>3
<1>6. \A i \in 1 .. n : ~(i <= h) => i - h \in 1 .. l
  BY <1>1, <1>3
<1>7. \A i \in 1 .. n : (IF i <= Len(a) THEN a[i].r ELSE b[i - Len(a)])
                          = (IF i <= h THEN e.r ELSE w[i - h].r)
  BY <1>2, <1>4, <1>6
<1> QED BY <1>5, <1>7 DEF OrderOf, h, n, w

\* A request is asked last and its entry is the last.
LEMMA OrderSend ==
  ASSUME NEW a \in Seq(Arrival), NEW b \in Seq(Requests), NEW p \in Seq(Entry \cup {Signal}),
         NEW e, OrderOf(a, b, p, e, TRUE), NEW x \in Entry
  PROVE  OrderOf(a, Append(b, x.r), Append(p, x), e, TRUE)
<1> DEFINE h == IF e = NoOne THEN 0 ELSE 1
           m == Len(a)
           k == Len(b)
           l == Len(p)
           w == Append(p, x)
           v == Append(b, x.r)
<1>1. m \in Nat /\ k \in Nat /\ l \in Nat /\ h \in {0, 1}
  OBVIOUS
<1>2. x.r \in Requests
  BY DEF Entry
<1>3. Len(w) = l + 1 /\ (\A i \in 1 .. l : w[i] = p[i]) /\ w[l + 1] = x
  BY AppendProperties
<1>4. Len(v) = k + 1 /\ (\A i \in 1 .. k : v[i] = b[i]) /\ v[k + 1] = x.r
  BY <1>2, AppendProperties
<1>5. m + k = l + h
  BY DEF OrderOf
<1>6. \A i \in 1 .. m + k : (IF i <= m THEN a[i].r ELSE b[i - m])
                              = (IF i <= h THEN e.r ELSE p[i - h].r)
  BY DEF OrderOf
<1> HIDE DEF h, m, k, l, w, v
<1>7. m + Len(v) = Len(w) + h
  BY <1>1, <1>3, <1>4, <1>5
<1>8. ASSUME NEW i \in 1 .. m + (k + 1)
      PROVE  (IF i <= m THEN a[i].r ELSE v[i - m]) = (IF i <= h THEN e.r ELSE w[i - h].r)
  <2>1. CASE i = m + k + 1
    <3>1. i - m = k + 1 /\ i - h = l + 1 /\ ~(i <= m) /\ ~(i <= h)
      BY <1>1, <1>5, <2>1
    <3> QED BY <1>3, <1>4, <3>1
  <2>2. CASE i # m + k + 1
    <3>1. /\ i \in 1 .. m + k
          /\ ~(i <= m) => i - m \in 1 .. k
          /\ ~(i <= h) => i - h \in 1 .. l
      BY <1>1, <1>5, <2>2
    <3> QED BY <1>3, <1>4, <1>6, <3>1
  <2> QED BY <2>1, <2>2
<1>9. m + Len(v) = m + (k + 1)
  BY <1>4
<1>10. m + Len(v) <= Len(w) + h
  BY <1>1, <1>3, <1>7
<1>11. \A i \in 1 .. m + Len(v) :
         (IF i <= m THEN a[i].r ELSE v[i - m]) = (IF i <= h THEN e.r ELSE w[i - h].r)
  BY <1>8, <1>9
<1> QED BY <1>7, <1>10, <1>11 DEF OrderOf, h, m, w, v

\* The first entry is taken.
LEMMA OrderTake ==
  ASSUME NEW a \in Seq(Arrival), NEW b \in Seq(Requests), NEW p \in Seq(Entry \cup {Signal}),
         p # <<>>, Head(p) # NoOne, NEW exact, OrderOf(a, b, p, NoOne, exact)
  PROVE  OrderOf(a, b, Tail(p), Head(p), exact)
<1> DEFINE n == Len(a) + Len(b)
           l == Len(p)
           w == Tail(p)
           f == Head(p)
<1>1. n \in Nat /\ l \in Nat /\ l >= 1 /\ f = p[1]
      /\ Len(w) = l - 1 /\ \A i \in 1 .. (l - 1) : w[i] = p[i + 1]
  OBVIOUS
<1>2. n <= l + 0 /\ (exact => n = l + 0)
      /\ \A i \in 1 .. n : (IF i <= Len(a) THEN a[i].r ELSE b[i - Len(a)])
                             = (IF i <= 0 THEN NoOne.r ELSE p[i - 0].r)
  BY DEF OrderOf
<1>3. f # NoOne
  OBVIOUS
<1> HIDE DEF n, l, w, f
<1>4. n <= Len(w) + 1 /\ (exact => n = Len(w) + 1)
  BY <1>1, <1>2
<1>5. ASSUME NEW i \in 1 .. n
      PROVE  (IF i <= 0 THEN NoOne.r ELSE p[i - 0].r) = (IF i <= 1 THEN f.r ELSE w[i - 1].r)
  <2>1. /\ ~(i <= 0) /\ i - 0 = i /\ (i <= 1 => i = 1)
        /\ ~(i <= 1) => i - 1 \in 1 .. (l - 1) /\ (i - 1) + 1 = i
    BY <1>1, <1>2
  <2> QED BY <1>1, <2>1
<1>6. \A i \in 1 .. n : (IF i <= Len(a) THEN a[i].r ELSE b[i - Len(a)])
                          = (IF i <= 1 THEN f.r ELSE w[i - 1].r)
  BY <1>2, <1>5
<1> QED BY <1>3, <1>4, <1>6 DEF OrderOf, n, w, f

\* The first answer is read.
LEMMA OrderRead ==
  ASSUME NEW a \in Seq(Arrival), NEW b \in Seq(Requests), NEW p \in Seq(Entry \cup {Signal}),
         a # <<>>, NEW e, e # NoOne, NEW exact, OrderOf(a, b, p, e, exact)
  PROVE  OrderOf(Tail(a), b, p, NoOne, exact)
<1> DEFINE m == Len(a)
           k == Len(b)
           l == Len(p)
           w == Tail(a)
<1>1. m \in Nat /\ m >= 1 /\ k \in Nat /\ l \in Nat
      /\ Len(w) = m - 1 /\ \A i \in 1 .. (m - 1) : w[i] = a[i + 1]
  OBVIOUS
<1>2. m + k <= l + 1 /\ (exact => m + k = l + 1)
      /\ \A i \in 1 .. m + k : (IF i <= m THEN a[i].r ELSE b[i - m])
                                 = (IF i <= 1 THEN e.r ELSE p[i - 1].r)
  BY DEF OrderOf
<1> HIDE DEF m, k, l, w
<1>3. Len(w) + k <= l + 0 /\ (exact => Len(w) + k = l + 0)
  BY <1>1, <1>2
<1>4. ASSUME NEW i \in 1 .. (m - 1) + k
      PROVE  (IF i <= m - 1 THEN w[i].r ELSE b[i - (m - 1)]) = (IF i <= 0 THEN NoOne.r ELSE p[i - 0].r)
  <2>1. /\ i + 1 \in 1 .. m + k /\ ~(i <= 0) /\ i - 0 = i /\ (i + 1) - 1 = i /\ ~(i + 1 <= 1)
        /\ i + 1 <= m <=> i <= m - 1
        /\ i <= m - 1 => i \in 1 .. (m - 1)
        /\ (i + 1) - m = i - (m - 1)
    BY <1>1
  <2>2. (IF i + 1 <= m THEN a[i + 1].r ELSE b[(i + 1) - m]) = p[(i + 1) - 1].r
    BY <1>2, <2>1
  <2> QED BY <1>1, <2>1, <2>2
<1>5. \A i \in 1 .. Len(w) + k :
        (IF i <= Len(w) THEN w[i].r ELSE b[i - Len(w)]) = (IF i <= 0 THEN NoOne.r ELSE p[i - 0].r)
  BY <1>1, <1>4
<1> QED BY <1>3, <1>5 DEF OrderOf, k, l, w

\* The first request is answered.
LEMMA OrderAnswer ==
  ASSUME NEW a \in Seq(Arrival), NEW b \in Seq(Requests), NEW p \in Seq(Entry \cup {Signal}),
         b # <<>>, NEW x \in Arrival, x.r = b[1],
         NEW v \in Seq(Requests), Len(v) = Len(b) - 1, \A i \in 1 .. Len(b) - 1 : v[i] = b[i + 1],
         NEW e, NEW exact, OrderOf(a, b, p, e, exact)
  PROVE  OrderOf(Append(a, x), v, p, e, exact)
<1> DEFINE h == IF e = NoOne THEN 0 ELSE 1
           m == Len(a)
           k == Len(b)
           w == Append(a, x)
<1>1. m \in Nat /\ k \in Nat /\ k >= 1
  OBVIOUS
<1>2. Len(w) = m + 1 /\ (\A i \in 1 .. m : w[i] = a[i]) /\ w[m + 1] = x
  BY AppendProperties
<1>3. m + k <= Len(p) + h /\ (exact => m + k = Len(p) + h)
      /\ \A i \in 1 .. m + k : (IF i <= m THEN a[i].r ELSE b[i - m])
                                 = (IF i <= h THEN e.r ELSE p[i - h].r)
  BY DEF OrderOf
<1>4. Len(v) = k - 1 /\ \A i \in 1 .. k - 1 : v[i] = b[i + 1]
  OBVIOUS
<1> HIDE DEF h, m, k, w
<1>5. Len(w) + Len(v) = m + k
  <2> DEFINE y == Len(w)
             z == Len(v)
  <2>1. y = m + 1 /\ z = k - 1
    BY <1>2, <1>4
  <2> HIDE DEF y, z
  <2>2. y + z = m + k
    BY <1>1, <2>1
  <2> QED BY <2>2 DEF y, z
<1>6. ASSUME NEW i \in 1 .. m + k
      PROVE  (IF i <= m + 1 THEN w[i].r ELSE v[i - (m + 1)]) = (IF i <= m THEN a[i].r ELSE b[i - m])
  <2>1. CASE i <= m
    <3>1. i \in 1 .. m /\ i <= m + 1
      BY <1>1, <2>1
    <3> QED BY <1>2, <2>1, <3>1
  <2>2. CASE i = m + 1
    <3>1. ~(i <= m) /\ i <= m + 1 /\ i - m = 1
      BY <1>1, <2>2
    <3> QED BY <1>2, <2>2, <3>1
  <2>3. CASE ~(i <= m) /\ i # m + 1
    <3>1. ~(i <= m + 1) /\ i - (m + 1) \in 1 .. k - 1 /\ (i - (m + 1)) + 1 = i - m
      BY <1>1, <2>3
    <3> QED BY <1>4, <2>3, <3>1
  <2> QED BY <2>1, <2>2, <2>3
<1>7. \A i \in 1 .. Len(w) + Len(v) :
        (IF i <= Len(w) THEN w[i].r ELSE v[i - Len(w)]) = (IF i <= h THEN e.r ELSE p[i - h].r)
  BY <1>2, <1>3, <1>5, <1>6
<1> QED BY <1>3, <1>5, <1>7 DEF OrderOf, h, w

\* Every step keeps InOrder.
LEMMA InOrderStep ==
  ASSUME SocketChannelAssumption, ~EarlyClose, TypeOK, Places, OneMaker, Unused, Dispatched, Entries,
         InOrder, Steps
  PROVE  InOrder'
<1>0. \A t \in Fds : mode = "order" /\ t = __dispatch_thread /\ link[t] # "lost" =>
        OrderOf(arrived[t], asked[t], pending, reads[t], __sock # 0)
  BY OrderIs
<1>1. /\ pending \in Seq(Entry \cup {Signal}) /\ 0 \notin Fds
      /\ \A t \in Fds : arrived[t] \in Seq(Arrival) /\ asked[t] \in Seq(Requests)
  BY Kinds DEF TypeOK, Entry, Arrival
<1>2. ASSUME NEW c \in Callers, CallerStep(c) PROVE InOrder'
  <2> SUFFICES ASSUME NEW t \in Fds, mode' = "order", t = __dispatch_thread', link'[t] # "lost"
               PROVE  OrderOf(arrived'[t], asked'[t], pending', reads'[t], __sock' # 0)
    BY OrderIsNext
  <2>1. UNCHANGED <<mode, reads, arrived>> /\ link[t] # "lost"
    BY <1>2, CallerFrame, CallerLinks
  <2>2. CASE Leaves(c)
    <3>1. UNCHANGED <<pending, asked, __dispatch_thread>> /\ __sock' \in {__sock, 0}
      BY <2>2 DEF Leaves
    <3>2. OrderOf(arrived[t], asked[t], pending, reads[t], __sock # 0)
      BY <1>0, <2>1, <3>1
    <3>3. CASE __sock' = __sock
      BY <2>1, <3>1, <3>2, <3>3
    <3>4. CASE __sock' = 0
      <4>1. OrderOf(arrived[t], asked[t], pending, reads[t], FALSE)
        BY <3>2, OrderClosed
      <4>2. (__sock' # 0) = FALSE
        BY <3>4
      <4> QED BY <2>1, <3>1, <4>1, <4>2
    <3> QED BY <3>1, <3>3, <3>4
  <2>3. CASE Signals(c)
    <3>1. UNCHANGED <<asked, __dispatch_thread>> /\ __sock' = 0 /\ pending' = Append(pending, Signal)
      BY <2>3 DEF Signals
    <3>2. OrderOf(arrived[t], asked[t], pending, reads[t], __sock # 0)
      BY <1>0, <2>1, <3>1
    <3>3. OrderOf(arrived[t], asked[t], Append(pending, Signal), reads[t], FALSE)
      BY <1>1, <3>2, OrderPush
    <3>4. (__sock' # 0) = FALSE
      BY <3>1
    <3> QED BY <2>1, <3>1, <3>3, <3>4
  <2>4. CASE Sends(c)
    <3> DEFINE x == [r |-> requests + 1, co |-> c]
    <3>1. /\ UNCHANGED <<__sock, __dispatch_thread>> /\ x \in Entry /\ x.r = requests + 1
          /\ asked' = [asked EXCEPT ![__sock] = Append(@, requests + 1)]
          /\ pending' = Append(pending, x)
      BY <2>4 DEF Sends, Entry
    <3>2. __sock = t /\ __sock # 0
      <4>1. __sock # 0
        BY <2>4 DEF Sends, Places, Usable
      <4> QED BY <3>1, <4>1 DEF Dispatched, SignalEndsItsOwn
    <3>3. OrderOf(arrived[t], asked[t], pending, reads[t], TRUE)
      <4>1. OrderOf(arrived[t], asked[t], pending, reads[t], __sock # 0)
        BY <1>0, <2>1, <3>1
      <4>2. (__sock # 0) = TRUE
        BY <3>2
      <4> QED BY <4>1, <4>2
    <3> HIDE DEF x
    <3>4. OrderOf(arrived[t], Append(asked[t], x.r), Append(pending, x), reads[t], TRUE)
      BY <1>1, <3>1, <3>3, OrderSend
    <3>5. asked'[t] = Append(asked[t], x.r) /\ (__sock' # 0) = TRUE
      BY <3>1, <3>2 DEF TypeOK
    <3> QED BY <2>1, <3>1, <3>4, <3>5
  <2>5. CASE Connects(c)
    <3>1. /\ reader[t] = "none" /\ UNCHANGED <<asked, pending>> /\ __dispatch_thread = 0
      BY <2>5 DEF Connects
    <3>2. arrived'[t] = <<>> /\ asked'[t] = <<>> /\ pending' = <<>> /\ reads'[t] = NoOne
      BY <2>1, <3>1 DEF Unused, Dispatched
    <3>3. \A exact \in BOOLEAN : OrderOf(<<>>, <<>>, <<>>, NoOne, exact)
      BY DEF OrderOf
    <3> QED BY <3>2, <3>3
  <2> QED BY <1>2, <2>2, <2>3, <2>4, <2>5, CallerEffects
<1>3. ASSUME NEW u \in Fds, DispatchStep(u) PROVE InOrder'
  <2> SUFFICES ASSUME NEW t \in Fds, mode' = "order", t = __dispatch_thread', link'[t] # "lost"
               PROVE  OrderOf(arrived'[t], asked'[t], pending', reads'[t], __sock' # 0)
    BY OrderIsNext
  <2>1. UNCHANGED <<mode, link, asked>>
    BY <1>3, DispatchFrame
  <2>2. u = __dispatch_thread
    BY <1>3, DispatchEffects DEF Moves, Takes, Reads, Ends, Dispatched, OneReader
  <2>3. CASE Moves(u)
    <3>1. UNCHANGED <<reads, pending, __dispatch_thread, __sock, arrived>>
      BY <2>3 DEF Moves
    <3> QED BY <1>0, <2>1, <3>1
  <2>4. CASE Takes(u)
    <3>1. /\ u = t /\ pending # <<>> /\ Head(pending) # NoOne /\ reads'[t] = Head(pending)
          /\ pending' = Tail(pending) /\ UNCHANGED <<__dispatch_thread, __sock, arrived>>
      BY <2>2, <2>4 DEF Takes, TypeOK, NoOne
    <3>2. reads[t] = NoOne
      BY <2>4, <3>1 DEF Takes, Dispatched
    <3>3. OrderOf(arrived[t], asked[t], pending, NoOne, __sock # 0)
      BY <1>0, <2>1, <3>1, <3>2
    <3>4. OrderOf(arrived[t], asked[t], Tail(pending), Head(pending), __sock # 0)
      BY <1>1, <3>1, <3>3, OrderTake
    <3> QED BY <2>1, <3>1, <3>4
  <2>5. CASE Reads(u)
    <3> DEFINE entry == EntryOf(u, Head(arrived[u]))
    <3>1. /\ u = t /\ arrived[t] # <<>> /\ reader[t] = "read"
          /\ entry # NoOne /\ pending' = Left(entry)
          /\ reads'[t] = NoOne /\ arrived'[t] = Tail(arrived[t])
          /\ UNCHANGED <<__dispatch_thread, __sock>>
      BY <2>2, <2>5 DEF Reads, TypeOK
    <3>2. pending' = pending /\ reads[t] # NoOne
      <4>1. entry = reads[u] /\ Left(entry) = pending
        BY <2>1, <3>1, AnswerIsFor
      <4> HIDE DEF entry
      <4> QED BY <3>1, <4>1
    <3> HIDE DEF entry
    <3>3. OrderOf(arrived[t], asked[t], pending, reads[t], __sock # 0)
      BY <1>0, <2>1, <3>1
    <3>4. OrderOf(Tail(arrived[t]), asked[t], pending, NoOne, __sock # 0)
      BY <1>1, <3>1, <3>2, <3>3, OrderRead
    <3> QED BY <2>1, <3>1, <3>2, <3>4
  <2>6. CASE Ends(u)
    BY <1>1, <2>6 DEF Ends
  <2> QED BY <1>3, <2>3, <2>4, <2>5, <2>6, DispatchEffects
<1>4. CASE Resume \/ UNCHANGED vars
  <2>1. UNCHANGED <<mode, reads, pending, __sock, __dispatch_thread, link, asked, arrived>>
    BY <1>4, ResumeFrame DEF vars, channelVars, readerVars, socketVars
  <2> QED BY <1>0, <2>1, OrderIsNext
<1>5. CASE SocketStep
  <2> SUFFICES ASSUME NEW t \in Fds, mode' = "order", t = __dispatch_thread', link'[t] # "lost"
               PROVE  OrderOf(arrived'[t], asked'[t], pending', reads'[t], __sock' # 0)
    BY OrderIsNext
  <2>1. UNCHANGED <<mode, reads, pending, __sock, __dispatch_thread>>
    BY <1>5, SocketFrame DEF channelVars, readerVars
  <2>2. link[t] # "lost"
    BY <1>5 DEF SocketStep, Established, Answer, PeerCloses, TypeOK
  <2>3. OrderOf(arrived[t], asked[t], pending, reads[t], __sock # 0)
    BY <1>0, <2>1, <2>2
  <2>4. CASE asked'[t] = asked[t] /\ arrived'[t] = arrived[t]
    BY <2>1, <2>3, <2>4
  <2>5. ASSUME NEW i \in Requests, NEW kind \in {"answer", "refusal", "garbage"}, Answer(t, i, kind)
        PROVE  OrderOf(arrived'[t], asked'[t], pending', reads'[t], __sock' # 0)
    <3> DEFINE b == asked[t]
               x == [kind |-> kind, r |-> b[1]]
               v == RemoveAt(b, 1)
    <3>1. /\ i = 1 /\ 1 \in DOMAIN b /\ asked'[t] = v /\ arrived'[t] = Append(arrived[t], x)
      BY <2>1, <2>5 DEF Answer, TypeOK
    <3>2. b \in Seq(Requests) /\ b # <<>> /\ b[1] \in Requests
      BY <1>1, <3>1
    <3>3. x \in Arrival /\ x.r = b[1]
      BY <3>2 DEF Arrival
    <3> HIDE DEF b, x, v
    <3>4. v \in Seq(Requests) /\ Len(v) = Len(b) - 1 /\ \A j \in 1 .. Len(b) - 1 : v[j] = b[j + 1]
      BY <3>1, <3>2, RemoveAtIs DEF v
    <3>5. OrderOf(arrived[t], b, pending, reads[t], __sock # 0)
      BY <2>3 DEF b
    <3>6. OrderOf(Append(arrived[t], x), v, pending, reads[t], __sock # 0)
      BY <1>1, <3>2, <3>3, <3>4, <3>5, OrderAnswer
    <3> QED BY <2>1, <3>1, <3>6
  <2>6. \/ asked'[t] = asked[t] /\ arrived'[t] = arrived[t]
        \/ \E i \in Requests, kind \in {"answer", "refusal", "garbage"} : Answer(t, i, kind)
    <3>1. CASE \E c \in Callers : Established(c)
      BY <3>1 DEF Established
    <3>2. ASSUME NEW u \in Fds, NEW i \in Requests, NEW kind \in {"answer", "refusal", "garbage"},
                 Answer(u, i, kind), u # t
          PROVE  asked'[t] = asked[t] /\ arrived'[t] = arrived[t]
      BY <3>2 DEF Answer, TypeOK
    <3>3. ASSUME NEW u \in Fds, PeerCloses(u)
          PROVE  asked'[t] = asked[t] /\ arrived'[t] = arrived[t]
      <4>1. u # t
        BY <3>3 DEF PeerCloses, TypeOK
      <4> QED BY <3>3, <4>1 DEF PeerCloses, TypeOK
    <3> QED BY <1>5, <3>1, <3>2, <3>3 DEF SocketStep
  <2> QED BY <2>4, <2>5, <2>6
<1> QED BY <1>2, <1>3, <1>4, <1>5 DEF Steps

-----------------------------------------------------------------------------
(* The invariant.                                                           *)

\* It holds when a channel has just been made.
LEMMA InitIInv ==
  ASSUME SocketChannelAssumption, Init
  PROVE  IInv
<1>0. /\ 0 \in 0 .. MaxConnects /\ 0 \in 0 .. MaxRequests /\ 0 \in 0 .. MaxCloses
      /\ \A t \in Fds : t > 0
  BY DEF SocketChannelAssumption, Fds
<1>1. TypeOK
  <2>1. <<>> \in Seq(Callers \cup {Busy}) /\ <<>> \in Seq(Entry \cup {Signal}) /\ <<>> \in Seq(Tokens)
        /\ <<>> \in Seq(Requests) /\ <<>> \in Seq(Arrival)
    OBVIOUS
  <2>2. Typed
    BY <1>0, <2>1 DEF Init, Typed, ChannelTyped, ConnectingTyped, PendingTyped, ResultTyped, CallerTyped,
                      ReaderTyped, RunTyped, SocketTyped, CountsTyped, PlaceNames, None, Result, Arrival
  <2> QED BY <2>2, TypeParts DEF Init
<1>2. Places /\ Unused /\ AuthFirst /\ Results /\ Asking
  BY <1>0 DEF Init, Places, Unused, AuthFirst, Results, Asking, None, Result
<1>3. OneMaker
  BY Kinds DEF Init, OneMaker, Maker, Making
<1>4. Dispatched /\ Entries /\ InOrder
  BY Kinds DEF Init, Dispatched, OneReader, SignalEndsItsOwn, Entries, InOrder
<1>5. Woken /\ Listed /\ Kept
  BY Kinds DEF Init, Woken, Listed, Kept, MakerWorks, Single, Range
<1> QED BY <1>1, <1>2, <1>3, <1>4, <1>5 DEF IInv, Apart, Owing, Told

\* Every step keeps it, when nothing closes the channel before its dispatch coroutine starts.
LEMMA IInvStep ==
  ASSUME SocketChannelAssumption, ~EarlyClose, IInv, [Next]_vars
  PROVE  IInv'
<1>1. Steps
  BY DEF Next, Steps
<1> USE DEF IInv, Apart, Owing, Told
<1>2. TypeOK'
  BY TypeStep
<1>3. Places' /\ OneMaker' /\ Unused'
  BY <1>1, PlacesStep, OneMakerStep, UnusedStep
<1>4. Dispatched' /\ Entries' /\ Asking' /\ Results'
  BY <1>1, DispatchedStep, EntriesStep, AskingStep
<1>5. Woken' /\ Listed' /\ Kept'
  BY <1>1, WokenStep, ListedStep, KeptStep
<1>6. InOrder' /\ AuthFirst'
  BY <1>1, InOrderStep, AuthFirstStep
<1> QED BY <1>2, <1>3, <1>4, <1>5, <1>6

\* The inductive invariant of the channel.
THEOREM Invariance ==
  ASSUME SocketChannelAssumption, ~EarlyClose
  PROVE  Spec => []IInv
<1>1. Init => IInv
  BY InitIInv
<1>2. IInv /\ [Next]_vars => IInv'
  BY IInvStep
<1> QED BY <1>1, <1>2, PTL DEF Spec

\* The state of the channel keeps its types.
THEOREM TypeCorrect ==
  ASSUME SocketChannelAssumption, ~EarlyClose
  PROVE  Spec => []TypeOK
<1>1. IInv => TypeOK
  BY DEF IInv
<1> QED BY <1>1, Invariance, PTL

\* Who takes a result takes the answer to its own request (AnswerMatches), and who is resumed
\* in wait_for_response finds one there (WokenHasResult): an answer is for whose entry is first
\* (InOrder) or has its session, and only who has a result is woken (Woken) and resumed.
THEOREM ResultsAreAnswers ==
  ASSUME SocketChannelAssumption, ~EarlyClose
  PROVE  Spec => [](AnswerMatches /\ WokenHasResult)
<1>1. ASSUME SocketChannelAssumption, IInv PROVE AnswerMatches /\ WokenHasResult
  <2>1. AnswerMatches
    BY <1>1 DEF AnswerMatches, IInv, Owing, Results
  <2>2. ASSUME NEW c \in Callers, running = c, at[c] = "response" PROVE __result[c] # None
    <3>1. __result[c] = None => Listens(c)
      BY <1>1, <2>2 DEF IInv, Owing, Asking
    <3>2. Listens(c) => running # c
      BY <1>1, ListenerSleeps DEF IInv, Owing
    <3> QED BY <2>2, <3>1, <3>2
  <2> QED BY <2>1, <2>2 DEF WokenHasResult
<1> QED BY <1>1, Invariance, PTL

\* Who waits for a response is known to the dispatch coroutine, which will wake it
\* (NobodyForgotten); who waits for the connection is in the list of a coroutine that is still
\* making it, and will go through the list, unless one such has ended with an error or come to
\* wait for itself (WaiterListed).
THEOREM NobodyIsForgotten ==
  ASSUME SocketChannelAssumption, ~EarlyClose
  PROVE  Spec => [](NobodyForgotten /\ WaiterListed)
<1>1. ASSUME SocketChannelAssumption, IInv PROVE NobodyForgotten /\ WaiterListed
  <2> USE <1>1 DEF IInv, Owing, Told, Apart
  <2>1. ASSUME NEW c \in Callers, at[c] = "response", running # c
        PROVE  \/ c \in Range(wakeup_queue) /\ __result[c] # None
               \/ __dispatch_thread # 0 /\ (\/ reads[__dispatch_thread].co = c
                                            \/ \E i \in DOMAIN pending : pending[i].co = c)
    <3>1. CASE __result[c] # None
      BY <2>1, <3>1 DEF Woken
    <3>2. CASE __result[c] = None
      <4>1. Listens(c)
        BY <2>1, <3>2 DEF Asking
      <4>2. CASE \E i \in DOMAIN pending : pending[i].co = c
        <5>1. __dispatch_thread # 0
          BY <4>2 DEF Dispatched
        <5> QED BY <4>2, <5>1
      <4>3. ASSUME NEW t \in Fds, reads[t].co = c PROVE t = __dispatch_thread
        <5>1. reads[t] # NoOne
          BY <4>3, Kinds DEF NoOne
        <5> QED BY <5>1 DEF Dispatched, OneReader
      <4> QED BY <4>1, <4>2, <4>3, Kinds DEF Listens
    <3> QED BY <3>1, <3>2
  <2>2. NobodyForgotten
    BY <2>1 DEF NobodyForgotten
  <2>3. WaiterListed
    BY DEF Listed, Kept, WaiterListed
  <2> QED BY <2>2, <2>3
<1> QED BY <1>1, Invariance, PTL

\* One dispatch coroutine reads (OneReader), the one of the connection in use
\* (SignalEndsItsOwn), and for the authentication while that lasts (AuthFirst).
THEOREM ConnectionIsOwned ==
  ASSUME SocketChannelAssumption, ~EarlyClose
  PROVE  Spec => [](OneReader /\ SignalEndsItsOwn /\ AuthFirst)
<1>1. IInv => OneReader /\ SignalEndsItsOwn /\ AuthFirst
  BY DEF IInv, Owing, Dispatched
<1> QED BY <1>1, Invariance, PTL

=============================================================================
