-------------------------- MODULE MCShared_proofs ---------------------------
(***************************************************************************)
(* Proofs about the write buffer (Write) and the start of services (Birth); *)
(* and that what is proved of the four parts of MCShared holds in MCShared: *)
(* a behaviour of it is one of each part, which takes its steps or stands   *)
(* still.                                                                   *)
(***************************************************************************)
EXTENDS MCShared, SequenceTheorems, TLAPS

-----------------------------------------------------------------------------
(* Lists.                                                                  *)

\* A part of a sequence.
LEMMA PartIs ==
  ASSUME NEW S, NEW s \in Seq(S), NEW m \in Nat \ {0}, NEW n \in Nat, n <= Len(s), m <= n + 1
  PROVE  /\ SubSeq(s, m, n) \in Seq(S) /\ Len(SubSeq(s, m, n)) = n - m + 1
         /\ \A i \in 1 .. n - m + 1 : SubSeq(s, m, n)[i] = s[m + i - 1]
<1>1. Len(s) \in Nat /\ \A i \in m .. n : s[i] \in S
  BY ElementOfSeq, LenProperties
<1>2. m \in Int /\ n \in Int
  OBVIOUS
<1>3. /\ SubSeq(s, m, n) \in Seq(S)
      /\ Len(SubSeq(s, m, n)) = IF m <= n THEN n - m + 1 ELSE 0
      /\ \A i \in 1 .. n - m + 1 : SubSeq(s, m, n)[i] = s[m + i - 1]
  BY <1>1, <1>2, SubSeqProperties
<1> QED BY <1>3

\* A list with one more at its end.
LEMMA Longer ==
  ASSUME NEW S, NEW q \in Seq(S), NEW x \in S
  PROVE  /\ Append(q, x) \in Seq(S) /\ Append(q, x) # <<>>
         /\ x \in Birth!Range(Append(q, x)) /\ \A y \in Birth!Range(q) : y \in Birth!Range(Append(q, x))
         /\ Len(Append(q, x)) = Len(q) + 1 /\ DOMAIN Append(q, x) = 1 .. Len(q) + 1
         /\ \A i \in 1 .. Len(q) : Append(q, x)[i] = q[i]
         /\ Append(q, x)[Len(q) + 1] = x
<1>1. Len(q) \in Nat /\ DOMAIN q = 1 .. Len(q)
  OBVIOUS
<1>2. /\ Append(q, x) \in Seq(S) /\ Append(q, x) # <<>>
      /\ Len(Append(q, x)) = Len(q) + 1 /\ DOMAIN Append(q, x) = 1 .. Len(q) + 1
      /\ \A i \in 1 .. Len(q) : Append(q, x)[i] = q[i]
      /\ Append(q, x)[Len(q) + 1] = x
  OBVIOUS
<1> DEFINE p == Append(q, x)
<1>3. \A y \in Birth!Range(q) : y \in Birth!Range(p)
  BY <1>1, <1>2 DEF Birth!Range
<1>4. x \in Birth!Range(p)
  BY <1>1, <1>2 DEF Birth!Range
<1> QED BY <1>2, <1>3, <1>4

\* A list without its first.
LEMMA Shorter ==
  ASSUME NEW S, NEW q \in Seq(S), q # <<>>
  PROVE  /\ Head(q) \in S /\ Tail(q) \in Seq(S)
         /\ \A y \in Birth!Range(q) : y # Head(q) => y \in Birth!Range(Tail(q))
<1>1. /\ Len(q) \in Nat \ {0} /\ DOMAIN q = 1 .. Len(q) /\ Head(q) = q[1]
      /\ Head(q) \in S /\ Tail(q) \in Seq(S)
  OBVIOUS
<1>2. DOMAIN Tail(q) = 1 .. Len(q) - 1 /\ \A i \in 1 .. Len(q) - 1 : Tail(q)[i] = q[i + 1]
  BY <1>1
<1>3. ASSUME NEW i \in DOMAIN q, q[i] # Head(q)
      PROVE  q[i] \in Birth!Range(Tail(q))
  <2>1. i - 1 \in DOMAIN Tail(q) /\ Tail(q)[i - 1] = q[i]
    BY <1>1, <1>2, <1>3
  <2> QED BY <2>1 DEF Birth!Range
<1> QED BY <1>1, <1>3 DEF Birth!Range

\* A list without its last.
LEMMA Fronted ==
  ASSUME NEW S, NEW q \in Seq(S), q # <<>>
  PROVE  /\ Len(q) \in Nat \ {0} /\ DOMAIN q = 1 .. Len(q) /\ Birth!Last(q) = q[Len(q)] /\ Birth!Last(q) \in S
         /\ Birth!Front(q) \in Seq(S)
         /\ Len(Birth!Front(q)) = Len(q) - 1 /\ DOMAIN Birth!Front(q) = 1 .. Len(q) - 1
         /\ \A i \in 1 .. Len(q) - 1 : Birth!Front(q)[i] = q[i]
<1>1. Len(q) \in Nat \ {0} /\ DOMAIN q = 1 .. Len(q) /\ \A i \in 1 .. Len(q) : q[i] \in S
  OBVIOUS
<1> DEFINE n == Len(q) - 1
<1>2. n \in Nat /\ n <= Len(q) /\ 1 <= n + 1
  BY <1>1
<1> HIDE DEF n
<1>3. /\ SubSeq(q, 1, n) \in Seq(S) /\ Len(SubSeq(q, 1, n)) = n
      /\ \A i \in 1 .. n : SubSeq(q, 1, n)[i] = q[i]
  BY <1>2, PartIs
<1>4. Birth!Front(q) = SubSeq(q, 1, Len(q) - 1) /\ Birth!Last(q) = q[Len(q)]
  BY DEF Birth!Front, Birth!Last
<1>5. Birth!Front(q) \in Seq(S) /\ Len(Birth!Front(q)) = Len(q) - 1
  BY <1>3, <1>4 DEF n
<1>6. \A i \in 1 .. Len(q) - 1 : Birth!Front(q)[i] = q[i]
  BY <1>3, <1>4 DEF n
<1>7. DOMAIN Birth!Front(q) = 1 .. Len(q) - 1
  BY <1>5
<1> QED BY <1>1, <1>4, <1>5, <1>6, <1>7

-----------------------------------------------------------------------------
(* The write buffer.                                                       *)

\* a service uses send, or async_send
OneCall == {"send", "async_send"} \notin Calls

-----------------------------------------------------------------------------
(* The inductive invariant.                                                *)

\* With send the worker is never asked, and with async_send the worker sends alone.
OneSender ==
  /\ "send" \notin uses => doing["service"] \in {"idle", "watch"}
  /\ "async_send" \notin uses =>
       doing["service"] # "watch" /\ doing["worker"] = "idle" /\ ~out_event /\ ~armed

\* the bytes that have left the write buffer, and those a thread has in its hands
Drained == pushed - Len(wbuffer)
Hand(t) == IF doing[t] = "write" THEN Len(copied[t]) ELSE 0
Sent    == Drained - Hand("service") - Hand("worker")

\* the buffer holds the last bytes; a thread holds those at its head, or those before it
Bytes ==
  /\ Len(wbuffer) <= pushed /\ \A i \in 1 .. Len(wbuffer) : wbuffer[i] = Drained + i
  /\ \A t \in Write!Threads :
       /\ doing[t] = "drain" =>
            /\ 0 < Len(copied[t]) /\ Len(copied[t]) <= Len(wbuffer)
            /\ \A i \in 1 .. Len(copied[t]) : copied[t][i] = Drained + i
       /\ doing[t] = "write" =>
            /\ 0 < Len(copied[t]) /\ Len(copied[t]) <= Drained
            /\ \A i \in 1 .. Len(copied[t]) : copied[t][i] = Drained - Len(copied[t]) + i

\* what the kernel has, and that it has all as long as it refuses nothing
Kernel ==
  /\ \A i \in 1 .. Len(out) : out[i] <= Sent
  /\ Write!LeavesInOrder
  /\ ~refused => Len(out) = Sent /\ \A i \in 1 .. Len(out) : out[i] = i

\* send has copied all that is in the buffer, or as much as it can
Whole ==
  uses = {"send"} =>
    /\ doing["service"] = "drain" =>
         Len(copied["service"]) = SendSize \/ Len(copied["service"]) = Len(wbuffer)
    /\ doing["service"] = "write" => Len(copied["service"]) = SendSize \/ wbuffer = <<>>
    /\ Write!SentAtOnce

WriteInv == Write!TypeOK /\ OneSender /\ Bytes /\ Kernel /\ Whole

-----------------------------------------------------------------------------
(* Lemmas about the operators of the model.                                *)

\* The lesser of two numbers.
LEMMA MinOfTwo ==
  ASSUME NEW a \in Nat, NEW b \in Nat
  PROVE  /\ Write!Min({a, b}) \in Nat /\ Write!Min({a, b}) <= a /\ Write!Min({a, b}) <= b
         /\ Write!Min({a, b}) = a \/ Write!Min({a, b}) = b
<1>1. \E x \in {a, b} : \A y \in {a, b} : x <= y
  OBVIOUS
<1>2. Write!Min({a, b}) \in {a, b} /\ \A y \in {a, b} : Write!Min({a, b}) <= y
  BY <1>1 DEF Write!Min
<1> QED BY <1>2

\* The bytes of a push.
LEMMA NewBytes ==
  ASSUME NEW n \in Nat, NEW k \in Nat
  PROVE  /\ [i \in 1 .. n |-> k + i] \in Seq(1 .. k + n)
         /\ Len([i \in 1 .. n |-> k + i]) = n
         /\ \A j \in 1 .. n : [i \in 1 .. n |-> k + i][j] = k + j
<1> DEFINE f == [i \in 1 .. n |-> k + i]
<1>1. f \in [1 .. n -> 1 .. k + n] /\ DOMAIN f = 1 .. n
  OBVIOUS
<1>2. \A j \in 1 .. n : f[j] = k + j
  OBVIOUS
<1> HIDE DEF f
<1>3. f \in Seq(1 .. k + n)
  BY <1>1, SeqDef
<1>4. Len(f) = n
  BY <1>1, <1>3, LenProperties
<1> QED BY <1>2, <1>3, <1>4 DEF f

\* A longer list of bytes still is a sequence of bytes.
LEMMA BytesGrow ==
  ASSUME NEW a \in Nat, NEW b \in Nat, a <= b, NEW s \in Seq(1 .. a)
  PROVE  s \in Seq(1 .. b)
<1>1. 1 .. a \subseteq 1 .. b
  OBVIOUS
<1> QED BY <1>1, SeqMonotonic

-----------------------------------------------------------------------------
(* What the steps do.                                                      *)

\* Goes moves one thread.
LEMMA GoesDoes ==
  ASSUME Write!TypeOK, NEW t \in Write!Threads, NEW step, Write!Goes(t, step)
  PROVE  doing'[t] = step /\ \A u \in Write!Threads \ {t} : doing'[u] = doing[u]
  BY DEF Write!Goes, Write!TypeOK

\* Who is in socket::send is alone there, and the other thread waits.
LEMMA SendsAlone ==
  ASSUME Write!SocketWriteAssumption, OneCall, Write!TypeOK, OneSender
  PROVE  /\ uses \subseteq {"send", "async_send"}
         /\ "send" \notin uses \/ "async_send" \notin uses
         /\ doing["worker"] # "idle" => doing["service"] \in {"idle", "watch"}
<1>1. uses \subseteq {"send", "async_send"} /\ uses # {"send", "async_send"}
  BY DEF Write!SocketWriteAssumption, OneCall, Write!TypeOK
<1>2. "send" \notin uses \/ "async_send" \notin uses
  <2>1. "send" \in uses /\ "async_send" \in uses => uses = {"send", "async_send"}
    BY <1>1
  <2> QED BY <1>1, <2>1
<1> QED BY <1>1, <1>2 DEF OneSender

\* The numbers that the invariant speaks of.
LEMMA WriteNumbers ==
  ASSUME Write!SocketWriteAssumption, Write!TypeOK, Bytes
  PROVE  /\ pushed \in Nat /\ Len(wbuffer) \in Nat /\ Len(out) \in Nat /\ held \in Nat
         /\ Drained \in Nat /\ Drained + Len(wbuffer) = pushed
         /\ \A t \in Write!Threads : copied[t] \in Seq(1 .. pushed) /\ Len(copied[t]) \in Nat
         /\ SendSize \in Nat \ {0} /\ Room \in Nat \ {0} /\ MaxPush \in Nat /\ MaxBytes \in Nat
<1>1. /\ pushed \in Nat /\ wbuffer \in Seq(1 .. pushed) /\ out \in Seq(1 .. pushed) /\ held \in Nat
      /\ \A t \in Write!Threads : copied[t] \in Seq(1 .. pushed)
      /\ SendSize \in Nat \ {0} /\ Room \in Nat \ {0} /\ MaxPush \in Nat /\ MaxBytes \in Nat
  BY DEF Write!TypeOK, Write!SocketWriteAssumption
<1>2. Len(wbuffer) \in Nat /\ Len(out) \in Nat /\ \A t \in Write!Threads : Len(copied[t]) \in Nat
  BY <1>1, LenProperties
<1>3. Len(wbuffer) <= pushed
  BY DEF Bytes
<1> QED BY <1>1, <1>2, <1>3 DEF Drained

-----------------------------------------------------------------------------
(* Every step keeps the invariant.                                         *)

\* The service pushes n bytes, in send or in async_send.
LEMMA PushKeeps ==
  ASSUME Write!SocketWriteAssumption, OneCall, WriteInv, NEW n \in 1 .. MaxPush,
         Write!Send(n) \/ Write!AsyncSend(n)
  PROVE  WriteInv'
<1>0. Write!TypeOK /\ OneSender /\ Bytes /\ Kernel /\ Whole
  BY DEF WriteInv
<1>1. /\ pushed \in Nat /\ Len(wbuffer) \in Nat /\ n \in Nat /\ n > 0 /\ MaxBytes \in Nat
      /\ Drained \in Nat /\ Drained + Len(wbuffer) = pushed
      /\ \A t \in Write!Threads : copied[t] \in Seq(1 .. pushed) /\ Len(copied[t]) \in Nat
  BY <1>0, WriteNumbers
<1>2. PICK call, step :
        /\ (call = "send" /\ step = "copy") \/ (call = "async_send" /\ step = "watch")
        /\ Write!Push(n, call, step)
  BY DEF Write!Send, Write!AsyncSend
<1>3. /\ call \in uses /\ doing["service"] = "idle"
      /\ doing'["service"] = step /\ doing'["worker"] = doing["worker"]
      /\ \A t \in Write!Threads : doing'[t] \in {"drain", "write"} => doing[t] = doing'[t]
      /\ UNCHANGED <<uses, copied, out, held, refused, out_event, armed>>
      /\ pushed' = pushed + n /\ pushed + n <= MaxBytes
  <2>1. Write!Goes("service", step)
    BY <1>2 DEF Write!Push
  <2>2. doing'["service"] = step /\ \A t \in Write!Threads \ {"service"} : doing'[t] = doing[t]
    BY <1>0, <2>1, GoesDoes DEF Write!Threads
  <2> QED BY <1>2, <2>2 DEF Write!Push, Write!kernelVars, Write!epollVars, Write!Threads
<1> DEFINE new == [i \in 1 .. n |-> pushed + i]
<1>4. /\ new \in Seq(1 .. pushed + n) /\ Len(new) = n /\ \A i \in 1 .. n : new[i] = pushed + i
      /\ wbuffer' = wbuffer \o new
  BY <1>1, <1>2, NewBytes DEF Write!Push
<1> HIDE DEF new
<1>5. wbuffer \in Seq(1 .. pushed + n)
  <2>1. wbuffer \in Seq(1 .. pushed)
    BY <1>0 DEF Write!TypeOK
  <2> QED BY <1>1, <2>1, BytesGrow
<1>6. /\ wbuffer' \in Seq(1 .. pushed + n) /\ Len(wbuffer') = Len(wbuffer) + n
      /\ \A i \in 1 .. Len(wbuffer) : wbuffer'[i] = wbuffer[i]
      /\ \A i \in 1 .. Len(wbuffer) + n : i > Len(wbuffer) => wbuffer'[i] = pushed + (i - Len(wbuffer))
  <2>1. /\ wbuffer' \in Seq(1 .. pushed + n) /\ Len(wbuffer') = Len(wbuffer) + Len(new)
        /\ \A i \in 1 .. Len(wbuffer) + Len(new) :
             wbuffer'[i] = IF i <= Len(wbuffer) THEN wbuffer[i] ELSE new[i - Len(wbuffer)]
    BY <1>4, <1>5, ConcatProperties
  <2> QED BY <1>1, <1>4, <2>1
<1>7. Drained' = Drained
  BY <1>1, <1>3, <1>6 DEF Drained
<1>8. Sent' = Sent
  BY <1>2, <1>3, <1>7 DEF Sent, Hand
<1>9. Write!TypeOK'
  <2>1. \A t \in Write!Threads : copied[t] \in Seq(1 .. pushed + n)
    BY <1>1, BytesGrow
  <2>2. out \in Seq(1 .. pushed + n)
    <3>1. out \in Seq(1 .. pushed)
      BY <1>0 DEF Write!TypeOK
    <3> QED BY <1>1, <3>1, BytesGrow
  <2>3. doing' \in [Write!Threads -> {"idle", "copy", "drain", "write", "watch"}]
    BY <1>0, <1>2 DEF Write!TypeOK, Write!Push, Write!Goes
  <2>4. copied' \in [Write!Threads -> Seq(1 .. pushed')]
    BY <1>0, <1>3, <2>1 DEF Write!TypeOK
  <2> QED BY <1>0, <1>1, <1>3, <1>6, <2>2, <2>3, <2>4 DEF Write!TypeOK
<1>10. OneSender'
  BY <1>0, <1>2, <1>3, SendsAlone DEF OneSender
<1>11. Bytes'
  <2>1. \A i \in 1 .. Len(wbuffer') : wbuffer'[i] = Drained' + i
    <3>1. \A i \in 1 .. Len(wbuffer) : wbuffer[i] = Drained + i
      BY <1>0 DEF Bytes
    <3>2. ASSUME NEW i \in 1 .. Len(wbuffer')
          PROVE  wbuffer'[i] = Drained + i
      <4>1. i \in Nat /\ 1 <= i /\ i <= Len(wbuffer) + n
        BY <1>1, <1>6, <3>2
      <4>2. CASE i <= Len(wbuffer)
        BY <1>1, <1>6, <3>1, <4>1, <4>2
      <4>3. CASE i > Len(wbuffer)
        <5>1. wbuffer'[i] = pushed + (i - Len(wbuffer))
          BY <1>1, <1>6, <4>1, <4>3
        <5> QED BY <1>1, <4>1, <5>1
      <4> QED BY <1>1, <4>1, <4>2, <4>3
    <3> QED BY <1>7, <3>2
  <2>2. Len(wbuffer') <= pushed'
    BY <1>0, <1>1, <1>3, <1>6
  <2>3. ASSUME NEW t \in Write!Threads, doing'[t] = "drain"
        PROVE  /\ 0 < Len(copied'[t]) /\ Len(copied'[t]) <= Len(wbuffer')
               /\ \A i \in 1 .. Len(copied'[t]) : copied'[t][i] = Drained' + i
    <3>1. /\ 0 < Len(copied[t]) /\ Len(copied[t]) <= Len(wbuffer)
          /\ \A i \in 1 .. Len(copied[t]) : copied[t][i] = Drained + i
      BY <1>0, <1>3, <2>3 DEF Bytes
    <3> QED BY <1>1, <1>3, <1>6, <1>7, <3>1
  <2>4. ASSUME NEW t \in Write!Threads, doing'[t] = "write"
        PROVE  /\ 0 < Len(copied'[t]) /\ Len(copied'[t]) <= Drained'
               /\ \A i \in 1 .. Len(copied'[t]) : copied'[t][i] = Drained' - Len(copied'[t]) + i
    BY <1>0, <1>1, <1>3, <1>7, <2>4 DEF Bytes
  <2> QED BY <2>1, <2>2, <2>3, <2>4 DEF Bytes
<1>12. Kernel'
  BY <1>0, <1>3, <1>8 DEF Kernel, Write!LeavesInOrder
<1>13. Whole'
  BY <1>2, <1>3 DEF Whole, Write!SentAtOnce
<1> QED BY <1>9, <1>10, <1>11, <1>12, <1>13 DEF WriteInv

\* A thread copies the head of the buffer, or finds nothing to send.
LEMMA CopyKeeps ==
  ASSUME Write!SocketWriteAssumption, OneCall, WriteInv, NEW t \in Write!Threads, Write!CopyOut(t)
  PROVE  WriteInv'
<1>0. Write!TypeOK /\ OneSender /\ Bytes /\ Kernel /\ Whole
  BY DEF WriteInv
<1>1. /\ pushed \in Nat /\ Len(wbuffer) \in Nat /\ SendSize \in Nat /\ SendSize > 0
      /\ Drained \in Nat /\ Drained + Len(wbuffer) = pushed
      /\ wbuffer \in Seq(1 .. pushed)
  BY <1>0, WriteNumbers DEF Write!TypeOK
<1> DEFINE k    == Write!Min({SendSize, Len(wbuffer)})
           part == SubSeq(wbuffer, 1, k)
           next == IF wbuffer = <<>> THEN Write!After(t) ELSE "drain"
<1>2. /\ doing[t] = "copy" /\ copied' = [copied EXCEPT ![t] = part] /\ Write!Goes(t, next)
      /\ UNCHANGED <<uses, pushed, wbuffer, out, held, refused, out_event, armed>>
  BY DEF Write!CopyOut, Write!bufferVars, Write!kernelVars, Write!epollVars
<1>3. /\ k \in Nat /\ k <= SendSize /\ k <= Len(wbuffer) /\ (k = SendSize \/ k = Len(wbuffer))
      /\ wbuffer # <<>> => k > 0
  <2>1. wbuffer # <<>> => Len(wbuffer) > 0
    BY <1>1, EmptySeq
  <2> QED BY <1>1, <2>1, MinOfTwo
<1> HIDE DEF k
<1>4. /\ part \in Seq(1 .. pushed) /\ Len(part) = k
      /\ \A i \in 1 .. k : part[i] = wbuffer[i]
  <2>1. /\ part \in Seq(1 .. pushed) /\ Len(part) = k - 1 + 1
        /\ \A i \in 1 .. k - 1 + 1 : part[i] = wbuffer[1 + i - 1]
    BY <1>1, <1>3, PartIs
  <2> HIDE DEF part
  <2> QED BY <1>3, <2>1
<1>5. /\ (wbuffer = <<>> /\ next = Write!After(t)) \/ (wbuffer # <<>> /\ next = "drain")
      /\ next \in {"idle", "watch", "drain"}
      /\ next = "watch" => t = "worker"
      /\ next = "idle" => t = "service"
  <2>1. (Write!After(t) = "watch" /\ t = "worker") \/ (Write!After(t) = "idle" /\ t = "service")
    BY DEF Write!After, Write!Threads
  <2> QED BY <2>1
<1> HIDE DEF part, next
<1>6. /\ doing'[t] = next /\ \A u \in Write!Threads \ {t} : doing'[u] = doing[u]
      /\ copied'[t] = part /\ \A u \in Write!Threads \ {t} : copied'[u] = copied[u]
  BY <1>0, <1>2, GoesDoes DEF Write!TypeOK
<1>7. Drained' = Drained /\ Sent' = Sent
  <2>1. Drained' = Drained
    BY <1>2 DEF Drained
  <2>2. \A u \in Write!Threads : Hand(u)' = Hand(u)
    BY <1>2, <1>5, <1>6 DEF Hand
  <2> QED BY <2>1, <2>2 DEF Sent, Write!Threads
<1>8. Write!TypeOK'
  <2>1. doing' \in [Write!Threads -> {"idle", "copy", "drain", "write", "watch"}]
    BY <1>0, <1>2, <1>5 DEF Write!TypeOK, Write!Goes
  <2>2. copied' \in [Write!Threads -> Seq(1 .. pushed)]
    BY <1>0, <1>2, <1>4 DEF Write!TypeOK
  <2> QED BY <1>0, <1>2, <2>1, <2>2 DEF Write!TypeOK
<1>9. OneSender'
  BY <1>0, <1>2, <1>5, <1>6, SendsAlone DEF OneSender, Write!Threads
<1>10. Bytes'
  <2>1. \A i \in 1 .. k : part[i] = Drained + i
    <3>1. \A i \in 1 .. Len(wbuffer) : wbuffer[i] = Drained + i
      BY <1>0 DEF Bytes
    <3>2. \A i \in 1 .. k : i \in 1 .. Len(wbuffer)
      BY <1>1, <1>3
    <3> QED BY <1>4, <3>1, <3>2
  <2>2. ASSUME NEW u \in Write!Threads, doing'[u] = "drain"
        PROVE  /\ 0 < Len(copied'[u]) /\ Len(copied'[u]) <= Len(wbuffer')
               /\ \A i \in 1 .. Len(copied'[u]) : copied'[u][i] = Drained' + i
    <3>1. CASE u = t
      BY <1>2, <1>3, <1>4, <1>5, <1>6, <1>7, <2>1, <2>2, <3>1 DEF Write!After
    <3>2. CASE u # t
      BY <1>0, <1>2, <1>6, <1>7, <2>2, <3>2 DEF Bytes
    <3> QED BY <3>1, <3>2
  <2>3. ASSUME NEW u \in Write!Threads, doing'[u] = "write"
        PROVE  /\ 0 < Len(copied'[u]) /\ Len(copied'[u]) <= Drained'
               /\ \A i \in 1 .. Len(copied'[u]) : copied'[u][i] = Drained' - Len(copied'[u]) + i
    <3>1. u # t
      BY <1>5, <1>6, <2>3
    <3> QED BY <1>0, <1>6, <1>7, <2>3, <3>1 DEF Bytes
  <2> QED BY <1>0, <1>2, <1>7, <2>2, <2>3 DEF Bytes
<1>11. Kernel'
  BY <1>0, <1>2, <1>7 DEF Kernel, Write!LeavesInOrder
<1>12. Whole'
  <2> SUFFICES ASSUME uses = {"send"}
               PROVE  /\ doing'["service"] = "drain" =>
                           Len(copied'["service"]) = SendSize \/ Len(copied'["service"]) = Len(wbuffer)
                      /\ doing'["service"] = "write" =>
                           Len(copied'["service"]) = SendSize \/ wbuffer = <<>>
                      /\ ~refused /\ doing'["service"] = "idle" => wbuffer = <<>>
    BY <1>2 DEF Whole, Write!SentAtOnce
  <2>1. t = "service"
    BY <1>0, <1>2 DEF OneSender, Write!Threads
  <2> QED BY <1>3, <1>4, <1>5, <1>6, <2>1
<1> QED BY <1>8, <1>9, <1>10, <1>11, <1>12 DEF WriteInv

\* A thread that drains or writes has the other one out of socket::send.
LEMMA OtherOut ==
  ASSUME Write!SocketWriteAssumption, OneCall, Write!TypeOK, OneSender,
         NEW t \in Write!Threads, doing[t] \in {"copy", "drain", "write"}
  PROVE  \A u \in Write!Threads \ {t} : doing[u] \in {"idle", "watch"}
  BY SendsAlone DEF Write!Threads

\* What is in the hands of the one thread that sends.
LEMMA OneHand ==
  ASSUME NEW t \in Write!Threads, \A u \in Write!Threads \ {t} : doing[u] # "write",
         Drained \in Nat,
         Len(copied[t]) \in Nat
  PROVE  Sent = Drained - Hand(t)
<1>1. \A u \in Write!Threads \ {t} : Hand(u) = 0
  BY DEF Hand
<1>2. Hand(t) \in Nat
  BY DEF Hand
<1> QED BY <1>1, <1>2 DEF Sent, Write!Threads

\* A thread drains what it has copied.
LEMMA DrainKeeps ==
  ASSUME Write!SocketWriteAssumption, OneCall, WriteInv, NEW t \in Write!Threads, Write!Drain(t)
  PROVE  WriteInv'
<1>0. Write!TypeOK /\ OneSender /\ Bytes /\ Kernel /\ Whole
  BY DEF WriteInv
<1> DEFINE h == Len(copied[t])
           w == Len(wbuffer)
<1>1. /\ doing[t] = "drain" /\ Write!Goes(t, "write")
      /\ wbuffer' = SubSeq(wbuffer, h + 1, w)
      /\ UNCHANGED <<uses, pushed, copied, out, held, refused, out_event, armed>>
  BY DEF Write!Drain, Write!kernelVars, Write!epollVars
<1>2. /\ pushed \in Nat /\ w \in Nat /\ h \in Nat /\ Drained \in Nat /\ Drained + w = pushed
      /\ wbuffer \in Seq(1 .. pushed)
  BY <1>0, WriteNumbers DEF Write!TypeOK
<1>3. /\ h > 0 /\ h <= w
      /\ \A i \in 1 .. h : copied[t][i] = Drained + i
  BY <1>0, <1>1 DEF Bytes
<1>4. \A i \in 1 .. w : wbuffer[i] = Drained + i
  BY <1>0 DEF Bytes
<1> HIDE DEF h, w
<1>5. /\ wbuffer' \in Seq(1 .. pushed) /\ Len(wbuffer') = w - h
      /\ \A i \in 1 .. w - h : wbuffer'[i] = wbuffer[h + i]
  <2>1. /\ SubSeq(wbuffer, h + 1, w) \in Seq(1 .. pushed)
        /\ Len(SubSeq(wbuffer, h + 1, w)) = w - (h + 1) + 1
        /\ \A i \in 1 .. w - (h + 1) + 1 : SubSeq(wbuffer, h + 1, w)[i] = wbuffer[h + 1 + i - 1]
    <3>1. h + 1 \in Nat \ {0} /\ h + 1 <= w + 1
      BY <1>2, <1>3
    <3>2. w <= Len(wbuffer)
      BY <1>2 DEF w
    <3>3. ASSUME NEW m \in Nat \ {0}, m <= w + 1
          PROVE  /\ SubSeq(wbuffer, m, w) \in Seq(1 .. pushed)
                 /\ Len(SubSeq(wbuffer, m, w)) = w - m + 1
                 /\ \A i \in 1 .. w - m + 1 : SubSeq(wbuffer, m, w)[i] = wbuffer[m + i - 1]
      <4> DEFINE S == 1 .. pushed
                 s == wbuffer
      <4>1. s \in Seq(S) /\ w \in Nat /\ w <= Len(s)
        BY <1>2, <3>2
      <4>2. m \in Nat \ {0} /\ m <= w + 1
        BY <3>3
      <4> HIDE DEF S, s
      <4>3. /\ SubSeq(s, m, w) \in Seq(S) /\ Len(SubSeq(s, m, w)) = w - m + 1
            /\ \A i \in 1 .. w - m + 1 : SubSeq(s, m, w)[i] = s[m + i - 1]
        BY ONLY <4>1, <4>2, PartIs
      <4> USE DEF S, s
      <4> QED BY <4>3
    <3> QED BY <3>1, <3>3
  <2>2. w - (h + 1) + 1 = w - h /\ \A i \in 1 .. w - h : h + 1 + i - 1 = h + i
    BY <1>2
  <2> QED BY <1>1, <2>1, <2>2
<1>6. Drained' = Drained + h
  <2>1. Drained' = pushed - (w - h)
    BY <1>1, <1>5 DEF Drained
  <2> QED BY <1>2, <2>1
<1>7. /\ doing'[t] = "write" /\ \A u \in Write!Threads \ {t} : doing'[u] = doing[u]
      /\ \A u \in Write!Threads \ {t} : doing[u] \in {"idle", "watch"}
  BY <1>0, <1>1, GoesDoes, OtherOut
<1>8. Sent' = Sent
  <2>1. Sent = Drained - Hand(t) /\ Hand(t) = 0
    BY <1>1, <1>2, <1>7, OneHand DEF Hand, h
  <2>2. Hand(t)' = h /\ \A u \in Write!Threads \ {t} : Hand(u)' = 0
    BY <1>1, <1>7 DEF Hand, h
  <2>3. \/ Hand("service")' = h /\ Hand("worker")' = 0
        \/ Hand("service")' = 0 /\ Hand("worker")' = h
    BY <2>2 DEF Write!Threads
  <2> QED BY <1>2, <1>6, <2>1, <2>3 DEF Sent
<1>9. Write!TypeOK'
  <2>1. doing' \in [Write!Threads -> {"idle", "copy", "drain", "write", "watch"}]
    BY <1>0, <1>1 DEF Write!TypeOK, Write!Goes
  <2> QED BY <1>0, <1>1, <1>5, <2>1 DEF Write!TypeOK
<1>10. OneSender'
  BY <1>0, <1>1, <1>7 DEF OneSender, Write!Threads
<1>11. Bytes'
  <2>1. \A i \in 1 .. Len(wbuffer') : wbuffer'[i] = Drained' + i
    <3>1. ASSUME NEW i \in 1 .. w - h
          PROVE  wbuffer'[i] = Drained + h + i
      <4>1. h + i \in 1 .. w /\ i \in Nat
        BY <1>2, <1>3
      <4> QED BY <1>2, <1>4, <1>5, <4>1
    <3> QED BY <1>5, <1>6, <3>1
  <2>2. Len(wbuffer') <= pushed'
    BY <1>1, <1>2, <1>5
  <2>3. \A i \in 1 .. h : copied'[t][i] = Drained' - h + i
    BY <1>1, <1>2, <1>3, <1>6
  <2>4. ASSUME NEW u \in Write!Threads, doing'[u] = "write"
        PROVE  u = t
    BY <1>7, <2>4
  <2>5. \A u \in Write!Threads : doing'[u] # "drain"
    BY <1>7
  <2>6. 0 < h /\ h <= Drained' /\ Len(copied'[t]) = h
    BY <1>1, <1>2, <1>3, <1>6 DEF h
  <2> QED BY <2>1, <2>2, <2>3, <2>4, <2>5, <2>6 DEF Bytes
<1>12. Kernel'
  BY <1>0, <1>1, <1>8 DEF Kernel, Write!LeavesInOrder
<1>13. Whole'
  <2> SUFFICES ASSUME uses = {"send"}
               PROVE  Whole'
    BY <1>1 DEF Whole
  <2>1. t = "service"
    BY <1>0, <1>1 DEF OneSender, Write!Threads
  <2>2. h = SendSize \/ h = w
    BY <1>0, <1>1, <2>1 DEF Whole, h, w
  <2>3. h = w => wbuffer' = <<>>
    <3>1. h = w => Len(wbuffer') = 0
      BY <1>2, <1>5
    <3> QED BY <1>5, <3>1, EmptySeq
  <2>4. Len(copied'["service"]) = SendSize \/ wbuffer' = <<>>
    BY <1>1, <2>1, <2>2, <2>3 DEF h
  <2> QED BY <1>7, <2>1, <2>4 DEF Whole, Write!SentAtOnce
<1> QED BY <1>9, <1>10, <1>11, <1>12, <1>13 DEF WriteInv

\* A thread gives the kernel what it has drained.
LEMMA WriteKeeps ==
  ASSUME Write!SocketWriteAssumption, OneCall, WriteInv, NEW t \in Write!Threads, Write!Write(t)
  PROVE  WriteInv'
<1>0. Write!TypeOK /\ OneSender /\ Bytes /\ Kernel /\ Whole
  BY DEF WriteInv
<1> DEFINE h     == Len(copied[t])
           taken == Write!Min({Room - held, Len(copied[t])})
           next  == IF Write!Again(t, taken) THEN "copy" ELSE Write!After(t)
           part  == SubSeq(copied[t], 1, taken)
           n     == Len(out)
<1>1. /\ doing[t] = "write" /\ Write!Goes(t, next)
      /\ out' = out \o part /\ held' = held + taken /\ refused' = (refused \/ taken < h)
      /\ copied' = [copied EXCEPT ![t] = <<>>]
      /\ UNCHANGED <<uses, pushed, wbuffer, out_event, armed>>
  BY DEF Write!Write, Write!bufferVars, Write!epollVars
<1>2. /\ pushed \in Nat /\ h \in Nat /\ n \in Nat /\ Drained \in Nat /\ Drained <= pushed
      /\ copied[t] \in Seq(1 .. pushed) /\ out \in Seq(1 .. pushed)
      /\ held \in Nat /\ Room \in Nat /\ held <= Room /\ refused \in BOOLEAN
  BY <1>0, WriteNumbers DEF Write!TypeOK
<1>3. /\ h > 0 /\ h <= Drained
      /\ \A i \in 1 .. h : copied[t][i] = Drained - h + i
  BY <1>0, <1>1 DEF Bytes
<1>4. /\ taken \in Nat /\ taken <= h /\ taken <= Room - held
  <2>1. Room - held \in Nat
    BY <1>2
  <2> QED BY <1>2, <2>1, MinOfTwo
<1>5. /\ next \in {"copy", "watch", "idle"}
      /\ next = "watch" => t = "worker"
      /\ next = "copy" \/ next = Write!After(t)
      /\ next # "copy" => h # SendSize \/ taken = 0
  <2>1. (Write!After(t) = "watch" /\ t = "worker") \/ (Write!After(t) = "idle" /\ t = "service")
    BY DEF Write!After, Write!Threads
  <2> HIDE DEF taken, h
  <2>2. ~Write!Again(t, taken) => h # SendSize \/ taken = 0
    BY <1>2, <1>4 DEF Write!Again, h
  <2> QED BY <2>1, <2>2
<1> HIDE DEF h, taken, next, n
<1>6. /\ part \in Seq(1 .. pushed) /\ Len(part) = taken
      /\ \A i \in 1 .. taken : part[i] = Drained - h + i
  <2>1. /\ part \in Seq(1 .. pushed) /\ Len(part) = taken - 1 + 1
        /\ \A i \in 1 .. taken - 1 + 1 : part[i] = copied[t][1 + i - 1]
    <3>1. 1 \in Nat \ {0} /\ taken <= Len(copied[t]) /\ 1 <= taken + 1
      BY <1>4 DEF h
    <3> QED BY <1>2, <1>4, <3>1, PartIs
  <2> HIDE DEF part
  <2>2. taken - 1 + 1 = taken /\ \A i \in 1 .. taken : 1 + i - 1 = i /\ i \in 1 .. h
    BY <1>2, <1>4
  <2> QED BY <1>3, <2>1, <2>2
<1> HIDE DEF part
<1>7. /\ out' \in Seq(1 .. pushed) /\ Len(out') = n + taken
      /\ \A i \in 1 .. n : out'[i] = out[i]
      /\ \A i \in 1 .. taken : out'[n + i] = Drained - h + i
  <2>1. /\ out' \in Seq(1 .. pushed) /\ Len(out') = Len(out) + Len(part)
        /\ \A i \in 1 .. Len(out) + Len(part) :
             out'[i] = IF i <= Len(out) THEN out[i] ELSE part[i - Len(out)]
    BY <1>1, <1>2, <1>6, ConcatProperties
  <2>2. /\ Len(out') = n + taken
        /\ \A i \in 1 .. n + taken : out'[i] = IF i <= n THEN out[i] ELSE part[i - n]
    BY <1>6, <2>1 DEF n
  <2>3. \A i \in 1 .. n : i \in 1 .. n + taken /\ i <= n
    BY <1>2, <1>4
  <2>4. \A i \in 1 .. taken : n + i \in 1 .. n + taken /\ ~(n + i <= n) /\ (n + i) - n = i
    BY <1>2, <1>4
  <2>5. \A i \in 1 .. n : out'[i] = out[i]
    BY <2>2, <2>3
  <2>6. \A i \in 1 .. taken : out'[n + i] = part[i]
    BY <2>2, <2>4
  <2> QED BY <1>6, <2>1, <2>2, <2>5, <2>6
<1>8. /\ doing'[t] = next /\ \A u \in Write!Threads \ {t} : doing'[u] = doing[u]
      /\ \A u \in Write!Threads \ {t} : doing[u] \in {"idle", "watch"}
      /\ \A u \in Write!Threads : doing'[u] \notin {"drain", "write"}
  BY <1>0, <1>1, <1>5, GoesDoes, OtherOut
<1>9. Drained' = Drained /\ Sent = Drained - h /\ Sent' = Drained
  <2>1. Drained' = Drained
    BY <1>1 DEF Drained
  <2>2. Sent = Drained - Hand(t) /\ Hand(t) = h
    BY <1>1, <1>2, <1>8, OneHand DEF Hand, h
  <2>3. Hand("service")' = 0 /\ Hand("worker")' = 0
    BY <1>8 DEF Hand, Write!Threads
  <2> QED BY <1>2, <2>1, <2>2, <2>3 DEF Sent
<1>10. Write!TypeOK'
  <2>1. doing' \in [Write!Threads -> {"idle", "copy", "drain", "write", "watch"}]
    BY <1>0, <1>1, <1>5 DEF Write!TypeOK, Write!Goes
  <2>2. copied' \in [Write!Threads -> Seq(1 .. pushed)]
    <3>1. <<>> \in Seq(1 .. pushed)
      OBVIOUS
    <3> QED BY <1>0, <1>1, <3>1 DEF Write!TypeOK
  <2>3. held' \in 0 .. Room /\ refused' \in BOOLEAN
    BY <1>1, <1>2, <1>4
  <2> QED BY <1>0, <1>1, <1>7, <2>1, <2>2, <2>3 DEF Write!TypeOK
<1>11. OneSender'
  BY <1>0, <1>1, <1>5, <1>8 DEF OneSender, Write!Threads
<1>12. Bytes'
  BY <1>0, <1>1, <1>8, <1>9 DEF Bytes
<1>13. Kernel'
  <2>1. \A i \in 1 .. n : out[i] <= Drained - h /\ out[i] \in Nat
    <3>1. \A i \in 1 .. n : out[i] \in 1 .. pushed
      BY <1>2, ElementOfSeq DEF n
    <3> QED BY <1>0, <1>9, <3>1 DEF Kernel, n
  <2>2. \A i \in 1 .. n + taken : i \in 1 .. n \/ (i - n \in 1 .. taken /\ n + (i - n) = i)
    BY <1>2, <1>4
  <2>3. ASSUME NEW i \in 1 .. Len(out')
        PROVE  out'[i] <= Sent'
    <3>1. CASE i \in 1 .. n
      BY <1>2, <1>3, <1>7, <1>9, <2>1, <3>1
    <3>2. CASE i - n \in 1 .. taken /\ n + (i - n) = i
      <4>1. out'[i] = Drained - h + (i - n)
        BY <1>7, <3>2
      <4> DEFINE j == i - n
      <4>2. j \in 1 .. taken /\ out'[i] = Drained - h + j
        BY <3>2, <4>1
      <4> HIDE DEF j
      <4>3. h \in Nat /\ taken \in Nat /\ taken <= h /\ Drained \in Nat
        BY <1>2, <1>4
      <4>4. Drained - h + j <= Drained
        BY <4>2, <4>3
      <4> QED BY <1>9, <4>2, <4>4
    <3> QED BY <1>7, <2>2, <3>1, <3>2
  <2>4. ASSUME NEW i \in 1 .. Len(out') - 1
        PROVE  out'[i] < out'[i + 1]
    <3>0. i \in Nat /\ i >= 1 /\ i + 1 <= n + taken
      BY <1>2, <1>4, <1>7
    <3>1. CASE i + 1 <= n
      <4>1. i \in 1 .. n - 1 /\ i \in 1 .. n /\ i + 1 \in 1 .. n
        BY <1>2, <3>0, <3>1
      <4>2. out[i] < out[i + 1]
        BY <1>0, <4>1 DEF Kernel, Write!LeavesInOrder, n
      <4> QED BY <1>7, <4>1, <4>2
    <3>2. CASE i = n
      <4>1. i \in 1 .. n /\ 1 \in 1 .. taken
        BY <1>2, <1>4, <3>0, <3>2
      <4>2. out'[i] = out[i] /\ out'[i + 1] = Drained - h + 1
        BY <1>7, <3>2, <4>1
      <4> QED BY <1>2, <1>3, <2>1, <4>1, <4>2
    <3>3. CASE i > n
      <4>1. i - n \in 1 .. taken /\ i + 1 - n \in 1 .. taken /\ n + (i - n) = i /\ n + (i + 1 - n) = i + 1
        BY <1>2, <1>4, <3>0, <3>3
      <4>2. out'[i] = Drained - h + (i - n) /\ out'[i + 1] = Drained - h + (i + 1 - n)
        BY <1>7, <4>1
      <4> QED BY <1>2, <1>3, <3>0, <4>2
    <3> QED BY <1>2, <3>0, <3>1, <3>2, <3>3
  <2>5. ASSUME ~refused'
        PROVE  Len(out') = Sent' /\ \A i \in 1 .. Len(out') : out'[i] = i
    <3>1. ~refused /\ taken = h
      <4>1. ~refused /\ ~(taken < h)
        BY <1>1, <2>5
      <4> QED BY <1>2, <1>4, <4>1
    <3>2. n = Drained - h /\ \A i \in 1 .. n : out[i] = i
      BY <1>0, <1>9, <3>1 DEF Kernel, n
    <3>3. Len(out') = Sent'
      BY <1>2, <1>3, <1>7, <1>9, <3>1, <3>2
    <3>4. ASSUME NEW i \in 1 .. n + taken
          PROVE  out'[i] = i
      <4>1. CASE i \in 1 .. n
        BY <1>7, <3>2, <4>1
      <4>2. CASE i - n \in 1 .. taken /\ n + (i - n) = i
        <5>1. out'[i] = n + (i - n)
          BY <1>7, <3>2, <4>2
        <5> QED BY <4>2, <5>1
      <4> QED BY <2>2, <4>1, <4>2
    <3> QED BY <1>7, <3>3, <3>4
  <2> QED BY <2>3, <2>4, <2>5 DEF Kernel, Write!LeavesInOrder
<1>14. Whole'
  <2> SUFFICES ASSUME uses = {"send"}, ~refused', doing'["service"] = "idle"
               PROVE  wbuffer = <<>>
    BY <1>1, <1>8 DEF Whole, Write!SentAtOnce, Write!Threads
  <2>1. t = "service"
    BY <1>0, <1>1 DEF OneSender, Write!Threads
  <2>2. taken = h
    <3>1. ~(taken < h)
      BY <1>1
    <3> QED BY <1>2, <1>4, <3>1
  <2>3. h # SendSize
    BY <1>3, <1>5, <1>8, <2>1, <2>2
  <2> QED BY <1>0, <1>1, <2>1, <2>3 DEF Whole, h
<1> QED BY <1>10, <1>11, <1>12, <1>13, <1>14 DEF WriteInv

\* The worker, epoll and the peer leave the bytes where they are.
LEMMA EpollKeeps ==
  ASSUME Write!SocketWriteAssumption, OneCall, WriteInv,
         Write!WatchWrite \/ Write!Poll \/ Write!WatchReadOnly \/ Write!PeerReads \/ Write!PeerSends
  PROVE  WriteInv'
<1>0. Write!TypeOK /\ OneSender /\ Bytes /\ Kernel /\ Whole
  BY DEF WriteInv
<1>1. UNCHANGED <<uses, pushed, wbuffer, copied, out, refused>>
  BY DEF Write!WatchWrite, Write!Poll, Write!WatchReadOnly, Write!PeerReads, Write!PeerSends,
     Write!bufferVars, Write!kernelVars
<1>2. \/ UNCHANGED doing /\ ("async_send" \notin uses => ~out_event' /\ ~armed')
      \/ doing["service"] = "watch" /\ doing'["service"] = "idle" /\ doing'["worker"] = doing["worker"]
      \/ /\ doing["worker"] = "idle" /\ armed /\ doing'["worker"] = "copy"
         /\ doing'["service"] = doing["service"]
      \/ /\ doing["worker"] = "watch" /\ doing'["worker"] = "idle"
         /\ doing'["service"] = doing["service"]
  <2>1. ASSUME Write!WatchWrite
        PROVE  doing["service"] = "watch" /\ doing'["service"] = "idle" /\ doing'["worker"] = doing["worker"]
    BY <1>0, <2>1, GoesDoes DEF Write!WatchWrite, Write!Threads
  <2>2. ASSUME Write!Poll
        PROVE  doing["worker"] = "idle" /\ armed /\ doing'["worker"] = "copy"
               /\ doing'["service"] = doing["service"]
    BY <1>0, <2>2, GoesDoes DEF Write!Poll, Write!Threads
  <2>3. ASSUME Write!WatchReadOnly
        PROVE  doing["worker"] = "watch" /\ doing'["worker"] = "idle"
               /\ doing'["service"] = doing["service"]
    BY <1>0, <2>3, GoesDoes DEF Write!WatchReadOnly, Write!Threads
  <2>4. ASSUME Write!PeerReads \/ Write!PeerSends
        PROVE  UNCHANGED doing /\ ("async_send" \notin uses => ~out_event' /\ ~armed')
    <3>1. UNCHANGED <<doing, out_event>>
      BY <2>4 DEF Write!PeerReads, Write!PeerSends
    <3>2. "async_send" \notin uses => ~out_event /\ ~armed
      BY <1>0 DEF OneSender
    <3>3. Write!PeerReads => (armed' => armed \/ out_event)
      BY DEF Write!PeerReads
    <3>4. Write!PeerSends => out_event
      BY DEF Write!PeerSends
    <3> QED BY <2>4, <3>1, <3>2, <3>3, <3>4
  <2> QED BY <2>1, <2>2, <2>3, <2>4
<1>3. \A t \in Write!Threads : doing'[t] \in {"drain", "write"} \/ doing[t] \in {"drain", "write"}
                            => doing'[t] = doing[t]
  BY <1>2 DEF Write!Threads
<1>4. Drained' = Drained /\ Sent' = Sent
  <2>1. Drained' = Drained
    BY <1>1 DEF Drained
  <2>2. \A t \in Write!Threads : Hand(t)' = Hand(t)
    BY <1>1, <1>3 DEF Hand
  <2> QED BY <2>1, <2>2 DEF Sent, Write!Threads
<1>5. Write!TypeOK'
  <2>1. doing' \in [Write!Threads -> {"idle", "copy", "drain", "write", "watch"}]
    BY <1>0 DEF Write!TypeOK, Write!Goes, Write!WatchWrite, Write!Poll, Write!WatchReadOnly,
       Write!PeerReads, Write!PeerSends
  <2>2. out_event' \in BOOLEAN /\ armed' \in BOOLEAN
    <3>1. out_event \in BOOLEAN /\ armed \in BOOLEAN
      BY <1>0 DEF Write!TypeOK
    <3>2. Write!WatchWrite \/ Write!Poll \/ Write!WatchReadOnly => out_event' \in BOOLEAN /\ armed' \in BOOLEAN
      <4>1. Write!WatchWrite => out_event' = TRUE /\ armed' = (held < Room)
        BY DEF Write!WatchWrite
      <4>2. Write!Poll => out_event' = out_event /\ armed' = FALSE
        BY DEF Write!Poll
      <4>3. Write!WatchReadOnly => out_event' = FALSE /\ armed' = FALSE
        BY DEF Write!WatchReadOnly
      <4>4. (held < Room) \in BOOLEAN
        OBVIOUS
      <4> QED BY <3>1, <4>1, <4>2, <4>3, <4>4
    <3>3. Write!PeerReads => out_event' = out_event /\ armed' \in BOOLEAN
      BY <3>1 DEF Write!PeerReads
    <3>4. Write!PeerSends => out_event' = out_event /\ armed' \in BOOLEAN
      BY <3>1 DEF Write!PeerSends
    <3> QED BY <3>1, <3>2, <3>3, <3>4
  <2>3. held' \in 0 .. Room
    <3>1. Write!PeerReads => held' = held - 1 /\ held > 0
      BY DEF Write!PeerReads
    <3>2. Write!PeerReads \/ held' = held
      BY DEF Write!WatchWrite, Write!Poll, Write!WatchReadOnly, Write!PeerSends, Write!kernelVars
    <3>3. held \in 0 .. Room /\ Room \in Nat
      BY <1>0 DEF Write!TypeOK, Write!SocketWriteAssumption
    <3> QED BY <3>1, <3>2, <3>3
  <2> QED BY <1>0, <1>1, <2>1, <2>2, <2>3 DEF Write!TypeOK
<1>6. OneSender'
  <2>1. "async_send" \notin uses => UNCHANGED doing /\ ~out_event' /\ ~armed'
    BY <1>0, <1>2 DEF OneSender
  <2>2. "send" \notin uses => doing'["service"] \in {"idle", "watch"}
    BY <1>0, <1>2 DEF OneSender
  <2> QED BY <1>0, <1>1, <2>1, <2>2 DEF OneSender
<1>7. Bytes'
  BY <1>0, <1>1, <1>3, <1>4 DEF Bytes
<1>8. Kernel'
  BY <1>0, <1>1, <1>4 DEF Kernel, Write!LeavesInOrder
<1>9. Whole'
  <2>1. uses = {"send"} => doing'["service"] = doing["service"]
    BY <1>0, <1>2 DEF OneSender
  <2> QED BY <1>0, <1>1, <2>1 DEF Whole, Write!SentAtOnce
<1> QED BY <1>5, <1>6, <1>7, <1>8, <1>9 DEF WriteInv

\* Nothing has been pushed when the connection is established.
LEMMA WriteInit ==
  ASSUME Write!SocketWriteAssumption, OneCall, Write!Init
  PROVE  WriteInv
<1>1. \A t \in Write!Threads : doing[t] = "idle" /\ copied[t] = <<>>
  BY DEF Write!Init
<1>2. Len(wbuffer) = 0 /\ Len(out) = 0 /\ pushed = 0 /\ Drained = 0
  <2>1. Len(wbuffer) = 0 /\ Len(out) = 0 /\ pushed = 0
    BY DEF Write!Init
  <2> QED BY <2>1 DEF Drained
<1>3. Write!TypeOK
  <2>1. <<>> \in Seq(1 .. 0)
    OBVIOUS
  <2>2. doing \in [Write!Threads -> {"idle", "copy", "drain", "write", "watch"}]
    BY DEF Write!Init
  <2>3. copied \in [Write!Threads -> Seq(1 .. 0)]
    BY <2>1 DEF Write!Init
  <2>4. /\ uses \in Calls /\ wbuffer = <<>> /\ out = <<>> /\ pushed = 0 /\ held = 0
        /\ out_event = FALSE /\ armed = FALSE /\ refused = FALSE
    BY DEF Write!Init
  <2>5. pushed \in 0 .. MaxBytes /\ held \in 0 .. Room
    BY <2>4 DEF Write!SocketWriteAssumption
  <2> QED BY <2>1, <2>2, <2>3, <2>4, <2>5 DEF Write!TypeOK
<1>4. OneSender
  BY <1>1 DEF Write!Init, OneSender, Write!Threads
<1>5. Bytes
  BY <1>1, <1>2 DEF Bytes
<1>6. Kernel
  <2>1. Sent = 0
    BY <1>1, <1>2 DEF Sent, Hand, Write!Threads
  <2> QED BY <1>2, <2>1 DEF Kernel, Write!LeavesInOrder
<1>7. Whole
  BY <1>1 DEF Write!Init, Whole, Write!SentAtOnce, Write!Threads
<1> QED BY <1>3, <1>4, <1>5, <1>6, <1>7 DEF WriteInv

\* Every step keeps the invariant.
LEMMA WriteStep ==
  ASSUME Write!SocketWriteAssumption, OneCall, WriteInv, [Write!Next]_(Write!vars)
  PROVE  WriteInv'
<1>1. CASE UNCHANGED Write!vars
  <2>1. UNCHANGED <<uses, pushed, wbuffer, doing, copied, out, held, refused, out_event, armed>>
    BY <1>1 DEF Write!vars, Write!bufferVars, Write!kernelVars, Write!epollVars
  <2>2. Write!TypeOK' /\ OneSender'
    BY <2>1 DEF WriteInv, Write!TypeOK, OneSender
  <2>3. Bytes' /\ Kernel' /\ Whole'
    BY <2>1 DEF WriteInv, Bytes, Kernel, Whole, Write!LeavesInOrder, Write!SentAtOnce, Drained,
       Sent, Hand
  <2> QED BY <2>2, <2>3 DEF WriteInv
<1> QED BY <1>1, PushKeeps, CopyKeeps, DrainKeeps, WriteKeeps, EpollKeeps DEF Write!Next, Write!SendStep

-----------------------------------------------------------------------------
(* The theorems.                                                           *)

\* The bytes are where the invariant says, in every state.
THEOREM WriteInvariance ==
  ASSUME Write!SocketWriteAssumption, OneCall
  PROVE  Write!Spec => []WriteInv
<1>1. Write!Init => WriteInv
  BY WriteInit
<1>2. WriteInv /\ [Write!Next]_(Write!vars) => WriteInv'
  BY WriteStep
<1> QED BY <1>1, <1>2, PTL DEF Write!Spec

\* Types: every byte in a buffer is one that has been pushed, and the kernel has no more
\* than it has room for.
THEOREM WriteTypes ==
  ASSUME Write!SocketWriteAssumption, OneCall
  PROVE  Write!Spec => []Write!TypeOK
<1>1. WriteInv => Write!TypeOK
  BY DEF WriteInv
<1> QED BY <1>1, WriteInvariance, PTL

\* The bytes leave in the order they were pushed, and none twice.
THEOREM BytesInOrder ==
  ASSUME Write!SocketWriteAssumption, OneCall
  PROVE  Write!Spec => []Write!LeavesInOrder
<1>1. WriteInv => Write!LeavesInOrder
  BY DEF WriteInv, Kernel
<1> QED BY <1>1, WriteInvariance, PTL

\* When send returns and the kernel has refused nothing, nothing is left behind.
THEOREM BytesAtOnce ==
  ASSUME Write!SocketWriteAssumption, OneCall
  PROVE  Write!Spec => []Write!SentAtOnce
<1>1. WriteInv => Write!SentAtOnce
  BY DEF WriteInv, Whole, Write!SentAtOnce
<1> QED BY <1>1, WriteInvariance, PTL

\* As long as the kernel takes all it is given, no byte is lost.
THEOREM NoByteLost ==
  ASSUME Write!SocketWriteAssumption, OneCall
  PROVE  Write!Spec => []Write!LostOnlyIfRefused
<1>1. ASSUME WriteInv
      PROVE  Write!LostOnlyIfRefused
  <2> SUFFICES ASSUME ~refused, NEW b \in 1 .. pushed
               PROVE  b \in Write!Range(wbuffer) \cup Write!Range(out) \cup UNION {Write!Range(copied[t]) : t \in Write!Threads}
    BY DEF Write!LostOnlyIfRefused
  <2>0. Write!TypeOK /\ OneSender /\ Bytes /\ Kernel
    BY <1>1 DEF WriteInv
  <2>1. /\ pushed \in Nat /\ Len(wbuffer) \in Nat /\ Len(out) \in Nat
        /\ Drained \in Nat /\ Drained + Len(wbuffer) = pushed
        /\ \A t \in Write!Threads : copied[t] \in Seq(1 .. pushed) /\ Len(copied[t]) \in Nat
        /\ b \in Nat /\ 1 <= b /\ b <= pushed
    BY <2>0, WriteNumbers
  <2>2. ASSUME NEW S, NEW s \in Seq(S), NEW i \in 1 .. Len(s), s[i] = b
        PROVE  b \in Write!Range(s)
    BY <2>2, LenProperties DEF Write!Range
  <2>3. CASE b > Drained
    <3>1. b - Drained \in 1 .. Len(wbuffer) /\ Drained + (b - Drained) = b
      BY <2>1, <2>3
    <3>2. wbuffer[b - Drained] = b
      BY <2>0, <3>1 DEF Bytes
    <3>3. wbuffer \in Seq(1 .. pushed)
      BY <2>0 DEF Write!TypeOK
    <3> QED BY <2>2, <3>1, <3>2, <3>3
  <2>4. CASE b <= Sent
    <3>1. Len(out) = Sent /\ \A i \in 1 .. Len(out) : out[i] = i
      BY <2>0 DEF Kernel
    <3>2. b \in 1 .. Len(out) /\ out[b] = b
      BY <2>1, <2>4, <3>1
    <3>3. out \in Seq(1 .. pushed)
      BY <2>0 DEF Write!TypeOK
    <3> QED BY <2>2, <3>2, <3>3
  <2>5. CASE b <= Drained /\ ~(b <= Sent)
    <3>1. PICK t \in Write!Threads : doing[t] = "write"
      <4>1. (\A t \in Write!Threads : doing[t] # "write") => Sent = Drained
        BY <2>1 DEF Sent, Hand, Write!Threads
      <4> QED BY <2>5, <4>1
    <3>2. Sent = Drained - Len(copied[t])
      <4>1. \A u \in Write!Threads \ {t} : doing[u] # "write"
        BY <2>0, <3>1, OtherOut
      <4> QED BY <2>1, <3>1, <4>1, OneHand DEF Hand
    <3>3. /\ Len(copied[t]) <= Drained
          /\ \A i \in 1 .. Len(copied[t]) : copied[t][i] = Drained - Len(copied[t]) + i
      BY <2>0, <3>1 DEF Bytes
    <3>4. b - Sent \in 1 .. Len(copied[t]) /\ Sent + (b - Sent) = b
      <4> DEFINE h == Len(copied[t])
      <4>1. h \in Nat /\ h <= Drained /\ Sent = Drained - h
        BY <2>1, <3>2, <3>3
      <4> HIDE DEF h
      <4>2. b - Sent \in 1 .. h /\ Sent + (b - Sent) = b
        BY <2>1, <2>5, <4>1
      <4> QED BY <4>2 DEF h
    <3>5. copied[t][b - Sent] = b
      BY <3>2, <3>3, <3>4
    <3>6. b \in Write!Range(copied[t])
      BY <2>1, <2>2, <3>4, <3>5
    <3> QED BY <3>6
  <2>6. Sent \in Int
    BY <2>1 DEF Sent, Hand, Write!Threads
  <2> QED BY <2>1, <2>3, <2>4, <2>5, <2>6
<1> QED BY <1>1, WriteInvariance, PTL

-----------------------------------------------------------------------------
(* The services that are created.                                          *)

(* The inductive invariant.                                                *)

Used(s) == stage[s] # "none"

\* services are created in order, and max_service_id is no larger than their number
InTurn ==
  /\ \A r, s \in Birth!Services : r <= s /\ Used(s) => Used(r)
  /\ \A s \in Birth!Services : Used(s) => service_id_[s] < s
  /\ max_service_id # 0 => Used(max_service_id)

\* a thread creates services whose script is not over, each by itself; all but the
\* innermost have drawn their number
Created ==
  /\ \A t \in Birth!Threads : \A i \in DOMAIN creating[t] :
       /\ stage[creating[t][i]] \in {"number", "load"}
       /\ i # Len(creating[t]) => stage[creating[t][i]] = "load"
  /\ \A t, u \in Birth!Threads : \A i \in DOMAIN creating[t], j \in DOMAIN creating[u] :
       creating[t][i] = creating[u][j] => t = u /\ i = j

\* who can be sent to is ready, and only who is ready has messages, or is run
Registered ==
  /\ \A n \in Birth!Numbers : service_vector_[n] # Birth!Null =>
       stage[service_vector_[n]] = "ready" /\ service_id_[service_vector_[n]] = n
  /\ \A s \in Birth!Services : mail[s] # <<>> => stage[s] = "ready"
  /\ \A w \in Workers : handling[w] # Birth!Null => stage[handling[w]] = "ready"
  /\ \A s \in timer : stage[s] \in {"load", "ready"}

\* if no two threads were in max_service_id++ at once, one at most is there now, and
\* max_service_id is the number it has read, beyond all that are drawn
Counted ==
  ~raced =>
    /\ \A r, s \in Birth!Services : stage[r] = "number" /\ stage[s] = "number" => r = s
    /\ \A s \in Birth!Services :
         /\ stage[s] = "number" => service_id_[s] = max_service_id
         /\ stage[s] \in {"load", "ready"} => service_id_[s] < max_service_id

BirthInv ==
  Birth!TypeOK /\ InTurn /\ Created /\ Registered /\ Counted /\ Birth!OwnNumber /\ Birth!StartIsDue

-----------------------------------------------------------------------------
(* What the steps do to it.                                                *)

\* It holds at the start.
LEMMA BirthInit == Birth!ServiceStartAssumption /\ Birth!Init => BirthInv
<1> SUFFICES ASSUME Birth!ServiceStartAssumption, Birth!Init
             PROVE  BirthInv
  OBVIOUS
<1>1. MaxServices \in Nat \ {0} /\ 0 \in Birth!Numbers /\ 0 \in 0 .. MaxServices
      /\ MaxPosts \in Nat /\ 0 \in 0 .. MaxPosts
  BY DEF Birth!ServiceStartAssumption, Birth!Numbers
<1>2. \A S : <<>> \in Seq(S)
  OBVIOUS
<1>3. Birth!TypeOK
  BY <1>1, <1>2 DEF Birth!TypeOK, Birth!Init
<1>4. \A t \in Birth!Threads : DOMAIN creating[t] = {}
  BY DEF Birth!Init
<1>5. InTurn
  BY DEF InTurn, Used, Birth!Init
<1>6. Created
  BY <1>4 DEF Created
<1>7. Registered
  BY DEF Registered, Birth!Init
<1>8. Counted
  BY DEF Counted, Birth!Init
<1>9. Birth!OwnNumber
  BY DEF Birth!OwnNumber, Birth!Init
<1>10. Birth!StartIsDue
  BY DEF Birth!StartIsDue, Birth!Init
<1> QED BY <1>3, <1>5, <1>6, <1>7, <1>8, <1>9, <1>10 DEF BirthInv

\* The variables, as their types say.
LEMMA BirthTypes ==
  ASSUME Birth!ServiceStartAssumption, Birth!TypeOK
  PROVE  /\ max_service_id \in 0 .. MaxServices /\ MaxServices \in Nat \ {0} /\ MaxPosts \in Nat
         /\ service_vector_ \in [Birth!Numbers -> Birth!Services \cup {Birth!Null}]
         /\ service_id_ \in [Birth!Services -> Birth!Numbers]
         /\ stage \in [Birth!Services -> {"none", "number", "load", "ready"}]
         /\ creating \in [Birth!Threads -> Seq(Birth!Services)]
         /\ handling \in [Workers -> Birth!Services \cup {Birth!Null}]
         /\ mail \in [Birth!Services -> Seq(Birth!Messages)] /\ posts \in 0 .. MaxPosts
         /\ cb_context_ \subseteq Birth!Services /\ proto \subseteq Birth!Services
         /\ timer \subseteq Birth!Services
         /\ begun \subseteq Birth!Services /\ missed \subseteq Birth!Services
         /\ unheard \subseteq Birth!Services
         /\ Birth!Services \subseteq Nat \ {0} /\ Birth!Numbers \subseteq Nat
         /\ Birth!Null \notin Birth!Services
         /\ \A s \in Birth!Services : s <= MaxServices
         /\ Workers \subseteq Birth!Threads
<1>1. MaxServices \in Nat \ {0} /\ MaxPosts \in Nat
  BY DEF Birth!ServiceStartAssumption
<1>2. /\ Birth!Services \subseteq Nat \ {0} /\ Birth!Numbers \subseteq Nat
      /\ Birth!Null \notin Birth!Services
      /\ \A s \in Birth!Services : s <= MaxServices
  BY <1>1 DEF Birth!Services, Birth!Numbers, Birth!Null
<1>3. /\ cb_context_ \subseteq Birth!Services /\ proto \subseteq Birth!Services
      /\ timer \subseteq Birth!Services
      /\ begun \subseteq Birth!Services /\ missed \subseteq Birth!Services
      /\ unheard \subseteq Birth!Services
  BY DEF Birth!TypeOK
<1>4. Workers \subseteq Birth!Threads
  BY DEF Birth!Threads
<1> QED BY <1>1, <1>2, <1>3, <1>4 DEF Birth!TypeOK

\* The script that a thread runs is of a service that has its number.
LEMMA RunningIs ==
  ASSUME Birth!ServiceStartAssumption, BirthInv, NEW t \in Birth!Threads,
         NEW r \in Birth!Services, Birth!Running(t, r)
  PROVE  stage[r] \in {"load", "ready"} /\ (creating[t] # <<>> => r = creating[t][Len(creating[t])])
  BY DEF Birth!Running, Birth!Script, Birth!Inner, Birth!Last

\* Nobody creates more than Unused allows.
LEMMA NewKeeps ==
  ASSUME Birth!ServiceStartAssumption, BirthInv, NEW t \in Birth!Threads,
         NEW s \in Birth!Services, Birth!New(t, s)
  PROVE  BirthInv'
<1>1. /\ Birth!TypeOK /\ InTurn /\ Created /\ Registered /\ Counted /\ Birth!OwnNumber /\ Birth!StartIsDue
  BY DEF BirthInv
<1> USE BirthTypes
<1>2. /\ stage[s] = "none" /\ \A r \in Birth!Services : stage[r] = "none" => s <= r
      /\ service_id_' = [service_id_ EXCEPT ![s] = max_service_id]
      /\ stage' = [stage EXCEPT ![s] = "number"]
      /\ creating' = [creating EXCEPT ![t] = Append(@, s)]
      /\ raced' = (raced \/ \E r \in Birth!Services : stage[r] = "number")
      /\ UNCHANGED <<max_service_id, service_vector_, handling, Birth!scriptVars,
                 Birth!messageVars, missed, unheard>>
  BY DEF Birth!New, Birth!Unused
<1>3. UNCHANGED <<max_service_id, service_vector_, handling, cb_context_, proto, timer, begun,
                  mail, posts, halted, missed, unheard>>
  BY <1>2 DEF Birth!scriptVars, Birth!messageVars
<1>4. max_service_id < s
  <2>1. ASSUME s <= max_service_id
        PROVE  FALSE
    <3>1. max_service_id # 0 /\ max_service_id \in Birth!Services
      BY <1>1, <2>1 DEF Birth!Services
    <3>2. Used(s)
      BY <1>1, <2>1, <3>1 DEF InTurn
    <3> QED BY <1>2, <3>2 DEF Used
  <2> QED BY <1>1, <2>1
<1>5. max_service_id \in Birth!Numbers
  BY <1>1, <1>4 DEF Birth!Numbers
<1>6. /\ \A r \in Birth!Services : r # s => stage'[r] = stage[r] /\ service_id_'[r] = service_id_[r]
      /\ stage'[s] = "number" /\ service_id_'[s] = max_service_id
  BY <1>1, <1>2
<1>7. /\ creating[t] \in Seq(Birth!Services)
      /\ creating'[t] = Append(creating[t], s)
      /\ \A u \in Birth!Threads : u # t => creating'[u] = creating[u]
  BY <1>1, <1>2
<1>8. /\ Len(creating[t]) \in Nat /\ DOMAIN creating[t] = 1 .. Len(creating[t])
      /\ creating'[t] \in Seq(Birth!Services)
      /\ Len(creating'[t]) = Len(creating[t]) + 1
      /\ DOMAIN creating'[t] = 1 .. Len(creating[t]) + 1
      /\ \A i \in 1 .. Len(creating[t]) : creating'[t][i] = creating[t][i]
      /\ creating'[t][Len(creating[t]) + 1] = s
  BY <1>7, Longer
<1>9. \A u \in Birth!Threads : \A i \in DOMAIN creating[u] :
         creating[u][i] \in Birth!Services /\ creating[u][i] # s /\ stage[creating[u][i]] \in {"number", "load"}
  <2> SUFFICES ASSUME NEW u \in Birth!Threads, NEW i \in DOMAIN creating[u]
               PROVE  creating[u][i] \in Birth!Services /\ creating[u][i] # s
                      /\ stage[creating[u][i]] \in {"number", "load"}
    OBVIOUS
  <2>1. creating[u] \in Seq(Birth!Services)
    BY <1>1
  <2>2. creating[u][i] \in Birth!Services
    BY <2>1
  <2>3. stage[creating[u][i]] \in {"number", "load"}
    BY <1>1 DEF Created
  <2> QED BY <1>2, <2>2, <2>3
<1>10. \A i \in 1 .. Len(creating[t]) : stage[creating[t][i]] = "load"
  <2> SUFFICES ASSUME NEW i \in 1 .. Len(creating[t])
               PROVE  stage[creating[t][i]] = "load"
    OBVIOUS
  <2>1. i # Len(creating[t]) => stage[creating[t][i]] = "load"
    BY <1>1, <1>8 DEF Created
  <2>2. ASSUME i = Len(creating[t])
        PROVE  stage[creating[t][i]] = "load"
    <3>1. creating[t] # <<>>
      BY <1>8
    <3>2. \E r \in Birth!Services : Birth!Running(t, r)
      <4>1. ASSUME t = Main, s = 1
            PROVE  FALSE
        <5>1. creating[t][i] \in Birth!Services /\ Used(creating[t][i])
          BY <1>8, <1>9 DEF Used
        <5>2. s <= creating[t][i]
          <6> DEFINE c == creating[t][i]
          <6>1. c \in Birth!Services /\ Birth!Services \subseteq Nat \ {0}
            BY <1>1, <5>1
          <6> HIDE DEF c
          <6>2. 1 <= c
            BY <6>1
          <6> QED BY <4>1, <6>2 DEF c
        <5>3. Used(s)
          BY <1>1, <5>1, <5>2 DEF InTurn
        <5> QED BY <1>2, <5>3 DEF Used
      <4> QED BY <4>1 DEF Birth!New
    <3>3. stage[creating[t][i]] \in {"load", "ready"}
      BY <2>2, <3>1, <3>2, RunningIs
    <3> QED BY <1>8, <1>9, <3>3
  <2> QED BY <2>1, <2>2
<1>11. Birth!TypeOK'
  <2>1. service_id_' \in [Birth!Services -> Birth!Numbers] /\ stage' \in [Birth!Services -> {"none", "number", "load", "ready"}]
    BY <1>1, <1>2, <1>5
  <2>2. creating' \in [Birth!Threads -> Seq(Birth!Services)]
    BY <1>1, <1>2, <1>7, <1>8
  <2>3. raced' \in BOOLEAN
    BY <1>2
  <2> QED BY <1>1, <1>3, <2>1, <2>2, <2>3 DEF Birth!TypeOK
<1>12. InTurn'
  <2>1. \A q, r \in Birth!Services : q <= r /\ stage'[r] # "none" => stage'[q] # "none"
    <3> SUFFICES ASSUME NEW q \in Birth!Services, NEW r \in Birth!Services, q <= r, stage'[r] # "none",
                        stage'[q] = "none"
                 PROVE  FALSE
      OBVIOUS
    <3>1. q # s /\ stage[q] = "none"
      BY <1>6
    <3>2. s <= q /\ q \in Nat /\ r \in Nat /\ s \in Nat
      BY <1>1, <1>2, <3>1
    <3>3. r # s
      BY <3>1, <3>2
    <3>4. Used(r) /\ ~Used(q)
      BY <1>6, <3>1, <3>3 DEF Used
    <3> QED BY <1>1, <3>4 DEF InTurn
  <2>2. \A r \in Birth!Services : stage'[r] # "none" => service_id_'[r] < r
    BY <1>1, <1>4, <1>6 DEF InTurn, Used
  <2>3. max_service_id # 0 => stage'[max_service_id] # "none"
    <3>1. max_service_id # 0 => max_service_id \in Birth!Services
      BY <1>1 DEF Birth!Services
    <3> QED BY <1>1, <1>6, <3>1 DEF InTurn, Used
  <2> QED BY <1>3, <2>1, <2>2, <2>3 DEF InTurn, Used
<1>13. Created'
  <2>1. \A u \in Birth!Threads : \A i \in DOMAIN creating'[u] :
          /\ stage'[creating'[u][i]] \in {"number", "load"}
          /\ i # Len(creating'[u]) => stage'[creating'[u][i]] = "load"
    <3> SUFFICES ASSUME NEW u \in Birth!Threads, NEW i \in DOMAIN creating'[u]
                 PROVE  /\ stage'[creating'[u][i]] \in {"number", "load"}
                        /\ i # Len(creating'[u]) => stage'[creating'[u][i]] = "load"
      OBVIOUS
    <3>1. CASE u # t
      <4>1. creating'[u] = creating[u]
        BY <1>7, <3>1
      <4>2. stage'[creating[u][i]] = stage[creating[u][i]]
        BY <1>6, <1>9, <4>1
      <4> QED BY <1>1, <4>1, <4>2 DEF Created
    <3>2. CASE u = t /\ i = Len(creating[t]) + 1
      BY <1>6, <1>8, <3>2
    <3>3. CASE u = t /\ i # Len(creating[t]) + 1
      <4>1. i \in 1 .. Len(creating[t]) /\ creating'[t][i] = creating[t][i]
        BY <1>8, <3>3
      <4>2. stage[creating[t][i]] = "load" /\ creating[t][i] \in Birth!Services /\ creating[t][i] # s
        BY <1>8, <1>9, <1>10, <4>1
      <4> QED BY <1>6, <3>3, <4>1, <4>2
    <3> QED BY <3>1, <3>2, <3>3
  <2>2. \A u, v \in Birth!Threads : \A i \in DOMAIN creating'[u], j \in DOMAIN creating'[v] :
          creating'[u][i] = creating'[v][j] => u = v /\ i = j
    <3>1. \A u \in Birth!Threads : \A i \in DOMAIN creating'[u] :
            \/ i \in DOMAIN creating[u] /\ creating'[u][i] = creating[u][i]
            \/ u = t /\ i = Len(creating[t]) + 1 /\ creating'[u][i] = s
      <4> SUFFICES ASSUME NEW u \in Birth!Threads, NEW i \in DOMAIN creating'[u]
                   PROVE  \/ i \in DOMAIN creating[u] /\ creating'[u][i] = creating[u][i]
                          \/ u = t /\ i = Len(creating[t]) + 1 /\ creating'[u][i] = s
        OBVIOUS
      <4>1. CASE u # t
        BY <1>7, <4>1
      <4>2. CASE u = t /\ i = Len(creating[t]) + 1
        BY <1>8, <4>2
      <4>3. CASE u = t /\ i # Len(creating[t]) + 1
        <5>1. i \in 1 .. Len(creating[t])
          BY <1>8, <4>3
        <5> QED BY <1>8, <4>3, <5>1
      <4> QED BY <4>1, <4>2, <4>3
    <3>2. \A u, v \in Birth!Threads : \A i \in DOMAIN creating[u], j \in DOMAIN creating[v] :
            creating[u][i] = creating[v][j] => u = v /\ i = j
      BY <1>1 DEF Created
    <3> QED BY <1>9, <3>1, <3>2
  <2> QED BY <2>1, <2>2 DEF Created
<1>14. Registered'
  <2>1. \A r \in Birth!Services : stage[r] \in {"load", "ready"} => stage'[r] = stage[r] /\ service_id_'[r] = service_id_[r]
    BY <1>2, <1>6
  <2> QED BY <1>1, <1>3, <2>1 DEF Registered
<1>15. Counted'
  <2> SUFFICES ASSUME ~raced'
               PROVE  /\ \A q, r \in Birth!Services : stage'[q] = "number" /\ stage'[r] = "number" => q = r
                      /\ \A r \in Birth!Services :
                           /\ stage'[r] = "number" => service_id_'[r] = max_service_id
                           /\ stage'[r] \in {"load", "ready"} => service_id_'[r] < max_service_id
    BY <1>3 DEF Counted
  <2>1. ~raced /\ \A r \in Birth!Services : stage[r] # "number"
    BY <1>2
  <2> QED BY <1>1, <1>6, <2>1 DEF Counted
<1>16. Birth!OwnNumber'
  <2> SUFFICES ASSUME ~raced'
               PROVE  /\ \A q, r \in Birth!Services :
                           stage'[q] # "none" /\ stage'[r] # "none" /\ service_id_'[q] = service_id_'[r] => q = r
                      /\ \A r \in Birth!Services : stage'[r] = "ready" => service_vector_[service_id_'[r]] = r
    BY <1>3 DEF Birth!OwnNumber
  <2>1. ~raced /\ \A r \in Birth!Services : stage[r] # "number"
    BY <1>2
  <2>2. \A r \in Birth!Services : stage[r] # "none" => service_id_[r] < max_service_id
    BY <1>1, <2>1 DEF Counted
  <2>3. /\ \A q, r \in Birth!Services :
            stage[q] # "none" /\ stage[r] # "none" /\ service_id_[q] = service_id_[r] => q = r
        /\ \A r \in Birth!Services : stage[r] = "ready" => service_vector_[service_id_[r]] = r
    BY <1>1, <2>1 DEF Birth!OwnNumber
  <2>4. \A r \in Birth!Services : r # s /\ stage'[r] # "none" => service_id_'[r] # service_id_'[s]
    BY <1>1, <1>6, <2>2
  <2> QED BY <1>6, <2>3, <2>4
<1>17. Birth!StartIsDue'
  BY <1>1, <1>2, <1>3 DEF Birth!StartIsDue
<1> QED BY <1>11, <1>12, <1>13, <1>14, <1>15, <1>16, <1>17 DEF BirthInv

\* The number is drawn, and the script is going to be loaded.
LEMMA CountKeeps ==
  ASSUME Birth!ServiceStartAssumption, BirthInv, NEW t \in Birth!Threads, Birth!Count(t)
  PROVE  BirthInv'
<1>1. /\ Birth!TypeOK /\ InTurn /\ Created /\ Registered /\ Counted /\ Birth!OwnNumber /\ Birth!StartIsDue
  BY DEF BirthInv
<1> USE BirthTypes
<1> DEFINE s == Birth!Inner(t)
<1>2. /\ s # Birth!Null /\ stage[s] = "number"
      /\ max_service_id' = service_id_[s] + 1
      /\ stage' = [stage EXCEPT ![s] = "load"]
      /\ UNCHANGED <<service_vector_, service_id_, creating, handling, cb_context_, proto, timer,
                     begun, mail, posts, halted, raced, missed, unheard>>
  BY DEF Birth!Count, Birth!scriptVars, Birth!messageVars, Birth!history
<1>3. /\ creating[t] # <<>> /\ s = Birth!Last(creating[t])
  BY <1>2 DEF Birth!Inner
<1>4. s \in Birth!Services
  BY <1>1, <1>3, Fronted
<1> HIDE DEF s
<1>5. /\ \A r \in Birth!Services : r # s => stage'[r] = stage[r]
      /\ stage'[s] = "load"
  BY <1>1, <1>2, <1>4
<1>6. service_id_[s] \in Nat /\ service_id_[s] < s /\ service_id_[s] \in Birth!Numbers
      /\ service_id_[s] + 1 \in Birth!Services /\ service_id_[s] + 1 <= s
  <2>1. service_id_[s] < s
    BY <1>1, <1>2, <1>4 DEF InTurn, Used
  <2> DEFINE i == service_id_[s]
  <2>2. i \in Birth!Numbers
    BY <1>1, <1>4
  <2>3. s \in 1 .. MaxServices /\ MaxServices \in Nat
    BY <1>1, <1>4 DEF Birth!Services
  <2> HIDE DEF i
  <2>4. i \in Nat /\ i + 1 \in 1 .. MaxServices
    BY <2>2, <2>3 DEF Birth!Numbers
  <2>5. i < s
    BY <2>1 DEF i
  <2>6. i + 1 <= s
    BY <2>3, <2>4, <2>5
  <2> QED BY <2>2, <2>4, <2>5, <2>6 DEF i, Birth!Services
<1>7. Birth!TypeOK'
  <2>1. stage' \in [Birth!Services -> {"none", "number", "load", "ready"}]
    BY <1>1, <1>2
  <2>2. max_service_id' \in 0 .. MaxServices
    BY <1>1, <1>2, <1>6 DEF Birth!Services
  <2> QED BY <1>1, <1>2, <2>1, <2>2 DEF Birth!TypeOK
<1>8. InTurn'
  <2>1. \A r \in Birth!Services : Used(r)' <=> Used(r)
    BY <1>2, <1>5 DEF Used
  <2>2. max_service_id' # 0 => Used(max_service_id')
    BY <1>1, <1>2, <1>4, <1>6 DEF InTurn, Used
  <2>3. \A q, r \in Birth!Services : q <= r /\ Used(r) => Used(q)
    BY <1>1 DEF InTurn
  <2>4. \A r \in Birth!Services : Used(r) => service_id_[r] < r
    BY <1>1 DEF InTurn
  <2>5. max_service_id' \in Birth!Services
    BY <1>2, <1>6
  <2> QED BY <1>2, <2>1, <2>2, <2>3, <2>4, <2>5 DEF InTurn, Used
<1>9. Created'
  <2>1. \A r : stage[r] = "load" /\ r \in Birth!Services => stage'[r] = "load"
    BY <1>2, <1>5
  <2>2. \A r \in Birth!Services : stage[r] \in {"number", "load"} => stage'[r] \in {"number", "load"}
    BY <1>5
  <2>3. \A u \in Birth!Threads : \A i \in DOMAIN creating[u] : creating[u][i] \in Birth!Services
    <3> SUFFICES ASSUME NEW u \in Birth!Threads, NEW i \in DOMAIN creating[u]
                 PROVE  creating[u][i] \in Birth!Services
      OBVIOUS
    <3>1. creating[u] \in Seq(Birth!Services)
      BY <1>1
    <3> QED BY <3>1
  <2> QED BY <1>1, <1>2, <2>1, <2>2, <2>3 DEF Created
<1>10. Registered'
  <2>1. \A r \in Birth!Services : stage[r] = "ready" => stage'[r] = "ready"
    BY <1>2, <1>5
  <2>2. \A r \in Birth!Services : stage[r] \in {"load", "ready"} => stage'[r] \in {"load", "ready"}
    BY <1>5
  <2> QED BY <1>1, <1>2, <2>1, <2>2 DEF Registered
<1>11. Counted'
  <2> SUFFICES ASSUME ~raced
               PROVE  /\ \A q, r \in Birth!Services : stage'[q] = "number" /\ stage'[r] = "number" => q = r
                      /\ \A r \in Birth!Services :
                           /\ stage'[r] = "number" => service_id_[r] = max_service_id'
                           /\ stage'[r] \in {"load", "ready"} => service_id_[r] < max_service_id'
    BY <1>2 DEF Counted
  <2>1. max_service_id' = max_service_id + 1 /\ service_id_[s] = max_service_id
        /\ max_service_id \in Nat
    BY <1>1, <1>2, <1>4 DEF Counted
  <2>2. \A r \in Birth!Services : stage'[r] # "number"
    BY <1>1, <1>2, <1>4, <1>5 DEF Counted
  <2>3. \A r \in Birth!Services : r # s /\ stage[r] \in {"load", "ready"} =>
          service_id_[r] < max_service_id /\ service_id_[r] \in Nat
    BY <1>1 DEF Counted
  <2>4. ASSUME NEW r \in Birth!Services, stage'[r] \in {"load", "ready"}
        PROVE  service_id_[r] < max_service_id'
    <3>1. CASE r = s
      BY <2>1, <3>1
    <3>2. CASE r # s
      BY <1>5, <2>1, <2>3, <2>4, <3>2
    <3> QED BY <3>1, <3>2
  <2> QED BY <2>2, <2>4
<1>12. Birth!OwnNumber'
  <2>1. \A r \in Birth!Services : stage'[r] # "none" <=> stage[r] # "none"
    BY <1>2, <1>5
  <2>2. \A r \in Birth!Services : stage'[r] = "ready" => stage[r] = "ready"
    BY <1>2, <1>5
  <2> QED BY <1>1, <1>2, <2>1, <2>2 DEF Birth!OwnNumber
<1>13. Birth!StartIsDue'
  BY <1>1, <1>2 DEF Birth!StartIsDue
<1> QED BY <1>7, <1>8, <1>9, <1>10, <1>11, <1>12, <1>13 DEF BirthInv

\* The service gets its place.
LEMMA RegisterKeeps ==
  ASSUME Birth!ServiceStartAssumption, BirthInv, NEW t \in Birth!Threads, Birth!Register(t)
  PROVE  BirthInv'
<1>1. /\ Birth!TypeOK /\ InTurn /\ Created /\ Registered /\ Counted /\ Birth!OwnNumber /\ Birth!StartIsDue
  BY DEF BirthInv
<1> USE BirthTypes
<1> DEFINE s == Birth!Inner(t)
<1>2. /\ s # Birth!Null /\ stage[s] = "load"
      /\ service_vector_' = [service_vector_ EXCEPT ![service_id_[s]] = s]
      /\ stage' = [stage EXCEPT ![s] = "ready"]
      /\ creating' = [creating EXCEPT ![t] = Birth!Front(@)]
      /\ UNCHANGED <<max_service_id, service_id_, handling, cb_context_, proto, timer,
                     begun, mail, posts, halted, raced, missed, unheard>>
  BY DEF Birth!Register, Birth!scriptVars, Birth!messageVars, Birth!history
<1>3. /\ creating[t] # <<>> /\ s = Birth!Last(creating[t]) /\ creating[t] \in Seq(Birth!Services)
  BY <1>1, <1>2 DEF Birth!Inner
<1> HIDE DEF s
<1>4. /\ Len(creating[t]) \in Nat \ {0} /\ DOMAIN creating[t] = 1 .. Len(creating[t])
      /\ s = creating[t][Len(creating[t])] /\ s \in Birth!Services
      /\ Birth!Front(creating[t]) \in Seq(Birth!Services)
      /\ DOMAIN Birth!Front(creating[t]) = 1 .. Len(creating[t]) - 1
      /\ \A i \in 1 .. Len(creating[t]) - 1 : Birth!Front(creating[t])[i] = creating[t][i]
  BY <1>3, Fronted
<1>5. /\ \A r \in Birth!Services : r # s => stage'[r] = stage[r]
      /\ stage'[s] = "ready"
      /\ service_id_[s] \in Birth!Numbers
      /\ \A n \in Birth!Numbers : n # service_id_[s] => service_vector_'[n] = service_vector_[n]
      /\ service_vector_'[service_id_[s]] = s
  BY <1>1, <1>2, <1>4
<1>6. creating'[t] = Birth!Front(creating[t]) /\ \A u \in Birth!Threads : u # t => creating'[u] = creating[u]
  BY <1>1, <1>2
<1>7. Birth!TypeOK'
  <2>1. /\ stage' \in [Birth!Services -> {"none", "number", "load", "ready"}]
        /\ service_vector_' \in [Birth!Numbers -> Birth!Services \cup {Birth!Null}]
    BY <1>1, <1>2, <1>4
  <2>2. creating' \in [Birth!Threads -> Seq(Birth!Services)]
    BY <1>1, <1>2, <1>4
  <2> QED BY <1>1, <1>2, <2>1, <2>2 DEF Birth!TypeOK
<1>8. InTurn'
  <2>1. \A r \in Birth!Services : Used(r)' <=> Used(r)
    BY <1>2, <1>5 DEF Used
  <2>2. max_service_id # 0 => max_service_id \in Birth!Services
    BY <1>1 DEF Birth!Services
  <2> QED BY <1>1, <1>2, <2>1, <2>2 DEF InTurn, Used
<1>9. \A u \in Birth!Threads : \A i \in DOMAIN creating'[u] :
         /\ i \in DOMAIN creating[u] /\ creating'[u][i] = creating[u][i]
         /\ creating[u][i] \in Birth!Services /\ creating[u][i] # s
         /\ stage[creating[u][i]] \in {"number", "load"}
  <2> SUFFICES ASSUME NEW u \in Birth!Threads, NEW i \in DOMAIN creating'[u]
               PROVE  /\ i \in DOMAIN creating[u] /\ creating'[u][i] = creating[u][i]
                      /\ creating[u][i] \in Birth!Services /\ creating[u][i] # s
                      /\ stage[creating[u][i]] \in {"number", "load"}
    OBVIOUS
  <2>1. i \in DOMAIN creating[u] /\ creating'[u][i] = creating[u][i]
    <3>1. CASE u = t
      <4>1. i \in 1 .. Len(creating[t]) - 1
        BY <1>4, <1>6, <3>1
      <4> QED BY <1>4, <1>6, <3>1, <4>1
    <3>2. CASE u # t
      BY <1>6, <3>2
    <3> QED BY <3>1, <3>2
  <2>2. creating[u] \in Seq(Birth!Services) /\ creating[u][i] \in Birth!Services
    <3>1. creating[u] \in Seq(Birth!Services)
      BY <1>1
    <3> QED BY <2>1, <3>1
  <2>3. creating[u][i] # s
    <3>1. ASSUME creating[u][i] = s
          PROVE  FALSE
      <4>1. Len(creating[t]) \in DOMAIN creating[t] /\ creating[u][i] = creating[t][Len(creating[t])]
        BY <1>4, <3>1
      <4>2. u = t /\ i = Len(creating[t])
        BY <1>1, <2>1, <4>1 DEF Created
      <4>3. i \in 1 .. Len(creating[t]) - 1
        BY <1>4, <1>6, <4>2
      <4> QED BY <1>4, <4>2, <4>3
    <3> QED BY <3>1
  <2>4. stage[creating[u][i]] \in {"number", "load"}
    BY <1>1, <2>1 DEF Created
  <2> QED BY <2>1, <2>2, <2>3, <2>4
<1>10. Created'
  <2>1. \A u \in Birth!Threads : \A i \in DOMAIN creating'[u] :
          stage'[creating'[u][i]] = stage[creating[u][i]]
    BY <1>5, <1>9
  <2>2. \A u \in Birth!Threads : \A i \in DOMAIN creating'[u] :
          i # Len(creating'[u]) => stage[creating[u][i]] = "load"
    <3> SUFFICES ASSUME NEW u \in Birth!Threads, NEW i \in DOMAIN creating'[u], i # Len(creating'[u])
                 PROVE  stage[creating[u][i]] = "load"
      OBVIOUS
    <3>1. i \in DOMAIN creating[u]
      BY <1>9
    <3>2. i # Len(creating[u])
      <4>1. CASE u = t
        <5>1. i \in 1 .. Len(creating[t]) - 1
          BY <1>4, <1>6, <4>1
        <5> QED BY <1>4, <4>1, <5>1
      <4>2. CASE u # t
        BY <1>6, <4>2
      <4> QED BY <4>1, <4>2
    <3> QED BY <1>1, <3>1, <3>2 DEF Created
  <2>3. \A u, v \in Birth!Threads : \A i \in DOMAIN creating[u], j \in DOMAIN creating[v] :
          creating[u][i] = creating[v][j] => u = v /\ i = j
    BY <1>1 DEF Created
  <2>4. \A u, v \in Birth!Threads : \A i \in DOMAIN creating'[u], j \in DOMAIN creating'[v] :
          creating'[u][i] = creating'[v][j] => u = v /\ i = j
    BY <1>9, <2>3
  <2> QED BY <1>9, <2>1, <2>2, <2>4 DEF Created
<1>11. Registered'
  <2>1. \A r \in Birth!Services : stage[r] = "ready" => stage'[r] = "ready"
    BY <1>2, <1>5
  <2>2. \A r \in Birth!Services : stage[r] \in {"load", "ready"} => stage'[r] \in {"load", "ready"}
    BY <1>5
  <2>3. \A n \in Birth!Numbers : service_vector_'[n] # Birth!Null =>
          stage'[service_vector_'[n]] = "ready" /\ service_id_[service_vector_'[n]] = n
    <3> SUFFICES ASSUME NEW n \in Birth!Numbers, service_vector_'[n] # Birth!Null
                 PROVE  stage'[service_vector_'[n]] = "ready" /\ service_id_[service_vector_'[n]] = n
      OBVIOUS
    <3>1. CASE n = service_id_[s]
      BY <1>5, <3>1
    <3>2. CASE n # service_id_[s]
      <4>1. service_vector_'[n] = service_vector_[n] /\ service_vector_[n] \in Birth!Services
        BY <1>1, <1>5, <3>2
      <4> QED BY <1>1, <2>1, <4>1 DEF Registered
    <3> QED BY <3>1, <3>2
  <2>4. \A r \in Birth!Services : mail[r] # <<>> => stage'[r] = "ready"
    BY <1>1, <2>1 DEF Registered
  <2>5. \A w \in Workers : handling[w] # Birth!Null => stage'[handling[w]] = "ready"
    BY <1>1, <2>1 DEF Registered
  <2>6. \A r \in timer : stage'[r] \in {"load", "ready"}
    BY <1>1, <2>2 DEF Registered
  <2> QED BY <1>2, <2>3, <2>4, <2>5, <2>6 DEF Registered
<1>12. Counted'
  BY <1>1, <1>2, <1>4, <1>5 DEF Counted
<1>13. Birth!OwnNumber'
  <2> SUFFICES ASSUME ~raced
               PROVE  /\ \A q, r \in Birth!Services :
                           stage'[q] # "none" /\ stage'[r] # "none" /\ service_id_[q] = service_id_[r] => q = r
                      /\ \A r \in Birth!Services : stage'[r] = "ready" => service_vector_'[service_id_[r]] = r
    BY <1>2 DEF Birth!OwnNumber
  <2>1. \A r \in Birth!Services : stage'[r] # "none" <=> stage[r] # "none"
    BY <1>2, <1>5
  <2>2. \A q, r \in Birth!Services :
          stage[q] # "none" /\ stage[r] # "none" /\ service_id_[q] = service_id_[r] => q = r
    BY <1>1 DEF Birth!OwnNumber
  <2>3. ASSUME NEW r \in Birth!Services, stage'[r] = "ready"
        PROVE  service_vector_'[service_id_[r]] = r
    <3>1. CASE r = s
      BY <1>5, <3>1
    <3>2. CASE r # s
      <4>1. stage[r] = "ready" /\ service_id_[r] # service_id_[s] /\ service_id_[r] \in Birth!Numbers
        BY <1>1, <1>2, <1>4, <1>5, <2>2, <2>3, <3>2
      <4>2. service_vector_[service_id_[r]] = r
        BY <1>1, <4>1 DEF Birth!OwnNumber
      <4> QED BY <1>5, <4>1, <4>2
    <3> QED BY <3>1, <3>2
  <2> QED BY <2>1, <2>2, <2>3
<1>14. Birth!StartIsDue'
  BY <1>1, <1>2 DEF Birth!StartIsDue
<1> QED BY <1>7, <1>8, <1>10, <1>11, <1>12, <1>13, <1>14 DEF BirthInv

\* What neither creates nor counts services leaves most of it as it is.
LEMMA OthersKeep ==
  ASSUME BirthInv, UNCHANGED <<Birth!numberVars, stage, creating, raced>>
  PROVE  InTurn' /\ Created' /\ Counted' /\ Birth!OwnNumber'
<1>1. UNCHANGED <<max_service_id, service_vector_, service_id_, stage, creating, raced>>
  BY DEF Birth!numberVars
<1> QED BY <1>1 DEF BirthInv, InTurn, Used, Created, Counted, Birth!OwnNumber

\* A script calls onbnet.start.
LEMMA StartKeeps ==
  ASSUME Birth!ServiceStartAssumption, BirthInv, NEW t \in Birth!Threads,
         NEW s \in Birth!Services, Birth!Start(t, s)
  PROVE  BirthInv'
<1>1. /\ Birth!TypeOK /\ Registered /\ Birth!StartIsDue
  BY DEF BirthInv
<1>2. /\ stage[s] = "load"
      /\ cb_context_' = cb_context_ \cup {s} /\ timer' = timer \cup {s}
      /\ UNCHANGED <<Birth!numberVars, stage, creating, handling, proto, begun, mail, posts, halted,
                     raced, missed, unheard>>
  BY DEF Birth!Start, Birth!threadVars, Birth!messageVars, Birth!history
<1>3. InTurn' /\ Created' /\ Counted' /\ Birth!OwnNumber'
  BY <1>2, OthersKeep
<1>4. Birth!TypeOK'
  BY <1>1, <1>2 DEF Birth!TypeOK, Birth!numberVars
<1>5. Registered'
  BY <1>1, <1>2 DEF Registered, Birth!numberVars
<1>6. Birth!StartIsDue'
  BY <1>1, <1>2 DEF Birth!StartIsDue
<1> QED BY <1>3, <1>4, <1>5, <1>6 DEF BirthInv

\* A script calls onbnet.dispatch.
LEMMA SetDispatchKeeps ==
  ASSUME Birth!ServiceStartAssumption, BirthInv, NEW t \in Birth!Threads,
         NEW s \in Birth!Services, Birth!SetDispatch(t, s)
  PROVE  BirthInv'
<1>1. /\ Birth!TypeOK /\ Registered /\ Birth!StartIsDue
  BY DEF BirthInv
<1>2. /\ proto' = proto \cup {s}
      /\ UNCHANGED <<Birth!numberVars, stage, creating, handling, cb_context_, timer, begun, mail, posts,
                     halted, raced, missed, unheard>>
  BY DEF Birth!SetDispatch, Birth!threadVars, Birth!messageVars, Birth!history
<1>3. InTurn' /\ Created' /\ Counted' /\ Birth!OwnNumber'
  BY <1>2, OthersKeep
<1>4. Birth!TypeOK'
  BY <1>1, <1>2 DEF Birth!TypeOK, Birth!numberVars
<1>5. Registered'
  BY <1>1, <1>2 DEF Registered, Birth!numberVars
<1>6. Birth!StartIsDue'
  BY <1>1, <1>2 DEF Birth!StartIsDue
<1> QED BY <1>3, <1>4, <1>5, <1>6 DEF BirthInv

\* A message comes to a service that is there.
LEMMA DeliverKeeps ==
  ASSUME Birth!ServiceStartAssumption, Birth!TypeOK, Registered, NEW n \in Birth!Numbers,
         NEW m \in Birth!Messages,
         Birth!Deliver(n, m)
  PROVE  /\ service_vector_[n] \in Birth!Services /\ stage[service_vector_[n]] = "ready"
         /\ service_id_[service_vector_[n]] = n
         /\ mail' \in [Birth!Services -> Seq(Birth!Messages)]
         /\ \A r \in Birth!Services : mail'[r] # <<>> => stage[r] = "ready"
         /\ \A r \in Birth!Services : \A x \in Birth!Range(mail[r]) : x \in Birth!Range(mail'[r])
         /\ m \in Birth!Range(mail'[service_vector_[n]])
<1> USE BirthTypes
<1> DEFINE s == service_vector_[n]
<1>1. s \in Birth!Services /\ stage[s] = "ready" /\ service_id_[s] = n
  BY DEF Birth!Deliver, Registered
<1>2. mail' = [mail EXCEPT ![s] = Append(@, m)]
  BY DEF Birth!Deliver
<1> HIDE DEF s
<1>3. mail[s] \in Seq(Birth!Messages) /\ mail'[s] = Append(mail[s], m)
      /\ \A r \in Birth!Services : r # s => mail'[r] = mail[r]
  BY <1>1, <1>2
<1>4. /\ Append(mail[s], m) \in Seq(Birth!Messages) /\ m \in Birth!Range(Append(mail[s], m))
      /\ \A x \in Birth!Range(mail[s]) : x \in Birth!Range(Append(mail[s], m))
  BY <1>3, Longer
<1>5. mail' \in [Birth!Services -> Seq(Birth!Messages)]
  BY <1>2, <1>4
<1>6. \A r \in Birth!Services : mail'[r] # <<>> => stage[r] = "ready"
  BY <1>1, <1>3 DEF Registered
<1>7. \A r \in Birth!Services : \A x \in Birth!Range(mail[r]) : x \in Birth!Range(mail'[r])
  BY <1>3, <1>4
<1>8. m \in Birth!Range(mail'[s])
  BY <1>3, <1>4
<1> QED BY <1>1, <1>5, <1>6, <1>7, <1>8 DEF s

\* A script or the watcher of the files posts a message.
LEMMA PostKeeps ==
  ASSUME Birth!ServiceStartAssumption, BirthInv, NEW n \in Birth!Numbers,
         NEW m \in Birth!Messages, Birth!Post(n, m)
  PROVE  BirthInv'
<1>1. /\ Birth!TypeOK /\ Registered /\ Birth!StartIsDue
  BY DEF BirthInv
<1>2. /\ Birth!Deliver(n, m) /\ posts < MaxPosts /\ posts' = posts + 1
      /\ UNCHANGED <<Birth!numberVars, stage, creating, handling, cb_context_, proto, timer, begun,
                     halted, raced, missed, unheard>>
  BY DEF Birth!Post, Birth!threadVars, Birth!scriptVars, Birth!history
<1>3. InTurn' /\ Created' /\ Counted' /\ Birth!OwnNumber'
  BY <1>2, OthersKeep
<1>4. /\ mail' \in [Birth!Services -> Seq(Birth!Messages)]
      /\ \A r \in Birth!Services : mail'[r] # <<>> => stage[r] = "ready"
      /\ \A r \in Birth!Services : \A x \in Birth!Range(mail[r]) : x \in Birth!Range(mail'[r])
  BY <1>1, <1>2, DeliverKeeps
<1>5. posts' \in 0 .. MaxPosts
  BY <1>1, <1>2, BirthTypes
<1>6. Birth!TypeOK'
  BY <1>1, <1>2, <1>4, <1>5 DEF Birth!TypeOK, Birth!numberVars
<1>7. Registered'
  BY <1>1, <1>2, <1>4 DEF Registered, Birth!numberVars
<1>8. Birth!StartIsDue'
  <2>1. cb_context_ \subseteq Birth!Services
    BY <1>1, BirthTypes
  <2> QED BY <1>1, <1>2, <1>4, <2>1 DEF Birth!StartIsDue
<1> QED BY <1>3, <1>6, <1>7, <1>8 DEF BirthInv

\* The start timer finds its service, or none.
LEMMA TimerKeeps ==
  ASSUME Birth!ServiceStartAssumption, BirthInv, NEW s \in Birth!Services, Birth!TimerFires(s)
  PROVE  BirthInv'
<1>1. /\ Birth!TypeOK /\ Registered /\ Birth!StartIsDue /\ Birth!OwnNumber
  BY DEF BirthInv
<1> USE BirthTypes
<1>2. /\ s \in timer /\ timer' = timer \ {s}
      /\ \/ Birth!Deliver(service_id_[s], "start") /\ missed' = missed
         \/ missed' = missed \cup {s} /\ mail' = mail
      /\ UNCHANGED <<Birth!numberVars, stage, creating, handling, cb_context_, proto, begun, posts,
                     halted, raced, unheard>>
  BY DEF Birth!TimerFires, Birth!threadVars
<1>3. InTurn' /\ Created' /\ Counted' /\ Birth!OwnNumber'
  BY <1>2, OthersKeep
<1>4. service_id_[s] \in Birth!Numbers /\ "start" \in Birth!Messages
  BY <1>1 DEF Birth!Messages
<1>5. cb_context_ \subseteq Birth!Services /\ timer' \subseteq Birth!Services
  BY <1>1, <1>2
<1>6. CASE Birth!Deliver(service_id_[s], "start") /\ missed' = missed
  <2> DEFINE r == service_vector_[service_id_[s]]
  <2>1. /\ r \in Birth!Services /\ stage[r] = "ready" /\ service_id_[r] = service_id_[s]
        /\ mail' \in [Birth!Services -> Seq(Birth!Messages)]
        /\ \A q \in Birth!Services : mail'[q] # <<>> => stage[q] = "ready"
        /\ \A q \in Birth!Services : \A x \in Birth!Range(mail[q]) : x \in Birth!Range(mail'[q])
        /\ "start" \in Birth!Range(mail'[r])
    BY <1>1, <1>4, <1>6, DeliverKeeps
  <2> HIDE DEF r
  <2>2. Birth!TypeOK'
    BY <1>1, <1>2, <1>5, <1>6, <2>1 DEF Birth!TypeOK, Birth!numberVars
  <2>3. Registered'
    BY <1>1, <1>2, <2>1 DEF Registered, Birth!numberVars
  <2>4. Birth!StartIsDue'
    <3> SUFFICES ASSUME ~raced, NEW q \in cb_context_ \ (begun \cup missed)
                 PROVE  q \in timer' \/ "start" \in Birth!Range(mail'[q])
      BY <1>2, <1>6 DEF Birth!StartIsDue
    <3>1. q \in timer \/ "start" \in Birth!Range(mail[q])
      BY <1>1 DEF Birth!StartIsDue
    <3>2. CASE q = s
      <4>1. stage[s] # "none" /\ stage[r] # "none"
        BY <1>1, <1>2, <2>1 DEF Registered
      <4>2. r = s
        BY <1>1, <2>1, <4>1 DEF Birth!OwnNumber
      <4> QED BY <2>1, <3>2, <4>2
    <3>3. CASE q # s
      BY <1>2, <1>5, <2>1, <3>1, <3>3
    <3> QED BY <3>2, <3>3
  <2> QED BY <1>3, <2>2, <2>3, <2>4 DEF BirthInv
<1>7. CASE missed' = missed \cup {s} /\ mail' = mail
  <2>1. Birth!TypeOK'
    BY <1>1, <1>2, <1>5, <1>7 DEF Birth!TypeOK, Birth!numberVars
  <2>2. Registered'
    BY <1>1, <1>2, <1>7 DEF Registered, Birth!numberVars
  <2>3. Birth!StartIsDue'
    BY <1>1, <1>2, <1>7 DEF Birth!StartIsDue
  <2> QED BY <1>3, <2>1, <2>2, <2>3 DEF BirthInv
<1> QED BY <1>2, <1>6, <1>7

\* A worker takes the next message of a service.
LEMMA TakenKeeps ==
  ASSUME Birth!ServiceStartAssumption, Birth!TypeOK, Registered, NEW w \in Workers,
         NEW s \in Birth!Services,
         NEW m \in Birth!Messages, Birth!Taken(w, s, m)
  PROVE  /\ stage[s] = "ready" /\ mail' \in [Birth!Services -> Seq(Birth!Messages)]
         /\ \A r \in Birth!Services : mail'[r] # <<>> => stage[r] = "ready"
         /\ \A r \in Birth!Services : \A x \in Birth!Range(mail[r]) :
              x \in Birth!Range(mail'[r]) \/ (r = s /\ x = m)
<1> USE BirthTypes
<1>1. mail[s] # <<>> /\ Head(mail[s]) = m /\ mail' = [mail EXCEPT ![s] = Tail(@)]
  BY DEF Birth!Taken
<1>2. stage[s] = "ready"
  BY <1>1 DEF Registered
<1>3. mail[s] \in Seq(Birth!Messages) /\ mail'[s] = Tail(mail[s])
      /\ \A r \in Birth!Services : r # s => mail'[r] = mail[r]
  BY <1>1
<1>4. /\ Tail(mail[s]) \in Seq(Birth!Messages)
      /\ \A x \in Birth!Range(mail[s]) : x # m => x \in Birth!Range(Tail(mail[s]))
  BY <1>1, <1>3, Shorter
<1>5. mail' \in [Birth!Services -> Seq(Birth!Messages)]
  BY <1>1, <1>4
<1>6. \A r \in Birth!Services : mail'[r] # <<>> => stage[r] = "ready"
  BY <1>2, <1>3 DEF Registered
<1>7. \A r \in Birth!Services : \A x \in Birth!Range(mail[r]) : x \in Birth!Range(mail'[r]) \/ (r = s /\ x = m)
  BY <1>3, <1>4
<1> QED BY <1>2, <1>5, <1>6, <1>7

\* A worker finds no callback.
LEMMA CrashKeeps ==
  ASSUME Birth!ServiceStartAssumption, BirthInv, NEW w \in Workers, NEW s \in Birth!Services,
         Birth!Crash(w, s)
  PROVE  BirthInv'
<1>1. /\ Birth!TypeOK /\ Registered /\ Birth!StartIsDue
  BY DEF BirthInv
<1>2. PICK m \in Birth!Messages : Birth!Taken(w, s, m)
  BY DEF Birth!Crash
<1>3. /\ s \notin cb_context_ /\ halted' = TRUE
      /\ UNCHANGED <<Birth!numberVars, stage, creating, handling, cb_context_, proto, timer, begun, posts,
                     raced, missed, unheard>>
  BY DEF Birth!Crash, Birth!threadVars, Birth!scriptVars, Birth!history
<1>4. InTurn' /\ Created' /\ Counted' /\ Birth!OwnNumber'
  BY <1>3, OthersKeep
<1>5. /\ mail' \in [Birth!Services -> Seq(Birth!Messages)]
      /\ \A r \in Birth!Services : mail'[r] # <<>> => stage[r] = "ready"
      /\ \A r \in Birth!Services : \A x \in Birth!Range(mail[r]) : x \in Birth!Range(mail'[r]) \/ (r = s /\ x = m)
  BY <1>1, <1>2, TakenKeeps
<1>6. Birth!TypeOK'
  BY <1>1, <1>3, <1>5 DEF Birth!TypeOK, Birth!numberVars
<1>7. Registered'
  BY <1>1, <1>3, <1>5 DEF Registered, Birth!numberVars
<1>8. Birth!StartIsDue'
  <2>1. cb_context_ \subseteq Birth!Services
    BY <1>1, BirthTypes
  <2> QED BY <1>1, <1>3, <1>5, <2>1 DEF Birth!StartIsDue
<1> QED BY <1>4, <1>6, <1>7, <1>8 DEF BirthInv

\* A worker handles a message.
LEMMA HandleKeeps ==
  ASSUME Birth!ServiceStartAssumption, BirthInv, NEW w \in Workers, NEW s \in Birth!Services,
         NEW m \in Birth!Messages,
         Birth!Handle(w, s, m)
  PROVE  BirthInv'
<1>1. /\ Birth!TypeOK /\ Registered /\ Birth!StartIsDue
  BY DEF BirthInv
<1> USE BirthTypes
<1>2. /\ Birth!Taken(w, s, m) /\ handling' = [handling EXCEPT ![w] = s]
      /\ begun' = IF m = "start" THEN begun \cup {s} ELSE begun
      /\ unheard' = IF m = "request" /\ s \notin proto THEN unheard \cup {s} ELSE unheard
      /\ UNCHANGED <<Birth!numberVars, stage, creating, cb_context_, proto, timer, posts, halted, raced,
                     missed>>
  BY DEF Birth!Handle
<1>3. InTurn' /\ Created' /\ Counted' /\ Birth!OwnNumber'
  BY <1>2, OthersKeep
<1>4. /\ stage[s] = "ready" /\ mail' \in [Birth!Services -> Seq(Birth!Messages)]
      /\ \A r \in Birth!Services : mail'[r] # <<>> => stage[r] = "ready"
      /\ \A r \in Birth!Services : \A x \in Birth!Range(mail[r]) : x \in Birth!Range(mail'[r]) \/ (r = s /\ x = m)
  BY <1>1, <1>2, TakenKeeps
<1>5. handling' \in [Workers -> Birth!Services \cup {Birth!Null}]
  BY <1>1, <1>2
<1>6. begun' \subseteq Birth!Services /\ unheard' \subseteq Birth!Services /\ begun \subseteq begun'
  BY <1>1, <1>2
<1>7. Birth!TypeOK'
  BY <1>1, <1>2, <1>4, <1>5, <1>6 DEF Birth!TypeOK, Birth!numberVars
<1>8. \A u \in Workers : handling'[u] # Birth!Null => stage[handling'[u]] = "ready"
  BY <1>1, <1>2, <1>4 DEF Registered
<1>9. Registered'
  BY <1>1, <1>2, <1>4, <1>8 DEF Registered, Birth!numberVars
<1>10. Birth!StartIsDue'
  <2> SUFFICES ASSUME ~raced, NEW q \in cb_context_ \ (begun' \cup missed)
               PROVE  q \in timer \/ "start" \in Birth!Range(mail'[q])
    BY <1>2 DEF Birth!StartIsDue
  <2>1. q \in Birth!Services /\ (q \in timer \/ "start" \in Birth!Range(mail[q]))
    BY <1>1, <1>6 DEF Birth!StartIsDue
  <2>2. q = s => m # "start"
    BY <1>2
  <2> QED BY <1>4, <2>1, <2>2
<1> QED BY <1>3, <1>7, <1>9, <1>10 DEF BirthInv

\* A handler is over.
LEMMA ReturnKeeps ==
  ASSUME Birth!ServiceStartAssumption, BirthInv, NEW w \in Workers, Birth!Return(w)
  PROVE  BirthInv'
<1>1. /\ Birth!TypeOK /\ Registered /\ Birth!StartIsDue
  BY DEF BirthInv
<1> USE BirthTypes
<1>2. /\ handling' = [handling EXCEPT ![w] = Birth!Null]
      /\ UNCHANGED <<Birth!numberVars, stage, creating, cb_context_, proto, timer, begun, mail, posts,
                     halted, raced, missed, unheard>>
  BY DEF Birth!Return, Birth!scriptVars, Birth!messageVars, Birth!history
<1>3. InTurn' /\ Created' /\ Counted' /\ Birth!OwnNumber'
  BY <1>2, OthersKeep
<1>4. handling' \in [Workers -> Birth!Services \cup {Birth!Null}]
  BY <1>1, <1>2
<1>5. Birth!TypeOK'
  BY <1>1, <1>2, <1>4 DEF Birth!TypeOK, Birth!numberVars
<1>6. \A u \in Workers : handling'[u] # Birth!Null => stage[handling'[u]] = "ready"
  BY <1>1, <1>2 DEF Registered
<1>7. Registered'
  BY <1>1, <1>2, <1>6 DEF Registered, Birth!numberVars
<1>8. Birth!StartIsDue'
  BY <1>1, <1>2 DEF Birth!StartIsDue
<1> QED BY <1>3, <1>5, <1>7, <1>8 DEF BirthInv

\* Every step keeps the invariant.
LEMMA BirthStep == Birth!ServiceStartAssumption /\ BirthInv /\ [Birth!Next]_(Birth!vars) => BirthInv'
<1> SUFFICES ASSUME Birth!ServiceStartAssumption, BirthInv, [Birth!Next]_(Birth!vars)
             PROVE  BirthInv'
  OBVIOUS
<1>1. CASE \E t \in Birth!Threads, s \in Birth!Services : Birth!New(t, s)
  BY <1>1, NewKeeps
<1>2. CASE \E t \in Birth!Threads, s \in Birth!Services : Birth!Start(t, s)
  BY <1>2, StartKeeps
<1>3. CASE \E t \in Birth!Threads, s \in Birth!Services : Birth!SetDispatch(t, s)
  BY <1>3, SetDispatchKeeps
<1>4. CASE \E t \in Birth!Threads : Birth!Creation(t)
  BY <1>4, CountKeeps, RegisterKeeps DEF Birth!Creation
<1>5. CASE \E n \in Birth!Numbers, m \in {"request", "hotfix"} : Birth!Post(n, m)
  BY <1>5, PostKeeps DEF Birth!Messages
<1>6. CASE \E s \in Birth!Services : Birth!TimerFires(s)
  BY <1>6, TimerKeeps
<1>7. CASE \E w \in Workers : Birth!Work(w)
  BY <1>7, CrashKeeps, HandleKeeps, ReturnKeeps DEF Birth!Work
<1>8. CASE UNCHANGED Birth!vars
  <2>1. UNCHANGED <<Birth!numberVars, stage, creating, handling, cb_context_, proto, timer, begun, mail,
                    posts, halted, raced, missed, unheard>>
    BY <1>8 DEF Birth!vars, Birth!threadVars, Birth!scriptVars, Birth!messageVars, Birth!history
  <2>2. InTurn' /\ Created' /\ Counted' /\ Birth!OwnNumber'
    BY <2>1, OthersKeep
  <2>3. Birth!TypeOK' /\ Registered' /\ Birth!StartIsDue'
    BY <2>1 DEF BirthInv, Birth!TypeOK, Registered, Birth!StartIsDue, Birth!numberVars
  <2> QED BY <2>2, <2>3 DEF BirthInv
<1> QED BY <1>1, <1>2, <1>3, <1>4, <1>5, <1>6, <1>7, <1>8 DEF Birth!Next

\* Every state has the invariant.
LEMMA BirthInvariance ==
  ASSUME Birth!ServiceStartAssumption
  PROVE  Birth!Spec => []BirthInv
<1>1. Birth!Init => BirthInv
  BY BirthInit
<1>2. BirthInv /\ [Birth!Next]_(Birth!vars) => BirthInv'
  BY BirthStep
<1> QED BY <1>1, <1>2, PTL DEF Birth!Spec

\* No worker runs a service whose script is being loaded.
LEMMA InvOneThread == Birth!ServiceStartAssumption /\ BirthInv => Birth!OneThreadPerState
<1> SUFFICES ASSUME Birth!ServiceStartAssumption, BirthInv, NEW t \in Birth!Threads,
                    NEW w \in Workers,
                    handling[w] \in Birth!Range(creating[t])
             PROVE  FALSE
  BY DEF Birth!OneThreadPerState
<1>1. creating[t] \in Seq(Birth!Services) /\ Birth!Null \notin Birth!Services
  BY BirthTypes DEF BirthInv
<1>2. PICK i \in DOMAIN creating[t] : creating[t][i] = handling[w]
  BY DEF Birth!Range
<1>3. handling[w] \in Birth!Services
  BY <1>1, <1>2
<1>4. stage[handling[w]] = "ready"
  BY <1>1, <1>3 DEF BirthInv, Registered
<1>5. stage[handling[w]] \in {"number", "load"}
  BY <1>2 DEF BirthInv, Created
<1> QED BY <1>4, <1>5

-----------------------------------------------------------------------------
(* The composition.                                                        *)

\* A behaviour is one of the queue.
LEMMA QueueBehaves == Spec => Queue!Spec
<1>1. Init => Queue!Init
  BY DEF Init
<1>2. [Next]_vars => [Queue!Next]_(Queue!vars)
  <2> SUFFICES ASSUME [Next]_vars
               PROVE  Queue!Next \/ UNCHANGED Queue!vars
    OBVIOUS
  <2>1. Queue!Next \/ UNCHANGED queueVars
    BY DEF Next, vars, Sharing, Writing, Queueing, Starting
  <2> QED BY <2>1 DEF queueVars, Queue!vars
<1> QED BY <1>1, <1>2, PTL DEF Spec, Queue!Spec

\* A behaviour is one of the write buffer.
LEMMA WriteBehaves == Spec => Write!Spec
<1>1. Init => Write!Init
  BY DEF Init
<1>2. [Next]_vars => [Write!Next]_(Write!vars)
  <2> SUFFICES ASSUME [Next]_vars
               PROVE  Write!Next \/ UNCHANGED Write!vars
    OBVIOUS
  <2>1. Write!Next \/ UNCHANGED writeVars
    BY DEF Next, vars, Sharing, Writing, Queueing, Starting
  <2> QED BY <2>1 DEF writeVars, Write!vars, Write!bufferVars, Write!kernelVars, Write!epollVars
<1> QED BY <1>1, <1>2, PTL DEF Spec, Write!Spec

\* A behaviour is one of the channel.
LEMMA ChannelBehaves == Spec => Channel!Spec
<1>1. Init => Channel!Init
  BY DEF Init
<1>2. [Next]_vars => [Channel!Next]_(Channel!vars)
  <2> SUFFICES ASSUME [Next]_vars
               PROVE  Channel!Next \/ UNCHANGED Channel!vars
    OBVIOUS
  <2>1. Channel!Next \/ UNCHANGED channelVars
    BY DEF Next, vars, Sharing, Writing, Queueing, Starting
  <2> QED BY <2>1 DEF channelVars, Channel!vars, Channel!channelVars, Channel!callerVars,
                      Channel!readerVars, Channel!socketVars, Channel!counts
<1> QED BY <1>1, <1>2, PTL DEF Spec, Channel!Spec

\* A behaviour is one of the services that are created.
LEMMA BirthBehaves == Spec => Birth!Spec
<1>1. Init => Birth!Init
  BY DEF Init
<1>2. [Next]_vars => [Birth!Next]_(Birth!vars)
  <2> SUFFICES ASSUME [Next]_vars
               PROVE  Birth!Next \/ UNCHANGED Birth!vars
    OBVIOUS
  <2>1. Birth!Next \/ UNCHANGED startVars
    BY DEF Next, vars, Sharing, Writing, Queueing, Starting
  <2> QED BY <2>1 DEF startVars, Birth!vars, Birth!numberVars, Birth!threadVars, Birth!scriptVars,
                      Birth!messageVars, Birth!history
<1> QED BY <1>1, <1>2, PTL DEF Spec, Birth!Spec

\* Every variable keeps its type, under the conditions of the parts: nobody closes a
\* channel before its dispatch coroutine has started, no service uses both calls.
THEOREM TypeCorrect ==
  ASSUME ~EarlyClose, {"send", "async_send"} \notin Calls
  PROVE  Spec => []TypeOK
<1> DEFINE Kind == kind \in {"channel", "write", "queue", "start"}
<1>1. /\ Channel!SocketChannelAssumption /\ Queue!QueueLocksAssumption
      /\ Write!SocketWriteAssumption /\ OneCall /\ Birth!ServiceStartAssumption
  BY MCSharedAssumption DEF OneCall
<1>2. Init => Kind
  BY DEF Init
<1>3. Kind /\ [Next]_vars => Kind'
  BY DEF Next, Sharing, Writing, Queueing, Starting, vars
<1>4. Spec => []Kind
  BY <1>2, <1>3, PTL DEF Spec
<1>5. Spec => []Channel!TypeOK
  BY <1>1, ChannelBehaves, Channel!TypeCorrect
<1>6. Spec => []Write!TypeOK
  BY <1>1, WriteBehaves, WriteTypes
<1>7. Spec => []Queue!TypeOK
  BY <1>1, QueueBehaves, Queue!TypeCorrect
<1>8. Spec => []Birth!TypeOK
  <2>1. BirthInv => Birth!TypeOK
    BY DEF BirthInv
  <2>2. Spec => []BirthInv
    BY <1>1, BirthBehaves, BirthInvariance
  <2> QED BY <2>1, <2>2, PTL
<1>9. Kind /\ Channel!TypeOK /\ Write!TypeOK /\ Queue!TypeOK /\ Birth!TypeOK => TypeOK
  BY DEF TypeOK
<1> QED BY <1>4, <1>5, <1>6, <1>7, <1>8, <1>9, PTL

\* Who takes a result from the channel takes the answer to its own request, and is resumed
\* only when it is there (socketchannel.lua), if nobody closes the channel before its
\* dispatch coroutine has started.
THEOREM OwnAnswers ==
  ASSUME ~EarlyClose
  PROVE  Spec => []OwnAnswer
<1>1. Spec => [](Channel!AnswerMatches /\ Channel!WokenHasResult)
  BY MCSharedAssumption, ChannelBehaves, Channel!ResultsAreAnswers
<1>2. Channel!AnswerMatches /\ Channel!WokenHasResult => OwnAnswer
  BY DEF OwnAnswer
<1> QED BY <1>1, <1>2, PTL

\* Who waits for a response is known to the dispatch coroutine, and who waits for the
\* connection is in the list of one that is still making it unless a maker has ended with
\* an error or waits for itself (SocketChannel!WaiterListed), under the same condition.
THEOREM NobodyIsForgotten ==
  ASSUME ~EarlyClose
  PROVE  Spec => []NobodyForgotten
<1>1. Spec => [](Channel!NobodyForgotten /\ Channel!WaiterListed)
  BY MCSharedAssumption, ChannelBehaves, Channel!NobodyIsForgotten
<1>2. Channel!NobodyForgotten /\ Channel!WaiterListed => NobodyForgotten
  BY DEF NobodyForgotten
<1> QED BY <1>1, <1>2, PTL

\* One dispatch coroutine reads, that of the connection in use, and nobody writes while a
\* connection authenticates, under the same condition.
THEOREM ConnectionIsOwned ==
  ASSUME ~EarlyClose
  PROVE  Spec => []ConnectionOwned
<1>1. Spec => [](Channel!OneReader /\ Channel!SignalEndsItsOwn /\ Channel!AuthFirst)
  BY MCSharedAssumption, ChannelBehaves, Channel!ConnectionIsOwned
<1>2. Channel!OneReader /\ Channel!SignalEndsItsOwn /\ Channel!AuthFirst => ConnectionOwned
  BY DEF ConnectionOwned
<1> QED BY <1>1, <1>2, PTL

\* No item waits in a queue with nobody but sleepers beside it, and the consumer of a
\* service finds what Size has counted (producer_consumer_queue.h).
THEOREM Served == Spec => []QueueServed
<1>1. Queue!QueueLocksAssumption
  BY MCSharedAssumption
<1>2. Spec => []Queue!ItemHasTaker
  BY <1>1, QueueBehaves, Queue!NoLostWakeup
<1>3. Spec => []Queue!SizeIsThere
  BY <1>1, QueueBehaves, Queue!SizeHolds
<1>4. Queue!ItemHasTaker /\ Queue!SizeIsThere => QueueServed
  BY DEF QueueServed
<1> QED BY <1>2, <1>3, <1>4, PTL

\* producer_consumer_queue implements the atomic queue.
THEOREM QueueRefines == Spec => QueueIsAtomic
<1>1. Queue!QueueLocksAssumption
  BY MCSharedAssumption
<1>2. Spec => Queue!QueueIsAtomic
  BY <1>1, QueueBehaves, Queue!Refinement
<1> QED BY <1>2 DEF QueueIsAtomic

\* Where a service uses one of the two calls, its bytes leave in the order it pushed
\* them, once, all that the kernel takes, and with send at once.
THEOREM BytesDoLeave ==
  ASSUME {"send", "async_send"} \notin Calls
  PROVE  Spec => []BytesLeave
<1>1. Write!SocketWriteAssumption /\ OneCall
  BY MCSharedAssumption DEF OneCall
<1>2. Spec => []Write!LeavesInOrder
  BY <1>1, WriteBehaves, BytesInOrder
<1>3. Spec => []Write!LostOnlyIfRefused
  BY <1>1, WriteBehaves, NoByteLost
<1>4. Spec => []Write!SentAtOnce
  BY <1>1, WriteBehaves, BytesAtOnce
<1>5. Write!LeavesInOrder /\ Write!LostOnlyIfRefused /\ Write!SentAtOnce => BytesLeave
  BY DEF BytesLeave
<1> QED BY <1>2, <1>3, <1>4, <1>5, PTL

\* No worker runs a service whose script is being loaded, each service has its own number
\* if no two threads drew one at the same time, and a start function that has not run is
\* due unless its timer was faster than the script (service_manager.cc, onbnet.start), for
\* any number of workers, services and messages.
THEOREM ServicesStartSafely == Spec => []StartsSafely
<1>1. Birth!ServiceStartAssumption
  BY MCSharedAssumption
<1>2. Spec => []BirthInv
  BY <1>1, BirthBehaves, BirthInvariance
<1>3. BirthInv => StartsSafely
  BY <1>1, InvOneThread DEF BirthInv, StartsSafely
<1> QED BY <1>2, <1>3, PTL

=============================================================================
