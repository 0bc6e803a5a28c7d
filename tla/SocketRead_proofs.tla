------------------------- MODULE SocketRead_proofs -------------------------
(***************************************************************************)
(* Proofs about SocketRead, for any numbers of connections, bytes and       *)
(* hang-ups, and any size of a ::recv.                                      *)
(***************************************************************************)
EXTENDS SocketRead, WellFoundedInduction, NaturalsInduction, TLAPS

-----------------------------------------------------------------------------
(* The inductive invariant.                                                *)

\* a connection has no more bytes than were sent, and ret counts some of them
Lens ==
  /\ \A c \in Conns : Len(rx[c]) + Len(rbuffer[c]) <= sent
  /\ ret <= sent
  /\ \A c \in cur : ret + Len(rx[c]) <= sent

\* poll returns one event for a descriptor; that of the connection in recv is gone, and
\* the worker is in one place
BatchOnce ==
  /\ cur = {} \/ telling = {}
  /\ \A e, f \in batch : e.fd = f.fd => e = f
  /\ \A c \in cur, e \in batch : e.fd # c

\* READ and RDHUP are still true when they are dispatched
EventsTrue ==
  /\ \A e \in batch : e.fd \in Conns /\ "READ" \in e.ev => rx[e.fd] # <<>> \/ e.fd \in fin
  /\ \A c \in cur : ret = 0 => rx[c] # <<>> \/ c \in fin
  /\ \A e \in batch : "RDHUP" \in e.ev => e.fd \in hup

\* what epoll and the worker deal with is in the tables of both sides
Served(c) == c \in connects_ /\ c \in service_map_ /\ c \in socket_pool

OnlyServed ==
  /\ \A c \in Conns : interest[c] # {} => Served(c)
  /\ \A c \in Conns : c \in ready => interest[c] # {}
  /\ \A e \in batch : e.fd \in Conns => Served(e.fd)
  /\ \A c \in cur \cup telling : Served(c)
  /\ \A c \in cur : c \in Servers => statu_[c] = "CONNECTED"

\* no event is of a connection that nobody watches yet
Unreported == \A e \in batch : e.fd \notin Unwatched

\* what is watched of whom
Watched ==
  /\ \A c \in Clients : c \in service_map_ => c \in socket_pool
  /\ \A c \in Clients : c \in connects_ /\ c \in service_map_ => interest[c] = {"IN"}
  /\ \A s \in Servers :
       /\ statu_[s] = "CONNECTING" => interest[s] \in {{}, {"OUT"}}
       /\ statu_[s] = "CONNECTED" /\ s \in connects_ /\ s \in service_map_
            => interest[s] = {"IN"}
       /\ statu_[s] \in {"NONE", "ERROR"} => s \notin socket_pool /\ s \notin up

\* a client is still to come, in the backlog, in a CONNECT or has a record
AcceptedOnce ==
  /\ backlog \subseteq up
  /\ \A c \in Clients :
       c \in backlog \/ c \notin up => c \notin socket_pool /\ ~InMailbox(c, "CONNECT")
  /\ \A i \in DOMAIN mailbox :
       mailbox[i].type = "CONNECT" => mailbox[i].fd \in Clients /\ mailbox[i].fd \notin socket_pool
  /\ \A i, j \in DOMAIN mailbox :
       mailbox[i].type = "CONNECT" /\ mailbox[i] = mailbox[j] => i = j
  /\ \A i \in DOMAIN mailbox :
       /\ mailbox[i].type = "DATA" => mailbox[i].fd \in socket_pool
       /\ mailbox[i].type = "SERVER_CONNECT" => mailbox[i].fd \in Servers

\* who waits has a record, which says what for until he is woken
Waiters ==
  /\ WaiterIsKnown
  /\ \A c \in Conns :
       /\ waits[c] # Nothing => c \in socket_pool
       /\ read_required[c] = IF c \in co /\ waits[c] # Opening THEN waits[c] ELSE Nothing
  /\ connected \subseteq Servers \cap socket_pool
  /\ callback \subseteq Clients

\* who opens a connection is woken by SERVER_CONNECT only
Openers ==
  \A s \in Conns :
    /\ waits[s] = Opening => s \in Servers
    /\ waits[s] = Opening /\ s \in co => s \notin connected
    /\ waits[s] = Opening /\ s \in woken => s \in connected
    /\ s \in Servers /\ s \in socket_pool /\ s \notin connected => waits[s] = Opening
    /\ waits[s] = Opening /\ s \in co /\ statu_[s] = "CONNECTED"
         => InMailbox(s, "SERVER_CONNECT")

\* buffer_search has looked at nothing but what it found no separator in
Lines ==
  \A c \in Conns :
    /\ waits[c] = Line => c \in connected
    /\ c \in Servers => last_read_pos[c] = 0 \/ (c \in co /\ waits[c] = Line)
    /\ c \in co /\ waits[c] = Line =>
         /\ last_read_pos[c] <= Len(rbuffer[c])
         /\ \A i \in 1 .. last_read_pos[c] : rbuffer[c][i] # "n"
    /\ c \in woken /\ waits[c] = Line => \E i \in DOMAIN rbuffer[c] : rbuffer[c][i] = "n"

WorkerInv  == BatchOnce /\ EventsTrue /\ OnlyServed /\ Unreported
TableInv   == Watched /\ AcceptedOnce
ServiceInv == Waiters /\ Openers /\ Lines

IInv == TypeOK /\ Lens /\ WorkerInv /\ TableInv /\ ServiceInv /\ NothingUnnoticed

-----------------------------------------------------------------------------
(* The operators of the model.                                             *)

\* The least of some numbers is one of them.
LEMMA MinLeast ==
  ASSUME NEW S, S \subseteq Nat, S # {}
  PROVE  Min(S) \in S /\ \A y \in S : Min(S) <= y
<1> DEFINE R == OpToRel(<, Nat)
<1>1. PICK x \in S : \A y \in S : ~(<<y, x>> \in R)
  BY NatLessThanWellFounded, WFMin
<1>2. \A y \in S : ~(y < x)
  BY <1>1 DEF OpToRel
<1>3. \E z \in S : \A y \in S : z <= y
  BY <1>2
<1> QED BY <1>3 DEF Min

\* As buffer_remove and ::recv use it.
LEMMA MinPair ==
  ASSUME NEW a \in Nat, NEW b \in Nat
  PROVE  Min({a, b}) = IF a <= b THEN a ELSE b
  BY DEF Min

\* What a descriptor reports.
LEMMA ConditionOf ==
  ASSUME NEW c \in Conns
  PROVE  /\ Condition(c) \subseteq {"IN", "OUT", "HUP"}
         /\ "IN" \in Condition(c) <=> rx[c] # <<>> \/ c \in fin
         /\ "OUT" \in Condition(c) <=> c \in up
         /\ "HUP" \in Condition(c) <=> c \in hup
  BY SocketAssumption DEF Condition, Conns

\* The listening descriptor reports connections to accept and nothing else.
LEMMA ConditionOfListener == Condition(Listener) \subseteq {"IN"}
  BY DEF Condition

\* buffer_remove takes from the front, everything when asked for as much or more.
LEMMA TakeDoes ==
  ASSUME TypeOK, NEW c \in Conns, NEW n \in Nat, Take(c, n)
  PROVE  /\ rbuffer' \in [Conns -> Seq(Bytes)]
         /\ \A d \in Conns \ {c} : rbuffer'[d] = rbuffer[d]
         /\ \A d \in Conns : Len(rbuffer'[d]) <= Len(rbuffer[d])
         /\ n >= Len(rbuffer[c]) => rbuffer'[c] = <<>>
<1> DEFINE b == rbuffer[c]
           m == Min({n, Len(b)})
<1>1. b \in Seq(Bytes) /\ Len(b) \in Nat
  BY DEF TypeOK
<1>2. m = IF n <= Len(b) THEN n ELSE Len(b)
  BY <1>1, MinPair
<1>3. m \in Nat /\ m <= Len(b) /\ (n >= Len(b) => m = Len(b))
  BY <1>1, <1>2
<1> HIDE DEF m
<1>4. /\ SubSeq(b, m + 1, Len(b)) \in Seq(Bytes)
      /\ Len(SubSeq(b, m + 1, Len(b))) = Len(b) - m
  BY <1>1, <1>3
<1>5. rbuffer' = [rbuffer EXCEPT ![c] = SubSeq(b, m + 1, Len(b))]
  BY DEF Take, m
<1>6. n >= Len(b) => SubSeq(b, m + 1, Len(b)) = <<>>
  BY <1>1, <1>3, <1>4
<1> HIDE DEF b
<1>7. rbuffer'[c] = SubSeq(b, m + 1, Len(b))
  BY <1>5 DEF TypeOK
<1> QED BY <1>1, <1>3, <1>4, <1>5, <1>6, <1>7 DEF TypeOK, b

\* buffer_search finds a line when there is a separator it has not passed.
LEMMA LineLengthIs ==
  ASSUME TypeOK, NEW c \in Conns
  PROVE  /\ LineLength(c) \in Nat
         /\ LineLength(c) > 0
              <=> \E i \in last_read_pos[c] + 1 .. Len(rbuffer[c]) : rbuffer[c][i] = "n"
<1> DEFINE hits == {i \in last_read_pos[c] + 1 .. Len(rbuffer[c]) : rbuffer[c][i] = "n"}
<1>1. last_read_pos[c] \in Nat /\ Len(rbuffer[c]) \in Nat
  BY SocketAssumption DEF TypeOK
<1>2. hits \subseteq Nat \ {0}
  BY <1>1
<1>3. CASE hits = {}
  <2>1. LineLength(c) = 0
    BY <1>3 DEF LineLength
  <2> QED BY <1>3, <2>1
<1>4. CASE hits # {}
  <2>1. LineLength(c) = Min(hits)
    BY <1>4 DEF LineLength
  <2>2. hits \subseteq Nat
    BY <1>2
  <2> HIDE DEF hits
  <2>3. Min(hits) \in hits
    BY <1>4, <2>2, MinLeast
  <2>4. Min(hits) \in Nat /\ Min(hits) # 0
    BY <1>2, <2>3
  <2>5. \A n \in Nat : n # 0 => n > 0
    OBVIOUS
  <2> QED BY <1>4, <2>1, <2>4, <2>5 DEF hits
<1> QED BY <1>3, <1>4

\* The position buffer_search keeps, for a buffer within bounds.
LEMMA SearchMovesDoes ==
  ASSUME TypeOK, Lens, NEW c \in Conns, SearchMoves(c)
  PROVE  /\ last_read_pos' \in [Conns -> 0 .. MaxBytes - 1]
         /\ \A d \in Conns \ {c} : last_read_pos'[d] = last_read_pos[d]
         /\ LineLength(c) > 0 => last_read_pos'[c] = 0
         /\ LineLength(c) = 0 /\ last_read_pos[c] <= Len(rbuffer[c])
              => last_read_pos'[c] <= Len(rbuffer[c])
<1> DEFINE l == Len(rbuffer[c])
           q == last_read_pos[c]
           p == IF LineLength(c) > 0 THEN 0 ELSE IF q < l THEN l - 1 ELSE q
<1>1. l \in Nat /\ l <= MaxBytes
  <2>1. Len(rx[c]) \in Nat /\ l \in Nat /\ sent \in Nat /\ sent <= MaxBytes
    BY SocketAssumption DEF TypeOK
  <2>2. Len(rx[c]) + l <= sent
    BY DEF Lens
  <2> HIDE DEF l
  <2> QED BY <2>1, <2>2, SocketAssumption
<1>2. q \in 0 .. MaxBytes - 1 /\ MaxBytes \in Nat \ {0} /\ LineLength(c) \in Nat
  BY LineLengthIs, SocketAssumption DEF TypeOK
<1>3. last_read_pos' = [last_read_pos EXCEPT ![c] = p]
  BY DEF SearchMoves
<1> HIDE DEF l, q
<1>4. /\ p \in 0 .. MaxBytes - 1
      /\ LineLength(c) > 0 => p = 0
      /\ LineLength(c) = 0 /\ q <= l => p <= l
  <2>1. CASE LineLength(c) > 0
    BY <1>1, <1>2, <2>1
  <2>2. CASE ~(LineLength(c) > 0) /\ q < l
    BY <1>1, <1>2, <2>2
  <2>3. CASE ~(LineLength(c) > 0) /\ ~(q < l)
    BY <1>1, <1>2, <2>3
  <2> QED BY <2>1, <2>2, <2>3
<1> HIDE DEF p
<1>5. last_read_pos'[c] = p
  BY <1>3 DEF TypeOK
<1> QED BY <1>3, <1>4, <1>5 DEF TypeOK, l, q

\* One ::recv moves bytes from the kernel to the read buffer.
LEMMA RecvSomeDoes ==
  ASSUME TypeOK, NEW c \in Conns, RecvSome(c)
  PROVE  \E n \in Nat \ {0} :
           /\ rx' \in [Conns -> Seq(Bytes)] /\ rbuffer' \in [Conns -> Seq(Bytes)]
           /\ \A d \in Conns \ {c} : rx'[d] = rx[d] /\ rbuffer'[d] = rbuffer[d]
           /\ Len(rx'[c]) = Len(rx[c]) - n
           /\ Len(rbuffer'[c]) = Len(rbuffer[c]) + n
           /\ \A i \in DOMAIN rbuffer[c] : rbuffer'[c][i] = rbuffer[c][i]
           /\ ret' = ret + n
<1> DEFINE r == rx[c]
           b == rbuffer[c]
           n == Min({RecvSize, Len(r)})
<1>1. r \in Seq(Bytes) /\ b \in Seq(Bytes) /\ Len(r) \in Nat \ {0} /\ RecvSize \in Nat \ {0}
  BY SocketAssumption DEF TypeOK, RecvSome
<1>2. n = IF RecvSize <= Len(r) THEN RecvSize ELSE Len(r)
  BY <1>1, MinPair
<1>3. n \in Nat \ {0} /\ n <= Len(r)
  BY <1>1, <1>2
<1>4. /\ rx' = [rx EXCEPT ![c] = SubSeq(r, n + 1, Len(r))]
      /\ rbuffer' = [rbuffer EXCEPT ![c] = b \o SubSeq(r, 1, n)]
      /\ ret' = ret + n
  BY DEF RecvSome
<1> HIDE DEF n
<1>5. /\ SubSeq(r, n + 1, Len(r)) \in Seq(Bytes) /\ SubSeq(r, 1, n) \in Seq(Bytes)
      /\ Len(SubSeq(r, n + 1, Len(r))) = Len(r) - n /\ Len(SubSeq(r, 1, n)) = n
  BY <1>1, <1>3
<1>6. /\ b \o SubSeq(r, 1, n) \in Seq(Bytes)
      /\ Len(b \o SubSeq(r, 1, n)) = Len(b) + n
      /\ \A i \in DOMAIN b : (b \o SubSeq(r, 1, n))[i] = b[i]
  BY <1>1, <1>5
<1>7. rx'[c] = SubSeq(r, n + 1, Len(r)) /\ rbuffer'[c] = b \o SubSeq(r, 1, n)
  BY <1>4 DEF TypeOK
<1>8. rx' \in [Conns -> Seq(Bytes)] /\ rbuffer' \in [Conns -> Seq(Bytes)]
  BY <1>4, <1>5, <1>6 DEF TypeOK
<1> QED BY <1>3, <1>4, <1>5, <1>6, <1>7, <1>8 DEF TypeOK

-----------------------------------------------------------------------------
(* Who changes what.                                                       *)

PeerStep ==
  \/ \E c \in Clients : Arrive(c)
  \/ \E s \in Servers : Establish(s)
  \/ \E c \in Conns : PeerCloses(c) \/ Hangup(c) \/ \E b \in Bytes : PeerSends(c, b)

\* the steps of the worker, the service or the peers; OpenAtOnce is one of the service
\* and the kernel
OneSideStep == WorkerStep \/ ServiceStep \/ PeerStep

\* The peers change nothing but the kernel, and what they have done stays done.
LEMMA PeerFrame ==
  ASSUME PeerStep
  PROVE  /\ UNCHANGED <<interest, et, workerVars, connVars, bufferVars, luaVars>>
         /\ up \subseteq up' /\ fin \subseteq fin' /\ hup \subseteq hup'
         /\ ready \subseteq ready'
         /\ \A d \in ready' : d \in ready \/ interest[d] # {}
  BY DEF PeerStep, Arrive, Establish, PeerCloses, Hangup, PeerSends, Notify

\* The worker changes neither the records of socket.lua nor who waits.
LEMMA WorkerFrame ==
  ASSUME WorkerStep
  PROVE  UNCHANGED <<sent, up, fin, hup, last_read_pos, recordVars, waitVars>>
  BY DEF WorkerStep, Poll, OnAccept, OnConnected, OnRead, Ignore, RecvSome, RecvBlocks, Tell,
         EventClose, kernelVars, bufferVars, luaVars

\* Nor does the service touch the kernel or what the worker is doing.
LEMMA ServiceFrame ==
  ASSUME ServiceStep
  PROVE  UNCHANGED <<kernelVars, workerVars>>
  BY DEF ServiceStep, Handle, Start, Open, OpenFails, Recv, Recvline, Resume

-----------------------------------------------------------------------------
(* Typing, part by part.                                                   *)

KernelType ==
  /\ rx \in [Conns -> Seq(Bytes)] /\ sent \in 0 .. MaxBytes
  /\ up \subseteq Conns /\ fin \subseteq Conns /\ hup \subseteq Conns
  /\ backlog \subseteq Clients

EpollType ==
  /\ interest \in [Fds -> SUBSET {"IN", "OUT"}]
  /\ et \subseteq Fds /\ ready \subseteq Fds

WorkerType ==
  /\ batch \subseteq Events
  /\ cur = {} \/ \E c \in Conns : cur = {c}
  /\ telling = {} \/ \E c \in Conns : telling = {c}
  /\ ret \in 0 .. MaxBytes

ConnType ==
  /\ connects_ \subseteq Fds /\ service_map_ \subseteq Fds
  /\ statu_ \in [Servers -> {"NONE", "CONNECTING", "CONNECTED", "ERROR"}]

BufferType ==
  /\ rbuffer \in [Conns -> Seq(Bytes)]
  /\ last_read_pos \in [Conns -> 0 .. MaxBytes - 1]

MailType == mailbox \in Seq(Messages)

RecordType == socket_pool \subseteq Fds /\ connected \subseteq Conns /\ callback \subseteq Conns

WaitType ==
  /\ co \subseteq Conns /\ woken \subseteq Conns
  /\ read_required \in [Conns -> 0 .. Line]
  /\ waits \in [Conns -> 0 .. Opening]

Typed == /\ KernelType /\ EpollType /\ WorkerType /\ ConnType /\ BufferType
         /\ MailType /\ RecordType /\ WaitType

\* The parts make up TypeOK ...
LEMMA TypeParts == TypeOK <=> Typed
<1>1. TypeOK => Typed
  BY DEF TypeOK, Typed, KernelType, EpollType, WorkerType, ConnType, BufferType, MailType,
         RecordType, WaitType
<1>2. Typed => TypeOK
  BY DEF TypeOK, Typed, KernelType, EpollType, WorkerType, ConnType, BufferType, MailType,
         RecordType, WaitType
<1> QED BY <1>1, <1>2

\* ... and do after a step.
LEMMA TypePartsNext == TypeOK' <=> Typed'
BY TypeParts, PTL

\* What does not change keeps its type.
LEMMA TypeStays ==
  ASSUME Typed
  PROVE  /\ UNCHANGED kernelVars => KernelType'
         /\ UNCHANGED epollVars => EpollType'
         /\ UNCHANGED workerVars => WorkerType'
         /\ UNCHANGED connVars => ConnType'
         /\ UNCHANGED bufferVars => BufferType'
         /\ UNCHANGED mailbox => MailType'
         /\ UNCHANGED recordVars => RecordType'
         /\ UNCHANGED waitVars => WaitType'
<1> USE DEF Typed
<1>1. UNCHANGED kernelVars => KernelType'
  BY DEF kernelVars, KernelType
<1>2. UNCHANGED epollVars => EpollType'
  BY DEF epollVars, EpollType
<1>3. UNCHANGED workerVars => WorkerType'
  BY DEF workerVars, WorkerType
<1>4. UNCHANGED connVars => ConnType'
  BY DEF connVars, ConnType
<1>5. UNCHANGED bufferVars => BufferType'
  BY DEF bufferVars, BufferType
<1>6. UNCHANGED mailbox => MailType'
  BY DEF MailType
<1>7. UNCHANGED recordVars => RecordType'
  BY DEF recordVars, RecordType
<1>8. UNCHANGED waitVars => WaitType'
  BY DEF waitVars, WaitType
<1> QED BY <1>1, <1>2, <1>3, <1>4, <1>5, <1>6, <1>7, <1>8

\* A message is appended or none.
LEMMA SendType ==
  ASSUME MailType, NEW served, NEW fd, NEW type, NEW ud, Send(served, fd, type, ud),
         type \in {"CONNECT", "DATA", "SERVER_CONNECT", "DISCONNECT"}, ud \in Conns
  PROVE  MailType'
<1>1. [type |-> type, fd |-> ud] \in Messages
  BY DEF Messages
<1> QED BY <1>1 DEF Send, MailType

\* An event with something in it.
LEMMA EventType ==
  ASSUME NEW fd \in Fds, NEW ev, ev \subseteq {"READ", "WRITE", "RDHUP"},
         "READ" \in ev \/ "WRITE" \in ev \/ "RDHUP" \in ev
  PROVE  [fd |-> fd, ev |-> ev] \in Events
<1>1. ev \in SUBSET {"READ", "WRITE", "RDHUP"} /\ ev # {}
  OBVIOUS
<1> QED BY <1>1 DEF Events

\* Watching keeps the type of the epoll instance.
LEMMA WatchType ==
  ASSUME EpollType, NEW fd \in Fds, NEW events \in SUBSET {"IN", "OUT"}, NEW edge,
         Watch(fd, events, edge)
  PROVE  EpollType'
  BY DEF Watch, EpollType

\* A wake-up keeps the type of the epoll instance.
LEMMA NotifyType ==
  ASSUME EpollType, NEW fd \in Fds, NEW event, Notify(fd, event)
  PROVE  EpollType'
  BY DEF Notify, EpollType

\* The steps of the peers keep the types.
LEMMA TypePeer ==
  ASSUME Typed, PeerStep
  PROVE  Typed'
<1>1. Conns \subseteq Fds /\ Clients \subseteq Conns /\ Servers \subseteq Conns /\ Listener \in Fds
  BY DEF Conns, Fds
<1>2. KernelType' /\ EpollType'
  <2>1. ASSUME NEW c \in Clients, Arrive(c)
        PROVE  KernelType' /\ EpollType'
    BY <1>1, <2>1, NotifyType DEF Arrive, Typed, KernelType
  <2>2. ASSUME NEW s \in Servers, Establish(s)
        PROVE  KernelType' /\ EpollType'
    BY <1>1, <2>2, NotifyType DEF Establish, Typed, KernelType
  <2>3. ASSUME NEW c \in Conns, NEW b \in Bytes, PeerSends(c, b)
        PROVE  KernelType' /\ EpollType'
    <3>1. sent' \in 0 .. MaxBytes
      BY <2>3, SocketAssumption DEF PeerSends, Typed, KernelType
    <3> QED BY <1>1, <2>3, <3>1, NotifyType DEF PeerSends, Typed, KernelType
  <2>4. ASSUME NEW c \in Conns, PeerCloses(c) \/ Hangup(c)
        PROVE  KernelType' /\ EpollType'
    BY <1>1, <2>4, NotifyType DEF PeerCloses, Hangup, Typed, KernelType
  <2> QED BY <2>1, <2>2, <2>3, <2>4 DEF PeerStep
<1> QED BY <1>2, PeerFrame, TypeStays DEF Typed, luaVars

\* So do the worker's, for ret and rbuffer within what was sent.
LEMMA TypeWorker ==
  ASSUME TypeOK, Typed, Lens, WorkerStep
  PROVE  Typed'
<1> USE TypeStays
<1>1. Conns \subseteq Fds /\ Clients \subseteq Conns /\ Servers \subseteq Conns
  BY DEF Conns, Fds
<1>2. RecordType' /\ WaitType'
  BY WorkerFrame
<1>3. ASSUME Poll
      PROVE  Typed'
  <2>1. ASSUME NEW fd \in Fds, Reported(fd) # {}
        PROVE  [fd |-> fd, ev |-> Translate(Reported(fd))] \in Events
    <3>1. Reported(fd) \subseteq {"IN", "OUT", "HUP"}
      BY ConditionOf, ConditionOfListener DEF Reported, Fds
    <3>2. CASE "HUP" \in Reported(fd)
      BY <3>2, EventType DEF Translate
    <3>3. CASE "HUP" \notin Reported(fd)
      <4>1. Translate(Reported(fd)) \subseteq {"READ", "WRITE"}
        BY <3>3 DEF Translate
      <4>2. "IN" \in Reported(fd) \/ "OUT" \in Reported(fd)
        BY <2>1, <3>1, <3>3
      <4>3. "READ" \in Translate(Reported(fd)) \/ "WRITE" \in Translate(Reported(fd))
        BY <3>3, <4>2 DEF Translate
      <4> QED BY <4>1, <4>3, EventType
    <3> QED BY <3>2, <3>3
  <2>2. ready \subseteq Fds
    BY DEF Typed, EpollType
  <2>3. batch' \subseteq Events /\ ready' \subseteq Fds
    BY <1>3, <2>1, <2>2 DEF Poll
  <2>4. WorkerType' /\ EpollType'
    BY <1>3, <2>3 DEF Poll, Typed, WorkerType, EpollType
  <2> QED BY <1>2, <1>3, <2>4 DEF Poll, Typed, luaVars
<1>4. ASSUME NEW e \in batch, NEW c \in Clients, OnAccept(e, c)
      PROVE  Typed'
  <2>1. KernelType' /\ WorkerType' /\ ConnType'
    BY <1>1, <1>4 DEF OnAccept, Typed, KernelType, WorkerType, ConnType
  <2>2. MailType'
    BY <1>1, <1>4, SendType DEF OnAccept, Typed
  <2> QED BY <1>2, <1>4, <2>1, <2>2 DEF OnAccept, Typed
<1>5. ASSUME NEW e \in batch, OnConnected(e)
      PROVE  Typed'
  <2>1. e.fd \in Conns /\ e.fd \in Fds
    BY <1>1, <1>5 DEF OnConnected
  <2>2. WorkerType' /\ ConnType'
    BY <1>5 DEF OnConnected, Typed, WorkerType, ConnType
  <2>3. EpollType' /\ MailType'
    BY <1>5, <2>1, WatchType, SendType DEF OnConnected, Typed
  <2> QED BY <1>2, <1>5, <2>2, <2>3 DEF OnConnected, Typed
<1>6. ASSUME NEW e \in batch, OnRead(e) \/ Ignore(e)
      PROVE  Typed'
  <2>1. WorkerType'
    BY <1>6, SocketAssumption DEF OnRead, Ignore, Typed, WorkerType
  <2> QED BY <1>2, <1>6, <2>1 DEF OnRead, Ignore, Typed, luaVars
<1>7. ASSUME NEW c \in Conns, RecvSome(c)
      PROVE  Typed'
  <2>1. PICK n \in Nat \ {0} :
           /\ rx' \in [Conns -> Seq(Bytes)] /\ rbuffer' \in [Conns -> Seq(Bytes)]
           /\ Len(rx'[c]) = Len(rx[c]) - n
           /\ ret' = ret + n
    BY <1>7, RecvSomeDoes
  <2>2. /\ Len(rx[c]) \in Nat /\ Len(rx'[c]) \in Nat /\ ret \in Nat
        /\ sent \in Nat /\ sent <= MaxBytes
    <3>1. rx[c] \in Seq(Bytes) /\ sent \in 0 .. MaxBytes /\ ret \in 0 .. MaxBytes
      BY DEF Typed, KernelType, WorkerType
    <3>2. rx'[c] \in Seq(Bytes)
      BY <2>1
    <3> QED BY <3>1, <3>2, SocketAssumption
  <2>9. ret + Len(rx[c]) <= sent
    BY <1>7 DEF RecvSome, Lens
  <2>3. ret' \in 0 .. MaxBytes
    BY <2>1, <2>2, <2>9, SocketAssumption
  <2>4. KernelType' /\ WorkerType' /\ BufferType'
    BY <1>7, <2>1, <2>3 DEF RecvSome, Typed, KernelType, WorkerType, BufferType
  <2> QED BY <1>2, <1>7, <2>4 DEF RecvSome, Typed, luaVars
<1>8. ASSUME NEW c \in Conns, RecvBlocks(c)
      PROVE  Typed'
  <2>1. WorkerType'
    BY <1>8 DEF RecvBlocks, Typed, WorkerType
  <2> QED BY <1>2, <1>8, <2>1 DEF RecvBlocks, Typed, luaVars
<1>9. ASSUME NEW c \in Conns, Tell(c)
      PROVE  Typed'
  <2>1. WorkerType' /\ MailType'
    BY <1>9, SendType DEF Tell, Typed, WorkerType
  <2> QED BY <1>2, <1>9, <2>1 DEF Tell, Typed
<1>10. ASSUME NEW c \in Conns, EventClose(c)
       PROVE  Typed'
  <2>1. WorkerType' /\ EpollType' /\ ConnType'
    BY <1>1, <1>10
    DEF EventClose, DeleteConnect, Typed, WorkerType, EpollType, ConnType
  <2>2. MailType'
    <3>1. Send(service_map_', c, "DISCONNECT", c)
      BY <1>10 DEF EventClose
    <3> QED BY <3>1, SendType DEF Typed
  <2> QED BY <1>2, <1>10, <2>1, <2>2 DEF EventClose, Typed
<1> QED
  BY <1>3, <1>4, <1>5, <1>6, <1>7, <1>8, <1>9, <1>10 DEF WorkerStep

\* A suspended coroutine is known by its connection.
LEMMA SuspendType ==
  ASSUME WaitType, NEW c \in Conns, NEW what \in 0 .. Opening, Suspend(c, what)
  PROVE  /\ co' \subseteq Conns /\ woken' \subseteq Conns
         /\ waits' \in [Conns -> 0 .. Opening]
  BY DEF Suspend, WaitType

\* And so do the service's.
LEMMA TypeService ==
  ASSUME TypeOK, Typed, Lens, ServiceStep
  PROVE  Typed'
<1> USE TypeStays
<1>1. /\ Conns \subseteq Fds /\ Clients \subseteq Conns /\ Servers \subseteq Conns
      /\ MaxBytes \in Nat \ {0} /\ Nothing = 0
      /\ Line = MaxBytes + 1 /\ Opening = MaxBytes + 2
  BY SocketAssumption DEF Conns, Fds, Nothing, Line, Opening
<1>2. KernelType' /\ WorkerType'
  BY ServiceFrame
<1>3. ASSUME NEW c \in Conns, Wake(c)
      PROVE  co' \subseteq Conns /\ woken' \subseteq Conns
  BY <1>3 DEF Wake, Typed, WaitType
<1>4. ASSUME NEW c \in Conns, OnConnectMessage(c)
      PROVE  BufferType' /\ RecordType' /\ WaitType'
  BY <1>1, <1>4 DEF OnConnectMessage, Typed, RecordType
<1>5. ASSUME NEW c \in Conns, OnServerConnect(c)
      PROVE  BufferType' /\ RecordType' /\ WaitType'
  BY <1>1, <1>3, <1>5 DEF OnServerConnect, Typed, RecordType, WaitType
<1>6. ASSUME NEW c \in Conns, OnData(c)
      PROVE  BufferType' /\ RecordType' /\ WaitType'
  <2>1. /\ Take(c, Len(rbuffer[c])) \/ UNCHANGED rbuffer
        /\ SearchMoves(c) \/ UNCHANGED last_read_pos
        /\ \/ read_required' = [read_required EXCEPT ![c] = Nothing] /\ Wake(c)
           \/ UNCHANGED <<read_required, co, woken>>
        /\ UNCHANGED <<recordVars, waits>>
    BY <1>6 DEF OnData
  <2>2. Len(rbuffer[c]) \in Nat
    BY DEF Typed, BufferType
  <2>3. BufferType'
    BY <2>1, <2>2, TakeDoes, SearchMovesDoes DEF Typed, BufferType
  <2>4. WaitType'
    BY <1>1, <1>3, <2>1 DEF Typed, WaitType
  <2> QED BY <2>1, <2>3, <2>4
<1>7. ASSUME Handle
      PROVE  Typed'
  <2>1. Head(mailbox) \in Messages /\ MailType'
    BY <1>7 DEF Handle, Typed, MailType
  <2>2. Head(mailbox).fd \in Conns
    BY <2>1 DEF Messages
  <2>3. BufferType' /\ RecordType' /\ WaitType'
    BY <1>4, <1>5, <1>6, <1>7, <2>2 DEF Handle
  <2> QED BY <1>2, <1>7, <2>1, <2>3 DEF Handle, Typed
<1>8. ASSUME NEW c \in Clients, NEW func \in BOOLEAN, Start(c, func)
      PROVE  Typed'
  <2>1. EpollType'
    BY <1>1, <1>8, WatchType DEF Start, Typed
  <2>2. ConnType' /\ RecordType'
    BY <1>1, <1>8 DEF Start, Typed, ConnType, RecordType
  <2> QED BY <1>2, <1>8, <2>1, <2>2 DEF Start, Typed
<1>9. ASSUME NEW s \in Servers, Open(s)
      PROVE  Typed'
  <2>1. EpollType'
    BY <1>1, <1>9, WatchType DEF Open, Typed
  <2>2. ConnType' /\ RecordType'
    BY <1>1, <1>9 DEF Open, Typed, ConnType, RecordType
  <2>3. Opening \in 0 .. Opening
    BY <1>1
  <2>4. WaitType'
    BY <1>1, <1>9, <2>3, SuspendType DEF Open, Typed, WaitType
  <2> QED BY <1>2, <1>9, <2>1, <2>2, <2>4 DEF Open, Typed
<1>10. ASSUME NEW s \in Servers, OpenFails(s)
       PROVE  Typed'
  <2>1. ConnType'
    BY <1>1, <1>10 DEF OpenFails, Typed, ConnType
  <2> QED BY <1>2, <1>10, <2>1 DEF OpenFails, Typed, luaVars
<1>11. ASSUME NEW c \in Conns, NEW n \in 1 .. MaxBytes, Recv(c, n)
       PROVE  Typed'
  <2>1. n \in Nat /\ n \in 0 .. Line /\ n \in 0 .. Opening
    BY <1>1
  <2>2. BufferType'
    BY <1>11, <2>1, TakeDoes DEF Recv, Typed, BufferType
  <2>3. WaitType'
    BY <1>11, <2>1, SuspendType DEF Recv, Typed, WaitType, waitVars
  <2> QED BY <1>2, <1>11, <2>2, <2>3 DEF Recv, Typed
<1>12. ASSUME NEW c \in Conns, Recvline(c)
       PROVE  Typed'
  <2>1. Line \in 0 .. Line /\ Line \in 0 .. Opening
    BY <1>1
  <2>2. Len(rbuffer[c]) \in Nat
    BY DEF Typed, BufferType
  <2>3. BufferType'
    BY <1>12, <2>2, TakeDoes, SearchMovesDoes, LineLengthIs
    DEF Recvline, Typed, BufferType, bufferVars
  <2>4. WaitType'
    BY <1>12, <2>1, SuspendType DEF Recvline, Typed, WaitType, waitVars
  <2> QED BY <1>2, <1>12, <2>3, <2>4 DEF Recvline, Typed
<1>13. ASSUME NEW c \in Conns, Resume(c)
       PROVE  Typed'
  <2>1. waits[c] \in Nat /\ Nothing \in 0 .. Line /\ Nothing \in 0 .. Opening
    BY <1>1 DEF Typed, WaitType
  <2>2. BufferType'
    <3>1. \/ \E n \in Nat : Take(c, n)
          \/ UNCHANGED rbuffer
      BY <1>13, <2>1, LineLengthIs DEF Resume, bufferVars
    <3>2. SearchMoves(c) \/ UNCHANGED last_read_pos
      BY <1>13 DEF Resume, bufferVars
    <3> QED BY <3>1, <3>2, TakeDoes, SearchMovesDoes DEF Typed, BufferType
  <2>3. WaitType'
    BY <1>13, <2>1 DEF Resume, Typed, WaitType
  <2>4. RecordType'
    BY <1>13 DEF Resume, Opened, Typed, RecordType
  <2> QED BY <1>2, <1>13, <2>2, <2>3, <2>4 DEF Resume, Typed
<1> QED
  BY <1>7, <1>8, <1>9, <1>10, <1>11, <1>12, <1>13 DEF ServiceStep

\* Every step keeps the types.
LEMMA TypeStep == TypeOK /\ Lens /\ [OneSideStep]_vars => TypeOK'
<1>1. ASSUME Typed, UNCHANGED vars
      PROVE  Typed'
  BY <1>1, TypeStays DEF vars, luaVars, Typed
<1> QED
  BY <1>1, TypeParts, TypePartsNext, TypePeer, TypeWorker, TypeService DEF OneSideStep

-----------------------------------------------------------------------------
(* The bytes there are.                                                    *)

\* The service only takes from the read buffers.
LEMMA ServiceTakes ==
  ASSUME TypeOK, Typed, ServiceStep
  PROVE  \A d \in Conns : Len(rbuffer'[d]) <= Len(rbuffer[d])
<1>1. \A d \in Conns : Len(rbuffer[d]) \in Nat
  BY DEF Typed, BufferType
<1>2. ASSUME NEW c \in Conns, NEW n \in Nat, Take(c, n)
      PROVE  \A d \in Conns : Len(rbuffer'[d]) <= Len(rbuffer[d])
  BY <1>2, TakeDoes
<1>3. ASSUME UNCHANGED rbuffer
      PROVE  \A d \in Conns : Len(rbuffer'[d]) <= Len(rbuffer[d])
  BY <1>1, <1>3
<1>4. CASE Handle
  <2>1. Head(mailbox) \in Messages
    BY <1>4 DEF Handle, Typed, MailType
  <2>2. PICK c \in Conns : OnConnectMessage(c) \/ OnData(c) \/ OnServerConnect(c)
    BY <1>4, <2>1 DEF Handle, Messages
  <2>3. Take(c, Len(rbuffer[c])) \/ UNCHANGED rbuffer
    BY <2>2 DEF OnConnectMessage, OnData, OnServerConnect, bufferVars
  <2> QED BY <1>1, <1>2, <1>3, <2>3
<1>5. ASSUME NEW c \in Conns, NEW n \in 1 .. MaxBytes, Recv(c, n)
      PROVE  \A d \in Conns : Len(rbuffer'[d]) <= Len(rbuffer[d])
  <2>1. n \in Nat
    BY SocketAssumption
  <2> QED BY <1>2, <1>3, <1>5, <2>1 DEF Recv
<1>6. ASSUME NEW c \in Conns, Recvline(c) \/ Resume(c)
      PROVE  \A d \in Conns : Len(rbuffer'[d]) <= Len(rbuffer[d])
  <2>1. waits[c] \in Nat /\ LineLength(c) \in Nat
    BY LineLengthIs, SocketAssumption DEF Typed, WaitType, Opening
  <2>2. (\E n \in Nat : Take(c, n)) \/ UNCHANGED rbuffer
    BY <1>1, <1>6, <2>1 DEF Recvline, Resume, bufferVars
  <2> QED BY <1>2, <1>3, <2>2
<1>7. CASE (\E c \in Clients, func \in BOOLEAN : Start(c, func))
           \/ \E s \in Servers : Open(s) \/ OpenFails(s)
  BY <1>3, <1>7 DEF Start, Open, OpenFails, bufferVars
<1> QED BY <1>4, <1>5, <1>6, <1>7 DEF ServiceStep

\* No step makes a byte.
LEMMA LensStep == TypeOK /\ Lens /\ [OneSideStep]_vars => Lens'
<1> SUFFICES ASSUME TypeOK, Typed, Lens, [OneSideStep]_vars
             PROVE  Lens'
  BY TypeParts
<1>1. /\ \A c \in Conns : Len(rx[c]) \in Nat /\ Len(rbuffer[c]) \in Nat
      /\ sent \in Nat /\ ret \in Nat /\ cur \subseteq Conns
  BY SocketAssumption DEF Typed, KernelType, BufferType, WorkerType
<1>2. ASSUME rx' = rx, sent' = sent, ret' = ret, cur' \subseteq cur,
             \A c \in Conns : Len(rbuffer'[c]) <= Len(rbuffer[c]),
             \A c \in Conns : Len(rbuffer'[c]) \in Nat
      PROVE  Lens'
  <2>1. ASSUME NEW c \in Conns
        PROVE  Len(rx[c]) + Len(rbuffer'[c]) <= sent
    <3> DEFINE a == Len(rx[c])
               b == Len(rbuffer[c])
               d == Len(rbuffer'[c])
    <3>1. a \in Nat /\ b \in Nat /\ d \in Nat /\ sent \in Nat /\ d <= b /\ a + b <= sent
      BY <1>1, <1>2 DEF Lens
    <3> HIDE DEF a, b, d
    <3>2. a + d <= sent
      BY <3>1
    <3> QED BY <3>2 DEF a, d
  <2> QED BY <1>2, <2>1 DEF Lens
<1>3. ASSUME rx' = rx, sent' = sent, ret' = ret, cur' \subseteq cur, rbuffer' = rbuffer
      PROVE  Lens'
  BY <1>1, <1>3 DEF Lens
<1>4. CASE ServiceStep
  <2>1. \A c \in Conns : Len(rbuffer'[c]) \in Nat
    BY <1>4, TypeService DEF Typed, BufferType
  <2> QED BY <1>2, <1>4, <2>1, ServiceFrame, ServiceTakes DEF kernelVars, workerVars
<1>5. CASE PeerStep
  <2>1. UNCHANGED <<ret, cur, rbuffer>>
    BY <1>5, PeerFrame DEF workerVars, bufferVars
  <2>2. ASSUME NEW c \in Conns, NEW b \in Bytes, PeerSends(c, b)
        PROVE  Lens'
    <3>1. /\ sent' = sent + 1
          /\ \A d \in Conns : Len(rx'[d]) \in {Len(rx[d]), Len(rx[d]) + 1}
      BY <2>2 DEF PeerSends, Typed, KernelType
    <3>2. \A a, e, f, s \in Nat : f \in {a, a + 1} /\ a + e <= s => f + e <= s + 1
      OBVIOUS
    <3>3. \A d \in Conns : Len(rx'[d]) \in Nat
      BY <1>1, <3>1
    <3>4. ASSUME NEW d \in Conns
          PROVE  /\ Len(rx'[d]) + Len(rbuffer'[d]) <= sent'
                 /\ d \in cur => ret + Len(rx'[d]) <= sent'
      <4> DEFINE a == Len(rx[d])
                 e == Len(rbuffer[d])
                 f == Len(rx'[d])
      <4>1. a \in Nat /\ e \in Nat /\ f \in Nat /\ f \in {a, a + 1} /\ sent \in Nat /\ ret \in Nat
        BY <1>1, <3>1, <3>3
      <4>2. a + e <= sent /\ (d \in cur => ret + a <= sent)
        BY DEF Lens
      <4> HIDE DEF a, e, f
      <4>3. f + e <= sent + 1 /\ (d \in cur => ret + f <= sent + 1)
        BY <4>1, <4>2
      <4> QED BY <2>1, <3>1, <4>3 DEF e, f
    <3>5. ret' <= sent'
      BY <1>1, <2>1, <3>1 DEF Lens
    <3> QED BY <1>1, <2>1, <3>4, <3>5 DEF Lens
  <2>3. ASSUME rx' = rx, sent' = sent
        PROVE  Lens'
    BY <1>3, <2>1, <2>3
  <2> QED
    BY <1>5, <2>2, <2>3 DEF PeerStep, Arrive, Establish, PeerCloses, Hangup
<1>6. CASE WorkerStep
  <2>1. ASSUME NEW c \in Conns, RecvSome(c)
        PROVE  Lens'
    <3>1. PICK n \in Nat \ {0} :
             /\ \A d \in Conns \ {c} : rx'[d] = rx[d] /\ rbuffer'[d] = rbuffer[d]
             /\ Len(rx'[c]) = Len(rx[c]) - n
             /\ Len(rbuffer'[c]) = Len(rbuffer[c]) + n
             /\ ret' = ret + n
      BY <2>1, RecvSomeDoes
    <3>2. c \in cur /\ cur = {c} /\ cur' = cur /\ sent' = sent
      BY <2>1 DEF RecvSome, Typed, WorkerType
    <3>3. Len(rx'[c]) \in Nat
      BY <1>6, TypeWorker DEF Typed, KernelType
    <3> DEFINE a == Len(rx[c])
               b == Len(rbuffer[c])
               f == Len(rx'[c])
               g == Len(rbuffer'[c])
    <3>4. /\ a \in Nat /\ b \in Nat /\ f \in Nat /\ sent \in Nat /\ ret \in Nat
          /\ a + b <= sent /\ ret + a <= sent
      BY <1>1, <3>2, <3>3 DEF Lens
    <3>5. f = a - n /\ g = b + n
      BY <3>1
    <3> HIDE DEF a, b, f, g
    <3>6. f + g <= sent /\ ret + n + f <= sent /\ ret + n <= sent
      BY <3>4, <3>5
    <3>7. ASSUME NEW d \in Conns
          PROVE  Len(rx'[d]) + Len(rbuffer'[d]) <= sent'
      <4>1. CASE d = c
        BY <3>2, <3>6, <4>1 DEF f, g
      <4>2. CASE d # c
        BY <3>1, <3>2, <4>2 DEF Lens
      <4> QED BY <4>1, <4>2
    <3>8. ret' + Len(rx'[c]) <= sent' /\ ret' <= sent'
      BY <3>1, <3>2, <3>6 DEF f
    <3> QED BY <3>2, <3>7, <3>8 DEF Lens
  <2>2. ASSUME NEW e \in batch, OnRead(e)
        PROVE  Lens'
    <3>1. e.fd \in Conns /\ rx' = rx /\ rbuffer' = rbuffer /\ sent' = sent /\ ret' = 0
          /\ cur' = {e.fd}
      BY <2>2 DEF OnRead, kernelVars, bufferVars
    <3> DEFINE a == Len(rx[e.fd])
               b == Len(rbuffer[e.fd])
    <3>2. a \in Nat /\ b \in Nat /\ sent \in Nat /\ a + b <= sent
      BY <1>1, <3>1 DEF Lens
    <3> HIDE DEF a, b
    <3>3. 0 + a <= sent /\ 0 <= sent
      BY <3>2
    <3> QED BY <3>1, <3>3 DEF Lens, a
  <2>3. ASSUME \/ Poll
               \/ \E e \in batch : \/ \E c \in Clients : OnAccept(e, c)
                                   \/ OnConnected(e) \/ Ignore(e)
               \/ \E c \in Conns : RecvBlocks(c) \/ Tell(c) \/ EventClose(c)
        PROVE  Lens'
    <3>1. /\ UNCHANGED <<rx, sent, ret, rbuffer>>
          /\ cur' \subseteq cur
      BY <2>3 DEF Poll, OnAccept, OnConnected, Ignore, RecvBlocks, Tell, EventClose,
                  kernelVars, bufferVars
    <3> QED BY <1>3, <3>1
  <2> QED BY <1>6, <2>1, <2>2, <2>3 DEF WorkerStep
<1>7. CASE UNCHANGED vars
  BY <1>3, <1>7 DEF vars, kernelVars, workerVars, bufferVars
<1> QED BY <1>4, <1>5, <1>6, <1>7 DEF OneSideStep

-----------------------------------------------------------------------------
(* Messages.                                                               *)

\* A message is sent to a service that is found, and the others stay.
LEMMA SendMail ==
  ASSUME MailType, NEW served, NEW fd, NEW type, NEW ud, Send(served, fd, type, ud)
  PROVE  /\ \A i \in DOMAIN mailbox : i \in DOMAIN mailbox' /\ mailbox'[i] = mailbox[i]
         /\ \A i \in DOMAIN mailbox' :
              \/ i \in DOMAIN mailbox /\ mailbox'[i] = mailbox[i]
              \/ /\ i = Len(mailbox) + 1 /\ i \notin DOMAIN mailbox
                 /\ mailbox'[i] = [type |-> type, fd |-> ud]
         /\ \A c, t : InMailbox(c, t) => InMailbox(c, t)'
         /\ \A c, t : InMailbox(c, t)' => InMailbox(c, t) \/ (c = ud /\ t = type)
         /\ fd \in served => InMailbox(ud, type)'
<1> DEFINE m == [type |-> type, fd |-> ud]
<1>1. mailbox \in Seq(Messages) /\ Len(mailbox) \in Nat
  BY DEF MailType
<1>2. CASE fd \in served
  <2>1. mailbox' = Append(mailbox, m)
    BY <1>2 DEF Send
  <2>2. /\ DOMAIN mailbox' = DOMAIN mailbox \cup {Len(mailbox) + 1}
        /\ Len(mailbox) + 1 \notin DOMAIN mailbox
        /\ mailbox'[Len(mailbox) + 1] = m
        /\ \A i \in DOMAIN mailbox : mailbox'[i] = mailbox[i]
    BY <1>1, <2>1
  <2> QED BY <2>2 DEF InMailbox
<1>3. CASE fd \notin served
  <2>1. mailbox' = mailbox
    BY <1>3 DEF Send
  <2> QED BY <1>3, <2>1 DEF InMailbox
<1> QED BY <1>2, <1>3

\* The service takes the first message; the others move up.
LEMMA TailMail ==
  ASSUME MailType, mailbox # <<>>, mailbox' = Tail(mailbox)
  PROVE  /\ 1 \in DOMAIN mailbox /\ mailbox[1] = Head(mailbox) /\ Head(mailbox) \in Messages
         /\ \A i \in DOMAIN mailbox' :
              /\ i + 1 \in DOMAIN mailbox /\ i + 1 # 1
              /\ mailbox'[i] = mailbox[i + 1]
         /\ \A i, j \in DOMAIN mailbox' : i + 1 = j + 1 => i = j
         /\ \A c, t : InMailbox(c, t)' => InMailbox(c, t)
         /\ \A c, t : InMailbox(c, t) /\ Head(mailbox) # [type |-> t, fd |-> c]
                        => InMailbox(c, t)'
<1>1. mailbox \in Seq(Messages) /\ Len(mailbox) \in Nat \ {0}
  BY DEF MailType
<1>2. /\ 1 \in DOMAIN mailbox /\ mailbox[1] = Head(mailbox) /\ Head(mailbox) \in Messages
      /\ DOMAIN mailbox = 1 .. Len(mailbox) /\ DOMAIN mailbox' = 1 .. Len(mailbox) - 1
      /\ \A i \in DOMAIN mailbox' : mailbox'[i] = mailbox[i + 1]
  BY <1>1
<1>3. /\ \A i \in DOMAIN mailbox' :
           /\ i + 1 \in DOMAIN mailbox /\ i + 1 # 1
           /\ mailbox'[i] = mailbox[i + 1]
      /\ \A i, j \in DOMAIN mailbox' : i + 1 = j + 1 => i = j
  BY <1>1, <1>2
<1>4. ASSUME NEW i \in DOMAIN mailbox, mailbox[i] # Head(mailbox)
      PROVE  \E j \in DOMAIN mailbox' : mailbox'[j] = mailbox[i]
  <2>1. i \in Nat /\ i # 1 /\ i - 1 \in DOMAIN mailbox' /\ (i - 1) + 1 = i
    BY <1>1, <1>2, <1>4
  <2> QED BY <1>2, <2>1
<1>5. ASSUME NEW c, NEW t, InMailbox(c, t), Head(mailbox) # [type |-> t, fd |-> c]
      PROVE  InMailbox(c, t)'
  BY <1>4, <1>5 DEF InMailbox
<1>6. ASSUME NEW c, NEW t, InMailbox(c, t)'
      PROVE  InMailbox(c, t)
  BY <1>3, <1>6 DEF InMailbox
<1> QED BY <1>2, <1>3, <1>5, <1>6

-----------------------------------------------------------------------------
(* What the worker deals with.                                             *)

\* The connection the worker is reading is the only one, and has no event to come.
LEMMA InRecv ==
  ASSUME Typed, WorkerInv, NEW c \in Conns, c \in cur
  PROVE  /\ cur = {c} /\ telling = {} /\ Served(c)
         /\ c \in Servers => statu_[c] = "CONNECTED"
         /\ \A e \in batch : e.fd # c
  BY DEF Typed, WorkerType, WorkerInv, BatchOnce, OnlyServed

\* What poll returns of a descriptor that epoll has reported.
LEMMA PollReturns ==
  ASSUME Typed, Poll
  PROVE  /\ batch = {} /\ cur = {} /\ telling = {}
         /\ \A e \in batch' :
              /\ e.fd \in ready
              /\ e.fd \in Conns => /\ "READ" \in e.ev => rx[e.fd] # <<>> \/ e.fd \in fin
                                   /\ "RDHUP" \in e.ev => e.fd \in hup
         /\ \A e, f \in batch' : e.fd = f.fd => e = f
         /\ \A e \in batch' : e.fd = Listener => "RDHUP" \notin e.ev
         /\ \A fd \in ready : Reported(fd) # {} =>
              [fd |-> fd, ev |-> Translate(Reported(fd))] \in batch'
         /\ ready' \subseteq ready
<1> DEFINE E(fd) == [fd |-> fd, ev |-> Translate(Reported(fd))]
           hits == {fd \in ready : Reported(fd) # {}}
<1>1. batch = {} /\ cur = {} /\ telling = {} /\ ready' = hits \ et
  BY DEF Poll
<1>2. batch' = {E(fd) : fd \in hits}
  BY DEF Poll
<1>3. ASSUME NEW fd \in ready, fd \in Conns
      PROVE  /\ "READ" \in Translate(Reported(fd)) => rx[fd] # <<>> \/ fd \in fin
             /\ "RDHUP" \in Translate(Reported(fd)) => fd \in hup
  <2>1. Reported(fd) \subseteq Condition(fd)
    BY DEF Reported
  <2>2. "READ" \in Translate(Reported(fd)) => "IN" \in Reported(fd)
    BY DEF Translate
  <2>3. "RDHUP" \in Translate(Reported(fd)) => "HUP" \in Reported(fd)
    BY DEF Translate
  <2> QED BY <1>3, <2>1, <2>2, <2>3, ConditionOf
<1>4. "RDHUP" \notin Translate(Reported(Listener))
  <2>1. "HUP" \notin Reported(Listener)
    BY ConditionOfListener DEF Reported
  <2> QED BY <2>1 DEF Translate
<1>5. \A e \in batch' : \E fd \in hits : e = E(fd)
  BY <1>2
<1>6. \A fd : E(fd).fd = fd /\ E(fd).ev = Translate(Reported(fd))
  OBVIOUS
<1>7. \A e \in batch' : e.fd \in ready /\ e = E(e.fd) /\ e.ev = Translate(Reported(e.fd))
  BY <1>5, <1>6
<1> HIDE DEF E
<1>8. \A e, f \in batch' : e.fd = f.fd => e = f
  BY <1>7
<1>9. \A fd \in ready : Reported(fd) # {} => E(fd) \in batch'
  BY <1>2
<1> QED BY <1>1, <1>3, <1>4, <1>7, <1>8, <1>9 DEF E

\* One event for a descriptor, none for the connection being read.
LEMMA BatchOnceStep == TypeOK /\ BatchOnce /\ [OneSideStep]_vars => BatchOnce'
<1> SUFFICES ASSUME Typed, BatchOnce, [OneSideStep]_vars
             PROVE  BatchOnce'
  BY TypeParts
<1>1. ASSUME batch' \subseteq batch, cur' \subseteq cur, telling' \subseteq telling
      PROVE  BatchOnce'
  BY <1>1 DEF BatchOnce
<1>2. CASE Poll
  BY <1>2, PollReturns DEF BatchOnce, Poll
<1>3. ASSUME NEW e \in batch, OnRead(e), telling = {}
      PROVE  BatchOnce'
  BY <1>3 DEF OnRead, BatchOnce
<1>4. ASSUME NEW c \in Conns, RecvBlocks(c)
      PROVE  BatchOnce'
  BY <1>4 DEF RecvBlocks, BatchOnce
<1>5. CASE \/ \E e \in batch : (\E c \in Clients : OnAccept(e, c)) \/ OnConnected(e) \/ Ignore(e)
           \/ \E c \in Conns : RecvSome(c) \/ Tell(c) \/ EventClose(c)
  BY <1>1, <1>5 DEF OnAccept, OnConnected, Ignore, RecvSome, Tell, EventClose
<1>6. CASE WorkerStep
  BY <1>2, <1>3, <1>4, <1>5, <1>6 DEF WorkerStep
<1>7. CASE ServiceStep \/ PeerStep \/ UNCHANGED vars
  BY <1>1, <1>7, ServiceFrame, PeerFrame DEF workerVars, vars
<1> QED BY <1>6, <1>7 DEF OneSideStep

\* Nothing but the worker takes bytes out of the kernel.
LEMMA KernelKeeps ==
  ASSUME Typed, PeerStep, NEW c \in Conns, rx[c] # <<>> \/ c \in fin
  PROVE  rx'[c] # <<>> \/ c \in fin'
<1>1. ASSUME NEW d \in Conns, NEW b \in Bytes, PeerSends(d, b)
      PROVE  rx'[c] # <<>> \/ c \in fin'
  <2>1. /\ rx' = [rx EXCEPT ![d] = Append(rx[d], b)]
        /\ rx \in [Conns -> Seq(Bytes)] /\ fin' = fin
    BY <1>1 DEF PeerSends, Typed, KernelType
  <2>2. Append(rx[d], b) # <<>>
    BY <2>1
  <2> QED BY <2>1, <2>2
<1>2. ASSUME rx' = rx
      PROVE  rx'[c] # <<>> \/ c \in fin'
  BY <1>2, PeerFrame
<1> QED BY <1>1, <1>2 DEF PeerStep, Arrive, Establish, PeerCloses, Hangup

\* READ, RDHUP and a recv that has counted nothing keep their reasons.
LEMMA EventsTrueStep == TypeOK /\ WorkerInv /\ [OneSideStep]_vars => EventsTrue'
<1> SUFFICES ASSUME TypeOK, Typed, WorkerInv, [OneSideStep]_vars
             PROVE  EventsTrue'
  BY TypeParts
<1>0. EventsTrue /\ ret \in Nat /\ cur \subseteq Conns
  BY SocketAssumption DEF WorkerInv, Typed, WorkerType
<1>1. ASSUME batch' \subseteq batch, cur' \subseteq cur, ret' = ret, rx' = rx, fin' = fin, hup' = hup
      PROVE  EventsTrue'
  BY <1>0, <1>1 DEF EventsTrue
<1>2. CASE Poll
  <2>1. UNCHANGED <<rx, fin, hup, cur>>
    BY <1>2 DEF Poll, kernelVars
  <2>2. \A e \in batch' : e.fd \in Conns \/ e.fd = Listener
    BY <1>2, PollReturns DEF Typed, EpollType, Fds
  <2> QED BY <1>2, <2>1, <2>2, PollReturns DEF EventsTrue
<1>3. ASSUME NEW e \in batch, OnRead(e)
      PROVE  EventsTrue'
  BY <1>0, <1>3 DEF OnRead, EventsTrue, kernelVars
<1>4. ASSUME NEW c \in Conns, RecvSome(c)
      PROVE  EventsTrue'
  <2>1. PICK n \in Nat \ {0} : (\A d \in Conns \ {c} : rx'[d] = rx[d]) /\ ret' = ret + n
    BY <1>4, RecvSomeDoes
  <2>2. ret' # 0
    BY <1>0, <2>1
  <2>3. c \in cur /\ UNCHANGED <<fin, hup, batch, cur>>
    BY <1>4 DEF RecvSome
  <2>4. \A e \in batch : e.fd # c
    BY <2>3, InRecv
  <2> QED BY <1>0, <2>1, <2>2, <2>3, <2>4 DEF EventsTrue
<1>5. CASE \/ \E e \in batch : (\E c \in Clients : OnAccept(e, c)) \/ OnConnected(e) \/ Ignore(e)
           \/ \E c \in Conns : RecvBlocks(c) \/ Tell(c) \/ EventClose(c)
  BY <1>1, <1>5 DEF OnAccept, OnConnected, Ignore, RecvBlocks, Tell, EventClose, kernelVars
<1>6. CASE WorkerStep
  BY <1>2, <1>3, <1>4, <1>5, <1>6 DEF WorkerStep
<1>7. CASE PeerStep
  <2>1. /\ UNCHANGED <<batch, cur, ret>>
        /\ fin \subseteq fin' /\ hup \subseteq hup'
    BY <1>7, PeerFrame DEF workerVars
  <2> QED BY <1>0, <1>7, <2>1, KernelKeeps DEF EventsTrue
<1>8. CASE ServiceStep \/ UNCHANGED vars
  BY <1>1, <1>8, ServiceFrame DEF kernelVars, workerVars, vars
<1> QED BY <1>6, <1>7, <1>8 DEF OneSideStep

-----------------------------------------------------------------------------
(* The tables of both sides.                                               *)

\* No record of socket.lua goes, for a coroutine that opens is woken when connected.
LEMMA PoolGrows ==
  ASSUME Openers, ServiceStep \/ WorkerStep \/ PeerStep \/ UNCHANGED vars
  PROVE  socket_pool \subseteq socket_pool'
<1>1. ASSUME NEW c \in Conns, Resume(c)
      PROVE  socket_pool' = socket_pool
  BY <1>1 DEF Resume, Opened, Openers
<1>2. CASE Handle
  BY <1>2 DEF Handle, OnConnectMessage, OnData, OnServerConnect, recordVars
<1>3. ASSUME NEW c \in Conns, (\E n \in 1 .. MaxBytes : Recv(c, n)) \/ Recvline(c)
      PROVE  socket_pool' = socket_pool
  BY <1>3 DEF Recv, Recvline, recordVars
<1>4. CASE \/ \E c \in Clients, func \in BOOLEAN : Start(c, func)
           \/ \E s \in Servers : Open(s) \/ OpenFails(s)
  BY <1>4 DEF Start, Open, OpenFails, luaVars, recordVars
<1>5. CASE ServiceStep
  BY <1>1, <1>2, <1>3, <1>4, <1>5 DEF ServiceStep
<1>6. CASE WorkerStep \/ PeerStep \/ UNCHANGED vars
  BY <1>6, WorkerFrame, PeerFrame DEF vars, luaVars, recordVars
<1> QED BY <1>5, <1>6

\* What the service's calls do to the tables it shares with the worker.
LEMMA ServiceTables ==
  ASSUME Typed, ServiceStep
  PROVE  \/ UNCHANGED <<epollVars, connVars>>
         \/ \E c \in Clients, func \in BOOLEAN : Start(c, func)
         \/ \E s \in Servers : Open(s) \/ OpenFails(s)
  BY DEF ServiceStep, Handle, Recv, Recvline, Resume

\* Watching a descriptor.
LEMMA WatchDoes ==
  ASSUME EpollType, NEW fd \in Fds, NEW events, NEW edge, Watch(fd, events, edge)
  PROVE  /\ interest'[fd] = events
         /\ \A d \in Fds \ {fd} : interest'[d] = interest[d] /\ (d \in ready' <=> d \in ready)
         /\ ready \subseteq ready'
         /\ Condition(fd) \cap (events \cup {"HUP"}) # {} => fd \in ready'
  BY DEF Watch, EpollType

\* delete_connect forgets a descriptor.
LEMMA DeleteDoes ==
  ASSUME Typed, NEW fd \in Fds, DeleteConnect(fd)
  PROVE  /\ interest'[fd] = {} /\ fd \notin ready'
         /\ fd \notin connects_' /\ fd \notin service_map_'
         /\ \A d \in Fds \ {fd} :
              /\ interest'[d] = interest[d] /\ (d \in ready' <=> d \in ready)
              /\ (d \in connects_' <=> d \in connects_)
              /\ (d \in service_map_' <=> d \in service_map_)
  BY DEF DeleteConnect, Typed, EpollType

\* epoll and the worker deal with what is in the tables of both sides.
LEMMA OnlyServedStep == TypeOK /\ WorkerInv /\ Openers /\ [OneSideStep]_vars => OnlyServed'
<1> SUFFICES ASSUME TypeOK, Typed, WorkerInv, Openers, [OneSideStep]_vars
             PROVE  OnlyServed'
  BY TypeParts
<1>0. /\ OnlyServed /\ cur \subseteq Conns /\ telling \subseteq Conns
      /\ Conns \subseteq Fds /\ Clients \subseteq Conns /\ Servers \subseteq Conns
      /\ Listener \notin Conns /\ Clients \cap Servers = {} /\ Listener \in Fds
      /\ socket_pool \subseteq socket_pool'
  BY SocketAssumption, PoolGrows DEF WorkerInv, Typed, WorkerType, Conns, Fds, OneSideStep
<1>1. ASSUME UNCHANGED <<interest, connVars>>,
             \A c \in Conns : c \in ready' => interest[c] # {},
             \A e \in batch' : e.fd \in Conns => Served(e.fd),
             \A c \in cur' \cup telling' : Served(c),
             \A c \in cur' : c \in Servers => statu_[c] = "CONNECTED"
      PROVE  OnlyServed'
  BY <1>0, <1>1 DEF OnlyServed, Served, connVars
<1>2. CASE Poll
  <2>1. UNCHANGED <<interest, connVars, cur, telling>>
    BY <1>2 DEF Poll
  <2>2. \A e \in batch' : e.fd \in ready
    BY <1>2, PollReturns
  <2>3. \A c \in Conns : c \in ready' => interest[c] # {}
    BY <1>0, <1>2, PollReturns DEF OnlyServed
  <2>4. \A e \in batch' : e.fd \in Conns => Served(e.fd)
    BY <1>0, <2>2 DEF OnlyServed
  <2>5. /\ \A c \in cur' \cup telling' : Served(c)
        /\ \A c \in cur' : c \in Servers => statu_[c] = "CONNECTED"
    BY <1>0, <2>1 DEF OnlyServed
  <2> QED BY <1>1, <2>1, <2>3, <2>4, <2>5
<1>3. ASSUME NEW e \in batch, NEW c \in Clients, OnAccept(e, c)
      PROVE  OnlyServed'
  <2>1. /\ UNCHANGED <<interest, ready, cur, telling, service_map_, statu_>>
        /\ batch' \subseteq batch /\ connects_ \subseteq connects_'
    BY <1>3 DEF OnAccept, epollVars
  <2> QED BY <1>0, <2>1 DEF OnlyServed, Served
<1>4. ASSUME NEW e \in batch, OnConnected(e)
      PROVE  OnlyServed'
  <2>1. /\ UNCHANGED <<cur, telling, connects_, service_map_>> /\ batch' \subseteq batch
        /\ e.fd \in Servers /\ Watch(e.fd, {"IN"}, FALSE)
        /\ statu_' = [statu_ EXCEPT ![e.fd] = "CONNECTED"]
    BY <1>4 DEF OnConnected
  <2>2. \A s \in Servers : statu_[s] = "CONNECTED" => statu_'[s] = "CONNECTED"
    BY <2>1 DEF Typed, ConnType
  <2>3. /\ interest'[e.fd] = {"IN"}
        /\ \A d \in Conns \ {e.fd} : interest'[d] = interest[d] /\ (d \in ready' <=> d \in ready)
    BY <1>0, <2>1, WatchDoes DEF Typed
  <2> QED BY <1>0, <2>1, <2>2, <2>3 DEF OnlyServed, Served
<1>5. ASSUME NEW e \in batch, OnRead(e)
      PROVE  OnlyServed'
  <2>1. /\ UNCHANGED <<interest, ready, connVars, telling>> /\ batch' \subseteq batch
        /\ cur' = {e.fd} /\ e.fd \in Conns /\ Dispatching(e)
    BY <1>5 DEF OnRead, epollVars
  <2> QED BY <1>0, <1>1, <2>1 DEF OnlyServed, Dispatching
<1>6. ASSUME NEW c \in Conns, EventClose(c)
      PROVE  OnlyServed'
  <2>1. /\ c \in cur /\ cur' = {} /\ UNCHANGED <<batch, telling, statu_>> /\ DeleteConnect(c)
    BY <1>6 DEF EventClose
  <2>2. telling' = {} /\ \A e \in batch' : e.fd # c
    BY <2>1, InRecv
  <2> QED BY <1>0, <2>1, <2>2, DeleteDoes DEF OnlyServed, Served
<1>7. CASE \/ \E e \in batch : Ignore(e)
           \/ \E c \in Conns : RecvSome(c) \/ RecvBlocks(c) \/ Tell(c)
  <2>1. /\ UNCHANGED <<interest, ready, connVars>> /\ batch' \subseteq batch /\ cur' \subseteq cur
        /\ telling' \subseteq telling \cup cur
    BY <1>7 DEF Ignore, RecvSome, RecvBlocks, Tell, epollVars
  <2> QED BY <1>0, <1>1, <2>1 DEF OnlyServed
<1>8. CASE WorkerStep
  BY <1>2, <1>3, <1>4, <1>5, <1>6, <1>7, <1>8 DEF WorkerStep
<1>9. CASE PeerStep
  BY <1>0, <1>1, <1>9, PeerFrame DEF OnlyServed, workerVars
<1>10. ASSUME UNCHANGED workerVars, UNCHANGED <<epollVars, connVars>>
       PROVE  OnlyServed'
  BY <1>0, <1>1, <1>10 DEF OnlyServed, workerVars, epollVars
<1>11. ASSUME UNCHANGED workerVars, NEW c \in Clients, NEW func \in BOOLEAN, Start(c, func)
       PROVE  OnlyServed'
  <2>1. /\ c \in connects_ /\ c \in socket_pool /\ UNCHANGED <<connects_, statu_>>
        /\ service_map_' = service_map_ \cup {c} /\ Watch(c, {"IN"}, TRUE)
    BY <1>11 DEF Start, Idle
  <2>2. /\ interest'[c] = {"IN"}
        /\ \A d \in Conns \ {c} : interest'[d] = interest[d] /\ (d \in ready' <=> d \in ready)
    BY <1>0, <2>1, WatchDoes DEF Typed
  <2> QED BY <1>0, <1>11, <2>1, <2>2 DEF OnlyServed, Served, workerVars
<1>12. ASSUME UNCHANGED workerVars, NEW s \in Servers, Open(s)
       PROVE  OnlyServed'
  <2>1. /\ statu_[s] = "NONE" /\ statu_' = [statu_ EXCEPT ![s] = "CONNECTING"]
        /\ service_map_' = service_map_ \cup {s} /\ connects_' = connects_ \cup {s}
        /\ socket_pool' = socket_pool \cup {s} /\ Watch(s, {"OUT"}, TRUE)
    BY <1>12 DEF Open
  <2>2. \A t \in Servers : statu_[t] = "CONNECTED" => statu_'[t] = "CONNECTED"
    BY <2>1 DEF Typed, ConnType
  <2>3. /\ interest'[s] = {"OUT"}
        /\ \A d \in Conns \ {s} : interest'[d] = interest[d] /\ (d \in ready' <=> d \in ready)
    BY <1>0, <2>1, WatchDoes DEF Typed
  <2> QED BY <1>0, <1>12, <2>1, <2>2, <2>3 DEF OnlyServed, Served, workerVars
<1>13. ASSUME UNCHANGED workerVars, NEW s \in Servers, OpenFails(s)
       PROVE  OnlyServed'
  <2>1. /\ statu_[s] = "NONE" /\ statu_' = [statu_ EXCEPT ![s] = "ERROR"]
        /\ service_map_' = service_map_ \cup {s} /\ connects_' = connects_ \cup {s}
        /\ UNCHANGED <<interest, ready, socket_pool>>
    BY <1>13 DEF OpenFails, epollVars, luaVars, recordVars
  <2>2. \A t \in Servers : statu_[t] = "CONNECTED" => statu_'[t] = "CONNECTED"
    BY <2>1 DEF Typed, ConnType
  <2> QED BY <1>0, <1>13, <2>1, <2>2 DEF OnlyServed, Served, workerVars
<1>14. CASE ServiceStep
  BY <1>10, <1>11, <1>12, <1>13, <1>14, ServiceFrame, ServiceTables
<1>15. CASE UNCHANGED vars
  BY <1>10, <1>15 DEF vars
<1> QED BY <1>8, <1>9, <1>14, <1>15 DEF OneSideStep

\* Who has a message's descriptor: each handler deals with one connection.
LEMMA Handled ==
  ASSUME Typed, Handle
  PROVE  \E m \in Messages :
           /\ m = Head(mailbox) /\ m.fd \in Conns /\ mailbox # <<>>
           /\ mailbox' = Tail(mailbox) /\ woken = {}
           /\ UNCHANGED <<kernelVars, epollVars, workerVars, connVars>>
           /\ \/ m.type = "CONNECT" /\ OnConnectMessage(m.fd)
              \/ m.type = "DATA" /\ OnData(m.fd)
              \/ m.type = "SERVER_CONNECT" /\ OnServerConnect(m.fd)
<1>1. Head(mailbox) \in Messages
  BY DEF Handle, Typed, MailType
<1>2. Head(mailbox).fd \in Conns
  BY <1>1 DEF Messages
<1> QED BY <1>1, <1>2 DEF Handle

\* Records are made for messages that connect a client, and for servers that are opened.
LEMMA NewRecords ==
  ASSUME TypeOK, Typed, AcceptedOnce, WorkerStep \/ ServiceStep \/ PeerStep \/ UNCHANGED vars
  PROVE  \A c \in socket_pool' :
           \/ c \in socket_pool
           \/ c \in Servers /\ statu_[c] = "NONE" /\ Open(c)
           \/ /\ c \in Clients /\ Handle /\ OnConnectMessage(c)
              /\ Head(mailbox).type = "CONNECT" /\ Head(mailbox).fd = c
<1>1. CASE Handle
  <2>1. PICK m \in Messages :
           /\ m = Head(mailbox) /\ mailbox # <<>> /\ mailbox' = Tail(mailbox)
           /\ \/ m.type = "CONNECT" /\ OnConnectMessage(m.fd)
              \/ OnData(m.fd) \/ OnServerConnect(m.fd)
    BY <1>1, Handled
  <2>2. CASE m.type = "CONNECT" /\ OnConnectMessage(m.fd)
    <3>1. 1 \in DOMAIN mailbox /\ mailbox[1] = m
      BY <2>1, TailMail DEF Typed
    <3>2. m.fd \in Clients
      BY <2>2, <3>1 DEF AcceptedOnce
    <3> QED BY <1>1, <2>1, <2>2, <3>2 DEF OnConnectMessage
  <2>3. CASE OnData(m.fd) \/ OnServerConnect(m.fd)
    BY <2>3 DEF OnData, OnServerConnect, recordVars
  <2> QED BY <2>1, <2>2, <2>3
<1>2. ASSUME NEW c \in Conns, Resume(c)
      PROVE  socket_pool' \subseteq socket_pool
  BY <1>2 DEF Resume, Opened
<1>3. ASSUME NEW c \in Conns, (\E n \in 1 .. MaxBytes : Recv(c, n)) \/ Recvline(c)
      PROVE  socket_pool' = socket_pool
  BY <1>3 DEF Recv, Recvline, recordVars
<1>4. CASE \/ \E c \in Clients, func \in BOOLEAN : Start(c, func)
           \/ \E s \in Servers : OpenFails(s)
  BY <1>4 DEF Start, OpenFails, luaVars, recordVars
<1>5. ASSUME NEW s \in Servers, Open(s)
      PROVE  statu_[s] = "NONE" /\ socket_pool' = socket_pool \cup {s}
  BY <1>5 DEF Open
<1>6. CASE WorkerStep \/ PeerStep \/ UNCHANGED vars
  BY <1>6, WorkerFrame, PeerFrame DEF vars, luaVars, recordVars
<1> QED BY <1>1, <1>2, <1>3, <1>4, <1>5, <1>6 DEF ServiceStep

\* What is watched of whom.
LEMMA WatchedStep == TypeOK /\ IInv /\ [OneSideStep]_vars => Watched'
<1> SUFFICES ASSUME TypeOK, Typed, IInv, [OneSideStep]_vars
             PROVE  Watched'
  BY TypeParts
<1>0. /\ Watched /\ OnlyServed /\ AcceptedOnce /\ WorkerInv
      /\ Conns \subseteq Fds /\ Clients \subseteq Conns /\ Servers \subseteq Conns
      /\ Clients \cap Servers = {} /\ cur \subseteq Conns
  BY SocketAssumption DEF IInv, WorkerInv, TableInv, Typed, WorkerType, Conns, Fds
<1>1. WorkerStep \/ ServiceStep \/ PeerStep \/ UNCHANGED vars
  BY DEF OneSideStep
<1>2. socket_pool \subseteq socket_pool'
  BY <1>1, PoolGrows DEF IInv, ServiceInv
<1>3. \A c \in socket_pool' :
           c \in socket_pool \/ c \in Clients \/ (c \in Servers /\ Open(c))
  BY <1>0, <1>1, NewRecords
<1>4. \A s \in Servers : s \in up' => s \in up \/ statu_[s] = "CONNECTING"
  <2>1. CASE PeerStep
    BY <1>0, <2>1 DEF PeerStep, Arrive, Establish, PeerCloses, Hangup, PeerSends
  <2>2. CASE ~PeerStep
    BY <1>1, <2>2, WorkerFrame, ServiceFrame DEF kernelVars, vars
  <2> QED BY <2>1, <2>2
<1>5. ASSUME UNCHANGED <<interest, connVars>>, ~(\E s \in Servers : Open(s))
      PROVE  Watched'
  BY <1>0, <1>2, <1>3, <1>4, <1>5 DEF Watched, connVars
<1>6. ASSUME NEW e \in batch, NEW c \in Clients, OnAccept(e, c)
      PROVE  Watched'
  <2>1. /\ UNCHANGED <<interest, service_map_, statu_, socket_pool, up>>
        /\ connects_' = connects_ \cup {c} /\ c \in backlog
    BY <1>6 DEF OnAccept, epollVars, recordVars
  <2>2. c \notin service_map_
    BY <1>0, <2>1 DEF AcceptedOnce, Watched
  <2> QED BY <1>0, <2>1, <2>2 DEF Watched
<1>7. ASSUME NEW e \in batch, OnConnected(e)
      PROVE  Watched'
  <2>1. /\ UNCHANGED <<connects_, service_map_, socket_pool, up>>
        /\ e.fd \in Servers /\ Watch(e.fd, {"IN"}, FALSE) /\ statu_[e.fd] = "CONNECTING"
        /\ statu_' = [statu_ EXCEPT ![e.fd] = "CONNECTED"]
    BY <1>7 DEF OnConnected, kernelVars, recordVars
  <2>2. /\ statu_'[e.fd] = "CONNECTED"
        /\ \A s \in Servers \ {e.fd} : statu_'[s] = statu_[s]
    BY <2>1 DEF Typed, ConnType
  <2>3. /\ interest'[e.fd] = {"IN"}
        /\ \A d \in Conns \ {e.fd} : interest'[d] = interest[d]
    BY <1>0, <2>1, WatchDoes DEF Typed
  <2> QED BY <1>0, <2>1, <2>2, <2>3 DEF Watched
<1>8. ASSUME NEW c \in Conns, EventClose(c)
      PROVE  Watched'
  <2>1. /\ c \in cur /\ UNCHANGED <<statu_, socket_pool, up>> /\ DeleteConnect(c)
    BY <1>8 DEF EventClose, kernelVars, recordVars
  <2>2. c \in Servers => statu_[c] = "CONNECTED"
    BY <1>0, <2>1 DEF OnlyServed
  <2>3. /\ c \notin connects_' /\ c \notin service_map_'
        /\ \A d \in Conns \ {c} :
              /\ interest'[d] = interest[d]
              /\ (d \in connects_' <=> d \in connects_)
              /\ (d \in service_map_' <=> d \in service_map_)
    BY <1>0, <2>1, DeleteDoes
  <2> QED BY <1>0, <2>1, <2>2, <2>3 DEF Watched
<1>9. CASE \/ Poll
           \/ \E e \in batch : OnRead(e) \/ Ignore(e)
           \/ \E c \in Conns : RecvSome(c) \/ RecvBlocks(c) \/ Tell(c)
  <2>1. UNCHANGED <<interest, connVars, kernelVars, recordVars>> \/ UNCHANGED <<interest, connVars, recordVars>>
    BY <1>9 DEF Poll, OnRead, Ignore, RecvSome, RecvBlocks, Tell, epollVars, luaVars
  <2>2. UNCHANGED socket_pool
    BY <2>1 DEF recordVars
  <2> QED BY <1>0, <1>4, <2>1, <2>2 DEF Watched, connVars
<1>10. CASE WorkerStep
  BY <1>6, <1>7, <1>8, <1>9, <1>10 DEF WorkerStep
<1>11. CASE PeerStep
  <2>1. UNCHANGED <<interest, connVars, socket_pool>>
    BY <1>11, PeerFrame DEF luaVars, recordVars
  <2> QED BY <1>0, <1>4, <2>1 DEF Watched, connVars
<1>12. ASSUME ServiceStep, NEW c \in Clients, NEW func \in BOOLEAN, Start(c, func)
       PROVE  Watched'
  <2>1. /\ c \in socket_pool /\ UNCHANGED <<connects_, statu_, socket_pool, up>>
        /\ service_map_' = service_map_ \cup {c} /\ Watch(c, {"IN"}, TRUE)
    BY <1>12 DEF Start, Idle, kernelVars
  <2>2. /\ interest'[c] = {"IN"}
        /\ \A d \in Conns \ {c} : interest'[d] = interest[d]
    BY <1>0, <2>1, WatchDoes DEF Typed
  <2> QED BY <1>0, <2>1, <2>2 DEF Watched
<1>13. ASSUME NEW s \in Servers, Open(s)
       PROVE  Watched'
  <2>1. /\ statu_[s] = "NONE" /\ statu_' = [statu_ EXCEPT ![s] = "CONNECTING"]
        /\ service_map_' = service_map_ \cup {s} /\ connects_' = connects_ \cup {s}
        /\ socket_pool' = socket_pool \cup {s} /\ Watch(s, {"OUT"}, TRUE) /\ up' = up
    BY <1>13 DEF Open, kernelVars
  <2>2. /\ statu_'[s] = "CONNECTING"
        /\ \A t \in Servers \ {s} : statu_'[t] = statu_[t]
    BY <2>1 DEF Typed, ConnType
  <2>3. /\ interest'[s] = {"OUT"}
        /\ \A d \in Conns \ {s} : interest'[d] = interest[d]
    BY <1>0, <2>1, WatchDoes DEF Typed
  <2> QED BY <1>0, <2>1, <2>2, <2>3 DEF Watched
<1>14. ASSUME NEW s \in Servers, OpenFails(s)
       PROVE  Watched'
  <2>1. /\ statu_[s] = "NONE" /\ statu_' = [statu_ EXCEPT ![s] = "ERROR"]
        /\ service_map_' = service_map_ \cup {s} /\ connects_' = connects_ \cup {s}
        /\ UNCHANGED <<interest, socket_pool, up>>
    BY <1>14 DEF OpenFails, epollVars, luaVars, recordVars, kernelVars
  <2>2. /\ statu_'[s] = "ERROR"
        /\ \A t \in Servers \ {s} : statu_'[t] = statu_[t]
    BY <2>1 DEF Typed, ConnType
  <2> QED BY <1>0, <2>1, <2>2 DEF Watched
<1>15. CASE ServiceStep
  <2>1. CASE UNCHANGED <<epollVars, connVars>>
    BY <1>5, <1>13, <2>1 DEF epollVars
  <2> QED BY <1>12, <1>13, <1>14, <1>15, <2>1, ServiceTables
<1>16. CASE UNCHANGED vars
  BY <1>5, <1>13, <1>16 DEF vars, epollVars
<1> QED BY <1>1, <1>10, <1>11, <1>15, <1>16

\* Each client comes once: AcceptedOnce.
LEMMA AcceptedOnceStep == TypeOK /\ IInv /\ [OneSideStep]_vars => AcceptedOnce'
<1> SUFFICES ASSUME TypeOK, Typed, IInv, [OneSideStep]_vars
             PROVE  AcceptedOnce'
  BY TypeParts
<1>0. /\ Watched /\ OnlyServed /\ AcceptedOnce /\ MailType
      /\ Clients \subseteq Conns /\ Servers \subseteq Conns
      /\ Clients \cap Servers = {} /\ cur \subseteq Conns /\ telling \subseteq Conns
  BY SocketAssumption DEF IInv, WorkerInv, TableInv, Typed, WorkerType, Conns
<1>1. WorkerStep \/ ServiceStep \/ PeerStep \/ UNCHANGED vars
  BY DEF OneSideStep
<1>2. socket_pool \subseteq socket_pool'
  BY <1>1, PoolGrows DEF IInv, ServiceInv
<1>3. ASSUME mailbox' = mailbox, up \subseteq up', UNCHANGED backlog,
             \A c \in socket_pool' : c \in socket_pool \/ c \in Servers
      PROVE  AcceptedOnce'
  BY <1>0, <1>2, <1>3 DEF AcceptedOnce, InMailbox
<1>4. ASSUME NEW e \in batch, NEW c \in Clients, OnAccept(e, c)
      PROVE  AcceptedOnce'
  <2>1. /\ c \in backlog /\ backlog' = backlog \ {c} /\ UNCHANGED <<up, socket_pool>>
        /\ Send(service_map_, Listener, "CONNECT", c)
    BY <1>4 DEF OnAccept, recordVars
  <2>2. c \in up /\ c \notin socket_pool /\ ~InMailbox(c, "CONNECT")
    BY <1>0, <2>1 DEF AcceptedOnce
  <2>3. /\ \A i \in DOMAIN mailbox' :
              \/ i \in DOMAIN mailbox /\ mailbox'[i] = mailbox[i]
              \/ /\ i = Len(mailbox) + 1 /\ i \notin DOMAIN mailbox
                 /\ mailbox'[i] = [type |-> "CONNECT", fd |-> c]
        /\ \A d, t : InMailbox(d, t)' => InMailbox(d, t) \/ (d = c /\ t = "CONNECT")
    BY <1>0, <2>1, SendMail
  <2>4. /\ backlog' \subseteq up'
        /\ \A d \in Clients :
             d \in backlog' \/ d \notin up' => d \notin socket_pool' /\ ~InMailbox(d, "CONNECT")'
    BY <1>0, <2>1, <2>2, <2>3 DEF AcceptedOnce
  <2>5. \A i \in DOMAIN mailbox : mailbox[i] # [type |-> "CONNECT", fd |-> c]
    BY <2>2 DEF InMailbox
  <2>6. \A i \in DOMAIN mailbox' :
          /\ mailbox'[i].type = "CONNECT" => mailbox'[i].fd \in Clients /\ mailbox'[i].fd \notin socket_pool'
          /\ mailbox'[i].type = "DATA" => mailbox'[i].fd \in socket_pool'
          /\ mailbox'[i].type = "SERVER_CONNECT" => mailbox'[i].fd \in Servers
    BY <1>0, <2>1, <2>2, <2>3 DEF AcceptedOnce
  <2>7. \A i, j \in DOMAIN mailbox' :
          mailbox'[i].type = "CONNECT" /\ mailbox'[i] = mailbox'[j] => i = j
    BY <1>0, <2>3, <2>5 DEF AcceptedOnce
  <2> QED BY <2>4, <2>6, <2>7 DEF AcceptedOnce
<1>5. ASSUME NEW served, NEW fd, NEW type \in {"DATA", "SERVER_CONNECT", "DISCONNECT"}, NEW c,
             Send(served, fd, type, c), type = "DATA" => c \in socket_pool,
             type = "SERVER_CONNECT" => c \in Servers, UNCHANGED <<up, backlog, socket_pool>>
      PROVE  AcceptedOnce'
  <2>1. /\ \A i \in DOMAIN mailbox' :
              \/ i \in DOMAIN mailbox /\ mailbox'[i] = mailbox[i]
              \/ mailbox'[i] = [type |-> type, fd |-> c]
        /\ \A d, t : InMailbox(d, t)' => InMailbox(d, t) \/ (d = c /\ t = type)
    BY <1>0, <1>5, SendMail
  <2>2. \A i \in DOMAIN mailbox' :
          /\ mailbox'[i].type = "CONNECT" => i \in DOMAIN mailbox /\ mailbox'[i] = mailbox[i]
          /\ mailbox'[i].type = "DATA" => mailbox'[i].fd \in socket_pool'
          /\ mailbox'[i].type = "SERVER_CONNECT" => mailbox'[i].fd \in Servers
    BY <1>0, <1>5, <2>1 DEF AcceptedOnce
  <2>3. \A i, j \in DOMAIN mailbox' :
          mailbox'[i].type = "CONNECT" /\ mailbox'[i] = mailbox'[j] => i = j
    BY <1>0, <2>2 DEF AcceptedOnce
  <2> QED BY <1>0, <1>5, <2>1, <2>2, <2>3 DEF AcceptedOnce
<1>6. ASSUME NEW e \in batch, OnConnected(e)
      PROVE  AcceptedOnce'
  BY <1>5, <1>6 DEF OnConnected, kernelVars, recordVars
<1>7. ASSUME NEW c \in Conns, Tell(c)
      PROVE  AcceptedOnce'
  <2>1. c \in socket_pool
    BY <1>0, <1>7 DEF Tell, OnlyServed, Served
  <2> QED BY <1>5, <1>7, <2>1 DEF Tell, kernelVars, recordVars
<1>8. ASSUME NEW c \in Conns, EventClose(c)
      PROVE  AcceptedOnce'
  <2>1. Send(service_map_', c, "DISCONNECT", c) /\ UNCHANGED <<up, backlog, socket_pool>>
    BY <1>8 DEF EventClose, kernelVars, recordVars
  <2> QED BY <1>5, <2>1
<1>9. CASE \/ Poll
           \/ \E e \in batch : OnRead(e) \/ Ignore(e)
           \/ \E c \in Conns : RecvSome(c) \/ RecvBlocks(c)
  <2>1. UNCHANGED <<up, backlog, luaVars>>
    BY <1>9 DEF Poll, OnRead, Ignore, RecvSome, RecvBlocks, kernelVars
  <2> QED BY <1>3, <2>1 DEF luaVars, recordVars
<1>10. CASE WorkerStep
  BY <1>4, <1>6, <1>7, <1>8, <1>9, <1>10 DEF WorkerStep
<1>11. CASE PeerStep
  <2>1. UNCHANGED <<mailbox, socket_pool>> /\ up \subseteq up'
    BY <1>11, PeerFrame DEF luaVars, recordVars
  <2>2. ASSUME NEW c \in Clients, Arrive(c)
        PROVE  AcceptedOnce'
    <3>1. c \notin up /\ up' = up \cup {c} /\ backlog' = backlog \cup {c}
      BY <2>2 DEF Arrive
    <3> QED BY <1>0, <2>1, <3>1 DEF AcceptedOnce, InMailbox
  <2>3. CASE \/ \E s \in Servers : Establish(s)
             \/ \E c \in Conns : PeerCloses(c) \/ Hangup(c) \/ \E b \in Bytes : PeerSends(c, b)
    <3>1. UNCHANGED backlog
      BY <2>3 DEF Establish, PeerCloses, Hangup, PeerSends
    <3> QED BY <1>3, <2>1, <3>1
  <2> QED BY <1>11, <2>2, <2>3 DEF PeerStep
<1>12. CASE Handle
  <2>1. PICK m \in Messages :
           /\ m = Head(mailbox) /\ m.fd \in Conns /\ mailbox # <<>>
           /\ mailbox' = Tail(mailbox) /\ UNCHANGED kernelVars
           /\ \/ m.type = "CONNECT" /\ OnConnectMessage(m.fd)
              \/ OnData(m.fd) \/ OnServerConnect(m.fd)
    BY <1>12, Handled
  <2>2. /\ 1 \in DOMAIN mailbox /\ mailbox[1] = m
        /\ \A i \in DOMAIN mailbox' :
             /\ i + 1 \in DOMAIN mailbox /\ i + 1 # 1
             /\ mailbox'[i] = mailbox[i + 1]
        /\ \A i, j \in DOMAIN mailbox' : i + 1 = j + 1 => i = j
        /\ \A c, t : InMailbox(c, t)' => InMailbox(c, t)
    BY <1>0, <2>1, TailMail
  <2>3. UNCHANGED <<up, backlog>>
    BY <2>1 DEF kernelVars
  <2>4. \A c \in socket_pool' :
           \/ c \in socket_pool
           \/ m.type = "CONNECT" /\ c = m.fd
    BY <2>1 DEF OnConnectMessage, OnData, OnServerConnect, recordVars
  <2>5. m.type = "CONNECT" => InMailbox(m.fd, "CONNECT") /\ m = [type |-> "CONNECT", fd |-> m.fd]
    BY <2>1, <2>2 DEF InMailbox, Messages
  <2>6. \A d \in Clients :
           d \in backlog' \/ d \notin up' => d \notin socket_pool' /\ ~InMailbox(d, "CONNECT")'
    BY <1>0, <2>2, <2>3, <2>4, <2>5 DEF AcceptedOnce
  <2>7. ASSUME NEW i \in DOMAIN mailbox'
        PROVE  /\ mailbox'[i].type = "CONNECT" =>
                    mailbox'[i].fd \in Clients /\ mailbox'[i].fd \notin socket_pool'
               /\ mailbox'[i].type = "DATA" => mailbox'[i].fd \in socket_pool'
               /\ mailbox'[i].type = "SERVER_CONNECT" => mailbox'[i].fd \in Servers
    <3> DEFINE n == i + 1
    <3>1. n \in DOMAIN mailbox /\ n # 1 /\ mailbox'[i] = mailbox[n]
      BY <2>2
    <3> HIDE DEF n
    <3>2. mailbox[n] \in Messages
      BY <1>0, <3>1 DEF MailType
    <3>3. mailbox[n].type = "CONNECT" =>
             mailbox[n].fd \in Clients /\ mailbox[n].fd \notin socket_pool /\ mailbox[n] # mailbox[1]
      BY <1>0, <2>2, <3>1 DEF AcceptedOnce
    <3>4. mailbox[n].type = "CONNECT" /\ m.type = "CONNECT" => mailbox[n].fd # m.fd
      BY <2>1, <2>2, <3>2, <3>3 DEF Messages
    <3> QED BY <1>0, <1>2, <2>4, <3>1, <3>3, <3>4 DEF AcceptedOnce
  <2>8. ASSUME NEW i \in DOMAIN mailbox', NEW j \in DOMAIN mailbox',
               mailbox'[i].type = "CONNECT", mailbox'[i] = mailbox'[j]
        PROVE  i = j
    <3>1. mailbox[i + 1].type = "CONNECT" /\ mailbox[i + 1] = mailbox[j + 1]
      BY <2>2, <2>8
    <3>2. i + 1 = j + 1
      BY <1>0, <2>2, <3>1 DEF AcceptedOnce
    <3> QED BY <2>2, <3>2
  <2>9. backlog' \subseteq up'
    BY <1>0, <2>3 DEF AcceptedOnce
  <2> QED BY <2>6, <2>7, <2>8, <2>9 DEF AcceptedOnce
<1>13. CASE ServiceStep /\ ~Handle
  <2>1. mailbox' = mailbox
    BY <1>13 DEF ServiceStep, Start, Open, OpenFails, Recv, Recvline, Resume, luaVars
  <2>2. \A c \in socket_pool' : c \in socket_pool \/ c \in Servers
    BY <1>0, <1>13, NewRecords
  <2>3. UNCHANGED <<up, backlog>>
    BY <1>13, ServiceFrame DEF kernelVars
  <2> QED BY <1>3, <2>1, <2>2, <2>3
<1>14. CASE UNCHANGED vars
  BY <1>3, <1>14 DEF vars, luaVars, kernelVars, recordVars
<1> QED BY <1>1, <1>10, <1>11, <1>12, <1>13, <1>14

-----------------------------------------------------------------------------
(* The coroutines that wait.                                               *)

\* What a coroutine waits for is one of four things.
LEMMA Kinds ==
  /\ Nothing # Line /\ Nothing # Opening /\ Line # Opening
  /\ Line \in Nat /\ Nothing \in Nat /\ Opening \in Nat /\ Line > 0
  /\ \A n \in 1 .. MaxBytes :
       n \in Nat /\ n > 0 /\ n # Nothing /\ n # Line /\ n # Opening
  /\ \A w \in 0 .. Opening :
       w \in Nat /\ (w = Nothing \/ w = Line \/ w = Opening \/ w \in 1 .. MaxBytes)
BY SocketAssumption DEF Nothing, Line, Opening

\* onbnet.wakeup of the coroutine of one connection.
LEMMA WakeDoes ==
  ASSUME NEW c, Wake(c)
  PROVE  /\ c \notin co' /\ (c \in woken' <=> c \in woken \/ c \in co)
         /\ \A d : d # c => (d \in co' <=> d \in co) /\ (d \in woken' <=> d \in woken)
  BY DEF Wake

\* suspend in socket.lua.
LEMMA SuspendDoes ==
  ASSUME WaitType, NEW c \in Conns, NEW w, Suspend(c, w)
  PROVE  /\ c \in co' /\ waits'[c] = w /\ UNCHANGED woken
         /\ \A d \in Conns \ {c} : waits'[d] = waits[d] /\ (d \in co' <=> d \in co)
  BY DEF Suspend, WaitType

\* DATA wakes the coroutine that waits, if what it waits for is there; if it does not,
\* there is nothing for it.
LEMMA OnDataDoes ==
  ASSUME TypeOK, Typed, Lens, Waiters, Lines, NEW c \in Conns, OnData(c)
  PROVE  /\ UNCHANGED <<recordVars, waits>>
         /\ \A d \in Conns \ {c} : /\ rbuffer'[d] = rbuffer[d]
                                   /\ last_read_pos'[d] = last_read_pos[d]
                                   /\ read_required'[d] = read_required[d]
                                   /\ (d \in co' <=> d \in co) /\ (d \in woken' <=> d \in woken)
         /\ \/ /\ c \in co /\ c \notin co' /\ c \in woken' /\ waits[c] # Opening
               /\ read_required'[c] = Nothing
               /\ c \in Servers => rbuffer'[c] = rbuffer[c] /\ last_read_pos'[c] = 0
               /\ waits[c] = Line => \E i \in DOMAIN rbuffer[c] : rbuffer[c][i] = "n"
            \/ /\ UNCHANGED <<read_required, co, woken>>
               /\ c \in co /\ c \in connects_ => ~Satisfied(c)'
               /\ c \in Servers => rbuffer'[c] = rbuffer[c]
               /\ \/ last_read_pos'[c] = last_read_pos[c]
                  \/ /\ c \in co /\ waits[c] = Line /\ last_read_pos'[c] <= Len(rbuffer[c])
                     /\ \A i \in DOMAIN rbuffer[c] : rbuffer[c][i] # "n"
<1> DEFINE need == read_required[c]
           b == rbuffer[c]
<1>0. /\ b \in Seq(Bytes) /\ Len(b) \in Nat /\ DOMAIN b = 1 .. Len(b)
      /\ need \in Nat /\ waits[c] \in 0 .. Opening /\ last_read_pos[c] \in Nat
  BY SocketAssumption DEF Typed, BufferType, WaitType, Line
<1>1. /\ need = IF c \in co /\ waits[c] # Opening THEN waits[c] ELSE Nothing
      /\ c \in callback => c \in Clients
      /\ waits[c] # Nothing <=> c \in co \cup woken
  BY DEF Waiters, WaiterIsKnown
<1>2. PICK all \in BOOLEAN :
        LET left == IF all THEN 0 ELSE Len(rbuffer[c])
            line == need = Line /\ ~all /\ c \in connects_
            met  == IF need = Line THEN line /\ LineLength(c) > 0
                                   ELSE c \in connects_ /\ Enough(need, left)
        IN  /\ all => c \in callback
            /\ IF all THEN Take(c, Len(rbuffer[c])) ELSE UNCHANGED rbuffer
            /\ IF line /\ left > 0 THEN SearchMoves(c) ELSE UNCHANGED last_read_pos
            /\ IF met
                 THEN /\ read_required' = [read_required EXCEPT ![c] = Nothing]
                      /\ Wake(c)
                 ELSE UNCHANGED <<read_required, co, woken>>
            /\ UNCHANGED <<recordVars, waits>>
  BY DEF OnData
<1>3. LineLength(c) > 0 <=> \E i \in last_read_pos[c] + 1 .. Len(b) : b[i] = "n"
  BY LineLengthIs
<1>4. LineLength(c) \in Nat
  BY LineLengthIs
<1>5. CASE all
  <2>1. /\ c \in Clients /\ c \notin Servers /\ Take(c, Len(b))
        /\ UNCHANGED <<last_read_pos, read_required, co, woken, recordVars, waits>>
    <3>1. ~Enough(need, 0)
      BY <1>0 DEF Enough
    <3> QED BY <1>1, <1>2, <1>5, <3>1, SocketAssumption
  <2>2. (\A d \in Conns \ {c} : rbuffer'[d] = rbuffer[d]) /\ rbuffer'[c] = <<>>
    BY <1>0, <2>1, TakeDoes
  <2>3. ~Satisfied(c)'
    <3>1. Len(rbuffer'[c]) = 0 /\ DOMAIN rbuffer'[c] = {}
      BY <2>2
    <3>2. ~(waits[c] \in 1 .. MaxBytes /\ 0 >= waits[c])
      BY Kinds
    <3> QED BY <2>1, <3>1, <3>2 DEF Satisfied
  <2> QED BY <2>1, <2>2, <2>3
<1>6. CASE ~all /\ need = Line /\ c \in connects_
  <2>1. /\ UNCHANGED <<rbuffer, recordVars, waits>>
        /\ IF Len(b) > 0 THEN SearchMoves(c) ELSE UNCHANGED last_read_pos
        /\ IF LineLength(c) > 0
             THEN /\ read_required' = [read_required EXCEPT ![c] = Nothing]
                  /\ Wake(c)
             ELSE UNCHANGED <<read_required, co, woken>>
    BY <1>2, <1>6
  <2>2. c \in co /\ waits[c] = Line /\ waits[c] # Opening
    BY <1>1, <1>6, Kinds
  <2>3. CASE LineLength(c) > 0
    <3>1. PICK i \in last_read_pos[c] + 1 .. Len(b) : b[i] = "n"
      BY <1>3, <2>3
    <3>2. i \in DOMAIN b /\ Len(b) > 0
      BY <1>0, <3>1
    <3>3. last_read_pos'[c] = 0 /\ \A d \in Conns \ {c} : last_read_pos'[d] = last_read_pos[d]
      BY <2>1, <2>3, <3>2, SearchMovesDoes
    <3>4. read_required'[c] = Nothing /\ \A d \in Conns \ {c} : read_required'[d] = read_required[d]
      BY <2>1, <2>3 DEF Typed, WaitType
    <3> QED BY <2>1, <2>2, <2>3, <3>1, <3>2, <3>3, <3>4, WakeDoes
  <2>4. CASE ~(LineLength(c) > 0)
    <3>1. LineLength(c) = 0 /\ UNCHANGED <<read_required, co, woken>>
      BY <1>4, <2>1, <2>4
    <3>2. /\ last_read_pos[c] <= Len(b)
          /\ \A i \in 1 .. last_read_pos[c] : b[i] # "n"
      BY <2>2 DEF Lines
    <3>3. \A i \in DOMAIN b : b[i] # "n"
      BY <1>0, <1>3, <2>4, <3>2
    <3>4. /\ last_read_pos'[c] <= Len(b)
          /\ \A d \in Conns \ {c} : last_read_pos'[d] = last_read_pos[d]
      BY <2>1, <3>1, <3>2, SearchMovesDoes
    <3>5. ~Satisfied(c)'
      BY <2>1, <2>2, <3>3, Kinds DEF Satisfied
    <3> QED BY <2>1, <2>2, <3>1, <3>3, <3>4, <3>5
  <2> QED BY <2>3, <2>4
<1>7. CASE ~all /\ need = Line /\ c \notin connects_
  BY <1>2, <1>7
<1>8. CASE ~all /\ need # Line
  <2>1. /\ UNCHANGED <<rbuffer, last_read_pos, recordVars, waits>>
        /\ IF c \in connects_ /\ Enough(need, Len(b))
             THEN /\ read_required' = [read_required EXCEPT ![c] = Nothing]
                  /\ Wake(c)
             ELSE UNCHANGED <<read_required, co, woken>>
    BY <1>2, <1>8
  <2>2. CASE c \in connects_ /\ Enough(need, Len(b))
    <3>1. need # Nothing
      BY <1>0, <2>2 DEF Enough, Nothing
    <3>2. c \in co /\ waits[c] = need /\ waits[c] # Opening /\ waits[c] # Line
      BY <1>1, <1>8, <3>1
    <3>3. c \in Servers => last_read_pos[c] = 0
      BY <3>2 DEF Lines
    <3>4. read_required'[c] = Nothing /\ \A d \in Conns \ {c} : read_required'[d] = read_required[d]
      BY <2>1, <2>2 DEF Typed, WaitType
    <3> QED BY <2>1, <2>2, <3>2, <3>3, <3>4, WakeDoes
  <2>3. CASE ~(c \in connects_ /\ Enough(need, Len(b)))
    <3>1. ASSUME c \in co, c \in connects_, Satisfied(c)'
          PROVE  FALSE
      <4>1. (waits[c] \in 1 .. MaxBytes /\ Len(b) >= waits[c]) \/ waits[c] = Line
        BY <2>1, <3>1 DEF Satisfied
      <4>2. need = waits[c]
        BY <1>1, <3>1, <4>1, Kinds
      <4> QED BY <1>8, <2>3, <3>1, <4>1, <4>2, Kinds DEF Enough
    <3> QED BY <2>1, <2>3, <3>1
  <2> QED BY <2>2, <2>3
<1> QED BY <1>5, <1>6, <1>7, <1>8

\* A coroutine runs only when its connection has none that waits.
LEMMA IdleIs ==
  ASSUME Waiters, NEW c \in Conns, Idle(c)
  PROVE  /\ c \in socket_pool /\ waits[c] = Nothing /\ c \notin co /\ c \notin woken
         /\ read_required[c] = Nothing
  BY DEF Waiters, WaiterIsKnown, Idle

\* recv waits only for what is not there.
LEMMA RecvDoes ==
  ASSUME TypeOK, Typed, Waiters, NEW c \in Conns, NEW n \in 1 .. MaxBytes, Recv(c, n)
  PROVE  /\ Idle(c) /\ UNCHANGED <<connVars, epollVars, last_read_pos, mailbox, recordVars>>
         /\ \A d \in Conns \ {c} : rbuffer'[d] = rbuffer[d]
         /\ \/ UNCHANGED waitVars
            \/ /\ Suspend(c, n) /\ read_required' = [read_required EXCEPT ![c] = n]
               /\ UNCHANGED rbuffer /\ (c \in connects_ => rbuffer[c] = <<>>)
<1>1. n \in Nat
  BY Kinds
<1> QED BY <1>1, TakeDoes DEF Recv, HasData

\* recvline waits only when there is no separator at all.
LEMMA RecvlineDoes ==
  ASSUME TypeOK, Typed, Lens, Waiters, Openers, Lines, NEW c \in Conns, Recvline(c)
  PROVE  /\ Idle(c) /\ UNCHANGED <<connVars, epollVars, mailbox, recordVars>>
         /\ \A d \in Conns \ {c} : rbuffer'[d] = rbuffer[d] /\ last_read_pos'[d] = last_read_pos[d]
         /\ \/ UNCHANGED waitVars /\ (c \in Servers => last_read_pos'[c] = 0)
            \/ /\ Suspend(c, Line) /\ read_required' = [read_required EXCEPT ![c] = Line]
               /\ c \in connected /\ UNCHANGED rbuffer
               /\ \A i \in DOMAIN rbuffer[c] : rbuffer[c][i] # "n"
               /\ last_read_pos'[c] <= Len(rbuffer[c])
<1> DEFINE b == rbuffer[c]
<1>1. /\ Idle(c) /\ UNCHANGED <<connVars, epollVars, mailbox, recordVars>>
      /\ \/ UNCHANGED <<bufferVars, waitVars>>
         \/ /\ LineLength(c) > 0
            /\ Take(c, LineLength(c)) /\ SearchMoves(c)
            /\ UNCHANGED waitVars
         \/ /\ LineLength(c) = 0 /\ c \notin connected
            /\ SearchMoves(c)
            /\ Take(c, Len(b))
            /\ UNCHANGED waitVars
         \/ /\ LineLength(c) = 0 /\ c \in connected
            /\ SearchMoves(c)
            /\ read_required' = [read_required EXCEPT ![c] = Line]
            /\ Suspend(c, Line)
            /\ UNCHANGED rbuffer
  BY DEF Recvline
<1>2. /\ c \in Servers => last_read_pos[c] = 0 /\ c \in connected
      /\ c \in connected => c \in Servers
  BY <1>1, IdleIs, Kinds DEF Lines, Openers, Waiters
<1>3. /\ LineLength(c) \in Nat /\ Len(b) \in Nat /\ b \in Seq(Bytes) /\ DOMAIN b = 1 .. Len(b)
      /\ LineLength(c) > 0 <=> \E i \in last_read_pos[c] + 1 .. Len(b) : b[i] = "n"
  BY LineLengthIs DEF Typed, BufferType
<1>4. CASE UNCHANGED <<bufferVars, waitVars>>
  BY <1>1, <1>2, <1>4 DEF bufferVars
<1>5. CASE LineLength(c) > 0 /\ Take(c, LineLength(c)) /\ SearchMoves(c) /\ UNCHANGED waitVars
  BY <1>1, <1>3, <1>5, TakeDoes, SearchMovesDoes
<1>6. CASE /\ LineLength(c) = 0 /\ c \notin connected
           /\ SearchMoves(c) /\ Take(c, Len(b)) /\ UNCHANGED waitVars
  BY <1>1, <1>2, <1>3, <1>6, TakeDoes, SearchMovesDoes
<1>7. CASE /\ LineLength(c) = 0 /\ c \in connected
           /\ SearchMoves(c)
           /\ read_required' = [read_required EXCEPT ![c] = Line]
           /\ Suspend(c, Line)
           /\ UNCHANGED rbuffer
  <2>1. last_read_pos[c] = 0 /\ ~(LineLength(c) > 0)
    BY <1>2, <1>7
  <2>2. \A i \in DOMAIN b : b[i] # "n"
    BY <1>3, <2>1
  <2>3. last_read_pos[c] <= Len(b)
    BY <1>3, <2>1
  <2>4. /\ last_read_pos'[c] <= Len(b)
        /\ \A d \in Conns \ {c} : last_read_pos'[d] = last_read_pos[d]
    BY <1>7, <2>3, SearchMovesDoes
  <2> QED BY <1>1, <1>7, <2>2, <2>4
<1> QED BY <1>1, <1>4, <1>5, <1>6, <1>7

\* A coroutine that goes on has nothing more to wait for; one that waits for a line finds it.
LEMMA ResumeDoes ==
  ASSUME TypeOK, Typed, Lens, Waiters, Openers, Lines, NEW c \in Conns, Resume(c)
  PROVE  /\ c \in woken /\ c \notin co /\ woken' = woken \ {c} /\ UNCHANGED co
         /\ waits'[c] = Nothing /\ \A d \in Conns \ {c} : waits'[d] = waits[d]
         /\ UNCHANGED <<read_required, socket_pool, connected, callback, connVars, epollVars, mailbox>>
         /\ waits[c] = Opening => c \in connected
         /\ \A d \in Conns \ {c} : rbuffer'[d] = rbuffer[d] /\ last_read_pos'[d] = last_read_pos[d]
         /\ c \in Servers => last_read_pos'[c] = 0
<1>1. /\ c \in woken /\ woken' = woken \ {c} /\ waits' = [waits EXCEPT ![c] = Nothing]
      /\ UNCHANGED <<co, connected, callback, connVars, epollVars, mailbox>>
  BY DEF Resume
<1>2. /\ c \notin co /\ read_required[c] = Nothing
      /\ c \in Servers => last_read_pos[c] = 0
      /\ waits[c] = Opening => c \in connected
  BY <1>1 DEF Waiters, WaiterIsKnown, Lines, Openers
<1>3. waits'[c] = Nothing /\ \A d \in Conns \ {c} : waits'[d] = waits[d]
  BY <1>1 DEF Typed, WaitType
<1>4. socket_pool' = socket_pool
  BY <1>2 DEF Resume, Opened
<1>5. read_required' = read_required
  BY <1>2 DEF Resume, Typed, WaitType
<1>6. CASE waits[c] = Line
  <2>1. IF c \in connects_
          THEN /\ IF LineLength(c) > 0 THEN Take(c, LineLength(c)) ELSE UNCHANGED rbuffer
               /\ SearchMoves(c)
          ELSE UNCHANGED bufferVars
    BY <1>6, Kinds DEF Resume
  <2>2. LineLength(c) \in Nat
    BY LineLengthIs
  <2>3. \A d \in Conns \ {c} : rbuffer'[d] = rbuffer[d] /\ last_read_pos'[d] = last_read_pos[d]
    BY <2>1, <2>2, TakeDoes, SearchMovesDoes DEF bufferVars
  <2>4. c \in Servers => LineLength(c) > 0
    <3>1. PICK i \in DOMAIN rbuffer[c] : rbuffer[c][i] = "n"
      BY <1>1, <1>6 DEF Lines
    <3>2. i \in 1 .. Len(rbuffer[c])
      BY <3>1 DEF Typed, BufferType
    <3>3. last_read_pos[c] = 0 => i \in last_read_pos[c] + 1 .. Len(rbuffer[c])
      BY <3>2
    <3> QED BY <1>2, <3>1, <3>3, LineLengthIs
  <2>5. c \in Servers => last_read_pos'[c] = 0
    BY <1>2, <2>1, <2>4, SearchMovesDoes DEF bufferVars
  <2> QED BY <1>1, <1>2, <1>3, <1>4, <1>5, <2>3, <2>5
<1>7. CASE waits[c] # Line
  <2>1. /\ UNCHANGED last_read_pos
        /\ \A d \in Conns \ {c} : rbuffer'[d] = rbuffer[d]
    <3>1. UNCHANGED bufferVars
          \/ (waits[c] \in Nat /\ Take(c, waits[c]) /\ UNCHANGED last_read_pos)
      BY <1>7, Kinds DEF Resume, bufferVars
    <3> QED BY <3>1, TakeDoes DEF bufferVars
  <2> QED BY <1>1, <1>2, <1>3, <1>4, <1>5, <2>1
<1> QED BY <1>6, <1>7

\* SERVER_CONNECT wakes the coroutine that opens.
LEMMA OnServerConnectDoes ==
  ASSUME Typed, Waiters, Openers, NEW c \in Servers, OnServerConnect(c)
  PROVE  /\ UNCHANGED <<bufferVars, socket_pool, callback, read_required, waits>>
         /\ \/ UNCHANGED <<connected, co, woken>> /\ (waits[c] = Opening => c \notin co)
            \/ /\ c \in socket_pool /\ c \notin connected /\ waits[c] = Opening
               /\ connected' = connected \cup {c} /\ Wake(c)
               /\ read_required[c] = Nothing
<1>1. c \in Conns
  BY DEF Conns
<1> QED BY <1>1, Kinds DEF OnServerConnect, Openers, Waiters, WaiterIsKnown

\* Who is suspended is known to socket.lua, and what for.
LEMMA WaitersStep == TypeOK /\ IInv /\ [OneSideStep]_vars => Waiters'
<1> SUFFICES ASSUME TypeOK, Typed, IInv, [OneSideStep]_vars
             PROVE  Waiters'
  BY TypeParts
<1>0. /\ Lens /\ Watched /\ AcceptedOnce /\ Waiters /\ Openers /\ Lines /\ MailType /\ WaitType
      /\ Clients \subseteq Conns /\ Servers \subseteq Conns /\ Clients \cap Servers = {}
  BY SocketAssumption DEF IInv, TableInv, ServiceInv, Typed, Conns
<1>1. WorkerStep \/ ServiceStep \/ PeerStep \/ UNCHANGED vars
  BY DEF OneSideStep
<1>2. socket_pool \subseteq socket_pool'
  BY <1>0, <1>1, PoolGrows
<1>3. ASSUME UNCHANGED <<connected, waitVars>>, callback' \subseteq callback \cup Clients
      PROVE  Waiters'
  BY <1>0, <1>2, <1>3 DEF Waiters, WaiterIsKnown, waitVars
<1>4. ASSUME NEW c \in Conns, NEW w \in 1 .. Opening, c \in socket_pool',
             waits[c] = Nothing, Suspend(c, w), UNCHANGED <<connected, callback>>,
             \/ w # Opening /\ read_required' = [read_required EXCEPT ![c] = w]
             \/ w = Opening /\ UNCHANGED read_required
      PROVE  Waiters'
  <2>1. /\ c \in co' /\ waits'[c] = w /\ UNCHANGED woken
        /\ \A d \in Conns \ {c} : waits'[d] = waits[d] /\ (d \in co' <=> d \in co)
    BY <1>0, <1>4, SuspendDoes
  <2>2. c \notin co /\ c \notin woken /\ read_required[c] = Nothing /\ w # Nothing
    BY <1>0, <1>4 DEF Waiters, WaiterIsKnown, Nothing
  <2>3. /\ read_required'[c] = IF w # Opening THEN w ELSE Nothing
        /\ \A d \in Conns \ {c} : read_required'[d] = read_required[d]
    BY <1>0, <1>4, <2>2 DEF WaitType
  <2> QED BY <1>0, <1>2, <1>4, <2>1, <2>2, <2>3 DEF Waiters, WaiterIsKnown
<1>5. ASSUME NEW c \in Conns, OnData(c)
      PROVE  Waiters'
  <2>1. UNCHANGED <<connected, callback, waits>>
    BY <1>0, <1>5, OnDataDoes DEF recordVars
  <2>2. \A d \in Conns \ {c} : /\ read_required'[d] = read_required[d]
                               /\ (d \in co' <=> d \in co) /\ (d \in woken' <=> d \in woken)
    BY <1>0, <1>5, OnDataDoes
  <2>3. \/ /\ c \in co /\ c \notin co' /\ c \in woken' /\ read_required'[c] = Nothing
        \/ UNCHANGED <<read_required, co, woken>>
    BY <1>0, <1>5, OnDataDoes
  <2> QED BY <1>0, <1>2, <2>1, <2>2, <2>3 DEF Waiters, WaiterIsKnown
<1>6. ASSUME NEW c \in Servers, OnServerConnect(c)
      PROVE  Waiters'
  <2>1. UNCHANGED <<socket_pool, callback, read_required, waits>>
    BY <1>0, <1>6, OnServerConnectDoes
  <2>2. CASE UNCHANGED <<connected, co, woken>>
    BY <1>3, <2>1, <2>2 DEF waitVars
  <2>3. CASE /\ c \in socket_pool /\ connected' = connected \cup {c} /\ Wake(c)
             /\ read_required[c] = Nothing
    BY <1>0, <2>1, <2>3, WakeDoes DEF Waiters, WaiterIsKnown
  <2> QED BY <1>0, <1>6, <2>2, <2>3, OnServerConnectDoes
<1>7. CASE Handle
  <2>1. PICK m \in Messages :
           /\ m = Head(mailbox) /\ m.fd \in Conns /\ mailbox # <<>> /\ mailbox' = Tail(mailbox)
           /\ \/ m.type = "CONNECT" /\ OnConnectMessage(m.fd)
              \/ m.type = "DATA" /\ OnData(m.fd)
              \/ m.type = "SERVER_CONNECT" /\ OnServerConnect(m.fd)
    BY <1>7, Handled
  <2>2. m.type = "SERVER_CONNECT" => m.fd \in Servers
    BY <1>0, <2>1, TailMail DEF AcceptedOnce
  <2>3. OnConnectMessage(m.fd) => UNCHANGED <<connected, callback, waitVars>>
    BY DEF OnConnectMessage
  <2> QED BY <1>3, <1>5, <1>6, <2>1, <2>2, <2>3
<1>8. ASSUME NEW c \in Clients, NEW func \in BOOLEAN, Start(c, func)
      PROVE  Waiters'
  BY <1>3, <1>8 DEF Start
<1>9. ASSUME NEW s \in Servers, Open(s)
      PROVE  Waiters'
  <2>1. s \notin socket_pool
    BY <1>0, <1>9 DEF Open, Watched
  <2>2. waits[s] = Nothing
    BY <1>0, <2>1 DEF Waiters
  <2>3. Opening \in 1 .. Opening
    BY SocketAssumption DEF Opening
  <2> QED BY <1>0, <1>4, <1>9, <2>2, <2>3 DEF Open
<1>10. ASSUME NEW c \in Conns, NEW n \in 1 .. MaxBytes, Recv(c, n)
       PROVE  Waiters'
  <2>1. n \in 1 .. Opening /\ n # Opening
    BY SocketAssumption DEF Opening
  <2>2. c \in socket_pool' /\ waits[c] = Nothing /\ UNCHANGED <<connected, callback>>
    BY <1>0, <1>2, <1>10, RecvDoes, IdleIs DEF recordVars
  <2> QED BY <1>0, <1>3, <1>4, <1>10, <2>1, <2>2, RecvDoes
<1>11. ASSUME NEW c \in Conns, Recvline(c)
       PROVE  Waiters'
  <2>1. Line \in 1 .. Opening /\ Line # Opening
    BY SocketAssumption DEF Opening, Line
  <2>2. c \in socket_pool' /\ waits[c] = Nothing /\ UNCHANGED <<connected, callback>>
    BY <1>0, <1>2, <1>11, RecvlineDoes, IdleIs DEF recordVars
  <2> QED BY <1>0, <1>3, <1>4, <1>11, <2>1, <2>2, RecvlineDoes
<1>12. ASSUME NEW c \in Conns, Resume(c)
       PROVE  Waiters'
  <2>1. /\ c \in woken /\ c \notin co /\ woken' = woken \ {c} /\ UNCHANGED co
        /\ waits'[c] = Nothing /\ \A d \in Conns \ {c} : waits'[d] = waits[d]
        /\ UNCHANGED <<read_required, socket_pool, connected, callback>>
    BY <1>0, <1>12, ResumeDoes
  <2> QED BY <1>0, <2>1 DEF Waiters, WaiterIsKnown
<1>13. CASE ServiceStep
  <2>1. ASSUME NEW s \in Servers, OpenFails(s)
        PROVE  Waiters'
    BY <1>3, <2>1 DEF OpenFails, luaVars, recordVars
  <2> QED BY <1>7, <1>8, <1>9, <1>10, <1>11, <1>12, <1>13, <2>1 DEF ServiceStep
<1>14. CASE WorkerStep \/ PeerStep \/ UNCHANGED vars
  <2>1. UNCHANGED <<recordVars, waitVars>>
    BY <1>14, WorkerFrame, PeerFrame DEF luaVars, vars
  <2> QED BY <1>3, <2>1 DEF recordVars
<1> QED BY <1>1, <1>13, <1>14

\* Who opens a connection sleeps until SERVER_CONNECT.
LEMMA OpenersStep == TypeOK /\ IInv /\ [OneSideStep]_vars => Openers'
<1> SUFFICES ASSUME TypeOK, Typed, IInv, [OneSideStep]_vars
             PROVE  Openers'
  BY TypeParts
<1>0. /\ Lens /\ Watched /\ AcceptedOnce /\ OnlyServed /\ MailType /\ WaitType /\ ConnType
      /\ Waiters /\ Openers /\ Lines
      /\ Clients \subseteq Conns /\ Servers \subseteq Conns /\ Clients \cap Servers = {}
  BY SocketAssumption DEF IInv, TableInv, ServiceInv, WorkerInv, Typed, Conns
<1>1. WorkerStep \/ ServiceStep \/ PeerStep \/ UNCHANGED vars
  BY DEF OneSideStep
<1>2. \A s \in socket_pool' : s \in Servers => s \in socket_pool \/ Open(s)
  BY <1>0, <1>1, NewRecords
<1>3. ASSUME UNCHANGED <<connected, waits, co, woken>>, ~(\E s \in Servers : Open(s)),
             \A s \in Servers : statu_'[s] = "CONNECTED" => statu_[s] = "CONNECTED",
             \A s \in Servers : InMailbox(s, "SERVER_CONNECT") => InMailbox(s, "SERVER_CONNECT")'
      PROVE  Openers'
  BY <1>0, <1>2, <1>3 DEF Openers
<1>4. ASSUME NEW c \in Conns, NEW w \in 1 .. Opening, w # Opening, Idle(c), Suspend(c, w),
             UNCHANGED <<connected, socket_pool, mailbox, statu_>>
      PROVE  Openers'
  <2>1. /\ c \in co' /\ waits'[c] = w /\ UNCHANGED woken
        /\ \A d \in Conns \ {c} : waits'[d] = waits[d] /\ (d \in co' <=> d \in co)
    BY <1>0, <1>4, SuspendDoes
  <2>2. waits[c] # Opening
    BY <1>0, <1>4, IdleIs, Kinds
  <2> QED BY <1>0, <1>4, <2>1, <2>2 DEF Openers, InMailbox
<1>5. ASSUME NEW c \in Conns, OnData(c), Handle, Head(mailbox).type = "DATA"
      PROVE  Openers'
  <2>1. UNCHANGED <<connected, socket_pool, waits>> /\ UNCHANGED statu_
    BY <1>0, <1>5, OnDataDoes DEF recordVars, Handle, connVars
  <2>2. \A d \in Conns \ {c} : (d \in co' <=> d \in co) /\ (d \in woken' <=> d \in woken)
    BY <1>0, <1>5, OnDataDoes
  <2>3. \/ c \in co /\ c \notin co' /\ waits[c] # Opening
        \/ UNCHANGED <<co, woken>>
    BY <1>0, <1>5, OnDataDoes
  <2>4. \A s \in Servers : InMailbox(s, "SERVER_CONNECT") => InMailbox(s, "SERVER_CONNECT")'
    BY <1>0, <1>5, TailMail DEF Handle
  <2> QED BY <1>0, <2>1, <2>2, <2>3, <2>4 DEF Openers
<1>6. ASSUME NEW c \in Servers, OnServerConnect(c), Handle, Head(mailbox).fd = c
      PROVE  Openers'
  <2>1. UNCHANGED <<socket_pool, waits, statu_>>
    BY <1>0, <1>6, OnServerConnectDoes DEF Handle, connVars
  <2>2. \A s \in Servers \ {c} : InMailbox(s, "SERVER_CONNECT") => InMailbox(s, "SERVER_CONNECT")'
    BY <1>0, <1>6, TailMail DEF Handle
  <2>3. CASE UNCHANGED <<connected, co, woken>> /\ (waits[c] = Opening => c \notin co)
    BY <1>0, <2>1, <2>2, <2>3 DEF Openers
  <2>4. CASE /\ c \in socket_pool /\ c \notin connected /\ waits[c] = Opening
             /\ connected' = connected \cup {c} /\ Wake(c)
    BY <1>0, <2>1, <2>2, <2>4, WakeDoes DEF Openers
  <2> QED BY <1>0, <1>6, <2>3, <2>4, OnServerConnectDoes
<1>7. CASE Handle
  <2>1. PICK m \in Messages :
           /\ m = Head(mailbox) /\ m.fd \in Conns /\ mailbox # <<>> /\ mailbox' = Tail(mailbox)
           /\ UNCHANGED connVars
           /\ \/ m.type = "CONNECT" /\ OnConnectMessage(m.fd)
              \/ m.type = "DATA" /\ OnData(m.fd)
              \/ m.type = "SERVER_CONNECT" /\ OnServerConnect(m.fd)
    BY <1>7, Handled
  <2>2. m.type = "SERVER_CONNECT" => m.fd \in Servers
    BY <1>0, <2>1, TailMail DEF AcceptedOnce
  <2>3. CASE m.type = "CONNECT" /\ OnConnectMessage(m.fd)
    <3>1. UNCHANGED <<connected, waits, co, woken, statu_>>
      BY <2>1, <2>3 DEF OnConnectMessage, waitVars, connVars
    <3>2. \A s \in Servers : InMailbox(s, "SERVER_CONNECT") => InMailbox(s, "SERVER_CONNECT")'
      BY <1>0, <2>1, <2>3, TailMail
    <3>3. m.fd \in Clients /\ socket_pool' = socket_pool \cup {m.fd}
      BY <1>0, <2>1, <2>3, TailMail DEF AcceptedOnce, OnConnectMessage
    <3> QED BY <1>0, <3>1, <3>2, <3>3 DEF Openers
  <2> QED BY <1>5, <1>6, <1>7, <2>1, <2>2, <2>3
<1>8. ASSUME NEW s \in Servers, Open(s)
      PROVE  Openers'
  <2>1. /\ statu_[s] = "NONE" /\ statu_' = [statu_ EXCEPT ![s] = "CONNECTING"]
        /\ socket_pool' = socket_pool \cup {s} /\ Suspend(s, Opening)
        /\ UNCHANGED <<connected, mailbox>>
    BY <1>8 DEF Open
  <2>2. s \notin socket_pool /\ s \notin connected /\ s \notin woken
    BY <1>0, <2>1 DEF Watched, Waiters, WaiterIsKnown
  <2>3. /\ s \in co' /\ waits'[s] = Opening /\ UNCHANGED woken
        /\ \A d \in Conns \ {s} : waits'[d] = waits[d] /\ (d \in co' <=> d \in co)
    BY <1>0, <2>1, SuspendDoes
  <2>4. statu_'[s] # "CONNECTED" /\ \A t \in Servers \ {s} : statu_'[t] = statu_[t]
    BY <1>0, <2>1 DEF ConnType
  <2> QED BY <1>0, <2>1, <2>2, <2>3, <2>4 DEF Openers, InMailbox
<1>9. ASSUME NEW s \in Servers, OpenFails(s)
      PROVE  Openers'
  <2>1. UNCHANGED <<connected, waits, co, woken, socket_pool, mailbox>>
    BY <1>9 DEF OpenFails, luaVars, recordVars, waitVars
  <2>2. \A t \in Servers : statu_'[t] = "CONNECTED" => statu_[t] = "CONNECTED"
    BY <1>0, <1>9 DEF OpenFails, ConnType
  <2> QED BY <1>0, <2>1, <2>2 DEF Openers, InMailbox
<1>10. ASSUME NEW c \in Conns, NEW n \in 1 .. MaxBytes, Recv(c, n)
       PROVE  Openers'
  <2>1. n \in 1 .. Opening /\ n # Opening
    BY SocketAssumption DEF Opening
  <2>2. Idle(c) /\ UNCHANGED <<connected, socket_pool, mailbox, statu_>>
    BY <1>0, <1>10, RecvDoes DEF recordVars, connVars
  <2>3. CASE UNCHANGED waitVars
    BY <1>0, <2>2, <2>3 DEF Openers, InMailbox, waitVars
  <2> QED BY <1>0, <1>4, <1>10, <2>1, <2>2, <2>3, RecvDoes
<1>11. ASSUME NEW c \in Conns, Recvline(c)
       PROVE  Openers'
  <2>1. Line \in 1 .. Opening /\ Line # Opening
    BY SocketAssumption DEF Opening, Line
  <2>2. Idle(c) /\ UNCHANGED <<connected, socket_pool, mailbox, statu_>>
    BY <1>0, <1>11, RecvlineDoes DEF recordVars, connVars
  <2>3. CASE UNCHANGED waitVars
    BY <1>0, <2>2, <2>3 DEF Openers, InMailbox, waitVars
  <2> QED BY <1>0, <1>4, <1>11, <2>1, <2>2, <2>3, RecvlineDoes
<1>12. ASSUME NEW c \in Conns, Resume(c)
       PROVE  Openers'
  <2>1. /\ c \in woken /\ c \notin co /\ woken' = woken \ {c} /\ UNCHANGED co
        /\ waits'[c] = Nothing /\ \A d \in Conns \ {c} : waits'[d] = waits[d]
        /\ UNCHANGED <<socket_pool, connected, statu_, mailbox>>
        /\ waits[c] = Opening => c \in connected
    BY <1>0, <1>12, ResumeDoes DEF connVars
  <2> QED BY <1>0, <2>1, Kinds DEF Openers, InMailbox
<1>13. ASSUME NEW c \in Clients, NEW func \in BOOLEAN, Start(c, func)
       PROVE  Openers'
  <2>1. UNCHANGED <<connected, waits, co, woken, statu_, socket_pool, mailbox>>
    BY <1>13 DEF Start, waitVars
  <2> QED BY <1>0, <2>1 DEF Openers, InMailbox
<1>14. CASE ServiceStep
  BY <1>7, <1>8, <1>9, <1>10, <1>11, <1>12, <1>13, <1>14 DEF ServiceStep
<1>15. ASSUME WorkerStep \/ PeerStep \/ UNCHANGED vars, statu_' = statu_,
              \A s \in Servers : InMailbox(s, "SERVER_CONNECT") => InMailbox(s, "SERVER_CONNECT")'
       PROVE  Openers'
  <2>1. UNCHANGED <<connected, waits, co, woken, socket_pool>>
    BY <1>15, WorkerFrame, PeerFrame DEF luaVars, vars, recordVars, waitVars
  <2> QED BY <1>0, <1>15, <2>1 DEF Openers
<1>16. ASSUME NEW e \in batch, OnConnected(e)
       PROVE  Openers'
  <2>1. /\ e.fd \in Servers /\ UNCHANGED <<connected, waits, co, woken, socket_pool>>
        /\ statu_' = [statu_ EXCEPT ![e.fd] = "CONNECTED"]
        /\ Send(service_map_, e.fd, "SERVER_CONNECT", e.fd)
    BY <1>16 DEF OnConnected, recordVars, waitVars
  <2>2. e.fd \in service_map_
    BY <1>0, <2>1 DEF OnlyServed, Served
  <2>3. /\ InMailbox(e.fd, "SERVER_CONNECT")'
        /\ \A s, t : InMailbox(s, t) => InMailbox(s, t)'
    BY <1>0, <2>1, <2>2, SendMail
  <2>4. \A t \in Servers \ {e.fd} : statu_'[t] = statu_[t]
    BY <1>0, <2>1 DEF ConnType
  <2> QED BY <1>0, <2>1, <2>3, <2>4 DEF Openers
<1>17. CASE WorkerStep
  <2>1. ASSUME NEW served, NEW fd, NEW type, NEW c, Send(served, fd, type, c), statu_' = statu_
        PROVE  Openers'
    BY <1>0, <1>15, <1>17, <2>1, SendMail
  <2>2. CASE \/ \E e \in batch : \E c \in Clients : OnAccept(e, c)
             \/ \E c \in Conns : Tell(c) \/ EventClose(c)
    BY <2>1, <2>2 DEF OnAccept, Tell, EventClose, connVars
  <2>3. CASE \/ Poll
             \/ \E e \in batch : OnRead(e) \/ Ignore(e)
             \/ \E c \in Conns : RecvSome(c) \/ RecvBlocks(c)
    <3>1. mailbox' = mailbox /\ statu_' = statu_
      BY <2>3 DEF Poll, OnRead, Ignore, RecvSome, RecvBlocks, connVars, luaVars
    <3> QED BY <1>15, <1>17, <3>1 DEF InMailbox
  <2> QED BY <1>16, <1>17, <2>2, <2>3 DEF WorkerStep
<1>18. CASE PeerStep \/ UNCHANGED vars
  <2>1. mailbox' = mailbox /\ statu_' = statu_
    BY <1>18, PeerFrame DEF luaVars, connVars, vars
  <2> QED BY <1>15, <1>18, <2>1 DEF InMailbox
<1> QED BY <1>1, <1>14, <1>17, <1>18

\* buffer_search has passed nothing but bytes that end no line.
LEMMA LinesStep == TypeOK /\ IInv /\ [OneSideStep]_vars => Lines'
<1> SUFFICES ASSUME TypeOK, Typed, IInv, [OneSideStep]_vars
             PROVE  Lines'
  BY TypeParts
<1>0. /\ Lens /\ Watched /\ AcceptedOnce /\ MailType /\ WaitType /\ BufferType
      /\ Waiters /\ WaiterIsKnown /\ Openers /\ Lines
      /\ Clients \subseteq Conns /\ Servers \subseteq Conns /\ Clients \cap Servers = {}
  BY SocketAssumption DEF IInv, TableInv, ServiceInv, Typed, Waiters, Conns
<1>1. WorkerStep \/ ServiceStep \/ PeerStep \/ UNCHANGED vars
  BY DEF OneSideStep
<1>2. \A c \in Conns : DOMAIN rbuffer[c] = 1 .. Len(rbuffer[c]) /\ Len(rbuffer[c]) \in Nat
  BY <1>0 DEF BufferType
<1>3. ASSUME connected \subseteq connected', UNCHANGED <<waits, co, woken, last_read_pos>>,
             \A c \in Conns : waits[c] = Line => rbuffer'[c] = rbuffer[c]
      PROVE  Lines'
  BY <1>0, <1>3 DEF Lines
<1>4. ASSUME NEW c \in Conns, RecvSome(c)
      PROVE  Lines'
  <2>1. PICK n \in Nat \ {0} :
           /\ \A d \in Conns \ {c} : rbuffer'[d] = rbuffer[d]
           /\ Len(rbuffer'[c]) = Len(rbuffer[c]) + n
           /\ rbuffer' \in [Conns -> Seq(Bytes)]
           /\ \A i \in DOMAIN rbuffer[c] : rbuffer'[c][i] = rbuffer[c][i]
    BY <1>4, RecvSomeDoes
  <2>2. UNCHANGED <<connected, waits, co, woken, last_read_pos>>
    BY <1>4 DEF RecvSome, luaVars, recordVars, waitVars
  <2>3. DOMAIN rbuffer[c] \subseteq DOMAIN rbuffer'[c]
    BY <1>2, <2>1
  <2>4. last_read_pos[c] \in Nat
    BY <1>0, SocketAssumption DEF BufferType
  <2>5. ASSUME c \in co, waits[c] = Line
        PROVE  /\ last_read_pos[c] <= Len(rbuffer'[c])
               /\ \A i \in 1 .. last_read_pos[c] : rbuffer'[c][i] # "n"
    <3>1. /\ last_read_pos[c] <= Len(rbuffer[c])
          /\ \A i \in 1 .. last_read_pos[c] : rbuffer[c][i] # "n"
      BY <1>0, <2>5 DEF Lines
    <3>2. 1 .. last_read_pos[c] \subseteq DOMAIN rbuffer[c]
      BY <1>2, <2>4, <3>1
    <3>3. last_read_pos[c] <= Len(rbuffer[c]) + n
      BY <1>2, <2>4, <3>1
    <3> QED BY <2>1, <3>1, <3>2, <3>3
  <2>6. ASSUME c \in woken, waits[c] = Line
        PROVE  \E i \in DOMAIN rbuffer'[c] : rbuffer'[c][i] = "n"
    BY <1>0, <2>1, <2>3, <2>6 DEF Lines
  <2>7. \A d \in Conns :
          /\ waits[d] = Line => d \in connected
          /\ d \in Servers => last_read_pos[d] = 0 \/ (d \in co /\ waits[d] = Line)
    BY <1>0 DEF Lines
  <2>8. ASSUME NEW d \in Conns \ {c}
        PROVE  /\ d \in co /\ waits[d] = Line =>
                    /\ last_read_pos[d] <= Len(rbuffer'[d])
                    /\ \A i \in 1 .. last_read_pos[d] : rbuffer'[d][i] # "n"
               /\ d \in woken /\ waits[d] = Line => \E i \in DOMAIN rbuffer'[d] : rbuffer'[d][i] = "n"
    BY <1>0, <2>1 DEF Lines
  <2>9. ASSUME NEW d \in Conns
        PROVE  /\ d \in co /\ waits[d] = Line =>
                    /\ last_read_pos[d] <= Len(rbuffer'[d])
                    /\ \A i \in 1 .. last_read_pos[d] : rbuffer'[d][i] # "n"
               /\ d \in woken /\ waits[d] = Line => \E i \in DOMAIN rbuffer'[d] : rbuffer'[d][i] = "n"
    BY <2>5, <2>6, <2>8
  <2> QED BY <2>2, <2>7, <2>9 DEF Lines
<1>5. ASSUME NEW c \in Conns, OnData(c)
      PROVE  Lines'
  <2>1. UNCHANGED <<connected, waits>>
    BY <1>0, <1>5, OnDataDoes DEF recordVars
  <2>2. \A d \in Conns \ {c} : /\ rbuffer'[d] = rbuffer[d]
                               /\ last_read_pos'[d] = last_read_pos[d]
                               /\ (d \in co' <=> d \in co) /\ (d \in woken' <=> d \in woken)
    BY <1>0, <1>5, OnDataDoes
  <2>3. CASE /\ c \in co /\ c \notin co'
             /\ c \in Servers => rbuffer'[c] = rbuffer[c] /\ last_read_pos'[c] = 0
             /\ waits[c] = Line => \E i \in DOMAIN rbuffer[c] : rbuffer[c][i] = "n"
    <3>1. waits[c] = Line => c \in Servers
      BY <1>0 DEF Lines, Waiters
    <3> QED BY <1>0, <2>1, <2>2, <2>3, <3>1 DEF Lines
  <2>4. CASE /\ UNCHANGED <<co, woken>>
             /\ c \in Servers => rbuffer'[c] = rbuffer[c]
             /\ \/ last_read_pos'[c] = last_read_pos[c]
                \/ /\ c \in co /\ waits[c] = Line /\ last_read_pos'[c] <= Len(rbuffer[c])
                   /\ \A i \in DOMAIN rbuffer[c] : rbuffer[c][i] # "n"
    <3>1. waits[c] = Line => c \in Servers
      BY <1>0 DEF Lines, Waiters
    <3>2. CASE last_read_pos'[c] = last_read_pos[c]
      BY <1>0, <2>1, <2>2, <2>4, <3>1, <3>2 DEF Lines
    <3>3. CASE /\ c \in co /\ waits[c] = Line /\ last_read_pos'[c] <= Len(rbuffer[c])
               /\ \A i \in DOMAIN rbuffer[c] : rbuffer[c][i] # "n"
      <4>1. last_read_pos'[c] \in Nat /\ c \notin woken
        <5>1. Typed'
          BY <1>0, TypePartsNext, TypeStep
        <5> QED BY <1>0, <3>3, <5>1, SocketAssumption DEF Typed, BufferType, WaiterIsKnown
      <4>2. 1 .. last_read_pos'[c] \subseteq DOMAIN rbuffer[c]
        BY <1>2, <3>3, <4>1
      <4>3. rbuffer'[c] = rbuffer[c]
        BY <2>4, <3>1, <3>3
      <4> QED BY <1>0, <2>1, <2>2, <2>4, <3>3, <4>1, <4>2, <4>3 DEF Lines
    <3> QED BY <2>4, <3>2, <3>3
  <2> QED BY <1>0, <1>5, <2>3, <2>4, OnDataDoes
<1>6. ASSUME NEW c \in Servers, OnServerConnect(c)
      PROVE  Lines'
  <2>1. UNCHANGED <<bufferVars, waits>>
    BY <1>0, <1>6, OnServerConnectDoes
  <2>2. CASE UNCHANGED <<connected, co, woken>>
    BY <1>3, <2>1, <2>2 DEF bufferVars
  <2>3. CASE /\ waits[c] = Opening /\ connected' = connected \cup {c} /\ Wake(c)
    <3>1. /\ c \notin co' /\ waits[c] # Line
          /\ \A d : d # c => (d \in co' <=> d \in co) /\ (d \in woken' <=> d \in woken)
      BY <2>3, WakeDoes, Kinds
    <3> QED BY <1>0, <2>1, <2>3, <3>1 DEF Lines, bufferVars
  <2> QED BY <1>0, <1>6, <2>2, <2>3, OnServerConnectDoes
<1>7. CASE Handle
  <2>1. PICK m \in Messages :
           /\ m = Head(mailbox) /\ m.fd \in Conns /\ mailbox # <<>> /\ mailbox' = Tail(mailbox)
           /\ \/ m.type = "CONNECT" /\ OnConnectMessage(m.fd)
              \/ m.type = "DATA" /\ OnData(m.fd)
              \/ m.type = "SERVER_CONNECT" /\ OnServerConnect(m.fd)
    BY <1>7, Handled
  <2>2. m.type = "SERVER_CONNECT" => m.fd \in Servers
    BY <1>0, <2>1, TailMail DEF AcceptedOnce
  <2>3. OnConnectMessage(m.fd) => Lines'
    BY <1>3 DEF OnConnectMessage, bufferVars, waitVars
  <2> QED BY <1>5, <1>6, <2>1, <2>2, <2>3
<1>8. ASSUME NEW s \in Servers, Open(s)
      PROVE  Lines'
  <2>1. Suspend(s, Opening) /\ UNCHANGED <<bufferVars, connected>> /\ s \notin socket_pool
    BY <1>0, <1>8 DEF Open, Watched
  <2>2. waits[s] # Line /\ waits[s] = Nothing /\ s \notin woken
    BY <1>0, <2>1, Kinds DEF Waiters, WaiterIsKnown
  <2>3. /\ waits'[s] = Opening /\ UNCHANGED woken
        /\ \A d \in Conns \ {s} : waits'[d] = waits[d] /\ (d \in co' <=> d \in co)
    BY <1>0, <2>1, SuspendDoes
  <2> QED BY <1>0, <2>1, <2>2, <2>3, Kinds DEF Lines, bufferVars
<1>9. ASSUME NEW c \in Conns, NEW n \in 1 .. MaxBytes, Recv(c, n)
      PROVE  Lines'
  <2>1. /\ waits[c] = Nothing /\ c \notin co /\ c \notin woken /\ UNCHANGED <<last_read_pos, connected>>
        /\ \A d \in Conns \ {c} : rbuffer'[d] = rbuffer[d]
    BY <1>0, <1>9, RecvDoes, IdleIs DEF recordVars
  <2>2. CASE UNCHANGED waitVars
    BY <1>3, <2>1, <2>2, Kinds DEF waitVars
  <2>3. CASE Suspend(c, n)
    <3>1. /\ waits'[c] = n /\ UNCHANGED woken
          /\ \A d \in Conns \ {c} : waits'[d] = waits[d] /\ (d \in co' <=> d \in co)
      BY <1>0, <2>3, SuspendDoes
    <3> QED BY <1>0, <2>1, <3>1, Kinds DEF Lines
  <2> QED BY <1>0, <1>9, <2>2, <2>3, RecvDoes
<1>10. ASSUME NEW c \in Conns, Recvline(c)
       PROVE  Lines'
  <2>1. /\ waits[c] = Nothing /\ c \notin co /\ c \notin woken /\ UNCHANGED connected
        /\ \A d \in Conns \ {c} : rbuffer'[d] = rbuffer[d] /\ last_read_pos'[d] = last_read_pos[d]
    BY <1>0, <1>10, RecvlineDoes, IdleIs DEF recordVars
  <2>2. CASE UNCHANGED waitVars /\ (c \in Servers => last_read_pos'[c] = 0)
    BY <1>0, <2>1, <2>2, Kinds DEF Lines, waitVars
  <2>3. CASE /\ Suspend(c, Line) /\ c \in connected /\ UNCHANGED rbuffer
             /\ \A i \in DOMAIN rbuffer[c] : rbuffer[c][i] # "n"
             /\ last_read_pos'[c] <= Len(rbuffer[c])
    <3>1. /\ waits'[c] = Line /\ c \in co' /\ UNCHANGED woken
          /\ \A d \in Conns \ {c} : waits'[d] = waits[d] /\ (d \in co' <=> d \in co)
      BY <1>0, <2>3, SuspendDoes
    <3>2. last_read_pos'[c] \in Nat
      <4>1. Typed'
        BY <1>0, TypePartsNext, TypeStep
      <4> QED BY <4>1, SocketAssumption DEF Typed, BufferType
    <3>3. 1 .. last_read_pos'[c] \subseteq DOMAIN rbuffer[c]
      BY <1>2, <2>3, <3>2
    <3> QED BY <1>0, <2>1, <2>3, <3>1, <3>2, <3>3 DEF Lines
  <2> QED BY <1>0, <1>10, <2>2, <2>3, RecvlineDoes
<1>11. ASSUME NEW c \in Conns, Resume(c)
       PROVE  Lines'
  <2>1. /\ c \in woken /\ c \notin co /\ woken' = woken \ {c} /\ UNCHANGED co
        /\ waits'[c] = Nothing /\ \A d \in Conns \ {c} : waits'[d] = waits[d]
        /\ UNCHANGED connected
        /\ \A d \in Conns \ {c} : rbuffer'[d] = rbuffer[d] /\ last_read_pos'[d] = last_read_pos[d]
        /\ c \in Servers => last_read_pos'[c] = 0
    BY <1>0, <1>11, ResumeDoes
  <2> QED BY <1>0, <2>1, Kinds DEF Lines
<1>12. CASE \/ \E c \in Clients, func \in BOOLEAN : Start(c, func)
            \/ \E s \in Servers : OpenFails(s)
  <2>1. UNCHANGED <<connected, waits, co, woken, last_read_pos, rbuffer>>
    BY <1>12 DEF Start, OpenFails, luaVars, recordVars, waitVars, bufferVars
  <2> QED BY <1>3, <2>1
<1>13. CASE ServiceStep
  BY <1>7, <1>8, <1>9, <1>10, <1>11, <1>12, <1>13 DEF ServiceStep
<1>14. CASE WorkerStep /\ ~(\E c \in Conns : RecvSome(c))
  <2>1. UNCHANGED rbuffer
    BY <1>14 DEF WorkerStep, Poll, OnAccept, OnConnected, OnRead, Ignore, RecvBlocks, Tell,
                 EventClose, bufferVars
  <2>2. UNCHANGED <<connected, waits, co, woken, last_read_pos>>
    BY <1>14, WorkerFrame DEF recordVars, waitVars
  <2> QED BY <1>3, <2>1, <2>2
<1>15. CASE PeerStep \/ UNCHANGED vars
  <2>1. UNCHANGED <<connected, waits, co, woken, last_read_pos, rbuffer>>
    BY <1>15, PeerFrame DEF luaVars, vars, recordVars, waitVars, bufferVars
  <2> QED BY <1>3, <2>1
<1> QED BY <1>1, <1>4, <1>13, <1>14, <1>15

-----------------------------------------------------------------------------
(* Nothing goes unnoticed.                                                 *)


\* A poll turns what is ready and true into events.
LEMMA PollNotices ==
  ASSUME Typed, Poll, NEW c \in Conns, c \in ready, c \notin hup
  PROVE  /\ interest[c] = {"IN"} /\ (rx[c] # <<>> \/ c \in fin) => InBatch(c, "READ")'
         /\ interest[c] = {"OUT"} /\ c \in up => InBatch(c, "WRITE")'
<1> DEFINE e == [fd |-> c, ev |-> Translate(Reported(c))]
<1>1. "HUP" \notin Reported(c)
  BY ConditionOf DEF Reported
<1>2. ASSUME Reported(c) # {}
      PROVE  e \in batch' /\ e.fd = c /\ e.ev = Translate(Reported(c))
  BY <1>2, PollReturns
<1>3. ASSUME interest[c] = {"IN"}, rx[c] # <<>> \/ c \in fin
      PROVE  InBatch(c, "READ")'
  <2>1. "IN" \in Reported(c)
    BY <1>3, ConditionOf DEF Reported
  <2>2. "READ" \in Translate(Reported(c))
    BY <1>1, <2>1 DEF Translate
  <2> QED BY <1>2, <2>1, <2>2 DEF InBatch
<1>4. ASSUME interest[c] = {"OUT"}, c \in up
      PROVE  InBatch(c, "WRITE")'
  <2>1. "OUT" \in Reported(c)
    BY <1>4, ConditionOf DEF Reported
  <2>2. "WRITE" \in Translate(Reported(c))
    BY <1>1, <2>1 DEF Translate
  <2> QED BY <1>2, <2>1, <2>2 DEF InBatch
<1> QED BY <1>3, <1>4

\* No byte and no close stays in the kernel unnoticed.
LEMMA NoForgottenBytesStep == TypeOK /\ IInv /\ [OneSideStep]_vars => NoForgottenBytes'
<1> SUFFICES ASSUME TypeOK, Typed, IInv, [OneSideStep]_vars,
                    NEW c \in Conns, c \in connects_', c \in service_map_', c \notin hup',
                    c \in Servers => statu_'[c] = "CONNECTED",
                    rx'[c] # <<>> \/ c \in fin'
             PROVE  c \in ready' \/ InBatch(c, "READ")' \/ c \in cur'
  BY TypeParts DEF NoForgottenBytes
<1>0. /\ WorkerInv /\ Watched /\ AcceptedOnce /\ EventsTrue /\ OnlyServed /\ BatchOnce
      /\ NoForgottenBytes /\ EpollType /\ ConnType /\ KernelType
      /\ Clients \subseteq Conns /\ Servers \subseteq Conns /\ Clients \cap Servers = {}
      /\ Conns = Clients \cup Servers /\ Conns \subseteq Fds /\ Listener \notin Conns
      /\ cur \subseteq Conns
  BY SocketAssumption DEF IInv, WorkerInv, TableInv, NothingUnnoticed, Typed, WorkerType, Conns, Fds
<1>1. WorkerStep \/ ServiceStep \/ PeerStep \/ UNCHANGED vars
  BY DEF OneSideStep
<1>2. ASSUME c \in connects_, c \in service_map_, c \notin hup,
             c \in Servers => statu_[c] = "CONNECTED"
      PROVE  /\ interest[c] = {"IN"}
             /\ rx[c] # <<>> \/ c \in fin => c \in ready \/ InBatch(c, "READ") \/ c \in cur
  BY <1>0, <1>2 DEF Watched, NoForgottenBytes
<1>3. ASSUME UNCHANGED connVars
      PROVE  /\ c \in connects_ /\ c \in service_map_
             /\ c \in Servers => statu_[c] = "CONNECTED"
  BY <1>3 DEF connVars
<1>4. CASE Poll
  <2>1. UNCHANGED <<connVars, kernelVars>> /\ batch = {} /\ cur = {}
    BY <1>4 DEF Poll
  <2>2. c \in ready /\ interest[c] = {"IN"} /\ c \notin hup /\ (rx[c] # <<>> \/ c \in fin)
    BY <1>2, <1>3, <2>1 DEF InBatch, kernelVars
  <2> QED BY <1>4, <2>2, PollNotices
<1>5. ASSUME NEW e \in batch, NEW d \in Clients, OnAccept(e, d)
      PROVE  c \in ready' \/ InBatch(c, "READ")' \/ c \in cur'
  <2>1. /\ e.fd = Listener /\ d \in backlog /\ connects_' = connects_ \cup {d} /\ batch' = batch \ {e}
        /\ UNCHANGED <<service_map_, statu_, hup, rx, fin, ready, cur>>
    BY <1>5 DEF OnAccept, epollVars
  <2>2. c # d
    BY <1>0, <2>1 DEF AcceptedOnce, Watched
  <2>3. InBatch(c, "READ") => InBatch(c, "READ")'
    BY <1>0, <2>1 DEF InBatch
  <2> QED BY <1>2, <2>1, <2>2, <2>3
<1>6. ASSUME NEW e \in batch, OnConnected(e)
      PROVE  c \in ready' \/ InBatch(c, "READ")' \/ c \in cur'
  <2>1. /\ e.fd \in Servers /\ batch' = batch \ {e} /\ Watch(e.fd, {"IN"}, FALSE)
        /\ statu_' = [statu_ EXCEPT ![e.fd] = "CONNECTED"]
        /\ UNCHANGED <<service_map_, connects_, hup, rx, fin, cur>>
    BY <1>6 DEF OnConnected, kernelVars
  <2>2. CASE c = e.fd
    <3>1. "IN" \in Condition(c)
      BY <2>1, ConditionOf
    <3>2. Condition(c) \cap ({"IN"} \cup {"HUP"}) # {} /\ Watch(c, {"IN"}, FALSE) /\ c \in Fds
      BY <1>0, <2>1, <2>2, <3>1
    <3> QED BY <1>0, <3>2, WatchDoes
  <2>3. CASE c # e.fd
    <3>1. InBatch(c, "READ") => InBatch(c, "READ")'
      BY <2>1, <2>3 DEF InBatch
    <3>2. c \in ready => c \in ready'
      BY <1>0, <2>1, WatchDoes
    <3>3. c \in Servers => statu_[c] = "CONNECTED"
      BY <1>0, <2>1, <2>3 DEF ConnType
    <3> QED BY <1>2, <2>1, <3>1, <3>2, <3>3
  <2> QED BY <2>2, <2>3
<1>7. ASSUME NEW e \in batch, OnRead(e) \/ Ignore(e), cur = {}
      PROVE  c \in ready' \/ InBatch(c, "READ")' \/ c \in cur'
  <2>1. /\ batch' = batch \ {e} /\ UNCHANGED <<connVars, kernelVars, ready>>
        /\ cur' = {e.fd} \/ (cur' = cur /\ "RDHUP" \in e.ev)
    BY <1>7 DEF OnRead, Ignore, epollVars
  <2>2. c \in ready \/ InBatch(c, "READ")
    BY <1>2, <1>3, <1>7, <2>1 DEF kernelVars
  <2>3. InBatch(c, "READ") => InBatch(c, "READ")' \/ c = e.fd
    BY <2>1 DEF InBatch
  <2>4. "RDHUP" \in e.ev => c # e.fd
    BY <1>0, <2>1 DEF EventsTrue, kernelVars
  <2> QED BY <2>1, <2>2, <2>3, <2>4
<1>8. ASSUME NEW d \in Conns, RecvSome(d)
      PROVE  c \in ready' \/ InBatch(c, "READ")' \/ c \in cur'
  <2>1. d \in cur /\ UNCHANGED <<connVars, hup, fin, ready, batch, cur>>
    BY <1>8 DEF RecvSome, epollVars
  <2>2. c # d => rx'[c] = rx[c]
    BY <1>0, <1>8 DEF RecvSome, KernelType
  <2> QED BY <1>2, <1>3, <2>1, <2>2 DEF InBatch
<1>9. ASSUME NEW d \in Conns, RecvBlocks(d)
      PROVE  c \in ready' \/ InBatch(c, "READ")' \/ c \in cur'
  <2>1. /\ d \in cur /\ rx[d] = <<>> /\ d \notin fin
        /\ UNCHANGED <<connVars, kernelVars, ready, batch>>
    BY <1>9 DEF RecvBlocks, epollVars
  <2>2. c # d /\ c \notin cur
    BY <1>0, <2>1, InRecv DEF kernelVars
  <2> QED BY <1>2, <1>3, <2>1, <2>2 DEF InBatch, kernelVars
<1>10. ASSUME NEW d \in Conns, Tell(d)
       PROVE  c \in ready' \/ InBatch(c, "READ")' \/ c \in cur'
  <2>1. UNCHANGED <<connVars, kernelVars, ready, batch, cur>>
    BY <1>10 DEF Tell, epollVars
  <2> QED BY <1>2, <1>3, <2>1 DEF InBatch, kernelVars
<1>11. ASSUME NEW d \in Conns, EventClose(d)
       PROVE  c \in ready' \/ InBatch(c, "READ")' \/ c \in cur'
  <2>1. d \in cur /\ DeleteConnect(d) /\ UNCHANGED <<kernelVars, statu_, batch>>
    BY <1>11 DEF EventClose
  <2>2. /\ c # d /\ c \in connects_ /\ c \in service_map_
        /\ c \in ready => c \in ready'
    BY <1>0, <2>1, DeleteDoes
  <2>3. c \notin cur
    BY <2>1, <2>2, <1>0, InRecv
  <2> QED BY <1>2, <2>1, <2>2, <2>3 DEF InBatch, kernelVars
<1>12. CASE WorkerStep
  BY <1>4, <1>5, <1>6, <1>7, <1>8, <1>9, <1>10, <1>11, <1>12 DEF WorkerStep
<1>13. CASE PeerStep
  <2>1. UNCHANGED <<connVars, interest, batch, cur>> /\ hup \subseteq hup' /\ ready \subseteq ready'
    BY <1>13, PeerFrame DEF workerVars
  <2>2. /\ interest[c] = {"IN"}
        /\ rx[c] # <<>> \/ c \in fin => c \in ready \/ InBatch(c, "READ") \/ c \in cur
    BY <1>2, <1>3, <2>1
  <2>3. CASE rx'[c] = rx[c] /\ (c \in fin' <=> c \in fin)
    BY <2>1, <2>2, <2>3 DEF InBatch
  <2>4. ASSUME Notify(c, "IN")
        PROVE  c \in ready'
    BY <2>2, <2>4 DEF Notify
  <2>5. ASSUME NEW d \in Conns, NEW b \in Bytes, PeerSends(d, b)
        PROVE  c \in ready' \/ (rx'[c] = rx[c] /\ fin' = fin)
    BY <1>0, <2>4, <2>5 DEF PeerSends, KernelType
  <2>6. ASSUME NEW d \in Conns, PeerCloses(d)
        PROVE  c \in ready' \/ (rx'[c] = rx[c] /\ (c \in fin' <=> c \in fin))
    BY <2>4, <2>6 DEF PeerCloses
  <2>7. CASE \/ \E d \in Clients : Arrive(d)
             \/ \E s \in Servers : Establish(s)
             \/ \E d \in Conns : Hangup(d)
    <3>1. rx' = rx /\ fin' = fin
      BY <2>7 DEF Arrive, Establish, Hangup
    <3> QED BY <2>3, <3>1
  <2> QED BY <1>13, <2>3, <2>5, <2>6, <2>7 DEF PeerStep
<1>14. ASSUME UNCHANGED <<kernelVars, workerVars, epollVars, connVars>>
       PROVE  c \in ready' \/ InBatch(c, "READ")' \/ c \in cur'
  BY <1>2, <1>3, <1>14 DEF kernelVars, workerVars, epollVars, InBatch
<1>15. ASSUME UNCHANGED <<kernelVars, workerVars>>, NEW d \in Clients, NEW func \in BOOLEAN, Start(d, func)
       PROVE  c \in ready' \/ InBatch(c, "READ")' \/ c \in cur'
  <2>1. /\ service_map_' = service_map_ \cup {d} /\ Watch(d, {"IN"}, TRUE)
        /\ UNCHANGED <<connects_, statu_>>
    BY <1>15 DEF Start
  <2>2. CASE c = d
    <3>1. "IN" \in Condition(c)
      BY <1>15, ConditionOf DEF kernelVars
    <3> QED BY <1>0, <2>1, <2>2, <3>1, WatchDoes
  <2>3. CASE c # d
    <3>1. c \in ready => c \in ready'
      BY <1>0, <2>1, WatchDoes
    <3> QED BY <1>2, <1>15, <2>1, <2>3, <3>1 DEF kernelVars, workerVars, InBatch
  <2> QED BY <2>2, <2>3
<1>16. ASSUME UNCHANGED <<kernelVars, workerVars>>, NEW s \in Servers, Open(s) \/ OpenFails(s)
       PROVE  c \in ready' \/ InBatch(c, "READ")' \/ c \in cur'
  <2>1. /\ service_map_' = service_map_ \cup {s} /\ connects_' = connects_ \cup {s}
        /\ \E t \in {"CONNECTING", "ERROR"} : statu_' = [statu_ EXCEPT ![s] = t]
        /\ Watch(s, {"OUT"}, TRUE) \/ UNCHANGED epollVars
    BY <1>16 DEF Open, OpenFails
  <2>2. c # s /\ (c \in Servers => statu_[c] = "CONNECTED")
    BY <1>0, <2>1 DEF ConnType
  <2>3. c \in ready => c \in ready'
    BY <1>0, <2>1, WatchDoes DEF epollVars
  <2> QED BY <1>2, <1>16, <2>1, <2>2, <2>3 DEF kernelVars, workerVars, InBatch
<1>17. CASE ServiceStep
  BY <1>14, <1>15, <1>16, <1>17, ServiceFrame, ServiceTables
<1>18. CASE UNCHANGED vars
  BY <1>14, <1>18 DEF vars
<1> QED BY <1>1, <1>12, <1>13, <1>17, <1>18

\* A coroutine that waits for data which is there is about to be told.
LEMMA NoStuckReaderStep == TypeOK /\ IInv /\ [OneSideStep]_vars => NoStuckReader'
<1> SUFFICES ASSUME TypeOK, Typed, IInv, [OneSideStep]_vars
             PROVE  NoStuckReader'
  BY TypeParts
<1> SUFFICES ASSUME NEW c \in Conns, c \in co', c \in connects_', Satisfied(c)'
             PROVE  InMailbox(c, "DATA")' \/ c \in telling' \/ (c \in cur' /\ ret' > 0)
  <2>1. Typed'
    BY TypePartsNext, TypeStep DEF IInv
  <2>2. co' \subseteq Conns
    BY <2>1 DEF Typed, WaitType
  <2> QED BY <2>2 DEF NoStuckReader
<1> DEFINE Told == InMailbox(c, "DATA") \/ c \in telling \/ (c \in cur /\ ret > 0)
<1>0. /\ Lens /\ WorkerInv /\ Watched /\ AcceptedOnce /\ OnlyServed /\ NoStuckReader
      /\ Waiters /\ WaiterIsKnown /\ Openers /\ Lines /\ MailType /\ WaitType /\ BufferType
      /\ Clients \subseteq Conns /\ Servers \subseteq Conns /\ Clients \cap Servers = {}
      /\ cur \subseteq Conns /\ telling \subseteq Conns /\ ret \in Nat
  BY SocketAssumption DEF IInv, WorkerInv, TableInv, ServiceInv, NothingUnnoticed, Typed,
                          WorkerType, Waiters, Conns
<1>1. WorkerStep \/ ServiceStep \/ PeerStep \/ UNCHANGED vars
  BY DEF OneSideStep
<1>2. c \in co /\ c \in connects_ /\ Satisfied(c) => Told
  BY <1>0 DEF NoStuckReader
<1>3. c \notin socket_pool => c \notin co
  BY <1>0 DEF Waiters, WaiterIsKnown
<1>4. ASSUME rbuffer'[c] = rbuffer[c], waits'[c] = waits[c], c \in co, c \in connects_
      PROVE  Told
  BY <1>2, <1>4 DEF Satisfied
<1>5. ASSUME NEW d \in Conns, RecvSome(d)
      PROVE  Told'
  <2>1. d \in cur /\ UNCHANGED <<waits, co, connects_, mailbox, telling, cur>>
    BY <1>5 DEF RecvSome, luaVars, waitVars, connVars
  <2>2. PICK n \in Nat \ {0} :
           (\A a \in Conns \ {d} : rbuffer'[a] = rbuffer[a]) /\ ret' = ret + n
    BY <1>5, RecvSomeDoes
  <2>3. ret' > 0
    BY <1>0, <2>2
  <2> QED BY <1>4, <2>1, <2>2, <2>3 DEF InMailbox
<1>6. ASSUME WorkerStep, rbuffer' = rbuffer, connects_' \subseteq connects_ \cup {d \in Conns : d \notin socket_pool}
      PROVE  Told
  <2>1. UNCHANGED waitVars
    BY <1>6, WorkerFrame
  <2> QED BY <1>3, <1>4, <1>6, <2>1 DEF waitVars
<1>7. CASE Poll
  <2>1. UNCHANGED <<rbuffer, connects_, mailbox>> /\ cur = {} /\ telling = {}
    BY <1>7 DEF Poll, bufferVars, connVars, luaVars
  <2> QED BY <1>6, <1>7, <2>1 DEF InMailbox, WorkerStep
<1>8. ASSUME NEW e \in batch, NEW d \in Clients, OnAccept(e, d), WorkerStep
      PROVE  Told'
  <2>1. /\ d \in backlog /\ connects_' = connects_ \cup {d}
        /\ UNCHANGED <<rbuffer, cur, telling, ret>> /\ Send(service_map_, Listener, "CONNECT", d)
    BY <1>8 DEF OnAccept, bufferVars
  <2>2. d \notin socket_pool /\ \A a, t : InMailbox(a, t) => InMailbox(a, t)'
    BY <1>0, <2>1, SendMail DEF AcceptedOnce
  <2> QED BY <1>0, <1>6, <1>8, <2>1, <2>2
<1>9. ASSUME NEW e \in batch, OnConnected(e), WorkerStep
      PROVE  Told'
  <2>1. UNCHANGED <<connects_, rbuffer, cur, telling, ret>> /\ Send(service_map_, e.fd, "SERVER_CONNECT", e.fd)
    BY <1>9 DEF OnConnected, bufferVars
  <2>2. \A a, t : InMailbox(a, t) => InMailbox(a, t)'
    BY <1>0, <2>1, SendMail
  <2> QED BY <1>6, <1>9, <2>1, <2>2
<1>10. ASSUME NEW e \in batch, OnRead(e) \/ Ignore(e), cur = {}, WorkerStep
       PROVE  Told'
  <2>1. UNCHANGED <<connects_, rbuffer, telling, mailbox>>
    BY <1>10 DEF OnRead, Ignore, connVars, bufferVars, luaVars
  <2> QED BY <1>6, <1>10, <2>1 DEF InMailbox
<1>11. ASSUME NEW d \in Conns, RecvBlocks(d), WorkerStep
       PROVE  Told'
  <2>1. d \in cur /\ telling' = {d} /\ UNCHANGED <<connects_, rbuffer, mailbox>>
    BY <1>11 DEF RecvBlocks, connVars, bufferVars, luaVars
  <2>2. cur = {d} /\ telling = {}
    BY <1>0, <2>1, InRecv
  <2> QED BY <1>6, <1>11, <2>1, <2>2 DEF InMailbox
<1>12. ASSUME NEW d \in Conns, Tell(d), WorkerStep
       PROVE  Told'
  <2>1. /\ d \in telling /\ UNCHANGED <<connects_, rbuffer, cur, ret>>
        /\ Send(service_map_, d, "DATA", d)
    BY <1>12 DEF Tell, connVars, bufferVars
  <2>2. d \in service_map_ /\ telling = {d}
    BY <1>0, <2>1 DEF OnlyServed, Served, Typed, WorkerType
  <2>3. InMailbox(d, "DATA")' /\ \A a, t : InMailbox(a, t) => InMailbox(a, t)'
    BY <1>0, <2>1, <2>2, SendMail
  <2> QED BY <1>6, <1>12, <2>1, <2>2, <2>3
<1>13. ASSUME NEW d \in Conns, EventClose(d), WorkerStep
       PROVE  Told'
  <2>1. /\ d \in cur /\ connects_' = connects_ \ {d} /\ UNCHANGED <<rbuffer, telling>>
        /\ Send(service_map_', d, "DISCONNECT", d)
    BY <1>13 DEF EventClose, DeleteConnect, bufferVars
  <2>2. c # d /\ c \notin cur
    BY <1>0, <2>1, InRecv
  <2>3. \A a, t : InMailbox(a, t) => InMailbox(a, t)'
    BY <1>0, <2>1, SendMail
  <2> QED BY <1>6, <1>13, <2>1, <2>2, <2>3
<1>14. CASE WorkerStep
  BY <1>5, <1>7, <1>8, <1>9, <1>10, <1>11, <1>12, <1>13, <1>14 DEF WorkerStep
<1>15. ASSUME Told, mailbox' = mailbox, UNCHANGED workerVars
       PROVE  Told'
  BY <1>15 DEF InMailbox, workerVars
<1>16. CASE Handle
  <2>1. PICK m \in Messages :
           /\ m = Head(mailbox) /\ m.fd \in Conns /\ mailbox # <<>> /\ mailbox' = Tail(mailbox)
           /\ UNCHANGED <<workerVars, connVars>>
           /\ \/ m.type = "CONNECT" /\ OnConnectMessage(m.fd)
              \/ m.type = "DATA" /\ OnData(m.fd)
              \/ m.type = "SERVER_CONNECT" /\ OnServerConnect(m.fd)
    BY <1>16, Handled
  <2>2. InMailbox(c, "DATA") /\ (m.type # "DATA" \/ m.fd # c) => InMailbox(c, "DATA")'
    BY <1>0, <2>1, TailMail
  <2>3. ASSUME Told, m.type # "DATA" \/ m.fd # c
        PROVE  Told'
    BY <2>1, <2>2, <2>3 DEF workerVars
  <2>4. CASE m.type # "DATA"
    <3>1. UNCHANGED <<rbuffer, waits>> /\ co' \subseteq co
      BY <2>1, <2>4 DEF OnConnectMessage, OnServerConnect, Wake, bufferVars, waitVars
    <3> QED BY <1>4, <2>1, <2>3, <2>4, <3>1 DEF connVars
  <2>5. CASE m.type = "DATA" /\ m.fd # c
    <3>1. OnData(m.fd) /\ c \in Conns \ {m.fd}
      BY <2>1, <2>5
    <3>2. rbuffer'[c] = rbuffer[c] /\ waits' = waits /\ c \in co
      BY <1>0, <2>1, <3>1, OnDataDoes
    <3> QED BY <1>4, <2>1, <2>3, <2>5, <3>2 DEF connVars
  <2>6. CASE m.type = "DATA" /\ m.fd = c
    <3>1. OnData(c) /\ c \in connects_
      BY <2>1, <2>6 DEF connVars
    <3> QED BY <1>0, <3>1, OnDataDoes
  <2> QED BY <2>4, <2>5, <2>6
<1>17. ASSUME NEW d \in Conns, NEW n \in 1 .. MaxBytes, Recv(d, n), ServiceStep
       PROVE  Told'
  <2>1. /\ UNCHANGED <<connects_, mailbox, workerVars>> /\ d \notin co
        /\ \A a \in Conns \ {d} : rbuffer'[a] = rbuffer[a]
    BY <1>0, <1>17, RecvDoes, IdleIs, ServiceFrame DEF connVars
  <2>2. CASE UNCHANGED waitVars
    <3>1. c \in co /\ c # d /\ waits' = waits
      BY <2>1, <2>2 DEF waitVars
    <3> QED BY <1>4, <1>15, <2>1, <3>1
  <2>3. CASE Suspend(d, n) /\ UNCHANGED rbuffer /\ (d \in connects_ => rbuffer[d] = <<>>)
    <3>1. /\ waits'[d] = n
          /\ \A a \in Conns \ {d} : waits'[a] = waits[a] /\ (a \in co' <=> a \in co)
      BY <1>0, <2>3, SuspendDoes
    <3>2. c # d
      <4>1. ASSUME c = d
            PROVE  FALSE
        <5>1. rbuffer'[c] = <<>> /\ waits'[c] = n /\ Len(<<>>) = 0 /\ DOMAIN <<>> = {}
          BY <2>1, <2>3, <3>1, <4>1
        <5>2. n > 0 /\ n \in Nat /\ n # Line
          BY Kinds
        <5>3. ~(0 >= n)
          BY <5>2
        <5> QED BY <5>1, <5>2, <5>3 DEF Satisfied
      <4> QED BY <4>1
    <3> QED BY <1>4, <1>15, <2>1, <3>1, <3>2
  <2> QED BY <1>0, <1>17, <2>2, <2>3, RecvDoes
<1>18. ASSUME NEW d \in Conns, Recvline(d), ServiceStep
       PROVE  Told'
  <2>1. /\ UNCHANGED <<connects_, mailbox, workerVars>> /\ d \notin co
        /\ \A a \in Conns \ {d} : rbuffer'[a] = rbuffer[a]
    BY <1>0, <1>18, RecvlineDoes, IdleIs, ServiceFrame DEF connVars
  <2>2. CASE UNCHANGED waitVars
    <3>1. c \in co /\ c # d /\ waits' = waits
      BY <2>1, <2>2 DEF waitVars
    <3> QED BY <1>4, <1>15, <2>1, <3>1
  <2>3. CASE /\ Suspend(d, Line) /\ UNCHANGED rbuffer
             /\ \A i \in DOMAIN rbuffer[d] : rbuffer[d][i] # "n"
    <3>1. /\ waits'[d] = Line
          /\ \A a \in Conns \ {d} : waits'[a] = waits[a] /\ (a \in co' <=> a \in co)
      BY <1>0, <2>3, SuspendDoes
    <3>2. c # d
      BY <2>3, <3>1, Kinds DEF Satisfied
    <3> QED BY <1>4, <1>15, <2>1, <3>1, <3>2
  <2> QED BY <1>0, <1>18, <2>2, <2>3, RecvlineDoes
<1>19. ASSUME NEW d \in Conns, Resume(d), ServiceStep
       PROVE  Told'
  <2>1. /\ d \notin co /\ UNCHANGED <<co, connects_, mailbox, workerVars>>
        /\ \A a \in Conns \ {d} : rbuffer'[a] = rbuffer[a] /\ waits'[a] = waits[a]
    BY <1>0, <1>19, ResumeDoes, ServiceFrame DEF connVars
  <2> QED BY <1>4, <1>15, <2>1
<1>20. ASSUME NEW s \in Servers, Open(s), ServiceStep
       PROVE  Told'
  <2>1. /\ Suspend(s, Opening) /\ connects_' = connects_ \cup {s}
        /\ UNCHANGED <<rbuffer, mailbox, workerVars>>
    BY <1>20, ServiceFrame DEF Open, bufferVars
  <2>2. /\ waits'[s] = Opening
        /\ \A a \in Conns \ {s} : waits'[a] = waits[a] /\ (a \in co' <=> a \in co)
    BY <1>0, <2>1, SuspendDoes
  <2>3. c # s
    BY <2>2, Kinds DEF Satisfied
  <2> QED BY <1>4, <1>15, <2>1, <2>2, <2>3
<1>21. ASSUME NEW s \in Servers, OpenFails(s), ServiceStep
       PROVE  Told'
  <2>1. /\ statu_[s] = "NONE" /\ connects_' = connects_ \cup {s}
        /\ UNCHANGED <<rbuffer, waits, co, mailbox, workerVars>>
    BY <1>21, ServiceFrame DEF OpenFails, bufferVars, luaVars, waitVars
  <2>2. s \notin co
    BY <1>0, <2>1 DEF Watched, Waiters, WaiterIsKnown
  <2> QED BY <1>4, <1>15, <2>1, <2>2
<1>22. ASSUME NEW d \in Clients, NEW func \in BOOLEAN, Start(d, func), ServiceStep
       PROVE  Told'
  <2>1. UNCHANGED <<connects_, rbuffer, waits, co, mailbox, workerVars>>
    BY <1>22, ServiceFrame DEF Start, bufferVars, waitVars
  <2> QED BY <1>4, <1>15, <2>1
<1>23. CASE ServiceStep
  BY <1>16, <1>17, <1>18, <1>19, <1>20, <1>21, <1>22, <1>23 DEF ServiceStep
<1>24. CASE PeerStep \/ UNCHANGED vars
  <2>1. UNCHANGED <<connects_, rbuffer, waits, co, mailbox, workerVars>>
    BY <1>24, PeerFrame DEF vars, connVars, bufferVars, luaVars, waitVars
  <2> QED BY <1>4, <1>15, <2>1
<1> QED BY <1>1, <1>14, <1>23, <1>24

\* A connection nobody watches stays so: no event leads the worker to it.
LEMMA UnwatchedStays ==
  ASSUME TypeOK, IInv, [OneSideStep]_vars
  PROVE  Unwatched' = Unwatched
<1>0. /\ OnlyServed /\ Unreported /\ Watched /\ Typed /\ ConnType /\ EpollType
      /\ Conns \subseteq Fds /\ Servers \subseteq Conns /\ Clients \cap Servers = {}
      /\ Clients \subseteq Conns
  BY SocketAssumption, TypeParts DEF IInv, WorkerInv, TableInv, Typed, Conns, Fds
<1>1. ASSUME UNCHANGED <<interest, statu_>>
      PROVE  Unwatched' = Unwatched
  BY <1>1 DEF Unwatched
<1>2. ASSUME NEW fd \in Fds, \A d \in Servers \ {fd} : interest'[d] = interest[d] /\ statu_'[d] = statu_[d],
             fd \in Servers => fd \notin Unwatched /\ fd \notin Unwatched'
      PROVE  Unwatched' = Unwatched
  BY <1>2 DEF Unwatched
<1>3. ASSUME NEW e \in batch, OnConnected(e)
      PROVE  Unwatched' = Unwatched
  <2>1. /\ e.fd \in Servers /\ statu_' = [statu_ EXCEPT ![e.fd] = "CONNECTED"]
        /\ Watch(e.fd, {"IN"}, FALSE)
    BY <1>3 DEF OnConnected
  <2>2. e.fd \notin Unwatched
    BY <1>0 DEF Unreported
  <2>3. statu_'[e.fd] = "CONNECTED" /\ \A d \in Servers \ {e.fd} : statu_'[d] = statu_[d]
    BY <1>0, <2>1 DEF ConnType
  <2>4. \A d \in Conns \ {e.fd} : interest'[d] = interest[d]
    BY <1>0, <2>1, WatchDoes
  <2> QED BY <1>0, <1>2, <2>1, <2>2, <2>3, <2>4 DEF Unwatched
<1>4. ASSUME NEW c \in Conns, EventClose(c)
      PROVE  Unwatched' = Unwatched
  <2>1. c \in cur /\ DeleteConnect(c) /\ UNCHANGED statu_
    BY <1>4 DEF EventClose
  <2>2. c \in Servers => statu_[c] = "CONNECTED"
    BY <1>0, <2>1 DEF OnlyServed
  <2>3. \A d \in Conns \ {c} : interest'[d] = interest[d]
    BY <1>0, <2>1 DEF DeleteConnect, EpollType
  <2> QED BY <1>0, <1>2, <2>1, <2>2, <2>3 DEF Unwatched
<1>5. CASE WorkerStep
  <2>1. CASE \/ Poll
             \/ \E e \in batch : (\E c \in Clients : OnAccept(e, c)) \/ OnRead(e) \/ Ignore(e)
             \/ \E c \in Conns : RecvSome(c) \/ RecvBlocks(c) \/ Tell(c)
    BY <1>1, <2>1
    DEF Poll, OnAccept, OnRead, Ignore, RecvSome, RecvBlocks, Tell, epollVars, connVars
  <2> QED BY <1>3, <1>4, <1>5, <2>1 DEF WorkerStep
<1>6. ASSUME NEW s \in Servers, Open(s) \/ OpenFails(s)
      PROVE  Unwatched' = Unwatched
  <2>1. /\ statu_[s] = "NONE"
        /\ \/ statu_' = [statu_ EXCEPT ![s] = "CONNECTING"] /\ Watch(s, {"OUT"}, TRUE)
           \/ statu_' = [statu_ EXCEPT ![s] = "ERROR"] /\ UNCHANGED interest
    BY <1>6 DEF Open, OpenFails, epollVars
  <2>2. /\ \A d \in Servers \ {s} : statu_'[d] = statu_[d]
        /\ \A d \in Conns \ {s} : interest'[d] = interest[d]
        /\ statu_'[s] = "ERROR" \/ interest'[s] = {"OUT"}
    BY <1>0, <2>1, WatchDoes DEF ConnType
  <2> QED BY <1>0, <1>2, <2>1, <2>2 DEF Unwatched
<1>7. ASSUME NEW c \in Clients, NEW func \in BOOLEAN, Start(c, func)
      PROVE  Unwatched' = Unwatched
  <2>1. Watch(c, {"IN"}, TRUE) /\ UNCHANGED statu_
    BY <1>7 DEF Start
  <2>2. \A d \in Conns \ {c} : interest'[d] = interest[d]
    BY <1>0, <2>1, WatchDoes
  <2> QED BY <1>0, <2>1, <2>2 DEF Unwatched
<1>8. CASE ServiceStep
  BY <1>0, <1>1, <1>6, <1>7, <1>8, ServiceTables DEF epollVars, connVars
<1>9. CASE PeerStep \/ UNCHANGED vars
  BY <1>1, <1>9, PeerFrame DEF vars, epollVars, connVars
<1> QED BY <1>5, <1>8, <1>9 DEF OneSideStep

\* An event comes from what epoll watches.
LEMMA UnreportedStep == TypeOK /\ IInv /\ [OneSideStep]_vars => Unreported'
<1> SUFFICES ASSUME TypeOK, IInv, [OneSideStep]_vars
             PROVE  Unreported'
  OBVIOUS
<1>0. Unwatched' = Unwatched /\ Unreported /\ OnlyServed /\ Servers \subseteq Conns
  BY UnwatchedStays DEF IInv, WorkerInv, Conns
<1>1. ASSUME batch' \subseteq batch
      PROVE  Unreported'
  BY <1>0, <1>1 DEF Unreported
<1>2. CASE Poll
  <2>1. \A e \in batch' : e.fd \in ready
    BY <1>2 DEF Poll
  <2>2. \A c \in Conns : c \in ready => interest[c] # {}
    BY <1>0 DEF OnlyServed
  <2> QED BY <1>0, <2>1, <2>2 DEF Unreported, Unwatched
<1>3. CASE WorkerStep
  BY <1>1, <1>2, <1>3
  DEF WorkerStep, OnAccept, OnConnected, OnRead, Ignore, RecvSome, RecvBlocks, Tell, EventClose
<1>4. CASE ServiceStep
  BY <1>1, <1>4, ServiceFrame DEF workerVars
<1>5. CASE PeerStep \/ UNCHANGED vars
  BY <1>1, <1>5, PeerFrame DEF vars, workerVars
<1> QED BY <1>3, <1>4, <1>5 DEF OneSideStep

\* A coroutine that opens a connection is about to be told.
LEMMA NoStuckOpenerStep == TypeOK /\ IInv /\ [OneSideStep]_vars => NoStuckOpener'
<1> SUFFICES ASSUME TypeOK, Typed, IInv, [OneSideStep]_vars
             PROVE  NoStuckOpener'
  BY TypeParts
<1> SUFFICES ASSUME NEW s \in Servers, s \notin Unwatched',
                    s \in co', waits'[s] = Opening, s \in up', s \notin hup'
             PROVE  s \in ready' \/ InBatch(s, "WRITE")' \/ InMailbox(s, "SERVER_CONNECT")'
  BY DEF NoStuckOpener, OpenerTold
<1> DEFINE Told == s \in ready \/ InBatch(s, "WRITE") \/ InMailbox(s, "SERVER_CONNECT")
<1>0. /\ WorkerInv /\ Watched /\ AcceptedOnce /\ OnlyServed /\ EventsTrue /\ NoStuckOpener
      /\ Lens /\ Waiters /\ WaiterIsKnown /\ Openers /\ Lines
      /\ MailType /\ WaitType /\ EpollType /\ ConnType
      /\ Servers \subseteq Conns /\ Clients \cap Servers = {} /\ Conns \subseteq Fds
      /\ Clients \subseteq Conns /\ Listener \notin Conns
      /\ s \in Conns /\ s \notin Clients /\ s \in Fds
  BY SocketAssumption DEF IInv, WorkerInv, TableInv, ServiceInv, NothingUnnoticed, Typed,
                          Waiters, Conns, Fds
<1>1. WorkerStep \/ ServiceStep \/ PeerStep \/ UNCHANGED vars
  BY DEF OneSideStep
<1>2. ASSUME s \in co, waits[s] = Opening
      PROVE  /\ s \in up /\ s \notin hup => Told
             /\ statu_[s] = "CONNECTED" => InMailbox(s, "SERVER_CONNECT")
             /\ statu_[s] = "CONNECTING" => interest[s] = {"OUT"}
             /\ statu_[s] \in {"CONNECTING", "CONNECTED"}
  <2>1. s \in socket_pool
    BY <1>0, <1>2, Kinds DEF Waiters
  <2>2. statu_[s] \in {"NONE", "CONNECTING", "CONNECTED", "ERROR"}
    BY <1>0 DEF ConnType
  <2>3. s \notin Unwatched
    BY UnwatchedStays
  <2>4. s \in up /\ s \notin hup => Told
    BY <1>0, <1>2, <2>3 DEF NoStuckOpener, OpenerTold
  <2> QED BY <1>0, <1>2, <2>1, <2>2, <2>3, <2>4 DEF Watched, Openers, Unwatched
<1>3. CASE WorkerStep
  <2>0. s \in co /\ waits[s] = Opening /\ s \in up /\ s \notin hup
    BY <1>3, WorkerFrame DEF waitVars
  <2>1. CASE Poll
    <3>1. UNCHANGED mailbox /\ batch = {}
      BY <2>1 DEF Poll, luaVars
    <3>2. InMailbox(s, "SERVER_CONNECT") => InMailbox(s, "SERVER_CONNECT")'
      BY <3>1 DEF InMailbox
    <3>3. s \in ready \/ InMailbox(s, "SERVER_CONNECT")
      BY <1>2, <2>0, <3>1 DEF InBatch
    <3> QED BY <1>0, <1>2, <2>0, <2>1, <3>2, <3>3, PollNotices
  <2>2. ASSUME NEW e \in batch, NEW d \in Clients, OnAccept(e, d)
        PROVE  Told'
    <3>1. /\ e.fd = Listener /\ batch' = batch \ {e} /\ UNCHANGED ready
          /\ Send(service_map_, Listener, "CONNECT", d)
      BY <2>2 DEF OnAccept, epollVars
    <3>2. InBatch(s, "WRITE") => InBatch(s, "WRITE")'
      BY <1>0, <3>1 DEF InBatch
    <3>3. InMailbox(s, "SERVER_CONNECT") => InMailbox(s, "SERVER_CONNECT")'
      BY <1>0, <3>1, SendMail
    <3> QED BY <1>2, <2>0, <3>1, <3>2, <3>3
  <2>3. ASSUME NEW e \in batch, OnConnected(e)
        PROVE  Told'
    <3>1. /\ e.fd \in Servers /\ batch' = batch \ {e} /\ Watch(e.fd, {"IN"}, FALSE)
          /\ Send(service_map_, e.fd, "SERVER_CONNECT", e.fd)
      BY <2>3 DEF OnConnected
    <3>2. InBatch(s, "WRITE") => InBatch(s, "WRITE")' \/ e.fd = s
      BY <3>1 DEF InBatch
    <3>3. e.fd \in service_map_ /\ e.fd \in Fds
      BY <1>0, <3>1 DEF OnlyServed, Served
    <3>4. /\ InMailbox(e.fd, "SERVER_CONNECT")'
          /\ InMailbox(s, "SERVER_CONNECT") => InMailbox(s, "SERVER_CONNECT")'
      BY <1>0, <3>1, <3>3, SendMail
    <3>5. s \in ready => s \in ready'
      BY <1>0, <3>1, <3>3, WatchDoes
    <3> QED BY <1>2, <2>0, <3>2, <3>4, <3>5
  <2>4. ASSUME NEW e \in batch, OnRead(e) \/ Ignore(e)
        PROVE  Told'
    <3>1. /\ batch' = batch \ {e} /\ UNCHANGED <<ready, mailbox>>
          /\ OnRead(e) \/ "RDHUP" \in e.ev
      BY <2>4 DEF OnRead, Ignore, epollVars, luaVars
    <3>2. CASE e.fd = s
      <4>1. "RDHUP" \notin e.ev
        BY <1>0, <2>0, <3>2 DEF EventsTrue
      <4>2. statu_[s] = "CONNECTED"
        BY <3>1, <3>2, <4>1 DEF OnRead, Dispatching
      <4> QED BY <1>2, <2>0, <3>1, <4>2 DEF InMailbox
    <3>3. CASE e.fd # s
      <4>1. InBatch(s, "WRITE") => InBatch(s, "WRITE")'
        BY <3>1, <3>3 DEF InBatch
      <4> QED BY <1>2, <2>0, <3>1, <4>1 DEF InMailbox
    <3> QED BY <3>2, <3>3
  <2>5. ASSUME NEW d \in Conns, RecvSome(d) \/ RecvBlocks(d)
        PROVE  Told'
    <3>1. UNCHANGED <<batch, ready, mailbox>>
      BY <2>5 DEF RecvSome, RecvBlocks, epollVars, luaVars
    <3> QED BY <1>2, <2>0, <3>1 DEF InMailbox, InBatch
  <2>6. ASSUME NEW d \in Conns, Tell(d)
        PROVE  Told'
    <3>1. UNCHANGED <<batch, ready>> /\ Send(service_map_, d, "DATA", d)
      BY <2>6 DEF Tell, epollVars
    <3>2. InMailbox(s, "SERVER_CONNECT") => InMailbox(s, "SERVER_CONNECT")'
      BY <1>0, <3>1, SendMail
    <3> QED BY <1>2, <2>0, <3>1, <3>2 DEF InBatch
  <2>7. ASSUME NEW d \in Conns, EventClose(d)
        PROVE  Told'
    <3>1. /\ d \in cur /\ UNCHANGED batch /\ DeleteConnect(d)
          /\ Send(service_map_', d, "DISCONNECT", d)
      BY <2>7 DEF EventClose
    <3>2. InMailbox(s, "SERVER_CONNECT") => InMailbox(s, "SERVER_CONNECT")'
      BY <1>0, <3>1, SendMail
    <3>3. CASE s = d
      <4>1. statu_[s] = "CONNECTED"
        BY <1>0, <3>1, <3>3 DEF OnlyServed
      <4> QED BY <1>2, <2>0, <3>2, <4>1
    <3>4. CASE s # d
      <4>1. s \in ready => s \in ready'
        BY <1>0, <3>1, <3>4, DeleteDoes
      <4> QED BY <1>2, <2>0, <3>1, <3>2, <4>1 DEF InBatch
    <3> QED BY <3>3, <3>4
  <2> QED BY <1>3, <2>1, <2>2, <2>3, <2>4, <2>5, <2>6, <2>7 DEF WorkerStep
<1>4. CASE PeerStep
  <2>1. /\ UNCHANGED <<waits, co, statu_, interest, batch, mailbox>>
        /\ hup \subseteq hup' /\ ready \subseteq ready'
    BY <1>4, PeerFrame DEF luaVars, waitVars, connVars, workerVars
  <2>2. CASE s \in up
    BY <1>2, <2>1, <2>2 DEF InMailbox, InBatch
  <2>3. CASE s \notin up
    <3>1. Establish(s)
      BY <1>0, <1>4, <2>3
      DEF PeerStep, Arrive, Establish, PeerCloses, Hangup, PeerSends
    <3>2. interest[s] = {"OUT"}
      BY <1>2, <2>1, <3>1 DEF Establish
    <3> QED BY <3>1, <3>2 DEF Establish, Notify
  <2> QED BY <2>2, <2>3
<1>5. ASSUME UNCHANGED workerVars, up' = up, hup' = hup, waits[s] = Opening, s \in co,
             ready \subseteq ready',
             InMailbox(s, "SERVER_CONNECT") => InMailbox(s, "SERVER_CONNECT")'
      PROVE  Told'
  BY <1>2, <1>5 DEF InBatch, workerVars
<1>6. CASE Handle
  <2>1. PICK m \in Messages :
           /\ m = Head(mailbox) /\ m.fd \in Conns /\ mailbox # <<>> /\ mailbox' = Tail(mailbox)
           /\ UNCHANGED <<kernelVars, workerVars, epollVars>>
           /\ \/ m.type = "CONNECT" /\ OnConnectMessage(m.fd)
              \/ m.type = "DATA" /\ OnData(m.fd)
              \/ m.type = "SERVER_CONNECT" /\ OnServerConnect(m.fd)
    BY <1>6, Handled
  <2>2. InMailbox(s, "SERVER_CONNECT") /\ (m.type # "SERVER_CONNECT" \/ m.fd # s)
          => InMailbox(s, "SERVER_CONNECT")'
    BY <1>0, <2>1, TailMail
  <2>3. up' = up /\ hup' = hup /\ ready' = ready
    BY <2>1 DEF kernelVars, epollVars
  <2>4. CASE m.type = "DATA" /\ OnData(m.fd)
    <3>1. waits' = waits
      BY <1>0, <2>1, <2>4, OnDataDoes
    <3>2. s \in co
      BY <1>0, <3>1, Kinds, <2>1, <2>4, OnDataDoes
    <3> QED BY <1>5, <2>1, <2>2, <2>3, <2>4, <3>1, <3>2
  <2>5. CASE m.type = "CONNECT" /\ OnConnectMessage(m.fd)
    <3>1. waits' = waits /\ co' = co
      BY <2>5 DEF OnConnectMessage, waitVars
    <3> QED BY <1>5, <2>1, <2>2, <2>3, <2>5, <3>1
  <2>6. CASE m.type = "SERVER_CONNECT" /\ OnServerConnect(m.fd)
    <3>1. waits' = waits /\ co' \subseteq co
      BY <2>6 DEF OnServerConnect, Wake
    <3>2. m.fd # s
      BY <1>0, <2>6, <3>1, OnServerConnectDoes, WakeDoes
    <3> QED BY <1>5, <2>1, <2>2, <2>3, <3>1, <3>2
  <2> QED BY <2>1, <2>4, <2>5, <2>6
<1>7. ASSUME NEW t \in Servers, Open(t), ServiceStep
      PROVE  Told'
  <2>1. /\ statu_[t] = "NONE" /\ Suspend(t, Opening) /\ Watch(t, {"OUT"}, TRUE)
        /\ UNCHANGED <<kernelVars, mailbox>>
    BY <1>7 DEF Open
  <2>2. s # t
    BY <1>0, <2>1 DEF Watched, kernelVars
  <2>3. waits[s] = Opening /\ s \in co
    BY <1>0, <2>1, <2>2, SuspendDoes
  <2>4. ready \subseteq ready'
    BY <1>0, <2>1, WatchDoes
  <2> QED BY <1>5, <1>7, <2>1, <2>3, <2>4, ServiceFrame DEF kernelVars, InMailbox
<1>8. ASSUME NEW d \in Clients, NEW func \in BOOLEAN, Start(d, func), ServiceStep
      PROVE  Told'
  <2>1. Watch(d, {"IN"}, TRUE) /\ UNCHANGED <<kernelVars, mailbox, waits, co>>
    BY <1>8 DEF Start, waitVars
  <2>2. ready \subseteq ready'
    BY <1>0, <2>1, WatchDoes
  <2> QED BY <1>5, <1>8, <2>1, <2>2, ServiceFrame DEF kernelVars, InMailbox
<1>9. ASSUME UNCHANGED <<kernelVars, workerVars, ready, mailbox>>,
             waits[s] = Opening, s \in co
      PROVE  Told'
  BY <1>5, <1>9 DEF kernelVars, InMailbox
<1>10. ASSUME NEW d \in Conns, NEW w, Suspend(d, w), w # Opening
       PROVE  waits[s] = Opening /\ s \in co
  BY <1>0, <1>10, SuspendDoes
<1>11. ASSUME NEW d \in Conns, ServiceStep, (\E n \in 1 .. MaxBytes : Recv(d, n)) \/ Recvline(d)
       PROVE  Told'
  <2>1. UNCHANGED <<ready, mailbox>>
    BY <1>11 DEF Recv, Recvline, epollVars
  <2>2. UNCHANGED waitVars \/ \E w : w # Opening /\ Suspend(d, w)
    BY <1>0, <1>11, RecvDoes, RecvlineDoes, Kinds
  <2>3. waits[s] = Opening /\ s \in co
    BY <1>10, <2>2 DEF waitVars
  <2> QED BY <1>9, <1>11, <2>1, <2>3, ServiceFrame
<1>12. ASSUME NEW d \in Conns, Resume(d), ServiceStep
       PROVE  Told'
  <2>1. /\ UNCHANGED <<co, mailbox, epollVars>> /\ waits'[d] = Nothing
        /\ \A a \in Conns \ {d} : waits'[a] = waits[a]
    BY <1>0, <1>12, ResumeDoes
  <2> QED BY <1>0, <1>9, <1>12, <2>1, ServiceFrame, Kinds DEF epollVars
<1>13. ASSUME NEW t \in Servers, OpenFails(t), ServiceStep
       PROVE  Told'
  BY <1>9, <1>13, ServiceFrame DEF OpenFails, luaVars, waitVars, epollVars
<1>14. CASE ServiceStep
  BY <1>6, <1>7, <1>8, <1>11, <1>12, <1>13, <1>14 DEF ServiceStep
<1>15. CASE UNCHANGED vars
  BY <1>9, <1>15 DEF vars, luaVars, waitVars, epollVars
<1> QED BY <1>1, <1>3, <1>4, <1>14, <1>15

-----------------------------------------------------------------------------
(* The theorems.                                                           *)

\* The state the model starts in.
LEMMA InitHolds == Init => IInv
<1> SUFFICES ASSUME Init
             PROVE  IInv
  OBVIOUS
<1> USE SocketAssumption
<1>1. /\ rx = [c \in Conns |-> <<>>] /\ rbuffer = [c \in Conns |-> <<>>]
      /\ sent = 0 /\ ret = 0 /\ cur = {} /\ telling = {} /\ batch = {} /\ mailbox = <<>>
      /\ DOMAIN mailbox = {} /\ Len(<<>>) = 0 /\ <<>> \in Seq(Bytes) /\ <<>> \in Seq(Messages)
      /\ last_read_pos = [c \in Conns |-> 0] /\ 0 \in 0 .. MaxBytes - 1
      /\ waits = [c \in Conns |-> Nothing] /\ read_required = [c \in Conns |-> Nothing]
      /\ Nothing \in 0 .. Line /\ Nothing \in 0 .. Opening /\ 0 \in 0 .. MaxBytes
      /\ interest = [fd \in Fds |-> IF fd = Listener THEN {"IN"} ELSE {}]
      /\ et = {Listener} /\ ready = {} /\ statu_ = [s \in Servers |-> "NONE"]
      /\ connects_ = {Listener} /\ service_map_ = {Listener} /\ socket_pool = {Listener}
      /\ connected = {} /\ callback = {} /\ co = {} /\ woken = {}
      /\ up = {} /\ fin = {} /\ hup = {} /\ backlog = {}
      /\ Listener \in Fds /\ Listener \notin Conns /\ Conns \subseteq Fds
      /\ Clients \subseteq Conns /\ Servers \subseteq Conns
  BY DEF Init, Nothing, Line, Opening, Fds, Conns
<1>2. TypeOK
  <2>1. KernelType /\ EpollType /\ WorkerType /\ ConnType
    BY <1>1 DEF KernelType, EpollType, WorkerType, ConnType
  <2>2. BufferType /\ MailType /\ RecordType /\ WaitType
    BY <1>1 DEF BufferType, MailType, RecordType, WaitType
  <2> QED BY <2>1, <2>2, TypeParts DEF Typed
<1>3. Lens
  BY <1>1 DEF Lens
<1>4. WorkerInv
  BY <1>1 DEF WorkerInv, BatchOnce, EventsTrue, OnlyServed, Served, Unreported
<1>5. TableInv
  BY <1>1 DEF TableInv, Watched, AcceptedOnce, InMailbox
<1>6. ServiceInv
  BY <1>1, Kinds DEF ServiceInv, Waiters, WaiterIsKnown, Openers, Lines
<1>7. NothingUnnoticed
  BY <1>1 DEF NothingUnnoticed, NoForgottenBytes, NoStuckReader, NoStuckOpener, OpenerTold
<1> QED BY <1>2, <1>3, <1>4, <1>5, <1>6, <1>7 DEF IInv

\* A connection that is there at once: its record, and a coroutine that waits for it,
\* with nothing that leads the worker to it.
LEMMA AtOnceStep ==
  ASSUME TypeOK, IInv, NEW s \in Servers, OpenAtOnce(s)
  PROVE  IInv'
<1>0. /\ Lens /\ Watched /\ AcceptedOnce /\ OnlyServed /\ EventsTrue /\ BatchOnce /\ Unreported
      /\ Waiters /\ WaiterIsKnown /\ Openers /\ Lines
      /\ NoForgottenBytes /\ NoStuckReader /\ NoStuckOpener
      /\ Typed /\ MailType /\ WaitType /\ EpollType /\ ConnType /\ KernelType /\ RecordType
      /\ Servers \subseteq Conns /\ Clients \cap Servers = {} /\ Conns \subseteq Fds
      /\ Clients \subseteq Conns /\ s \in Conns /\ s \notin Clients
  BY SocketAssumption, TypeParts
  DEF IInv, WorkerInv, TableInv, ServiceInv, NothingUnnoticed, Typed, Waiters, Conns, Fds
<1>1. /\ statu_[s] = "NONE" /\ statu_' = [statu_ EXCEPT ![s] = "CONNECTING"]
      /\ service_map_' = service_map_ \cup {s} /\ connects_' = connects_ \cup {s}
      /\ up' = up \cup {s} /\ socket_pool' = socket_pool \cup {s} /\ Suspend(s, Opening)
      /\ UNCHANGED <<rx, sent, fin, hup, backlog, interest, et, ready, batch, cur, ret, telling,
                     rbuffer, last_read_pos, mailbox, connected, callback, read_required>>
  BY DEF OpenAtOnce, epollVars, workerVars, bufferVars
<1>2. /\ s \notin socket_pool /\ s \notin up /\ waits[s] = Nothing
      /\ s \notin co /\ s \notin woken /\ s \notin connected
  BY <1>0, <1>1 DEF Watched, Waiters, WaiterIsKnown
<1>3. /\ s \in co' /\ waits'[s] = Opening /\ UNCHANGED woken
      /\ \A d \in Conns \ {s} : waits'[d] = waits[d] /\ (d \in co' <=> d \in co)
  BY <1>0, <1>1, SuspendDoes
<1>4. statu_'[s] = "CONNECTING" /\ \A t \in Servers \ {s} : statu_'[t] = statu_[t]
  BY <1>0, <1>1 DEF ConnType
<1>5. /\ interest[s] = {} /\ s \notin ready /\ s \notin cur /\ s \notin telling
      /\ \A e \in batch : e.fd # s
  BY <1>0, <1>2 DEF OnlyServed, Served
<1>6. \A c, type : InMailbox(c, type)' <=> InMailbox(c, type)
  BY <1>1 DEF InMailbox
<1>7. TypeOK'
  <2>1. KernelType' /\ EpollType' /\ WorkerType' /\ BufferType' /\ MailType'
    BY <1>0, <1>1 DEF Typed, KernelType, EpollType, WorkerType, BufferType, MailType
  <2>2. ConnType' /\ RecordType'
    BY <1>0, <1>1 DEF ConnType, RecordType
  <2>3. Opening \in 0 .. Opening
    BY SocketAssumption DEF Opening
  <2>4. WaitType'
    BY <1>0, <1>1, <2>3, SuspendType DEF WaitType
  <2> QED BY <2>1, <2>2, <2>4, TypePartsNext DEF Typed
<1>8. Lens'
  BY <1>0, <1>1 DEF Lens
<1>9. BatchOnce' /\ EventsTrue'
  BY <1>0, <1>1 DEF BatchOnce, EventsTrue
<1>10. OnlyServed'
  BY <1>0, <1>1, <1>4, <1>5 DEF OnlyServed, Served
<1>11. Unreported'
  BY <1>0, <1>1, <1>4, <1>5 DEF Unreported, Unwatched
<1>12. Watched'
  BY <1>0, <1>1, <1>4, <1>5 DEF Watched
<1>13. AcceptedOnce'
  BY <1>0, <1>1, <1>6 DEF AcceptedOnce
<1>14. Waiters'
  <2>1. read_required[s] = Nothing /\ Opening # Nothing
    BY <1>0, <1>2, Kinds DEF Waiters
  <2> QED BY <1>0, <1>1, <1>2, <1>3, <2>1 DEF Waiters, WaiterIsKnown
<1>15. Openers'
  BY <1>0, <1>1, <1>2, <1>3, <1>4, <1>6 DEF Openers
<1>16. Lines'
  BY <1>0, <1>1, <1>2, <1>3, Kinds DEF Lines
<1>17. NoForgottenBytes'
  BY <1>0, <1>1, <1>4, <1>5 DEF NoForgottenBytes, InBatch
<1>18. NoStuckReader'
  <2>1. ~Satisfied(s)'
    BY <1>3, Kinds DEF Satisfied
  <2>2. ASSUME NEW c \in Conns \ {s}, c \in co' \cap connects_', Satisfied(c)'
        PROVE  InMailbox(c, "DATA")' \/ c \in telling' \/ (c \in cur' /\ ret' > 0)
    <3>1. Satisfied(c) /\ c \in co \cap connects_
      BY <1>1, <1>3, <2>2 DEF Satisfied
    <3>2. InMailbox(c, "DATA") \/ c \in telling \/ (c \in cur /\ ret > 0)
      BY <1>0, <3>1 DEF NoStuckReader
    <3> QED BY <1>1, <1>6, <3>2
  <2>3. co' \subseteq Conns
    BY <1>7 DEF TypeOK
  <2> QED BY <2>1, <2>2, <2>3 DEF NoStuckReader
<1>19. NoStuckOpener'
  BY <1>0, <1>1, <1>3, <1>4, <1>5, <1>6 DEF NoStuckOpener, OpenerTold, Unwatched, InBatch
<1> QED
  BY <1>7, <1>8, <1>9, <1>10, <1>11, <1>12, <1>13, <1>14, <1>15, <1>16, <1>17, <1>18, <1>19
  DEF IInv, WorkerInv, TableInv, ServiceInv, NothingUnnoticed

\* The inductive invariant holds in every state: socket_worker.cc, epoll and socket.lua
\* keep their tables consistent with each other.
THEOREM Invariance == Spec => []IInv
<1>1. IInv /\ [Next]_vars => IInv'
  <2> SUFFICES ASSUME IInv, TypeOK, [OneSideStep]_vars
               PROVE  IInv'
    BY AtOnceStep DEF IInv, Next, OneSideStep, PeerStep
  <2>1. TypeOK' /\ Lens'
    BY TypeStep, LensStep DEF IInv
  <2>2. WorkerInv'
    BY BatchOnceStep, EventsTrueStep, OnlyServedStep, UnreportedStep
    DEF IInv, WorkerInv, ServiceInv
  <2>3. TableInv'
    BY WatchedStep, AcceptedOnceStep DEF TableInv
  <2>4. ServiceInv'
    BY WaitersStep, OpenersStep, LinesStep DEF ServiceInv
  <2>5. NothingUnnoticed'
    BY NoForgottenBytesStep, NoStuckReaderStep, NoStuckOpenerStep DEF NothingUnnoticed
  <2> QED BY <2>1, <2>2, <2>3, <2>4, <2>5 DEF IInv
<1> QED BY <1>1, InitHolds, PTL DEF Spec

\* Every variable of the reading side has its type, and no buffer, kernel queue or
\* count exceeds what the peers have sent.
THEOREM TypeCorrect == Spec => []TypeOK
<1>1. IInv => TypeOK
  BY DEF IInv
<1> QED BY <1>1, Invariance, PTL

\* No byte or close stays in the kernel unnoticed, no coroutine of socket.lua sleeps on
\* data that is there or on a connection that has been established since ::connect said
\* it was under way: whatever has come, epoll, the worker or a message is about to bring
\* it.  A connection that ::connect establishes at once is excepted: nothing brings it.
THEOREM Noticed == Spec => []NothingUnnoticed
<1>1. IInv => NothingUnnoticed
  BY DEF IInv
<1> QED BY <1>1, Invariance, PTL

\* The assertions of socket.lua's handlers hold for the message that is next, and s.co
\* and the wakeup queue hold each suspended coroutine once.
THEOREM InTime == Spec => []RecordsInTime
<1>1. IInv => RecordsInTime
  <2> SUFFICES ASSUME IInv
               PROVE  RecordsInTime
    OBVIOUS
  <2>1. MailType
    BY TypeParts DEF IInv, Typed
  <2>2. ASSUME mailbox # <<>>
        PROVE  Asserts(Head(mailbox))
    <3>1. 1 \in DOMAIN mailbox /\ mailbox[1] = Head(mailbox)
      BY <2>1, <2>2 DEF MailType
    <3> QED BY <3>1 DEF IInv, TableInv, AcceptedOnce, Asserts
  <2> QED BY <2>2 DEF IInv, ServiceInv, Waiters, RecordsInTime, HandlersAssert
<1> QED BY <1>1, Invariance, PTL

\* A connection goes from connects_ only when its peer has closed or reset it: recv is
\* never entered without something to read, so its 0 is never mistaken for a close.
THEOREM ClosedByPeers == Spec => OnlyPeersClose
<1>1. IInv /\ [Next]_vars
        => [\A c \in Conns : c \in connects_ \ connects_' => c \in fin \cup hup]_vars
  <2> SUFFICES ASSUME IInv, Next, NEW c \in Conns, c \in connects_ \ connects_'
               PROVE  c \in fin \cup hup
    OBVIOUS
  <2>1. Typed /\ EventsTrue
    BY TypeParts DEF IInv, WorkerInv
  <2>2. ASSUME NEW d \in Conns, EventClose(d)
        PROVE  c \in fin \cup hup
    <3>1. c = d /\ d \in cur /\ rx[d] = <<>> /\ (d \in fin \cup hup \/ ret = 0)
      BY <2>2 DEF EventClose, DeleteConnect
    <3> QED BY <2>1, <3>1 DEF EventsTrue
  <2>3. CASE WorkerStep
    <3>1. CASE \/ Poll
               \/ \E e \in batch : OnConnected(e) \/ OnRead(e) \/ Ignore(e)
               \/ \E d \in Conns : RecvSome(d) \/ RecvBlocks(d) \/ Tell(d)
      BY <3>1 DEF Poll, OnConnected, OnRead, Ignore, RecvSome, RecvBlocks, Tell, connVars
    <3>2. CASE \E e \in batch, d \in Clients : OnAccept(e, d)
      BY <3>2 DEF OnAccept
    <3> QED BY <2>2, <2>3, <3>1, <3>2 DEF WorkerStep
  <2>4. CASE ServiceStep
    BY <2>1, <2>4, ServiceTables DEF connVars, Start, Open, OpenFails
  <2>5. CASE PeerStep
    BY <2>5, PeerFrame DEF connVars
  <2>6. CASE \E s \in Servers : OpenAtOnce(s)
    BY <2>6 DEF OpenAtOnce
  <2> QED BY <2>3, <2>4, <2>5, <2>6 DEF Next, PeerStep
<1> QED BY <1>1, Invariance, PTL DEF Spec, OnlyPeersClose

=============================================================================
