----------------------------- MODULE SocketRead -----------------------------
(***************************************************************************)
(* Events and data on their way to a service: epoll and the kernel, the     *)
(* socket worker with its connections (socket_worker.cc, connect_*.cc,      *)
(* net_worker_manager.cc, net/*.cc), the calls of lua_socket.cc that read,  *)
(* and socket.lua, whose coroutines wait for data and for connections.      *)
(*                                                                          *)
(* One service listens, accepts Clients and opens Servers.  It handles one  *)
(* message at a time (ServiceDispatch) while the socket worker runs beside  *)
(* it.  Its Lua state is its own and it alone removes from the read buffer, *)
(* so a call into socket.lua is one step: its one look at shared state.     *)
(* Nothing calls socket::close, so no descriptor is used twice.             *)
(*                                                                          *)
(* Each connection has one coroutine that reads.  Bytes are "x" or the      *)
(* separator "n".  No handler of DISCONNECT is modelled, for none is sent:  *)
(* see EventClose.                                                          *)
(***************************************************************************)
EXTENDS Naturals, Sequences, FiniteSetsExt

CONSTANTS
  Clients,    \* descriptors that accept returns
  Servers,    \* descriptors of connections the service opens
  Listener,   \* the listening descriptor
  RecvSize,   \* the bytes one ::recv takes (4096)
  MaxBytes,   \* bound on the bytes the peers send in all
  MaxHangups  \* bound on the connections refused or reset

ASSUME SocketAssumption ==
  /\ Clients \cap Servers = {} /\ Listener \notin Clients \cup Servers
  /\ {RecvSize, MaxBytes} \subseteq Nat \ {0} /\ MaxHangups \in Nat

Conns == Clients \cup Servers
Fds   == Conns \cup {Listener}
Bytes == {"x", "n"}

\* What a coroutine waits for: nothing, 1 .. MaxBytes bytes, a line, an open.
Nothing == 0
Line    == MaxBytes + 1
Opening == MaxBytes + 2

VARIABLES
  rx,             \* per connection, the bytes in the kernel
  sent,           \* how many bytes the peers have sent
  up,             \* the established connections
  fin,            \* those whose peer has closed
  hup,            \* those refused or reset
  backlog,        \* those to be accepted
  interest,       \* per descriptor, the events epoll watches; {}: not watched
  et,             \* the descriptors watched edge-triggered
  ready,          \* epoll's ready list
  batch,          \* the events poll() has returned and start() must dispatch
  cur,            \* the connections inside socket::recv: none or one
  ret,            \* what socket::recv has counted
  telling,        \* the connections whose service is to be told: none or one
  connects_,      \* the descriptors with a connection
  service_map_,   \* the descriptors with a service
  statu_,         \* connect_server::statu_
  rbuffer,        \* per connection, the read buffer
  last_read_pos,  \* per connection, how far buffer_search has looked
  mailbox,        \* the service's messages
  socket_pool,    \* the descriptors with a record in socket.lua
  connected,      \* s.connected
  callback,       \* s.callback is set
  co,             \* s.co is set
  read_required,  \* s.read_required, Nothing for nil and false
  waits,          \* what the coroutine of a connection is suspended for
  woken           \* those in the wakeup queue

kernelVars == <<rx, sent, up, fin, hup, backlog>>
epollVars  == <<interest, et, ready>>
workerVars == <<batch, cur, ret, telling>>
connVars   == <<connects_, service_map_, statu_>>
bufferVars == <<rbuffer, last_read_pos>>
recordVars == <<socket_pool, connected, callback>>
waitVars   == <<co, read_required, waits, woken>>
luaVars    == <<mailbox, recordVars, waitVars>>
vars == <<kernelVars, epollVars, workerVars, connVars, bufferVars, luaVars>>

Messages == [type : {"CONNECT", "DATA", "SERVER_CONNECT", "DISCONNECT"}, fd : Conns]
Events   == [fd : Fds, ev : (SUBSET {"READ", "WRITE", "RDHUP"}) \ {{}}]

TypeOK ==
  /\ rx \in [Conns -> Seq(Bytes)] /\ sent \in 0 .. MaxBytes
  /\ {up, fin, hup} \subseteq SUBSET Conns /\ backlog \subseteq Clients
  /\ interest \in [Fds -> SUBSET {"IN", "OUT"}]
  /\ {et, ready, connects_, service_map_, socket_pool} \subseteq SUBSET Fds
  /\ batch \subseteq Events
  /\ {cur, telling} \subseteq {{}} \cup {{c} : c \in Conns} /\ ret \in 0 .. MaxBytes
  /\ statu_ \in [Servers -> {"NONE", "CONNECTING", "CONNECTED", "ERROR"}]
  /\ rbuffer \in [Conns -> Seq(Bytes)]
  /\ last_read_pos \in [Conns -> 0 .. MaxBytes - 1]
  /\ mailbox \in Seq(Messages)
  /\ {connected, callback, co, woken} \subseteq SUBSET Conns
  /\ read_required \in [Conns -> 0 .. Line]
  /\ waits \in [Conns -> 0 .. Opening]

\* The service has called listen and start on the listening descriptor.
Init ==
  /\ rx = [c \in Conns |-> <<>>] /\ sent = 0
  /\ up = {} /\ fin = {} /\ hup = {} /\ backlog = {}
  /\ interest = [fd \in Fds |-> IF fd = Listener THEN {"IN"} ELSE {}]
  /\ et = {Listener} /\ ready = {}
  /\ batch = {} /\ cur = {} /\ ret = 0 /\ telling = {}
  /\ connects_ = {Listener} /\ service_map_ = {Listener}
  /\ statu_ = [s \in Servers |-> "NONE"]
  /\ rbuffer = [c \in Conns |-> <<>>] /\ last_read_pos = [c \in Conns |-> 0]
  /\ mailbox = <<>>
  /\ socket_pool = {Listener} /\ connected = {} /\ callback = {}
  /\ co = {} /\ read_required = [c \in Conns |-> Nothing]
  /\ waits = [c \in Conns |-> Nothing] /\ woken = {}

-----------------------------------------------------------------------------
(* epoll and the peers (external).                                         *)

\* what holds of a descriptor now
Condition(fd) ==
  IF fd = Listener
    THEN {"IN" : c \in backlog}
    ELSE {"IN" : c \in {d \in {fd} : rx[d] # <<>> \/ d \in fin}}
           \cup {"OUT" : c \in up \cap {fd}} \cup {"HUP" : c \in hup \cap {fd}}

\* EPOLL_CTL_ADD and EPOLL_CTL_MOD: what holds already is reported
Watch(fd, events, edge) ==
  /\ interest' = [interest EXCEPT ![fd] = events]
  /\ et' = IF edge THEN et \cup {fd} ELSE et \ {fd}
  /\ ready' = IF Condition(fd) \cap (events \cup {"HUP"}) # {}
                THEN ready \cup {fd} ELSE ready

\* the wake-up of epoll when something happens to a descriptor
Notify(fd, event) ==
  /\ ready' = IF interest[fd] # {} /\ event \in interest[fd] \cup {"HUP"}
                THEN ready \cup {fd} ELSE ready
  /\ UNCHANGED <<interest, et>>

\* a client's handshake is complete
Arrive(c) ==
  /\ c \in Clients \ up
  /\ up' = up \cup {c} /\ backlog' = backlog \cup {c}
  /\ Notify(Listener, "IN")
  /\ UNCHANGED <<rx, sent, fin, hup, workerVars, connVars, bufferVars, luaVars>>

\* a server answers the connect
Establish(s) ==
  /\ statu_[s] = "CONNECTING" /\ s \notin up \cup hup
  /\ up' = up \cup {s}
  /\ Notify(s, "OUT")
  /\ UNCHANGED <<rx, sent, fin, hup, backlog, workerVars, connVars, bufferVars, luaVars>>

PeerSends(c, b) ==
  /\ c \in up \ (fin \cup hup) /\ sent < MaxBytes
  /\ sent' = sent + 1
  /\ rx' = [rx EXCEPT ![c] = Append(@, b)]
  /\ Notify(c, "IN")
  /\ UNCHANGED <<up, fin, hup, backlog, workerVars, connVars, bufferVars, luaVars>>

PeerCloses(c) ==
  /\ c \in up \ (fin \cup hup)
  /\ fin' = fin \cup {c}
  /\ Notify(c, "IN")
  /\ UNCHANGED <<rx, sent, up, hup, backlog, workerVars, connVars, bufferVars, luaVars>>

\* the connect is refused or the connection is reset
Hangup(c) ==
  /\ c \notin hup /\ Cardinality(hup) < MaxHangups
  /\ c \in up \/ (c \in Servers /\ statu_[c] = "CONNECTING")
  /\ hup' = hup \cup {c}
  /\ Notify(c, "HUP")
  /\ UNCHANGED <<rx, sent, up, fin, backlog, workerVars, connVars, bufferVars, luaVars>>

-----------------------------------------------------------------------------
(* The socket worker.                                                      *)

\* poller::poll: a hang-up hides the other events
Translate(events) ==
  IF "HUP" \in events
    THEN {"RDHUP"}
    ELSE {"READ" : e \in events \cap {"IN"}} \cup {"WRITE" : e \in events \cap {"OUT"}}

\* epoll_wait looks at each ready descriptor again; a level-triggered one stays
Reported(fd) == Condition(fd) \cap (interest[fd] \cup {"HUP"})

Poll ==
  /\ batch = {} /\ cur = {} /\ telling = {}
  /\ LET hits == {fd \in ready : Reported(fd) # {}}
     IN  /\ hits # {}
         /\ batch' = {[fd |-> fd, ev |-> Translate(Reported(fd))] : fd \in hits}
         /\ ready' = hits \ et
  /\ UNCHANGED <<interest, et, kernelVars, cur, ret, telling, connVars, bufferVars, luaVars>>

\* service_manager::send with the service that get_service finds for fd among served
Send(served, fd, type, ud) ==
  mailbox' = IF fd \in served THEN Append(mailbox, [type |-> type, fd |-> ud])
                              ELSE mailbox

\* connect_listen: one accept per event.  The message goes by send(msg), which
\* schedules the service whether or not it is scheduled; what that does to a service
\* is ServiceDispatch's SendRaw, here its messages are handled one by one.
OnAccept(e, c) ==
  /\ e.fd = Listener /\ c \in backlog
  /\ backlog' = backlog \ {c}
  /\ connects_' = connects_ \cup {c}
  /\ Send(service_map_, Listener, "CONNECT", c)
  /\ batch' = batch \ {e}
  /\ UNCHANGED <<rx, sent, up, fin, hup, epollVars, cur, ret, telling, service_map_, statu_,
                 bufferVars, recordVars, waitVars>>

Dispatching(e) == e.fd \in Servers => statu_[e.fd] = "CONNECTED"

\* connect_server in the state CONNECTING, with event_mod_read(fd, false)
OnConnected(e) ==
  /\ e.fd \in Servers /\ statu_[e.fd] = "CONNECTING" /\ "WRITE" \in e.ev
  /\ statu_' = [statu_ EXCEPT ![e.fd] = "CONNECTED"]
  /\ Send(service_map_, e.fd, "SERVER_CONNECT", e.fd)
  /\ Watch(e.fd, {"IN"}, FALSE)
  /\ batch' = batch \ {e}
  /\ UNCHANGED <<kernelVars, cur, ret, telling, connects_, service_map_, bufferVars,
                 recordVars, waitVars>>

\* EVENT_READ of a connection: into socket::recv
OnRead(e) ==
  /\ e.fd \in Conns \cap connects_ /\ Dispatching(e) /\ "READ" \in e.ev
  /\ cur' = {e.fd} /\ ret' = 0
  /\ batch' = batch \ {e}
  /\ UNCHANGED <<telling, kernelVars, epollVars, connVars, bufferVars, luaVars>>

\* event_rdhup_hander does nothing, nor does a server that is still connecting
Ignore(e) ==
  /\ "RDHUP" \in e.ev
  /\ batch' = batch \ {e}
  /\ UNCHANGED <<kernelVars, epollVars, cur, ret, telling, connVars, bufferVars, luaVars>>

\* mutant: the count starts again with every ::recv
RecvSome_Recount(c) ==
  /\ c \in cur /\ rx[c] # <<>>
  /\ LET n == Min({RecvSize, Len(rx[c])})
     IN  /\ rx' = [rx EXCEPT ![c] = SubSeq(@, n + 1, Len(@))]
         /\ rbuffer' = [rbuffer EXCEPT ![c] = @ \o SubSeq(rx[c], 1, n)]
         /\ ret' = 0
  /\ UNCHANGED <<sent, up, fin, hup, backlog, epollVars, batch, cur, telling,
                 connVars, last_read_pos, luaVars>>

\* one ::recv with data
RecvSome(c) ==
  /\ c \in cur /\ rx[c] # <<>>
  /\ LET n == Min({RecvSize, Len(rx[c])})
     IN  /\ rx' = [rx EXCEPT ![c] = SubSeq(@, n + 1, Len(@))]
         /\ rbuffer' = [rbuffer EXCEPT ![c] = @ \o SubSeq(rx[c], 1, n)]
         /\ ret' = ret + n
  /\ UNCHANGED <<sent, up, fin, hup, backlog, epollVars, batch, cur, telling,
                 connVars, last_read_pos, luaVars>>

\* ::recv would block: socket::recv returns what it has counted
RecvBlocks(c) ==
  /\ c \in cur /\ rx[c] = <<>> /\ c \notin fin \cup hup /\ ret > 0
  /\ cur' = {} /\ telling' = {c}
  /\ UNCHANGED <<kernelVars, epollVars, batch, ret, connVars, bufferVars, luaVars>>

\* event_read_hander: DATA to the service
Tell(c) ==
  /\ c \in telling
  /\ telling' = {}
  /\ Send(service_map_, c, "DATA", c)
  /\ UNCHANGED <<kernelVars, epollVars, batch, cur, ret, connVars, bufferVars,
                 recordVars, waitVars>>

\* net_worker_manager::delete_connect
DeleteConnect(fd) ==
  /\ interest' = [interest EXCEPT ![fd] = {}]
  /\ et' = et \ {fd} /\ ready' = ready \ {fd}
  /\ connects_' = connects_ \ {fd} /\ service_map_' = service_map_ \ {fd}

\* socket::recv returns 0: the peer has closed, the connection is reset (::recv gives
\* an error, is called again and gives 0), or nothing has come at all;
\* event_close_hander, which asks for the service when delete_connect has erased it
EventClose(c) ==
  /\ c \in cur /\ rx[c] = <<>> /\ (c \in fin \cup hup \/ ret = 0)
  /\ cur' = {}
  /\ DeleteConnect(c)
  /\ Send(service_map_', c, "DISCONNECT", c)
  /\ UNCHANGED <<kernelVars, batch, ret, telling, statu_, bufferVars, recordVars, waitVars>>

WorkerStep ==
  \/ Poll
  \/ /\ cur = {} /\ telling = {}
     /\ \E e \in batch : (\E c \in Clients : OnAccept(e, c)) \/ OnConnected(e)
                           \/ OnRead(e) \/ Ignore(e)
  \/ \E c \in Conns : RecvSome(c) \/ RecvBlocks(c) \/ Tell(c) \/ EventClose(c)

-----------------------------------------------------------------------------
(* The read buffer as the service sees it.                                 *)

\* buffer_remove of up to n bytes
Take(c, n) ==
  rbuffer' = [rbuffer EXCEPT ![c] = SubSeq(@, Min({n, Len(@)}) + 1, Len(@))]

\* buffer_search: the length of the line it finds, 0 if it finds none
LineLength(c) ==
  LET hits == {i \in last_read_pos[c] + 1 .. Len(rbuffer[c]) : rbuffer[c][i] = "n"}
  IN  IF hits = {} THEN 0 ELSE Min(hits)

\* mutant: the position it keeps is the end of the buffer
SearchMoves_End(c) ==
  last_read_pos' =
    [last_read_pos EXCEPT ![c] = IF LineLength(c) > 0 THEN 0
                                 ELSE IF @ < Len(rbuffer[c]) THEN Len(rbuffer[c])
                                 ELSE @]

\* and the position it keeps (ChainBuffer, AfterLoop)
SearchMoves(c) ==
  last_read_pos' =
    [last_read_pos EXCEPT ![c] = IF LineLength(c) > 0 THEN 0
                                 ELSE IF @ < Len(rbuffer[c]) THEN Len(rbuffer[c]) - 1
                                 ELSE @]

-----------------------------------------------------------------------------
(* socket.lua: the handlers of messages.                                   *)

\* mutant: s.co is not reset
Wake_Keeps(c) ==
  /\ woken' = woken \cup (co \cap {c})
  /\ UNCHANGED co

\* s.co = nil and onbnet.wakeup(co)
Wake(c) ==
  /\ co' = co \ {c}
  /\ woken' = woken \cup (co \cap {c})

OnConnectMessage(c) ==
  /\ socket_pool' = socket_pool \cup {c}
  /\ UNCHANGED <<bufferVars, connected, callback, waitVars>>

\* mutant: sz > rr
Enough_More(need, len) == need > 0 /\ len > need

\* sz >= rr, when read_required is a number
Enough(need, len) == need > 0 /\ len >= need

\* s.callback may read all there is; then the waiting coroutine is looked at
OnData(c) ==
  \E all \in {FALSE} \cup {c \in callback \cap connects_} :
    LET left == IF all THEN 0 ELSE Len(rbuffer[c])
        need == read_required[c]
        line == need = Line /\ ~all /\ c \in connects_
        met  == IF need = Line THEN line /\ LineLength(c) > 0
                               ELSE c \in connects_ /\ Enough(need, left)
    IN  /\ IF all THEN Take(c, Len(rbuffer[c])) ELSE UNCHANGED rbuffer
        /\ IF line /\ left > 0 THEN SearchMoves(c) ELSE UNCHANGED last_read_pos
        /\ IF met
             THEN /\ read_required' = [read_required EXCEPT ![c] = Nothing]
                  /\ Wake(c)
             ELSE UNCHANGED <<read_required, co, woken>>
        /\ UNCHANGED <<recordVars, waits>>

OnServerConnect(c) ==
  /\ IF c \in socket_pool \ connected
       THEN connected' = connected \cup {c} /\ Wake(c)
       ELSE UNCHANGED <<connected, co, woken>>
  /\ UNCHANGED <<bufferVars, socket_pool, callback, read_required, waits>>

\* A failing assertion ends the handler; the wakeup queue is empty by then.
Asserts(m) ==
  /\ m.type = "CONNECT" => m.fd \notin socket_pool
  /\ m.type = "DATA" => m.fd \in socket_pool

Handle ==
  /\ mailbox # <<>> /\ woken = {}
  /\ mailbox' = Tail(mailbox)
  /\ LET m == Head(mailbox)
     IN  /\ Asserts(m)
         /\ \/ m.type = "CONNECT" /\ OnConnectMessage(m.fd)
            \/ m.type = "DATA" /\ OnData(m.fd)
            \/ m.type = "SERVER_CONNECT" /\ OnServerConnect(m.fd)
  /\ UNCHANGED <<kernelVars, epollVars, workerVars, connVars>>

-----------------------------------------------------------------------------
(* socket.lua: the calls of the coroutines.                                *)

Idle(c) == c \in socket_pool /\ waits[c] = Nothing

\* suspend(s)
Suspend(c, what) ==
  /\ co' = co \cup {c}
  /\ waits' = [waits EXCEPT ![c] = what]
  /\ UNCHANGED woken

\* M.start on an accepted connection; func may be nil
Start(c, func) ==
  /\ Idle(c) /\ c \in Clients \ service_map_ /\ c \in connects_
  /\ callback' = IF func THEN callback \cup {c} ELSE callback
  /\ service_map_' = service_map_ \cup {c}
  /\ Watch(c, {"IN"}, TRUE)
  /\ UNCHANGED <<kernelVars, workerVars, connects_, statu_, bufferVars, mailbox,
                 socket_pool, connected, waitVars>>

\* M.open: lsocket_connect, and the record the coroutine waits with; ::connect is
\* under way
Open(s) ==
  /\ statu_[s] = "NONE"
  /\ service_map_' = service_map_ \cup {s} /\ connects_' = connects_ \cup {s}
  /\ statu_' = [statu_ EXCEPT ![s] = "CONNECTING"]
  /\ Watch(s, {"OUT"}, TRUE)
  /\ socket_pool' = socket_pool \cup {s}
  /\ Suspend(s, Opening)
  /\ UNCHANGED <<kernelVars, workerVars, bufferVars, mailbox, connected, callback,
                 read_required>>

\* ::connect succeeds at once: connect_server::connect watches nothing, and the
\* coroutine waits all the same
OpenAtOnce(s) ==
  /\ statu_[s] = "NONE"
  /\ service_map_' = service_map_ \cup {s} /\ connects_' = connects_ \cup {s}
  /\ statu_' = [statu_ EXCEPT ![s] = "CONNECTING"]
  /\ up' = up \cup {s}
  /\ socket_pool' = socket_pool \cup {s}
  /\ Suspend(s, Opening)
  /\ UNCHANGED <<rx, sent, fin, hup, backlog, epollVars, workerVars, bufferVars, mailbox,
                 connected, callback, read_required>>

\* ::connect fails at once: the assertion in M.open raises an error
OpenFails(s) ==
  /\ statu_[s] = "NONE"
  /\ service_map_' = service_map_ \cup {s} /\ connects_' = connects_ \cup {s}
  /\ statu_' = [statu_ EXCEPT ![s] = "ERROR"]
  /\ UNCHANGED <<kernelVars, epollVars, workerVars, bufferVars, luaVars>>

\* lsocket_recv: it gives nil when there is nothing to give
HasData(c) == c \in connects_ /\ rbuffer[c] # <<>>

\* M.recv(fd, n); what M.recv(fd) does is among it: it takes all there is or nothing
Recv(c, n) ==
  /\ Idle(c)
  /\ \/ HasData(c) /\ Take(c, n) /\ UNCHANGED waitVars
     \/ /\ ~HasData(c)
        /\ read_required[c] = Nothing
        /\ read_required' = [read_required EXCEPT ![c] = n]
        /\ Suspend(c, n)
        /\ UNCHANGED rbuffer
  /\ UNCHANGED <<kernelVars, epollVars, workerVars, connVars, last_read_pos, mailbox,
                 recordVars>>

\* lsocket_recvline; of a deleted connection it gives the separator back
Recvline(c) ==
  /\ Idle(c)
  /\ IF c \notin connects_
       THEN UNCHANGED <<bufferVars, waitVars>>
       ELSE \/ /\ LineLength(c) > 0
               /\ Take(c, LineLength(c)) /\ SearchMoves(c)
               /\ UNCHANGED waitVars
            \/ /\ LineLength(c) = 0 /\ c \notin connected
               /\ SearchMoves(c)
               /\ Take(c, Len(rbuffer[c]))     \* lsocket_recvall
               /\ UNCHANGED waitVars
            \/ /\ LineLength(c) = 0 /\ c \in connected
               /\ SearchMoves(c)
               /\ read_required[c] = Nothing
               /\ read_required' = [read_required EXCEPT ![c] = Line]
               /\ Suspend(c, Line)
               /\ UNCHANGED rbuffer
  /\ UNCHANGED <<kernelVars, epollVars, workerVars, connVars, mailbox, recordVars>>

\* the end of connect in socket.lua
Opened(c) ==
  socket_pool' = IF c \in connected THEN socket_pool ELSE socket_pool \ {c}

\* A woken coroutine goes on where it was suspended.
Resume(c) ==
  /\ c \in woken
  /\ woken' = woken \ {c}
  /\ waits' = [waits EXCEPT ![c] = Nothing]
  /\ \/ /\ waits[c] = Opening
        /\ Opened(c)
        /\ UNCHANGED <<bufferVars, read_required>>
     \/ /\ waits[c] = Line
        /\ IF c \in connects_
             THEN /\ IF LineLength(c) > 0 THEN Take(c, LineLength(c)) ELSE UNCHANGED rbuffer
                  /\ SearchMoves(c)
             ELSE UNCHANGED bufferVars
        /\ read_required' = [read_required EXCEPT ![c] = Nothing]
        /\ UNCHANGED socket_pool
     \/ /\ waits[c] \in 1 .. MaxBytes
        /\ IF HasData(c) THEN Take(c, waits[c]) ELSE UNCHANGED rbuffer
        /\ UNCHANGED <<last_read_pos, socket_pool, read_required>>
  /\ UNCHANGED <<kernelVars, epollVars, workerVars, connVars, mailbox, connected,
                 callback, co>>

ServiceStep ==
  \/ Handle
  \/ \E c \in Clients, func \in BOOLEAN : Start(c, func)
  \/ \E s \in Servers : Open(s) \/ OpenFails(s)
  \/ \E c \in Conns : \/ \E n \in 1 .. MaxBytes : Recv(c, n)
                      \/ Recvline(c) \/ Resume(c)

Next ==
  \/ WorkerStep
  \/ ServiceStep
  \/ \E c \in Clients : Arrive(c)
  \/ \E s \in Servers : Establish(s) \/ OpenAtOnce(s)
  \/ \E c \in Conns : PeerCloses(c) \/ Hangup(c) \/ \E b \in Bytes : PeerSends(c, b)

Spec == Init /\ [][Next]_vars

-----------------------------------------------------------------------------
(* Properties.                                                             *)

InBatch(c, event) == \E e \in batch : e.fd = c /\ event \in e.ev

InMailbox(c, type) == \E i \in DOMAIN mailbox : mailbox[i] = [type |-> type, fd |-> c]

\* Edge-triggered or not, no byte and no close of a connection the service has started
\* or opened stays in the kernel unnoticed: the worker is reading it or has yet to look.
NoForgottenBytes ==
  \A c \in (connects_ \cap service_map_ \cap Conns) \ hup :
    (c \in Servers => statu_[c] = "CONNECTED") /\ (rx[c] # <<>> \/ c \in fin)
      => c \in ready \/ InBatch(c, "READ") \/ c \in cur

\* A coroutine that waits for data which is there is about to be told, however the
\* read before its suspension and the worker's additions were interleaved.
Satisfied(c) ==
  \/ waits[c] \in 1 .. MaxBytes /\ Len(rbuffer[c]) >= waits[c]
  \/ waits[c] = Line /\ \E i \in DOMAIN rbuffer[c] : rbuffer[c][i] = "n"

NoStuckReader ==
  \A c \in co \cap connects_ :
    Satisfied(c) => InMailbox(c, "DATA") \/ c \in telling \/ (c \in cur /\ ret > 0)

\* the connections nothing will report as established: ::connect succeeded at once
Unwatched == {s \in Servers : statu_[s] = "CONNECTING" /\ interest[s] = {}}

OpenerTold(s) ==
  s \in co /\ waits[s] = Opening /\ s \in up \ hup
    => s \in ready \/ InBatch(s, "WRITE") \/ InMailbox(s, "SERVER_CONNECT")

\* A coroutine that opens a connection is about to be told when it is established,
\* if ::connect was under way when it returned.
NoStuckOpener == \A s \in Servers \ Unwatched : OpenerTold(s)

\* Otherwise it is never told.
EveryOpenerTold == \A s \in Servers : OpenerTold(s)

\* The assertions of the message handlers hold: a record is made before the first
\* DATA is handled and is never made twice.
HandlersAssert == mailbox # <<>> => Asserts(Head(mailbox))

\* s.co and the wakeup queue between them hold each suspended coroutine once.
WaiterIsKnown ==
  \A c \in Conns : /\ waits[c] # Nothing <=> c \in co \cup woken
                   /\ c \notin co \cap woken

\* Whatever has come, someone who is not asleep has yet to look at it.
NothingUnnoticed == NoForgottenBytes /\ NoStuckReader /\ NoStuckOpener

\* The records of socket.lua are made in time, and hold the coroutines that wait.
RecordsInTime == HandlersAssert /\ WaiterIsKnown

\* A coroutine that waits for data of a connection the worker has deleted is about to
\* hear of it.
ReaderHearsClose ==
  \A c \in co \ connects_ : \E i \in DOMAIN mailbox : mailbox[i].fd = c

\* A connection is given up only when its peer has closed it: socket::recv returns 0
\* also when nothing has come, so it must never be entered without data.
OnlyPeersClose ==
  [][\A c \in Conns : c \in connects_ \ connects_' => c \in fin \cup hup]_vars

=============================================================================
