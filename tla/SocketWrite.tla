----------------------------- MODULE SocketWrite -----------------------------
(***************************************************************************)
(* Bytes on their way out of a service, over one connection: send and       *)
(* async_send of lua_socket.cc, socket::send of net/socket.cc, and the      *)
(* write handler of the socket worker, which connect_client.cc and          *)
(* connect_server.cc share.                                                 *)
(*                                                                          *)
(* The service runs socket::send itself (send), or asks epoll to tell the   *)
(* worker when the socket takes data (async_send).  Both may be inside      *)
(* socket::send at once.  Each step is one critical section of the write    *)
(* buffer (ChainBuffer), one system call, or one look at epoll.  Bytes are  *)
(* numbered in the order they are pushed.                                   *)
(***************************************************************************)
EXTENDS Naturals, Sequences, SequencesExt, FiniteSetsExt

CONSTANTS
  Uses,       \* which of "send" and "async_send" a service uses, the sets to try
  SendSize,   \* the bytes socket::send removes at once (4096)
  Room,       \* what the kernel takes before the peer has read
  MaxPush,    \* bound on the bytes of one call
  MaxBytes    \* bound on the bytes in all

\* what is assumed of the constants, where this module is instantiated
SocketWriteAssumption ==
  /\ \A u \in Uses : u \subseteq {"send", "async_send"}
  /\ {SendSize, Room, MaxPush, MaxBytes} \subseteq Nat \ {0}

Threads == {"service", "worker"}

VARIABLES
  uses,      \* the calls the service uses
  pushed,    \* how many bytes it has pushed
  wbuffer,   \* the write buffer
  doing,     \* per thread, its next step
  copied,    \* per thread, what it has copied from the buffer
  out,       \* the bytes the kernel has taken
  held,      \* how many of them the peer has not read
  out_event, \* EPOLLOUT is watched
  armed,     \* and epoll will report it
  refused    \* history: ::send has not taken all it was given

bufferVars == <<pushed, wbuffer>>
epollVars  == <<out_event, armed>>
kernelVars == <<out, held, refused>>
vars == <<uses, bufferVars, doing, copied, kernelVars, epollVars>>

TypeOK ==
  /\ uses \in Uses
  /\ pushed \in 0 .. MaxBytes
  /\ wbuffer \in Seq(1 .. pushed)
  /\ doing \in [Threads -> {"idle", "copy", "drain", "write", "watch"}]
  /\ copied \in [Threads -> Seq(1 .. pushed)]
  /\ out \in Seq(1 .. pushed) /\ held \in 0 .. Room
  /\ {out_event, armed, refused} \subseteq BOOLEAN

\* the connection is established and watched for reading
Init ==
  /\ uses \in Uses
  /\ pushed = 0 /\ wbuffer = <<>>
  /\ doing = [t \in Threads |-> "idle"] /\ copied = [t \in Threads |-> <<>>]
  /\ out = <<>> /\ held = 0 /\ refused = FALSE
  /\ out_event = FALSE /\ armed = FALSE

Goes(t, step) == doing' = [doing EXCEPT ![t] = step]

-----------------------------------------------------------------------------
(* The service.                                                            *)

\* socket->push, then socket->send or event_mod_read_write
Push(n, call, step) ==
  /\ call \in uses /\ doing["service"] = "idle"
  /\ pushed + n <= MaxBytes
  /\ pushed' = pushed + n
  /\ wbuffer' = wbuffer \o [i \in 1 .. n |-> pushed + i]
  /\ Goes("service", step)
  /\ UNCHANGED <<uses, copied, kernelVars, epollVars>>

Send(n)      == Push(n, "send", "copy")
AsyncSend(n) == Push(n, "async_send", "watch")

\* EPOLL_CTL_MOD with EPOLLIN | EPOLLOUT: a socket that takes data is reported
WatchWrite ==
  /\ doing["service"] = "watch"
  /\ out_event' = TRUE /\ armed' = (held < Room)
  /\ Goes("service", "idle")
  /\ UNCHANGED <<uses, bufferVars, copied, kernelVars>>

-----------------------------------------------------------------------------
(* socket::send, in either thread.                                         *)

\* what event_write_hander does when socket::send returns, and lsocket_send
After(t) == IF t = "worker" THEN "watch" ELSE "idle"

\* buf_copy_out; nothing to send ends the loop
CopyOut(t) ==
  /\ doing[t] = "copy"
  /\ copied' = [copied EXCEPT ![t] = SubSeq(wbuffer, 1, Min({SendSize, Len(wbuffer)}))]
  /\ Goes(t, IF wbuffer = <<>> THEN After(t) ELSE "drain")
  /\ UNCHANGED <<uses, bufferVars, kernelVars, epollVars>>

\* mutant: the buffer is emptied, whatever came since the copy
Drain_All(t) ==
  /\ doing[t] = "drain"
  /\ wbuffer' = <<>>
  /\ Goes(t, "write")
  /\ UNCHANGED <<uses, pushed, copied, kernelVars, epollVars>>

\* buffer_drain of as many bytes, or of what is there
Drain(t) ==
  /\ doing[t] = "drain"
  /\ wbuffer' = SubSeq(wbuffer, Len(copied[t]) + 1, Len(wbuffer))
  /\ Goes(t, "write")
  /\ UNCHANGED <<uses, pushed, copied, kernelVars, epollVars>>

\* the loop goes on after a full buffer of which some was taken
Again(t, taken) == Len(copied[t]) = SendSize /\ taken > 0

\* ::send takes what there is room for; what it does not take is lost
Write(t) ==
  /\ doing[t] = "write"
  /\ LET taken == Min({Room - held, Len(copied[t])})
     IN  /\ out' = out \o SubSeq(copied[t], 1, taken)
         /\ held' = held + taken
         /\ refused' = (refused \/ taken < Len(copied[t]))
         /\ Goes(t, IF Again(t, taken) THEN "copy" ELSE After(t))
  /\ copied' = [copied EXCEPT ![t] = <<>>]
  /\ UNCHANGED <<uses, bufferVars, epollVars>>

SendStep(t) == CopyOut(t) \/ Drain(t) \/ Write(t)

-----------------------------------------------------------------------------
(* The socket worker, epoll and the peer.                                  *)

\* poll() returns EVENT_WRITE and the handler begins
Poll ==
  /\ doing["worker"] = "idle" /\ armed
  /\ armed' = FALSE
  /\ Goes("worker", "copy")
  /\ UNCHANGED <<uses, bufferVars, copied, kernelVars, out_event>>

\* event_mod_read at the end of event_write_hander
WatchReadOnly ==
  /\ doing["worker"] = "watch"
  /\ out_event' = FALSE /\ armed' = FALSE
  /\ Goes("worker", "idle")
  /\ UNCHANGED <<uses, bufferVars, copied, kernelVars>>

\* The peer reads a byte, and there is room again.
PeerReads ==
  /\ held > 0
  /\ held' = held - 1
  /\ armed' = (armed \/ (out_event /\ held = Room))
  /\ UNCHANGED <<uses, bufferVars, doing, copied, out, refused, out_event>>

\* The peer sends: epoll reports all that holds, room for data included.
PeerSends ==
  /\ out_event /\ held < Room /\ ~armed
  /\ armed' = TRUE
  /\ UNCHANGED <<uses, bufferVars, doing, copied, kernelVars, out_event>>

Next ==
  \/ \E n \in 1 .. MaxPush : Send(n) \/ AsyncSend(n)
  \/ WatchWrite \/ Poll \/ WatchReadOnly
  \/ \E t \in Threads : SendStep(t)
  \/ PeerReads \/ PeerSends

Spec == Init /\ [][Next]_vars

-----------------------------------------------------------------------------
(* Properties.                                                             *)

\* Bytes leave in the order they were pushed and none leaves twice, while one
\* thread pushes and the buffer is copied and drained under two locks.
LeavesInOrder == \A i \in 1 .. Len(out) - 1 : out[i] < out[i + 1]

\* As long as the kernel takes all it is given, no byte is lost: each is in the
\* buffer, in the hands of the thread that drained it, or out.
LostOnlyIfRefused ==
  ~refused =>
    \A b \in 1 .. pushed :
      b \in Range(wbuffer) \cup Range(out) \cup UNION {Range(copied[t]) : t \in Threads}

\* When send returns and the kernel has taken all, nothing is left in the buffer:
\* there is no event that would send the rest.
SentAtOnce ==
  uses = {"send"} /\ ~refused /\ doing["service"] = "idle" => wbuffer = <<>>

\* What the code does not achieve: that bytes pushed by async_send will be sent;
\* that what the kernel refuses is kept; LeavesInOrder when both calls are used.
WillBeSent ==
  wbuffer # <<>> =>
    \/ armed \/ (out_event /\ held = Room)
    \/ doing["worker"] = "copy" \/ doing["service"] # "idle"
NothingLost ==
  \A b \in 1 .. pushed :
    b \in Range(wbuffer) \cup Range(out) \cup UNION {Range(copied[t]) : t \in Threads}

=============================================================================
