------------------------------ MODULE MCShared ------------------------------
(***************************************************************************)
(* Four things that are shared: the connection of a channel by coroutines   *)
(* (SocketChannel), the write buffer of a connection by a service and the   *)
(* socket worker (SocketWrite), a queue by threads (QueueLocks), and the    *)
(* list of services by the threads that create them (ServiceStart).  Each   *)
(* behaviour is one of them; the others stay as they are.                   *)
(***************************************************************************)
EXTENDS Naturals, Sequences, FiniteSets, SequencesExt

CONSTANTS Nil,
          Callers, Modes, MaxConnects, MaxRequests, MaxCloses, EarlyClose,
          Calls, SendSize, Room, MaxPush, MaxBytes,
          Consumers, Producers, Handler, Main, Interrupted, Values, MaxPushes, MaxCancels,
          Workers, MaxServices, MaxPosts

VARIABLES
  kind,                                     \* "channel", "write", "queue" or "start"
  mode, auth, __sock, __closed, __connecting, __authcoroutine, pending,
  __wait_response, __dispatch_thread, __result, at, task, request, fd, abandoned, reader, reads,
  running, wakeup_queue, link, asked, arrived, connects, requests, closes, crashed,
  uses, pushed, wbuffer, doing, copied, out, held, out_event, armed, refused,
  use, _queueLock, _queue, _count, _shutdown, blocked, pc, value, left, on, pushes, cancels,
  max_service_id, service_vector_, service_id_, stage, creating, handling, cb_context_,
  proto, timer, mail, begun, posts, halted, raced, missed, unheard

\* with their proofs, which MCShared_proofs cites
Channel == INSTANCE SocketChannel_proofs
Queue   == INSTANCE QueueLocks_proofs
\* with proofs in MCShared_proofs
Write   == INSTANCE SocketWrite WITH Uses <- Calls
Birth   == INSTANCE ServiceStart WITH crashed <- halted

channelVars == <<mode, auth, __sock, __closed, __connecting, __authcoroutine, pending,
                 __wait_response, __dispatch_thread, __result, at, task, request, fd, abandoned,
                 reader, reads, running, wakeup_queue, link, asked, arrived, connects,
                 requests, closes, crashed>>
writeVars == <<uses, pushed, wbuffer, doing, copied, out, held, out_event, armed, refused>>
queueVars == <<use, _queueLock, _queue, _count, _shutdown, blocked, pc, value, left, on,
               pushes, cancels>>
startVars == <<max_service_id, service_vector_, service_id_, stage, creating, handling,
               cb_context_, proto, timer, mail, begun, posts, halted, raced, missed,
               unheard>>
vars == <<kind, channelVars, writeVars, queueVars, startVars>>

ASSUME MCSharedAssumption ==
  /\ Channel!SocketChannelAssumption /\ Write!SocketWriteAssumption
  /\ Queue!QueueLocksAssumption /\ Birth!ServiceStartAssumption

\* one state of what is not used
Init ==
  /\ kind \in {"channel", "write", "queue", "start"}
  /\ Channel!Init /\ Write!Init /\ Queue!Init /\ Birth!Init
  /\ kind # "channel" => ~auth /\ mode = CHOOSE m \in Modes : TRUE
  /\ kind # "write" => uses = CHOOSE u \in Calls : TRUE
  /\ kind # "queue" => use = "global"

Sharing(step)  == kind = "channel" /\ step /\ UNCHANGED <<kind, writeVars, queueVars, startVars>>
Writing(step)  == kind = "write" /\ step /\ UNCHANGED <<kind, channelVars, queueVars, startVars>>
Queueing(step) == kind = "queue" /\ step /\ UNCHANGED <<kind, channelVars, writeVars, startVars>>
Starting(step) == kind = "start" /\ step /\ UNCHANGED <<kind, channelVars, writeVars, queueVars>>

Next ==
  Sharing(Channel!Next) \/ Writing(Write!Next) \/ Queueing(Queue!Next) \/ Starting(Birth!Next)

Spec == Init /\ [][Next]_vars

-----------------------------------------------------------------------------

TypeOK ==
  /\ kind \in {"channel", "write", "queue", "start"}
  /\ kind = "channel" => Channel!TypeOK
  /\ kind = "write" => Write!TypeOK
  /\ kind = "queue" => Queue!TypeOK
  /\ kind = "start" => Birth!TypeOK

\* A caller of the channel takes the answer to its own request, and is resumed only
\* when its result is there.
OwnAnswer == kind = "channel" => Channel!AnswerMatches /\ Channel!WokenHasResult

\* Who waits for a response is known to someone who can still wake it; and so is who
\* waits for the connection another one makes, unless a maker has ended with an error.
NobodyForgotten == kind = "channel" => Channel!NobodyForgotten /\ Channel!WaiterListed

\* One dispatch coroutine reads, that of the connection in use, which the close signal
\* of another never ends; and nobody writes while a connection authenticates.
ConnectionOwned ==
  kind = "channel" => Channel!OneReader /\ Channel!SignalEndsItsOwn /\ Channel!AuthFirst

\* Bytes leave in the order they were pushed, once, all that the kernel takes; and at
\* once with send (socket::send in the service or in the socket worker).
BytesLeave ==
  kind = "write" => Write!LeavesInOrder /\ Write!LostOnlyIfRefused /\ Write!SentAtOnce

\* producer_consumer_queue implements the atomic queue the scheduler is built on.
QueueIsAtomic == Queue!QueueIsAtomic

\* No item waits in a queue with nobody but sleepers beside it, and the consumer of a
\* service finds as many messages as Size has counted.
QueueServed == kind = "queue" => Queue!ItemHasTaker /\ Queue!SizeIsThere

\* No worker runs a service whose script is still being loaded; each service has a
\* number of its own if no two threads were in max_service_id++ at once; and a start
\* function that has not run is due, unless its timer was faster than the script
\* (service_manager.cc:148-158, onbnet.start).
StartsSafely ==
  kind = "start" => Birth!OneThreadPerState /\ Birth!OwnNumber /\ Birth!StartIsDue

=============================================================================
