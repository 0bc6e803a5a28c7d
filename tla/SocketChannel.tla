--------------------------- MODULE SocketChannel ---------------------------
(***************************************************************************)
(* socketchannel.lua: the coroutines of a service share one connection to a *)
(* server.  Each writes its request and sleeps; a dispatch coroutine per    *)
(* connection reads the answers and wakes whom they are for, in the order   *)
(* of the requests (redis, mysql) or by session (mongo).  The first caller  *)
(* that finds no connection makes one, with __auth if there is one, while   *)
(* the others wait for it.                                                  *)
(*                                                                          *)
(* A Lua state runs one coroutine until it yields: that is "running", and   *)
(* each action is a piece of its run, or the start or resumption of one.    *)
(* The forked coroutines run before the next message; the wakeups can come  *)
(* before or after (an uncaught error skips them).  An error ends the call. *)
(*                                                                          *)
(* Of the sockets: nothing tells a reader that its connection is gone       *)
(* (SocketRead), no descriptor is closed or used twice, and socket.lua has  *)
(* no close, so pcall(socket.close, ..) does nothing.  Of the server: it    *)
(* answers what it was asked, each request once.                            *)
(***************************************************************************)
EXTENDS Naturals, Sequences, FiniteSets, SequencesExt

CONSTANTS
  Callers,      \* the coroutines that use the channel
  Nil,
  Modes,        \* "order", "session": without and with desc.response
  MaxConnects,  \* bound on the connections made
  MaxRequests,  \* bound on the requests, those of __auth included
  MaxCloses,    \* bound on the calls of close and changehost
  EarlyClose    \* may they come before the dispatch coroutine has started

\* what is assumed of the constants, where this module is instantiated
SocketChannelAssumption ==
  /\ Modes \subseteq {"order", "session"}
  /\ {MaxConnects, MaxRequests, MaxCloses} \subseteq Nat
  /\ EarlyClose \in BOOLEAN
  /\ Callers \cap (0 .. MaxConnects) = {} /\ Nil \notin Callers

\* A connection's number is its descriptor and names its dispatch coroutine.
Fds      == 1 .. MaxConnects
Requests == 1 .. MaxRequests

VARIABLES
  mode, auth,       \* desc.response and desc.auth are given
  __sock,           \* the descriptor in use, 0 for false
  __closed,
  __connecting,     \* Busy and those who wait for it
  __authcoroutine,
  pending,          \* __request and __thread, which change together
  __wait_response,
  __dispatch_thread,
  __result,         \* per caller, __result and __result_data
  at, task, request,\* per caller: where it is, what it was asked to do, its request
  fd,               \* per caller, the connection it makes
  abandoned,        \* the maker of a connection is gone, __connecting as it was (no code)
  reader, reads,    \* per dispatch coroutine: where it is, whose answer it reads
  running,
  wakeup_queue,
  link,             \* per descriptor: "none", "new", "up" or "lost"
  asked, arrived,   \* per descriptor, the requests and the answers on their way
  connects, requests, closes,   \* how many there have been
  crashed

channelVars == <<mode, auth, __sock, __closed, __connecting, __authcoroutine, pending,
                 __wait_response, __dispatch_thread, __result>>
callerVars  == <<at, task, request, fd, abandoned>>
readerVars  == <<reader, reads>>
socketVars  == <<link, asked, arrived>>
counts      == <<connects, requests, closes>>
vars == <<channelVars, callerVars, readerVars, running, wakeup_queue, socketVars,
          counts, crashed>>

Busy   == 0
Signal == [r |-> 0, co |-> Nil]      \* (true, false): the dispatch coroutine must end
NoOne  == Signal
Result(kind, r) == [kind |-> kind, r |-> r]
None   == Result("none", 0)

TypeOK ==
  /\ mode \in Modes /\ auth \in BOOLEAN
  /\ {__sock, __wait_response, __dispatch_thread} \subseteq Fds \cup {0}
  /\ __closed \in BOOLEAN /\ __authcoroutine \in Callers \cup {Nil}
  /\ __connecting \in Seq(Callers \cup {Busy})
  /\ __connecting # <<>> => Head(__connecting) = Busy /\ Tail(__connecting) \in Seq(Callers)
  /\ pending \in Seq([r : Requests, co : Callers] \cup {Signal})
  /\ __result \in [Callers -> [kind : {"none", "answer", "refusal", "socket_error", "message"},
                               r : Requests \cup {0}]]
  /\ at \in [Callers -> {"idle", "enter", "connect", "open", "yield", "done",
                         "connecting", "check", "send", "response"}]
  /\ task \in [Callers -> {"none", "connect", "request", "response"}]
  /\ request \in [Callers -> Requests \cup {0}] /\ fd \in [Callers -> Fds \cup {0}]
  /\ abandoned \in BOOLEAN
  /\ reader \in [Fds -> {"none", "forked", "loop", "pop", "read", "ended"}]
  /\ reads \in [Fds -> [r : Requests, co : Callers] \cup {NoOne}]
  /\ running \in Callers \cup Fds \cup {0}
  /\ wakeup_queue \in Seq(Callers \cup Fds)
  /\ link \in [Fds -> {"none", "new", "up", "lost"}]
  /\ asked \in [Fds -> Seq(Requests)]
  /\ arrived \in [Fds -> Seq([kind : {"answer", "refusal", "garbage"}, r : Requests])]
  /\ connects \in 0 .. MaxConnects /\ requests \in 0 .. MaxRequests
  /\ closes \in 0 .. MaxCloses /\ crashed \in BOOLEAN

Init ==
  /\ mode \in Modes /\ auth \in BOOLEAN
  /\ __sock = 0 /\ __closed = FALSE /\ __connecting = <<>> /\ __authcoroutine = Nil
  /\ pending = <<>> /\ __wait_response = 0 /\ __dispatch_thread = 0
  /\ __result = [c \in Callers |-> None]
  /\ at = [c \in Callers |-> "idle"] /\ task = [c \in Callers |-> "none"]
  /\ request = [c \in Callers |-> 0] /\ fd = [c \in Callers |-> 0] /\ abandoned = FALSE
  /\ reader = [t \in Fds |-> "none"] /\ reads = [t \in Fds |-> NoOne]
  /\ running = 0 /\ wakeup_queue = <<>>
  /\ link = [t \in Fds |-> "none"]
  /\ asked = [t \in Fds |-> <<>>] /\ arrived = [t \in Fds |-> <<>>]
  /\ connects = 0 /\ requests = 0 /\ closes = 0 /\ crashed = FALSE

-----------------------------------------------------------------------------
(* onbnet.wakeup, onbnet.wait and the dispatch of messages.                 *)

Sleeping(k) ==
  /\ running # k
  /\ IF k \in Callers THEN at[k] \in {"open", "yield", "connecting", "response"}
                      ELSE reader[k] \in {"pop", "read"}

\* The elements of s that are in S, in their order.
Only(s, S) ==
  LET only[i \in 0 .. Len(s)] ==
        IF i = 0 THEN <<>>
        ELSE IF s[i] \in S THEN Append(only[i - 1], s[i]) ELSE only[i - 1]
  IN only[Len(s)]

Wake(tokens) == wakeup_queue' = wakeup_queue \o Only(tokens, {k \in Range(tokens) : Sleeping(k)})

\* A message is taken when nothing runs and the forked coroutines have started.
Message == running = 0 /\ \A t \in Fds : reader[t] # "forked"

Goes(c, place) == at' = [at EXCEPT ![c] = place]
Suspend        == running' = 0

Begin(c) ==
  /\ Message /\ at[c] = "idle" /\ running' = c
  /\ UNCHANGED <<channelVars, callerVars, readerVars, wakeup_queue, socketVars, counts, crashed>>

Finish(c) ==
  /\ running = c /\ at[c] = "idle" /\ Suspend
  /\ UNCHANGED <<channelVars, callerVars, readerVars, wakeup_queue, socketVars, counts, crashed>>

Resume ==
  /\ running = 0 /\ wakeup_queue # <<>>
  /\ wakeup_queue' = Tail(wakeup_queue)
  /\ running' = IF Sleeping(Head(wakeup_queue)) THEN Head(wakeup_queue) ELSE 0
  /\ UNCHANGED <<channelVars, callerVars, readerVars, socketVars, counts, crashed>>

\* The timer of onbnet.yield.
Timer(c) ==
  /\ Message /\ at[c] = "yield" /\ running' = c
  /\ UNCHANGED <<channelVars, callerVars, readerVars, wakeup_queue, socketVars, counts, crashed>>

-----------------------------------------------------------------------------
(* The parts of the channel that the operations share.                      *)

WaitWake == IF __wait_response = 0 THEN <<>> ELSE <<__wait_response>>

CloseSocket(others) ==
  /\ __sock' = 0
  /\ IF __sock # 0 THEN __wait_response' = 0 /\ Wake(WaitWake \o others)
                   ELSE UNCHANGED __wait_response /\ Wake(others)

push_response(entry) ==
  /\ pending' = Append(pending, entry)
  /\ IF mode = "order" THEN __wait_response' = 0 /\ Wake(WaitWake)
                       ELSE UNCHANGED <<__wait_response, wakeup_queue>>

\* term_dispatch_thread has a thread to end
HasDispatch == mode = "order" /\ __dispatch_thread # 0

\* check_connection
Usable(c) == __sock # 0 /\ __authcoroutine \in {Nil, c}

Authenticating(c) == __authcoroutine = c

\* who makes the connection, and goes through __connecting when it is done
Making   == {"connect", "open", "yield", "done"}
Maker(c) == at[c] \in Making \/ __authcoroutine = c

\* It will not, if it ends with an error or comes to wait in __connecting itself.
Abandons(c) == abandoned' = (abandoned \/ Maker(c))

Ended(c) ==
  /\ Goes(c, "idle")
  /\ task' = [task EXCEPT ![c] = "none"] /\ request' = [request EXCEPT ![c] = 0]
  /\ fd' = [fd EXCEPT ![c] = 0]
  /\ UNCHANGED running

\* An error: it ends __auth, which closes the socket, and the call with it.
Raise(c) ==
  /\ Ended(c) /\ Abandons(c)
  /\ IF Authenticating(c)
     THEN __authcoroutine' = Nil /\ CloseSocket(<<>>)
     ELSE UNCHANGED <<__authcoroutine, __sock, __wait_response, wakeup_queue>>

-----------------------------------------------------------------------------
(* The callers.                                                             *)

\* redis and mysql ask for an answer without a request; connect and request
\* pass "once".
Call(c, t) ==
  /\ running = c /\ at[c] = "idle"
  /\ t = "response" => mode = "order"
  /\ t # "connect" => requests < MaxRequests
  /\ task' = [task EXCEPT ![c] = t] /\ Goes(c, "enter")
  /\ __closed' = (__closed /\ t # "connect")
  /\ UNCHANGED <<mode, auth, __sock, __connecting, __authcoroutine, pending, __wait_response,
                 __dispatch_thread, __result, request, fd, abandoned, readerVars, running,
                 wakeup_queue, socketVars, counts, crashed>>

Once(c) == task[c] # "response"

Enter(c) ==
  /\ running = c /\ at[c] = "enter"
  /\ \/ /\ Usable(c) /\ Goes(c, "send")
        /\ UNCHANGED <<__sock, __connecting, __authcoroutine, __wait_response, task, request, fd,
                       abandoned, running, wakeup_queue>>
     \/ ~Usable(c) /\ __closed /\ Raise(c) /\ UNCHANGED __connecting
     \/ /\ ~Usable(c) /\ ~__closed /\ __connecting # <<>>
        /\ __connecting' = Append(__connecting, c) /\ Goes(c, "connecting") /\ Suspend
        /\ Abandons(c)
        /\ UNCHANGED <<__sock, __authcoroutine, __wait_response, task, request, fd, wakeup_queue>>
     \/ /\ ~Usable(c) /\ ~__closed /\ __connecting = <<>>
        /\ __connecting' = <<Busy>> /\ Goes(c, "connect")
        /\ UNCHANGED <<__sock, __authcoroutine, __wait_response, task, request, fd, abandoned,
                       running, wakeup_queue>>
  /\ UNCHANGED <<mode, auth, __closed, pending, __dispatch_thread, __result, readerVars,
                 socketVars, counts, crashed>>

\* socket.open returns when the connection is made, never when it is refused;
\* it raises when it cannot be tried.
Connect(c) ==
  /\ running = c /\ at[c] = "connect"
  /\ \/ /\ __closed /\ Goes(c, "done")
        /\ UNCHANGED <<task, request, fd, abandoned, running, link, connects>>
     \/ /\ ~__closed /\ connects < MaxConnects
        /\ connects' = connects + 1 /\ fd' = [fd EXCEPT ![c] = connects + 1]
        /\ link' = [link EXCEPT ![connects + 1] = "new"]
        /\ Goes(c, "open") /\ Suspend
        /\ UNCHANGED <<task, request, abandoned>>
     \/ ~__closed /\ Ended(c) /\ Abandons(c) /\ UNCHANGED <<link, connects>>
  /\ UNCHANGED <<channelVars, readerVars, wakeup_queue, asked, arrived, requests, closes, crashed>>

Opened(c) ==
  /\ running = c /\ at[c] = "open"
  /\ Goes(c, "yield")
  /\ IF HasDispatch
     THEN push_response(Signal) ELSE UNCHANGED <<pending, __wait_response, wakeup_queue>>
  /\ UNCHANGED <<mode, auth, __sock, __closed, __connecting, __authcoroutine, __dispatch_thread,
                 __result, task, request, fd, abandoned, readerVars, running, socketVars, counts,
                 crashed>>

DispatchGone_Signalled == __dispatch_thread = 0 \/ mode = "order"

DispatchGone == __dispatch_thread = 0

YieldWhileDispatched(c) ==
  /\ running = c /\ at[c] = "yield" /\ ~DispatchGone /\ Suspend
  /\ UNCHANGED <<channelVars, callerVars, readerVars, wakeup_queue, socketVars, counts, crashed>>

Yielded(c) ==
  /\ running = c /\ at[c] = "yield" /\ DispatchGone
  /\ __sock' = fd[c] /\ __dispatch_thread' = fd[c]
  /\ reader' = [reader EXCEPT ![fd[c]] = "forked"]
  /\ __authcoroutine' = IF auth THEN c ELSE __authcoroutine
  /\ Goes(c, IF auth THEN "enter" ELSE "done")
  /\ UNCHANGED <<mode, auth, __closed, __connecting, pending, __wait_response, __result, task,
                 request, fd, abandoned, reads, running, wakeup_queue, socketVars, counts, crashed>>

Waiters == Tail(__connecting)

Connected_KeepsWaiters == Tail(__connecting)

Connected == <<>>

\* try_connect and the end of block_connect.  A call that is not "once" raises
\* where it should log, and leaves __connecting as it is.
Done(c) ==
  /\ running = c /\ at[c] = "done"
  /\ IF Once(c)
     THEN /\ __connecting' = Connected /\ Wake(Waiters) /\ Goes(c, "check")
          /\ UNCHANGED <<task, request, fd, abandoned, running>>
     ELSE Ended(c) /\ Abandons(c) /\ UNCHANGED <<__connecting, wakeup_queue>>
  /\ UNCHANGED <<mode, auth, __sock, __closed, __authcoroutine, pending, __wait_response,
                 __dispatch_thread, __result, readerVars, socketVars, counts, crashed>>

\* The second check_connection, after the connection or the wait for it.
Check(c) ==
  /\ running = c /\ at[c] \in {"check", "connecting"}
  /\ IF Usable(c)
     THEN /\ Goes(c, "send")
          /\ UNCHANGED <<__sock, __authcoroutine, __wait_response, task, request, fd, abandoned,
                         running, wakeup_queue>>
     ELSE Raise(c)
  /\ UNCHANGED <<mode, auth, __closed, __connecting, pending, __dispatch_thread, __result,
                 readerVars, socketVars, counts, crashed>>

\* What is written is a request; without one, the server speaks by itself
\* (__auth of mysql).  socketdriver.send uses a connection that is gone, and
\* else returns the length (lua_socket.cc:94-110), so no write fails.
Send(c) ==
  /\ running = c /\ at[c] = "send"
  /\ LET r == requests + 1
         silent == task[c] = "response" /\ ~Authenticating(c)
         entry  == [r |-> r, co |-> c]
     IN \/ /\ task[c] = "connect" /\ ~Authenticating(c) /\ Ended(c)
           /\ UNCHANGED <<pending, __wait_response, wakeup_queue, requests, asked, crashed>>
        \/ /\ task[c] # "connect" \/ Authenticating(c)
           /\ requests < MaxRequests
           /\ IF link[__sock] = "lost" /\ ~silent
              THEN /\ crashed' = TRUE
                   /\ UNCHANGED <<at, task, request, fd, pending, __wait_response, wakeup_queue,
                                  running, requests, asked>>
              ELSE /\ requests' = r /\ request' = [request EXCEPT ![c] = r]
                   /\ asked' = [asked EXCEPT ![__sock] = Append(@, r)]
                   /\ push_response(entry) /\ Goes(c, "response") /\ Suspend
                   /\ UNCHANGED <<task, fd, crashed>>
  /\ UNCHANGED <<mode, auth, __sock, __closed, __connecting, __authcoroutine, __dispatch_thread,
                 __result, abandoned, readerVars, link, arrived, connects, closes>>

\* wait_for_response returns or raises; in __auth, what follows.
Answered(c) ==
  /\ running = c /\ at[c] = "response"
  /\ __result' = [__result EXCEPT ![c] = None]
  /\ \/ /\ ~Authenticating(c) /\ Ended(c)
        /\ UNCHANGED <<__sock, __authcoroutine, __wait_response, abandoned, wakeup_queue>>
     \/ /\ Authenticating(c) /\ __result[c].kind = "answer"
        /\ \/ /\ requests < MaxRequests /\ Goes(c, "enter")
              /\ UNCHANGED __authcoroutine
           \/ /\ __authcoroutine' = Nil
              /\ Goes(c, IF __sock = 0 THEN "connect" ELSE "done")
        /\ UNCHANGED <<__sock, __wait_response, wakeup_queue, task, request, fd, abandoned,
                       running>>
     \/ /\ Authenticating(c) /\ __result[c].kind = "socket_error"
        /\ CloseSocket(<<>>) /\ __authcoroutine' = Nil /\ Goes(c, "done")
        /\ UNCHANGED <<task, request, fd, abandoned, running>>
     \/ Authenticating(c) /\ __result[c].kind \in {"refusal", "message"} /\ Raise(c)
  /\ UNCHANGED <<mode, auth, __closed, __connecting, pending, __dispatch_thread, readerVars,
                 socketVars, counts, crashed>>

\* Who closes the channel: a coroutine between two of its calls.  (__auth of
\* mongo changes the host, with the same effect as one that does it then.)
MayClose(c) ==
  /\ running = c /\ at[c] = "idle" /\ ~__closed /\ closes < MaxCloses
  /\ EarlyClose \/ \A t \in Fds : reader[t] # "forked"
  /\ closes' = closes + 1

Close(c) ==
  /\ MayClose(c)
  /\ __closed' = TRUE /\ __sock' = 0
  /\ pending' = IF HasDispatch THEN Append(pending, Signal) ELSE pending
  /\ IF HasDispatch \/ __sock # 0 THEN __wait_response' = 0 /\ Wake(WaitWake)
                                ELSE UNCHANGED <<__wait_response, wakeup_queue>>
  /\ UNCHANGED <<mode, auth, __connecting, __authcoroutine, __dispatch_thread, __result,
                 callerVars, readerVars, running, socketVars, connects, requests, crashed>>

ChangeHost(c) ==
  /\ MayClose(c)
  /\ CloseSocket(<<>>)
  /\ UNCHANGED <<mode, auth, __closed, __connecting, __authcoroutine, pending, __dispatch_thread,
                 __result, callerVars, readerVars, running, socketVars, connects, requests, crashed>>

-----------------------------------------------------------------------------
(* The dispatch coroutine of connection t.                                  *)

RunFork(t) ==
  /\ running = 0 /\ reader[t] = "forked"
  /\ IF __sock # 0
     THEN reader' = [reader EXCEPT ![t] = "loop"] /\ running' = t /\ UNCHANGED __dispatch_thread
     ELSE /\ reader' = [reader EXCEPT ![t] = "ended"] /\ __dispatch_thread' = 0
          /\ UNCHANGED running
  /\ UNCHANGED <<mode, auth, __sock, __closed, __connecting, __authcoroutine, pending,
                 __wait_response, __result, callerVars, reads, wakeup_queue, socketVars,
                 counts, crashed>>

CallersOf_First(entries) ==
  Only([i \in 1 .. (IF entries = <<>> THEN 0 ELSE 1) |-> entries[i].co], Callers)

CallersOf(entries) == Only([i \in DOMAIN entries |-> entries[i].co], Callers)

EndDispatch_KeepsPending(t, told, result, left, kind) ==
  /\ reader' = [reader EXCEPT ![t] = "ended"] /\ reads' = [reads EXCEPT ![t] = NoOne]
  /\ __dispatch_thread' = 0 /\ Suspend
  /\ pending' = left
  /\ __result' = [c \in Callers |-> IF c = told THEN result
                                    ELSE IF c \in Range(CallersOf(left)) THEN Result(kind, 0)
                                    ELSE __result[c]]

\* The last answer, wakeup_all for those who are left, and the end.
EndDispatch(t, told, result, left, kind) ==
  /\ reader' = [reader EXCEPT ![t] = "ended"] /\ reads' = [reads EXCEPT ![t] = NoOne]
  /\ __dispatch_thread' = 0 /\ Suspend
  /\ pending' = <<>>
  /\ __result' = [c \in Callers |-> IF c = told THEN result
                                    ELSE IF c \in Range(CallersOf(left)) THEN Result(kind, 0)
                                    ELSE __result[c]]

pop_response(t) ==
  /\ mode = "order" /\ running = t /\ reader[t] \in {"loop", "pop"}
  /\ \/ /\ __sock = 0 \/ (pending # <<>> /\ Head(pending) = Signal)
        /\ EndDispatch(t, Nil, None, pending, "message") /\ Wake(CallersOf(pending))
        /\ UNCHANGED __wait_response
     \/ /\ __sock # 0 /\ pending # <<>> /\ Head(pending) # Signal
        /\ reads' = [reads EXCEPT ![t] = Head(pending)] /\ pending' = Tail(pending)
        /\ reader' = [reader EXCEPT ![t] = "read"]
        /\ UNCHANGED <<__wait_response, __dispatch_thread, __result, running, wakeup_queue>>
     \/ /\ __sock # 0 /\ pending = <<>>
        /\ __wait_response' = t /\ reader' = [reader EXCEPT ![t] = "pop"] /\ Suspend
        /\ UNCHANGED <<reads, pending, __dispatch_thread, __result, wakeup_queue>>
  /\ UNCHANGED <<mode, auth, __sock, __closed, __connecting, __authcoroutine, callerVars,
                 socketVars, counts, crashed>>

\* By session there is nothing to take before the answer is read.
ReadBySession(t) ==
  /\ mode = "session" /\ running = t /\ reader[t] = "loop"
  /\ reader' = [reader EXCEPT ![t] = "read"]
  /\ UNCHANGED <<channelVars, callerVars, reads, running, wakeup_queue, socketVars, counts, crashed>>

\* Who gets an answer, and who is left pending then.
EntryOf(t, answer) ==
  IF mode = "order" THEN reads[t]
  ELSE IF \E e \in Range(pending) : e.r = answer.r
       THEN CHOOSE e \in Range(pending) : e.r = answer.r ELSE NoOne

Left(entry) == Only(pending, Range(pending) \ {entry})

ReadAnswer(t) ==
  /\ running = t /\ reader[t] = "read" /\ arrived[t] # <<>>
  /\ LET answer == Head(arrived[t])
         entry  == EntryOf(t, answer)
     IN /\ answer.kind # "garbage" /\ entry # NoOne
        /\ IF __sock = 0
           THEN /\ EndDispatch(t, entry.co, Result(answer.kind, answer.r), Left(entry), "message")
                /\ Wake(<<entry.co>> \o CallersOf(Left(entry)))
           ELSE /\ __result' = [__result EXCEPT ![entry.co] = Result(answer.kind, answer.r)]
                /\ pending' = Left(entry) /\ Wake(<<entry.co>>)
                /\ reader' = [reader EXCEPT ![t] = "loop"]
                /\ reads' = [reads EXCEPT ![t] = NoOne]
                /\ UNCHANGED <<__dispatch_thread, running>>
  /\ arrived' = [arrived EXCEPT ![t] = Tail(@)]
  /\ UNCHANGED <<mode, auth, __sock, __closed, __connecting, __authcoroutine, __wait_response,
                 callerVars, link, asked, counts, crashed>>

\* The answer cannot be parsed, or the read fails because the connection is gone.
ReadFails(t) ==
  /\ running = t /\ reader[t] = "read"
  /\ \/ arrived[t] # <<>> /\ Head(arrived[t]).kind = "garbage"
     \/ link[t] = "lost"
  /\ \E kind \in {"message", "socket_error"} :
       EndDispatch(t, reads[t].co, Result(kind, 0), pending, kind)
  /\ CloseSocket((IF reads[t] = NoOne THEN <<>> ELSE <<reads[t].co>>) \o CallersOf(pending))
  /\ arrived' = [arrived EXCEPT ![t] = <<>>]
  /\ UNCHANGED <<mode, auth, __closed, __connecting, __authcoroutine, callerVars, link, asked,
                 counts, crashed>>

ReadWaits(t) ==
  /\ running = t /\ reader[t] = "read" /\ arrived[t] = <<>> /\ Suspend
  /\ UNCHANGED <<channelVars, callerVars, readerVars, wakeup_queue, socketVars, counts, crashed>>

-----------------------------------------------------------------------------
(* The server and the socket's messages.                                    *)

Established(c) ==
  /\ Message /\ at[c] = "open" /\ link[fd[c]] = "new"
  /\ link' = [link EXCEPT ![fd[c]] = "up"] /\ Wake(<<c>>)
  /\ UNCHANGED <<channelVars, callerVars, readerVars, running, asked, arrived, counts, crashed>>

\* A reader that sleeps is woken once, by the first of what arrives.
Answer(t, i, kind) ==
  /\ Message /\ link[t] = "up" /\ i \in DOMAIN asked[t] /\ (mode = "order" => i = 1)
  /\ asked' = [asked EXCEPT ![t] = RemoveAt(@, i)]
  /\ arrived' = [arrived EXCEPT ![t] = Append(@, [kind |-> kind, r |-> asked[t][i]])]
  /\ IF reader[t] = "read" /\ t \notin Range(wakeup_queue) THEN Wake(<<t>>)
                                                           ELSE UNCHANGED wakeup_queue
  /\ UNCHANGED <<channelVars, callerVars, readerVars, running, link, counts, crashed>>

PeerCloses(t) ==
  /\ link[t] = "up"
  /\ link' = [link EXCEPT ![t] = "lost"]
  /\ asked' = [asked EXCEPT ![t] = <<>>] /\ arrived' = [arrived EXCEPT ![t] = <<>>]
  /\ UNCHANGED <<channelVars, callerVars, readerVars, running, wakeup_queue, counts, crashed>>

CallerStep(c) ==
  \/ Begin(c) \/ Finish(c) \/ Timer(c)
  \/ \E t \in {"connect", "request", "response"} : Call(c, t)
  \/ Enter(c) \/ Connect(c) \/ Opened(c) \/ YieldWhileDispatched(c) \/ Yielded(c)
  \/ Done(c) \/ Check(c) \/ Send(c) \/ Answered(c) \/ Close(c) \/ ChangeHost(c)

DispatchStep(t) ==
  \/ RunFork(t) \/ pop_response(t) \/ ReadBySession(t)
  \/ ReadAnswer(t) \/ ReadFails(t) \/ ReadWaits(t)

SocketStep ==
  \/ \E c \in Callers : Established(c)
  \/ \E t \in Fds, i \in Requests, kind \in {"answer", "refusal", "garbage"} : Answer(t, i, kind)
  \/ \E t \in Fds : PeerCloses(t)

Next == ~crashed /\ (\/ \E c \in Callers : CallerStep(c)
                     \/ \E t \in Fds : DispatchStep(t)
                     \/ Resume \/ SocketStep)

Spec == Init /\ [][Next]_vars

-----------------------------------------------------------------------------
(* Properties.                                                              *)

\* A caller that takes a result takes the answer to its own request, however
\* the answers, the ends of connections and new connections are interleaved
\* (get_response by order, __thread[session] by session).
AnswerMatches ==
  \A c \in Callers :
    running = c /\ at[c] = "response" /\ __result[c].kind \in {"answer", "refusal"} =>
      __result[c].r = request[c]

\* A coroutine that waits for a response is resumed when its result is there,
\* never by a wakeup that was meant for something else.
WokenHasResult ==
  \A c \in Callers : running = c /\ at[c] = "response" => __result[c] # None

\* Who waits for a response is known to someone who can still wake it: the
\* coroutine that dispatches reads for it, or will, or has woken it.
NobodyForgotten ==
  \A c \in Callers : at[c] = "response" /\ running # c =>
    \/ c \in Range(wakeup_queue) /\ __result[c] # None
    \/ __dispatch_thread # 0 /\ (\/ reads[__dispatch_thread].co = c
                                 \/ \E i \in DOMAIN pending : pending[i].co = c)

\* Whoever is in __connecting waits for another coroutine that is still making the
\* connection: the list is never left behind with nobody to go through it.
MakerWorks ==
  __connecting # <<>> => \E d \in Callers : Maker(d) /\ at[d] # "connecting"

\* Who waits for the connection of another has been woken, or is in the list of one
\* that is still making it; unless a maker has ended with an error (socketchannel.lua
\* :387, :421, socket.lua:249) or, in __auth, waits for itself (:444), which leaves
\* the list as it is for good (MakerWorks alone does not hold).
WaiterListed ==
  /\ ~abandoned => MakerWorks
  /\ \A c \in Callers : at[c] = "connecting" /\ running # c =>
       c \in Range(__connecting) \cup Range(wakeup_queue)

\* Two coroutines never read from the channel's connections: the new one waits
\* for the end of the old ("wait for dispatch thread exit").
OneReader ==
  \A t \in Fds : reader[t] \in {"forked", "loop", "pop", "read"} => t = __dispatch_thread

\* A connection in use has its dispatch coroutine: the close signal ends the
\* one of the connection that is being replaced, never its successor.
SignalEndsItsOwn == __sock # 0 => __dispatch_thread = __sock

\* While a connection authenticates, no one else's request is on it.
AuthFirst ==
  __authcoroutine # Nil =>
    /\ \A i \in DOMAIN pending : pending[i].co \in {Nil, __authcoroutine}
    /\ \A t \in Fds : reads[t].co \in {Nil, __authcoroutine}
=============================================================================
