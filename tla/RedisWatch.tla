----------------------------- MODULE RedisWatch -----------------------------
(***************************************************************************)
(* redis.watch (db/redis.lua:254-338): a connection that subscribes to      *)
(* channels and patterns, here topics, and subscribes again to what it knows*)
(* it had when its connection was lost and made again.  When the loss is    *)
(* noticed is SocketChannel's matter: here it is when message, or a request,*)
(* fails.                                                                   *)
(***************************************************************************)
EXTENDS Naturals, Sequences, SequencesExt

CONSTANTS
  Topics,
  MaxCommands   \* bound: commands and answers under way

\* what is assumed of the constants, where this module is instantiated
RedisWatchAssumption == MaxCommands \in Nat

VARIABLES
  object,       \* "none", "lost" or "connected"
  toRedis,      \* commands the server has not read, <<what, topic>>
  fromRedis,    \* answers and messages that message() has not read
  topicsThere,  \* what the server will send messages of on this connection
  __subscribe   \* with __psubscribe: what the object knows it is subscribed to

vars == <<object, toRedis, fromRedis, topicsThere, __subscribe>>

Init ==
  object = "none" /\ toRedis = <<>> /\ fromRedis = <<>> /\ topicsThere = {} /\ __subscribe = {}

-----------------------------------------------------------------------------

\* watch_login, whose pairs() give the topics in any order
Login(order) == [i \in DOMAIN order |-> <<"subscribe", order[i]>>]

\* watch, and what block_connect does for a request or a response on a lost one
Connect ==
  /\ object # "connected" /\ object' = "connected"
  /\ \E order \in SetToSeqs(__subscribe) : toRedis' = Login(order)
  /\ UNCHANGED <<fromRedis, topicsThere, __subscribe>>

\* watch_func: the request waits for no response
Subscribe(what, topic) ==
  /\ object = "connected" /\ Len(toRedis) + Len(fromRedis) < MaxCommands
  /\ toRedis' = Append(toRedis, <<what, topic>>)
  /\ UNCHANGED <<object, fromRedis, topicsThere, __subscribe>>

Apply(topics, answer) ==
  CASE answer[1] = "subscribe" -> topics \cup {answer[2]}
    [] answer[1] = "unsubscribe" -> topics \ {answer[2]}
    [] answer[1] = "message" -> topics

\* message, one answer; it returns at a message and goes on at others
Message ==
  /\ object = "connected" /\ fromRedis # <<>>
  /\ __subscribe' = Apply(__subscribe, Head(fromRedis))
  /\ fromRedis' = Tail(fromRedis)
  /\ UNCHANGED <<object, toRedis, topicsThere>>

Serve ==
  /\ object = "connected" /\ toRedis # <<>>
  /\ topicsThere' = Apply(topicsThere, Head(toRedis))
  /\ fromRedis' = Append(fromRedis, Head(toRedis)) /\ toRedis' = Tail(toRedis)
  /\ UNCHANGED <<object, __subscribe>>

Publish(topic) ==
  /\ object = "connected" /\ topic \in topicsThere /\ Len(toRedis) + Len(fromRedis) < MaxCommands
  /\ fromRedis' = Append(fromRedis, <<"message", topic>>)
  /\ UNCHANGED <<object, toRedis, topicsThere, __subscribe>>

Lose ==
  /\ object = "connected" /\ object' = "lost"
  /\ toRedis' = <<>> /\ fromRedis' = <<>> /\ topicsThere' = {}
  /\ UNCHANGED __subscribe

Disconnect ==
  /\ object # "none" /\ object' = "none"
  /\ toRedis' = <<>> /\ fromRedis' = <<>> /\ topicsThere' = {} /\ __subscribe' = {}

Next ==
  \/ Connect
  \/ \E what \in {"subscribe", "unsubscribe"}, topic \in Topics : Subscribe(what, topic)
  \/ Message
  \/ Serve
  \/ \E topic \in Topics : Publish(topic)
  \/ Lose
  \/ Disconnect

Spec == Init /\ [][Next]_vars

-----------------------------------------------------------------------------

\* Once what is under way has arrived, the object knows exactly what the server
\* sends it, also after any number of lost connections, with commands and answers
\* lost halfway (redis.lua:265-278, 319-338).
ViewsAgree ==
  object = "connected" =>
    FoldLeft(Apply, __subscribe, fromRedis \o toRedis) = FoldLeft(Apply, topicsThere, toRedis)

=============================================================================
