------------------------------- MODULE Redis -------------------------------
(***************************************************************************)
(* The redis driver (db/redis.lua): commands are composed and, through a    *)
(* channel in the order of the requests, replies are read.  What the channel*)
(* keeps, its order, is SocketChannel's; here each request reads what there *)
(* is to read for it, and must leave what belongs to the next one.          *)
(*                                                                          *)
(* A text is a sequence of characters.  The digits of a number are one      *)
(* character, Num(n).  Text that comes in parts is SocketRead's matter: a   *)
(* reader starts when its replies are there, and sleeps till then.          *)
(***************************************************************************)
EXTENDS Integers, SequencesExt

CONSTANTS
  Requests,    \* what is asked: records of commands and reader
  Replies,     \* what a server may reply to any command
  MaxWaiting   \* bound: requests under way at a time

\* what is assumed of the constants, where this module is instantiated
RedisAssumption == MaxWaiting \in Nat

DOLLAR == 36
STAR == 42
PLUS == 43
MINUS == 45
COLON == 58
CRLF == <<13, 10>>
Num(n) == 1000 + n
tonumber(data) == data[1] - 1000

\* values of Lua
Nil       == [t |-> "nil", v |-> <<>>]
Text(s)   == [t |-> "string", v |-> s]
Integer(n)    == [t |-> "integer", v |-> <<n>>]
Table(vs) == [t |-> "table", v |-> vs]

VARIABLES
  toServer,    \* the characters on their way to the server
  fromServer,  \* and back
  commands,    \* history: the commands in toServer
  replies,     \* history: the replies in fromServer
  waiting,     \* the requests whose readers have not run
  got          \* what the last reader gave, of which request and replies

vars == <<toServer, fromServer, commands, replies, waiting, got>>

None == [request |-> <<>>]

Init ==
  /\ toServer = <<>> /\ fromServer = <<>> /\ commands = <<>> /\ replies = <<>>
  /\ waiting = <<>> /\ got = None

-----------------------------------------------------------------------------
(* Commands.                                                                *)

Header(n) == CRLF \o <<DOLLAR, Num(n)>>

\* header_cache and the text, or a null
Composed(x) ==
  IF x = Nil THEN Header(-1) ELSE Header(Len(x.v)) \o CRLF \o x.v

Lines(cmd) == FlattenSeq([i \in DOMAIN cmd |-> Composed(cmd[i])]) \o CRLF

\* ipairs stops at a null; the count does not (#msg, of a table written with its nulls)
compose_table(msg) ==
  LET nulls == {i \in DOMAIN msg : msg[i] = Nil}
      ipairs == {i \in DOMAIN msg : \A j \in nulls : i < j}
  IN <<STAR, Num(Len(msg))>> \o Lines(SubSeq(msg, 1, Cardinality(ipairs)))

\* without arguments (command_np_cache), with one, or with a list of them
compose_message(cmd, args) == <<STAR, Num(Len(args) + 1)>> \o Lines(<<cmd>> \o args)

Compose(r) ==
  IF r.reader \in {"pipeline", "responses"}
  THEN FlattenSeq([i \in DOMAIN r.commands |-> compose_table(r.commands[i])])
  ELSE compose_message(Head(r.commands[1]), Tail(r.commands[1]))

-----------------------------------------------------------------------------
(* Replies.                                                                 *)

Back(ok, v, rest) == [ok |-> ok, v |-> v, rest |-> rest]

RECURSIVE read_response(_), ReadElements(_, _)

\* mutant: the elements behind an error are not read
ReadElements_ToError(n, all) ==
  IF n = 0 \/ ~all.ok THEN all
  ELSE LET one == read_response(all.rest)
       IN ReadElements(n - 1, Back(one.ok, Append(all.v, one.v), one.rest))

\* an error among the elements does not end the loop
ReadElements(n, all) ==
  IF n = 0 THEN all
  ELSE LET one == read_response(all.rest)
       IN ReadElements(n - 1, Back(all.ok /\ one.ok, Append(all.v, one.v), one.rest))

\* redcmd[42]
ReadArray(n, s) ==
  LET all == ReadElements(n, Back(TRUE, <<>>, s)) IN Back(all.ok, Table(all.v), all.rest)

\* redcmd[36]: so many characters and the end of the line
ReadBulk(n, s) == Back(TRUE, Text(SubSeq(s, 1, n)), SubSeq(s, n + 3, Len(s)))

\* readline, and redcmd by the first character
read_response(s) ==
  LET ends == {i \in 1 .. Len(s) - 1 : SubSeq(s, i, i + 1) = CRLF}
      end  == CHOOSE i \in ends : \A j \in ends : i <= j
      data == SubSeq(s, 2, end - 1)
      rest == SubSeq(s, end + 2, Len(s))
  IN CASE s[1] = PLUS  -> Back(TRUE, Text(data), rest)
       [] s[1] = MINUS -> Back(FALSE, Text(data), rest)
       [] s[1] = COLON -> Back(TRUE, Integer(tonumber(data)), rest)
       [] s[1] \in {DOLLAR, STAR} /\ tonumber(data) < 0 -> Back(TRUE, Nil, rest)
       [] s[1] = DOLLAR /\ tonumber(data) >= 0 -> ReadBulk(tonumber(data), rest)
       [] s[1] = STAR /\ tonumber(data) >= 0 -> ReadArray(tonumber(data), rest)

read_boolean(s) ==
  LET one == read_response(s) IN [one EXCEPT !.v = [t |-> "boolean", v |-> <<@ # Integer(0)>>]]

Outcome(one) == [t |-> "out", v |-> <<[t |-> "boolean", v |-> <<one.ok>>], one.v>>]

\* the readers of pipeline, with and without resp
ReadPipeline(n, each, s) ==
  LET Element(all, i) ==
        LET one == read_response(all.rest)
        IN IF each THEN Back(TRUE, Table(Append(all.v.v, Outcome(one))), one.rest) ELSE one
  IN FoldLeft(Element, Back(TRUE, Table(<<>>), s), [i \in 1 .. n |-> i])

Read(r, s) ==
  CASE r.reader = "response"  -> read_response(s)
    [] r.reader = "boolean"   -> read_boolean(s)
    [] r.reader = "pipeline"  -> ReadPipeline(Len(r.commands), FALSE, s)
    [] r.reader = "responses" -> ReadPipeline(Len(r.commands), TRUE, s)

-----------------------------------------------------------------------------
(* The server.                                                              *)

RECURSIVE Encoded(_)

Encoded(r) ==
  CASE r.t = "status"  -> <<PLUS>> \o r.v \o CRLF
    [] r.t = "error"   -> <<MINUS>> \o r.v \o CRLF
    [] r.t = "integer" -> <<COLON, Num(r.v[1])>> \o CRLF
    [] r.t = "nil"     -> <<DOLLAR, Num(-1)>> \o CRLF
    [] r.t = "nilarray" -> <<STAR, Num(-1)>> \o CRLF
    [] r.t = "string"  -> <<DOLLAR, Num(Len(r.v))>> \o CRLF \o r.v \o CRLF
    [] r.t = "array"   -> <<STAR, Num(Len(r.v))>> \o CRLF
                            \o FlattenSeq([i \in DOMAIN r.v |-> Encoded(r.v[i])])

\* an argument, or nothing when the text is none; a null is one without a text
Argument(s) ==
  IF Len(s) < 4 \/ s[1] # DOLLAR \/ SubSeq(s, 3, 4) # CRLF \/ Len(s) < s[2] - 1000 + 4
  THEN [v |-> Nil, rest |-> <<>>]
  ELSE IF s[2] = Num(-1) THEN [v |-> Nil, rest |-> SubSeq(s, 5, Len(s))]
  ELSE LET end == 4 + s[2] - 1000
       IN [v |-> Text(SubSeq(s, 5, end)), rest |-> SubSeq(s, end + 3, Len(s))]

\* the command a text begins with
Command(s) ==
  LET Next1(c, i) ==
        LET a == Argument(c.rest) IN [v |-> Append(c.v, a.v), rest |-> a.rest]
  IN FoldLeft(Next1, [v |-> <<>>, rest |-> SubSeq(s, 5, Len(s))],
              [i \in 1 .. s[2] - 1000 |-> i])

Serve ==
  /\ toServer # <<>>
  /\ toServer' = Command(toServer).rest /\ commands' = Tail(commands)
  /\ \E reply \in Replies :
       fromServer' = fromServer \o Encoded(reply) /\ replies' = Append(replies, reply)
  /\ UNCHANGED <<waiting, got>>

-----------------------------------------------------------------------------

Request(r) ==
  /\ Len(waiting) < MaxWaiting /\ got = None
  /\ toServer' = toServer \o Compose(r) /\ commands' = commands \o r.commands
  /\ waiting' = Append(waiting, r)
  /\ UNCHANGED <<fromServer, replies, got>>

\* the reader of the oldest request (dispatch_by_order)
ReadReply ==
  /\ waiting # <<>> /\ got = None
  /\ LET r == Head(waiting)
         n == Len(r.commands)
         given == Read(r, fromServer)
     IN /\ Len(replies) >= n
        /\ got' = [request |-> r, replies |-> SubSeq(replies, 1, n), ok |-> given.ok, v |-> given.v]
        /\ fromServer' = given.rest /\ replies' = SubSeq(replies, n + 1, Len(replies))
  /\ waiting' = Tail(waiting)
  /\ UNCHANGED <<toServer, commands>>

Return == got # None /\ got' = None /\ UNCHANGED <<toServer, fromServer, commands, replies, waiting>>

Next == (\E r \in Requests : Request(r)) \/ Serve \/ ReadReply \/ Return
Spec == Init /\ [][Next]_vars

-----------------------------------------------------------------------------

EveryCommandArrives ==
  LET Take(c, i) ==
        IF c.rest = <<>> THEN c
        ELSE LET one == Command(c.rest) IN [v |-> Append(c.v, one.v), rest |-> one.rest]
  IN FoldLeft(Take, [v |-> <<>>, rest |-> toServer], commands) = [v |-> commands, rest |-> <<>>]

\* no null in a command of a pipeline
Whole(r) ==
  r.reader \in {"pipeline", "responses"} => \A i \in DOMAIN r.commands : ~Contains(r.commands[i], Nil)

\* The server reads the commands that were asked, with their arguments, one after
\* another: no length or count of a command reaches into the next one, unless a command
\* of a pipeline has a null (redis.lua:98-146, 212-222).
CommandsArrive == (\A r \in Requests : Whole(r)) => EveryCommandArrives

RECURSIVE NoError(_), ValueOf(_)

NoError(r) == r.t # "error" /\ (r.t = "array" => \A i \in DOMAIN r.v : NoError(r.v[i]))

ValueOf(r) ==
  CASE r.t \in {"nil", "nilarray"} -> Nil
    [] r.t \in {"status", "error", "string"} -> Text(r.v)
    [] r.t = "integer" -> r
    [] r.t = "array" -> Table([i \in DOMAIN r.v |-> ValueOf(r.v[i])])

\* A request reads the replies to its own commands, all of them: an error, also one
\* inside an array or in the middle of a pipeline, leaves nothing for the next reader.
\* It is given every one of them with resp, and else the last one, with an error that
\* is in it; a pipeline without resp says nothing of errors before the last
\* (redis.lua:53-68, 224-252).
OwnReply ==
  /\ fromServer = FlattenSeq([i \in DOMAIN replies |-> Encoded(replies[i])])
  /\ got # None =>
       LET last == got.replies[Len(got.replies)]
       IN IF got.request.reader = "responses"
          THEN got.ok /\ got.v = Table([i \in DOMAIN got.replies |->
                 Outcome([ok |-> NoError(got.replies[i]), v |-> ValueOf(got.replies[i])])])
          ELSE /\ got.ok = NoError(last)
               /\ got.v = IF got.request.reader = "boolean"
                            THEN [t |-> "boolean", v |-> <<ValueOf(last) # Integer(0)>>]
                            ELSE ValueOf(last)

=============================================================================
