------------------------------ MODULE MCCodecs ------------------------------
(***************************************************************************)
(* What runs on one thread: the libraries and drivers that a Lua service    *)
(* uses on its own, and the timer thread over the structures that take no   *)
(* lock (TimerWheel is the one that does).  One at a time, any of them.     *)
(***************************************************************************)
EXTENDS Integers, Sequences, SequencesExt, TLC

CONSTANTS Base, BLOCK_SIZE, MAX_COOKIE, MAX_DEPTH, MaxArgs,
          Values, SMALL_CHUNK, Calls, W, P, G, COUNTER, Texts, Worlds,
          Requests, Replies, MaxWaiting, Topics, MaxCommands,
          BYTES, MaxPending, MaxId, Documents,
          MaxHeap, MaxTree, MaxList, Delays, Types, MaxLevel, Block, FirstSize, FirstSleep

VARIABLES given, chain, flat, got, freed, phase,
          crypt, plain, digest, sum,
          stage, world, entries, cells, todo, update_sig, update_func_map, replace_obj,
          toServer, fromServer, commands, replies, waiting, replied,
          object, toRedis, fromRedis, topicsThere, __subscribe,
          toMongo, fromMongo, there, __id, sent, reply,
          _Type, store, due, sleep, pc, running, _close, asked

MCTexts == {[i \in 1 .. n |-> 20 + i] : n \in 0 .. 20}

D == INSTANCE Digest WITH call <- digest, answer <- sum

(* Values to pack *)
Val(t, x) == [type |-> t, v |-> x]
Str(n) == Val(7, [i \in 1 .. n |-> i % Base])
Tab(len, es) == [type |-> 6, v |-> 0, len |-> len, entries |-> es]
List(n) == Tab(n, [i \in 1 .. n |-> <<Val(2, i), Val(1, i % 2)>>])
Nest(x) == Tab(1, <<<<Val(2, 1), x>>>>)

MCValues ==
  {Val(0, 0), Val(1, 1), Val(8, 9), Val(3, 77), Val(9, 0)}
  \cup {Val(2, n) : n \in {0, 3, 15, 16, 127, 128, -1, -129}}
  \cup {Str(n) : n \in {0, 2, 3, 16}}
  \cup {List(2), List(4), Nest(Nest(Tab(0, <<>>))), Nest(Nest(Nest(Val(2, 1)))),
        Tab(3, <<<<Val(2, 3), Val(2, 16)>>, <<Str(2), Nest(Str(3))>>,
                 <<Val(2, 1), Str(0)>>, <<Val(2, -1), Val(8, 1)>>>>)}

S == INSTANCE Serialize

C == INSTANCE Crypt WITH call <- crypt, answer <- plain
DES == INSTANCE Crypt WITH call <- crypt, answer <- plain, Calls <- {}

(* Texts to encode and decode *)
Plain == SeqOf({0, 8, 3}, 5) \cup SeqOf({5, 10}, 7)
Key == <<1, 7, 3, 12>>
Call(dir, op, text, key, mode) ==
  [dir |-> dir, op |-> op, text |-> text, key |-> key, mode |-> mode]

\* what DES decodes is any text, padded or not, that was encrypted block by block
MCCalls ==
  {Call("encode", "des", t, Key, m) : t \in Plain, m \in 0 .. 1}
  \cup {Call("decode", "des", DES!DesBlocks(DES!SubKeys(Key), t), Key, m) :
          t \in SeqOf({0, 1, 8}, 4) \cup [1 .. 8 -> {1, 8}], m \in 0 .. 1}
  \cup {Call("encode", "hex", t, <<>>, 0) : t \in Plain}
  \cup {Call("decode", "hex", t, <<>>, 0) : t \in SeqOf({0, 3, 4, 9}, 4)}
  \cup {Call("encode", "base64", t, <<>>, 0) : t \in Plain}
  \cup {Call("decode", "base64", t, <<>>, 0) : t \in SeqOf({0, 1, 6, 8, 9}, 5)}
  \cup {Call("encode", "xor", t, k, 0) : t \in Plain, k \in {<<>>, <<7>>, <<1, 2, 3>>}}

(* Modules to reload *)
H == INSTANCE Hotfix
Lua == INSTANCE Hotfix WITH Worlds <- {}

T(n) == Lua!Table(n)
F(n) == Lua!Func(n)
N(n) == Lua!Number(n)
Field(n) == Lua!Name(n)

\* Table 4 is the old module, 5 a table of it, 6 its metatable, 7 one that is
\* protected like function 4; 8, 9 and 10 are new, and a coroutine holds 11.
\* Functions 1 and 2 are old, 5 and 6 new, 3 is another module's.  Where alike, the
\* module and its table have the same text, and so have the new ones.
Heap(old, new, oldA, newA, oldB, newB, inner, outer, u, w, newU, alike, equal) ==
  [entries |-> (T(1) :> (Field(1) :> T(2) @@ Field(2) :> T(3) @@ Field(3) :> Lua!Thread(1)))
            @@ (T(2) :> (Lua!Module :> old)) @@ (T(11) :> (Field(1) :> F(1)))
            @@ (T(3) :> (Field(1) :> F(3) @@ Field(2) :> outer @@ F(2) :> N(1) @@ Field(3) :> F(4)))
            @@ (T(4) :> (Field(1) :> oldA @@ Field(2) :> oldB @@ Field(3) :> N(1)))
            @@ (T(5) :> (Field(1) :> inner)) @@ (T(6) :> (Field(1) :> F(1)))
            @@ (T(7) :> (Field(1) :> N(1))) @@ (T(8) :> (Field(1) :> newA @@ Field(2) :> newB))
            @@ (T(9) :> (Field(1) :> F(5) @@ Field(4) :> N(2))) @@ (T(10) :> (Field(1) :> F(5))),
   meta  |-> [t \in {T(i) : i \in 1 .. 11} |->
               IF t = T(4) THEN T(6) ELSE IF t = T(8) THEN T(10) ELSE Lua!Nil],
   ups   |-> (F(1) :> (Field(1) :> 1)) @@ (F(2) :> (Field(1) :> 1 @@ Field(2) :> 2))
          @@ (F(3) :> (Field(1) :> 5)) @@ (F(4) :> (Field(1) :> 6))
          @@ (F(5) :> (Field(1) :> 3)) @@ (F(6) :> (Field(1) :> 3 @@ Field(2) :> 4)),
   cells |-> <<u, w, newU, N(2), F(1), F(1)>>,
   protected |-> {F(4), T(7)},
   held  |-> (Lua!Thread(1) :> {F(2), T(11)}),
   text  |-> [x \in {T(i) : i \in 1 .. 11} \cup {F(i) : i \in 1 .. 6} |->
               IF alike /\ x = T(5) THEN T(4) ELSE IF alike /\ x = T(9) THEN T(8) ELSE x],
   equal |-> equal,
   new |-> new]

MCWorlds ==
  {Heap(T(4), T(8), oldA, newA, oldB, newB, inner, outer, u, w, newU, FALSE, {}) :
     oldA \in {F(1), N(1)}, newA \in {F(5), N(2)}, oldB \in {F(2), T(5), T(7)},
     newB \in {F(6), T(9)}, inner \in {F(1), N(1)}, outer \in {F(1), T(5)},
     u \in {N(1), T(5), F(2)}, w \in {F(1), Lua!False}, newU \in {N(2), T(9), F(6)}}
  \cup {Heap(old, F(6), F(1), N(2), F(2), F(6), F(1), F(2), u, N(1), T(9), FALSE, {}) :
          old \in {F(2), T(4)}, u \in {N(1), T(5)}}

\* the same with __tostring, and with __eq
MCAlike ==
  {Heap(T(4), T(8), F(1), F(5), T(5), T(9), F(1), F(1), N(1), F(1), N(2), alike, equal) :
     alike \in BOOLEAN, equal \in {{}, {<<T(9), T(5)>>}}}

MCAllWorlds == MCWorlds \cup MCAlike

(* Commands to redis, and its replies *)
R == INSTANCE Redis WITH got <- replied
Value == INSTANCE Redis WITH got <- replied, Requests <- {}, Replies <- {}

Status(x) == [t |-> "status", v |-> x]
Fault == [t |-> "error", v |-> <<97>>]
Bulk(x) == [t |-> "string", v |-> x]
Array(vs) == [t |-> "array", v |-> vs]

MCReplies ==
  {Status(<<97>>), Fault, Value!Integer(0), Value!Integer(1), Value!Nil,
   [t |-> "nilarray", v |-> <<>>], Bulk(<<>>), Bulk(<<13, 10, 97>>),
   Array(<<Value!Nil, Array(<<Fault, Bulk(<<97>>)>>), Array(<<>>), Status(<<>>)>>)}

Get == <<Value!Text(<<97>>)>>
Set == <<Value!Text(<<98>>), Value!Text(<<13, 10>>), Value!Text(<<>>)>>

MCRequests ==
  {[commands |-> <<c>>, reader |-> "response"] :
     c \in {Set, <<Value!Text(<<97>>), Value!Nil, Value!Text(<<36>>)>>}}
  \cup {[commands |-> <<Get>>, reader |-> "boolean"]}
  \cup {[commands |-> <<Get, Set>>, reader |-> r] : r \in {"pipeline", "responses"}}

MCNullInPipeline ==
  {[commands |-> <<<<Value!Text(<<97>>), Value!Nil, Value!Text(<<36>>)>>, Get>>, reader |-> "pipeline"]}

\* Subscriptions to redis, and the messages of mongo
V == INSTANCE RedisWatch
M == INSTANCE Mongo

MCDocuments == {<<>>, <<1, 3>>}

\* The timer thread
A == INSTANCE AltTimer WITH key <- due, Idle <- FirstSleep

ASSUME MCCodecsAssumption ==
  /\ S!SerializeAssumption /\ C!CryptAssumption /\ D!DigestAssumption
  /\ R!RedisAssumption /\ V!RedisWatchAssumption /\ M!MongoAssumption
  /\ A!AltTimerAssumption

-----------------------------------------------------------------------------

seri   == <<given, chain, flat, got, freed, phase>>
coding == <<crypt, plain>>
hash   == <<digest, sum>>
hotfix == <<stage, world, entries, cells, todo, update_sig, update_func_map, replace_obj>>
redis  == <<toServer, fromServer, commands, replies, waiting, replied>>
watch  == <<object, toRedis, fromRedis, topicsThere, __subscribe>>
mongo  == <<toMongo, fromMongo, there, __id, sent, reply>>
timers == <<_Type, store, due, sleep, pc, running, _close, asked>>
vars   == <<seri, coding, hash, hotfix, redis, watch, mongo, timers>>

Init == S!Init /\ C!Init /\ D!Init /\ H!Init /\ R!Init /\ V!Init /\ M!Init /\ A!Init

Idle == [serialise |-> phase = "idle", code |-> crypt = C!None, hash |-> digest = D!None,
         hotfix |-> stage = "idle", redis |-> waiting = <<>> /\ replied = R!None,
         watch |-> object = "none", mongo |-> __id = 0,
         timers |-> _Type = "MIN_HEAP" /\ pc = "start" /\ asked = {}]
Alone(library) == \A other \in DOMAIN Idle \ {library} : Idle[other]

Serialising ==
  Alone("serialise") /\ S!Next /\ UNCHANGED <<coding, hash, hotfix, redis, watch, mongo, timers>>
Coding ==
  Alone("code") /\ C!Next /\ UNCHANGED <<seri, hash, hotfix, redis, watch, mongo, timers>>
Digesting ==
  Alone("hash") /\ D!Next /\ UNCHANGED <<seri, coding, hotfix, redis, watch, mongo, timers>>
Reloading ==
  Alone("hotfix") /\ H!Next /\ UNCHANGED <<seri, coding, hash, redis, watch, mongo, timers>>
Asking ==
  Alone("redis") /\ R!Next /\ UNCHANGED <<seri, coding, hash, hotfix, watch, mongo, timers>>
Watching ==
  Alone("watch") /\ V!Next /\ UNCHANGED <<seri, coding, hash, hotfix, redis, mongo, timers>>
Querying ==
  Alone("mongo") /\ M!Next /\ UNCHANGED <<seri, coding, hash, hotfix, redis, watch, timers>>
Timing ==
  Alone("timers") /\ A!Next /\ UNCHANGED <<seri, coding, hash, hotfix, redis, watch, mongo>>

\* the timer thread has left run(), the server has stopped or crashed
Stopped == (pc = "closed" \/ A!Faulted) /\ UNCHANGED vars

Next == \/ Serialising \/ Coding \/ Digesting \/ Reloading \/ Asking \/ Watching \/ Querying
        \/ Timing \/ Stopped

Spec == Init /\ [][Next]_vars

-----------------------------------------------------------------------------

\* What is packed, at once or by appending, is what is unpacked; a chain of blocks is
\* as long as its header says, and reading frees each block (serialize.c).
SerializeSound ==
  S!TypeOK /\ S!RoundTrip /\ S!ChainMatchesLength /\ S!BlocksFreedOnce

\* Decoding undoes encoding, with junk in base64 too, no two texts decode to the same
\* and no call writes past its buffer; SHA-1 and the HMACs are what their standards and
\* comments say; both sides of an exchange agree (lua-crypt.c, lsha1.c).
CryptSound ==
  /\ C!RoundTrips /\ C!Base64Lenient /\ C!Canonical /\ C!BufferFits
  /\ D!Sha1Standard /\ D!HmacStandard /\ D!HmacMd5Documented /\ D!DhAgree

\* After a reload the functions of the module that are in the new version are replaced,
\* unless __tostring or __eq takes their tables for others, and no reference to an old
\* one is left but what only coroutines, userdata and protected objects hold; what is
\* protected, the plain values of upvalues and the data of the module are kept
\* (hotfix.lua and internal/).
ReloadSound ==
  /\ H!TypeOK /\ H!NoOldFunction /\ H!NamesakesReplaced
  /\ H!ProtectedKept /\ H!UpvaluesKept /\ H!DataKept

\* Without these exceptions neither holds.
ReloadedHeld == H!NoOldFunctionHeld
ReloadedAll  == H!AllReplaced

\* A redis server reads what was asked, but for nulls in a pipeline, a request gets its
\* own replies, a watch knows its subscriptions; mongo's messages are framed, and numbered
\* below 2^31 (db/*.lua, lua_mongo.cc).
DriversSound ==
  R!CommandsArrive /\ R!OwnReply /\ V!ViewsAgree /\ M!FramesMatch

\* They are not with a null in a command of a pipeline (redis.lua:214-215), and not from
\* 2^31 requests on (mongo.lua:187-191).
DriversAnyCommand == R!EveryCommandArrives
DriversAnyNumber  == M!MessagesFound

\* Heap, tree and skip list keep their order and links and hold just the timers asked
\* for; none fires before its time, or before one that is due earlier, and it is late by
\* at most one sleep for each timer there can be (timer.cc:166-218).  For the skip list as
\* long as no node got more levels than its block holds (zkiplist.cc:72-84), and for the
\* tree with so few timers that rbtree_delete follows no null sibling (rbtree.cc:251; it
\* takes six): a fault ends what is claimed.
TimersSound ==
  /\ [](A!TypeOK /\ A!KeepsOrder /\ A!HoldsAsked /\ A!LateByQueue)
  /\ A!FiresEarliest

\* No node of the skip list is linked on more levels than its block holds, which does not
\* hold either.
ListInBounds == _Type = "ZKIPLIST" => A!NoFault

=============================================================================
