------------------------------- MODULE Mongo -------------------------------
(***************************************************************************)
(* The messages of the mongo driver: op_msg, length and reply (lua_mongo.cc)*)
(* and dispatch_reply (db/mongo.lua).  Replies come in any order and find   *)
(* their requests by number, through a channel with sessions.               *)
(*                                                                          *)
(* A number of 32 bits is BYTES bytes of 2 bits here, and documents are     *)
(* their own length followed by anything.                                   *)
(***************************************************************************)
EXTENDS Integers, SequencesExt

CONSTANTS
  BYTES,        \* bytes in a number
  MaxPending,   \* bound: requests under way
  MaxId,        \* bound: requests of one client
  Documents     \* what follows the length of a document

\* what is assumed of the constants, where this module is instantiated
MongoAssumption == BYTES \in Nat \ {0} /\ MaxPending \in Nat /\ MaxId \in Nat

BYTE == 4
WIDTH == BYTE ^ BYTES    \* 2^32
OP_MSG == 11             \* 2013
MORE_TO_COME == 2

VARIABLES
  toMongo,      \* the bytes on their way to the server
  fromMongo,    \* and back
  __id,         \* the number of the last request
  there,        \* what the server has read and not answered
  sent,         \* the commands it is not done with: numbers, flags and documents
  reply         \* the last reply read, or None

vars == <<toMongo, fromMongo, there, __id, sent, reply>>

None == [is |-> "none"]

Init ==
  /\ toMongo = <<>> /\ fromMongo = <<>> /\ __id = 0
  /\ there = {} /\ sent = {} /\ reply = None

-----------------------------------------------------------------------------

\* write_int32, of a number that may be negative
write_int32(v) == [i \in 1 .. BYTES |-> ((v % WIDTH) \div BYTE ^ (i - 1)) % BYTE]

little_endian(s, at) ==
  LET digit[i \in 0 .. BYTES] ==
        IF i = 0 THEN 0 ELSE digit[i - 1] + s[at + i] * BYTE ^ (i - 1)
  IN digit[BYTES]

\* the same as an int
Signed(n) == IF n < WIDTH \div 2 THEN n ELSE n - WIDTH

Document(d) == write_int32(Len(d) + BYTES) \o d

Header(id, flags) ==
  write_int32(id) \o write_int32(0) \o write_int32(OP_MSG) \o write_int32(flags) \o <<0>>

\* the length is that of the head and of the document
op_msg(id, flags, document) ==
  write_int32(BYTES + Len(Header(id, flags)) + little_endian(document, 0))
    \o Header(id, flags) \o document

reply_length(s) == Signed(little_endian(s, 0)) - BYTES

\* unpack_reply: a request of the server's own, the request that is answered, the
\* opcode, flags, the kind of the section, and one document
unpack_reply(data) ==
  IF Len(data) < 4 * BYTES THEN [is |-> "short"]
  ELSE IF \/ little_endian(data, 2 * BYTES) # OP_MSG
          \/ little_endian(data, 3 * BYTES) \notin {0, MORE_TO_COME}
          \/ data[4 * BYTES + 1] # 0
          \/ Len(data) - 4 * BYTES - 1 # little_endian(data, 4 * BYTES + 1)
  THEN [is |-> "raise"]
  ELSE [is |-> "reply", id |-> Signed(little_endian(data, BYTES)),
        document |-> SubSeq(data, 4 * BYTES + 2, Len(data))]

-----------------------------------------------------------------------------

genId == __id + 1

\* runCommand, and send_command, which waits for nothing.  An id is a number of Lua to
\* the channel and an int to op_msg and reply: they agree below 2^31, and nothing keeps
\* ids below it.
Command(d, flags) ==
  /\ Cardinality(sent) < MaxPending /\ __id < MaxId
  /\ reply = None
  /\ __id' = genId
  /\ toMongo' = toMongo \o op_msg(__id', flags, Document(d))
  /\ sent' = sent \cup {[id |-> __id', flags |-> flags, document |-> Document(d)]}
  /\ UNCHANGED <<fromMongo, there, reply>>

\* The server reads a message by its length, and answers it any time later, unless it
\* was told not to.
Serve ==
  /\ toMongo # <<>>
  /\ LET length == little_endian(toMongo, 0)
         data == SubSeq(toMongo, BYTES + 1, length)
     IN /\ toMongo' = SubSeq(toMongo, length + 1, Len(toMongo))
        /\ there' = there \cup {[id |-> Signed(little_endian(data, 0)),
                                 flags |-> little_endian(data, 3 * BYTES),
                                 document |-> SubSeq(data, 4 * BYTES + 2, Len(data))]}
  /\ UNCHANGED <<fromMongo, __id, sent, reply>>

Answer(m) ==
  /\ m.flags # MORE_TO_COME /\ there' = there \ {m}
  /\ LET body == write_int32(0) \o write_int32(m.id) \o write_int32(OP_MSG)
                   \o write_int32(0) \o <<0>> \o m.document
     IN fromMongo' = fromMongo \o write_int32(BYTES + Len(body)) \o body
  /\ UNCHANGED <<toMongo, __id, sent, reply>>

Drop(m) ==
  /\ m.flags = MORE_TO_COME /\ there' = there \ {m} /\ sent' = sent \ {m}
  /\ UNCHANGED <<toMongo, fromMongo, __id, reply>>

\* dispatch_reply, and the answer given to the request that has the number
ReadReply ==
  /\ fromMongo # <<>> /\ reply = None
  /\ LET length == reply_length(fromMongo)
         one == unpack_reply(SubSeq(fromMongo, BYTES + 1, BYTES + length))
     IN /\ reply' = one
        /\ fromMongo' = SubSeq(fromMongo, BYTES + length + 1, Len(fromMongo))
  /\ UNCHANGED <<toMongo, there, __id, sent>>

Return ==
  /\ reply # None /\ reply' = None
  /\ sent' = {r \in sent : r.id # reply.id}
  /\ UNCHANGED <<toMongo, fromMongo, there, __id>>

\* disconnect: requests under way fail, and the next client counts from the beginning
Disconnect ==
  /\ __id > 0 /\ __id' = 0
  /\ toMongo' = <<>> /\ fromMongo' = <<>> /\ there' = {} /\ sent' = {} /\ reply' = None

Next ==
  \/ \E d \in Documents, flags \in {0, MORE_TO_COME} : Command(d, flags)
  \/ Serve
  \/ \E m \in there : Answer(m) \/ Drop(m)
  \/ ReadReply
  \/ Return
  \/ Disconnect

Spec == Init /\ [][Next]_vars

-----------------------------------------------------------------------------

MessagesFound ==
  /\ there \subseteq sent
  /\ reply # None =>
       /\ reply.is = "reply"
       /\ [id |-> reply.id, flags |-> 0, document |-> reply.document] \in sent

\* Nobody misreads a message: the server finds the commands that were sent, and a
\* reply finds the request it answers, whatever the order, the sizes of the documents
\* and the bytes in them, as long as a client has made fewer than 2^31 requests
\* (lua_mongo.cc:117-207, mongo.lua:187-191).
FramesMatch == __id < WIDTH \div 2 => MessagesFound

=============================================================================
