----------------------------- MODULE Serialize -----------------------------
(***************************************************************************)
(* onbnet.seri (serialize.c): Lua values are packed into a chain of blocks, *)
(* more values are appended, and the chain is unpacked, or copied into one  *)
(* buffer (a string, for seristring) that is unpacked by another service.   *)
(*                                                                          *)
(* A Lua value is a record: its type and what it is.  A table has the       *)
(* length that lua_rawlen gives and its entries in the order of lua_next.   *)
(* A byte of data is a digit below Base (256 in the code); the first byte   *)
(* of a value is type + 8 * cookie, as in COMBINE_TYPE.                     *)
(***************************************************************************)
EXTENDS Integers, Sequences, SequencesExt, Folds

CONSTANTS
  Base,         \* values of a byte
  BLOCK_SIZE, MAX_COOKIE, MAX_DEPTH,
  Values,       \* the Lua values that are packed
  MaxArgs       \* how many of them are packed and appended

NIL == 0
BOOL == 1
NUMBER == 2
USERDATA == 3
SHORT_STRING == 4
LONG_STRING == 5
TABLE == 6
LUA_STRING == 7
LUA_FUNCTION == 9
INVALID == 10   \* not in the stream

ZERO == 0
BYTE == 1
WORD == 2
DWORD == 4
QWORD == 6
REAL == 8

HEADER == 4   \* bytes of the length at the start of the first block

\* what is assumed of the constants, where this module is instantiated
SerializeAssumption ==
  /\ {Base, BLOCK_SIZE, MAX_COOKIE, MAX_DEPTH, MaxArgs} \subseteq Nat
  /\ Base > 1 /\ BLOCK_SIZE >= HEADER /\ MAX_COOKIE > 2

VARIABLES
  given,   \* history: the values packed and appended
  chain,   \* the blocks that the light userdata of Lua points to
  flat,    \* the buffer of lserialize
  got,     \* the values unpacked
  freed,   \* how many blocks have been freed
  phase    \* what the caller has in hand: nothing, a chain, a buffer, values

vars == <<given, chain, flat, got, freed, phase>>

Nil        == [type |-> NIL, v |-> 0]
Integer(n) == [type |-> NUMBER, v |-> n]
Fail       == [type |-> INVALID, v |-> 0]

Init ==
  /\ given = <<>> /\ chain = <<>> /\ flat = <<>> /\ got = <<>>
  /\ freed = 0
  /\ phase = "idle"

-----------------------------------------------------------------------------
(* Writing: the chunks of bytes that wb_push is called with.               *)

Combine(t, cookie) == <<t + 8 * cookie>>

\* the w low bytes of a number, the least first (two's complement)
Digits(n, w) == [i \in 1 .. w |-> (n \div Base ^ (i - 1)) % Base]

FitsInt32(n) == -(Base ^ 4 \div 2) <= n /\ n < Base ^ 4 \div 2

\* wb_integer
WriteInteger(n) ==
  CASE n = 0 -> <<Combine(NUMBER, ZERO)>>
    [] 0 < n /\ n < Base -> <<Combine(NUMBER, BYTE), Digits(n, 1)>>
    [] Base <= n /\ n < Base ^ 2 -> <<Combine(NUMBER, WORD), Digits(n, 2)>>
    [] FitsInt32(n) /\ (n < 0 \/ n >= Base ^ 2) ->
         <<Combine(NUMBER, DWORD), Digits(n, 4)>>
    [] OTHER -> <<Combine(NUMBER, QWORD), Digits(n, 8)>>

\* wb_string
WriteString(s) ==
  CASE s = <<>> -> <<Combine(SHORT_STRING, 0)>>
    [] s # <<>> /\ Len(s) < MAX_COOKIE -> <<Combine(SHORT_STRING, Len(s)), s>>
    [] Len(s) >= MAX_COOKIE /\ Len(s) < Base ^ 2 ->
         <<Combine(LONG_STRING, 2), Digits(Len(s), 2), s>>
    [] OTHER -> <<Combine(LONG_STRING, 4), Digits(Len(s), 4), s>>

\* wb_table_array: the size of the array part
WriteSize(n) ==
  IF n >= MAX_COOKIE - 1 THEN <<Combine(TABLE, MAX_COOKIE - 1)>> \o WriteInteger(n)
  ELSE <<Combine(TABLE, n)>>

At(t, i) == IF \E e \in ToSet(t.entries) : e[1] = Integer(i)
              THEN (CHOOSE e \in ToSet(t.entries) : e[1] = Integer(i))[2] ELSE Nil

\* the entries that wb_table_hash does not skip
InHash(t, e) == ~(e[1].type = NUMBER /\ e[1].v \in 1 .. t.len)

RECURSIVE Write(_)

\* pack_one, wb_table: array part, other entries, and nil as the end
Write(x) ==
  CASE x.type = NIL       -> <<Combine(NIL, 0)>>
    [] x.type = BOOL      -> <<Combine(BOOL, x.v)>>
    [] x.type = NUMBER    -> WriteInteger(x.v)
    [] x.type = REAL      -> <<Combine(NUMBER, REAL), Digits(x.v, 8)>>
    [] x.type = USERDATA  -> <<Combine(USERDATA, 0), Digits(x.v, 8)>>
    [] x.type = LUA_STRING  -> WriteString(x.v)
    [] x.type = TABLE     ->
         WriteSize(x.len)
         \o FlattenSeq([i \in 1 .. x.len |-> Write(At(x, i))])
         \o FlattenSeq([i \in DOMAIN x.entries |->
              IF InHash(x, x.entries[i])
                THEN Write(x.entries[i][1]) \o Write(x.entries[i][2]) ELSE <<>>])
         \o <<Combine(NIL, 0)>>

\* pack_one raises an error for a table that is nested too deeply and for types
\* such as functions
RECURSIVE Packable(_, _)
Packable(x, depth) ==
  /\ depth <= MAX_DEPTH
  /\ x.type # LUA_FUNCTION
  /\ x.type = TABLE =>
       \A e \in ToSet(x.entries) : Packable(e[1], depth + 1) /\ Packable(e[2], depth + 1)

First(s, n) == SubSeq(s, 1, IF n < Len(s) THEN n ELSE Len(s))

RECURSIVE Push(_, _)

\* wb_push: at ptr in the last block; a full block is followed by a new one only
\* when there is more to write
Push(wb, bytes) ==
  LET w     == IF wb.ptr = BLOCK_SIZE
                 THEN [wb EXCEPT !.blocks = Append(@, <<>>), !.ptr = 0] ELSE wb
      room  == BLOCK_SIZE - w.ptr
      piece == First(bytes, room)
      n     == Len(w.blocks)
      block == SubSeq(w.blocks[n], 1, w.ptr) \o piece
      put   == [blocks |-> [w.blocks EXCEPT ![n] = block],
                ptr |-> Len(block), len |-> w.len + Len(piece)]
  IN IF Len(bytes) <= room THEN put
     ELSE Push(put, SubSeq(bytes, room + 1, Len(bytes)))

Number(digits) == FoldRight(LAMBDA d, n : n * Base + d, digits, 0)

\* wb_init: a new chain, with room for its length ...
NewChain == [blocks |-> <<Digits(0, HEADER)>>, ptr |-> HEADER, len |-> HEADER]

\* mutant: the bytes of all blocks but one are taken for those of the last
Reopen_Off(blocks) ==
  LET len == Number(SubSeq(blocks[1], 1, HEADER)) IN
  [blocks |-> blocks, len |-> len, ptr |-> len % BLOCK_SIZE]

\* ... or one to append to: what is left of the length is in the last block
Reopen(blocks) ==
  LET len == Number(SubSeq(blocks[1], 1, HEADER)) IN
  [blocks |-> blocks, len |-> len, ptr |-> len - BLOCK_SIZE * (Len(blocks) - 1)]

\* wb_close: the length goes to the start of the first block
Closed(wb) ==
  [wb.blocks EXCEPT ![1] = Digits(wb.len, HEADER) \o SubSeq(@, HEADER + 1, Len(@))]

\* pack_from
PackFrom(wb, args) ==
  FoldLeft(LAMBDA w, x : FoldLeft(Push, w, Write(x)), wb, args)

-----------------------------------------------------------------------------
(* Reading: a read_block is what is left of the chain, or one buffer (flat),*)
(* with ptr bytes of it read and len still to read; take holds the last     *)
(* bytes read, gone the number of blocks freed.                             *)

Current(rb) == IF rb.blocks = <<>> THEN <<>> ELSE Head(rb.blocks)

NextBlock(rb) == [rb EXCEPT !.blocks = Tail(@), !.ptr = 0, !.gone = @ + 1]

RECURSIVE Copy(_, _)

\* the loop of rb_read: from the start of the next block on
Copy(rb, sz) ==
  LET r == NextBlock(rb) IN
  IF sz < BLOCK_SIZE
    THEN [r EXCEPT !.take = @ \o SubSeq(Current(r), 1, sz), !.ptr = sz, !.len = @ - sz]
    ELSE Copy([r EXCEPT !.take = @ \o Current(r), !.len = @ - BLOCK_SIZE], sz - BLOCK_SIZE)

\* rb_read; not ok when there are not enough bytes
Read(rb, sz) ==
  LET r    == IF ~rb.flat /\ rb.ptr = BLOCK_SIZE THEN NextBlock(rb) ELSE rb
      copy == BLOCK_SIZE - r.ptr
  IN CASE rb.len < sz -> [rb EXCEPT !.ok = FALSE]
       [] rb.len >= sz /\ (rb.flat \/ sz <= copy) ->
            [r EXCEPT !.take = SubSeq(Current(r), r.ptr + 1, r.ptr + sz),
                      !.ptr = @ + sz, !.len = @ - sz]
       [] OTHER -> Copy([r EXCEPT !.take = SubSeq(Current(r), r.ptr + 1, BLOCK_SIZE),
                                  !.len = @ - copy], sz - copy)

\* rb_init and rball_init
Reader(blocks, isFlat) ==
  [blocks |-> blocks, flat |-> isFlat, ptr |-> HEADER, take |-> <<>>, ok |-> TRUE, gone |-> 0,
   len |-> Number(SubSeq(blocks[1], 1, HEADER)) - HEADER]

\* a value and the reader behind it
Got(x, rb) == [x |-> IF ~rb.ok THEN Fail ELSE x, rb |-> rb]

Signed(n, w) == IF n >= Base ^ w \div 2 THEN n - Base ^ w ELSE n

\* get_integer: the wider ones are signed
ReadInteger(rb, cookie) ==
  LET w == CASE cookie = BYTE -> 1 [] cookie = WORD -> 2 [] cookie = DWORD -> 4
             [] cookie = QWORD -> 8 [] OTHER -> 0
      r == Read(rb, w)
      n == Number(r.take)
  IN CASE cookie = ZERO -> Got(Integer(0), rb)
       [] cookie # ZERO /\ w = 0 -> Got(Fail, rb)
       [] ~r.ok -> Got(Fail, r)
       [] OTHER -> Got(Integer(IF w >= 4 THEN Signed(n, w) ELSE n), r)

\* get_buffer, behind a length of w bytes for long strings
ReadString(rb, w, cookie) ==
  LET r == Read(rb, w)
      s == Read(r, IF w = 0 THEN cookie ELSE Number(r.take))
  IN IF ~r.ok THEN Got(Fail, r) ELSE Got([type |-> LUA_STRING, v |-> s.take], s)

\* what lua_rawset and lua_rawseti leave of an entry
SetEntry(map, k, x) == {e \in map : e[1] # k} \cup (IF x = Nil THEN {} ELSE {<<k, x>>})

RECURSIVE ReadOne(_), ReadArray(_, _, _, _), ReadHash(_, _)

ReadArray(rb, i, n, map) ==
  LET y == ReadOne(rb) IN
  IF i > n THEN ReadHash(rb, map)
  ELSE IF y.x = Fail THEN y
  ELSE ReadArray(y.rb, i + 1, n, SetEntry(map, Integer(i), y.x))

ReadHash(rb, map) ==
  LET k == ReadOne(rb)
      y == ReadOne(k.rb)
  IN CASE k.x = Fail -> k
       [] k.x = Nil  -> Got([type |-> TABLE, v |-> map], k.rb)
       [] k.x \notin {Fail, Nil} /\ y.x = Fail -> y
       [] OTHER -> ReadHash(y.rb, SetEntry(map, k.x, y.x))

\* unpack_table: a size that does not fit the cookie follows as a number
ReadTable(rb, cookie) ==
  LET t == Read(rb, 1)
      n == ReadInteger(t, t.take[1] \div 8)
  IN CASE cookie # MAX_COOKIE - 1 -> ReadArray(rb, 1, cookie, {})
       [] cookie = MAX_COOKIE - 1 /\ ~t.ok -> Got(Fail, t)
       [] cookie = MAX_COOKIE - 1 /\ t.ok
            /\ (t.take[1] % 8 # NUMBER \/ n.x = Fail) -> Got(Fail, t)
       [] OTHER -> ReadArray(n.rb, 1, n.x.v, {})

\* push_value
ReadValue(rb, type, cookie) ==
  LET r == Read(rb, 8) IN
  CASE type = NIL  -> Got(Nil, rb)
    [] type = BOOL -> Got([type |-> BOOL, v |-> cookie], rb)
    [] type = NUMBER /\ cookie = REAL -> Got([type |-> REAL, v |-> Number(r.take)], r)
    [] type = NUMBER /\ cookie # REAL -> ReadInteger(rb, cookie)
    [] type = USERDATA -> Got([type |-> USERDATA, v |-> Number(r.take)], r)
    [] type = SHORT_STRING -> ReadString(rb, 0, cookie)
    [] type = LONG_STRING /\ cookie \in {2, 4} -> ReadString(rb, cookie, 0)
    [] type = TABLE -> ReadTable(rb, cookie)
    [] OTHER -> Got(Fail, rb)

\* unpack_one
ReadOne(rb) ==
  LET t == Read(rb, 1) IN
  IF ~t.ok THEN Got(Fail, t)
  ELSE ReadValue(t, t.take[1] % 8, t.take[1] \div 8)

\* the loop of lunpack and of deserialize_buffer, up to the last byte
RECURSIVE ReadAll(_, _)
ReadAll(rb, values) ==
  LET y == ReadOne(rb) IN
  IF rb.len < 1 THEN [values |-> values, rb |-> rb]
  ELSE IF y.x = Fail THEN [values |-> Append(values, Fail), rb |-> y.rb]
  ELSE ReadAll(y.rb, Append(values, y.x))

-----------------------------------------------------------------------------
(* The calls.                                                              *)

Args == UNION {[1 .. n -> Values] : n \in 0 .. MaxArgs}
CanPack(args) == \A i \in DOMAIN args : Packable(args[i], 0)

\* lpack: an error frees what was written so far and gives no chain
Pack ==
  /\ phase = "idle"
  /\ \E args \in Args :
       /\ CanPack(args)
       /\ given' = args
       /\ chain' = Closed(PackFrom(NewChain, args))
  /\ phase' = "chain"
  /\ UNCHANGED <<flat, got, freed>>

PackError ==
  /\ phase = "idle"
  /\ \E args \in Args : ~CanPack(args)
  /\ phase' = "error"
  /\ UNCHANGED <<given, chain, flat, got, freed>>

\* lappend
AppendOne ==
  /\ phase = "chain"
  /\ Len(given) < MaxArgs
  /\ \E x \in Values :
       /\ Packable(x, 0)
       /\ given' = Append(given, x)
       /\ chain' = Closed(PackFrom(Reopen(chain), <<x>>))
  /\ UNCHANGED <<flat, got, freed, phase>>

\* an error of lappend frees the caller's chain, and the caller keeps its pointer
AppendError ==
  /\ phase = "chain"
  /\ \E x \in Values : ~Packable(x, 0)
  /\ freed' = Len(chain)
  /\ phase' = "error"
  /\ UNCHANGED <<given, chain, flat, got>>

\* lunpack: rb_read frees the blocks it leaves, rb_close the others
Unpack ==
  /\ phase = "chain"
  /\ LET all == ReadAll(Reader(chain, FALSE), <<>>) IN
       /\ got' = all.values
       /\ freed' = all.rb.gone + Len(all.rb.blocks)
  /\ phase' = "values"
  /\ UNCHANGED <<given, chain, flat>>

\* lserialize: block by block up to the length, which is written again
Flattened(blocks, len) == Digits(len, HEADER) \o SubSeq(FlattenSeq(blocks), HEADER + 1, len)

\* lserialize; seristring frees the chain with wb_free
ToBuffer ==
  /\ phase = "chain"
  /\ flat' = Flattened(chain, Number(SubSeq(chain[1], 1, HEADER)))
  /\ freed' = Len(chain)
  /\ phase' = "buffer"
  /\ UNCHANGED <<given, chain, got>>

\* ldeserialize and deseristring
FromBuffer ==
  /\ phase = "buffer"
  /\ got' = ReadAll(Reader(<<flat>>, TRUE), <<>>).values
  /\ phase' = "values"
  /\ UNCHANGED <<given, chain, flat, freed>>

\* the caller is done and starts anew
Done ==
  /\ phase \in {"values", "error"}
  /\ given' = <<>> /\ chain' = <<>> /\ flat' = <<>> /\ got' = <<>>
  /\ freed' = 0
  /\ phase' = "idle"

Next ==
  \/ Pack \/ PackError \/ AppendOne \/ AppendError
  \/ Unpack \/ ToBuffer \/ FromBuffer \/ Done

Spec == Init /\ [][Next]_vars

-----------------------------------------------------------------------------

RECURSIVE Meant(_)

\* what a value means, tables as sets of entries
Meant(x) ==
  IF x.type # TABLE THEN x
  ELSE [type |-> TABLE, v |-> {<<Meant(e[1]), Meant(e[2])>> : e \in ToSet(x.entries)}]

\* Chains and buffers hold bytes, in blocks of the right size, and are there when
\* the phase says so (serialize.c).
TypeOK ==
  /\ phase \in {"idle", "chain", "buffer", "values", "error"}
  /\ given \in Seq(Values) /\ Len(given) <= MaxArgs
  /\ \A i \in DOMAIN chain : Len(chain[i]) <= BLOCK_SIZE
  /\ phase \in {"chain", "buffer"} => Len(chain[1]) >= HEADER
  /\ phase = "buffer" => Len(flat) = Number(First(flat, HEADER))
  /\ freed \in 0 .. Len(chain)

\* What comes out is what went in, through a chain or a buffer, in one call or
\* several, with every value cut by the end of a block wherever it may be.
RoundTrip == phase = "values" => got = [i \in DOMAIN given |-> Meant(given[i])]

\* The chain is as long as its length says, without an empty block at its end:
\* the next wb_init finds the place to append at from these two alone.
ChainMatchesLength ==
  phase = "chain" =>
    /\ Number(SubSeq(chain[1], 1, HEADER)) = Len(FlattenSeq(chain))
    /\ \A i \in 1 .. Len(chain) - 1 : Len(chain[i]) = BLOCK_SIZE
    /\ chain[Len(chain)] # <<>>

\* Every block is freed, and once, by the reads that leave it or at the end.
BlocksFreedOnce == phase = "values" => freed = Len(chain)

=============================================================================
