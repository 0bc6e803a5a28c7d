------------------------------- MODULE Crypt -------------------------------
(***************************************************************************)
(* onbnet.crypt (lua-crypt.c), the calls that can be undone: DES with its   *)
(* two paddings, hexadecimal, base64 and xor.  A call takes a text and gives*)
(* a text or an error; the answer also says how many bytes were written to  *)
(* a buffer of what size, one on the stack (SMALL_CHUNK bytes) or one       *)
(* allocated for the call.                                                  *)
(*                                                                          *)
(* Bytes have 4 bits here (8 in the code), a DES block 4 bytes (8), a hex   *)
(* digit 2 bits (4) and a base64 digit 3 bits (6).  What DES does to the    *)
(* bits of a half block in one round, and how it derives its subkeys, is    *)
(* replaced by other functions; the order of rounds and subkeys is not.     *)
(***************************************************************************)
EXTENDS Integers, SequencesExt, Bitwise

CONSTANTS
  SMALL_CHUNK,
  Calls        \* the calls made: records of op, text, key and mode

\* what is assumed of the constants, where this module is instantiated
CryptAssumption == SMALL_CHUNK \in Nat

BYTE == 16
BLOCK == 4
NIBBLE == 4      \* values of a hex digit
SIX == 8         \* values of a base64 digit
ISO7816_4 == 0
PKCS7 == 1

VARIABLES call, answer
vars == <<call, answer>>

None == [op |-> "none"]
Init == call = None /\ answer = None

\* what a call gives: its text, after writing used bytes in a buffer of room bytes
Done(text, used, room) ==
  [op |-> "text", text |-> text, used |-> used, room |-> room]
Error == [op |-> "error"]

XorSeq(a, b) == [i \in DOMAIN a |-> a[i] ^^ b[i]]

\* tmp[SMALL_CHUNK], or a userdata of size bytes if need is too large for it
Room(need, limit, size) == IF need > limit THEN size ELSE SMALL_CHUNK

-----------------------------------------------------------------------------
(* DES                                                                     *)

\* des_main_ks: 16 pairs of subkeys
SubKeys(key) == [i \in 1 .. 32 |-> (key[(i % BLOCK) + 1] * i + i \div 3) % BYTE]

\* ldesdecode: the pairs in reverse order, each as it is
Reversed(sk) == [i \in 1 .. 32 |-> IF i % 2 = 1 THEN sk[32 - i] ELSE sk[34 - i]]

\* DES_ROUND: what a half block and two subkeys change the other half by
F(half, k1, k2) == (half * half + k1 * (half \div BYTE) + 3 * k2) % BYTE ^ 2

\* des_crypt: 16 rounds on the halves of a block (GET_UINT32, PUT_UINT32), between
\* a permutation (DES_IP) and its inverse (DES_FP), which is given the halves in the
\* other order
DesCrypt(sk, block) ==
  LET start == <<block[4] * BYTE + block[3], block[2] * BYTE + block[1]>>
      round(h, i) == <<h[2], h[1] ^^ F(h[2], sk[2 * i - 1], sk[2 * i])>>
      end == FoldLeft(round, start, [i \in 1 .. 16 |-> i])
  IN <<end[1] % BYTE, end[1] \div BYTE, end[2] % BYTE, end[2] \div BYTE>>

Blocks(text) ==
  [i \in 1 .. Len(text) \div BLOCK |-> SubSeq(text, (i - 1) * BLOCK + 1, i * BLOCK)]

DesBlocks(sk, text) ==
  FlattenSeq([i \in DOMAIN Blocks(text) |-> DesCrypt(sk, Blocks(text)[i])])

\* add_padding: always at least one byte
AddPadding(tail, mode) ==
  LET n == BLOCK - Len(tail) IN
  tail \o IF mode = ISO7816_4 THEN <<BYTE \div 2>> \o [i \in 1 .. n - 1 |-> 0]
          ELSE [i \in 1 .. n |-> n]

\* the zeros at the end of a block
Zeros(last) == {n \in 0 .. BLOCK - 1 : \A i \in 1 .. n : last[BLOCK + 1 - i] = 0}

\* padding_remove_iso7816_4: how many bytes the last block is padded with
IsoPadding(last) ==
  LET n == Max(Zeros(last)) IN IF last[BLOCK - n] = BYTE \div 2 THEN n + 1 ELSE 0

\* padding_remove_pkcs7; a number of bytes above BLOCK is an error of ldesdecode,
\* whatever is read before the block to check it
Pkcs7Padding(last) ==
  LET n == last[BLOCK] IN
  IF n \in 1 .. BLOCK /\ \A i \in 1 .. n : last[BLOCK + 1 - i] = n THEN n ELSE 0

DesEncode(text, key, mode) ==
  LET whole == (Len(text) \div BLOCK) * BLOCK
      size  == whole + BLOCK
  IN Done(DesBlocks(SubKeys(key), SubSeq(text, 1, whole)
                      \o AddPadding(SubSeq(text, whole + 1, Len(text)), mode)),
          size, Room(size, SMALL_CHUNK, size))

DesDecode(text, key, mode) ==
  LET plain == DesBlocks(Reversed(SubKeys(key)), text)
      last  == SubSeq(plain, Len(plain) - BLOCK + 1, Len(plain))
      n     == IF mode = ISO7816_4 THEN IsoPadding(last) ELSE Pkcs7Padding(last)
      size  == Len(text)
  IN IF size = 0 \/ size % BLOCK # 0 \/ n = 0 THEN Error
     ELSE Done(SubSeq(plain, 1, size - n), size, Room(size, SMALL_CHUNK, size))

-----------------------------------------------------------------------------
(* Hexadecimal.  A character is the number that HEX makes of it: the digits *)
(* come first, and 'g', the one after them, is let through.                 *)

HexEncode(text) ==
  Done(FlattenSeq([i \in DOMAIN text |-> <<text[i] \div NIBBLE, text[i] % NIBBLE>>]),
       2 * Len(text), Room(Len(text), SMALL_CHUNK \div 2, 2 * Len(text)))

HexDecode(text) ==
  LET n == Len(text) \div 2
      byte(i) == ((text[2 * i - 1] * NIBBLE) % BYTE) | text[2 * i]
  IN IF Len(text) % 2 = 1 \/ \E c \in ToSet(text) : c > NIBBLE THEN Error
     ELSE Done([i \in 1 .. n |-> byte(i)], n, Room(Len(text), SMALL_CHUNK * 2, n))

-----------------------------------------------------------------------------
(* Base64.  A character is a digit, EQ ('=') or JUNK, as b64index tells.    *)

JUNK == SIX
EQ == SIX + 1

Digits(v, n) == [i \in 1 .. n |-> (v \div SIX ^ (n - i)) % SIX]

\* lb64encode: three bytes as four digits; one or two left over are followed by =
Quad(t) ==
  CASE Len(t) = 3 -> Digits(t[1] * BYTE ^ 2 + t[2] * BYTE + t[3], 4)
    [] Len(t) = 2 -> Digits((t[1] * BYTE + t[2]) * 2, 3) \o <<EQ>>
    [] Len(t) = 1 -> Digits(t[1] * 4, 2) \o <<EQ, EQ>>

Base64Encode(text) ==
  LET n == (Len(text) + 2) \div 3
      quad(i) == Quad(SubSeq(text, 3 * i - 2, IF i = n THEN Len(text) ELSE 3 * i))
  IN Done(FlattenSeq([i \in 1 .. n |-> quad(i)]), 4 * n, Room(4 * n, SMALL_CHUNK, 4 * n))

RECURSIVE Four(_, _, _)

\* the loop over c[4]: four characters from position i on; at the end of the text
\* = is assumed
Four(text, i, c) ==
  CASE Len(c) = 4 -> [c |-> c, i |-> i]
    [] Len(c) < 4 /\ i > Len(text) -> Four(text, i + 1, Append(c, EQ))
    [] OTHER -> Four(text, i + 1, IF text[i] = JUNK THEN c ELSE Append(c, text[i]))

Padding(c) == Cardinality({j \in 1 .. 4 : c[j] = EQ})

\* = only at the end, and no bits after the last byte
Valid(c) ==
  \/ Padding(c) = 0
  \/ Padding(c) = 1 /\ c[4] = EQ /\ c[3] % 2 = 0
  \/ Padding(c) = 2 /\ c[4] = EQ /\ c[3] = EQ /\ c[2] % 4 = 0

BytesOf(c) ==
  LET v == c[1] * SIX ^ 3 + c[2] * SIX ^ 2 IN
  CASE Padding(c) = 0 -> LET w == v + c[3] * SIX + c[4]
                         IN <<w \div BYTE ^ 2, (w \div BYTE) % BYTE, w % BYTE>>
    [] Padding(c) = 1 -> LET w == (v + c[3] * SIX) \div BYTE
                         IN <<w \div BYTE, w % BYTE>>
    [] Padding(c) = 2 -> <<v \div BYTE ^ 2>>

RECURSIVE Base64From(_, _, _)
Base64From(text, i, output) ==
  LET q == Four(text, i, <<>>)
      size == ((Len(text) + 3) \div 4) * 3
  IN CASE i > Len(text) -> Done(output, Len(output), Room(size, SMALL_CHUNK, size))
       [] i <= Len(text) /\ ~Valid(q.c) -> Error
       [] OTHER -> Base64From(text, q.i, output \o BytesOf(q.c))

Base64Decode(text) == Base64From(text, 1, <<>>)

-----------------------------------------------------------------------------

\* lxor_str: the second string as often as it takes
XorStr(text, key) ==
  IF key = <<>> THEN Error
  ELSE Done([i \in DOMAIN text |-> text[i] ^^ key[((i - 1) % Len(key)) + 1]],
            Len(text), Len(text))

Encode(c) ==
  CASE c.op = "des"    -> DesEncode(c.text, c.key, c.mode)
    [] c.op = "hex"    -> HexEncode(c.text)
    [] c.op = "base64" -> Base64Encode(c.text)
    [] c.op = "xor"    -> XorStr(c.text, c.key)

Decode(c) ==
  CASE c.op = "des"    -> DesDecode(c.text, c.key, c.mode)
    [] c.op = "hex"    -> HexDecode(c.text)
    [] c.op = "base64" -> Base64Decode(c.text)
    [] c.op = "xor"    -> XorStr(c.text, c.key)

DoEncode ==
  /\ call = None
  /\ \E c \in Calls :
       c.dir = "encode" /\ call' = c /\ answer' = Encode(c)

DoDecode ==
  /\ call = None
  /\ \E c \in Calls :
       c.dir = "decode" /\ call' = c /\ answer' = Decode(c)

Return == call # None /\ call' = None /\ answer' = None

Next == DoEncode \/ DoDecode \/ Return
Spec == Init /\ [][Next]_vars

-----------------------------------------------------------------------------

Gives(a, text) == a.op = "text" /\ a.text = text
Encoded == call # None /\ call.dir = "encode" /\ answer.op = "text"
Decoded == call # None /\ call.dir = "decode" /\ answer.op = "text"

\* A text that was encoded is decoded to itself, whatever its length and, for DES,
\* whatever its last bytes, which may look like a padding (lua-crypt.c).
RoundTrips == Encoded => Gives(Decode([call EXCEPT !.text = answer.text]), call.text)

\* Line breaks and the like, and the lack of "=" at the end, do not change what a
\* base64 text is decoded to ("to improve compatibility", lua-crypt.c:964).
Base64Lenient ==
  Encoded /\ call.op = "base64" =>
    LET digits == SelectSeq(answer.text, LAMBDA x : x # EQ)
        broken == FlattenSeq([i \in DOMAIN answer.text |-> <<JUNK, answer.text[i]>>])
    IN Gives(Base64Decode(digits), call.text) /\ Gives(Base64Decode(broken), call.text)

\* What decodes is what an encoder would have written: two texts do not decode to
\* the same, but for the junk and the missing "=" that base64 forgives.
Canonical ==
  Decoded =>
    LET again == Encode([call EXCEPT !.text = answer.text]).text IN
    CASE call.op = "base64" ->
           LET digits(t) == SelectSeq(t, LAMBDA x : x \in 0 .. SIX - 1)
               chars == SelectSeq(call.text, LAMBDA x : x # JUNK)
               ended == \A i \in 1 .. Len(chars) - 1 : chars[i] = EQ => chars[i + 1] = EQ
           IN ended => digits(again) = digits(call.text)
      [] call.op = "des" -> again = call.text
      [] OTHER -> TRUE

\* No call writes past the end of the buffer it chose by the length of its text.
BufferFits == call # None /\ answer.op = "text" => answer.used <= answer.room

=============================================================================
