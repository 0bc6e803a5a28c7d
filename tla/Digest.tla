------------------------------- MODULE Digest -------------------------------
(***************************************************************************)
(* onbnet.crypt (lua-crypt.c, lsha1.c), the calls with an answer that two   *)
(* sides must compute alike: SHA-1, HMAC over SHA-1 and over MD5, and the   *)
(* Diffie-Hellman exchange.                                                 *)
(*                                                                          *)
(* The compression functions are not modelled: hashing a block appends it   *)
(* to the state, so two states are equal only if the same blocks were       *)
(* hashed in the same order.  A block has 8 bytes here (64 in the code), of *)
(* which the length takes the last 2 (8); the bits are counted in two words *)
(* of COUNTER values (2^32).  The exchange computes in W values (2^64), modulo *)
(* P, the biggest prime below W.                                            *)
(***************************************************************************)
EXTENDS Integers, SequencesExt, Bitwise

CONSTANTS W, P, G, COUNTER,
          Texts   \* the byte strings that are hashed and used as keys

\* what is assumed of the constants, where this module is instantiated
DigestAssumption ==
  {W, P, G, COUNTER} \subseteq Nat /\ G < P /\ P < W /\ COUNTER % 64 = 0

BLOCKSIZE == 8
LENGTH == 2
DIGEST_SIZE == 3
BYTE == 256

VARIABLES call, answer
vars == <<call, answer>>

None == [op |-> "none"]
Init == call = None /\ answer = None

First(s, n) == SubSeq(s, 1, n)
From(s, i) == SubSeq(s, i, Len(s))
Zeros(n) == [i \in 1 .. n |-> 0]

-----------------------------------------------------------------------------
(* SHA-1                                                                   *)

\* sat_SHA1_Init: nothing hashed, nothing counted, nothing in the buffer
NewContext == [state |-> <<>>, count |-> <<0, 0>>, buffer |-> <<>>]

\* SHA1_Transform
Transform(state, block) == Append(state, block)

\* the bits of len more bytes, with the carry
Counted(count, len) ==
  LET bits == (len * 8) % COUNTER
      low  == (count[1] + bits) % COUNTER
  IN <<low, (count[2] + (IF low < bits THEN 1 ELSE 0) + (len * 8) \div COUNTER) % COUNTER>>

\* sat_SHA1_Update: the buffer is filled and hashed, then as many blocks of the data
\* as there are, and the rest is kept; j, the bytes in the buffer, comes from count
Update(context, data) ==
  LET j == (context.count[1] \div 8) % BLOCKSIZE
      i == BLOCKSIZE - j
      n == (Len(data) - i) \div BLOCKSIZE
      first == First(context.buffer, j) \o First(data, i)
      block(b) == SubSeq(data, i + (b - 1) * BLOCKSIZE + 1, i + b * BLOCKSIZE)
      count == Counted(context.count, Len(data))
  IN IF j + Len(data) < BLOCKSIZE
       THEN [state |-> context.state, count |-> count,
             buffer |-> First(context.buffer, j) \o data]
     ELSE [state |-> FoldLeft(Transform, Transform(context.state, first),
                              [b \in 1 .. n |-> block(b)]),
           count |-> count,
           buffer |-> From(data, i + n * BLOCKSIZE + 1)]

\* bytes that depend on every block and on their order
DigestOf(state) ==
  LET mixed(start, s) == FoldLeft(LAMBDA h, x : (h * 31 + x) % BYTE, start, s)
  IN [i \in 1 .. DIGEST_SIZE |->
       mixed(i, [b \in DOMAIN state |-> mixed(i, state[b])])]

\* the loop of sat_SHA1_Final: zeros, until there is just room for the length
Pad(context) ==
  LET at == (context.count[1] \div 8) % BLOCKSIZE
      n  == (BLOCKSIZE - LENGTH - at) % BLOCKSIZE
  IN FoldLeft(Update, context, [i \in 1 .. n |-> <<0>>])

\* sat_SHA1_Final: a mark, zeros and the length as it was, the high word first
Final(context) ==
  LET marked == Update(context, <<128>>)
  IN Update(Pad(marked), <<context.count[2], context.count[1]>>).state

\* lsha1
Sha1(text) == Final(Update(NewContext, text))

XorKey(key, pad) == [i \in DOMAIN key |-> key[i] ^^ pad]

\* lhmac_sha1: the key filled up with zeros, or its digest if it is longer than a block
HmacKey(key) ==
  LET k == IF Len(key) > BLOCKSIZE THEN DigestOf(Sha1(key)) ELSE key
  IN k \o Zeros(BLOCKSIZE - Len(k))

HmacSha1(key, text) ==
  LET rkey  == XorKey(HmacKey(key), 92)
      outer == Update(NewContext, rkey)
      inner == Update(NewContext, XorKey(rkey, 92 ^^ 54))
      d     == DigestOf(Final(Update(inner, text)))
  IN Final(Update(outer, d))

-----------------------------------------------------------------------------
(* MD5 without its padding, on 16 words                                    *)

START == <<11, 22, 33, 44>>

\* digest_md5: four words that depend on every word and on their order
Md5Words(w) ==
  [i \in 1 .. 4 |-> FoldLeft(LAMBDA h, x : (h * 7 + x + i) % 512, START[i], w)]

\* hmac_md5
HmacMd5(x, y) ==
  LET xy == x \o y
      r == Md5Words(xy \o xy \o xy \o <<128, 0, 384, 0>>)
      h == [i \in 1 .. 4 |-> (r[i] + START[i]) % 512]
  IN <<h[1] ^^ h[3], h[2] ^^ h[4]>>

-----------------------------------------------------------------------------
(* The exchange, in words of W values                                      *)

RECURSIVE MulModP(_, _, _)

\* mutant: the sum is reduced after it has lost its carry
MulModP_Overflow(a, b, m) ==
  IF b = 0 THEN m
  ELSE MulModP(((2 * a) % W) % P, b \div 2, IF b % 2 = 1 THEN ((m + a) % W) % P ELSE m)

\* the loop of mul_mod_p: doubling and adding without leaving the word
MulModP(a, b, m) ==
  LET t == (P - a) % W
      sum == IF b % 2 = 0 THEN m ELSE IF m >= t THEN m - t ELSE (m + a) % W
  IN IF b = 0 THEN m
     ELSE MulModP(IF a >= t THEN (a * 2 - P) % W ELSE (a * 2) % W, b \div 2, sum)

RECURSIVE PowModP(_, _)

\* pow_mod_p
PowModP(a, b) ==
  LET t == PowModP(a, b \div 2)
      square == MulModP(t, t, 0)
  IN IF b = 1 THEN a
     ELSE IF b % 2 = 1 THEN MulModP(square, a, 0) ELSE square

\* powmodp
Power(a, b) == PowModP(IF a > P THEN a % P ELSE a, b)

-----------------------------------------------------------------------------

Answer(c, a) == call = None /\ call' = c /\ answer' = [op |-> "digest", is |-> a]

DoSha1 == \E t \in Texts : Answer([op |-> "sha1", text |-> t], Sha1(t))

DoHmacSha1 == \E k, t \in Texts :
  Answer([op |-> "hmac_sha1", key |-> k, text |-> t], HmacSha1(k, t))

DoHmacMd5 == \E x, y \in [1 .. 2 -> {0, 3, 200}] :
  Answer([op |-> "hmac64_md5", x |-> x, y |-> y], HmacMd5(x, y))

\* ldhexchange: zero is an error
DoExchange == \E x \in 1 .. W - 1 :
  Answer([op |-> "dhexchange", x |-> x], Power(G, x))

\* ldhsecret, of what the other side exchanged
DoSecret == \E x, y \in 1 .. W - 1 :
  \E e \in {Power(G, x)} : Answer([op |-> "dhsecret", x |-> x, y |-> y], Power(e, y))

Return == call # None /\ call' = None /\ answer' = None

Next == DoSha1 \/ DoHmacSha1 \/ DoHmacMd5 \/ DoExchange \/ DoSecret \/ Return

Spec == Init /\ [][Next]_vars

-----------------------------------------------------------------------------

\* SHA-1 as its standard defines it: the text, a mark, zeros and its length in bits,
\* cut into blocks
Padded(text) ==
  LET n == CHOOSE n \in 0 .. BLOCKSIZE - 1 : (Len(text) + 1 + n + LENGTH) % BLOCKSIZE = 0
      bits == 8 * Len(text)
  IN text \o <<128>> \o Zeros(n) \o <<bits \div COUNTER, bits % COUNTER>>

StandardSha1(text) ==
  [i \in 1 .. Len(Padded(text)) \div BLOCKSIZE |->
     SubSeq(Padded(text), (i - 1) * BLOCKSIZE + 1, i * BLOCKSIZE)]

StandardHmac(key, text) ==
  LET k == IF Len(key) > BLOCKSIZE THEN DigestOf(StandardSha1(key)) ELSE key
      pad(x) == [i \in 1 .. BLOCKSIZE |-> (IF i <= Len(k) THEN k[i] ELSE 0) ^^ x]
  IN StandardSha1(pad(92) \o DigestOf(StandardSha1(pad(54) \o text)))

\* A text is hashed block by block as the standard pads it, whatever its length, also
\* when its length in bits needs both words (lsha1.c:189-244).
Sha1Standard == call.op = "sha1" => answer.is = StandardSha1(call.text)

\* The two hashes of an HMAC are those of the padded key and text put together, though
\* they come in several updates, and a long key counts as its digest (lsha1.c:274).
HmacStandard == call.op = "hmac_sha1" => answer.is = StandardHmac(call.key, call.text)

\* hmac64_md5(a, b) is the two halves of md5.sum((a..b):rep(3)), with the padding that
\* MD5 gives to those 48 bytes, xored (the comment at lua-crypt.c:749).
HmacMd5Documented ==
  call.op = "hmac64_md5" =>
    LET ab == call.x \o call.y
        text == ab \o ab \o ab
        r == Md5Words(text \o <<128>> \o Zeros(13 - Len(text)) \o <<32 * Len(text), 0>>)
        sum == [i \in 1 .. 4 |-> (r[i] + START[i]) % 512]
    IN answer.is = <<sum[1] ^^ sum[3], sum[2] ^^ sum[4]>>

\* What the two sides exchange, and the secret they end up with, is the power of G
\* modulo P, the same on both sides, for every pair of private numbers, though the
\* products leave the word (lua-crypt.c:789-887).
DhAgree ==
  LET power(a, n) ==
        LET of[i \in 0 .. n] == IF i = 0 THEN 1 ELSE (of[i - 1] * a) % P IN of[n]
  IN /\ call.op = "dhexchange" => answer.is = power(G, call.x)
     /\ call.op = "dhsecret" => answer.is = power(power(G, call.y), call.x)

=============================================================================
