------------------------- MODULE ChainBuffer_proofs -------------------------
(***************************************************************************)
(* Proofs about ChainBuffer, for any bytes and separator, any sizes of the  *)
(* chunks and any bounds: the list of chunks keeps its shape, no separator  *)
(* is skipped, and with one remover the buffer implements ByteStream.       *)
(***************************************************************************)
EXTENDS ChainBuffer, SequenceTheorems, NaturalsInduction, WellFoundedInduction, TLAPS

-----------------------------------------------------------------------------
(* The inductive invariant.                                                *)

InHand == \E r \in Removers : copied[r] # <<>>

\* the line that buffer_search found last is still at the front
Found ==
  /\ InHand => found = 0
  /\ found # 0 => found >= Len(Sep) /\ SepAt(found - Len(Sep)) /\ last_read_pos = 0

\* before last_read_pos no separator begins, nor a part of one that ends the data, as
\* long as a reader removes lines
Looked ==
  byLine =>
    /\ InHand => last_read_pos = 0
    /\ last_read_pos <= total_len
    /\ \A i \in 0 .. last_read_pos - 1 : ~SepAt(i) /\ ~RunsOff(i)

IInv == TypeOK /\ ChainShape /\ Found /\ Looked

-----------------------------------------------------------------------------
(* Functions that are defined by recursion on 0 .. n.                       *)

\* A set of numbers that is not empty has a least one.
LEMMA LeastOf ==
  ASSUME NEW B, B \subseteq Nat, B # {}
  PROVE  \E n \in B : \A m \in B : n <= m
<1> DEFINE R == OpToRel(<, Nat)
<1>1. PICK n \in B : \A m \in B : ~(<<m, n>> \in R)
  BY NatLessThanWellFounded, WFMin
<1>2. \A m \in B : ~(m < n)
  BY <1>1 DEF OpToRel
<1> QED BY <1>2

\* f begins with first and goes on by step, up to n.
GoesOn(f, first, step, n) ==
  f[0] = first /\ \A i \in 1 .. n : f[i] = step[<<i, f[i - 1]>>]

\* There is such a function.
LEMMA Recursion ==
  ASSUME NEW V, NEW first \in V, NEW n \in Nat, NEW step \in [(1 .. n) \X V -> V]
  PROVE  \E f \in [0 .. n -> V] : GoesOn(f, first, step, n)
<1> DEFINE Good(k) == \E f \in [0 .. k -> V] : GoesOn(f, first, step, k)
           Bad == {k \in 0 .. n : ~Good(k)}
<1>1. SUFFICES ASSUME Bad # {} PROVE FALSE
  <2>1. n \in 0 .. n
    OBVIOUS
  <2> QED BY <2>1
<1>2. PICK k \in Bad : \A m \in Bad : k <= m
  <2>1. Bad \subseteq Nat
    OBVIOUS
  <2> HIDE DEF Bad
  <2> QED BY <1>1, <2>1, LeastOf
<1>3. CASE k = 0
  <2>1. [i \in 0 .. 0 |-> first] \in [0 .. 0 -> V]
    OBVIOUS
  <2>2. GoesOn([i \in 0 .. 0 |-> first], first, step, 0)
    BY DEF GoesOn
  <2> QED BY <1>2, <1>3, <2>1, <2>2
<1>4. CASE k # 0
  <2>1. k - 1 \in 0 .. n /\ ~(k <= k - 1) /\ k \in 1 .. n
    BY <1>4
  <2>2. Good(k - 1)
    <3>1. k - 1 \notin Bad
      BY <2>1, <1>2
    <3> QED BY <3>1, <2>1
  <2>3. PICK f \in [0 .. (k - 1) -> V] : GoesOn(f, first, step, k - 1)
    BY <2>2
  <2> DEFINE g == [i \in 0 .. k |-> IF i < k THEN f[i] ELSE step[<<k, f[k - 1]>>]]
  <2>4. f[k - 1] \in V /\ <<k, f[k - 1]>> \in (1 .. n) \X V
    BY <2>1
  <2>5. g \in [0 .. k -> V]
    <3>1. step[<<k, f[k - 1]>>] \in V
      BY <2>4
    <3>2. \A i \in 0 .. k : i < k => i \in 0 .. (k - 1)
      BY <2>1
    <3> QED BY <3>1, <3>2
  <2>6. GoesOn(g, first, step, k)
    <3>1. g[0] = first
      BY <2>1, <2>3 DEF GoesOn
    <3>2. ASSUME NEW i \in 1 .. k PROVE g[i] = step[<<i, g[i - 1]>>]
      <4>1. CASE i = k
        <5>1. k \in 0 .. k /\ k - 1 \in 0 .. k /\ k - 1 < k /\ ~(k < k)
          BY <2>1
        <5>2. g[k] = step[<<k, f[k - 1]>>] /\ g[k - 1] = f[k - 1]
          BY <5>1
        <5> QED BY <4>1, <5>2
      <4>2. CASE i # k
        <5>1. i \in 1 .. (k - 1) /\ i - 1 \in 0 .. k /\ i - 1 < k /\ i < k /\ i \in 0 .. k
          BY <4>2, <2>1
        <5>2. g[i] = f[i] /\ g[i - 1] = f[i - 1]
          BY <5>1
        <5> QED BY <5>1, <5>2, <2>3 DEF GoesOn
      <4> QED BY <4>1, <4>2
    <3> QED BY <3>1, <3>2 DEF GoesOn
  <2> HIDE DEF g
  <2> QED BY <1>2, <2>5, <2>6
<1> QED BY <1>3, <1>4

-----------------------------------------------------------------------------
(* The size of a new chunk.                                                *)

\* The turns of the loop of buf_chain_new.
LEMMA DoubledIs ==
  ASSUME BufferAssumption, NEW size \in Nat
  PROVE  /\ Doubled(size) \in [0 .. size -> Nat]
         /\ Doubled(size)[0] = MIN_BUFFER_SIZE
         /\ \A turn \in 1 .. size :
              Doubled(size)[turn] = IF Doubled(size)[turn - 1] < size
                                      THEN 2 * Doubled(size)[turn - 1]
                                      ELSE Doubled(size)[turn - 1]
<1> DEFINE Turn(f, turn) == IF turn = 0 THEN MIN_BUFFER_SIZE
                            ELSE IF f[turn - 1] < size THEN 2 * f[turn - 1] ELSE f[turn - 1]
           step == [p \in (1 .. size) \X Nat |-> IF p[2] < size THEN 2 * p[2] ELSE p[2]]
<1>1. MIN_BUFFER_SIZE \in Nat
  BY DEF BufferAssumption
<1>2. step \in [(1 .. size) \X Nat -> Nat]
  OBVIOUS
<1>3. PICK f \in [0 .. size -> Nat] : GoesOn(f, MIN_BUFFER_SIZE, step, size)
  <2> HIDE DEF step
  <2> QED BY <1>1, <1>2, Recursion
<1>4. f = [turn \in 0 .. size |-> Turn(f, turn)]
  <2>1. ASSUME NEW turn \in 0 .. size PROVE f[turn] = Turn(f, turn)
    <3>1. turn # 0 => turn \in 1 .. size /\ f[turn - 1] \in Nat
      OBVIOUS
    <3> QED BY <3>1, <1>3 DEF GoesOn
  <2> QED BY <2>1
<1> DEFINE F == CHOOSE g : g = [turn \in 0 .. size |-> Turn(g, turn)]
<1>5. Doubled(size) = F
  BY DEF Doubled
<1>6. F = [turn \in 0 .. size |-> Turn(F, turn)]
  <2> HIDE DEF Turn
  <2> QED BY <1>4
<1> HIDE DEF F
<1>7. \A turn \in 0 .. size : F[turn] = f[turn]
  <2> DEFINE Bad == {turn \in 0 .. size : F[turn] # f[turn]}
  <2> SUFFICES ASSUME Bad # {} PROVE FALSE
    OBVIOUS
  <2>1. PICK k \in Bad : \A m \in Bad : k <= m
    <3>1. Bad \subseteq Nat
      OBVIOUS
    <3> HIDE DEF Bad
    <3> QED BY <3>1, LeastOf
  <2>2. k # 0 => k - 1 \in 0 .. size /\ k - 1 \notin Bad
    <3>1. k # 0 => k - 1 \in 0 .. size /\ ~(k <= k - 1)
      OBVIOUS
    <3> HIDE DEF Bad
    <3> QED BY <3>1, <2>1
  <2>3. k # 0 => F[k - 1] = f[k - 1]
    BY <2>2
  <2>4. Turn(F, k) = Turn(f, k)
    BY <2>3
  <2>5. F[k] = Turn(F, k) /\ f[k] = Turn(f, k)
    <3> HIDE DEF Turn
    <3> QED BY <1>4, <1>6
  <2> QED BY <2>4, <2>5
<1>8. F = f
  <2>1. F = [turn \in 0 .. size |-> F[turn]]
    BY <1>6
  <2> QED BY <2>1, <1>7
<1>9. \A turn \in 1 .. size : turn \in 0 .. size /\ turn # 0
  OBVIOUS
<1>10. \A turn \in 0 .. size : f[turn] = Turn(f, turn)
  <2> HIDE DEF Turn
  <2> QED BY <1>4
<1>11. 0 \in 0 .. size
  OBVIOUS
<1> QED BY <1>5, <1>8, <1>9, <1>10, <1>11

\* After size turns there is room for size bytes.
LEMMA DoubledFits ==
  ASSUME BufferAssumption, NEW size \in Nat
  PROVE  Doubled(size)[size] \in Nat /\ Doubled(size)[size] >= size
<1> DEFINE D == Doubled(size)
           Bad == {k \in 0 .. size : ~(D[k] >= size \/ D[k] > k)}
<1>1. /\ D \in [0 .. size -> Nat] /\ D[0] = MIN_BUFFER_SIZE
      /\ \A k \in 1 .. size : D[k] = IF D[k - 1] < size THEN 2 * D[k - 1] ELSE D[k - 1]
  BY DoubledIs
<1>2. MIN_BUFFER_SIZE \in Nat /\ MIN_BUFFER_SIZE > 0
  BY DEF BufferAssumption
<1> HIDE DEF D
<1>3. Bad = {}
  <2> SUFFICES ASSUME Bad # {} PROVE FALSE
    OBVIOUS
  <2>1. PICK k \in Bad : \A m \in Bad : k <= m
    <3>1. Bad \subseteq Nat
      OBVIOUS
    <3> HIDE DEF Bad
    <3> QED BY <3>1, LeastOf
  <2>2. k # 0
    BY <1>1, <1>2
  <2>3. k \in 1 .. size /\ k - 1 \in 0 .. size /\ k - 1 \notin Bad
    BY <2>1, <2>2
  <2>4. D[k - 1] \in Nat /\ (D[k - 1] >= size \/ D[k - 1] > k - 1)
    BY <2>3, <1>1
  <2>5. D[k] = IF D[k - 1] < size THEN 2 * D[k - 1] ELSE D[k - 1]
    BY <2>3, <1>1
  <2>6. ~(D[k] >= size \/ D[k] > k) /\ k \in Nat /\ k > 0
    BY <2>2
  <2> HIDE DEF Bad
  <2> QED BY <2>4, <2>5, <2>6
<1>4. size \in 0 .. size
  OBVIOUS
<1>5. D[size] \in Nat /\ (D[size] >= size \/ D[size] > size)
  BY <1>1, <1>3, <1>4
<1> QED BY <1>5 DEF D

\* A new chunk is empty and has room for what is asked for.
LEMMA NewChunkFits ==
  ASSUME BufferAssumption, NEW n \in Nat
  PROVE  /\ NewChunk(n) \in Chunks /\ NewChunk(n).data = <<>>
         /\ NewChunk(n).misalign = 0 /\ NewChunk(n).cap >= n
<1> DEFINE size == n + BUFFER_CHAIN_SIZE
           toAlloc == IF size < BUFFER_CHAIN_MAX \div 2 THEN Doubled(size)[size] ELSE size
<1>1. BUFFER_CHAIN_SIZE \in Nat /\ size \in Nat
  BY DEF BufferAssumption
<1>2. toAlloc \in Nat /\ toAlloc >= size
  BY <1>1, DoubledFits
<1>3. NewChunk(n) = [cap |-> toAlloc - BUFFER_CHAIN_SIZE, misalign |-> 0, data |-> <<>>]
  BY DEF NewChunk
<1> HIDE DEF toAlloc
<1> QED BY <1>1, <1>2, <1>3 DEF Chunks

-----------------------------------------------------------------------------
(* The bytes of the first chunks of a list.                                *)

\* Bytes that are put together in any order.
LEMMA ThreeParts ==
  ASSUME NEW a \in Seq(Bytes), NEW b \in Seq(Bytes), NEW d \in Seq(Bytes)
  PROVE  (a \o b) \o d = a \o (b \o d)
BY ConcatAssociative

\* What the first i chunks hold is what the first i - 1 hold and the i-th.
LEMMA JoinedIs ==
  ASSUME NEW list \in Seq(Chunks)
  PROVE  /\ Len(list) \in Nat
         /\ Joined(list) \in [0 .. Len(list) -> Seq(Bytes)]
         /\ Joined(list)[0] = <<>>
         /\ \A i \in 1 .. Len(list) : list[i].data \in Seq(Bytes)
         /\ \A i \in 1 .. Len(list) : Joined(list)[i] = Joined(list)[i - 1] \o list[i].data
<1> DEFINE n == Len(list)
           V == Seq(Bytes)
           Next1(f, i) == IF i = 0 THEN <<>> ELSE f[i - 1] \o list[i].data
           step == [p \in (1 .. n) \X V |-> p[2] \o list[p[1]].data]
<1>1. n \in Nat /\ <<>> \in V /\ \A i \in 1 .. n : list[i].data \in V
  <2>1. \A i \in 1 .. n : list[i] \in Chunks
    BY ElementOfSeq
  <2>2. \A i \in 1 .. n : list[i].data \in V
    BY <2>1 DEF Chunks
  <2> QED BY <2>2, LenProperties, EmptySeq
<1>2. step \in [(1 .. n) \X V -> V]
  <2>1. \A p \in (1 .. n) \X V : p[2] \o list[p[1]].data \in V
    <3> SUFFICES ASSUME NEW i \in 1 .. n, NEW v \in V PROVE v \o list[i].data \in V
      OBVIOUS
    <3> QED BY <1>1, ConcatProperties
  <2> QED BY <2>1
<1>3. PICK f \in [0 .. n -> V] : GoesOn(f, <<>>, step, n)
  <2> HIDE DEF step, V, n
  <2> QED BY <1>1, <1>2, Recursion
<1> HIDE DEF V
<1>4. \A i \in 1 .. n : i - 1 \in 0 .. n /\ i # 0 /\ i \in 0 .. n
  BY <1>1
<1>5. \A i \in 1 .. n : f[i] = f[i - 1] \o list[i].data
  <2> SUFFICES ASSUME NEW i \in 1 .. n PROVE f[i] = f[i - 1] \o list[i].data
    OBVIOUS
  <2>1. <<i, f[i - 1]>> \in (1 .. n) \X V
    BY <1>4
  <2>2. f[i] = step[<<i, f[i - 1]>>]
    BY <1>3 DEF GoesOn
  <2> QED BY <2>1, <2>2
<1>6. f[0] = <<>>
  BY <1>3 DEF GoesOn
<1> HIDE DEF step
<1>7. f = [i \in 0 .. n |-> Next1(f, i)]
  <2>1. ASSUME NEW i \in 0 .. n PROVE f[i] = Next1(f, i)
    <3>1. i # 0 => i \in 1 .. n
      BY <1>1
    <3> QED BY <3>1, <1>5, <1>6
  <2> QED BY <2>1
<1> DEFINE F == CHOOSE g : g = [i \in 0 .. n |-> Next1(g, i)]
<1>8. Joined(list) = F
  BY DEF Joined
<1>9. F = [i \in 0 .. n |-> Next1(F, i)]
  <2> HIDE DEF Next1
  <2> QED BY <1>7
<1> HIDE DEF F
<1>10. \A i \in 0 .. n : F[i] = f[i]
  <2> DEFINE Bad == {i \in 0 .. n : F[i] # f[i]}
  <2> SUFFICES ASSUME Bad # {} PROVE FALSE
    OBVIOUS
  <2>1. PICK k \in Bad : \A m \in Bad : k <= m
    <3>1. Bad \subseteq Nat
      BY <1>1
    <3> HIDE DEF Bad
    <3> QED BY <3>1, LeastOf
  <2>2. k # 0 => k - 1 \in 0 .. n /\ k - 1 \notin Bad
    <3>1. k # 0 => k - 1 \in 0 .. n /\ ~(k <= k - 1)
      BY <1>1
    <3> HIDE DEF Bad
    <3> QED BY <3>1, <2>1
  <2>3. k # 0 => F[k - 1] = f[k - 1]
    BY <2>2
  <2>4. Next1(F, k) = Next1(f, k)
    BY <2>3
  <2>5. F[k] = Next1(F, k) /\ f[k] = Next1(f, k)
    <3> HIDE DEF Next1
    <3> QED BY <1>7, <1>9
  <2> QED BY <2>4, <2>5
<1>11. F = f
  <2>1. F = [i \in 0 .. n |-> F[i]]
    <3> HIDE DEF Next1
    <3> QED BY <1>9
  <2> QED BY <2>1, <1>10
<1> QED BY <1>1, <1>5, <1>6, <1>8, <1>11 DEF V

\* Lists that begin with the same data have the same bytes there.
LEMMA JoinedSame ==
  ASSUME NEW list \in Seq(Chunks), NEW other \in Seq(Chunks), NEW n \in Nat,
         n <= Len(list), n <= Len(other), \A i \in 1 .. n : list[i].data = other[i].data
  PROVE  \A i \in 0 .. n : Joined(list)[i] = Joined(other)[i]
<1> DEFINE J == Joined(list)
           K == Joined(other)
           Bad == {i \in 0 .. n : J[i] # K[i]}
<1>1. J[0] = K[0]
  BY JoinedIs
<1>2. \A i \in 1 .. n : J[i] = J[i - 1] \o list[i].data /\ K[i] = K[i - 1] \o other[i].data
  <2>1. \A i \in 1 .. n : i \in 1 .. Len(list) /\ i \in 1 .. Len(other)
    BY LenProperties
  <2> QED BY <2>1, JoinedIs
<1> HIDE DEF J, K
<1> SUFFICES ASSUME Bad # {} PROVE FALSE
  BY DEF J, K
<1>3. PICK k \in Bad : \A m \in Bad : k <= m
  <2>1. Bad \subseteq Nat
    OBVIOUS
  <2> HIDE DEF Bad
  <2> QED BY <2>1, LeastOf
<1>4. k # 0
  BY <1>1
<1>5. k \in 1 .. n /\ k - 1 \in 0 .. n /\ ~(k <= k - 1)
  BY <1>4
<1>6. k - 1 \notin Bad
  <2> HIDE DEF Bad
  <2> QED BY <1>5, <1>3
<1>7. J[k - 1] = K[k - 1]
  BY <1>5, <1>6
<1> QED BY <1>2, <1>5, <1>7

\* q begins with p
Begins(p, q) == Len(p) <= Len(q) /\ \A x \in 1 .. Len(p) : q[x] = p[x]

\* It still does when something is added.
LEMMA BeginsStill ==
  ASSUME NEW p \in Seq(Bytes), NEW q \in Seq(Bytes), NEW b \in Seq(Bytes), Begins(p, q)
  PROVE  Begins(p, q \o b)
<1>1. /\ Len(q \o b) = Len(q) + Len(b)
      /\ \A x \in 1 .. Len(q) + Len(b) : (q \o b)[x] = IF x <= Len(q) THEN q[x] ELSE b[x - Len(q)]
  BY ConcatProperties
<1>2. Len(p) \in Nat /\ Len(q) \in Nat /\ Len(b) \in Nat
  BY LenProperties
<1> DEFINE r == q \o b
<1> HIDE DEF r
<1>3. Len(p) <= Len(r) /\ \A x \in 1 .. Len(p) : r[x] = p[x]
  BY <1>1, <1>2 DEF Begins, r
<1> QED BY <1>3 DEF Begins, r

\* More chunks hold no fewer bytes, and the same at the front.
LEMMA JoinedGrows ==
  ASSUME NEW list \in Seq(Chunks), NEW i \in 0 .. Len(list), NEW j \in i .. Len(list)
  PROVE  Begins(Joined(list)[i], Joined(list)[j])
<1> DEFINE J == Joined(list)
           Ok(k) == Begins(J[i], J[k])
           Bad == {k \in i .. Len(list) : ~Ok(k)}
<1>1. /\ Len(list) \in Nat /\ J \in [0 .. Len(list) -> Seq(Bytes)]
      /\ \A k \in 1 .. Len(list) : J[k] = J[k - 1] \o list[k].data
      /\ \A k \in 1 .. Len(list) : list[k].data \in Seq(Bytes)
  BY JoinedIs
<1> HIDE DEF J
<1> SUFFICES ASSUME Bad # {} PROVE FALSE
  BY DEF J
<1>2. PICK k \in Bad : \A m \in Bad : k <= m
  <2>1. Bad \subseteq Nat
    BY <1>1
  <2> HIDE DEF Bad
  <2> QED BY <2>1, LeastOf
<1>3. Len(J[i]) \in Nat
  BY <1>1, LenProperties
<1>4. k # i
  BY <1>3 DEF Begins
<1>5. k \in 1 .. Len(list) /\ k - 1 \in i .. Len(list) /\ ~(k <= k - 1) /\ k - 1 \in 0 .. Len(list)
  BY <1>1, <1>4
<1>6. Ok(k - 1)
  <2>1. k - 1 \notin Bad
    <3> HIDE DEF Bad
    <3> QED BY <1>5, <1>2
  <2> HIDE DEF Ok
  <2> QED BY <1>5, <2>1
<1>7. J[k - 1] \in Seq(Bytes) /\ list[k].data \in Seq(Bytes)
  BY <1>1, <1>5
<1>8. Ok(k)
  <2> DEFINE q == J[k - 1]
  <2>1. q \in Seq(Bytes) /\ Begins(J[i], q) /\ J[i] \in Seq(Bytes)
    BY <1>1, <1>6, <1>7 DEF Begins
  <2>2. J[k] = q \o list[k].data
    BY <1>1, <1>5
  <2> HIDE DEF q
  <2>3. Begins(J[i], q \o list[k].data)
    BY <1>7, <2>1, BeginsStill
  <2> QED BY <2>2, <2>3 DEF Begins
<1> QED BY <1>8

\* The data of a chunk that is put behind comes behind.
LEMMA ContentsAppend ==
  ASSUME NEW list \in Seq(Chunks), NEW c \in Chunks
  PROVE  Contents(Append(list, c)) = Contents(list) \o c.data
<1> DEFINE more == Append(list, c)
           n == Len(list)
<1>1. /\ more \in Seq(Chunks) /\ Len(more) = n + 1 /\ n \in Nat
      /\ \A i \in 1 .. n : more[i] = list[i]
      /\ more[n + 1] = c
  BY AppendProperties, LenProperties
<1> HIDE DEF more
<1>2. Joined(more)[n] = Joined(list)[n]
  <2>1. \A i \in 0 .. n : Joined(list)[i] = Joined(more)[i]
    BY <1>1, JoinedSame
  <2> QED BY <1>1, <2>1
<1>3. Joined(more)[n + 1] = Joined(more)[n] \o c.data
  <2>1. n + 1 \in 1 .. Len(more) /\ (n + 1) - 1 = n
    BY <1>1
  <2> QED BY <1>1, <2>1, JoinedIs
<1> QED BY <1>1, <1>2, <1>3 DEF Contents, more

\* So does data that is put into the last chunk.
LEMMA ContentsFill ==
  ASSUME NEW list \in Seq(Chunks), list # <<>>, NEW c \in Chunks, NEW d \in Seq(Bytes),
         c.data = list[Len(list)].data \o d
  PROVE  Contents([list EXCEPT ![Len(list)] = c]) = Contents(list) \o d
<1> DEFINE n == Len(list)
           other == [list EXCEPT ![n] = c]
<1>1. /\ other \in Seq(Chunks) /\ Len(other) = n /\ n \in Nat \ {0} /\ n \in 1 .. n
      /\ \A i \in 1 .. n - 1 : other[i] = list[i]
      /\ other[n] = c
  BY ExceptSeq, LenProperties, EmptySeq
<1> HIDE DEF other
<1>2. Joined(other)[n - 1] = Joined(list)[n - 1]
  <2>1. n - 1 \in Nat /\ n - 1 <= n /\ n - 1 \in 0 .. n - 1
    BY <1>1
  <2>2. \A i \in 0 .. n - 1 : Joined(list)[i] = Joined(other)[i]
    BY <1>1, <2>1, JoinedSame
  <2> QED BY <2>1, <2>2
<1>3. /\ Joined(other)[n] = Joined(other)[n - 1] \o c.data
      /\ Joined(list)[n] = Joined(list)[n - 1] \o list[n].data
      /\ Joined(list)[n - 1] \in Seq(Bytes) /\ list[n].data \in Seq(Bytes)
  <2>1. n - 1 \in 0 .. Len(list) /\ n \in 1 .. Len(other)
    BY <1>1
  <2>2. Joined(other)[n] = Joined(other)[n - 1] \o other[n].data
    BY <1>1, <2>1, JoinedIs
  <2>3. /\ Joined(list)[n] = Joined(list)[n - 1] \o list[n].data
        /\ Joined(list)[n - 1] \in Seq(Bytes) /\ list[n].data \in Seq(Bytes)
    BY <1>1, <2>1, JoinedIs
  <2> QED BY <1>1, <2>2, <2>3
<1>4. \A a, b \in Seq(Bytes) : (a \o b) \o d = a \o (b \o d)
  BY ThreeParts
<1> QED BY <1>1, <1>2, <1>3, <1>4 DEF Contents, other

-----------------------------------------------------------------------------
(* Adding.                                                                 *)

\* The greater of two numbers, and the lesser.
LEMMA MaxOfTwo ==
  ASSUME NEW a \in Nat, NEW b \in Nat
  PROVE  /\ Max({a, b}) = IF a >= b THEN a ELSE b
         /\ Min({a, b}) = IF a <= b THEN a ELSE b
<1>1. \A x \in {a, b} : (\A y \in {a, b} : x >= y) => x = IF a >= b THEN a ELSE b
  OBVIOUS
<1>2. \E x \in {a, b} : \A y \in {a, b} : x >= y
  OBVIOUS
<1>3. \A x \in {a, b} : (\A y \in {a, b} : x <= y) => x = IF a <= b THEN a ELSE b
  OBVIOUS
<1>4. \E x \in {a, b} : \A y \in {a, b} : x <= y
  OBVIOUS
<1>5. Max({a, b}) = IF a >= b THEN a ELSE b
  BY <1>1, <1>2 DEF Max
<1>6. Min({a, b}) = IF a <= b THEN a ELSE b
  BY <1>3, <1>4 DEF Min
<1> QED BY <1>5, <1>6

\* Where last_with_datap leads to.
LEMMA LastChunk ==
  ASSUME NEW n \in Nat
  PROVE  Max({1, n}) = IF n = 0 THEN 1 ELSE n
BY MaxOfTwo

\* The chunks of a list: their data lies in their memory, and none is empty but an only one.
Sound(list) ==
  /\ list \in Seq(Chunks)
  /\ \A i \in 1 .. Len(list) : Room(list[i]) >= 0
  /\ Len(list) > 1 => \A i \in 1 .. Len(list) : list[i].data # <<>>

\* The last chunk gets more data.
LEMMA FillLast ==
  ASSUME NEW list, Sound(list), list # <<>>, NEW c \in Chunks, NEW d \in Seq(Bytes),
         c.data = list[Len(list)].data \o d, Room(c) >= 0
  PROVE  /\ Sound([list EXCEPT ![Len(list)] = c])
         /\ Len([list EXCEPT ![Len(list)] = c]) = Len(list)
         /\ Contents([list EXCEPT ![Len(list)] = c]) = Contents(list) \o d
<1> DEFINE n == Len(list)
           other == [list EXCEPT ![n] = c]
<1>1. list \in Seq(Chunks) /\ n \in Nat \ {0}
  BY LenProperties, EmptySeq DEF Sound
<1>2. /\ other \in Seq(Chunks) /\ Len(other) = n
      /\ \A i \in 1 .. n : other[i] = IF i = n THEN c ELSE list[i]
  BY <1>1, ExceptSeq
<1>3. Contents(other) = Contents(list) \o d
  BY <1>1, ContentsFill
<1>4. \A i \in 1 .. Len(other) : Room(other[i]) >= 0
  BY <1>2 DEF Sound
<1>5. ASSUME Len(other) > 1, NEW i \in 1 .. Len(other) PROVE other[i].data # <<>>
  <2>1. list[i].data # <<>> /\ list[n].data # <<>>
    BY <1>1, <1>2, <1>5 DEF Sound
  <2>2. list[n].data \in Seq(Bytes)
    <3>1. n \in 1 .. Len(list)
      BY <1>1
    <3> QED BY <1>1, <3>1, JoinedIs
  <2>3. list[n].data \o d # <<>>
    BY <2>1, <2>2, ConcatEqualIffEmpty
  <2> QED BY <1>2, <2>1, <2>3
<1>6. Sound(other)
  <2> HIDE DEF other
  <2> QED BY <1>2, <1>4, <1>5 DEF Sound
<1> QED BY <1>2, <1>3, <1>6

\* A chunk with data is put behind chunks with data.
LEMMA PutBehind ==
  ASSUME NEW list, Sound(list), \A i \in 1 .. Len(list) : list[i].data # <<>>,
         NEW c \in Chunks, c.data # <<>>, Room(c) >= 0
  PROVE  /\ Sound(Append(list, c)) /\ Len(Append(list, c)) = Len(list) + 1
         /\ Contents(Append(list, c)) = Contents(list) \o c.data
<1> DEFINE more == Append(list, c)
<1>1. list \in Seq(Chunks) /\ Len(list) \in Nat
  BY LenProperties DEF Sound
<1>2. /\ more \in Seq(Chunks) /\ Len(more) = Len(list) + 1
      /\ \A i \in 1 .. Len(list) : more[i] = list[i]
      /\ more[Len(list) + 1] = c
  BY <1>1, AppendProperties
<1>3. Contents(more) = Contents(list) \o c.data
  BY <1>1, ContentsAppend
<1> HIDE DEF more
<1>4. \A i \in 1 .. Len(more) : i \in 1 .. Len(list) \/ i = Len(list) + 1
  BY <1>1, <1>2
<1>5. \A i \in 1 .. Len(more) : Room(more[i]) >= 0 /\ more[i].data # <<>>
  BY <1>2, <1>4 DEF Sound
<1>6. Sound(more)
  BY <1>2, <1>5 DEF Sound
<1> QED BY <1>2, <1>3, <1>6 DEF more

\* The contents of no chunk and of one.
LEMMA ContentsFew ==
  /\ Contents(<<>>) = <<>>
  /\ \A c \in Chunks : Contents(<<c>>) = c.data
<1>1. <<>> \in Seq(Chunks) /\ Len(<<>>) = 0
  BY EmptySeq
<1>2. Contents(<<>>) = <<>>
  BY <1>1, JoinedIs DEF Contents
<1>3. ASSUME NEW c \in Chunks PROVE Contents(<<c>>) = c.data
  <2>1. Append(<<>>, c) = <<c>>
    OBVIOUS
  <2>2. Contents(Append(<<>>, c)) = <<>> \o c.data
    BY <1>1, <1>2, ContentsAppend
  <2>3. c.data \in Seq(Bytes)
    BY DEF Chunks
  <2> QED BY <2>1, <2>2, <2>3, ConcatEmptySeq
<1> QED BY <1>2, <1>3

\* The list that buffer_add works on.
LEMMA OpenSound ==
  ASSUME BufferAssumption, TypeOK, ChainShape, NEW n \in Nat
  PROVE  /\ Sound(Open(n)) /\ Open(n) # <<>> /\ Len(Open(n)) = lastData
         /\ Contents(Open(n)) = Flat
<1>1. chain \in Seq(Chunks) /\ Len(chain) \in Nat /\ DOMAIN chain = 1 .. Len(chain)
  BY LenProperties DEF TypeOK
<1>2. CASE chain = <<>>
  <2> DEFINE c == NewChunk(n)
  <2>1. c \in Chunks /\ c.data = <<>> /\ c.misalign = 0 /\ c.cap >= n /\ c.cap \in Nat
    BY NewChunkFits DEF Chunks
  <2>2. Open(n) = <<c>>
    BY <1>2 DEF Open
  <2> HIDE DEF c
  <2>3. Room(c) >= 0
    BY <2>1, EmptySeq DEF Room
  <2>4. <<c>> \in Seq(Chunks) /\ Len(<<c>>) = 1 /\ <<c>>[1] = c /\ <<c>> # <<>>
    BY <2>1
  <2>5. Sound(<<c>>)
    BY <2>3, <2>4 DEF Sound
  <2>6. Contents(<<c>>) = Flat
    BY <1>2, <2>1, ContentsFew DEF Flat
  <2>7. lastData = 1
    <3>1. Len(chain) = 0
      BY <1>2
    <3> QED BY <3>1, LastChunk DEF ChainShape
  <2> QED BY <2>2, <2>4, <2>5, <2>6, <2>7
<1>3. CASE chain # <<>>
  <2>1. Open(n) = chain
    BY <1>3 DEF Open
  <2>2. Len(chain) # 0
    BY <1>1, <1>3, EmptySeq
  <2>3. lastData = Len(chain)
    BY <1>1, <2>2, LastChunk DEF ChainShape
  <2>4. Sound(chain)
    BY <1>1 DEF ChainShape, Sound
  <2> QED BY <1>3, <2>1, <2>3, <2>4 DEF Flat
<1> QED BY <1>2, <1>3

\* What a step of buffer_add makes of the list.
Adds(d) ==
  /\ Sound(chain') /\ chain' # <<>> /\ lastData' = Len(chain')
  /\ Contents(chain') = Flat \o d

\* The data fits, as it is or after the chunk is realigned.
LEMMA InPlaceAdds ==
  ASSUME BufferAssumption, TypeOK, ChainShape, NEW d \in Seq(Bytes),
         AddInPlace(d), UNCHANGED lastData
  PROVE  Adds(d)
<1> DEFINE list == Open(Len(d))
           c == list[lastData]
<1>1. Len(d) \in Nat
  BY LenProperties
<1>2. /\ Sound(list) /\ list # <<>> /\ Len(list) = lastData /\ Contents(list) = Flat
      /\ list \in Seq(Chunks) /\ lastData \in 1 .. Len(list)
  <2>1. Sound(list) /\ list # <<>> /\ Len(list) = lastData /\ Contents(list) = Flat
    BY <1>1, OpenSound
  <2>2. list \in Seq(Chunks)
    BY <2>1 DEF Sound
  <2>3. Len(list) \in Nat \ {0}
    BY <2>1, <2>2, EmptySeq
  <2> QED BY <2>1, <2>2, <2>3
<1>3. PICK e \in {c, Align(c)} : /\ e = c => Room(c) >= Len(d)
                                 /\ e # c => ShouldRealign(c, Len(d))
                                 /\ chain' = [list EXCEPT ![lastData] = Fill(e, d)]
  <2>1. CASE Room(c) >= Len(d) /\ chain' = [list EXCEPT ![lastData] = Fill(c, d)]
    BY <2>1
  <2>2. CASE ShouldRealign(c, Len(d)) /\ chain' = [list EXCEPT ![lastData] = Fill(Align(c), d)]
             /\ Align(c) # c
    BY <2>2
  <2>3. CASE Room(c) < Len(d) /\ ShouldRealign(c, Len(d)) /\ Align(c) = c
    <3>1. c \in Chunks
      BY <1>2, ElementOfSeq
    <3>2. c.misalign = 0
      BY <2>3, <3>1 DEF Align, Chunks
    <3>3. Len(c.data) \in Nat
      BY <3>1, LenProperties DEF Chunks
    <3> QED BY <1>1, <2>3, <3>1, <3>2, <3>3 DEF Room, ShouldRealign, Chunks
  <2> QED BY <2>1, <2>2, <2>3 DEF AddInPlace
<1> HIDE DEF list
<1>4. c \in Chunks /\ Len(c.data) \in Nat /\ c.data \in Seq(Bytes)
  <2>1. c \in Chunks
    BY <1>2, ElementOfSeq
  <2> QED BY <2>1, LenProperties DEF Chunks
<1>5. /\ e.data = c.data /\ e \in Chunks /\ Room(e) >= Len(d)
      /\ e.cap \in Nat /\ e.misalign \in Nat
  <2>1. CASE e = c
    BY <2>1, <1>3, <1>4 DEF Chunks
  <2>2. CASE e # c
    <3>1. e = Align(c) /\ ShouldRealign(c, Len(d))
      BY <2>2, <1>3
    <3>2. e \in Chunks /\ e.data = c.data /\ e.misalign = 0 /\ e.cap = c.cap /\ e.cap \in Nat
      BY <3>1, <1>4 DEF Align, Chunks
    <3>3. Room(e) >= Len(d)
      BY <3>1, <3>2, <1>1, <1>4 DEF ShouldRealign, Room
    <3> QED BY <3>2, <3>3
  <2> QED BY <2>1, <2>2
<1> DEFINE f == Fill(e, d)
<1>6. /\ f \in Chunks /\ f.data = c.data \o d /\ Room(f) = Room(e) - Len(d) /\ Room(e) \in Int
  <2>1. c.data \o d \in Seq(Bytes) /\ Len(c.data \o d) = Len(c.data) + Len(d)
    BY <1>4, ConcatProperties
  <2>2. f.cap = e.cap /\ f.misalign = e.misalign /\ f.data = c.data \o d /\ f \in Chunks
    BY <1>5, <2>1 DEF Fill, Chunks
  <2> HIDE DEF f, c
  <2>3. Room(f) = e.cap - e.misalign - (Len(c.data) + Len(d))
    BY <2>1, <2>2 DEF Room
  <2>4. Room(e) = e.cap - e.misalign - Len(c.data)
    BY <1>5 DEF Room
  <2> QED BY <1>1, <1>4, <1>5, <2>2, <2>3, <2>4
<1> HIDE DEF f
<1>7. Room(f) >= 0
  BY <1>1, <1>5, <1>6
<1>8. /\ Sound([list EXCEPT ![Len(list)] = f])
      /\ Len([list EXCEPT ![Len(list)] = f]) = Len(list)
      /\ Contents([list EXCEPT ![Len(list)] = f]) = Contents(list) \o d
  BY <1>2, <1>6, <1>7, FillLast
<1>9. chain' = [list EXCEPT ![Len(list)] = f]
  BY <1>2, <1>3 DEF f
<1>10. chain' # <<>>
  BY <1>2, <1>8, <1>9
<1> QED BY <1>2, <1>8, <1>9, <1>10 DEF Adds

\* The last chunk is filled and a new one put behind it, for the rest.
LEMMA ChunkAdds ==
  ASSUME BufferAssumption, TypeOK, ChainShape, NEW d \in Seq(Bytes), AddChunk(d)
  PROVE  Adds(d)
<1> DEFINE list == Open(Len(d))
           c == list[lastData]
           size == ToAlloc(c, Len(d))
           d1 == SubSeq(d, 1, Room(c))
           d2 == SubSeq(d, Room(c) + 1, Len(d))
           f == Fill(c, d1)
           full == [list EXCEPT ![lastData] = f]
           e == Fill(NewChunk(size), d2)
<1>0. Len(d) \in Nat
  BY LenProperties
<1>1. Room(c) < Len(d) /\ chain' = Append(Kept(full), e) /\ lastData' = Len(chain')
  BY DEF AddChunk
<1>2. /\ Sound(list) /\ list # <<>> /\ Len(list) = lastData /\ Contents(list) = Flat
      /\ list \in Seq(Chunks) /\ lastData \in 1 .. Len(list) /\ lastData \in Nat
  <2>1. Sound(list) /\ list # <<>> /\ Len(list) = lastData /\ Contents(list) = Flat
    BY <1>0, OpenSound
  <2>2. list \in Seq(Chunks)
    BY <2>1 DEF Sound
  <2>3. Len(list) \in Nat \ {0}
    BY <2>1, <2>2, EmptySeq
  <2> QED BY <2>1, <2>2, <2>3
<1> HIDE DEF list
<1>3. /\ c \in Chunks /\ Len(c.data) \in Nat /\ c.data \in Seq(Bytes)
      /\ c.cap \in Nat /\ c.misalign \in Nat /\ Room(c) \in Nat
  <2>1. c \in Chunks
    BY <1>2, ElementOfSeq
  <2>2. Len(c.data) \in Nat /\ c.data \in Seq(Bytes) /\ c.cap \in Nat /\ c.misalign \in Nat
    BY <2>1, LenProperties DEF Chunks
  <2>3. Room(c) >= 0
    BY <1>2 DEF Sound
  <2> QED BY <2>1, <2>2, <2>3 DEF Room
<1>4. /\ d1 \in Seq(Bytes) /\ d2 \in Seq(Bytes) /\ d1 \o d2 = d
      /\ Len(d1) = Room(c) /\ Len(d2) = Len(d) - Room(c)
  <2> DEFINE m == Room(c)
  <2>1. m \in 0 .. Len(d) /\ m \in Nat
    BY <1>0, <1>1, <1>3
  <2> HIDE DEF m
  <2>2. SubSeq(d, 1, m) \o SubSeq(d, m + 1, Len(d)) = SubSeq(d, 1, Len(d))
    <3>1. 1 \in 1 .. Len(d) + 1 /\ m \in 1 - 1 .. Len(d) /\ Len(d) \in m .. Len(d)
      BY <1>0, <2>1
    <3> QED BY <3>1, ConcatAdjacentSubSeq
  <2>3. SubSeq(d, 1, Len(d)) = d
    BY SubSeqFull
  <2>4. SubSeq(d, 1, m) \in Seq(Bytes) /\ Len(SubSeq(d, 1, m)) = m
    <3>1. \A i \in 1 .. m : d[i] \in Bytes
      BY <1>0, <2>1, ElementOfSeq
    <3>2. /\ SubSeq(d, 1, m) \in Seq(Bytes)
          /\ Len(SubSeq(d, 1, m)) = IF 1 <= m THEN m - 1 + 1 ELSE 0
      BY <2>1, <3>1, SubSeqProperties
    <3> QED BY <2>1, <3>2
  <2>5. SubSeq(d, m + 1, Len(d)) \in Seq(Bytes) /\ Len(SubSeq(d, m + 1, Len(d))) = Len(d) - m
    <3>1. \A i \in m + 1 .. Len(d) : d[i] \in Bytes
      BY <1>0, <2>1, ElementOfSeq
    <3>2. /\ SubSeq(d, m + 1, Len(d)) \in Seq(Bytes)
          /\ Len(SubSeq(d, m + 1, Len(d))) = IF m + 1 <= Len(d) THEN Len(d) - (m + 1) + 1 ELSE 0
      BY <1>0, <2>1, <3>1, SubSeqProperties
    <3> QED BY <1>0, <2>1, <3>2
  <2> QED BY <2>2, <2>3, <2>4, <2>5 DEF m
<1> HIDE DEF d1, d2
<1>5. f \in Chunks /\ f.data = c.data \o d1 /\ Room(f) = 0
  <2>1. c.data \o d1 \in Seq(Bytes) /\ Len(c.data \o d1) = Len(c.data) + Len(d1)
    BY <1>3, <1>4, ConcatProperties
  <2>2. f.cap = c.cap /\ f.misalign = c.misalign /\ f.data = c.data \o d1 /\ f \in Chunks
    BY <1>3, <2>1 DEF Fill, Chunks
  <2>3. Room(f) = c.cap - c.misalign - (Len(c.data) + Room(c))
    BY <1>4, <2>1, <2>2 DEF Room
  <2>4. Room(c) = c.cap - c.misalign - Len(c.data)
    BY DEF Room
  <2> HIDE DEF f, c
  <2>5. Room(f) = 0
    <3> DEFINE room == Room(c)
               len == Len(c.data)
               cap == c.cap
               off == c.misalign
    <3>1. room \in Nat /\ len \in Nat /\ cap \in Nat /\ off \in Nat
      BY <1>3
    <3>2. Room(f) = cap - off - (len + room) /\ room = cap - off - len
      BY <2>3, <2>4
    <3> HIDE DEF room, len, cap, off
    <3> QED BY <3>1, <3>2
  <2> QED BY <2>2, <2>5
<1> HIDE DEF f
<1>6. /\ Sound(full) /\ Len(full) = Len(list) /\ Contents(full) = Contents(list) \o d1
  <2>1. c = list[Len(list)] /\ full = [list EXCEPT ![Len(list)] = f] /\ Room(f) >= 0
    BY <1>2, <1>5
  <2> HIDE DEF c, full
  <2>2. f.data = list[Len(list)].data \o d1
    BY <1>5, <2>1
  <2> QED BY <1>2, <1>4, <1>5, <2>1, <2>2, FillLast
<1>7. full[lastData] = f /\ full \in Seq(Chunks)
  BY <1>2, <1>6 DEF Sound
<1> HIDE DEF full
<1>8. /\ Sound(Kept(full)) /\ Contents(Kept(full)) = Contents(full)
      /\ \A i \in 1 .. Len(Kept(full)) : Kept(full)[i].data # <<>>
  <2> DEFINE empty == {i \in lastData .. Len(full) : full[i].data = <<>>}
  <2>1. Kept(full) = IF empty = {} THEN full ELSE SubSeq(full, 1, Min(empty) - 1)
    BY DEF Kept
  <2>2. lastData .. Len(full) = {lastData}
    BY <1>2, <1>6
  <2>3. CASE f.data # <<>>
    <3>1. empty = {}
      BY <1>7, <2>2, <2>3
    <3>2. Kept(full) = full
      BY <2>1, <3>1
    <3>3. \A i \in 1 .. Len(full) : full[i].data # <<>>
      <4>1. CASE Len(full) > 1
        BY <1>6, <4>1 DEF Sound
      <4>2. CASE ~(Len(full) > 1)
        BY <1>2, <1>6, <1>7, <2>3, <4>2
      <4> QED BY <4>1, <4>2
    <3> QED BY <1>6, <3>2, <3>3
  <2>4. CASE f.data = <<>>
    <3>1. empty = {lastData}
      BY <1>7, <2>2, <2>4
    <3>2. Min(empty) = lastData
      <4>1. empty = {lastData, lastData}
        BY <3>1
      <4> HIDE DEF empty
      <4> QED BY <1>2, <4>1, MaxOfTwo
    <3>3. lastData = 1
      <4>1. ~(Len(full) > 1)
        BY <1>2, <1>6, <1>7, <2>4 DEF Sound
      <4> QED BY <1>2, <1>6, <4>1
    <3>4. Kept(full) = <<>>
      <4>1. Kept(full) = SubSeq(full, 1, 0)
        <5>1. empty # {} /\ Min(empty) - 1 = 0
          BY <3>1, <3>2, <3>3
        <5> HIDE DEF empty
        <5> QED BY <2>1, <5>1
      <4> QED BY <4>1, SubSeqEmpty
    <3>5. full = <<f>>
      BY <1>2, <1>6, <1>7, <3>3
    <3>6. Contents(full) = <<>>
      BY <1>5, <2>4, <3>5, ContentsFew
    <3>7. Sound(<<>>)
      BY EmptySeq DEF Sound
    <3> QED BY <3>4, <3>6, <3>7, ContentsFew
  <2> QED BY <2>3, <2>4
<1>9. e \in Chunks /\ e.data = d2 /\ e.data # <<>> /\ Room(e) >= 0
  <2>1. size \in Nat /\ size >= Len(d)
    <3>1. (IF c.cap <= BUFFER_CHAIN_MAX_AUTO_SIZE \div 2 THEN 2 * c.cap ELSE c.cap) \in Nat
      BY <1>3
    <3>2. size = Max({Len(d), IF c.cap <= BUFFER_CHAIN_MAX_AUTO_SIZE \div 2
                                THEN 2 * c.cap ELSE c.cap})
      BY DEF ToAlloc
    <3> DEFINE other == IF c.cap <= BUFFER_CHAIN_MAX_AUTO_SIZE \div 2 THEN 2 * c.cap ELSE c.cap
    <3> HIDE DEF other
    <3>3. other \in Nat /\ size = Max({Len(d), other})
      BY <3>1, <3>2 DEF other
    <3>4. size = IF Len(d) >= other THEN Len(d) ELSE other
      BY <1>0, <3>3, MaxOfTwo
    <3> HIDE DEF size
    <3> QED BY <1>0, <3>3, <3>4
  <2> DEFINE b == NewChunk(size)
  <2> HIDE DEF size
  <2>2. b \in Chunks /\ b.data = <<>> /\ b.misalign = 0 /\ b.cap >= size
    BY <2>1, NewChunkFits
  <2> HIDE DEF b
  <2>3. b.cap \in Nat /\ <<>> \o d2 = d2
    BY <1>4, <2>2, ConcatEmptySeq DEF Chunks
  <2>4. e = [b EXCEPT !.data = @ \o d2]
    BY DEF Fill, b
  <2>5. e \in Chunks /\ e.data = d2 /\ e.misalign = 0 /\ e.cap = b.cap
    BY <1>4, <2>2, <2>3, <2>4 DEF Chunks
  <2>6. Len(d2) > 0 /\ Len(d2) <= Len(d)
    BY <1>0, <1>1, <1>3, <1>4
  <2>7. Room(e) >= 0
    <3>1. Room(e) = b.cap - 0 - Len(d2)
      BY <2>5 DEF Room
    <3>2. Len(d2) \in Nat
      BY <1>4, LenProperties
    <3> HIDE DEF e, c
    <3> QED BY <1>0, <2>1, <2>2, <2>3, <2>6, <3>1, <3>2
  <2>8. d2 # <<>>
    BY <2>6
  <2> QED BY <2>5, <2>7, <2>8
<1> HIDE DEF e
<1>10. /\ Sound(chain') /\ Len(chain') = Len(Kept(full)) + 1
       /\ Contents(chain') = Contents(full) \o d2
  BY <1>1, <1>8, <1>9, PutBehind
<1>11. Contents(chain') = Flat \o d
  <2>1. Flat \in Seq(Bytes)
    <3>1. Len(list) \in 0 .. Len(list)
      BY <1>2
    <3>2. Contents(list) \in Seq(Bytes)
      BY <1>2, <3>1, JoinedIs DEF Contents
    <3> QED BY <1>2, <3>2
  <2>2. (Flat \o d1) \o d2 = Flat \o (d1 \o d2)
    BY <1>4, <2>1, ThreeParts
  <2> QED BY <1>2, <1>4, <1>6, <1>10, <2>2
<1>12. chain' # <<>>
  <2>1. Len(Kept(full)) \in Nat
    BY <1>8, LenProperties DEF Sound
  <2>2. Len(chain') # 0
    BY <1>10, <2>1
  <2> QED BY <2>2
<1> QED BY <1>1, <1>10, <1>11, <1>12 DEF Adds

-----------------------------------------------------------------------------
(* Draining.                                                               *)

\* what is left of s without its first n bytes
Rest(s, n) == SubSeq(s, n + 1, Len(s))

\* Its length and its bytes.
LEMMA RestIs ==
  ASSUME NEW s \in Seq(Bytes), NEW n \in 0 .. Len(s)
  PROVE  /\ Rest(s, n) \in Seq(Bytes) /\ Len(Rest(s, n)) = Len(s) - n
         /\ \A i \in 1 .. Len(s) - n : Rest(s, n)[i] = s[n + i]
<1>1. Len(s) \in Nat /\ n \in Nat /\ n <= Len(s)
  BY LenProperties
<1>2. \A i \in n + 1 .. Len(s) : s[i] \in Bytes
  <2>1. \A i \in n + 1 .. Len(s) : i \in 1 .. Len(s)
    BY <1>1
  <2> QED BY <2>1, ElementOfSeq
<1>3. /\ Rest(s, n) \in Seq(Bytes)
      /\ Len(Rest(s, n)) = IF n + 1 <= Len(s) THEN Len(s) - (n + 1) + 1 ELSE 0
      /\ \A i \in 1 .. Len(s) - (n + 1) + 1 : Rest(s, n)[i] = s[(n + 1) + i - 1]
  BY <1>1, <1>2, SubSeqProperties DEF Rest
<1>4. Len(s) - (n + 1) + 1 = Len(s) - n
  BY <1>1
<1>5. \A i \in 1 .. Len(s) - n : (n + 1) + i - 1 = n + i
  BY <1>1
<1>6. Len(Rest(s, n)) = Len(s) - n
  BY <1>1, <1>3
<1> QED BY <1>3, <1>4, <1>5, <1>6

\* Nothing, and all, is left.
LEMMA RestEnds ==
  ASSUME NEW s \in Seq(Bytes)
  PROVE  Rest(s, 0) = s /\ Rest(s, Len(s)) = <<>>
<1>1. Len(s) \in Nat
  BY LenProperties
<1>2. Rest(s, 0) = s
  BY SubSeqFull DEF Rest
<1>3. Len(Rest(s, Len(s))) = 0 /\ Rest(s, Len(s)) \in Seq(Bytes)
  BY <1>1, RestIs
<1> QED BY <1>2, <1>3, EmptySeq

\* What is put behind stays behind.
LEMMA RestOfFirst ==
  ASSUME NEW a \in Seq(Bytes), NEW b \in Seq(Bytes), NEW n \in 0 .. Len(a)
  PROVE  Rest(a \o b, n) = Rest(a, n) \o b
<1> DEFINE ab == a \o b
           l == Rest(ab, n)
           p == Rest(a, n)
           r == p \o b
<1>1. Len(a) \in Nat /\ Len(b) \in Nat /\ n \in Nat /\ n <= Len(a)
  BY LenProperties
<1>2. /\ ab \in Seq(Bytes) /\ Len(ab) = Len(a) + Len(b)
      /\ \A i \in 1 .. Len(a) + Len(b) : ab[i] = IF i <= Len(a) THEN a[i] ELSE b[i - Len(a)]
  BY ConcatProperties
<1>3. /\ p \in Seq(Bytes) /\ Len(p) = Len(a) - n
      /\ \A i \in 1 .. Len(a) - n : p[i] = a[n + i]
  BY RestIs
<1> HIDE DEF p
<1>4. /\ r \in Seq(Bytes) /\ Len(r) = (Len(a) - n) + Len(b)
      /\ \A i \in 1 .. (Len(a) - n) + Len(b) :
           r[i] = IF i <= Len(a) - n THEN p[i] ELSE b[i - (Len(a) - n)]
  <2>1. /\ r \in Seq(Bytes) /\ Len(r) = Len(p) + Len(b)
        /\ \A i \in 1 .. Len(p) + Len(b) :
             r[i] = IF i <= Len(p) THEN p[i] ELSE b[i - Len(p)]
    BY <1>3, ConcatProperties
  <2> QED BY <1>3, <2>1
<1> HIDE DEF ab
<1>0. n \in 0 .. Len(ab)
  BY <1>1, <1>2
<1>5. /\ l \in Seq(Bytes) /\ Len(l) = Len(ab) - n
      /\ \A i \in 1 .. Len(ab) - n : l[i] = ab[n + i]
  BY <1>0, <1>2, RestIs
<1> HIDE DEF l, r
<1>6. Len(l) = Len(r)
  BY <1>1, <1>2, <1>4, <1>5
<1>7. ASSUME NEW i \in 1 .. Len(l) PROVE l[i] = r[i]
  <2>1. i \in Nat /\ i >= 1 /\ i <= (Len(a) - n) + Len(b)
    BY <1>1, <1>2, <1>5
  <2>2. l[i] = IF n + i <= Len(a) THEN a[n + i] ELSE b[n + i - Len(a)]
    <3>1. i \in 1 .. Len(ab) - n /\ n + i \in 1 .. Len(a) + Len(b)
      BY <1>1, <1>2, <2>1
    <3>2. l[i] = ab[n + i]
      BY <1>5, <3>1
    <3> QED BY <1>2, <3>1, <3>2
  <2>3. CASE n + i <= Len(a)
    <3>1. i \in 1 .. Len(a) - n /\ i \in 1 .. (Len(a) - n) + Len(b) /\ i <= Len(a) - n
      BY <1>1, <2>1, <2>3
    <3> QED BY <1>3, <1>4, <2>2, <2>3, <3>1
  <2>4. CASE ~(n + i <= Len(a))
    <3>1. /\ ~(i <= Len(a) - n) /\ n + i - Len(a) = i - (Len(a) - n)
          /\ i \in 1 .. (Len(a) - n) + Len(b)
      BY <1>1, <2>1, <2>4
    <3>2. r[i] = b[i - (Len(a) - n)]
      BY <1>4, <3>1
    <3> QED BY <2>2, <2>4, <3>1, <3>2
  <2> QED BY <2>3, <2>4
<1>8. l = r
  BY <1>4, <1>5, <1>6, <1>7, SeqEqual
<1> QED BY <1>8 DEF l, r, p, ab

\* If the first part goes, what is left is of the second.
LEMMA RestOfSecond ==
  ASSUME NEW a \in Seq(Bytes), NEW b \in Seq(Bytes), NEW n \in 0 .. Len(b)
  PROVE  Rest(a \o b, Len(a) + n) = Rest(b, n)
<1> DEFINE ab == a \o b
           l == Rest(ab, Len(a) + n)
           r == Rest(b, n)
<1>1. Len(a) \in Nat /\ Len(b) \in Nat /\ n \in Nat /\ n <= Len(b)
  BY LenProperties
<1>2. /\ ab \in Seq(Bytes) /\ Len(ab) = Len(a) + Len(b)
      /\ \A i \in 1 .. Len(a) + Len(b) : ab[i] = IF i <= Len(a) THEN a[i] ELSE b[i - Len(a)]
  BY ConcatProperties
<1>3. /\ r \in Seq(Bytes) /\ Len(r) = Len(b) - n
      /\ \A i \in 1 .. Len(b) - n : r[i] = b[n + i]
  BY RestIs
<1> HIDE DEF ab
<1>4. Len(a) + n \in 0 .. Len(ab)
  BY <1>1, <1>2
<1>5. /\ l \in Seq(Bytes) /\ Len(l) = Len(ab) - (Len(a) + n)
      /\ \A i \in 1 .. Len(ab) - (Len(a) + n) : l[i] = ab[(Len(a) + n) + i]
  BY <1>2, <1>4, RestIs
<1> HIDE DEF l, r
<1>6. Len(l) = Len(r) /\ Len(ab) - (Len(a) + n) = Len(b) - n
  BY <1>1, <1>2, <1>3, <1>5
<1>7. ASSUME NEW i \in 1 .. Len(l) PROVE l[i] = r[i]
  <2>1. i \in Nat /\ i >= 1 /\ i <= Len(b) - n
    BY <1>1, <1>3, <1>6
  <2>2. l[i] = ab[(Len(a) + n) + i]
    BY <1>5, <1>6, <2>1
  <2>3. /\ (Len(a) + n) + i \in 1 .. Len(a) + Len(b) /\ ~((Len(a) + n) + i <= Len(a))
        /\ ((Len(a) + n) + i) - Len(a) = n + i
    BY <1>1, <2>1
  <2>4. ab[(Len(a) + n) + i] = b[n + i]
    BY <1>2, <2>3
  <2> QED BY <1>3, <2>1, <2>2, <2>4
<1>8. l = r
  BY <1>3, <1>5, <1>6, <1>7, SeqEqual
<1> QED BY <1>8 DEF l, r, ab

\* The loop of buffer_drain ends at the chunk that has the first byte it keeps.
LEMMA GoneIs ==
  ASSUME chain \in Seq(Chunks), NEW n \in Nat, n < Len(Flat)
  PROVE  /\ Gone(n) \in 0 .. Len(chain) - 1
         /\ Len(Joined(chain)[Gone(n)]) <= n /\ n < Len(Joined(chain)[Gone(n) + 1])
<1> DEFINE J == Joined(chain)
           B == {i \in 0 .. Len(chain) : n < Len(J[i])}
<1>1. Len(chain) \in Nat /\ J \in [0 .. Len(chain) -> Seq(Bytes)] /\ J[0] = <<>>
  BY JoinedIs
<1>2. n < Len(J[Len(chain)])
  BY DEF Flat, Contents
<1> HIDE DEF J
<1>3. \A i \in 0 .. Len(chain) : Len(J[i]) \in Nat
  BY <1>1, LenProperties
<1>4. PICK m \in B : \A i \in B : m <= i
  <2>1. B \subseteq Nat /\ B # {}
    BY <1>1, <1>2
  <2> HIDE DEF B
  <2> QED BY <2>1, LeastOf
<1>5. m # 0
  <2>1. Len(J[0]) = 0
    BY <1>1
  <2> QED BY <2>1
<1>6. m - 1 \in 0 .. Len(chain) - 1 /\ m - 1 \in 0 .. Len(chain) /\ (m - 1) + 1 = m /\ ~(m <= m - 1)
  BY <1>1, <1>5
<1>7. m - 1 \notin B
  <2> HIDE DEF B
  <2> QED BY <1>4, <1>6
<1>8. Len(J[m - 1]) <= n
  BY <1>3, <1>6, <1>7
<1>9. \E k \in 0 .. Len(chain) - 1 : Len(J[k]) <= n /\ n < Len(J[k + 1])
  BY <1>6, <1>8
<1> QED BY <1>9 DEF Gone, J

\* What buffer_drain leaves in the list when it does not take all.
LEMMA PartDrained ==
  ASSUME TypeOK, ChainShape, NEW n \in Nat, n < total_len, DrainPart(n)
  PROVE  /\ Sound(chain') /\ chain' # <<>> /\ lastData' = Len(chain')
         /\ Contents(chain') = Rest(Flat, n)
<1> DEFINE k == Gone(n)
           J == Joined(chain)
           rest == n - Len(J[k])
           c == chain[k + 1]
           e == [c EXCEPT !.misalign = @ + rest, !.data = SubSeq(@, rest + 1, Len(@))]
           tail == SubSeq(chain, k + 2, Len(chain))
           m == Len(chain) - k
<1>1. /\ chain \in Seq(Chunks) /\ Len(chain) \in Nat
      /\ total_len = Len(Flat) /\ lastData \in Nat
  BY LenProperties DEF TypeOK, ChainShape
<1>2. /\ chain' = <<e>> \o tail /\ lastData' = Max({1, lastData - k})
  BY DEF DrainPart
<1>3. k \in 0 .. Len(chain) - 1 /\ Len(J[k]) <= n /\ n < Len(J[k + 1])
  BY <1>1, GoneIs
<1> HIDE DEF k
<1>4. /\ J \in [0 .. Len(chain) -> Seq(Bytes)]
      /\ \A i \in 1 .. Len(chain) : J[i] = J[i - 1] \o chain[i].data
      /\ \A i \in 1 .. Len(chain) : chain[i].data \in Seq(Bytes) /\ chain[i] \in Chunks
  BY <1>1, JoinedIs, ElementOfSeq
<1> HIDE DEF J
<1>5. k + 1 \in 1 .. Len(chain) /\ (k + 1) - 1 = k /\ k \in 0 .. Len(chain) /\ m \in Nat \ {0}
  BY <1>1, <1>3
<1>6. /\ c \in Chunks /\ c.data \in Seq(Bytes) /\ Len(c.data) \in Nat
      /\ c.cap \in Nat /\ c.misalign \in Nat
      /\ J[k] \in Seq(Bytes) /\ Len(J[k]) \in Nat /\ J[k + 1] = J[k] \o c.data
  BY <1>4, <1>5, LenProperties DEF Chunks
<1>7. Len(J[k + 1]) = Len(J[k]) + Len(c.data)
  BY <1>6, ConcatProperties
<1>8. rest \in 0 .. Len(c.data) /\ rest < Len(c.data) /\ rest \in Nat /\ Len(J[k]) + rest = n
  <2> DEFINE before == Len(J[k])
             len == Len(c.data)
  <2>1. before \in Nat /\ len \in Nat /\ before <= n /\ n < before + len
    BY <1>3, <1>6, <1>7
  <2>2. rest = n - before
    OBVIOUS
  <2> HIDE DEF rest, before, len
  <2>3. rest \in 0 .. len /\ rest < len /\ rest \in Nat /\ before + rest = n
    BY <2>1, <2>2
  <2> QED BY <2>3 DEF before, len
<1> HIDE DEF rest, c
<1>9. /\ e \in Chunks /\ e.data = Rest(c.data, rest) /\ e.data # <<>> /\ Room(e) = Room(c)
  <2>1. Rest(c.data, rest) \in Seq(Bytes) /\ Len(Rest(c.data, rest)) = Len(c.data) - rest
    BY <1>6, <1>8, RestIs
  <2>2. /\ e \in Chunks /\ e.data = Rest(c.data, rest)
        /\ e.cap = c.cap /\ e.misalign = c.misalign + rest
    <3>1. c.misalign + rest \in Nat
      BY <1>6, <1>8
    <3>2. e = [c EXCEPT !.misalign = @ + rest, !.data = Rest(@, rest)]
      BY DEF Rest
    <3> HIDE DEF e
    <3> QED BY <1>6, <2>1, <3>1, <3>2 DEF Chunks
  <2> HIDE DEF e
  <2>3. e.data # <<>>
    BY <1>6, <1>8, <2>1, <2>2
  <2>4. Room(e) = c.cap - (c.misalign + rest) - (Len(c.data) - rest)
    BY <2>1, <2>2 DEF Room
  <2>5. Room(c) = c.cap - c.misalign - Len(c.data)
    BY DEF Room
  <2>6. Room(e) = Room(c)
    <3> DEFINE cap == c.cap
               off == c.misalign
               len == Len(c.data)
    <3>1. cap \in Nat /\ off \in Nat /\ len \in Nat /\ rest \in Nat
      BY <1>6, <1>8
    <3>2. Room(e) = cap - (off + rest) - (len - rest) /\ Room(c) = cap - off - len
      BY <2>4, <2>5
    <3> HIDE DEF cap, off, len
    <3> QED BY <3>1, <3>2
  <2> QED BY <2>2, <2>3, <2>6
<1> HIDE DEF e
<1>10. /\ tail \in Seq(Chunks) /\ Len(tail) = m - 1
       /\ \A i \in 1 .. m - 1 : tail[i] = chain[i + k + 1]
  <2>1. k + 2 \in Int /\ Len(chain) \in Int
    BY <1>1, <1>3
  <2>2. \A i \in k + 2 .. Len(chain) : chain[i] \in Chunks
    <3>1. \A i \in k + 2 .. Len(chain) : i \in 1 .. Len(chain)
      BY <1>1, <1>3
    <3> QED BY <1>4, <3>1
  <2>3. /\ tail \in Seq(Chunks)
        /\ Len(tail) = IF k + 2 <= Len(chain) THEN Len(chain) - (k + 2) + 1 ELSE 0
        /\ \A i \in 1 .. Len(chain) - (k + 2) + 1 : tail[i] = chain[(k + 2) + i - 1]
    BY <2>1, <2>2, SubSeqProperties
  <2> HIDE DEF tail
  <2>4. Len(chain) - (k + 2) + 1 = m - 1 /\ \A i \in 1 .. m - 1 : (k + 2) + i - 1 = i + k + 1
    BY <1>1, <1>3
  <2>5. Len(tail) = m - 1
    BY <1>1, <1>3, <2>3
  <2> QED BY <2>3, <2>4, <2>5
<1> HIDE DEF tail
<1>11. /\ chain' \in Seq(Chunks) /\ Len(chain') = m
       /\ chain'[1] = e /\ \A i \in 2 .. m : chain'[i] = chain[i + k]
  <2>1. <<e>> \in Seq(Chunks) /\ Len(<<e>>) = 1 /\ <<e>>[1] = e
    BY <1>9
  <2>2. /\ chain' \in Seq(Chunks) /\ Len(chain') = 1 + (m - 1)
        /\ \A i \in 1 .. 1 + (m - 1) : chain'[i] = IF i <= 1 THEN <<e>>[i] ELSE tail[i - 1]
    <3>1. /\ <<e>> \o tail \in Seq(Chunks) /\ Len(<<e>> \o tail) = Len(<<e>>) + Len(tail)
          /\ \A i \in 1 .. Len(<<e>>) + Len(tail) :
               (<<e>> \o tail)[i] = IF i <= Len(<<e>>) THEN <<e>>[i] ELSE tail[i - Len(<<e>>)]
      BY <1>10, <2>1, ConcatProperties
    <3> QED BY <1>2, <1>10, <2>1, <3>1
  <2>3. 1 + (m - 1) = m
    BY <1>5
  <2>4. chain'[1] = e
    BY <1>5, <2>1, <2>2, <2>3
  <2>5. ASSUME NEW i \in 2 .. m PROVE chain'[i] = chain[i + k]
    <3>1. i \in 1 .. m /\ ~(i <= 1) /\ i - 1 \in 1 .. m - 1 /\ (i - 1) + k + 1 = i + k
      BY <1>1, <1>3, <1>5
    <3> QED BY <1>10, <2>2, <2>3, <3>1
  <2> QED BY <2>2, <2>3, <2>4, <2>5
<1>12. \A i \in 2 .. m : i + k \in 1 .. Len(chain)
  BY <1>1, <1>3
<1>13. Sound(chain')
  <2>1. ASSUME NEW i \in 1 .. m PROVE Room(chain'[i]) >= 0
    <3>1. i = 1 \/ i \in 2 .. m
      BY <1>5
    <3>2. \A j \in 1 .. Len(chain) : Room(chain[j]) >= 0
      BY <1>1 DEF ChainShape
    <3>3. Room(e) >= 0
      BY <1>5, <1>9, <3>2 DEF c
    <3> QED BY <1>11, <1>12, <3>1, <3>2, <3>3
  <2>2. ASSUME NEW i \in 1 .. m PROVE m > 1 => chain'[i].data # <<>>
    <3>1. i = 1 \/ i \in 2 .. m
      BY <1>5
    <3>2. m > 1 => \A j \in 1 .. Len(chain) : chain[j].data # <<>>
      BY <1>1, <1>3 DEF ChainShape
    <3> QED BY <1>9, <1>11, <1>12, <3>1, <3>2
  <2> QED BY <1>11, <2>1, <2>2 DEF Sound
<1>14. lastData' = Len(chain') /\ chain' # <<>>
  <2>1. lastData = Len(chain)
    BY <1>1, <1>3, LastChunk DEF ChainShape
  <2>2. Max({1, m}) = m
    BY <1>5, LastChunk
  <2> QED BY <1>2, <1>5, <1>11, <2>1, <2>2
<1>15. Contents(chain') = Rest(Flat, n)
  <2> DEFINE K == Joined(chain')
             Bad == {i \in 1 .. m : K[i] # Rest(J[i + k], n)}
  <2>1. K[0] = <<>> /\ \A i \in 1 .. m : K[i] = K[i - 1] \o chain'[i].data
    BY <1>11, JoinedIs
  <2> HIDE DEF K
  <2>2. K[1] = Rest(J[1 + k], n)
    <3>1. Rest(J[k] \o c.data, Len(J[k]) + rest) = Rest(c.data, rest)
      BY <1>6, <1>8, RestOfSecond
    <3>2. K[1] = <<>> \o e.data
      <4>1. 1 \in 1 .. m /\ 1 - 1 = 0
        BY <1>5
      <4> QED BY <1>11, <2>1, <4>1
    <3>3. e.data \in Seq(Bytes)
      BY <1>9 DEF Chunks
    <3>4. K[1] = e.data
      BY <3>2, <3>3, ConcatEmptySeq
    <3>5. 1 + k = k + 1
      BY <1>3
    <3> QED BY <1>6, <1>8, <1>9, <3>1, <3>4, <3>5
  <2>3. Bad = {}
    <3> SUFFICES ASSUME Bad # {} PROVE FALSE
      OBVIOUS
    <3>1. PICK i \in Bad : \A j \in Bad : i <= j
      <4>1. Bad \subseteq Nat
        BY <1>5
      <4> HIDE DEF Bad
      <4> QED BY <4>1, LeastOf
    <3>2. i # 1
      BY <2>2
    <3>3. /\ i \in 2 .. m /\ i - 1 \in 1 .. m /\ ~(i <= i - 1)
          /\ i + k \in 1 .. Len(chain) /\ (i + k) - 1 = (i - 1) + k
          /\ (i - 1) + k \in 0 .. Len(chain) /\ k + 1 \in 0 .. Len(chain)
          /\ (i - 1) + k \in k + 1 .. Len(chain) /\ i \in 1 .. m
      BY <1>1, <1>3, <1>5, <3>2
    <3>4. i - 1 \notin Bad
      <4> HIDE DEF Bad
      <4> QED BY <3>1, <3>3
    <3>5. K[i - 1] = Rest(J[(i - 1) + k], n)
      BY <3>3, <3>4
    <3>6. J[(i - 1) + k] \in Seq(Bytes) /\ chain[i + k].data \in Seq(Bytes)
      BY <1>4, <3>3
    <3>7. n \in 0 .. Len(J[(i - 1) + k])
      <4>1. Begins(J[k + 1], J[(i - 1) + k])
        BY <1>1, <3>3, JoinedGrows DEF J
      <4>2. Len(J[(i - 1) + k]) \in Nat /\ Len(J[k + 1]) \in Nat
        BY <1>4, <3>3, LenProperties
      <4> QED BY <1>3, <4>1, <4>2 DEF Begins
    <3>8. Rest(J[(i - 1) + k] \o chain[i + k].data, n)
            = Rest(J[(i - 1) + k], n) \o chain[i + k].data
      BY <3>6, <3>7, RestOfFirst
    <3>9. K[i] = K[i - 1] \o chain[i + k].data
      BY <1>11, <2>1, <3>3
    <3>10. J[i + k] = J[(i - 1) + k] \o chain[i + k].data
      BY <1>4, <3>3
    <3>11. K[i] = Rest(J[i + k], n)
      BY <3>5, <3>8, <3>9, <3>10
    <3> QED BY <3>11
  <2>4. m \in 1 .. m /\ m + k = Len(chain)
    BY <1>1, <1>3, <1>5
  <2>5. K[m] = Rest(J[Len(chain)], n)
    BY <2>3, <2>4
  <2> QED BY <1>11, <2>5 DEF Contents, Flat, K, J
<1> QED BY <1>13, <1>14, <1>15

-----------------------------------------------------------------------------
(* The separator.                                                          *)

\* The bytes of s from i on are those of the separator, as far as there are any.
Agrees(s, i) == \A x \in 1 .. Len(Sep) : i + x <= Len(s) => s[i + x] = Sep[x]

\* A separator, or a part of one that ends the data.
LEMMA AgreesIs ==
  ASSUME BufferAssumption, NEW s \in Seq(Bytes), NEW i \in 0 .. Len(s)
  PROVE  /\ i + Len(Sep) <= Len(s) =>
              (SubSeq(s, i + 1, i + Len(Sep)) = Sep <=> Agrees(s, i))
         /\ i + Len(Sep) > Len(s) =>
              (SubSeq(s, i + 1, Len(s)) = SubSeq(Sep, 1, Len(s) - i) <=> Agrees(s, i))
<1>1. /\ Sep \in Seq(Bytes) /\ Len(Sep) \in Nat \ {0}
      /\ Len(s) \in Nat /\ i \in Nat /\ i <= Len(s)
  BY LenProperties, EmptySeq DEF BufferAssumption
<1>2. ASSUME NEW n \in Nat, i + n <= Len(s), n <= Len(Sep)
      PROVE  SubSeq(s, i + 1, i + n) = SubSeq(Sep, 1, n) <=> \A x \in 1 .. n : s[i + x] = Sep[x]
  <2> DEFINE l == SubSeq(s, i + 1, i + n)
             r == SubSeq(Sep, 1, n)
  <2>1. l \in Seq(Bytes) /\ Len(l) = n /\ \A x \in 1 .. n : l[x] = s[i + x]
    <3>1. \A x \in i + 1 .. i + n : s[x] \in Bytes
      <4>1. \A x \in i + 1 .. i + n : x \in 1 .. Len(s)
        BY <1>1, <1>2
      <4> QED BY <4>1, ElementOfSeq
    <3>2. /\ l \in Seq(Bytes)
          /\ Len(l) = IF i + 1 <= i + n THEN (i + n) - (i + 1) + 1 ELSE 0
          /\ \A x \in 1 .. (i + n) - (i + 1) + 1 : l[x] = s[(i + 1) + x - 1]
      <4>1. i + 1 \in Int /\ i + n \in Int
        BY <1>1
      <4> QED BY <3>1, <4>1, SubSeqProperties
    <3> HIDE DEF l
    <3>3. (i + n) - (i + 1) + 1 = n /\ \A x \in 1 .. n : (i + 1) + x - 1 = i + x
      BY <1>1
    <3>4. Len(l) = n
      BY <1>1, <3>2
    <3> QED BY <3>2, <3>3, <3>4
  <2>2. r \in Seq(Bytes) /\ Len(r) = n /\ \A x \in 1 .. n : r[x] = Sep[x]
    <3>1. \A x \in 1 .. n : Sep[x] \in Bytes
      <4>1. \A x \in 1 .. n : x \in 1 .. Len(Sep)
        BY <1>1, <1>2
      <4> QED BY <1>1, <4>1, ElementOfSeq
    <3>2. /\ r \in Seq(Bytes) /\ Len(r) = IF 1 <= n THEN n - 1 + 1 ELSE 0
          /\ \A x \in 1 .. n - 1 + 1 : r[x] = Sep[1 + x - 1]
      BY <3>1, SubSeqProperties
    <3> HIDE DEF r
    <3>3. n - 1 + 1 = n /\ \A x \in 1 .. n : 1 + x - 1 = x
      OBVIOUS
    <3>4. Len(r) = n
      BY <3>2
    <3> QED BY <3>2, <3>3, <3>4
  <2> HIDE DEF l, r
  <2>3. ASSUME \A x \in 1 .. n : s[i + x] = Sep[x] PROVE l = r
    BY <2>1, <2>2, <2>3, SeqEqual
  <2>4. ASSUME l = r PROVE \A x \in 1 .. n : s[i + x] = Sep[x]
    BY <2>1, <2>2, <2>4
  <2> QED BY <2>3, <2>4 DEF l, r
<1>3. CASE i + Len(Sep) <= Len(s)
  <2>1. \A x \in 1 .. Len(Sep) : i + x <= Len(s)
    BY <1>1, <1>3
  <2>2. SubSeq(Sep, 1, Len(Sep)) = Sep
    BY <1>1, SubSeqFull
  <2>3. Len(Sep) \in Nat /\ Len(Sep) <= Len(Sep)
    BY <1>1
  <2>4. SubSeq(s, i + 1, i + Len(Sep)) = Sep <=> \A x \in 1 .. Len(Sep) : s[i + x] = Sep[x]
    BY <1>2, <1>3, <2>2, <2>3
  <2>5. ~(i + Len(Sep) > Len(s))
    BY <1>1, <1>3
  <2> QED BY <2>1, <2>4, <2>5 DEF Agrees
<1>4. CASE i + Len(Sep) > Len(s)
  <2> DEFINE n == Len(s) - i
  <2>1. n \in Nat /\ i + n = Len(s) /\ i + n <= Len(s) /\ n <= Len(Sep)
    BY <1>1, <1>4
  <2>2. \A x \in 1 .. Len(Sep) : i + x <= Len(s) <=> x \in 1 .. n
    BY <1>1
  <2>3. \A x \in 1 .. n : x \in 1 .. Len(Sep)
    BY <1>1, <2>1
  <2>4. SubSeq(s, i + 1, Len(s)) = SubSeq(Sep, 1, n) <=> \A x \in 1 .. n : s[i + x] = Sep[x]
    <3> HIDE DEF n
    <3>1. SubSeq(s, i + 1, i + n) = SubSeq(Sep, 1, n) <=> \A x \in 1 .. n : s[i + x] = Sep[x]
      BY <1>2, <2>1
    <3> QED BY <2>1, <3>1
  <2>5. ~(i + Len(Sep) <= Len(s))
    BY <1>1, <1>4
  <2> HIDE DEF n
  <2>6. (\A x \in 1 .. n : s[i + x] = Sep[x]) <=> Agrees(s, i)
    BY <2>2, <2>3 DEF Agrees
  <2> QED BY <2>4, <2>5, <2>6 DEF n
<1> QED BY <1>1, <1>3, <1>4

\* What differs from the separator still does when something is added, and a whole
\* separator stays.
LEMMA AgreesStill ==
  ASSUME BufferAssumption, NEW s \in Seq(Bytes), NEW d \in Seq(Bytes), NEW i \in 0 .. Len(s)
  PROVE  /\ Agrees(s \o d, i) => Agrees(s, i)
         /\ i + Len(Sep) <= Len(s) /\ Agrees(s, i) => Agrees(s \o d, i)
<1> DEFINE sd == s \o d
<1>1. /\ Len(sd) = Len(s) + Len(d)
      /\ \A x \in 1 .. Len(s) + Len(d) : sd[x] = IF x <= Len(s) THEN s[x] ELSE d[x - Len(s)]
  BY ConcatProperties
<1> HIDE DEF sd
<1>2. Len(s) \in Nat /\ Len(d) \in Nat /\ Len(Sep) \in Nat /\ i \in Nat
  BY LenProperties DEF BufferAssumption
<1>3. ASSUME NEW x \in 1 .. Len(Sep), i + x <= Len(s)
      PROVE  sd[i + x] = s[i + x] /\ i + x <= Len(sd)
  <2>1. i + x \in 1 .. Len(s) + Len(d) /\ i + x <= Len(s) + Len(d)
    BY <1>2, <1>3
  <2> QED BY <1>1, <1>3, <2>1
<1>4. ASSUME Agrees(sd, i) PROVE Agrees(s, i)
  BY <1>3, <1>4 DEF Agrees
<1>5. ASSUME i + Len(Sep) <= Len(s), Agrees(s, i) PROVE Agrees(sd, i)
  <2>1. \A x \in 1 .. Len(Sep) : i + x <= Len(s)
    BY <1>2, <1>5
  <2> QED BY <1>3, <1>5, <2>1 DEF Agrees
<1> QED BY <1>4, <1>5 DEF sd

\* SepAt and RunsOff by the bytes.
LEMMA HitIs ==
  ASSUME BufferAssumption, TypeOK, ChainShape, NEW i \in 0 .. total_len
  PROVE  /\ SepAt(i) <=> i + Len(Sep) <= total_len /\ Agrees(Flat, i)
         /\ RunsOff(i) <=> i + Len(Sep) > total_len /\ Agrees(Flat, i)
<1>1. Flat \in Seq(Bytes) /\ total_len = Len(Flat)
  <2>1. chain \in Seq(Chunks)
    BY DEF TypeOK
  <2>2. Len(chain) \in 0 .. Len(chain)
    BY <2>1, LenProperties
  <2>3. Joined(chain)[Len(chain)] \in Seq(Bytes)
    BY <2>1, <2>2, JoinedIs
  <2> QED BY <2>3 DEF Flat, Contents, ChainShape
<1>2. /\ i + Len(Sep) <= Len(Flat) =>
           (SubSeq(Flat, i + 1, i + Len(Sep)) = Sep <=> Agrees(Flat, i))
      /\ i + Len(Sep) > Len(Flat) =>
           (SubSeq(Flat, i + 1, Len(Flat)) = SubSeq(Sep, 1, Len(Flat) - i) <=> Agrees(Flat, i))
  BY <1>1, AgreesIs
<1> QED BY <1>1, <1>2 DEF SepAt, RunsOff

-----------------------------------------------------------------------------
(* The steps.                                                              *)

\* A list that is put together as buffer_add and buffer_drain leave it has the shape.
LEMMA ShapeFrom ==
  ASSUME Sound(chain'), chain' # <<>>, lastData' = Len(chain'), total_len' = Len(Flat')
  PROVE  ChainShape' /\ chain' \in Seq(Chunks) /\ lastData' \in Nat \ {0}
<1>1. Len(chain') \in Nat \ {0} /\ DOMAIN chain' = 1 .. Len(chain')
  BY LenProperties, EmptySeq DEF Sound
<1>2. lastData' = Max({1, Len(chain')})
  BY <1>1, LastChunk
<1>3. /\ \A i \in DOMAIN chain' : Room(chain'[i]) >= 0
      /\ Len(chain') > 1 => \A i \in DOMAIN chain' : chain'[i].data # <<>>
  BY <1>1 DEF Sound
<1>4. ChainShape'
  BY <1>2, <1>3 DEF ChainShape
<1> QED BY <1>1, <1>4 DEF Sound

\* The bytes in the buffer are a sequence.
LEMMA FlatIs ==
  ASSUME TypeOK
  PROVE  Flat \in Seq(Bytes)
<1>1. chain \in Seq(Chunks) /\ Len(chain) \in 0 .. Len(chain)
  BY LenProperties DEF TypeOK
<1>2. Joined(chain)[Len(chain)] \in Seq(Bytes)
  BY <1>1, JoinedIs
<1> QED BY <1>2 DEF Flat, Contents

\* What buffer_add is given comes behind all there is.
LEMMA BufferAddAdds ==
  ASSUME BufferAssumption, TypeOK, ChainShape, NEW d \in Seq(Bytes), BufferAdd(d)
  PROVE  Adds(d) /\ Flat' = Flat \o d
<1>1. Adds(d)
  BY InPlaceAdds, ChunkAdds DEF BufferAdd
<1> QED BY <1>1 DEF Adds, Flat

\* buffer_add keeps the invariant.
LEMMA BufferAddKeeps ==
  ASSUME BufferAssumption, IInv, NEW d \in Seq(Bytes), BufferAdd(d)
  PROVE  IInv'
<1> USE DEF IInv
<1>1. /\ Flat \in Seq(Bytes) /\ total_len = Len(Flat) /\ Len(Flat) \in Nat
      /\ Len(d) \in Nat /\ Len(Sep) \in Nat
  BY FlatIs, LenProperties DEF ChainShape, BufferAssumption
<1>2. Adds(d) /\ Flat' = Flat \o d
  BY BufferAddAdds
<1>3. Len(Flat') = Len(Flat) + Len(d) /\ Flat' \in Seq(Bytes)
  BY <1>1, <1>2, ConcatProperties
<1>4. /\ total_len' = total_len + Len(d) /\ Len(d) <= BUFFER_CHAIN_MAX - total_len
      /\ UNCHANGED <<last_read_pos, copied, found, byLine, crashed>>
  BY DEF BufferAdd
<1>5. total_len' = Len(Flat')
  BY <1>1, <1>3, <1>4
<1>6. ChainShape' /\ chain' \in Seq(Chunks) /\ lastData' \in Nat \ {0}
  BY <1>2, <1>5, ShapeFrom DEF Adds
<1>7. TypeOK'
  <2>1. total_len' \in 0 .. BUFFER_CHAIN_MAX
    BY <1>1, <1>4 DEF BufferAssumption
  <2> QED BY <1>4, <1>6, <2>1 DEF TypeOK
<1>8. /\ total_len <= total_len' /\ total_len \in Nat
      /\ \A i \in 0 .. total_len : i \in 0 .. Len(Flat) /\ i \in 0 .. Len(Flat')
  BY <1>1, <1>3, <1>4
<1>9. ASSUME NEW i \in 0 .. total_len
      PROVE  /\ SepAt(i) => SepAt(i)'
             /\ SepAt(i)' \/ RunsOff(i)' => SepAt(i) \/ RunsOff(i)
  <2>1. /\ i \in Nat /\ i \in 0 .. Len(Flat) /\ i \in 0 .. Len(Flat')
        /\ (i + Len(Sep) <= total_len => i + Len(Sep) <= total_len')
        /\ ~(i + Len(Sep) > total_len) <=> i + Len(Sep) <= total_len
    BY <1>1, <1>8, <1>4
  <2>2. /\ SepAt(i) <=> i + Len(Sep) <= total_len /\ Agrees(Flat, i)
        /\ RunsOff(i) <=> i + Len(Sep) > total_len /\ Agrees(Flat, i)
    BY HitIs
  <2>3. /\ SepAt(i)' <=> i + Len(Sep) <= total_len' /\ Agrees(Flat', i)
        /\ RunsOff(i)' <=> i + Len(Sep) > total_len' /\ Agrees(Flat', i)
    <3>1. /\ i + Len(Sep) <= Len(Flat') =>
               (SubSeq(Flat', i + 1, i + Len(Sep)) = Sep <=> Agrees(Flat', i))
          /\ i + Len(Sep) > Len(Flat') =>
               (SubSeq(Flat', i + 1, Len(Flat')) = SubSeq(Sep, 1, Len(Flat') - i)
                  <=> Agrees(Flat', i))
      BY <1>3, <2>1, AgreesIs
    <3> QED BY <1>5, <3>1 DEF SepAt, RunsOff
  <2>4. /\ Agrees(Flat', i) => Agrees(Flat, i)
        /\ i + Len(Sep) <= total_len /\ Agrees(Flat, i) => Agrees(Flat', i)
    BY <1>1, <1>2, <2>1, AgreesStill
  <2> QED BY <2>1, <2>2, <2>3, <2>4
<1>10. InHand' = InHand
  BY <1>4 DEF InHand
<1>11. Found'
  <2>1. found # 0 => found - Len(Sep) \in 0 .. total_len
    BY <1>1 DEF Found, SepAt, TypeOK
  <2> QED BY <1>4, <1>9, <1>10, <2>1 DEF Found
<1>12. Looked'
  <2>1. byLine => \A i \in 0 .. last_read_pos - 1 : i \in 0 .. total_len
    BY <1>8 DEF Looked, TypeOK
  <2>2. byLine => last_read_pos <= total_len'
    BY <1>1, <1>4 DEF Looked, TypeOK
  <2> QED BY <1>4, <1>9, <1>10, <2>1, <2>2 DEF Looked
<1> QED BY <1>6, <1>7, <1>11, <1>12

\* buf_copy_out keeps the invariant.
LEMMA CopyOutKeeps ==
  ASSUME BufferAssumption, IInv, NEW r \in Removers, NEW n \in Nat \ {0}, CopyOut(r, n)
  PROVE  IInv'
<1> USE DEF IInv
<1> DEFINE m == Min({n, total_len})
<1>1. Flat \in Seq(Bytes) /\ total_len = Len(Flat) /\ total_len \in Nat
  BY FlatIs, LenProperties DEF ChainShape
<1>2. m \in 0 .. Len(Flat)
  <2>1. m = IF n <= total_len THEN n ELSE total_len
    BY <1>1, MaxOfTwo
  <2> HIDE DEF m
  <2> QED BY <1>1, <2>1
<1> HIDE DEF m
<1>3. SubSeq(Flat, 1, m) \in Seq(Bytes)
  <2>1. \A i \in 1 .. m : Flat[i] \in Bytes
    <3>1. \A i \in 1 .. m : i \in 1 .. Len(Flat)
      BY <1>1, <1>2
    <3> QED BY <1>1, <3>1, ElementOfSeq
  <2> QED BY <1>2, <2>1, SubSeqProperties
<1>4. /\ copied' = [copied EXCEPT ![r] = SubSeq(Flat, 1, m)]
      /\ found' = 0 /\ byLine' = (byLine /\ n = found)
      /\ UNCHANGED <<chain, lastData, total_len, last_read_pos, crashed>>
  BY DEF CopyOut, m
<1>5. TypeOK'
  BY <1>3, <1>4 DEF TypeOK
<1>6. ChainShape' /\ Flat' = Flat
  BY <1>4 DEF ChainShape, Flat
<1>7. Found'
  BY <1>4 DEF Found
<1>8. Looked'
  <2>1. ASSUME byLine' PROVE last_read_pos' = 0
    <3>1. found # 0
      BY <1>4, <2>1
    <3> QED BY <1>4, <3>1 DEF Found
  <2> QED BY <1>1, <1>4, <2>1 DEF Looked
<1> QED BY <1>5, <1>6, <1>7, <1>8

\* buffer_drain keeps the list as it is, and takes what it was given the length of.
LEMMA DrainTakes ==
  ASSUME BufferAssumption, TypeOK, ChainShape, NEW r \in Removers, Drain(r)
  PROVE  /\ chain' \in Seq(Chunks) /\ lastData' \in Nat \ {0} /\ ChainShape'
         /\ total_len' \in 0 .. total_len
         /\ Len(copied[r]) <= total_len => Flat' = Rest(Flat, Len(copied[r]))
<1> DEFINE n == Len(copied[r])
<1>1. n \in Nat \ {0}
  BY LenProperties, EmptySeq DEF Drain, TypeOK
<1>2. Flat \in Seq(Bytes) /\ total_len = Len(Flat) /\ total_len \in Nat
  BY FlatIs, LenProperties DEF ChainShape
<1>3. IF n < total_len
        THEN DrainPart(n)
        ELSE IF total_len = 0
          THEN UNCHANGED <<chain, lastData, total_len>>
          ELSE chain' = <<>> /\ lastData' = 1 /\ total_len' = 0
  BY DEF Drain
<1> HIDE DEF n
<1>4. CASE n < total_len
  <2>1. /\ Sound(chain') /\ chain' # <<>> /\ lastData' = Len(chain')
        /\ Contents(chain') = Rest(Flat, n)
    BY <1>1, <1>3, <1>4, PartDrained
  <2>2. Flat' = Rest(Flat, n)
    BY <2>1 DEF Flat
  <2>3. n \in 0 .. Len(Flat)
    BY <1>1, <1>2, <1>4
  <2>4. Len(Flat') = Len(Flat) - n
    BY <1>2, <2>2, <2>3, RestIs
  <2>5. total_len' = total_len - n
    BY <1>3, <1>4 DEF DrainPart
  <2>6. total_len' = Len(Flat') /\ total_len' \in 0 .. total_len
    BY <1>1, <1>2, <1>4, <2>4, <2>5
  <2>7. chain' \in Seq(Chunks) /\ lastData' \in Nat \ {0} /\ ChainShape'
    BY <2>1, <2>6, ShapeFrom
  <2> QED BY <2>2, <2>6, <2>7 DEF n
<1>5. CASE ~(n < total_len) /\ total_len = 0
  <2>1. UNCHANGED <<chain, lastData, total_len>>
    BY <1>3, <1>5
  <2>2. ChainShape'
    BY <2>1 DEF ChainShape, Flat
  <2>3. ~(n <= total_len)
    BY <1>1, <1>5
  <2> QED BY <1>2, <1>5, <2>1, <2>2, <2>3 DEF TypeOK, n
<1>6. CASE ~(n < total_len) /\ total_len # 0
  <2>1. chain' = <<>> /\ lastData' = 1 /\ total_len' = 0
    BY <1>3, <1>6
  <2>2. Flat' = <<>>
    BY <2>1, ContentsFew DEF Flat
  <2>3. Len(chain') = 0 /\ DOMAIN chain' = {} /\ chain' \in Seq(Chunks)
    BY <2>1, EmptySeq
  <2>4. lastData' = Max({1, Len(chain')})
    BY <2>1, <2>3, LastChunk
  <2>5. total_len' = Len(Flat')
    BY <2>1, <2>2, EmptySeq
  <2>6. ~(Len(chain') > 1)
    BY <2>3
  <2>7. ChainShape'
    BY <2>3, <2>4, <2>5, <2>6 DEF ChainShape
  <2>8. n <= total_len => Rest(Flat, n) = <<>>
    <3>1. n <= total_len => n = Len(Flat)
      BY <1>1, <1>2, <1>6
    <3> QED BY <1>2, <3>1, RestEnds
  <2> QED BY <1>2, <2>1, <2>2, <2>3, <2>7, <2>8 DEF n
<1> QED BY <1>4, <1>5, <1>6

\* buffer_drain keeps the invariant.
LEMMA DrainKeeps ==
  ASSUME BufferAssumption, IInv, NEW r \in Removers, Drain(r)
  PROVE  IInv'
<1> USE DEF IInv
<1>1. /\ chain' \in Seq(Chunks) /\ lastData' \in Nat \ {0} /\ ChainShape'
      /\ total_len' \in 0 .. total_len
  BY DrainTakes
<1>2. /\ copied[r] # <<>> /\ copied' = [copied EXCEPT ![r] = <<>>]
      /\ UNCHANGED <<last_read_pos, found, byLine, crashed>>
  BY DEF Drain
<1>3. TypeOK'
  <2>1. total_len' \in 0 .. BUFFER_CHAIN_MAX
    BY <1>1 DEF TypeOK, BufferAssumption
  <2>2. copied' \in [Removers -> Seq(Bytes)]
    BY <1>2, EmptySeq DEF TypeOK
  <2> QED BY <1>1, <1>2, <2>1, <2>2 DEF TypeOK
<1>4. InHand
  BY <1>2 DEF InHand
<1>5. Found'
  BY <1>2, <1>4 DEF Found
<1>6. Looked'
  <2>1. byLine => last_read_pos = 0
    BY <1>4 DEF Looked
  <2>2. 0 <= total_len'
    BY <1>1
  <2> QED BY <1>2, <2>1, <2>2 DEF Looked
<1> QED BY <1>1, <1>3, <1>5, <1>6

\* buffer_search keeps the invariant.
LEMMA SearchKeeps ==
  ASSUME BufferAssumption, IInv, Search
  PROVE  IInv'
<1> USE DEF IInv
<1> DEFINE hits == {i \in last_read_pos .. LastTried : SepAt(i) \/ RunsOff(i)}
<1>1. /\ total_len \in Nat /\ last_read_pos \in Nat /\ last_read_pos < total_len
      /\ Len(Sep) \in Nat \ {0} /\ found \in Nat
  BY LenProperties, EmptySeq DEF TypeOK, Search, BufferAssumption
<1>2. ~InHand /\ UNCHANGED <<chain, lastData, total_len, copied, byLine>>
  BY DEF Search, InHand
<1>3. InHand' = InHand /\ ChainShape' /\ \A i : SepAt(i)' = SepAt(i) /\ RunsOff(i)' = RunsOff(i)
  BY <1>2 DEF InHand, ChainShape, SepAt, RunsOff, Flat
<1>4. LastTried \in Nat /\ LastTried <= total_len - 1
  BY <1>1 DEF LastTried
<1>5. IF hits = {}
        THEN /\ last_read_pos' = Max({last_read_pos, AfterLoop})
             /\ UNCHANGED <<found, crashed>>
        ELSE IF RunsOff(Min(hits))
          THEN crashed' = TRUE /\ UNCHANGED <<last_read_pos, found>>
          ELSE /\ found' = Min(hits) + Len(Sep)
               /\ last_read_pos' = 0
               /\ UNCHANGED crashed
  BY DEF Search
<1>6. CASE hits = {}
  <2>1. AfterLoop \in Nat /\ AfterLoop <= LastTried + 1 /\ AfterLoop <= total_len
    BY <1>1, <1>4 DEF AfterLoop
  <2>2. /\ last_read_pos' = IF last_read_pos >= AfterLoop THEN last_read_pos ELSE AfterLoop
        /\ UNCHANGED <<found, crashed>>
    BY <1>1, <1>5, <1>6, <2>1, MaxOfTwo
  <2>3. last_read_pos' \in Nat /\ last_read_pos' <= total_len
    BY <1>1, <2>1, <2>2
  <2>4. TypeOK'
    BY <1>2, <2>2, <2>3 DEF TypeOK
  <2>5. found = 0
    <3> SUFFICES ASSUME found # 0 PROVE FALSE
      OBVIOUS
    <3>1. found >= Len(Sep) /\ SepAt(found - Len(Sep)) /\ last_read_pos = 0
      BY DEF Found
    <3>2. (found - Len(Sep)) + Len(Sep) <= total_len
      BY <3>1 DEF SepAt
    <3>3. found - Len(Sep) \in last_read_pos .. LastTried
      BY <1>1, <3>1, <3>2 DEF LastTried
    <3> QED BY <1>6, <3>1, <3>3
  <2>6. Found'
    BY <2>2, <2>5 DEF Found
  <2>7. Looked'
    <3>1. ASSUME byLine, NEW i \in 0 .. last_read_pos' - 1 PROVE ~SepAt(i) /\ ~RunsOff(i)
      <4>1. CASE i < last_read_pos
        <5>1. i \in 0 .. last_read_pos - 1
          BY <1>1, <2>3, <4>1
        <5> QED BY <3>1, <5>1 DEF Looked
      <4>2. CASE ~(i < last_read_pos)
        <5>1. i \in last_read_pos .. LastTried
          BY <1>1, <1>4, <2>1, <2>2, <4>2
        <5> QED BY <1>6, <5>1
      <4> QED BY <4>1, <4>2
    <3> QED BY <1>2, <1>3, <2>3, <3>1 DEF Looked
  <2> QED BY <1>3, <2>4, <2>6, <2>7
<1>7. CASE hits # {} /\ RunsOff(Min(hits))
  <2>1. crashed' = TRUE /\ UNCHANGED <<last_read_pos, found>>
    BY <1>5, <1>7
  <2>2. TypeOK'
    BY <1>2, <2>1 DEF TypeOK
  <2>3. Found' /\ Looked'
    BY <1>2, <1>3, <2>1 DEF Found, Looked
  <2> QED BY <1>3, <2>2, <2>3
<1>8. CASE hits # {} /\ ~RunsOff(Min(hits))
  <2> DEFINE first == Min(hits)
  <2>1. found' = first + Len(Sep) /\ last_read_pos' = 0 /\ UNCHANGED crashed
    BY <1>5, <1>8
  <2>2. first \in hits
    <3>1. hits \subseteq Nat
      BY <1>1, <1>4
    <3> HIDE DEF hits
    <3>2. \E i \in hits : \A j \in hits : i <= j
      BY <1>8, <3>1, LeastOf
    <3> QED BY <3>2 DEF Min
  <2>3. SepAt(first) /\ first \in Nat
    BY <1>1, <1>4, <1>8, <2>2
  <2> HIDE DEF first
  <2>4. found' \in Nat /\ found' >= Len(Sep) /\ found' - Len(Sep) = first
    BY <1>1, <2>1, <2>3
  <2>5. TypeOK'
    BY <1>2, <2>1, <2>4 DEF TypeOK
  <2>6. Found'
    BY <1>2, <1>3, <2>1, <2>3, <2>4 DEF Found
  <2>7. Looked'
    BY <1>1, <1>2, <1>3, <2>1 DEF Looked
  <2> QED BY <1>3, <2>5, <2>6, <2>7
<1> QED BY <1>6, <1>7, <1>8

\* The buffer starts empty.
LEMMA StartsSound ==
  ASSUME BufferAssumption, Init
  PROVE  IInv
<1>1. /\ chain = <<>> /\ lastData = 1 /\ total_len = 0 /\ last_read_pos = 0
      /\ copied = [r \in Removers |-> <<>>] /\ found = 0 /\ byLine = TRUE /\ crashed = FALSE
  BY DEF Init
<1>2. TypeOK
  <2>1. chain \in Seq(Chunks) /\ copied \in [Removers -> Seq(Bytes)]
    BY <1>1, EmptySeq
  <2>2. 0 \in 0 .. BUFFER_CHAIN_MAX /\ 1 \in Nat \ {0} /\ 0 \in Nat
    BY DEF BufferAssumption
  <2> QED BY <1>1, <2>1, <2>2 DEF TypeOK
<1>3. ChainShape
  <2>1. Flat = <<>>
    BY <1>1, ContentsFew DEF Flat
  <2>2. Len(chain) = 0 /\ DOMAIN chain = {} /\ Len(Flat) = 0
    BY <1>1, <2>1, EmptySeq
  <2>3. lastData = Max({1, Len(chain)})
    BY <1>1, <2>2, LastChunk
  <2> QED BY <1>1, <2>2, <2>3 DEF ChainShape
<1>4. Found /\ Looked
  BY <1>1 DEF Found, Looked, InHand
<1> QED BY <1>2, <1>3, <1>4 DEF IInv

\* What buffer_add may be given is a sequence of bytes.
LEMMA GivenIs ==
  ASSUME BufferAssumption, NEW d \in BoundedSeq(Bytes, MaxAdd)
  PROVE  d \in Seq(Bytes)
<1>1. PICK m \in 0 .. MaxAdd : d \in [1 .. m -> Bytes]
  BY DEF BoundedSeq, SeqOf
<1>2. m \in Nat
  BY DEF BufferAssumption
<1> QED BY <1>1, <1>2, SeqDef

\* Every step of the buffer keeps the invariant.
LEMMA StepKeeps ==
  ASSUME BufferAssumption, IInv, [Next]_vars
  PROVE  IInv'
<1>1. ASSUME NEW d \in BoundedSeq(Bytes, MaxAdd), BufferAdd(d) PROVE IInv'
  BY <1>1, GivenIs, BufferAddKeeps
<1>2. ASSUME NEW r \in Removers, NEW n \in 1 .. MaxTotal, CopyOut(r, n) PROVE IInv'
  <2>1. n \in Nat \ {0}
    BY DEF BufferAssumption
  <2> QED BY <1>2, <2>1, CopyOutKeeps
<1>3. ASSUME NEW r \in Removers, Drain(r) PROVE IInv'
  BY <1>3, DrainKeeps
<1>4. ASSUME Search PROVE IInv'
  BY <1>4, SearchKeeps
<1>5. ASSUME UNCHANGED vars PROVE IInv'
  BY <1>5 DEF vars, IInv, TypeOK, ChainShape, Found, Looked, InHand, SepAt, RunsOff, Flat
<1> QED BY <1>1, <1>2, <1>3, <1>4, <1>5 DEF Next

-----------------------------------------------------------------------------
(* The theorems that hold for any number of removers.                       *)

\* The invariant.
THEOREM Invariance == Spec => []IInv
<1>1. Init => IInv
  BY BufferAssumption, StartsSound
<1>2. IInv /\ [Next]_vars => IInv'
  BY BufferAssumption, StepKeeps
<1> QED BY <1>1, <1>2, PTL DEF Spec

\* Every variable has its type; buffer_->total_len never exceeds BUFFER_CHAIN_MAX.
THEOREM TypeCorrect == Spec => []TypeOK
<1>1. IInv => TypeOK
  BY DEF IInv
<1> QED BY <1>1, Invariance, PTL

\* buffer_add and buffer_drain, whose calls of several removers may interleave, leave the
\* list as they rely on it.
THEOREM KeepsShape == Spec => []ChainShape
<1>1. IInv => ChainShape
  BY DEF IInv
<1> QED BY <1>1, Invariance, PTL

\* buffer_search never moves last_read_pos past a separator, whole or begun, however the
\* data arrives, for a reader that removes the lines it found.
THEOREM SkipsNothing == Spec => []NoSeparatorSkipped
<1>1. IInv => NoSeparatorSkipped
  BY DEF IInv, Looked, NoSeparatorSkipped
<1> QED BY <1>1, Invariance, PTL

\* The bytes of buffer_add come behind all there is.
THEOREM AddsBehind == Spec => AddedBehind
<1> DEFINE Behind == \A d \in [1 .. total_len' - total_len -> Bytes] :
                       BufferAdd(d) => Flat' = Flat \o d
<1>1. ASSUME IInv, IInv' PROVE [Behind]_vars
  <2> SUFFICES ASSUME NEW d \in [1 .. total_len' - total_len -> Bytes], BufferAdd(d)
               PROVE  Flat' = Flat \o d
    BY DEF vars
  <2>1. total_len' - total_len \in Int
    BY <1>1 DEF IInv, TypeOK
  <2>2. d \in Seq(Bytes)
    <3> DEFINE k == total_len' - total_len
    <3>1. CASE k \in Nat
      BY <3>1, SeqDef
    <3>2. CASE k \notin Nat
      <4>1. k \in Int /\ ~(k >= 0)
        BY <2>1, <3>2
      <4> HIDE DEF k
      <4>2. 1 .. k = 1 .. 0
        BY <4>1
      <4>3. d \in [1 .. 0 -> Bytes]
        BY <4>2 DEF k
      <4> QED BY <4>3, SeqDef
    <3> QED BY <3>1, <3>2
  <2> QED BY <1>1, <2>2, BufferAssumption, BufferAddAdds DEF IInv
<1>2. IInv /\ IInv' => [Behind]_vars
  BY <1>1
<1> QED BY <1>2, Invariance, PTL DEF AddedBehind

-----------------------------------------------------------------------------
(* One remover: the buffer implements ByteStream.                          *)

\* What is copied out is no longer than what is in the buffer.
Held(r) == Len(copied[r]) <= total_len

\* An only remover never drains more than there is.
LEMMA HeldStays ==
  ASSUME BufferAssumption, NEW r, Removers = {r}, IInv, Held(r), [Next]_vars
  PROVE  Held(r)'
<1> USE DEF IInv
<1>1. /\ r \in Removers /\ copied[r] \in Seq(Bytes) /\ Len(copied[r]) \in Nat
      /\ total_len \in Nat /\ copied \in [Removers -> Seq(Bytes)]
  BY LenProperties DEF TypeOK
<1>2. ASSUME NEW d \in BoundedSeq(Bytes, MaxAdd), BufferAdd(d) PROVE Held(r)'
  <2>1. Len(d) \in Nat
    BY GivenIs, LenProperties
  <2>2. total_len' = total_len + Len(d) /\ copied' = copied
    BY <1>2 DEF BufferAdd
  <2> QED BY <1>1, <2>1, <2>2 DEF Held
<1>3. ASSUME NEW n \in 1 .. MaxTotal, CopyOut(r, n) PROVE Held(r)'
  <2> DEFINE m == Min({n, total_len})
  <2>1. m \in 0 .. total_len
    <3>1. n \in Nat \ {0}
      BY DEF BufferAssumption
    <3>2. m = IF n <= total_len THEN n ELSE total_len
      BY <1>1, <3>1, MaxOfTwo
    <3> HIDE DEF m
    <3> QED BY <1>1, <3>1, <3>2
  <2> HIDE DEF m
  <2>2. Flat \in Seq(Bytes) /\ total_len = Len(Flat)
    BY FlatIs DEF ChainShape
  <2>3. copied'[r] = SubSeq(Flat, 1, m) /\ total_len' = total_len
    BY <1>1, <1>3 DEF CopyOut, m
  <2>4. Len(SubSeq(Flat, 1, m)) = m
    BY <2>1, <2>2, SubSeqProperties
  <2> QED BY <2>1, <2>3, <2>4 DEF Held
<1>4. ASSUME Drain(r) PROVE Held(r)'
  <2>1. copied'[r] = <<>>
    BY <1>1, <1>4 DEF Drain
  <2>2. total_len' \in 0 .. total_len
    BY <1>1, <1>4, DrainTakes
  <2> QED BY <2>1, <2>2, EmptySeq DEF Held
<1>5. ASSUME Search PROVE Held(r)'
  BY <1>5 DEF Search, Held
<1>6. ASSUME UNCHANGED vars PROVE Held(r)'
  BY <1>6 DEF vars, Held
<1> QED BY <1>1, <1>2, <1>3, <1>4, <1>5, <1>6 DEF Next

\* What an only remover has copied out is what ByteStream calls taken.
LEMMA TakenIs ==
  ASSUME NEW r, Removers = {r}
  PROVE  /\ Taken = copied[r]
         /\ Taken' = copied'[r]
<1>1. {copied[q] : q \in Removers} = {copied[r]}
  OBVIOUS
<1>2. {copied'[q] : q \in Removers} = {copied'[r]}
  OBVIOUS
<1> QED BY <1>1, <1>2 DEF Taken

\* The first bytes of a sequence and those that are left.
LEMMA FirstIs ==
  ASSUME NEW s \in Seq(Bytes), NEW m \in 0 .. Len(s)
  PROVE  SubSeq(s, 1, m) \in Seq(Bytes) /\ Len(SubSeq(s, 1, m)) = m
<1>1. \A i \in 1 .. m : s[i] \in Bytes
  <2>1. \A i \in 1 .. m : i \in 1 .. Len(s)
    BY LenProperties
  <2> QED BY <2>1, ElementOfSeq
<1>2. m \in Nat
  BY LenProperties
<1> QED BY <1>1, <1>2, SubSeqProperties

\* Every step of an only remover, and of the thread that adds, is one of ByteStream or
\* changes nothing there.
LEMMA StepsAsStream ==
  ASSUME BufferAssumption, NEW r, Removers = {r}, IInv, Held(r), [Next]_vars
  PROVE  Buffer!Next \/ UNCHANGED <<SubSeq(Flat, Len(Taken) + 1, Len(Flat)), Taken>>
<1> USE DEF IInv
<1> DEFINE stream == SubSeq(Flat, Len(Taken) + 1, Len(Flat))
           k == Len(copied[r])
<1>1. /\ r \in Removers /\ copied[r] \in Seq(Bytes) /\ k \in Nat
      /\ Flat \in Seq(Bytes) /\ total_len = Len(Flat) /\ Len(Flat) \in Nat
      /\ copied \in [Removers -> Seq(Bytes)] /\ k \in 0 .. Len(Flat)
  <2>1. Len(copied[r]) <= total_len
    BY DEF Held
  <2> QED BY <2>1, FlatIs, LenProperties DEF TypeOK, ChainShape
<1>2. Taken = copied[r] /\ Taken' = copied'[r]
  BY TakenIs
<1>3. stream = Rest(Flat, k) /\ stream' = Rest(Flat', Len(copied'[r]))
  BY <1>2 DEF Rest
<1>4. stream \in Seq(Bytes) /\ Len(stream) = Len(Flat) - k
  BY <1>1, <1>3, RestIs
<1> HIDE DEF stream
<1>5. ASSUME NEW d \in BoundedSeq(Bytes, MaxAdd), BufferAdd(d)
      PROVE  Len(stream') >= Len(stream)
             /\ stream' = stream \o SubSeq(stream', Len(stream) + 1, Len(stream'))
             /\ UNCHANGED Taken
  <2>1. d \in Seq(Bytes) /\ Len(d) \in Nat
    BY GivenIs, LenProperties
  <2>2. Flat' = Flat \o d
    BY <1>5, <2>1, BufferAddAdds
  <2>3. copied' = copied
    BY <1>5 DEF BufferAdd
  <2>4. stream' = stream \o d
    BY <1>1, <1>3, <2>1, <2>2, <2>3, RestOfFirst DEF k
  <2>5. Len(stream \o d) = Len(stream) + Len(d)
    BY <1>4, <2>1, ConcatProperties
  <2>6. Rest(stream \o d, Len(stream) + 0) = Rest(d, 0)
    <3>1. 0 \in 0 .. Len(d)
      BY <2>1
    <3> QED BY <1>4, <2>1, <3>1, RestOfSecond
  <2>7. Rest(stream \o d, Len(stream)) = d
    <3>1. Len(stream) + 0 = Len(stream)
      BY <1>1, <1>4
    <3> QED BY <2>1, <2>6, <3>1, RestEnds
  <2>8. Len(stream') >= Len(stream)
    BY <1>1, <1>4, <2>1, <2>4, <2>5
  <2> QED BY <1>2, <2>3, <2>4, <2>7, <2>8 DEF Rest
<1>6. ASSUME NEW n \in 1 .. MaxTotal, CopyOut(r, n)
      PROVE  \E m \in 1 .. Len(stream) :
               /\ Taken = <<>>
               /\ Taken' = SubSeq(stream, 1, m)
               /\ stream' = SubSeq(stream, m + 1, Len(stream))
  <2> DEFINE m == Min({n, total_len})
  <2>1. copied[r] = <<>> /\ total_len > 0 /\ chain' = chain
        /\ copied'[r] = SubSeq(Flat, 1, m)
    BY <1>1, <1>6 DEF CopyOut
  <2>2. m \in 1 .. Len(Flat)
    <3>1. n \in Nat \ {0}
      BY DEF BufferAssumption
    <3>2. m = IF n <= total_len THEN n ELSE total_len
      BY <1>1, <3>1, MaxOfTwo
    <3> HIDE DEF m
    <3> QED BY <1>1, <2>1, <3>1, <3>2
  <2> HIDE DEF m
  <2>3. k = 0
    BY <2>1, EmptySeq
  <2>4. stream = Flat
    BY <1>1, <1>3, <2>3, RestEnds
  <2>5. Len(copied'[r]) = m
    BY <1>1, <2>1, <2>2, FirstIs
  <2>6. Flat' = Flat
    BY <2>1 DEF Flat
  <2>7. stream' = Rest(stream, m)
    BY <1>3, <2>4, <2>5, <2>6
  <2> QED BY <1>2, <2>1, <2>2, <2>4, <2>7 DEF Rest
<1>7. ASSUME Drain(r) PROVE Taken' = <<>> /\ UNCHANGED stream
  <2>1. copied'[r] = <<>>
    BY <1>1, <1>7 DEF Drain
  <2>2. Flat' = Rest(Flat, k)
    BY <1>1, <1>7, DrainTakes DEF Held
  <2>3. Rest(Flat', 0) = Flat'
    BY <1>1, <2>2, RestIs, RestEnds
  <2>4. stream' = stream
    BY <1>3, <2>1, <2>2, <2>3, EmptySeq
  <2> QED BY <1>2, <2>1, <2>4
<1>8. ASSUME Search PROVE UNCHANGED <<stream, Taken>>
  <2>1. chain' = chain /\ copied' = copied
    BY <1>8 DEF Search
  <2> QED BY <1>2, <1>3, <2>1 DEF Flat
<1>9. ASSUME UNCHANGED vars PROVE UNCHANGED <<stream, Taken>>
  <2>1. chain' = chain /\ copied' = copied
    BY <1>9 DEF vars
  <2> QED BY <1>2, <1>3, <2>1 DEF Flat
<1>10. Buffer!Next <=>
         \/ /\ Len(stream') >= Len(stream)
            /\ stream' = stream \o SubSeq(stream', Len(stream) + 1, Len(stream'))
            /\ UNCHANGED Taken
         \/ \E m \in 1 .. Len(stream) :
               /\ Taken = <<>>
               /\ Taken' = SubSeq(stream, 1, m)
               /\ stream' = SubSeq(stream, m + 1, Len(stream))
         \/ Taken' = <<>> /\ UNCHANGED stream
  BY DEF Buffer!Next, Buffer!Add, Buffer!Take, Buffer!Deliver, stream
<1>11. Buffer!Next \/ UNCHANGED <<stream, Taken>>
  BY <1>1, <1>5, <1>6, <1>7, <1>8, <1>9, <1>10 DEF Next
<1> QED BY <1>11 DEF stream

\* With one remover the bytes leave in the order they came, each once, although
\* buffer_remove lets go of the lock between copying and draining: the buffer implements
\* ByteStream, and adds behind.
THEOREM LeavesInOrder ==
  ASSUME NEW r, Removers = {r}
  PROVE  Spec => InOrder
<1>1. Init => Held(r) /\ Buffer!Init
  <2> SUFFICES ASSUME Init PROVE Held(r) /\ Buffer!Init
    OBVIOUS
  <2>1. chain = <<>> /\ total_len = 0 /\ copied[r] = <<>>
    BY DEF Init
  <2>2. Flat = <<>> /\ Taken = <<>>
    BY <2>1, ContentsFew, TakenIs DEF Flat
  <2>3. SubSeq(Flat, Len(Taken) + 1, Len(Flat)) = <<>>
    <3>1. Rest(Flat, Len(Flat)) = <<>>
      BY <2>2, EmptySeq, RestEnds
    <3> QED BY <2>2, <3>1 DEF Rest
  <2>4. Held(r)
    BY <2>1, EmptySeq DEF Held
  <2> QED BY <2>2, <2>3, <2>4 DEF Buffer!Init
<1>2. IInv /\ Held(r) /\ [Next]_vars => Held(r)'
  BY BufferAssumption, HeldStays
<1>3. IInv /\ Held(r) /\ [Next]_vars
        => [Buffer!Next]_<<SubSeq(Flat, Len(Taken) + 1, Len(Flat)), Taken>>
  BY BufferAssumption, StepsAsStream
<1>4. Spec => Buffer!Spec
  BY <1>1, <1>2, <1>3, Invariance, PTL DEF Spec, Buffer!Spec
<1> QED BY <1>4, AddsBehind, PTL DEF InOrder

=============================================================================
