----------------------------- MODULE ChainBuffer -----------------------------
(***************************************************************************)
(* buffer/chain_buffer.cc: the read or write buffer of a socket, a list of  *)
(* chunks of memory.  Data is added behind the last chunk with data and     *)
(* removed from the front; buffer_search looks for a separator and keeps in *)
(* last_read_pos how far it has looked.                                     *)
(*                                                                          *)
(* One thread adds (to the read buffer the socket worker, to the write      *)
(* buffer the service); Removers are the threads that remove.  Each call    *)
(* holds the spinlock, but buffer_remove takes it twice: it copies the data *)
(* out, lets go of the lock, and drains what it copied.                     *)
(*                                                                          *)
(* A chunk keeps its bytes as a sequence, whose length is chain->off.  The  *)
(* sizes are constants, in the proportions of the source when scaled down.  *)
(***************************************************************************)
EXTENDS Integers, Sequences, SequencesExt, FiniteSetsExt

CONSTANTS
  Bytes,                       \* the values of a byte
  Removers,                    \* the threads that call buffer_remove
  BUFFER_CHAIN_SIZE,           \* the header of a chunk
  MIN_BUFFER_SIZE,
  BUFFER_CHAIN_MAX_AUTO_SIZE,
  MAX_TO_REALIGN_IN_EXPAND,
  BUFFER_CHAIN_MAX,
  MaxAdd,                      \* bound on the bytes of one call
  MaxTotal,                    \* bound on the bytes in the buffer
  Sep                          \* the separator of buffer_search

ASSUME BufferAssumption ==
  /\ {BUFFER_CHAIN_SIZE, MIN_BUFFER_SIZE, BUFFER_CHAIN_MAX, MaxAdd, MaxTotal,
      BUFFER_CHAIN_MAX_AUTO_SIZE, MAX_TO_REALIGN_IN_EXPAND} \subseteq Nat \ {0}
  /\ BUFFER_CHAIN_SIZE < BUFFER_CHAIN_MAX
  /\ Sep \in Seq(Bytes) \ {<<>>}

VARIABLES
  chain,          \* the chunks from buffer_->first on, each [cap, misalign, data]
  lastData,       \* last_with_datap, as the index of the chunk it leads to
  total_len,      \* buffer_->total_len
  last_read_pos,  \* buffer_->last_read_pos
  copied,         \* per remover, what it has copied out and not yet drained
  found,          \* the length buffer_search returned last, till it is used
  byLine,         \* only what it returned has been removed (history)
  crashed         \* a null chunk was dereferenced

vars == <<chain, lastData, total_len, last_read_pos, copied, found, byLine, crashed>>

Chunks == [cap : Nat, misalign : Nat, data : Seq(Bytes)]

TypeOK ==
  /\ chain \in Seq(Chunks)
  /\ lastData \in Nat \ {0}
  /\ total_len \in 0 .. BUFFER_CHAIN_MAX
  /\ last_read_pos \in Nat
  /\ copied \in [Removers -> Seq(Bytes)]
  /\ found \in Nat /\ byLine \in BOOLEAN
  /\ crashed \in BOOLEAN

\* zero_chain in the constructor; new buffer() clears last_read_pos
Init ==
  /\ chain = <<>> /\ lastData = 1
  /\ total_len = 0 /\ last_read_pos = 0
  /\ copied = [r \in Removers |-> <<>>]
  /\ found = 0 /\ byLine = TRUE
  /\ crashed = FALSE

\* the bytes of the first i chunks
Joined(list) ==
  LET joined[i \in 0 .. Len(list)] ==
        IF i = 0 THEN <<>> ELSE joined[i - 1] \o list[i].data
  IN  joined

Contents(list) == Joined(list)[Len(list)]
Flat == Contents(chain)

-----------------------------------------------------------------------------
(* Chunks.                                                                 *)

Allocatable(n) == n <= BUFFER_CHAIN_MAX - BUFFER_CHAIN_SIZE

\* the loop of buf_chain_new after so many turns, of which it needs no more than size
Doubled(size) ==
  LET doubled[turn \in 0 .. size] ==
        IF turn = 0 THEN MIN_BUFFER_SIZE
        ELSE LET toAlloc == doubled[turn - 1]
             IN  IF toAlloc < size THEN 2 * toAlloc ELSE toAlloc
  IN  doubled

\* buf_chain_new: the least size is doubled until there is room, if that is not too much
NewChunk(n) ==
  LET size    == n + BUFFER_CHAIN_SIZE
      toAlloc == IF size < BUFFER_CHAIN_MAX \div 2 THEN Doubled(size)[size] ELSE size
  IN  [cap |-> toAlloc - BUFFER_CHAIN_SIZE, misalign |-> 0, data |-> <<>>]

Fill(c, d) == [c EXCEPT !.data = @ \o d]

Room(c) == c.cap - c.misalign - Len(c.data)

\* buf_chain_should_realign
ShouldRealign(c, n) ==
  /\ c.cap - Len(c.data) >= n
  /\ Len(c.data) < c.cap \div 2
  /\ Len(c.data) <= MAX_TO_REALIGN_IN_EXPAND

\* mutant: the data is not moved to the start of the chunk
Align_Not(c) == c

\* buf_chain_align
Align(c) == [c EXCEPT !.misalign = 0]

\* the size buffer_add asks for when the chunk c is full
ToAlloc(c, n) ==
  Max({n, IF c.cap <= BUFFER_CHAIN_MAX_AUTO_SIZE \div 2 THEN 2 * c.cap ELSE c.cap})

\* free_empty_chains: the chunks kept when a new one is put behind lastData
Kept(list) ==
  LET empty == {i \in lastData .. Len(list) : list[i].data = <<>>}
  IN  IF empty = {} THEN list ELSE SubSeq(list, 1, Min(empty) - 1)

-----------------------------------------------------------------------------
(* buffer_add; a call that fails changes nothing.                          *)

\* the chunk that data goes to: a new one when there is none
Open(n) == IF chain = <<>> THEN <<NewChunk(n)>> ELSE chain

\* the data fits into the chunk, as it is or after its data is moved
AddInPlace(d) ==
  LET list == Open(Len(d))
      c    == list[lastData]
  IN  \/ /\ Room(c) >= Len(d)
         /\ chain' = [list EXCEPT ![lastData] = Fill(c, d)]
      \/ /\ Room(c) < Len(d) /\ ShouldRealign(c, Len(d))
         /\ chain' = [list EXCEPT ![lastData] = Fill(Align(c), d)]

\* the chunk is filled up and the rest goes to a new one
AddChunk(d) ==
  LET list == Open(Len(d))
      c    == list[lastData]
      size == ToAlloc(c, Len(d))
  IN  /\ Room(c) < Len(d) /\ ~ShouldRealign(c, Len(d))
      /\ Allocatable(size)
      /\ chain' = Append(Kept([list EXCEPT ![lastData] =
                                 Fill(c, SubSeq(d, 1, Room(c)))]),
                         Fill(NewChunk(size), SubSeq(d, Room(c) + 1, Len(d))))
      /\ lastData' = Len(chain')

\* mutant: the limit is checked against the new data alone
BufferAdd_OwnLimit(d) ==
  /\ ~crashed
  /\ total_len + Len(d) <= MaxTotal
  /\ Len(d) <= BUFFER_CHAIN_MAX
  /\ chain = <<>> => Allocatable(Len(d))
  /\ total_len' = total_len + Len(d)
  /\ \/ AddInPlace(d) /\ UNCHANGED lastData
     \/ AddChunk(d)
  /\ UNCHANGED <<last_read_pos, copied, found, byLine, crashed>>

BufferAdd(d) ==
  /\ ~crashed
  /\ total_len + Len(d) <= MaxTotal
  /\ Len(d) <= BUFFER_CHAIN_MAX - total_len
  /\ chain = <<>> => Allocatable(Len(d))
  /\ total_len' = total_len + Len(d)
  /\ \/ AddInPlace(d) /\ UNCHANGED lastData
     \/ AddChunk(d)
  /\ UNCHANGED <<last_read_pos, copied, found, byLine, crashed>>

-----------------------------------------------------------------------------
(* buffer_remove.                                                          *)

\* first section: buf_copy_out
CopyOut(r, n) ==
  /\ ~crashed
  /\ copied[r] = <<>> /\ total_len > 0
  /\ copied' = [copied EXCEPT ![r] = SubSeq(Flat, 1, Min({n, total_len}))]
  /\ found' = 0 /\ byLine' = (byLine /\ n = found)
  /\ UNCHANGED <<chain, lastData, total_len, last_read_pos, crashed>>

\* how many chunks go when n bytes, fewer than there are, are drained
Gone(n) ==
  CHOOSE k \in 0 .. Len(chain) - 1 :
    Len(Joined(chain)[k]) <= n /\ n < Len(Joined(chain)[k + 1])

\* mutant: misalign is not moved, so the chunk loses its last bytes
DrainPart_NoMisalign(n) ==
  LET k    == Gone(n)
      rest == n - Len(Joined(chain)[k])
      c    == chain[k + 1]
  IN  /\ chain' = <<[c EXCEPT !.data = SubSeq(@, 1, Len(@) - rest)]>>
                    \o SubSeq(chain, k + 2, Len(chain))
      /\ lastData' = Max({1, lastData - k})
      /\ total_len' = total_len - n

\* the loop of buffer_drain; last_with_datap never leads to a chunk before first
DrainPart(n) ==
  LET k    == Gone(n)
      rest == n - Len(Joined(chain)[k])
      c    == chain[k + 1]
  IN  /\ chain' = <<[c EXCEPT !.misalign = @ + rest,
                              !.data = SubSeq(@, rest + 1, Len(@))]>>
                    \o SubSeq(chain, k + 2, Len(chain))
      /\ lastData' = Max({1, lastData - k})
      /\ total_len' = total_len - n

\* second section: buffer_drain
Drain(r) ==
  /\ ~crashed
  /\ copied[r] # <<>>
  /\ LET n == Len(copied[r])
     IN  IF n < total_len
           THEN DrainPart(n)
           ELSE IF total_len = 0
             THEN UNCHANGED <<chain, lastData, total_len>>
             ELSE chain' = <<>> /\ lastData' = 1 /\ total_len' = 0
  /\ copied' = [copied EXCEPT ![r] = <<>>]
  /\ UNCHANGED <<last_read_pos, found, byLine, crashed>>

-----------------------------------------------------------------------------
(* buffer_search, called by a remover between two of its calls.  The walk   *)
(* over the chunks visits the bytes in order.                               *)

SepAt(i) ==
  /\ i + Len(Sep) <= total_len
  /\ SubSeq(Flat, i + 1, i + Len(Sep)) = Sep

\* check_sep reaches the end of the list in the middle of the separator
RunsOff(i) ==
  /\ i + Len(Sep) > total_len
  /\ SubSeq(Flat, i + 1, total_len) = SubSeq(Sep, 1, total_len - i)

\* the loop runs up to total_len - seplen; the difference is unsigned, so with
\* fewer bytes than that it runs until the list ends
LastTried == IF total_len < Len(Sep) THEN total_len - 1 ELSE total_len - Len(Sep)

\* i after the loop: not incremented by the break at the end of the list
AfterLoop == IF LastTried = total_len - 1 THEN LastTried ELSE LastTried + 1

\* mutant: the position goes past a separator that has come in part
Search_Past ==
  /\ ~crashed
  /\ \A r \in Removers : copied[r] = <<>>
  /\ last_read_pos < total_len
  /\ LET hits == {i \in last_read_pos .. LastTried : SepAt(i) \/ RunsOff(i)}
     IN  IF hits = {}
           THEN /\ last_read_pos' = total_len
                /\ UNCHANGED <<found, crashed>>
           ELSE IF RunsOff(Min(hits))
             THEN crashed' = TRUE /\ UNCHANGED <<last_read_pos, found>>
             ELSE /\ found' = Min(hits) + Len(Sep)
                  /\ last_read_pos' = 0
                  /\ UNCHANGED crashed
  /\ UNCHANGED <<chain, lastData, total_len, copied, byLine>>

Search ==
  /\ ~crashed
  /\ \A r \in Removers : copied[r] = <<>>
  /\ last_read_pos < total_len
  /\ LET hits == {i \in last_read_pos .. LastTried : SepAt(i) \/ RunsOff(i)}
     IN  IF hits = {}
           THEN /\ last_read_pos' = Max({last_read_pos, AfterLoop})
                /\ UNCHANGED <<found, crashed>>
           ELSE IF RunsOff(Min(hits))
             THEN crashed' = TRUE /\ UNCHANGED <<last_read_pos, found>>
             ELSE /\ found' = Min(hits) + Len(Sep)
                  /\ last_read_pos' = 0
                  /\ UNCHANGED crashed
  /\ UNCHANGED <<chain, lastData, total_len, copied, byLine>>

Next ==
  \/ \E d \in BoundedSeq(Bytes, MaxAdd) : BufferAdd(d)
  \/ \E r \in Removers :
       \/ \E n \in 1 .. MaxTotal : CopyOut(r, n)
       \/ Drain(r)
  \/ Search

Spec == Init /\ [][Next]_vars

-----------------------------------------------------------------------------
(* Properties.                                                             *)

\* The list is what buffer_add and buffer_drain rely on: total_len counts its
\* bytes, the data of a chunk lies inside its memory, no chunk is empty but an
\* only one, and last_with_datap leads to the last chunk.
ChainShape ==
  /\ total_len = Len(Flat)
  /\ \A i \in DOMAIN chain : Room(chain[i]) >= 0
  /\ Len(chain) > 1 => \A i \in DOMAIN chain : chain[i].data # <<>>
  /\ lastData = Max({1, Len(chain)})

Taken == CHOOSE d \in {copied[r] : r \in Removers} :
           \A e \in {copied[r] : r \in Removers} : Len(e) <= Len(d)

Buffer == INSTANCE ByteStream WITH
  stream <- SubSeq(Flat, Len(Taken) + 1, Len(Flat)),
  taken  <- Taken

\* What buffer_add is given comes behind all there is, whole, also when it is
\* split over two chunks or the data before it is moved.
AddedBehind ==
  [][\A d \in [1 .. total_len' - total_len -> Bytes] :
       BufferAdd(d) => Flat' = Flat \o d]_vars

\* The bytes leave in the order they came, each once, although buffer_remove
\* lets go of the lock between copying and draining.
InOrder == Buffer!Spec /\ AddedBehind

\* A reader that removes only the lines it found misses no separator: none begins
\* before the position from which the next search goes on.
NoSeparatorSkipped ==
  byLine => \A i \in 0 .. last_read_pos - 1 : ~SepAt(i)

\* The search stays inside the list whatever has arrived so far.
SearchStaysInside == ~crashed

=============================================================================
