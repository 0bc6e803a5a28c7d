----------------------------- MODULE ByteStream -----------------------------
(***************************************************************************)
(* What the chain buffer of a socket promises: the bytes leave in the order *)
(* in which they came, each of them once.  ChainBuffer implements it when   *)
(* one thread removes.                                                      *)
(***************************************************************************)
EXTENDS Naturals, Sequences

CONSTANT Bytes

VARIABLES
  stream,  \* the bytes in the buffer
  taken    \* the bytes a remover is walking away with

Init == stream = <<>> /\ taken = <<>>

Add(d) == stream' = stream \o d /\ UNCHANGED taken

Take(n) ==
  /\ taken = <<>>
  /\ taken' = SubSeq(stream, 1, n)
  /\ stream' = SubSeq(stream, n + 1, Len(stream))

Deliver == taken' = <<>> /\ UNCHANGED stream

\* Add with its data read off the step
Next ==
  \/ /\ Len(stream') >= Len(stream)
     /\ Add(SubSeq(stream', Len(stream) + 1, Len(stream')))
  \/ \E n \in 1 .. Len(stream) : Take(n)
  \/ Deliver

Spec == Init /\ [][Next]_<<stream, taken>>

=============================================================================
