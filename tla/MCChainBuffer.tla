--------------------------- MODULE MCChainBuffer ---------------------------
(***************************************************************************)
(* Instances of ChainBuffer for TLC.                                        *)
(***************************************************************************)
EXTENDS ChainBuffer

\* a separator of two bytes, as "\r\n"
TwoBytes == <<"r", "n">>

=============================================================================
