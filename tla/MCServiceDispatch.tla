-------------------------- MODULE MCServiceDispatch --------------------------
(***************************************************************************)
(* Instances of ServiceDispatch for TLC.                                    *)
(***************************************************************************)
EXTENDS ServiceDispatch, TLC

\* Services are interchangeable, and so are workers: the safety run uses it.
Symmetry == Permutations(Services) \cup Permutations(Workers)

=============================================================================
