---------------------------- MODULE MCTokenAuth ----------------------------
(***************************************************************************)
(* Small instances of TokenAuth for TLC.                                   *)
(***************************************************************************)
EXTENDS TokenAuth, TLC

\* The workers that serve requests are interchangeable.
Symmetry == Permutations(Workers)
=============================================================================
