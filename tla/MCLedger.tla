------------------------------ MODULE MCLedger ------------------------------
(***************************************************************************)
(* Small instances of Ledger for TLC.                                      *)
(***************************************************************************)
EXTENDS Ledger, TLC

\* Neither the workers nor the keys nor the portfolios are told apart by any
\* action or safety property.
Symmetry ==
  Permutations(Workers) \cup Permutations(Keys) \cup Permutations(Portfolios)
=============================================================================
