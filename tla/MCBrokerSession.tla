-------------------------- MODULE MCBrokerSession --------------------------
(***************************************************************************)
(* Small instances of BrokerSession for TLC.                               *)
(***************************************************************************)
EXTENDS BrokerSession, TLC

\* The workers that serve requests are interchangeable.
Symmetry == Permutations(Workers)
=============================================================================
