------------------------ MODULE MCPortfolioConsumer ------------------------
(***************************************************************************)
(* Small instances of PortfolioConsumer for TLC.                           *)
(***************************************************************************)
EXTENDS PortfolioConsumer, TLC

\* Workers are interchangeable, and so are sockets.
Symmetry == Permutations(Workers) \cup Permutations(Sockets)
=============================================================================
