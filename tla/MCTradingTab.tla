---------------------------- MODULE MCTradingTab ----------------------------
(* TradingTab for TLC. *)
EXTENDS TradingTab, TLC

\* Users and views are interchangeable; sockets are not, since RunEffect takes
\* the first that is free.
Symmetry == Permutations(Users) \cup Permutations(Views)
=============================================================================
