----------------------------- MODULE MCAccounts -----------------------------
(* Instances of Accounts for TLC. *)
EXTENDS Accounts, TLC

CONSTANTS upper, lower, other   \* two spellings of one email, and another

Spellings == (upper :> lower) @@ (lower :> lower) @@ (other :> other)
=============================================================================
