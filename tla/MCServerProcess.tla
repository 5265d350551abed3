-------------------------- MODULE MCServerProcess --------------------------
(* Instances of ServerProcess for TLC. *)
EXTENDS ServerProcess, TLC

CONSTANTS w1, c1, c2

\* Both carriers belong to the one worker.
OneHome == (c1 :> w1) @@ (c2 :> w1)

KeyThenPassword == <<"SECRET_KEY", "DB_PASSWORD">>
Names == {"SECRET_KEY", "DB_PASSWORD"}

\* Vault holds both secrets or one of them, or is not set up; the environment
\* holds the other one, or nothing.
SomeDeployments ==
  [configured : {TRUE}, vault : {Names, {"DB_PASSWORD"}}, env : {{"SECRET_KEY"}}]
    \cup [configured : {FALSE}, vault : {{}}, env : {{}, {"SECRET_KEY"}}]
=============================================================================
