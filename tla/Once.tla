-------------------------------- MODULE Once --------------------------------
(***************************************************************************)
(* A value that is built when it is first needed, once in each place, and  *)
(* handed to everyone who asks for it there until the place goes down.     *)
(***************************************************************************)
CONSTANTS Places, Callers, Home, Values, NoValue

VARIABLES value, taken

vars == <<value, taken>>

Init ==
  /\ value = [p \in Places |-> NoValue]
  /\ taken = [c \in Callers |-> NoValue]

Build(p, v) ==
  /\ value[p] = NoValue
  /\ value' = [value EXCEPT ![p] = v]
  /\ UNCHANGED taken

Take(c) ==
  /\ value[Home[c]] # NoValue
  /\ taken' = [taken EXCEPT ![c] = value[Home[c]]]
  /\ UNCHANGED value

Give(c) ==
  /\ taken' = [taken EXCEPT ![c] = NoValue]
  /\ UNCHANGED value

GoDown(p) ==
  /\ value' = [value EXCEPT ![p] = NoValue]
  /\ taken' = [c \in Callers |-> IF Home[c] = p THEN NoValue ELSE taken[c]]

Next ==
  \/ \E p \in Places : GoDown(p) \/ \E v \in Values : Build(p, v)
  \/ \E c \in Callers : Take(c) \/ Give(c)

Spec == Init /\ [][Next]_vars
=============================================================================
