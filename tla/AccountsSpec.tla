---------------------------- MODULE AccountsSpec ----------------------------
(***************************************************************************)
(* What registration promises: an account comes into being at one instant, *)
(* together with its portfolio, only while its email is free; the visitor  *)
(* is told "created" only for an account that is there, and "taken" only   *)
(* for an email that somebody's account has.                               *)
(***************************************************************************)
CONSTANTS
  Submits,    \* what visitors submit on the signup page
  Adds,       \* accounts the staff adds (admin form, createsuperuser)
  Emails,     \* emails as the database stores them
  People,     \* whoever chooses the password
  NoRequest   \* a submission that asks for no account

VARIABLES
  asked,      \* what each submission asked for: an email and a password
  accounts,   \* the accounts, each with or without a portfolio
  told        \* what each submission was answered

vars == <<asked, accounts, told>>

Wish == [email : Emails, person : People]

Account == [id : Submits \cup Adds, email : Emails, person : People,
            funded : BOOLEAN]

Free(e) == \A a \in accounts : a.email # e

Init ==
  /\ asked = [s \in Submits |-> NoRequest]
  /\ accounts = {}
  /\ told = [s \in Submits |-> "none"]

Ask(s, w) ==
  /\ asked[s] = NoRequest
  /\ asked' = [asked EXCEPT ![s] = w]
  /\ UNCHANGED <<accounts, told>>

\* The account and its portfolio appear together, and so does the answer.
Register(s, answer) ==
  /\ asked[s] # NoRequest
  /\ told[s] = "none"
  /\ Free(asked[s].email)
  /\ accounts' = accounts \cup {[id |-> s, email |-> asked[s].email,
                                 person |-> asked[s].person, funded |-> TRUE]}
  /\ answer \in {"created", "failed"}
  /\ told' = [told EXCEPT ![s] = answer]
  /\ UNCHANGED asked

\* A refusal leaves no account behind; "taken" is said of taken emails only.
Refuse(s, answer) ==
  /\ asked[s] # NoRequest
  /\ told[s] = "none"
  /\ \/ answer = "failed"
     \/ answer = "taken" /\ ~Free(asked[s].email)
  /\ told' = [told EXCEPT ![s] = answer]
  /\ UNCHANGED <<asked, accounts>>

Add(a, w) ==
  /\ Free(w.email)
  /\ \A x \in accounts : x.id # a
  /\ accounts' = accounts \cup {[id |-> a, email |-> w.email,
                                 person |-> w.person, funded |-> FALSE]}
  /\ UNCHANGED <<asked, told>>

Fund(a) ==
  /\ a \in accounts /\ ~a.funded
  /\ accounts' = (accounts \ {a}) \cup {[a EXCEPT !.funded = TRUE]}
  /\ UNCHANGED <<asked, told>>

Next ==
  \/ \E s \in Submits, w \in Wish : Ask(s, w)
  \/ \E s \in Submits, answer \in {"created", "taken", "failed"} :
       Register(s, answer) \/ Refuse(s, answer)
  \/ \E a \in Adds, w \in Wish : Add(a, w)
  \/ \E a \in accounts : Fund(a)

Spec == Init /\ [][Next]_vars
=============================================================================
