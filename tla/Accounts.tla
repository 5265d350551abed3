------------------------------ MODULE Accounts ------------------------------
(***************************************************************************)
(* Registration and login, from the two pages of the web client to the     *)
(* tables of users and portfolios: AuthController.signup and login         *)
(* (accounts/api.py), UserManager (accounts/models.py),                    *)
(* create_user_portfolio (ledger/services/authorization.py), and           *)
(* SignupPage, LoginPage, authStore and Header of the client.  A handler   *)
(* runs in its own thread and meets the others only in the database, whose *)
(* unique index on the email makes an insert wait for, or fail on, another.*)
(***************************************************************************)
CONSTANTS
  Submits,    \* submissions of the signup and login forms, none used twice
  Adds,       \* accounts the staff adds
  Texts,      \* what can be typed as an email
  Emails,     \* the texts that are stored as they are typed
  Norm,       \* pydantic's EmailStr and normalize_email: text to stored email
  People,     \* one password each, and one browser each
  NoSubmit,   \* a browser without a session
  NoForm      \* a submission that was not made yet

ASSUME AccountsAssumption ==
  /\ Emails \subseteq Texts
  /\ Norm \in [Texts -> Emails]
  /\ \A e \in Emails : Norm[e] = e
  /\ Submits \cap Adds = {}
  /\ NoSubmit \notin Submits
  /\ NoForm \notin [kind : {"signup", "login"}, text : Texts, person : People]
  /\ NoForm \notin [email : Emails, person : People]

VARIABLES
  form,       \* what was typed, on which page, in whose browser
  stage,      \* where handleSubmit of the page is
  pc,         \* where the signup request is on the server
  newUser,    \* the user row of its open transaction
  newFolio,   \* the portfolio row of its open transaction
  answer,     \* the answer to the signup request
  known,      \* was the email taken already when the request was sent?
  users,      \* committed rows of User
  folios,     \* users with a committed row of Portfolio
  session     \* authStore: the submission that each browser is logged in by

clientVars == <<form, stage, session>>
serverVars == <<pc, newUser, newFolio, answer>>
tables == <<users, folios>>
vars == <<clientVars, serverVars, known, tables>>

Form == [kind : {"signup", "login"}, text : Texts, person : People]
User == [id : Submits \cup Adds, email : Emails, person : People]

Init ==
  /\ form = [s \in Submits |-> NoForm]
  /\ stage = [s \in Submits |-> "unused"]
  /\ pc = [s \in Submits |-> "none"]
  /\ newUser = [s \in Submits |-> {}]
  /\ newFolio = [s \in Submits |-> {}]
  /\ answer = [s \in Submits |-> "none"]
  /\ known = [s \in Submits |-> FALSE]
  /\ users = {}
  /\ folios = {}
  /\ session = [b \in People |-> NoSubmit]

\* The stored form of the email a submission is about, and who has it.
Email(s) == Norm[form[s].text]
Taken(e) == \E u \in users : u.email = e
Uncommitted(e) == \E t \in Submits : \E u \in newUser[t] : u.email = e

(***************************************************************************)
(* The pages.  The button is disabled while handleSubmit runs, but the     *)
(* links of the page are not: a visitor may leave it and submit the other  *)
(* form, so two submissions of one browser can be under way.               *)
(***************************************************************************)
Submit(s, f) ==
  /\ stage[s] = "unused"
  /\ form' = [form EXCEPT ![s] = f]
  /\ stage' = [stage EXCEPT ![s] = f.kind]
  /\ IF f.kind = "signup"
       THEN /\ pc' = [pc EXCEPT ![s] = "check"]
            /\ known' = [known EXCEPT ![s] = Taken(Norm[f.text])]
       ELSE UNCHANGED <<pc, known>>
  /\ UNCHANGED <<newUser, newFolio, answer, tables, session>>

\* SignupPage: after a 201 it logs in with what was typed; otherwise it shows
\* the error.  Signup alone gives no tokens.
SignupAnswered(s) ==
  /\ stage[s] = "signup"
  /\ answer[s] # "none"
  /\ stage' = [stage EXCEPT ![s] = IF answer[s] = "created" THEN "login" ELSE "error"]
  /\ UNCHANGED <<form, session, serverVars, known, tables>>

\* AuthController.login: the stored email must be, letter by letter, what was
\* typed (its schema does not normalise), and the password must be its own.
Matches(u, s) == u.email = form[s].text /\ u.person = form[s].person

\* The answer to the login, then setTokens and the way to the dashboard, or
\* the error.
LoginAnswered(s) ==
  /\ stage[s] = "login"
  /\ IF \E u \in users : Matches(u, s)
       THEN /\ stage' = [stage EXCEPT ![s] = "in"]
            /\ session' = [session EXCEPT ![form[s].person] = s]
       ELSE /\ stage' = [stage EXCEPT ![s] = "error"]
            /\ UNCHANGED session
  /\ UNCHANGED <<form, serverVars, known, tables>>

\* The network fails the page: "Something went wrong. Please try again."  What
\* was sent may still be at work on the server.
AnswerLost(s) ==
  /\ stage[s] \in {"signup", "login"}
  /\ stage' = [stage EXCEPT ![s] = "error"]
  /\ UNCHANGED <<form, session, serverVars, known, tables>>

\* clearTokens: Header's logout, or a 401 that ends the session.
ClearTokens(b) ==
  /\ session[b] # NoSubmit
  /\ session' = [session EXCEPT ![b] = NoSubmit]
  /\ UNCHANGED <<form, stage, serverVars, known, tables>>

(***************************************************************************)
(* AuthController.signup: a SELECT outside of any transaction, then one    *)
(* transaction with two inserts.                                           *)
(***************************************************************************)
\* Faulty variant: the check looks for the email as it was typed.
CheckAsTyped(s) ==
  /\ pc[s] = "check"
  /\ IF Taken(form[s].text)
       THEN /\ answer' = [answer EXCEPT ![s] = "taken"]
            /\ pc' = [pc EXCEPT ![s] = "done"]
       ELSE /\ pc' = [pc EXCEPT ![s] = "insert"]
            /\ UNCHANGED answer
  /\ UNCHANGED <<clientVars, newUser, newFolio, known, tables>>

Check(s) ==
  /\ pc[s] = "check"
  /\ IF Taken(Email(s))
       THEN /\ answer' = [answer EXCEPT ![s] = "taken"]
            /\ pc' = [pc EXCEPT ![s] = "done"]
       ELSE /\ pc' = [pc EXCEPT ![s] = "insert"]
            /\ UNCHANGED answer
  /\ UNCHANGED <<clientVars, newUser, newFolio, known, tables>>

\* Faulty variants: the column is not unique; there is no transaction.
InsertUnindexed(s) ==
  /\ pc[s] = "insert"
  /\ newUser' = [newUser EXCEPT ![s] =
        {[id |-> s, email |-> Email(s), person |-> form[s].person]}]
  /\ pc' = [pc EXCEPT ![s] = "fund"]
  /\ UNCHANGED <<clientVars, newFolio, answer, known, tables>>

InsertAutocommitted(s) ==
  /\ pc[s] = "insert"
  /\ ~Taken(Email(s))
  /\ users' = users \cup {[id |-> s, email |-> Email(s), person |-> form[s].person]}
  /\ pc' = [pc EXCEPT ![s] = "fund"]
  /\ UNCHANGED <<clientVars, newUser, newFolio, answer, known, folios>>

\* create_user.  The unique index: wait for the other transaction that holds
\* this email to end; if it committed, the insert raises an IntegrityError,
\* which nothing catches (a 500).
Insert(s) ==
  /\ pc[s] = "insert"
  /\ ~Uncommitted(Email(s))
  /\ IF Taken(Email(s))
       THEN /\ answer' = [answer EXCEPT ![s] = "clash"]
            /\ pc' = [pc EXCEPT ![s] = "done"]
            /\ UNCHANGED newUser
       ELSE /\ newUser' = [newUser EXCEPT ![s] =
                 {[id |-> s, email |-> Email(s), person |-> form[s].person]}]
            /\ pc' = [pc EXCEPT ![s] = "fund"]
            /\ UNCHANGED answer
  /\ UNCHANGED <<clientVars, newFolio, known, tables>>

\* create_user_portfolio, in the same transaction.
Fund(s) ==
  /\ pc[s] = "fund"
  /\ newFolio' = [newFolio EXCEPT ![s] = {s}]
  /\ pc' = [pc EXCEPT ![s] = "commit"]
  /\ UNCHANGED <<clientVars, newUser, answer, known, tables>>

\* Faulty variant: a transaction that fails is never rolled back.
CloseLeaks(s, kept, result) ==
  /\ IF kept
       THEN /\ users' = users \cup newUser[s]
            /\ folios' = folios \cup newFolio[s]
            /\ newUser' = [newUser EXCEPT ![s] = {}]
            /\ newFolio' = [newFolio EXCEPT ![s] = {}]
       ELSE UNCHANGED <<tables, newUser, newFolio>>
  /\ answer' = [answer EXCEPT ![s] = result]
  /\ pc' = [pc EXCEPT ![s] = "done"]
  /\ UNCHANGED <<clientVars, known>>

\* The transaction ends, with everything it did or with nothing.
Close(s, kept, result) ==
  /\ IF kept
       THEN /\ users' = users \cup newUser[s]
            /\ folios' = folios \cup newFolio[s]
       ELSE UNCHANGED tables
  /\ newUser' = [newUser EXCEPT ![s] = {}]
  /\ newFolio' = [newFolio EXCEPT ![s] = {}]
  /\ answer' = [answer EXCEPT ![s] = result]
  /\ pc' = [pc EXCEPT ![s] = "done"]
  /\ UNCHANGED <<clientVars, known>>

Commit(s) == pc[s] = "commit" /\ Close(s, TRUE, "created")

\* A query fails or the server goes down: the database rolls back.
Abort(s) ==
  /\ pc[s] \in {"check", "insert", "fund", "commit"}
  /\ Close(s, FALSE, "failed")

\* The connection breaks after COMMIT was carried out and before it was
\* acknowledged: the visitor is told of a failure.
CommitUnacknowledged(s) == pc[s] = "commit" /\ Close(s, TRUE, "failed")

(***************************************************************************)
(* The staff: createsuperuser and the admin's "add user" form insert a     *)
(* user and nothing else; PortfolioAdmin can add the portfolio later.      *)
(***************************************************************************)
AddUser(a, e, p) ==
  /\ \A u \in users : u.id # a
  /\ ~Taken(e) /\ ~Uncommitted(e)
  /\ users' = users \cup {[id |-> a, email |-> e, person |-> p]}
  /\ UNCHANGED <<clientVars, serverVars, known, folios>>

AddPortfolio(u) ==
  /\ u.id \notin folios
  /\ folios' = folios \cup {u.id}
  /\ UNCHANGED <<clientVars, serverVars, known, users>>

Serve(s) == Check(s) \/ Insert(s) \/ Fund(s) \/ Commit(s)
Land(s) == SignupAnswered(s) \/ LoginAnswered(s)

Next ==
  \/ \E s \in Submits : \/ \E f \in Form : Submit(s, f)
                        \/ Land(s)
                        \/ AnswerLost(s)
                        \/ Serve(s)
                        \/ Abort(s)
                        \/ CommitUnacknowledged(s)
  \/ \E b \in People : ClearTokens(b)
  \/ \E a \in Adds, e \in Emails, p \in People : AddUser(a, e, p)
  \/ \E u \in users : AddPortfolio(u)

Spec == Init /\ [][Next]_vars

\* A handler that can run does run, and an answer that is there arrives or is
\* lost.
FairSpec ==
  Spec /\ \A s \in Submits : WF_vars(Serve(s)) /\ WF_vars(Land(s))

(***************************************************************************)
(* Properties                                                              *)
(***************************************************************************)
TypeOK ==
  /\ form \in [Submits -> Form \cup {NoForm}]
  /\ stage \in [Submits -> {"unused", "signup", "login", "in", "error"}]
  /\ pc \in [Submits -> {"none", "check", "insert", "fund", "commit", "done"}]
  /\ newUser \in [Submits -> SUBSET User]
  /\ newFolio \in [Submits -> SUBSET Submits]
  /\ answer \in [Submits -> {"none", "created", "taken", "clash", "failed"}]
  /\ known \in [Submits -> BOOLEAN]
  /\ users \subseteq User
  /\ folios \subseteq Submits \cup Adds
  /\ session \in [People -> Submits \cup {NoSubmit}]

\* No two accounts share an email, although signup's check that it is free
\* and the insert are two steps.
OneAccountPerEmail ==
  \A u, v \in users : u.email = v.email => u = v

\* An account that comes from the signup page has its portfolio from its first
\* instant, and no portfolio is left without its user: a failure between the
\* two inserts leaves neither.
NoHalfAccount ==
  /\ \A u \in users : u.id \in Submits => u.id \in folios
  /\ \A i \in folios : \E u \in users : u.id = i

\* An email that had an account when the request was sent is answered with
\* the 409, never with the IntegrityError of the index (a 500), and no account.
KnownEmailIsRefused ==
  \A s \in Submits :
    known[s] => /\ answer[s] \in {"none", "taken", "failed"}
                /\ \A u \in users : u.id # s

\* A browser is logged in only as an account that is there and whose stored
\* email and password are the ones typed into the form that logged it in.
SessionsAreReal ==
  \A b \in People :
    session[b] # NoSubmit =>
      /\ form[session[b]].person = b
      /\ \E u \in users : Matches(u, session[b])

\* Registration is atomic as its users see it: see AccountsSpec.
Told(s) == IF answer[s] = "clash" THEN "failed" ELSE answer[s]
Abstract == INSTANCE AccountsSpec WITH
  NoRequest <- NoForm,
  asked <- [s \in Submits |->
              IF form[s] = NoForm \/ pc[s] = "none" THEN NoForm
              ELSE [email |-> Email(s), person |-> form[s].person]],
  accounts <- {[id |-> u.id, email |-> u.email, person |-> u.person,
                funded |-> u.id \in folios] : u \in users},
  told <- [s \in Submits |-> Told(s)]
ImplementsAccountsSpec == Abstract!Spec

\* handleSubmit ends: the button never stays disabled, even when the insert
\* has to wait for another visitor's transaction.
EverySubmitEnds ==
  \A s \in Submits :
    stage[s] \in {"signup", "login"} ~> stage[s] \in {"in", "error"}
=============================================================================
