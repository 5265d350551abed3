--------------------------- MODULE AccountsProofs ---------------------------
(***************************************************************************)
(* Registration, for any number of visitors, submissions, emails and       *)
(* spellings: one account per email, no account without its portfolio, and *)
(* the refinement of AccountsSpec.                                         *)
(***************************************************************************)
EXTENDS Accounts, TLAPS

Row(s) == [id |-> s, email |-> Email(s), person |-> form[s].person]
InTransaction(s) == pc[s] \in {"fund", "commit"}

\* A submission and its request: what is typed stays, and the transaction holds
\* exactly what the request has inserted so far.
InOrder(s) ==
  /\ form[s] = NoForm <=> stage[s] = "unused"
  /\ stage[s] = "unused" => pc[s] = "none"
  /\ answer[s] # "none" <=> pc[s] = "done"
  /\ newUser[s] = IF InTransaction(s) THEN {Row(s)} ELSE {}
  /\ newFolio[s] = IF pc[s] = "commit" THEN {s} ELSE {}

RequestsInOrder == \A s \in Submits : InOrder(s)

\* A committed row of a submission is the one its request inserted.
RowsAreRequests ==
  \A u \in users :
    /\ u.id \in Submits => pc[u.id] = "done" /\ u = Row(u.id)
    /\ \A v \in users : u.id = v.id => u = v

\* What the unique index holds: the emails of open transactions are free, and
\* different from each other.
Reserved ==
  \A s \in Submits :
    InTransaction(s) =>
      /\ ~Taken(Email(s))
      /\ \A t \in Submits : InTransaction(t) /\ Email(t) = Email(s) => t = s

\* An email that is taken stays taken, so the check finds it.
KnownStays ==
  \A s \in Submits :
    known[s] => /\ pc[s] \in {"check", "done"}
                /\ Taken(Email(s))

SessionsAreSubmitted ==
  \A b \in People : session[b] # NoSubmit => stage[session[b]] # "unused"

IInv ==
  /\ TypeOK
  /\ RequestsInOrder
  /\ RowsAreRequests
  /\ Reserved
  /\ OneAccountPerEmail
  /\ NoHalfAccount
  /\ KnownStays
  /\ KnownEmailIsRefused
  /\ SessionsAreReal
  /\ SessionsAreSubmitted

USE AccountsAssumption

LEMMA InitInv == Init => IInv
  <1> SUFFICES ASSUME Init PROVE IInv
    OBVIOUS
  <1>1. TypeOK
    BY DEF Init, TypeOK
  <1>2. RequestsInOrder /\ Reserved
    BY DEF Init, RequestsInOrder, InOrder, Reserved, InTransaction
  <1>3. RowsAreRequests /\ OneAccountPerEmail /\ NoHalfAccount
    BY DEF Init, RowsAreRequests, OneAccountPerEmail, NoHalfAccount
  <1>4. /\ KnownStays /\ KnownEmailIsRefused
        /\ SessionsAreReal /\ SessionsAreSubmitted
    BY DEF Init, KnownStays, KnownEmailIsRefused, SessionsAreReal, SessionsAreSubmitted
  <1> QED
    BY <1>1, <1>2, <1>3, <1>4 DEF IInv

\* A submission is a new one: nothing on the server is about it yet.
LEMMA SubmitInv ==
  ASSUME IInv, NEW s \in Submits, NEW f \in Form, Submit(s, f)
  PROVE  IInv'
  <1> USE DEF Submit, clientVars, serverVars, tables
  <1>1. TypeOK'
    <2>1. f.kind \in {"signup", "login"}
      BY DEF Form
    <2>2. /\ form' \in [Submits -> Form \cup {NoForm}]
          /\ stage' \in [Submits -> {"unused", "signup", "login", "in", "error"}]
      BY <2>1 DEF IInv, TypeOK
    <2>3. /\ pc' \in [Submits -> {"none", "check", "insert", "fund", "commit", "done"}]
          /\ known' \in [Submits -> BOOLEAN]
      BY DEF IInv, TypeOK, Taken
    <2> QED
      BY <2>2, <2>3 DEF IInv, TypeOK
  <1>2. RequestsInOrder'
    BY DEF IInv, TypeOK, RequestsInOrder, InOrder, InTransaction, Row, Email, Form
  <1>3. RowsAreRequests'
    BY DEF IInv, TypeOK, RequestsInOrder, RowsAreRequests, InOrder, Row, Email, InTransaction, Form
  <1>4. Reserved'
    BY DEF IInv, TypeOK, RequestsInOrder, RowsAreRequests, Reserved, InOrder, InTransaction, Email, Taken, Form
  <1>5. OneAccountPerEmail'
    BY DEF IInv, TypeOK, OneAccountPerEmail
  <1>6. NoHalfAccount'
    BY DEF IInv, TypeOK, NoHalfAccount
  <1>7. KnownStays'
    BY DEF IInv, TypeOK, RequestsInOrder, RowsAreRequests, KnownStays, InOrder, Taken, Email, Form
  <1>8. KnownEmailIsRefused'
    BY DEF IInv, TypeOK, RequestsInOrder, RowsAreRequests, KnownEmailIsRefused, InOrder
  <1>9. SessionsAreReal'
    <2>1. \A b \in People : session[b] # NoSubmit => session[b] # s
      BY DEF IInv, TypeOK, SessionsAreSubmitted
    <2> QED
      BY <2>1 DEF IInv, TypeOK, SessionsAreReal, Matches
  <1>10. SessionsAreSubmitted'
    BY DEF IInv, TypeOK, SessionsAreSubmitted
  <1> QED
    BY <1>1, <1>2, <1>3, <1>4, <1>5, <1>6, <1>7, <1>8, <1>9, <1>10 DEF IInv

\* What arrives at a page, or is lost, leaves the server as it is.
LEMMA LandInv ==
  ASSUME IInv, NEW s \in Submits, Land(s) \/ AnswerLost(s)
  PROVE  IInv'
  <1> USE DEF Land, SignupAnswered, LoginAnswered, AnswerLost, clientVars, serverVars, tables
  <1>1. TypeOK'
    BY DEF IInv, TypeOK, Form, User
  <1>2. RequestsInOrder'
    <2>1. \A t \in Submits : stage'[t] = "unused" <=> stage[t] = "unused"
      BY DEF IInv, TypeOK
    <2> QED
      BY <2>1 DEF IInv, RequestsInOrder, InOrder, InTransaction, Row, Email
  <1>3. RowsAreRequests'
    BY DEF IInv, TypeOK, RowsAreRequests, Row, Email
  <1>4. Reserved'
    BY DEF IInv, TypeOK, Reserved, InTransaction, Email, Taken
  <1>5. OneAccountPerEmail'
    BY DEF IInv, TypeOK, OneAccountPerEmail
  <1>6. NoHalfAccount'
    BY DEF IInv, TypeOK, NoHalfAccount
  <1>7. KnownStays'
    BY DEF IInv, TypeOK, KnownStays, Taken, Email
  <1>8. KnownEmailIsRefused'
    BY DEF IInv, TypeOK, KnownEmailIsRefused
  <1>9. SessionsAreReal'
    BY DEF IInv, TypeOK, SessionsAreReal, Matches
  <1>10. SessionsAreSubmitted'
    BY DEF IInv, TypeOK, SessionsAreSubmitted
  <1> QED
    BY <1>1, <1>2, <1>3, <1>4, <1>5, <1>6, <1>7, <1>8, <1>9, <1>10 DEF IInv

\* A session that ends leaves everything else as it is.
LEMMA ClearInv ==
  ASSUME IInv, NEW b \in People, ClearTokens(b)
  PROVE  IInv'
  <1> USE DEF ClearTokens, clientVars, serverVars, tables
  <1>1. TypeOK'
    BY DEF IInv, TypeOK, Form, User
  <1>2. RequestsInOrder'
    BY DEF IInv, TypeOK, RequestsInOrder, InOrder, InTransaction, Row, Email
  <1>3. RowsAreRequests'
    BY DEF IInv, TypeOK, RowsAreRequests, Row, Email
  <1>4. Reserved'
    BY DEF IInv, TypeOK, Reserved, InTransaction, Email, Taken
  <1>5. OneAccountPerEmail'
    BY DEF IInv, TypeOK, OneAccountPerEmail
  <1>6. NoHalfAccount'
    BY DEF IInv, TypeOK, NoHalfAccount
  <1>7. KnownStays'
    BY DEF IInv, TypeOK, KnownStays, Taken, Email
  <1>8. KnownEmailIsRefused'
    BY DEF IInv, TypeOK, KnownEmailIsRefused
  <1>9. SessionsAreReal'
    BY DEF IInv, TypeOK, SessionsAreReal, Matches
  <1>10. SessionsAreSubmitted'
    BY DEF IInv, TypeOK, SessionsAreSubmitted
  <1> QED
    BY <1>1, <1>2, <1>3, <1>4, <1>5, <1>6, <1>7, <1>8, <1>9, <1>10 DEF IInv

\* Check finds every email that was taken when the request was sent.
LEMMA CheckInv ==
  ASSUME IInv, NEW s \in Submits, Check(s)
  PROVE  IInv'
  <1> USE DEF Check, clientVars, serverVars, tables
  <1>1. TypeOK'
    BY DEF IInv, TypeOK, Form, User
  <1>2. RequestsInOrder'
    BY DEF IInv, TypeOK, RequestsInOrder, InOrder, InTransaction, Row, Email
  <1>3. RowsAreRequests'
    BY DEF IInv, TypeOK, RequestsInOrder, RowsAreRequests, InOrder, Row, Email
  <1>4. Reserved'
    BY DEF IInv, TypeOK, Reserved, InTransaction, Email, Taken
  <1>5. OneAccountPerEmail'
    BY DEF IInv, TypeOK, OneAccountPerEmail
  <1>6. NoHalfAccount'
    BY DEF IInv, TypeOK, NoHalfAccount
  <1>7. KnownStays'
    BY DEF IInv, TypeOK, RequestsInOrder, RowsAreRequests, KnownStays, InOrder, Taken, Email
  <1>8. KnownEmailIsRefused'
    BY DEF IInv, TypeOK, RequestsInOrder, RowsAreRequests, KnownStays, KnownEmailIsRefused, InOrder
  <1>9. SessionsAreReal'
    BY DEF IInv, TypeOK, SessionsAreReal, Matches
  <1>10. SessionsAreSubmitted'
    BY DEF IInv, TypeOK, SessionsAreSubmitted
  <1> QED
    BY <1>1, <1>2, <1>3, <1>4, <1>5, <1>6, <1>7, <1>8, <1>9, <1>10 DEF IInv

\* Insert reserves an email that no row and no open transaction has.
LEMMA InsertInv ==
  ASSUME IInv, NEW s \in Submits, Insert(s)
  PROVE  IInv'
  <1> USE DEF Insert, clientVars, serverVars, tables
  <1>1. TypeOK'
    <2>1. form[s] \in Form
      BY DEF IInv, TypeOK, RequestsInOrder, InOrder
    <2>2. [id |-> s, email |-> Email(s), person |-> form[s].person] \in User
      BY <2>1 DEF Form, User, Email
    <2> QED
      BY <2>2 DEF IInv, TypeOK
  <1>2. RequestsInOrder'
    <2> SUFFICES ASSUME NEW t \in Submits PROVE InOrder(t)'
      BY DEF RequestsInOrder
    <2>1. InOrder(t)
      BY DEF IInv, RequestsInOrder
    <2>2. Row(t)' = Row(t)
      BY DEF Row, Email
    <2>3. CASE t = s
      <3>1. \/ pc'[t] = "done" /\ answer'[t] = "clash" /\ newUser' = newUser
            \/ pc'[t] = "fund" /\ answer' = answer /\ newUser'[t] = {Row(t)}
        BY <2>3 DEF IInv, TypeOK, Row
      <3> QED
        BY <2>1, <2>2, <2>3, <3>1 DEF InOrder, InTransaction
    <2>4. CASE t # s
      <3>1. pc'[t] = pc[t] /\ answer'[t] = answer[t] /\ newUser'[t] = newUser[t]
        BY <2>4 DEF IInv, TypeOK
      <3> QED
        BY <2>1, <2>2, <3>1 DEF InOrder, InTransaction
    <2> QED
      BY <2>3, <2>4
  <1>3. RowsAreRequests'
    BY DEF IInv, TypeOK, RequestsInOrder, RowsAreRequests, InOrder, Row, Email
  <1>4. Reserved'
    <2>1. \A t \in Submits : InTransaction(t) => newUser[t] = {Row(t)}
      BY DEF IInv, RequestsInOrder, InOrder
    <2>2. \A t \in Submits : InTransaction(t) => Email(t) # Email(s)
      <3>1. \A t \in Submits : Row(t).email = Email(t)
        BY DEF Row
      <3> QED
        BY <2>1, <3>1 DEF Uncommitted
    <2>3. \A t \in Submits : t # s => (InTransaction(t)' <=> InTransaction(t))
      BY DEF IInv, TypeOK, InTransaction
    <2>4. \A t \in Submits : Email(t)' = Email(t) /\ (Taken(Email(t))' <=> Taken(Email(t)))
      BY DEF Email, Taken
    <2>5. InTransaction(s)' => ~Taken(Email(s))
      BY DEF IInv, TypeOK, InTransaction
    <2> QED
      BY <2>2, <2>3, <2>4, <2>5 DEF IInv, Reserved
  <1>5. OneAccountPerEmail'
    BY DEF IInv, TypeOK, OneAccountPerEmail
  <1>6. NoHalfAccount'
    BY DEF IInv, TypeOK, NoHalfAccount
  <1>7. KnownStays'
    BY DEF IInv, TypeOK, KnownStays, Taken, Email
  <1>8. KnownEmailIsRefused'
    BY DEF IInv, TypeOK, RequestsInOrder, RowsAreRequests, KnownStays, KnownEmailIsRefused, InOrder
  <1>9. SessionsAreReal'
    BY DEF IInv, TypeOK, SessionsAreReal, Matches
  <1>10. SessionsAreSubmitted'
    BY DEF IInv, TypeOK, SessionsAreSubmitted
  <1> QED
    BY <1>1, <1>2, <1>3, <1>4, <1>5, <1>6, <1>7, <1>8, <1>9, <1>10 DEF IInv

\* Fund adds the portfolio to the same transaction.
LEMMA FundInv ==
  ASSUME IInv, NEW s \in Submits, Fund(s)
  PROVE  IInv'
  <1> USE DEF Fund, clientVars, serverVars, tables
  <1>1. TypeOK'
    BY DEF IInv, TypeOK, Form, User
  <1>2. RequestsInOrder'
    BY DEF IInv, TypeOK, RequestsInOrder, InOrder, InTransaction, Row, Email
  <1>3. RowsAreRequests'
    BY DEF IInv, TypeOK, RowsAreRequests, Row, Email
  <1>4. Reserved'
    BY DEF IInv, TypeOK, Reserved, InTransaction, Email, Taken
  <1>5. OneAccountPerEmail'
    BY DEF IInv, TypeOK, OneAccountPerEmail
  <1>6. NoHalfAccount'
    BY DEF IInv, TypeOK, NoHalfAccount
  <1>7. KnownStays'
    BY DEF IInv, TypeOK, KnownStays, Taken, Email
  <1>8. KnownEmailIsRefused'
    BY DEF IInv, TypeOK, KnownEmailIsRefused
  <1>9. SessionsAreReal'
    BY DEF IInv, TypeOK, SessionsAreReal, Matches
  <1>10. SessionsAreSubmitted'
    BY DEF IInv, TypeOK, SessionsAreSubmitted
  <1> QED
    BY <1>1, <1>2, <1>3, <1>4, <1>5, <1>6, <1>7, <1>8, <1>9, <1>10 DEF IInv

\* A transaction ends with both rows or none; its email stays out of all others.
LEMMA CloseInv ==
  ASSUME IInv, NEW s \in Submits, Commit(s) \/ Abort(s) \/ CommitUnacknowledged(s)
  PROVE  IInv'
  <1> USE DEF Commit, Abort, CommitUnacknowledged, Close, clientVars, serverVars, tables
  <1>1. TypeOK'
    <2>1. newUser[s] \subseteq User /\ newFolio[s] \subseteq Submits
      BY DEF IInv, TypeOK
    <2>2. /\ users' \subseteq User
          /\ folios' \subseteq Submits \cup Adds
      BY <2>1 DEF IInv, TypeOK
    <2>3. /\ newUser' \in [Submits -> SUBSET User]
          /\ newFolio' \in [Submits -> SUBSET Submits]
      BY DEF IInv, TypeOK
    <2>4. /\ answer' \in [Submits -> {"none", "created", "taken", "clash", "failed"}]
          /\ pc' \in [Submits -> {"none", "check", "insert", "fund", "commit", "done"}]
      BY DEF IInv, TypeOK
    <2> QED
      BY <2>2, <2>3, <2>4 DEF IInv, TypeOK
  <1>2. RequestsInOrder'
    <2> SUFFICES ASSUME NEW t \in Submits PROVE InOrder(t)'
      BY DEF RequestsInOrder
    <2>1. InOrder(t)
      BY DEF IInv, RequestsInOrder
    <2>2. Row(t)' = Row(t)
      BY DEF Row, Email
    <2>3. CASE t = s
      <3>1. /\ pc'[t] = "done" /\ answer'[t] \in {"created", "failed"}
            /\ newUser'[t] = {} /\ newFolio'[t] = {}
            /\ pc[t] # "none"
        BY <2>3 DEF IInv, TypeOK
      <3> QED
        BY <2>1, <3>1 DEF InOrder, InTransaction
    <2>4. CASE t # s
      <3>1. /\ pc'[t] = pc[t] /\ answer'[t] = answer[t]
            /\ newUser'[t] = newUser[t] /\ newFolio'[t] = newFolio[t]
        BY <2>4 DEF IInv, TypeOK
      <3> QED
        BY <2>1, <2>2, <3>1 DEF InOrder, InTransaction
    <2> QED
      BY <2>3, <2>4
  <1>3. RowsAreRequests'
    BY DEF IInv, TypeOK, RequestsInOrder, RowsAreRequests, InOrder, Row, Email, InTransaction
  <1>4. Reserved'
    BY DEF IInv, TypeOK, RequestsInOrder, RowsAreRequests, Reserved, InOrder, InTransaction, Email, Taken, Row
  <1>5. OneAccountPerEmail'
    BY DEF IInv, TypeOK, RequestsInOrder, RowsAreRequests, Reserved, OneAccountPerEmail, InOrder, Row, InTransaction, Taken
  <1>6. NoHalfAccount'
    <2>1. \/ UNCHANGED tables
          \/ /\ pc[s] = "commit"
             /\ users' = users \cup newUser[s]
             /\ folios' = folios \cup newFolio[s]
      OBVIOUS
    <2>2. pc[s] = "commit" => newUser[s] = {Row(s)} /\ newFolio[s] = {s}
      BY DEF IInv, RequestsInOrder, InOrder, InTransaction
    <2>3. Row(s).id = s
      BY DEF Row
    <2> QED
      BY <2>1, <2>2, <2>3 DEF IInv, NoHalfAccount
  <1>7. KnownStays'
    BY DEF IInv, TypeOK, RequestsInOrder, RowsAreRequests, KnownStays, InOrder, Taken, Email
  <1>8. KnownEmailIsRefused'
    BY DEF IInv, TypeOK, RequestsInOrder, RowsAreRequests, KnownStays, KnownEmailIsRefused, InOrder, Row, InTransaction
  <1>9. SessionsAreReal'
    BY DEF IInv, TypeOK, RequestsInOrder, RowsAreRequests, SessionsAreReal, InOrder, Matches
  <1>10. SessionsAreSubmitted'
    BY DEF IInv, TypeOK, RequestsInOrder, RowsAreRequests, SessionsAreSubmitted, InOrder
  <1> QED
    BY <1>1, <1>2, <1>3, <1>4, <1>5, <1>6, <1>7, <1>8, <1>9, <1>10 DEF IInv

\* The staff adds a user under an email that is free.
LEMMA AddUserInv ==
  ASSUME IInv, NEW a \in Adds, NEW e \in Emails, NEW p \in People, AddUser(a, e, p)
  PROVE  IInv'
  <1> USE DEF AddUser, clientVars, serverVars, tables
  <1>1. TypeOK'
    BY DEF IInv, TypeOK, Form, User
  <1>2. RequestsInOrder'
    BY DEF IInv, TypeOK, RequestsInOrder, InOrder, InTransaction, Row, Email
  <1>3. RowsAreRequests'
    BY DEF IInv, TypeOK, RowsAreRequests, Row, Email
  <1>4. Reserved'
    <2>1. \A t \in Submits : InTransaction(t) => newUser[t] = {Row(t)}
      BY DEF IInv, RequestsInOrder, InOrder
    <2>2. \A t \in Submits : InTransaction(t) => Email(t) # e
      <3>1. \A t \in Submits : Row(t).email = Email(t)
        BY DEF Row
      <3> QED
        BY <2>1, <3>1 DEF Uncommitted
    <2>3. \A t \in Submits : Email(t)' = Email(t)
                             /\ (InTransaction(t)' <=> InTransaction(t))
      BY DEF Email, InTransaction
    <2>4. \A u \in users' : u \in users \/ u.email = e
      OBVIOUS
    <2>5. \A t \in Submits : ~Taken(Email(t)) /\ Email(t) # e => ~Taken(Email(t))'
      <3> SUFFICES ASSUME NEW t \in Submits, ~Taken(Email(t)), Email(t) # e
                   PROVE  \A u \in users' : u.email # Email(t)
        BY <2>3 DEF Taken
      <3> QED
        BY <2>4 DEF Taken
    <2> QED
      BY <2>2, <2>3, <2>5 DEF IInv, Reserved
  <1>5. OneAccountPerEmail'
    BY DEF IInv, TypeOK, OneAccountPerEmail, Taken
  <1>6. NoHalfAccount'
    BY DEF IInv, TypeOK, NoHalfAccount
  <1>7. KnownStays'
    BY DEF IInv, TypeOK, KnownStays, Taken, Email
  <1>8. KnownEmailIsRefused'
    BY DEF IInv, TypeOK, KnownEmailIsRefused
  <1>9. SessionsAreReal'
    BY DEF IInv, TypeOK, SessionsAreReal, Matches
  <1>10. SessionsAreSubmitted'
    BY DEF IInv, TypeOK, SessionsAreSubmitted
  <1> QED
    BY <1>1, <1>2, <1>3, <1>4, <1>5, <1>6, <1>7, <1>8, <1>9, <1>10 DEF IInv

\* The staff adds a portfolio to a user that is there.
LEMMA AddPortfolioInv ==
  ASSUME IInv, NEW u \in users, AddPortfolio(u)
  PROVE  IInv'
  <1> USE DEF AddPortfolio, clientVars, serverVars, tables
  <1>1. TypeOK'
    BY DEF IInv, TypeOK, Form, User
  <1>2. RequestsInOrder'
    BY DEF IInv, TypeOK, RequestsInOrder, InOrder, InTransaction, Row, Email
  <1>3. RowsAreRequests'
    BY DEF IInv, TypeOK, RowsAreRequests, Row, Email
  <1>4. Reserved'
    BY DEF IInv, TypeOK, Reserved, InTransaction, Email, Taken
  <1>5. OneAccountPerEmail'
    BY DEF IInv, TypeOK, OneAccountPerEmail
  <1>6. NoHalfAccount'
    BY DEF IInv, TypeOK, NoHalfAccount
  <1>7. KnownStays'
    BY DEF IInv, TypeOK, KnownStays, Taken, Email
  <1>8. KnownEmailIsRefused'
    BY DEF IInv, TypeOK, KnownEmailIsRefused
  <1>9. SessionsAreReal'
    BY DEF IInv, TypeOK, SessionsAreReal, Matches
  <1>10. SessionsAreSubmitted'
    BY DEF IInv, TypeOK, SessionsAreSubmitted
  <1> QED
    BY <1>1, <1>2, <1>3, <1>4, <1>5, <1>6, <1>7, <1>8, <1>9, <1>10 DEF IInv

LEMMA NextInv == IInv /\ [Next]_vars => IInv'
  <1> SUFFICES ASSUME IInv, [Next]_vars PROVE IInv'
    OBVIOUS
  <1>1. ASSUME NEW s \in Submits, NEW f \in Form, Submit(s, f) PROVE IInv'
    BY <1>1, SubmitInv
  <1>2. ASSUME NEW s \in Submits, Land(s) \/ AnswerLost(s) PROVE IInv'
    BY <1>2, LandInv
  <1>3. ASSUME NEW s \in Submits, Serve(s) \/ Abort(s) \/ CommitUnacknowledged(s)
        PROVE  IInv'
    BY <1>3, CheckInv, InsertInv, FundInv, CloseInv DEF Serve
  <1>4. ASSUME NEW b \in People, ClearTokens(b) PROVE IInv'
    BY <1>4, ClearInv
  <1>5. ASSUME NEW a \in Adds, NEW e \in Emails, NEW p \in People, AddUser(a, e, p)
        PROVE  IInv'
    BY <1>5, AddUserInv
  <1>6. ASSUME NEW u \in users, AddPortfolio(u) PROVE IInv'
    BY <1>6, AddPortfolioInv
  <1>7. CASE UNCHANGED vars
    BY <1>7 DEF IInv, vars, clientVars, serverVars, tables, TypeOK, RequestsInOrder,
      InOrder, InTransaction, Row, Email, RowsAreRequests, Reserved, Taken,
      OneAccountPerEmail, NoHalfAccount, KnownStays, KnownEmailIsRefused,
      SessionsAreReal, Matches, SessionsAreSubmitted
  <1> QED
    BY <1>1, <1>2, <1>3, <1>4, <1>5, <1>6, <1>7 DEF Next

\* The invariant holds in every reachable state.
THEOREM Invariance == Spec => []IInv
  <1> QED
    BY InitInv, NextInv, PTL DEF Spec

\* The variables keep to their types.
THEOREM TypeCorrect == Spec => []TypeOK
  <1>1. IInv => TypeOK
    BY DEF IInv
  <1> QED
    BY <1>1, Invariance, PTL

\* The check outside of the transaction, the index inside it and the staff's
\* own inserts leave one account to every email.
THEOREM AccountsAreUnique == Spec => []OneAccountPerEmail
  <1>1. IInv => OneAccountPerEmail
    BY DEF IInv
  <1> QED
    BY <1>1, Invariance, PTL

\* An account from the signup page and its portfolio are there together.
THEOREM AccountsAreWhole == Spec => []NoHalfAccount
  <1>1. IInv => NoHalfAccount
    BY DEF IInv
  <1> QED
    BY <1>1, Invariance, PTL

\* Only a race ends in the IntegrityError that signup does not catch.
THEOREM ConflictsAreRaces == Spec => []KnownEmailIsRefused
  <1>1. IInv => KnownEmailIsRefused
    BY DEF IInv
  <1> QED
    BY <1>1, Invariance, PTL

\* A session is that of an account and of the form that was filled in for it.
THEOREM SessionsAreOwn == Spec => []SessionsAreReal
  <1>1. IInv => SessionsAreReal
    BY DEF IInv
  <1> QED
    BY <1>1, Invariance, PTL

(***************************************************************************)
(* The refinement.  What AccountsSpec sees of a state:                     *)
(***************************************************************************)
AsAccount(u) == [id |-> u.id, email |-> u.email, person |-> u.person,
                 funded |-> u.id \in folios]
AbsAccounts == {AsAccount(u) : u \in users}
AbsAsked == [s \in Submits |->
               IF form[s] = NoForm \/ pc[s] = "none" THEN NoForm
               ELSE [email |-> Email(s), person |-> form[s].person]]
AbsTold == [s \in Submits |-> Told(s)]

LEMMA Images ==
  /\ \A u \in users : /\ AsAccount(u) \in AbsAccounts
                      /\ AsAccount(u).email = u.email
                      /\ AsAccount(u).id = u.id
                      /\ AsAccount(u).funded = (u.id \in folios)
  /\ \A x \in AbsAccounts : \E u \in users : x = AsAccount(u)
  BY DEF AsAccount, AbsAccounts

\* A step of signup that touches neither the tables nor the answers, and
\* everything the pages do on their own, is invisible.
LEMMA Invisible ==
  ASSUME IInv, UNCHANGED <<form, answer, tables>>,
         \A s \in Submits : pc'[s] = "none" <=> pc[s] = "none"
  PROVE  UNCHANGED <<AbsAsked, AbsAccounts, AbsTold>>
  <1>1. AbsAsked' = AbsAsked
    BY DEF AbsAsked, Email
  <1>2. AbsAccounts' = AbsAccounts
    BY DEF AbsAccounts, AsAccount, tables
  <1>3. AbsTold' = AbsTold
    BY DEF AbsTold, Told
  <1> QED
    BY <1>1, <1>2, <1>3

\* What a request that is under way asked for, and that nobody has told it yet.
LEMMA UnderWay ==
  ASSUME IInv, NEW s \in Submits, pc[s] \notin {"none", "done"}
  PROVE  /\ AbsAsked[s] # NoForm
         /\ AbsAsked[s].email = Email(s)
         /\ AbsAsked[s].person = form[s].person
         /\ AbsTold[s] = "none"
  <1>1. form[s] # NoForm /\ form[s] \in Form /\ answer[s] = "none"
    BY DEF IInv, TypeOK, RequestsInOrder, InOrder
  <1>2. [email |-> Email(s), person |-> form[s].person] \in [email : Emails, person : People]
    BY <1>1 DEF Form, Email
  <1>3. AbsAsked[s] = [email |-> Email(s), person |-> form[s].person]
    BY <1>1 DEF AbsAsked
  <1>4. AbsTold[s] = "none"
    BY <1>1 DEF AbsTold, Told
  <1> QED
    BY <1>2, <1>3, <1>4

LEMMA InitRefines == Init => Abstract!Init
  <1> SUFFICES ASSUME Init PROVE Abstract!Init
    OBVIOUS
  <1>1. AbsAsked = [s \in Submits |-> NoForm]
    BY DEF Init, AbsAsked
  <1>2. AbsAccounts = {}
    BY DEF Init, AbsAccounts
  <1>3. AbsTold = [s \in Submits |-> "none"]
    BY DEF Init, AbsTold, Told
  <1> QED
    BY <1>1, <1>2, <1>3 DEF Abstract!Init, AbsAsked, AbsAccounts, AsAccount, AbsTold

\* A signup form that is sent is what the visitor asks for; a login is not seen.
LEMMA SubmitRefines ==
  ASSUME IInv, NEW s \in Submits, NEW f \in Form, Submit(s, f)
  PROVE  \/ \E w \in Abstract!Wish : Abstract!Ask(s, w)
         \/ UNCHANGED <<AbsAsked, AbsAccounts, AbsTold>>
  <1> DEFINE w == [email |-> Norm[f.text], person |-> f.person]
  <1>1. stage[s] = "unused" /\ pc[s] = "none" /\ form[s] = NoForm
    BY DEF IInv, RequestsInOrder, InOrder, Submit
  <1>2. AbsAccounts' = AbsAccounts /\ AbsTold' = AbsTold
    BY DEF Submit, AbsAccounts, AsAccount, AbsTold, Told, tables
  <1>3. CASE f.kind = "signup"
    <2>1. w \in Abstract!Wish
      BY DEF Abstract!Wish, Form
    <2>2. AbsAsked[s] = NoForm
      BY <1>1 DEF AbsAsked
    <2>3. /\ form' = [form EXCEPT ![s] = f]
          /\ pc' = [pc EXCEPT ![s] = "check"]
      BY <1>3 DEF Submit
    <2>4. f # NoForm
      BY DEF Form
    <2>5. AbsAsked' = [AbsAsked EXCEPT ![s] = w]
      BY <2>3, <2>4 DEF AbsAsked, Email, IInv, TypeOK
    <2>6. Abstract!Ask(s, w)
      BY <1>2, <2>2, <2>5 DEF Abstract!Ask, AbsAsked, AbsAccounts, AsAccount, AbsTold
    <2> QED
      BY <2>1, <2>6
  <1>4. CASE f.kind # "signup"
    <2>1. /\ form' = [form EXCEPT ![s] = f]
          /\ pc' = pc
      BY <1>4 DEF Submit
    <2>2. AbsAsked' = AbsAsked
      BY <1>1, <2>1 DEF AbsAsked, Email, IInv, TypeOK
    <2> QED
      BY <1>2, <2>2
  <1> QED
    BY <1>3, <1>4

\* A request that is turned away, or fails, is a refusal.
LEMMA RefusalRefines ==
  ASSUME IInv, NEW s \in Submits, NEW r \in {"taken", "failed"},
         pc[s] \notin {"none", "done"},
         r = "taken" => Taken(Email(s)),
         UNCHANGED <<form, tables>>,
         \A t \in Submits : pc'[t] = "none" <=> pc[t] = "none",
         AbsTold' = [AbsTold EXCEPT ![s] = r]
  PROVE  Abstract!Refuse(s, r)
  <1>1. AbsAsked' = AbsAsked
    BY DEF AbsAsked, Email
  <1>2. AbsAccounts' = AbsAccounts
    BY DEF AbsAccounts, AsAccount, tables
  <1>3. AbsAsked[s] # NoForm /\ AbsAsked[s].email = Email(s) /\ AbsTold[s] = "none"
    BY UnderWay
  <1>4. r = "taken" => \E x \in AbsAccounts : x.email = AbsAsked[s].email
    BY <1>3, Images DEF Taken
  <1> QED
    BY <1>1, <1>2, <1>3, <1>4
    DEF Abstract!Refuse, Abstract!Free, AbsAsked, AbsAccounts, AsAccount, AbsTold

\* A commit is the instant at which the account comes into being.
LEMMA CommitRefines ==
  ASSUME IInv, NEW s \in Submits, NEW r \in {"created", "failed"},
         pc[s] = "commit", Close(s, TRUE, r)
  PROVE  Abstract!Register(s, r)
  <1> DEFINE new == [id |-> s, email |-> Email(s), person |-> form[s].person,
                     funded |-> TRUE]
  <1>1. newUser[s] = {Row(s)} /\ newFolio[s] = {s} /\ ~Taken(Email(s))
    BY DEF IInv, RequestsInOrder, InOrder, InTransaction, Reserved
  <1>2. users' = users \cup {Row(s)} /\ folios' = folios \cup {s} /\ UNCHANGED form
    BY <1>1 DEF Close, clientVars
  <1>3. \A u \in users : u.id # s
    BY DEF IInv, RowsAreRequests
  <1>4. AbsAsked' = AbsAsked
    <2>1. \A t \in Submits : pc'[t] = "none" <=> pc[t] = "none"
      BY DEF Close, IInv, TypeOK
    <2> QED
      BY <1>2, <2>1 DEF AbsAsked, Email
  <1>5. AbsTold' = [AbsTold EXCEPT ![s] = r]
    BY DEF Close, AbsTold, Told, IInv, TypeOK
  <1>6. AbsAccounts' = AbsAccounts \cup {new}
    <2> PICK z : z = Row(s)
      OBVIOUS
    <2>1. \A u \in users : AsAccount(u)' = AsAccount(u)
      BY <1>2, <1>3 DEF AsAccount
    <2>2. AsAccount(z)' = new
      BY <1>2 DEF AsAccount, Row, Email
    <2>3. \A x : x \in AbsAccounts' <=>
                   \E u \in users \cup {z} : x = AsAccount(u)'
      BY <1>2 DEF AbsAccounts
    <2>4. \A x : x \in AbsAccounts <=> \E u \in users : x = AsAccount(u)
      BY DEF AbsAccounts
    <2>5. \A x : x \in AbsAccounts' <=> x \in AbsAccounts \/ x = new
      BY <2>1, <2>2, <2>3, <2>4
    <2> QED
      BY <2>5
  <1>7. /\ AbsAsked[s] # NoForm /\ AbsTold[s] = "none"
        /\ AbsAsked[s].email = Email(s) /\ AbsAsked[s].person = form[s].person
    BY UnderWay
  <1>8. \A x \in AbsAccounts : x.email # AbsAsked[s].email
    BY <1>1, <1>7, Images DEF Taken
  <1> QED
    BY <1>4, <1>5, <1>6, <1>7, <1>8
    DEF Abstract!Register, Abstract!Free, AbsAsked, AbsAccounts, AsAccount, AbsTold

\* The staff's insert, of an email that is free and under a new id.
LEMMA AddUserRefines ==
  ASSUME IInv, NEW a \in Adds, NEW e \in Emails, NEW p \in People, AddUser(a, e, p)
  PROVE  \E w \in Abstract!Wish : Abstract!Add(a, w)
  <1> DEFINE w == [email |-> e, person |-> p]
             new == [id |-> a, email |-> e, person |-> p, funded |-> FALSE]
  <1> PICK row : row = [id |-> a, email |-> e, person |-> p]
    OBVIOUS
  <1>0. row.id = a /\ row.email = e /\ row.person = p
    OBVIOUS
  <1>1. w \in Abstract!Wish
    BY DEF Abstract!Wish
  <1>2. /\ users' = users \cup {row} /\ folios' = folios
        /\ UNCHANGED <<form, pc, answer>>
        /\ ~Taken(e)
        /\ \A u \in users : u.id # a
    BY DEF AddUser, clientVars, serverVars
  <1>3. AbsAsked' = AbsAsked /\ AbsTold' = AbsTold
    BY <1>2 DEF AbsAsked, Email, AbsTold, Told
  <1>4. a \notin folios
    BY <1>2 DEF IInv, NoHalfAccount
  <1>5. AbsAccounts' = AbsAccounts \cup {new}
    <2>1. \A u \in users : AsAccount(u)' = AsAccount(u)
      BY <1>2 DEF AsAccount
    <2>2. AsAccount(row)' = new
      <3>1. AsAccount(row)' = [id |-> row.id, email |-> row.email,
                               person |-> row.person, funded |-> (row.id \in folios')]
        BY DEF AsAccount
      <3>2. (row.id \in folios') = FALSE
        BY <1>0, <1>2, <1>4
      <3> QED
        BY <1>0, <3>1, <3>2
    <2>3. \A x : x \in AbsAccounts' <=>
                   \E u \in users \cup {row} : x = AsAccount(u)'
      BY <1>2 DEF AbsAccounts
    <2>4. \A x : x \in AbsAccounts <=> \E u \in users : x = AsAccount(u)
      BY DEF AbsAccounts
    <2>5. \A x : x \in AbsAccounts' <=> x \in AbsAccounts \/ x = new
      <3> HIDE DEF new
      <3> QED
        BY <2>1, <2>2, <2>3, <2>4
    <2> QED
      BY <2>5
  <1>6. /\ \A x \in AbsAccounts : x.email # e
        /\ \A x \in AbsAccounts : x.id # a
    BY <1>2, Images DEF Taken
  <1>7. Abstract!Add(a, w)
    BY <1>3, <1>5, <1>6
    DEF Abstract!Add, Abstract!Free, AbsAsked, AbsAccounts, AsAccount, AbsTold
  <1> QED
    BY <1>1, <1>7

\* A portfolio that the staff adds changes one account only.
LEMMA AddPortfolioRefines ==
  ASSUME IInv, NEW u \in users, AddPortfolio(u)
  PROVE  \E x \in AbsAccounts : Abstract!Fund(x)
  <1> PICK old : old = AsAccount(u)
    OBVIOUS
  <1>1. /\ u.id \notin folios /\ folios' = folios \cup {u.id}
        /\ UNCHANGED <<users, form, pc, answer>>
    BY DEF AddPortfolio, clientVars, serverVars
  <1>2. AbsAsked' = AbsAsked /\ AbsTold' = AbsTold
    BY <1>1 DEF AbsAsked, Email, AbsTold, Told
  <1> DEFINE Made(f) == [id |-> u.id, email |-> u.email, person |-> u.person,
                         funded |-> f]
  <1>0. old = Made(FALSE)
    <2>1. old = Made(u.id \in folios)
      BY DEF AsAccount
    <2>2. (u.id \in folios) = FALSE
      BY <1>1
    <2> HIDE DEF Made
    <2> QED
      BY <2>1, <2>2
  <1>3. old \in AbsAccounts /\ old.funded = FALSE
    <2>1. old \in AbsAccounts
      BY DEF AbsAccounts
    <2> QED
      BY <1>0, <2>1
  <1>4. AbsAccounts' = (AbsAccounts \ {old}) \cup {[old EXCEPT !.funded = TRUE]}
    <2>1. \A v \in users : v # u => v.id # u.id
      BY DEF IInv, RowsAreRequests
    <2>2. \A v \in users : v # u => AsAccount(v)' = AsAccount(v) /\ AsAccount(v) # old
      <3>1. \A v \in users : v # u => AsAccount(v).id # old.id
        BY <2>1, Images
      <3> QED
        BY <1>1, <2>1, <3>1 DEF AsAccount
    <2>3. AsAccount(u)' = [old EXCEPT !.funded = TRUE]
      <3>1. AsAccount(u)' = Made(u.id \in folios')
        BY DEF AsAccount
      <3>2. (u.id \in folios') = TRUE
        BY <1>1
      <3>3. \A f, g : [Made(f) EXCEPT !.funded = g] = Made(g)
        OBVIOUS
      <3> HIDE DEF Made
      <3>4. [Made(FALSE) EXCEPT !.funded = TRUE] = Made(TRUE)
        BY ONLY <3>3, Zenon
      <3>5. AsAccount(u)' = Made(TRUE)
        BY ONLY <3>1, <3>2, Zenon
      <3> QED
        BY ONLY <1>0, <3>4, <3>5, Zenon
    <2>4. \A x : x \in AbsAccounts' <=> \E v \in users : x = AsAccount(v)'
      BY <1>1 DEF AbsAccounts
    <2>5. \A x : x \in AbsAccounts <=> \E v \in users : x = AsAccount(v)
      BY DEF AbsAccounts
    <2>6. \A x : x \in AbsAccounts' <=>
                   \/ x \in AbsAccounts /\ x # old
                   \/ x = [old EXCEPT !.funded = TRUE]
      <3>1. ASSUME NEW x \in AbsAccounts'
            PROVE  (x \in AbsAccounts /\ x # old) \/ x = [old EXCEPT !.funded = TRUE]
        <4> PICK v \in users : x = AsAccount(v)'
          BY <2>4
        <4>1. CASE v = u
          BY <2>3, <4>1
        <4>2. CASE v # u
          BY <2>2, <2>5, <4>2
        <4> QED
          BY <4>1, <4>2
      <3>2. ASSUME NEW x \in AbsAccounts, x # old
            PROVE  x \in AbsAccounts'
        <4> PICK v \in users : x = AsAccount(v)
          BY <2>5
        <4> QED
          BY <2>2, <2>4, <3>2
      <3>3. [old EXCEPT !.funded = TRUE] \in AbsAccounts'
        BY <2>3, <2>4
      <3> QED
        BY <3>1, <3>2, <3>3
    <2> QED
      BY <2>6
  <1>5. Abstract!Fund(old)
    BY <1>2, <1>3, <1>4 DEF Abstract!Fund, AbsAsked, AbsAccounts, AsAccount, AbsTold
  <1> QED
    BY <1>3, <1>5

\* Every step of the pages, of the handler and of the staff is a step of
\* AccountsSpec or invisible.
LEMMA StepRefines ==
  IInv /\ [Next]_vars => [Abstract!Next]_<<AbsAsked, AbsAccounts, AbsTold>>
  <1> SUFFICES ASSUME IInv, [Next]_vars
               PROVE  Abstract!Next \/ UNCHANGED <<AbsAsked, AbsAccounts, AbsTold>>
    OBVIOUS
  <1>1. ASSUME NEW s \in Submits, NEW f \in Form, Submit(s, f)
        PROVE  Abstract!Next \/ UNCHANGED <<AbsAsked, AbsAccounts, AbsTold>>
    BY <1>1, SubmitRefines DEF Abstract!Next
  <1>2. ASSUME NEW s \in Submits, Land(s) \/ AnswerLost(s)
        PROVE  UNCHANGED <<AbsAsked, AbsAccounts, AbsTold>>
    BY <1>2, Invisible
    DEF Land, SignupAnswered, LoginAnswered, AnswerLost, serverVars
  <1>3. ASSUME NEW b \in People, ClearTokens(b)
        PROVE  UNCHANGED <<AbsAsked, AbsAccounts, AbsTold>>
    BY <1>3, Invisible DEF ClearTokens, serverVars
  <1>4. ASSUME NEW s \in Submits, Check(s)
        PROVE  Abstract!Next \/ UNCHANGED <<AbsAsked, AbsAccounts, AbsTold>>
    <2>1. \A t \in Submits : pc'[t] = "none" <=> pc[t] = "none"
      BY <1>4 DEF Check, IInv, TypeOK
    <2>2. pc[s] \notin {"none", "done"} /\ UNCHANGED <<form, tables>>
      BY <1>4 DEF Check, clientVars
    <2>3. CASE Taken(Email(s))
      <3>1. AbsTold' = [AbsTold EXCEPT ![s] = "taken"]
        BY <1>4, <2>3 DEF Check, AbsTold, Told, IInv, TypeOK
      <3>2. Abstract!Refuse(s, "taken")
        BY <2>1, <2>2, <2>3, <3>1, RefusalRefines
      <3> QED
        BY <3>2 DEF Abstract!Next
    <2>4. CASE ~Taken(Email(s))
      BY <1>4, <2>1, <2>2, <2>4, Invisible DEF Check
    <2> QED
      BY <2>3, <2>4
  <1>5. ASSUME NEW s \in Submits, Insert(s)
        PROVE  Abstract!Next \/ UNCHANGED <<AbsAsked, AbsAccounts, AbsTold>>
    <2>1. \A t \in Submits : pc'[t] = "none" <=> pc[t] = "none"
      BY <1>5 DEF Insert, IInv, TypeOK
    <2>2. pc[s] \notin {"none", "done"} /\ UNCHANGED <<form, tables>>
      BY <1>5 DEF Insert, clientVars
    <2>3. CASE Taken(Email(s))
      <3>1. AbsTold' = [AbsTold EXCEPT ![s] = "failed"]
        BY <1>5, <2>3 DEF Insert, AbsTold, Told, IInv, TypeOK
      <3>2. Abstract!Refuse(s, "failed")
        BY <2>1, <2>2, <3>1, RefusalRefines
      <3> QED
        BY <3>2 DEF Abstract!Next
    <2>4. CASE ~Taken(Email(s))
      BY <1>5, <2>1, <2>2, <2>4, Invisible DEF Insert
    <2> QED
      BY <2>3, <2>4
  <1>6. ASSUME NEW s \in Submits, Fund(s)
        PROVE  UNCHANGED <<AbsAsked, AbsAccounts, AbsTold>>
    <2>1. \A t \in Submits : pc'[t] = "none" <=> pc[t] = "none"
      BY <1>6 DEF Fund, IInv, TypeOK
    <2> QED
      BY <1>6, <2>1, Invisible DEF Fund, clientVars
  <1>7. ASSUME NEW s \in Submits, Commit(s) \/ CommitUnacknowledged(s)
        PROVE  Abstract!Next
    <2>1. Abstract!Register(s, "created") \/ Abstract!Register(s, "failed")
      BY <1>7, CommitRefines DEF Commit, CommitUnacknowledged
    <2> QED
      BY <2>1 DEF Abstract!Next
  <1>8. ASSUME NEW s \in Submits, Abort(s)
        PROVE  Abstract!Next
    <2>1. pc[s] \notin {"none", "done"} /\ UNCHANGED <<form, tables>>
      BY <1>8 DEF Abort, Close, clientVars, tables
    <2>2. \A t \in Submits : pc'[t] = "none" <=> pc[t] = "none"
      BY <1>8 DEF Abort, Close, IInv, TypeOK
    <2>3. AbsTold' = [AbsTold EXCEPT ![s] = "failed"]
      BY <1>8 DEF Abort, Close, AbsTold, Told, IInv, TypeOK
    <2>4. Abstract!Refuse(s, "failed")
      BY <2>1, <2>2, <2>3, RefusalRefines
    <2> QED
      BY <2>4 DEF Abstract!Next
  <1>9. ASSUME NEW a \in Adds, NEW e \in Emails, NEW p \in People, AddUser(a, e, p)
        PROVE  Abstract!Next
    BY <1>9, AddUserRefines DEF Abstract!Next
  <1>10. ASSUME NEW u \in users, AddPortfolio(u)
         PROVE  Abstract!Next
    BY <1>10, AddPortfolioRefines DEF Abstract!Next, AbsAccounts, AsAccount
  <1>11. CASE UNCHANGED vars
    BY <1>11, Invisible DEF vars, clientVars, serverVars
  <1> QED
    BY <1>1, <1>2, <1>3, <1>4, <1>5, <1>6, <1>7, <1>8, <1>9, <1>10, <1>11
    DEF Next, Serve

\* Registration is atomic for its users, however many there are: an account
\* comes into being with its portfolio, and what they are told is so.
THEOREM Refinement == Spec => ImplementsAccountsSpec
  <1>1. [Abstract!Next]_<<AbsAsked, AbsAccounts, AbsTold>>
          => [Abstract!Next]_(Abstract!vars)
    BY DEF Abstract!vars, AbsAsked, AbsAccounts, AsAccount, AbsTold
  <1>2. IInv /\ [Next]_vars => [Abstract!Next]_(Abstract!vars)
    BY <1>1, StepRefines
  <1> QED
    BY InitRefines, <1>2, Invariance, PTL DEF Spec, ImplementsAccountsSpec, Abstract!Spec
=============================================================================
