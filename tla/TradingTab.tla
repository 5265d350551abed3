----------------------------- MODULE TradingTab -----------------------------
(***************************************************************************)
(* A browser tab that trades: the stream of PortfolioStream, the query     *)
(* usePortfolio() reads over REST into the same cache entry, and the       *)
(* submissions of TradeForm and CashTransferForm through                   *)
(* useTradeExecution().  The server keeps what LedgerSpec promises of it:  *)
(* an entry is committed at one instant.  A portfolio is reduced to the    *)
(* number of its entries.  useTradeHistory() is a second query of the same *)
(* shape that no stream writes to, and is left out.                        *)
(***************************************************************************)
EXTENDS PortfolioStream

CONSTANTS
  Keys,    \* idempotency keys crypto.randomUUID() has yet to make
  NoKey,   \* no submission of this form; the entry of another tab or device
  NotYet   \* no answer

ASSUME TradingTabAssumption == NoKey \notin Keys

VARIABLES
  version,  \* entries committed to each user's portfolio
  due,      \* committed entries whose handler has not yet broadcast
  fetch,    \* the portfolio request in flight, and what the server has read
  sub,      \* each submission: where it is, what its form was told, whose it is
  form      \* the last submission of the form on screen

tabVars == <<version, due, fetch, sub, form>>
vars == <<streamVars, tabVars>>

\* A submission is sent; the server commits it, refuses it (4xx) or fails (500);
\* a committed one is answered once its broadcast is out, or fails with it.
Submission ==
  [at: {"unused", "sent", "refused", "failed", "committed", "answered"},
   told: {NotYet, "success", "error"},
   by: Users]
NoFetch == [step |-> "none", of |-> NoUser, cash |-> 0, held |-> 0]

Init ==
  /\ StreamInit
  /\ version = [u \in Users |-> 0]
  /\ due = {}
  /\ fetch = NoFetch
  /\ sub = [k \in Keys |-> [at |-> "unused", told |-> NotYet, by |-> user]]
  /\ form = NoKey

\* The request bears the token of whoever is logged in.
Asked == [step |-> "asked", of |-> user, cash |-> 0, held |-> 0]

-----------------------------------------------------------------------------
(* The query.  A request that is in flight is joined, not repeated, even   *)
(* one that was sent for the user before: the query's key names nobody.    *)

Ensured == IF fetch.step = "none" THEN Asked ELSE fetch

MountPage(v) == Mount(v) /\ fetch' = Ensured /\ UNCHANGED <<version, due, sub, form>>

\* The form's state goes with its page; its request and its callbacks stay.
LeavePage == Unmount /\ form' = NoKey /\ UNCHANGED <<version, due, fetch, sub>>

\* The window gets the focus back: an active query is fetched again.
Focus ==
  /\ page # NoView
  /\ fetch.step = "none"
  /\ fetch' = Asked
  /\ UNCHANGED <<streamVars, version, due, sub, form>>

\* get_portfolio() reads the balance, and then the positions.  A token of the
\* login before may still be good or not.
ReadCash ==
  /\ up
  /\ fetch.step = "asked"
  /\ fetch.of = user => valid
  /\ fetch' = [fetch EXCEPT !.step = "reading", !.cash = version[fetch.of]]
  /\ UNCHANGED <<streamVars, version, due, sub, form>>
ReadPositions ==
  /\ up
  /\ fetch.step = "reading"
  /\ fetch' = [fetch EXCEPT !.step = "answered", !.held = version[fetch.of]]
  /\ UNCHANGED <<streamVars, version, due, sub, form>>

Response == [of |-> fetch.of, cash |-> fetch.cash, held |-> fetch.held]

\* Faulty variant: an answer does not replace what the stream has put there.
LandFirst ==
  /\ up
  /\ fetch.step = "answered"
  /\ fetch' = NoFetch
  /\ IF portfolio = NoData
     THEN Show(Response, sock, hook)
     ELSE UNCHANGED <<portfolio, sock, hook>>
  /\ UNCHANGED <<page, up, login, version, due, sub, form>>

\* The answer replaces the cached portfolio.
Land ==
  /\ up
  /\ fetch.step = "answered"
  /\ fetch' = NoFetch
  /\ Show(Response, sock, hook)
  /\ UNCHANGED <<page, up, login, version, due, sub, form>>

\* A request that fails for good leaves the cache as it is.
FetchFails ==
  /\ fetch.step # "none"
  /\ ~up \/ ~valid \/ fetch.of # user
  /\ fetch' = NoFetch
  /\ UNCHANGED <<streamVars, version, due, sub, form>>

-----------------------------------------------------------------------------
(* Submissions.                                                            *)

Pending == form # NoKey /\ sub[form].told = NotYet

\* The buttons are enabled and one is clicked, for a new wish or once more for
\* the one that ended in an error: either way with a fresh key.
Submit(k) ==
  /\ page # NoView
  /\ ~Pending
  /\ sub[k].at = "unused"
  /\ sub' = [sub EXCEPT ![k].at = "sent", ![k].by = user]
  /\ form' = k
  /\ UNCHANGED <<streamVars, version, due, fetch>>

\* The entry is committed, by the handler of a submission, even one the client
\* no longer waits for, or by one that serves another tab or device.
Commit(k) ==
  /\ up
  /\ \E u \in Users :
       /\ k # NoKey => u = sub[k].by
       /\ version[u] < MaxVersion
       /\ version' = [version EXCEPT ![u] = @ + 1]
       /\ due' = due \cup {[of |-> u, version |-> version[u] + 1, key |-> k]}
  /\ IF k = NoKey
     THEN UNCHANGED sub
     ELSE sub[k].at = "sent" /\ sub' = [sub EXCEPT ![k].at = "committed"]
  /\ UNCHANGED <<streamVars, fetch, form>>

\* A 4xx, or a failure before anything was committed.
TurnDown(k) ==
  /\ sub[k].at = "sent"
  /\ sub' = [sub EXCEPT ![k].at = IF up THEN "refused" ELSE "failed"]
  /\ UNCHANGED <<streamVars, version, due, fetch, form>>

\* After the commit: the balance of that instant and the positions of this one
\* go to the group.  If the channel layer fails, so does the request.
Publish(entry) ==
  /\ due' = due \ {entry}
  /\ \/ /\ Deliver([of |-> entry.of, cash |-> entry.version, held |-> version[entry.of]])
        /\ sub' = IF entry.key = NoKey THEN sub
                  ELSE [sub EXCEPT ![entry.key].at = "answered"]
     \/ /\ UNCHANGED sock
        /\ sub' = IF entry.key = NoKey THEN sub
                  ELSE [sub EXCEPT ![entry.key].at = "failed"]
  /\ UNCHANGED <<page, hook, up, login, portfolio, version, fetch, form>>

\* onSuccess: the query on screen is fetched anew, the request in flight
\* dropped unless it is the first.
Succeed(k) ==
  /\ up
  /\ sub[k].at = "answered" /\ sub[k].told = NotYet
  /\ sub' = [sub EXCEPT ![k].told = "success"]
  /\ fetch' = IF page = NoView THEN fetch
              ELSE IF portfolio = NoData THEN Ensured ELSE Asked
  /\ UNCHANGED <<streamVars, version, due, form>>

\* Faulty variant: only errors with a response reach the form.
FailResponses(k) ==
  /\ sub[k].told = NotYet
  /\ sub[k].at = "refused" /\ up
  /\ sub' = [sub EXCEPT ![k].told = "error"]
  /\ UNCHANGED <<streamVars, version, due, fetch, form>>

\* The form shows the server's error; or the connection is lost, wherever the
\* request is by then.
Fail(k) ==
  /\ sub[k].told = NotYet
  /\ \/ sub[k].at \in {"refused", "failed"}
     \/ sub[k].at # "unused" /\ ~up
  /\ sub' = [sub EXCEPT ![k].told = "error"]
  /\ UNCHANGED <<streamVars, version, due, fetch, form>>

-----------------------------------------------------------------------------
StreamNext ==
  /\ (\E s \in Sockets : SocketStep(s)) \/ Outage \/ Expire \/ (\E u \in Users : Login(u))
  /\ UNCHANGED tabVars

Next ==
  \/ StreamNext
  \/ \E v \in Views : MountPage(v)
  \/ LeavePage
  \/ Focus
  \/ ReadCash
  \/ ReadPositions
  \/ Land
  \/ FetchFails
  \/ \E k \in Keys : Submit(k) \/ TurnDown(k) \/ Succeed(k) \/ Fail(k)
  \/ \E k \in Keys \cup {NoKey} : Commit(k)
  \/ \E entry \in due : Publish(entry)

Spec == Init /\ [][Next]_vars

\* The browser runs every handler whose event has happened, the server answers
\* what reaches it.  Nothing is assumed of the user, the network or other tabs.
Fairness ==
  /\ \A s \in Sockets : WF_vars(SocketStep(s) /\ UNCHANGED tabVars)
  /\ WF_vars(ReadCash) /\ WF_vars(ReadPositions) /\ WF_vars(Land) /\ WF_vars(FetchFails)
  /\ WF_vars(\E entry \in due : Publish(entry))
  /\ \A k \in Keys :
       /\ WF_vars(Commit(k) \/ TurnDown(k))
       /\ WF_vars(Succeed(k) \/ Fail(k))

FairSpec == Spec /\ Fairness

-----------------------------------------------------------------------------
\* Every variable has its type.
TypeOK ==
  /\ StreamTypeOK
  /\ version \in [Users -> 0..MaxVersion]
  /\ due \subseteq [of: Users, version: 1..MaxVersion, key: Keys \cup {NoKey}]
  /\ fetch \in [step: {"none", "asked", "reading", "answered"}, of: Users \cup {NoUser},
                cash: 0..MaxVersion, held: 0..MaxVersion]
  /\ sub \in [Keys -> Submission]
  /\ form \in Keys \cup {NoKey}

\* The cache may show an old or a torn state (a late answer over a newer update,
\* updates out of order, updates missed between two sockets), but not for ever:
\* for a user who keeps coming back to the window, once nothing more is
\* committed, what is shown becomes and stays the portfolio.
Current ==
  portfolio = [of |-> user, cash |-> version[user], held |-> version[user]]
Converges ==
  /\ <>[](up /\ valid /\ page # NoView)
  /\ []<><<Focus>>_vars
  => <>[]Current

\* A submission never leaves its buttons disabled: the form is told the outcome,
\* or of a failure, even if the connection is lost after the commit.
ButtonsComeBack ==
  \A k \in Keys : sub[k].at # "unused" ~> sub[k].told # NotYet
=============================================================================
