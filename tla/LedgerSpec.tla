----------------------------- MODULE LedgerSpec -----------------------------
(***************************************************************************)
(* What the ledger promises: a trade or a cash transfer happens at one     *)
(* instant, only if its key is new, its portfolio exists and its portfolio *)
(* can afford it, and that instant changes the balance, the holding and    *)
(* the journal together.  No locks, no copies in memory, no failures.      *)
(***************************************************************************)
EXTENDS LedgerData

VARIABLES
  live,      \* portfolios that exist
  cash,      \* Portfolio.cash_balance
  position,  \* Position.quantity; a missing row counts as 0
  journal    \* Trade and CashTransaction rows, in commit order

vars == <<live, cash, position, journal>>

Init ==
  /\ live = Portfolios
  /\ cash = [p \in Portfolios |-> 0]
  /\ position = [p \in Portfolios |-> [t \in Tickers |-> 0]]
  /\ journal = <<>>

Trade(r, price) ==
  LET p == r.portfolio
      newCash == CashAfter(cash[p], r, price)
      newHeld == HeldAfter(position[p][r.ticker], r)
  IN  /\ p \in live
      /\ ~Recorded(journal, r)
      /\ Allowed(cash[p], position[p][r.ticker], r, price)
      /\ Fits(newCash, newHeld)
      /\ cash' = [cash EXCEPT ![p] = Stored(newCash, CashScale)]
      /\ position' = [position EXCEPT ![p][r.ticker] = Stored(newHeld, QtyScale)]
      /\ journal' = Append(journal, AsStored(NewRow(r, price, newCash)))
      /\ UNCHANGED live

Transfer(r) ==
  LET p == r.portfolio
      newCash == CashAfter(cash[p], r, 0)
  IN  /\ p \in live
      /\ ~Recorded(journal, r)
      /\ Allowed(cash[p], 0, r, 0)
      /\ Fits(newCash, 0)
      /\ cash' = [cash EXCEPT ![p] = Stored(newCash, CashScale)]
      /\ journal' = Append(journal, AsStored(NewRow(r, 0, newCash)))
      /\ UNCHANGED <<live, position>>

\* A portfolio without history may be deleted, with its positions.
Remove(p) ==
  /\ p \in live
  /\ \A i \in DOMAIN journal : journal[i].portfolio # p
  /\ live' = live \ {p}
  /\ cash' = [cash EXCEPT ![p] = 0]
  /\ position' = [position EXCEPT ![p] = [t \in Tickers |-> 0]]
  /\ UNCHANGED journal

Next ==
  \/ \E r \in TradeRequest, price \in Prices : Trade(r, price)
  \/ \E r \in CashRequest : Transfer(r)
  \/ \E p \in Portfolios : Remove(p)

Spec == Init /\ [][Next]_vars
=============================================================================
