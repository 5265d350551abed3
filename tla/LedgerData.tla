----------------------------- MODULE LedgerData -----------------------------
(***************************************************************************)
(* What the ledger app stores and computes, shared by the abstract ledger  *)
(* (LedgerSpec) and by the request handlers that implement it (Ledger):    *)
(* requests, rows of the Trade and CashTransaction tables, the arithmetic  *)
(* on a portfolio and the rounding a numeric(19,4) column applies.         *)
(*                                                                         *)
(* Amounts are integers.  In memory the code computes with unrestricted    *)
(* Decimals; a column keeps four decimals.  One column unit of cash is     *)
(* CashScale in-memory units, one of a quantity QtyScale of them, one of a  *)
(* price PriceScale: a scale of 1 is the case in which nothing is rounded.  *)
(***************************************************************************)
EXTENDS Integers, Sequences

CONSTANTS
  Portfolios,  \* primary keys of Portfolio rows
  Tickers,
  Keys,        \* idempotency keys clients choose
  Prices,      \* live prices, in cash units per quantity unit
  Quantities,  \* quantities a trade may ask for
  Amounts,     \* amounts a cash transfer may ask for
  CashScale,
  QtyScale,
  PriceScale,
  ColumnMax    \* largest value of a column, in column units

ASSUME LedgerDataAssumption ==
  /\ Prices \subseteq Nat \ {0}
  /\ Quantities \subseteq Nat \ {0}
  /\ Amounts \subseteq Nat \ {0}
  /\ CashScale \in Nat \ {0}
  /\ QtyScale \in Nat \ {0}
  /\ PriceScale \in Nat \ {0}
  /\ ColumnMax \in Nat

TradeKinds == {"BUY", "SELL"}
CashKinds == {"CREDIT", "DEBIT"}

\* Validated payloads: the schemas refuse anything that is not positive.
TradeRequest ==
  [kind: TradeKinds, portfolio: Portfolios, ticker: Tickers,
   quantity: Quantities, key: Keys]
CashRequest ==
  [kind: CashKinds, portfolio: Portfolios, amount: Amounts, key: Keys]
Request == TradeRequest \cup CashRequest

TradeRow ==
  [kind: TradeKinds, portfolio: Portfolios, ticker: Tickers,
   quantity: Nat, price: Nat, value: Nat, key: Keys]
CashRow ==
  [kind: CashKinds, portfolio: Portfolios, value: Nat, balance: Nat, key: Keys]
Row == TradeRow \cup CashRow

IsTrade(x) == x.kind \in TradeKinds

\* Trade and CashTransaction each have a unique index on idempotency_key:
\* a key may occur once in each table.
SameKey(x, y) == x.key = y.key /\ (IsTrade(x) <=> IsTrade(y))
Recorded(journal, r) == \E i \in DOMAIN journal : SameKey(journal[i], r)

-----------------------------------------------------------------------------
\* A numeric column rounds to its scale, a tie away from zero.
Stored(x, scale) ==
  LET rest == x % scale
  IN  IF 2 * rest < scale THEN x - rest ELSE x - rest + scale

Worth(r, price) == IF IsTrade(r) THEN r.quantity * price ELSE r.amount

CashAfter(cash, r, price) ==
  IF r.kind \in {"SELL", "CREDIT"}
  THEN cash + Worth(r, price)
  ELSE cash - Worth(r, price)

\* Faulty variant: a BUY pays but leaves the position alone.
HeldAfterSellOnly(held, r) ==
  IF r.kind = "SELL" THEN held - r.quantity ELSE held

HeldAfter(held, r) ==
  CASE r.kind = "BUY"  -> held + r.quantity
    [] r.kind = "SELL" -> held - r.quantity
    [] OTHER           -> held

\* Faulty variant: no funds check.
AllowedOverdraft(cash, held, r, price) ==
  r.kind = "SELL" => held >= r.quantity

Allowed(cash, held, r, price) ==
  /\ r.kind \in {"BUY", "DEBIT"} => cash >= Worth(r, price)
  /\ r.kind = "SELL" => held >= r.quantity

\* A value the column cannot hold makes the UPDATE fail.
Fits(cash, held) ==
  /\ Stored(cash, CashScale) <= ColumnMax * CashScale
  /\ Stored(held, QtyScale) <= ColumnMax * QtyScale

\* The model instance the handler builds, and the row the database keeps of it.
NewRow(r, price, cash) ==
  IF IsTrade(r)
  THEN [kind |-> r.kind, portfolio |-> r.portfolio, ticker |-> r.ticker,
        quantity |-> r.quantity, price |-> price,
        value |-> Worth(r, price), key |-> r.key]
  ELSE [kind |-> r.kind, portfolio |-> r.portfolio,
        value |-> r.amount, balance |-> cash, key |-> r.key]

\* Faulty variant: resulting_balance keeps more decimals than cash_balance.
AsStoredFinerBalance(row) ==
  IF IsTrade(row)
  THEN [row EXCEPT !.quantity = Stored(@, QtyScale), !.price = Stored(@, PriceScale),
                   !.value = Stored(@, CashScale)]
  ELSE [row EXCEPT !.value = Stored(@, CashScale)]

AsStored(row) ==
  IF IsTrade(row)
  THEN [row EXCEPT !.quantity = Stored(@, QtyScale), !.price = Stored(@, PriceScale),
                   !.value = Stored(@, CashScale)]
  ELSE [row EXCEPT !.value = Stored(@, CashScale), !.balance = Stored(@, CashScale)]

\* What a row says it did to its portfolio's cash and to its holding of t.
CashEffect(row) == IF row.kind \in {"SELL", "CREDIT"} THEN row.value ELSE -row.value
HeldEffect(row, t) ==
  IF IsTrade(row) /\ row.ticker = t
  THEN IF row.kind = "BUY" THEN row.quantity ELSE -row.quantity
  ELSE 0

\* The sum of a sequence of amounts.
Total(s) ==
  LET sum[n \in 0 .. Len(s)] == IF n = 0 THEN 0 ELSE sum[n - 1] + s[n]
  IN  sum[Len(s)]
=============================================================================
