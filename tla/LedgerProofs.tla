---------------------------- MODULE LedgerProofs ----------------------------
(***************************************************************************)
(* Proofs about Ledger, for every number of workers, portfolios, tickers   *)
(* and keys, for all prices and amounts, and for every column precision.   *)
(***************************************************************************)
EXTENDS Ledger, WellFoundedInduction, TLAPS

USE LedgerDataAssumption, LedgerAssumption

-----------------------------------------------------------------------------
(* The arithmetic of LedgerData.                                           *)

\* Rounding an amount to its column gives an amount, and changes nothing when
\* memory and column have the same precision.
LEMMA StoredNat ==
  ASSUME NEW x \in Nat, NEW scale \in Nat \ {0}
  PROVE  Stored(x, scale) \in Nat
<1>1. x % scale \in 0 .. scale - 1
  OBVIOUS
<1>2. x % scale <= x
  OBVIOUS
<1>3. QED
  BY <1>1, <1>2 DEF Stored

LEMMA StoredExact ==
  ASSUME NEW x \in Nat
  PROVE  Stored(x, 1) = x
<1>1. x % 1 = 0
  OBVIOUS
<1>2. QED
  BY <1>1 DEF Stored

\* Prices that are known when a worth is computed.
Priced(r, pr) == IsTrade(r) => pr \in Prices

LEMMA WorthNat ==
  ASSUME NEW r \in Request, NEW pr, Priced(r, pr)
  PROVE  Worth(r, pr) \in Nat
<1>1. CASE r \in TradeRequest
  <2>1. r.quantity \in Nat /\ pr \in Nat /\ IsTrade(r)
    BY <1>1 DEF TradeRequest, IsTrade, Priced
  <2>2. \A m, n \in Nat : m * n \in Nat
    OBVIOUS
  <2>3. QED
    BY <2>1, <2>2 DEF Worth
<1>2. CASE r \in CashRequest
  BY <1>2 DEF CashRequest, IsTrade, TradeKinds, CashKinds, Worth
<1>3. QED
  BY <1>1, <1>2 DEF Request

\* What the guards of the service let through leaves neither the balance nor
\* the holding negative.
LEMMA AllowedStaysNat ==
  ASSUME NEW r \in Request, NEW pr, Priced(r, pr),
         NEW c \in Nat, NEW h \in Nat, Allowed(c, h, r, pr)
  PROVE  CashAfter(c, r, pr) \in Nat /\ HeldAfter(h, r) \in Nat
<1>1. Worth(r, pr) \in Nat
  BY WorthNat
<1>2. CashAfter(c, r, pr) \in Nat
  BY <1>1 DEF CashAfter, Allowed, Request, TradeRequest, CashRequest,
              TradeKinds, CashKinds
<1>3. HeldAfter(h, r) \in Nat
  BY DEF HeldAfter, Allowed, Request, TradeRequest, CashRequest,
         TradeKinds, CashKinds
<1>4. QED
  BY <1>2, <1>3

\* The instance a handler builds is a row, and so is what the table keeps.
LEMMA NewRowType ==
  ASSUME NEW r \in Request, NEW pr, Priced(r, pr), NEW c \in Nat
  PROVE  NewRow(r, pr, c) \in Row
<1>1. Worth(r, pr) \in Nat
  BY WorthNat
<1>2. CASE r \in TradeRequest
  BY <1>1, <1>2 DEF TradeRequest, IsTrade, Priced, NewRow, Row, TradeRow
<1>3. CASE r \in CashRequest
  BY <1>3 DEF CashRequest, IsTrade, TradeKinds, CashKinds, NewRow, Row, CashRow
<1>4. QED
  BY <1>2, <1>3 DEF Request

LEMMA AsStoredType ==
  ASSUME NEW row \in Row
  PROVE  AsStored(row) \in Row /\ AsStored(row).key = row.key
         /\ AsStored(row).kind = row.kind
         /\ AsStored(row).portfolio = row.portfolio
<1>1. CASE row \in TradeRow
  <2>1. /\ IsTrade(row)
        /\ row.quantity \in Nat /\ row.price \in Nat /\ row.value \in Nat
    BY <1>1 DEF TradeRow, IsTrade
  <2>2. /\ Stored(row.quantity, QtyScale) \in Nat
        /\ Stored(row.price, PriceScale) \in Nat
        /\ Stored(row.value, CashScale) \in Nat
    BY <2>1, StoredNat
  <2>3. QED
    BY <1>1, <2>1, <2>2 DEF AsStored, Row, TradeRow
<1>2. CASE row \in CashRow
  <2>1. ~IsTrade(row) /\ row.value \in Nat /\ row.balance \in Nat
    BY <1>2 DEF CashRow, IsTrade, CashKinds, TradeKinds
  <2>2. Stored(row.value, CashScale) \in Nat /\ Stored(row.balance, CashScale) \in Nat
    BY <2>1, StoredNat
  <2>3. QED
    BY <1>2, <2>1, <2>2 DEF AsStored, Row, CashRow
<1>3. QED
  BY <1>1, <1>2 DEF Row

-----------------------------------------------------------------------------
(* The inductive invariant.                                                *)

\* What a handler knows of its request at each step.
Serving ==
  \A w \in Workers :
    /\ pc[w] # "idle" => req[w] \in Request
    /\ pc[w] \in {"lock", "publish"} \cup InTransaction => Priced(req[w], price[w])
    /\ pc[w] = "publish" => mem[w].cash >= 0

\* A row is locked by exactly the worker whose transaction is on it, and the
\* portfolio of a transaction exists.
RowLocks ==
  /\ \A w \in Workers :
       pc[w] \in InTransaction =>
         lock[req[w].portfolio] = w /\ req[w].portfolio \in live
  /\ \A p \in Portfolios :
       lock[p] # NoWorker =>
         pc[lock[p]] \in InTransaction /\ req[lock[p]].portfolio = p

\* Rows inserted and not yet committed are under keys that are new, and
\* different from each other.
PendingKeysNew ==
  \A w \in Workers :
    pc[w] = "commit" =>
      /\ ~Recorded(journal, req[w])
      /\ \A v \in Workers : pc[v] = "commit" /\ SameKey(req[v], req[w]) => v = w

IInv ==
  /\ TypeOK
  /\ Solvent
  /\ Serving
  /\ RowLocks
  /\ WritesAreFresh
  /\ PendingKeysNew
  /\ KeysUnique

LEMMA InitIInv == Init => IInv
<1> SUFFICES ASSUME Init PROVE IInv
  OBVIOUS
<1> USE DEF Init
<1>1. TypeOK
  BY DEF TypeOK, Steps, NoCopy, NoReply, Reply
<1>2. Solvent /\ Serving /\ RowLocks /\ PendingKeysNew
  BY DEF Solvent, Serving, RowLocks, PendingKeysNew, InTransaction
<1>3. WritesAreFresh /\ KeysUnique
  BY DEF WritesAreFresh, KeysUnique
<1>4. QED
  BY <1>1, <1>2, <1>3 DEF IInv

-----------------------------------------------------------------------------
(* The shape of a step: where it takes its worker, and what reply it sets. *)

LEMMA SameReply ==
  ASSUME TypeOK, NEW w \in Workers
  PROVE  /\ reply[w] \in Reply
         /\ reply = [reply EXCEPT ![w] = reply[w]]
BY DEF TypeOK

LEMMA Answers ==
  ASSUME NEW w \in Workers, NEW status \in {200, 201, 404, 409, 500},
         NEW row \in Row \cup {NoRow}, Answer(w, status, row)
  PROVE  /\ pc' = [pc EXCEPT ![w] = "answer"]
         /\ \E a \in Reply : reply' = [reply EXCEPT ![w] = a]
<1> DEFINE a == [status |-> status, row |-> row]
<1>1. a \in Reply
  BY DEF Reply
<1>2. pc' = [pc EXCEPT ![w] = "answer"] /\ reply' = [reply EXCEPT ![w] = a]
  BY DEF Answer, Goto
<1>3. QED
  <2> HIDE DEF a
  <2>1. QED
    BY <1>1, <1>2

\* A step that leaves the committed data alone, frees whatever row its worker
\* had locked and takes it out of its transaction, if it was in one, can only
\* disturb what that worker knows.
LEMMA ReleaseStep ==
  ASSUME IInv, NEW w \in Workers, db' = db, lock' = Unlocked(w),
         NEW step \in Steps \ InTransaction, pc' = [pc EXCEPT ![w] = step],
         \E a \in Reply : reply' = [reply EXCEPT ![w] = a],
         NEW r \in Request \cup {NoRequest}, req' = [req EXCEPT ![w] = r],
         NEW quote \in Prices \cup {0}, price' = [price EXCEPT ![w] = quote],
         NEW copy \in [cash: Int, held: Int], mem' = [mem EXCEPT ![w] = copy],
         step # "idle" => r \in Request,
         step = "lock" => Priced(r, quote),
         step # "publish"
  PROVE  IInv'
<1>1. TypeOK'
  <2>1. PICK a \in Reply : reply' = [reply EXCEPT ![w] = a]
    OBVIOUS
  <2>2. lock' \in [Portfolios -> Workers \cup {NoWorker}]
    BY DEF IInv, TypeOK, Unlocked
  <2>3. QED
    BY <2>1, <2>2 DEF IInv, TypeOK, db
<1>2. \A v \in Workers \ {w} :
        /\ pc'[v] = pc[v] /\ req'[v] = req[v]
        /\ price'[v] = price[v] /\ mem'[v] = mem[v]
  BY DEF IInv, TypeOK
<1>3. pc'[w] = step /\ req'[w] = r /\ price'[w] = quote /\ mem'[w] = copy
  BY DEF IInv, TypeOK
<1>4. Serving'
  BY <1>2, <1>3 DEF IInv, Serving, InTransaction, Priced
<1>5. Solvent' /\ KeysUnique'
  BY DEF IInv, Solvent, KeysUnique, db
<1>6. RowLocks'
  <2>1. ASSUME NEW v \in Workers, pc'[v] \in InTransaction
        PROVE  lock'[req'[v].portfolio] = v /\ req'[v].portfolio \in live'
    <3>1. v # w /\ lock[req[v].portfolio] = v /\ req[v].portfolio \in live
      BY <1>2, <1>3, <2>1 DEF IInv, RowLocks
    <3>2. QED
      BY <1>2, <3>1 DEF IInv, TypeOK, Unlocked, db
  <2>2. ASSUME NEW p \in Portfolios, lock'[p] # NoWorker
        PROVE  pc'[lock'[p]] \in InTransaction /\ req'[lock'[p]].portfolio = p
    <3>1. lock'[p] = lock[p] /\ lock[p] \in Workers \ {w}
      BY <2>2 DEF IInv, TypeOK, Unlocked
    <3>2. pc[lock[p]] \in InTransaction /\ req[lock[p]].portfolio = p
      BY <3>1 DEF IInv, RowLocks
    <3>3. QED
      BY <1>2, <3>1, <3>2
  <2>3. QED
    BY <2>1, <2>2 DEF RowLocks
<1>7. WritesAreFresh'
  BY <1>2, <1>3 DEF IInv, WritesAreFresh, InTransaction, HeldBy, db
<1>8. PendingKeysNew'
  BY <1>2, <1>3 DEF IInv, PendingKeysNew, InTransaction, db
<1>9. QED
  BY <1>1, <1>4, <1>5, <1>6, <1>7, <1>8 DEF IInv

\* Outside its transaction a worker has no row locked.
LEMMA NothingToUnlock ==
  ASSUME IInv, NEW w \in Workers, pc[w] \notin InTransaction
  PROVE  Unlocked(w) = lock
<1>1. \A p \in Portfolios : lock[p] # w
  BY DEF IInv, RowLocks, InTransaction
<1>2. QED
  BY <1>1, Zenon DEF IInv, TypeOK, Unlocked

-----------------------------------------------------------------------------
(* Steps outside a transaction.                                            *)

LEMMA ReceiveStep ==
  ASSUME IInv, NEW w \in Workers, Receive(w)
  PROVE  IInv'
<1>1. PICK r \in Request :
        /\ req' = [req EXCEPT ![w] = r]
        /\ \/ Goto(w, "check") /\ UNCHANGED reply
           \/ Answer(w, 404, NoRow)
  BY DEF Receive
<1>2. PICK step \in {"check", "answer"} : pc' = [pc EXCEPT ![w] = step]
  BY <1>1 DEF Goto, Answer
<1>3. \E a \in Reply : reply' = [reply EXCEPT ![w] = a]
  <2>1. CASE UNCHANGED reply
    BY <2>1, SameReply DEF IInv
  <2>2. CASE Answer(w, 404, NoRow)
    BY <2>2, Answers
  <2>3. QED
    BY <1>1, <2>1, <2>2
<1>4. /\ price[w] \in Prices \cup {0} /\ price' = [price EXCEPT ![w] = price[w]]
      /\ mem[w] \in [cash: Int, held: Int] /\ mem' = [mem EXCEPT ![w] = mem[w]]
  BY DEF Receive, IInv, TypeOK
<1>5. db' = db /\ lock' = Unlocked(w)
  BY NothingToUnlock DEF Receive, InTransaction
<1>6. step \in Steps \ InTransaction
  BY DEF Steps, InTransaction
<1>7. QED
  BY <1>1, <1>2, <1>3, <1>4, <1>5, <1>6, ReleaseStep

\* What a step that does not touch them keeps.
LEMMA SameCopies ==
  ASSUME TypeOK, NEW w \in Workers
  PROVE  /\ req[w] \in Request \cup {NoRequest} /\ req = [req EXCEPT ![w] = req[w]]
         /\ price[w] \in Prices \cup {0} /\ price = [price EXCEPT ![w] = price[w]]
         /\ mem[w] \in [cash: Int, held: Int] /\ mem = [mem EXCEPT ![w] = mem[w]]
BY DEF TypeOK

\* ReleaseStep for a step that keeps the request, the price and the copies.
LEMMA KeepStep ==
  ASSUME IInv, NEW w \in Workers, pc[w] # "idle", db' = db, lock' = Unlocked(w),
         NEW step \in {"answer", "price", "lock"}, pc' = [pc EXCEPT ![w] = step],
         step = "lock" => ~IsTrade(req[w]),
         \E a \in Reply : reply' = [reply EXCEPT ![w] = a],
         req' = req, price' = price, mem' = mem
  PROVE  IInv'
<1>1. /\ req[w] \in Request /\ req' = [req EXCEPT ![w] = req[w]]
      /\ price[w] \in Prices \cup {0} /\ price' = [price EXCEPT ![w] = price[w]]
      /\ mem[w] \in [cash: Int, held: Int] /\ mem' = [mem EXCEPT ![w] = mem[w]]
  <2>1. TypeOK /\ req[w] \in Request
    BY DEF IInv, Serving
  <2>2. QED
    BY <2>1, SameCopies
<1>2. step \in Steps \ InTransaction /\ (step = "lock" => Priced(req[w], price[w]))
  BY DEF Steps, InTransaction, Priced
<1>3. QED
  BY <1>1, <1>2, ReleaseStep

LEMMA CheckKeyStep ==
  ASSUME IInv, NEW w \in Workers, CheckKey(w)
  PROVE  IInv'
<1>1. \/ \E i \in DOMAIN journal : Answer(w, 200, journal[i])
      \/ /\ Goto(w, IF IsTrade(req[w]) THEN "price" ELSE "lock")
         /\ UNCHANGED reply
  BY DEF CheckKey
<1>2. PICK step \in {"answer", "price", "lock"} :
        /\ pc' = [pc EXCEPT ![w] = step]
        /\ step = "lock" => ~IsTrade(req[w])
  BY <1>1 DEF Goto, Answer
<1>3. \E a \in Reply : reply' = [reply EXCEPT ![w] = a]
  <2>1. CASE UNCHANGED reply
    BY <2>1, SameReply DEF IInv
  <2>2. ASSUME NEW i \in DOMAIN journal, Answer(w, 200, journal[i])
        PROVE  <1>3
    <3>1. journal[i] \in Row \cup {NoRow}
      BY DEF IInv, TypeOK
    <3>2. QED
      BY <2>2, <3>1, Answers
  <2>3. QED
    BY <1>1, <2>1, <2>2
<1>4. req' = req /\ price' = price /\ mem' = mem /\ pc[w] # "idle"
  BY DEF CheckKey
<1>5. db' = db /\ lock' = Unlocked(w)
  BY NothingToUnlock DEF CheckKey, InTransaction
<1>6. QED
  BY <1>2, <1>3, <1>4, <1>5, KeepStep

LEMMA FetchPriceStep ==
  ASSUME IInv, NEW w \in Workers, FetchPrice(w)
  PROVE  IInv'
<1>1. \/ \E quote \in Prices :
           /\ price' = [price EXCEPT ![w] = quote]
           /\ Goto(w, "lock")
           /\ UNCHANGED reply
      \/ Answer(w, 409, NoRow) /\ UNCHANGED price
  BY DEF FetchPrice
<1>2. PICK step \in {"answer", "lock"}, quote \in Prices \cup {0} :
        /\ pc' = [pc EXCEPT ![w] = step]
        /\ price' = [price EXCEPT ![w] = quote]
        /\ step = "lock" => quote \in Prices
  BY <1>1, SameCopies DEF Goto, Answer, IInv
<1>3. \E a \in Reply : reply' = [reply EXCEPT ![w] = a]
  <2>1. CASE UNCHANGED reply
    BY <2>1, SameReply DEF IInv
  <2>2. CASE Answer(w, 409, NoRow)
    BY <2>2, Answers
  <2>3. QED
    BY <1>1, <2>1, <2>2
<1>4. req' = req /\ mem' = mem /\ req[w] \in Request
  BY DEF FetchPrice, IInv, Serving
<1>5. db' = db /\ lock' = Unlocked(w)
  BY NothingToUnlock DEF FetchPrice, InTransaction
<1>6. step \in Steps \ InTransaction /\ (step = "lock" => Priced(req[w], quote))
  BY <1>2 DEF Steps, InTransaction, Priced
<1>7. QED
  BY <1>2, <1>3, <1>4, <1>5, <1>6, SameCopies, ReleaseStep DEF IInv

LEMMA PublishStep ==
  ASSUME IInv, NEW w \in Workers, Publish(w)
  PROVE  IInv'
<1>1. NewRow(req[w], price[w], mem[w].cash) \in Row
  <2>1. req[w] \in Request /\ Priced(req[w], price[w]) /\ mem[w].cash \in Nat
    BY DEF Publish, IInv, Serving, TypeOK
  <2>2. QED
    BY <2>1, NewRowType
<1>2. \E status \in {201, 500}, row \in Row \cup {NoRow} : Answer(w, status, row)
  BY <1>1 DEF Publish
<1>3. /\ pc' = [pc EXCEPT ![w] = "answer"]
      /\ \E a \in Reply : reply' = [reply EXCEPT ![w] = a]
  BY <1>2, Answers
<1>4. req' = req /\ price' = price /\ mem' = mem /\ pc[w] # "idle"
  BY DEF Publish
<1>5. db' = db /\ lock' = Unlocked(w)
  BY NothingToUnlock DEF Publish, InTransaction
<1>6. PICK step \in {"answer", "price", "lock"} : pc' = [pc EXCEPT ![w] = step] /\ step # "lock"
  BY <1>3
<1>7. QED
  BY <1>3, <1>4, <1>5, <1>6, KeepStep

\* A worker that rests, whether it has answered or its process died.
LEMMA RestStep ==
  ASSUME IInv, NEW w \in Workers, Rest(w), db' = db, lock' = Unlocked(w)
  PROVE  IInv'
<1>1. NoReply \in Reply /\ NoCopy \in [cash: Int, held: Int]
  BY DEF NoReply, Reply, NoCopy
<1>2. "idle" \in Steps \ InTransaction
  BY DEF Steps, InTransaction
<1>3. QED
  BY <1>1, <1>2, ReleaseStep DEF Rest, Goto

LEMMA RespondStep ==
  ASSUME IInv, NEW w \in Workers, Respond(w)
  PROVE  IInv'
BY RestStep, NothingToUnlock DEF Respond, InTransaction

LEMMA CrashStep ==
  ASSUME IInv, NEW w \in Workers, Crash(w)
  PROVE  IInv'
BY RestStep DEF Crash

-----------------------------------------------------------------------------
(* Steps of a transaction.                                                 *)

Rejected(w) == \E status \in {409, 500} : RollBack(w, status)

LEMMA RollBackStep ==
  ASSUME IInv, NEW w \in Workers, pc[w] # "idle", Rejected(w)
  PROVE  IInv'
<1>1. /\ pc' = [pc EXCEPT ![w] = "answer"]
      /\ \E a \in Reply : reply' = [reply EXCEPT ![w] = a]
  BY Answers DEF Rejected, RollBack
<1>2. /\ req' = req /\ price' = price /\ mem' = mem
      /\ db' = db /\ lock' = Unlocked(w)
  BY DEF Rejected, RollBack
<1>3. PICK step \in {"answer", "price", "lock"} : pc' = [pc EXCEPT ![w] = step] /\ step # "lock"
  BY <1>1
<1>4. QED
  BY <1>1, <1>2, <1>3, KeepStep

LEMMA LockPortfolioStep ==
  ASSUME IInv, NEW w \in Workers, LockPortfolio(w)
  PROVE  IInv'
<1> DEFINE p == req[w].portfolio
<1>1. pc[w] = "lock" /\ lock[p] = NoWorker /\ db' = db /\ req' = req /\ price' = price
  BY DEF LockPortfolio
<1>2. CASE p \notin live
  <2>1. Answer(w, 404, NoRow) /\ lock' = lock /\ mem' = mem
    BY <1>2 DEF LockPortfolio
  <2>2. /\ pc' = [pc EXCEPT ![w] = "answer"]
        /\ \E a \in Reply : reply' = [reply EXCEPT ![w] = a]
    BY <2>1, Answers
  <2>3. PICK step \in {"answer", "price", "lock"} : pc' = [pc EXCEPT ![w] = step] /\ step # "lock"
    BY <2>2
  <2>4. lock' = Unlocked(w)
    BY <1>1, <2>1, NothingToUnlock DEF InTransaction
  <2>5. QED
    BY <1>1, <2>1, <2>2, <2>3, <2>4, KeepStep
<1>3. CASE p \in live
  <2>1. /\ lock' = [lock EXCEPT ![p] = w]
        /\ mem' = [mem EXCEPT ![w].cash = cash[p]]
        /\ pc' = [pc EXCEPT ![w] = "apply"]
        /\ reply' = reply
    BY <1>3 DEF LockPortfolio, Goto
  <2>2. req[w] \in Request /\ p \in Portfolios /\ Priced(req[w], price[w])
    BY <1>1, <1>3 DEF IInv, Serving, TypeOK
  <2>3. TypeOK'
    BY <1>1, <2>1, <2>2 DEF IInv, TypeOK, Steps, db
  <2>4. /\ \A v \in Workers \ {w} : pc'[v] = pc[v] /\ mem'[v] = mem[v]
        /\ pc'[w] = "apply" /\ mem'[w].cash = cash[p]
    BY <2>1 DEF IInv, TypeOK
  <2>5. Serving'
    BY <1>1, <2>2, <2>4 DEF IInv, Serving, InTransaction, Priced
  <2>6. Solvent' /\ KeysUnique'
    BY <1>1 DEF IInv, Solvent, KeysUnique, db
  <2>7. RowLocks'
    <3>1. ASSUME NEW v \in Workers, pc'[v] \in InTransaction
          PROVE  lock'[req'[v].portfolio] = v /\ req'[v].portfolio \in live'
      BY <1>1, <1>3, <2>1, <2>2, <2>4, <3>1 DEF IInv, RowLocks, TypeOK, db
    <3>2. ASSUME NEW q \in Portfolios, lock'[q] # NoWorker
          PROVE  pc'[lock'[q]] \in InTransaction /\ req'[lock'[q]].portfolio = q
      <4>1. CASE q = p
        BY <1>1, <2>1, <2>2, <2>4, <4>1 DEF IInv, TypeOK, InTransaction
      <4>2. CASE q # p
        <5>1. lock'[q] = lock[q] /\ pc[lock[q]] \in InTransaction
              /\ req[lock[q]].portfolio = q /\ lock[q] \in Workers
          BY <2>1, <3>2, <4>2 DEF IInv, RowLocks, TypeOK
        <5>2. lock[q] # w
          BY <1>1, <5>1 DEF InTransaction
        <5>3. QED
          BY <1>1, <2>4, <5>1, <5>2
      <4>3. QED
        BY <4>1, <4>2
    <3>3. QED
      BY <3>1, <3>2 DEF RowLocks
  <2>8. WritesAreFresh'
    BY <1>1, <2>4 DEF IInv, WritesAreFresh, HeldBy, db
  <2>9. PendingKeysNew'
    BY <1>1, <2>4 DEF IInv, PendingKeysNew, db
  <2>10. QED
    BY <2>3, <2>5, <2>6, <2>7, <2>8, <2>9 DEF IInv
<1>4. QED
  BY <1>2, <1>3

\* A step inside a transaction changes nothing that others see: only where its
\* worker is and what it has in memory.
LEMMA InsideStep ==
  ASSUME IInv, NEW w \in Workers, pc[w] \in InTransaction, db' = db,
         lock' = lock, req' = req, price' = price, reply' = reply,
         NEW step \in InTransaction, pc' = [pc EXCEPT ![w] = step],
         NEW copy \in [cash: Int, held: Int], mem' = [mem EXCEPT ![w] = copy],
         WritesAreFresh', PendingKeysNew'
  PROVE  IInv'
<1>1. step \in Steps
  BY DEF InTransaction, Steps
<1>2. TypeOK'
  BY <1>1 DEF IInv, TypeOK, db
<1>3. \A v \in Workers : pc'[v] = IF v = w THEN step ELSE pc[v]
  BY DEF IInv, TypeOK
<1>4. Serving'
  <2>1. \A v \in Workers : pc'[v] # "publish" \/ (pc'[v] = pc[v] /\ mem'[v] = mem[v])
    BY <1>3 DEF IInv, TypeOK, InTransaction
  <2>2. \A v \in Workers : pc'[v] # "idle" => pc[v] # "idle"
    BY <1>3 DEF InTransaction
  <2>3. \A v \in Workers :
          pc'[v] \in {"lock", "publish"} \cup InTransaction =>
            pc[v] \in {"lock", "publish"} \cup InTransaction
    BY <1>3
  <2>4. QED
    BY <2>1, <2>2, <2>3 DEF IInv, Serving, Priced
<1>5. Solvent' /\ KeysUnique'
  BY DEF IInv, Solvent, KeysUnique, db
<1>6. RowLocks'
  <2>1. \A v \in Workers : pc'[v] \in InTransaction <=> pc[v] \in InTransaction
    BY <1>3
  <2>2. QED
    BY <2>1 DEF IInv, RowLocks, TypeOK, db
<1>7. QED
  BY <1>2, <1>4, <1>5, <1>6 DEF IInv

LEMMA ApplyStep ==
  ASSUME IInv, NEW w \in Workers, Apply(w)
  PROVE  IInv'
<1> DEFINE r == req[w]
           after == [cash |-> CashAfter(mem[w].cash, r, price[w]),
                     held |-> HeldAfter(HeldBy(r), r)]
<1>1. pc[w] = "apply"
  BY DEF Apply
<1>2. CASE Rejected(w)
  BY <1>1, <1>2, RollBackStep
<1>3. CASE /\ Allowed(mem[w].cash, HeldBy(r), r, price[w])
           /\ mem' = [mem EXCEPT ![w] = after]
           /\ Goto(w, "insert")
           /\ UNCHANGED <<db, lock, req, price, reply>>
  <2>1. /\ r \in Request /\ Priced(r, price[w])
        /\ mem[w].cash \in Int /\ mem[w].cash = cash[r.portfolio]
    BY <1>1 DEF IInv, Serving, InTransaction, TypeOK, WritesAreFresh
  <2>2. r.portfolio \in Portfolios /\ (IsTrade(r) => r.ticker \in Tickers)
    BY <2>1 DEF Request, TradeRequest, CashRequest, IsTrade, TradeKinds, CashKinds
  <2>3. HeldBy(r) \in Nat /\ mem[w].cash \in Nat
    BY <2>1, <2>2 DEF IInv, Solvent, TypeOK, HeldBy
  <2>4. after \in [cash: Int, held: Int]
    BY <1>3, <2>1, <2>3, AllowedStaysNat
  <2>5. /\ \A v \in Workers \ {w} : pc'[v] = pc[v] /\ mem'[v] = mem[v]
        /\ pc'[w] = "insert" /\ mem'[w] = after
    BY <1>3 DEF Goto, IInv, TypeOK
  <2>6. WritesAreFresh'
    <3> SUFFICES ASSUME NEW v \in Workers
                 PROVE  /\ pc'[v] = "apply" => mem'[v].cash = cash[req[v].portfolio]
                        /\ pc'[v] \in {"insert", "commit"} =>
                             /\ Allowed(cash[req[v].portfolio], HeldBy(req[v]), req[v], price[v])
                             /\ mem'[v].cash = CashAfter(cash[req[v].portfolio], req[v], price[v])
                             /\ mem'[v].held = HeldAfter(HeldBy(req[v]), req[v])
      BY <1>3 DEF WritesAreFresh, HeldBy, db
    <3>1. CASE v = w
      BY <1>3, <2>1, <2>5, <3>1
    <3>2. CASE v # w
      BY <2>5, <3>2 DEF IInv, WritesAreFresh
    <3>3. QED
      BY <3>1, <3>2
  <2>7. PendingKeysNew'
    BY <1>3, <2>5 DEF IInv, PendingKeysNew, db
  <2>8. PICK step \in InTransaction : pc' = [pc EXCEPT ![w] = step]
    BY <1>3 DEF Goto, InTransaction
  <2>9. pc[w] \in InTransaction
    BY <1>1 DEF InTransaction
  <2>10. QED
    <3> HIDE DEF after
    <3>1. /\ db' = db /\ lock' = lock /\ req' = req /\ price' = price
          /\ reply' = reply /\ mem' = [mem EXCEPT ![w] = after]
      BY <1>3
    <3>2. QED
      BY <2>4, <2>6, <2>7, <2>8, <2>9, <3>1, InsideStep
<1>4. QED
  BY <1>2, <1>3 DEF Apply, Rejected

LEMMA InsertStep ==
  ASSUME IInv, NEW w \in Workers, Insert(w)
  PROVE  IInv'
<1>1. pc[w] = "insert" /\ pc[w] \in InTransaction
  BY DEF Insert, InTransaction
<1>2. CASE RollBack(w, 500)
  BY <1>1, <1>2, RollBackStep DEF Rejected
<1>3. CASE /\ ~Recorded(journal, req[w])
           /\ Goto(w, "commit")
           /\ UNCHANGED <<db, lock, req, price, mem, reply>>
  <2>1. /\ \A v \in Workers \ {w} : pc'[v] = pc[v]
        /\ pc'[w] = "commit"
    BY <1>3 DEF Goto, IInv, TypeOK
  <2>2. /\ mem[w] \in [cash: Int, held: Int] /\ mem' = [mem EXCEPT ![w] = mem[w]]
    BY <1>3, SameCopies DEF IInv
  <2>3. WritesAreFresh'
    BY <1>1, <1>3, <2>1 DEF IInv, WritesAreFresh, HeldBy, db
  <2>4. \A v \in Workers :
          pc[v] = "commit" => ~SameKey(req[v], req[w]) /\ ~SameKey(req[w], req[v])
    BY DEF Insert, SameKey
  <2>5. PendingKeysNew'
    BY <1>3, <2>1, <2>4 DEF IInv, PendingKeysNew, db
  <2>6. PICK step \in InTransaction : pc' = [pc EXCEPT ![w] = step]
    BY <1>3 DEF Goto, InTransaction
  <2>7. db' = db /\ lock' = lock /\ req' = req /\ price' = price /\ reply' = reply
    BY <1>3
  <2>8. QED
    BY <1>1, <2>2, <2>3, <2>5, <2>6, <2>7, InsideStep
<1>4. QED
  BY <1>2, <1>3 DEF Insert

\* The row a request leaves in its table is that request's, under its key.
LEMMA CommittedRow ==
  ASSUME NEW r \in Request, NEW pr, Priced(r, pr), NEW c \in Nat
  PROVE  LET row == AsStored(NewRow(r, pr, c))
         IN  /\ row \in Row
             /\ row.kind = r.kind /\ row.key = r.key /\ row.portfolio = r.portfolio
<1>1. NewRow(r, pr, c) \in Row
  BY NewRowType
<1>2. /\ NewRow(r, pr, c).kind = r.kind /\ NewRow(r, pr, c).key = r.key
      /\ NewRow(r, pr, c).portfolio = r.portfolio
  BY DEF NewRow
<1>3. QED
  BY <1>1, <1>2, AsStoredType

\* What a transaction is about to commit is not negative.
LEMMA CommitCopies ==
  ASSUME IInv, NEW w \in Workers, pc[w] = "commit"
  PROVE  mem[w].cash \in Nat /\ mem[w].held \in Nat
<1> DEFINE r == req[w]
           p == req[w].portfolio
<1>1. r \in Request /\ Priced(r, price[w])
  BY DEF IInv, Serving, InTransaction
<1>2. p \in Portfolios /\ (IsTrade(r) => r.ticker \in Tickers)
  BY <1>1 DEF Request, TradeRequest, CashRequest, IsTrade, TradeKinds, CashKinds
<1>3. /\ Allowed(cash[p], HeldBy(r), r, price[w])
      /\ mem[w].cash = CashAfter(cash[p], r, price[w])
      /\ mem[w].held = HeldAfter(HeldBy(r), r)
  BY DEF IInv, WritesAreFresh
<1>4. cash[p] \in Nat /\ HeldBy(r) \in Nat
  BY <1>2 DEF IInv, TypeOK, Solvent, HeldBy
<1>5. QED
  BY <1>1, <1>3, <1>4, AllowedStaysNat

LEMMA CommitStep ==
  ASSUME IInv, NEW w \in Workers, Commit(w)
  PROVE  IInv'
<1> DEFINE r == req[w]
           p == req[w].portfolio
           row == AsStored(NewRow(r, price[w], mem[w].cash))
           newCash == Stored(mem[w].cash, CashScale)
           newHeld == Stored(mem[w].held, QtyScale)
<1>1. pc[w] = "commit" /\ pc[w] \in InTransaction
  BY DEF Commit, InTransaction
<1>2. /\ cash' = [cash EXCEPT ![p] = newCash]
      /\ IF IsTrade(r)
         THEN position' = [position EXCEPT ![p][r.ticker] = newHeld]
         ELSE position' = position
      /\ journal' = Append(journal, row)
      /\ lock' = Unlocked(w)
      /\ pc' = [pc EXCEPT ![w] = "publish"]
      /\ live' = live /\ req' = req /\ price' = price /\ mem' = mem /\ reply' = reply
  BY DEF Commit, Goto
<1>3. r \in Request /\ Priced(r, price[w])
  BY <1>1 DEF IInv, Serving
<1>4. p \in Portfolios /\ (IsTrade(r) => r.ticker \in Tickers)
  BY <1>3 DEF Request, TradeRequest, CashRequest, IsTrade, TradeKinds, CashKinds
<1>5. mem[w].cash \in Nat /\ mem[w].held \in Nat
  BY <1>1, CommitCopies
<1>6. newCash \in Nat /\ newHeld \in Nat
  BY <1>5, StoredNat
<1>7. row \in Row /\ row.kind = r.kind /\ row.key = r.key /\ row.portfolio = p
  BY <1>3, <1>5, CommittedRow
<1> HIDE DEF row, newCash, newHeld
<1>8. TypeOK'
  <2>1. journal' \in Seq(Row)
    BY <1>2, <1>7 DEF IInv, TypeOK
  <2>2. lock' \in [Portfolios -> Workers \cup {NoWorker}]
    BY <1>2 DEF IInv, TypeOK, Unlocked
  <2>3. cash' \in [Portfolios -> Int]
    BY <1>2, <1>4, <1>6 DEF IInv, TypeOK
  <2>4. position' \in [Portfolios -> [Tickers -> Int]]
    <3>1. CASE IsTrade(r)
      <4>1. position' = [position EXCEPT ![p] = [position[p] EXCEPT ![r.ticker] = newHeld]]
        BY <1>2, <3>1
      <4>2. position[p] \in [Tickers -> Int] /\ newHeld \in Int
        BY <1>4, <1>6 DEF IInv, TypeOK
      <4>3. [position[p] EXCEPT ![r.ticker] = newHeld] \in [Tickers -> Int]
        BY <4>2
      <4>4. QED
        BY <4>1, <4>3 DEF IInv, TypeOK
    <3>2. CASE ~IsTrade(r)
      BY <1>2, <3>2 DEF IInv, TypeOK
    <3>3. QED
      BY <3>1, <3>2
  <2>5. pc' \in [Workers -> Steps]
    BY <1>2 DEF IInv, TypeOK, Steps
  <2>6. QED
    BY <1>2, <2>1, <2>2, <2>3, <2>4, <2>5 DEF IInv, TypeOK
<1>9. Solvent'
  <2>1. ASSUME NEW q \in Portfolios PROVE cash'[q] >= 0
    BY <1>2, <1>6 DEF IInv, TypeOK, Solvent
  <2>2. ASSUME NEW q \in Portfolios, NEW t \in Tickers PROVE position'[q][t] >= 0
    <3>1. CASE IsTrade(r)
      <4>1. position[q] \in [Tickers -> Int] /\ position \in [Portfolios -> [Tickers -> Int]]
        BY DEF IInv, TypeOK
      <4>2. position' = [position EXCEPT ![p] = [position[p] EXCEPT ![r.ticker] = newHeld]]
        BY <1>2, <3>1
      <4>3. position'[q][t] = IF q = p /\ t = r.ticker THEN newHeld ELSE position[q][t]
        BY <4>1, <4>2
      <4>4. QED
        BY <1>6, <4>3 DEF IInv, Solvent
    <3>2. CASE ~IsTrade(r)
      BY <1>2, <3>2 DEF IInv, Solvent
    <3>3. QED
      BY <3>1, <3>2
  <2>3. QED
    BY <2>1, <2>2 DEF Solvent
<1>10. pc'[w] = "publish" /\ \A v \in Workers \ {w} : pc'[v] = pc[v]
  BY <1>2 DEF IInv, TypeOK
<1>11. Serving'
  BY <1>1, <1>2, <1>3, <1>5, <1>10 DEF IInv, Serving, InTransaction, Priced
<1>12. \A v \in Workers \ {w} :
         pc[v] \in InTransaction => req[v].portfolio \in Portfolios \ {p}
  BY <1>1, <1>4 DEF IInv, RowLocks, TypeOK
<1>13. RowLocks'
  <2>1. ASSUME NEW v \in Workers, pc'[v] \in InTransaction
        PROVE  lock'[req'[v].portfolio] = v /\ req'[v].portfolio \in live'
    <3>1. v # w
      BY <1>10, <2>1 DEF InTransaction
    <3>2. lock[req[v].portfolio] = v /\ req[v].portfolio \in live
      BY <1>10, <2>1, <3>1 DEF IInv, RowLocks
    <3>3. QED
      BY <1>2, <3>1, <3>2 DEF IInv, TypeOK, Unlocked
  <2>2. ASSUME NEW q \in Portfolios, lock'[q] # NoWorker
        PROVE  pc'[lock'[q]] \in InTransaction /\ req'[lock'[q]].portfolio = q
    <3>1. lock'[q] = lock[q] /\ lock[q] \in Workers \ {w}
      BY <1>2, <2>2 DEF IInv, TypeOK, Unlocked
    <3>2. pc[lock[q]] \in InTransaction /\ req[lock[q]].portfolio = q
      BY <3>1 DEF IInv, RowLocks
    <3>3. QED
      BY <1>2, <1>10, <3>1, <3>2
  <2>3. QED
    BY <2>1, <2>2 DEF RowLocks
<1>14. WritesAreFresh'
  <2>1. ASSUME NEW v \in Workers, pc'[v] \in InTransaction
        PROVE  /\ v # w /\ pc'[v] = pc[v] /\ mem'[v] = mem[v] /\ req'[v] = req[v]
               /\ price'[v] = price[v]
               /\ cash'[req[v].portfolio] = cash[req[v].portfolio]
               /\ HeldBy(req[v])' = HeldBy(req[v])
    <3>1. v # w
      BY <1>10, <2>1 DEF InTransaction
    <3>2. req[v].portfolio \in Portfolios \ {p}
      BY <1>10, <1>12, <2>1, <3>1
    <3>3. cash'[req[v].portfolio] = cash[req[v].portfolio]
      BY <1>2, <3>2 DEF IInv, TypeOK
    <3>4. position'[req[v].portfolio] = position[req[v].portfolio]
      BY <1>2, <3>2 DEF IInv, TypeOK
    <3>5. HeldBy(req[v])' = HeldBy(req[v])
      BY <1>2, <3>4 DEF HeldBy
    <3>6. QED
      BY <1>2, <1>10, <3>1, <3>3, <3>5
  <2>2. QED
    BY <2>1 DEF IInv, WritesAreFresh, InTransaction
<1>15. PendingKeysNew'
  <2>1. ASSUME NEW v \in Workers, pc'[v] = "commit"
        PROVE  ~Recorded(journal', req[v])
    <3>1. v # w /\ pc[v] = "commit"
      BY <1>10, <2>1
    <3>2. ~Recorded(journal, req[v]) /\ ~SameKey(req[w], req[v])
      BY <1>1, <3>1 DEF IInv, PendingKeysNew
    <3>3. ~SameKey(row, req[v])
      BY <1>7, <3>2 DEF SameKey, IsTrade
    <3>4. QED
      BY <1>2, <1>7, <3>2, <3>3 DEF Recorded, IInv, TypeOK
  <2>2. QED
    BY <1>2, <1>10, <2>1 DEF IInv, PendingKeysNew
<1>16. KeysUnique'
  <2>1. \A i \in DOMAIN journal : ~SameKey(journal[i], row) /\ ~SameKey(row, journal[i])
    <3>1. ~Recorded(journal, r)
      BY <1>1 DEF IInv, PendingKeysNew
    <3>2. QED
      BY <1>7, <3>1 DEF Recorded, SameKey, IsTrade
  <2>2. QED
    BY <1>2, <1>7, <2>1 DEF KeysUnique, IInv, TypeOK
<1>17. QED
  BY <1>8, <1>9, <1>11, <1>13, <1>14, <1>15, <1>16 DEF IInv

-----------------------------------------------------------------------------
(* The administrator, and the invariant as a whole.                        *)

LEMMA RemovePortfolioStep ==
  ASSUME IInv, NEW p \in Portfolios, RemovePortfolio(p)
  PROVE  IInv'
<1>1. /\ lock[p] = NoWorker
      /\ live' = live \ {p}
      /\ cash' = [cash EXCEPT ![p] = 0]
      /\ position' = [position EXCEPT ![p] = [t \in Tickers |-> 0]]
      /\ journal' = journal /\ lock' = lock /\ pc' = pc /\ req' = req
      /\ price' = price /\ mem' = mem /\ reply' = reply
  BY DEF RemovePortfolio
<1>2. TypeOK'
  BY <1>1 DEF IInv, TypeOK
<1>3. Solvent'
  BY <1>1 DEF IInv, TypeOK, Solvent
<1>4. Serving' /\ PendingKeysNew' /\ KeysUnique'
  BY <1>1 DEF IInv, Serving, PendingKeysNew, KeysUnique, Priced
<1>5. \A v \in Workers : pc[v] \in InTransaction => req[v].portfolio \in Portfolios \ {p}
  BY <1>1 DEF IInv, RowLocks, TypeOK
<1>6. RowLocks'
  BY <1>1, <1>5 DEF IInv, RowLocks
<1>7. WritesAreFresh'
  <2>1. ASSUME NEW v \in Workers, pc[v] \in InTransaction
        PROVE  /\ cash'[req[v].portfolio] = cash[req[v].portfolio]
               /\ HeldBy(req[v])' = HeldBy(req[v])
    BY <1>1, <1>5, <2>1 DEF IInv, TypeOK, HeldBy
  <2>2. QED
    BY <1>1, <2>1 DEF IInv, WritesAreFresh, InTransaction
<1>8. QED
  BY <1>2, <1>3, <1>4, <1>6, <1>7 DEF IInv

LEMMA NextIInv == IInv /\ [Next]_vars => IInv'
<1> SUFFICES ASSUME IInv, [Next]_vars PROVE IInv'
  OBVIOUS
<1>1. ASSUME NEW w \in Workers, Receive(w) PROVE IInv'
  BY <1>1, ReceiveStep
<1>2. ASSUME NEW w \in Workers, Work(w) PROVE IInv'
  BY <1>2, CheckKeyStep, FetchPriceStep, LockPortfolioStep, ApplyStep,
     InsertStep, CommitStep, PublishStep, RespondStep DEF Work
<1>3. ASSUME NEW w \in Workers, Crash(w) PROVE IInv'
  BY <1>3, CrashStep
<1>4. ASSUME NEW p \in Portfolios, RemovePortfolio(p) PROVE IInv'
  BY <1>4, RemovePortfolioStep
<1>5. CASE UNCHANGED vars
  BY <1>5 DEF vars, IInv, TypeOK, Solvent, Serving, Priced, RowLocks,
              WritesAreFresh, HeldBy, PendingKeysNew, KeysUnique
<1>6. QED
  BY <1>1, <1>2, <1>3, <1>4, <1>5 DEF Next

THEOREM Invariance == Spec => []IInv
<1>1. QED
  BY InitIInv, NextIInv, PTL DEF Spec

\* Every variable of the write path keeps its type.
THEOREM TypeCorrect == Spec => []TypeOK
<1>1. IInv => TypeOK
  BY DEF IInv
<1>2. QED
  BY Invariance, <1>1, PTL

\* No interleaving of trades, transfers, crashes and deletions ever leaves a
\* committed balance or position negative.
THEOREM NeverOverdrawn == Spec => []Solvent
<1>1. IInv => Solvent
  BY DEF IInv
<1>2. QED
  BY Invariance, <1>1, PTL

\* A transaction always writes a value computed from the committed one.
THEOREM NoLostUpdate == Spec => []WritesAreFresh
<1>1. IInv => WritesAreFresh
  BY DEF IInv
<1>2. QED
  BY Invariance, <1>1, PTL

\* No idempotency key ever takes effect twice in a table.
THEOREM AtMostOnce == Spec => []KeysUnique
<1>1. IInv => KeysUnique
  BY DEF IInv
<1>2. QED
  BY Invariance, <1>1, PTL

\* However many handlers wait for rows and for each other's inserts, no wait
\* closes a cycle or has nobody left to end it.
THEOREM NoDeadlock == Spec => []WaitsEnd
<1>1. IInv => WaitsEnd
  <2> SUFFICES ASSUME IInv, NEW w \in Workers, NEW v \in WaitsFor(w)
               PROVE  /\ pc[v] \in InTransaction
                      /\ \A u \in WaitsFor(v) : pc[u] = "commit" /\ WaitsFor(u) = {}
    BY DEF WaitsEnd
  <2>1. v \in Workers
    BY DEF WaitsFor
  <2>2. pc[v] \in InTransaction
    <3>1. CASE pc[w] = "lock" /\ lock[req[w].portfolio] = v
      <4>1. req[w].portfolio \in Portfolios
        BY <3>1 DEF IInv, Serving, Request, TradeRequest, CashRequest
      <4>2. v # NoWorker
        BY <2>1, LedgerAssumption
      <4>3. QED
        BY <3>1, <4>1, <4>2 DEF IInv, RowLocks
    <3>2. CASE pc[v] = "commit"
      BY <3>2 DEF InTransaction
    <3>3. QED
      BY <3>1, <3>2 DEF WaitsFor
  <2>3. ASSUME NEW u \in WaitsFor(v)
        PROVE  pc[u] = "commit" /\ WaitsFor(u) = {}
    <3>1. pc[u] = "commit"
      BY <2>2, <2>3 DEF WaitsFor, InTransaction
    <3>2. QED
      BY <3>1 DEF WaitsFor
  <2>4. QED
    BY <2>2, <2>3
<1>2. QED
  BY Invariance, <1>1, PTL

-----------------------------------------------------------------------------
(* What a client is told, and the balance a row carries.                   *)

\* A column value is a whole number of column units.
LEMMA StoredMultiple ==
  ASSUME NEW x \in Nat, NEW scale \in Nat \ {0}
  PROVE  \E q \in Nat : Stored(x, scale) = scale * q
<1>1. x = scale * (x \div scale) + (x % scale) /\ x \div scale \in Nat
  OBVIOUS
<1>2. /\ x - (x % scale) = scale * (x \div scale)
      /\ x - (x % scale) + scale = scale * ((x \div scale) + 1)
  BY <1>1
<1>3. \/ Stored(x, scale) = scale * (x \div scale)
      \/ Stored(x, scale) = scale * ((x \div scale) + 1)
  BY <1>2 DEF Stored
<1>4. (x \div scale) + 1 \in Nat
  BY <1>1
<1>5. QED
  BY <1>1, <1>3, <1>4

\* Storing a column value again changes nothing.
LEMMA StoredTwice ==
  ASSUME NEW x \in Nat, NEW scale \in Nat \ {0}
  PROVE  Stored(Stored(x, scale), scale) = Stored(x, scale)
<1>1. PICK q \in Nat : Stored(x, scale) = scale * q
  BY StoredMultiple
<1>2. scale * q \in Nat /\ (scale * q) % scale = 0
  OBVIOUS
<1>3. Stored(scale * q, scale) = scale * q
  BY <1>2 DEF Stored
<1>4. QED
  BY <1>1, <1>3

LEMMA AsStoredTwice ==
  ASSUME NEW row \in Row
  PROVE  AsStored(AsStored(row)) = AsStored(row)
<1>1. CASE row \in TradeRow
  <2>1. /\ IsTrade(row)
        /\ row.quantity \in Nat /\ row.price \in Nat /\ row.value \in Nat
    BY <1>1 DEF TradeRow, IsTrade
  <2>2. /\ Stored(Stored(row.quantity, QtyScale), QtyScale) = Stored(row.quantity, QtyScale)
        /\ Stored(Stored(row.price, PriceScale), PriceScale) = Stored(row.price, PriceScale)
        /\ Stored(Stored(row.value, CashScale), CashScale) = Stored(row.value, CashScale)
    BY <2>1, StoredTwice
  <2>3. QED
    BY <1>1, <2>1, <2>2 DEF AsStored, TradeRow, IsTrade
<1>2. CASE row \in CashRow
  <2>1. ~IsTrade(row) /\ row.value \in Nat /\ row.balance \in Nat
    BY <1>2 DEF CashRow, IsTrade, CashKinds, TradeKinds
  <2>2. /\ Stored(Stored(row.balance, CashScale), CashScale) = Stored(row.balance, CashScale)
        /\ Stored(Stored(row.value, CashScale), CashScale) = Stored(row.value, CashScale)
    BY <2>1, StoredTwice
  <2>3. QED
    BY <1>2, <2>1, <2>2 DEF AsStored, CashRow, IsTrade
<1>3. QED
  BY <1>1, <1>2 DEF Row

\* The tables hold column values, so a replay shows the row as it is.
JournalStored == \A i \in DOMAIN journal : AsStored(journal[i]) = journal[i]

\* Only a worker that is about to answer holds a success.
SuccessIsSent ==
  \A w \in Workers : reply[w].status \in {200, 201} => pc[w] = "answer"

\* The entry a worker is about to broadcast is in its table.
CommittedIsKept ==
  \A w \in Workers :
    pc[w] = "publish" =>
      \E i \in DOMAIN journal :
        /\ SameKey(journal[i], req[w])
        /\ journal[i] = AsStored(NewRow(req[w], price[w], mem[w].cash))

AnswersInv ==
  /\ JournalStored
  /\ SuccessIsSent
  /\ CommittedIsKept
  /\ AnswersAreTrue

\* A step of one worker that keeps every row can only disturb what that worker
\* is about to broadcast or to answer.
LEMMA AnswersStep ==
  ASSUME AnswersInv, NEW w \in Workers,
         \A i \in DOMAIN journal : i \in DOMAIN journal' /\ journal'[i] = journal[i],
         \A v \in Workers \ {w} :
           /\ pc'[v] = pc[v] /\ req'[v] = req[v] /\ price'[v] = price[v]
           /\ mem'[v] = mem[v] /\ reply'[v] = reply[v],
         JournalStored',
         pc'[w] = "publish" =>
           \E i \in DOMAIN journal' :
             /\ SameKey(journal'[i], req'[w])
             /\ journal'[i] = AsStored(NewRow(req'[w], price'[w], mem'[w].cash)),
         reply'[w].status \in {200, 201} =>
           /\ pc'[w] = "answer"
           /\ \E i \in DOMAIN journal' :
                /\ SameKey(journal'[i], req'[w])
                /\ journal'[i] = AsStored(reply'[w].row)
  PROVE  AnswersInv'
<1>1. SuccessIsSent'
  BY DEF AnswersInv, SuccessIsSent
<1>2. CommittedIsKept'
  <2>1. ASSUME NEW v \in Workers \ {w}, pc'[v] = "publish"
        PROVE  \E i \in DOMAIN journal' :
                 /\ SameKey(journal'[i], req'[v])
                 /\ journal'[i] = AsStored(NewRow(req'[v], price'[v], mem'[v].cash))
    BY <2>1 DEF AnswersInv, CommittedIsKept
  <2>2. QED
    BY <2>1 DEF CommittedIsKept
<1>3. AnswersAreTrue'
  <2>1. ASSUME NEW v \in Workers \ {w}, reply'[v].status \in {200, 201}
        PROVE  \E i \in DOMAIN journal' :
                 SameKey(journal'[i], req'[v]) /\ journal'[i] = AsStored(reply'[v].row)
    BY <2>1 DEF AnswersInv, AnswersAreTrue
  <2>2. QED
    BY <2>1 DEF AnswersAreTrue
<1>4. QED
  BY <1>1, <1>2, <1>3 DEF AnswersInv

LEMMA WorkAnswers ==
  ASSUME IInv, AnswersInv, NEW w \in Workers, Receive(w) \/ Work(w) \/ Crash(w)
  PROVE  AnswersInv'
<1>1. \A v \in Workers \ {w} :
        /\ pc'[v] = pc[v] /\ req'[v] = req[v] /\ price'[v] = price[v]
        /\ mem'[v] = mem[v] /\ reply'[v] = reply[v]
  BY DEF IInv, TypeOK, Receive, Work, Crash, CheckKey, FetchPrice, LockPortfolio,
         Apply, Insert, Commit, Publish, Respond, Rest, RollBack, Answer, Goto
<1>2. CASE CheckKey(w) /\ Recorded(journal, req[w])
  <2>1. PICK i \in DOMAIN journal : SameKey(journal[i], req[w]) /\ Answer(w, 200, journal[i])
    BY <1>2 DEF CheckKey
  <2>2. /\ journal' = journal /\ req' = req
        /\ pc'[w] = "answer" /\ reply'[w].row = journal[i]
    BY <1>2, <2>1 DEF CheckKey, Answer, Goto, IInv, TypeOK, db
  <2>3. journal[i] = AsStored(journal[i])
    BY DEF AnswersInv, JournalStored
  <2>4. JournalStored'
    BY <2>2 DEF AnswersInv, JournalStored
  <2>5. QED
    BY <1>1, <2>1, <2>2, <2>3, <2>4, AnswersStep
<1>3. CASE Commit(w)
  <2> DEFINE row == AsStored(NewRow(req[w], price[w], mem[w].cash))
  <2>1. pc[w] = "commit" /\ pc[w] \in InTransaction
    BY <1>3 DEF Commit, InTransaction
  <2>2. /\ journal' = Append(journal, row) /\ pc'[w] = "publish"
        /\ req' = req /\ price' = price /\ mem' = mem /\ reply' = reply
    BY <1>3 DEF Commit, Goto, IInv, TypeOK
  <2>3. NewRow(req[w], price[w], mem[w].cash) \in Row /\ row \in Row /\ SameKey(row, req[w])
    <3>1. req[w] \in Request /\ Priced(req[w], price[w]) /\ mem[w].cash \in Nat
      BY <2>1, CommitCopies DEF IInv, Serving
    <3>2. QED
      BY <3>1, NewRowType, CommittedRow DEF SameKey, IsTrade
  <2>4. AsStored(row) = row
    BY <2>3, AsStoredTwice
  <2> HIDE DEF row
  <2>5. /\ \A i \in DOMAIN journal : i \in DOMAIN journal' /\ journal'[i] = journal[i]
        /\ Len(journal) + 1 \in DOMAIN journal' /\ journal'[Len(journal) + 1] = row
        /\ \A i \in DOMAIN journal' : i \in DOMAIN journal \/ journal'[i] = row
    BY <2>2, <2>3 DEF IInv, TypeOK
  <2>6. JournalStored'
    BY <2>4, <2>5 DEF AnswersInv, JournalStored
  <2>7. reply'[w].status \notin {200, 201}
    BY <2>1, <2>2 DEF AnswersInv, SuccessIsSent
  <2>8. \E i \in DOMAIN journal' :
          /\ SameKey(journal'[i], req'[w])
          /\ journal'[i] = AsStored(NewRow(req'[w], price'[w], mem'[w].cash))
    BY <2>2, <2>3, <2>5 DEF row
  <2>9. QED
    BY <1>1, <2>5, <2>6, <2>7, <2>8, AnswersStep
<1>4. CASE Publish(w)
  <2>1. /\ journal' = journal /\ req' = req /\ pc'[w] = "answer" /\ pc[w] = "publish"
        /\ reply'[w].status = 201 =>
             reply'[w].row = NewRow(req[w], price[w], mem[w].cash)
        /\ reply'[w].status \in {201, 500}
    BY <1>4 DEF Publish, Answer, Goto, IInv, TypeOK, db
  <2>2. PICK i \in DOMAIN journal :
          /\ SameKey(journal[i], req[w])
          /\ journal[i] = AsStored(NewRow(req[w], price[w], mem[w].cash))
    BY <2>1 DEF AnswersInv, CommittedIsKept
  <2>3. JournalStored'
    BY <2>1 DEF AnswersInv, JournalStored
  <2>4. QED
    BY <1>1, <2>1, <2>2, <2>3, AnswersStep
<1>5. CASE \/ Receive(w) \/ FetchPrice(w) \/ LockPortfolio(w) \/ Apply(w)
           \/ Insert(w) \/ Respond(w) \/ Crash(w)
           \/ (CheckKey(w) /\ ~Recorded(journal, req[w]))
  <2>1. journal' = journal
    BY <1>5 DEF Receive, FetchPrice, LockPortfolio, Apply, Insert, Respond, Crash,
                CheckKey, RollBack, db
  <2>2. pc'[w] # "publish" /\ reply'[w].status \notin {200, 201}
    BY <1>5 DEF Receive, FetchPrice, LockPortfolio, Apply, Insert, Respond, Crash,
                CheckKey, RollBack, Rest, NoReply, Answer, Goto,
                IInv, TypeOK, AnswersInv, SuccessIsSent
  <2>3. JournalStored'
    BY <2>1 DEF AnswersInv, JournalStored
  <2>4. QED
    BY <1>1, <2>1, <2>2, <2>3, AnswersStep
<1>6. QED
  BY <1>2, <1>3, <1>4, <1>5 DEF Work

LEMMA NextAnswers == IInv /\ AnswersInv /\ [Next]_vars => AnswersInv'
<1> SUFFICES ASSUME IInv, AnswersInv, [Next]_vars PROVE AnswersInv'
  OBVIOUS
<1>1. CASE (\E p \in Portfolios : RemovePortfolio(p)) \/ UNCHANGED vars
  <2>1. /\ journal' = journal /\ pc' = pc /\ req' = req /\ price' = price
        /\ mem' = mem /\ reply' = reply
    BY <1>1 DEF RemovePortfolio, vars
  <2>2. QED
    BY <2>1 DEF AnswersInv, JournalStored, SuccessIsSent, CommittedIsKept, AnswersAreTrue
<1>2. QED
  BY <1>1, WorkAnswers DEF Next

\* Whatever other requests, crashes and deletions happen between the commit or
\* the look-up of a row and the answer, a success shows a row of the ledger
\* under the caller's key, as the database keeps it.
THEOREM AnswersTrue == Spec => []AnswersAreTrue
<1>1. Init => AnswersInv
  BY DEF Init, NoReply, AnswersInv, JournalStored, SuccessIsSent, CommittedIsKept,
         AnswersAreTrue
<1>2. AnswersInv => AnswersAreTrue
  BY DEF AnswersInv
<1>3. QED
  BY <1>1, <1>2, NextAnswers, Invariance, PTL DEF Spec

\* The balance a transfer's row carries was that of its commit, and only the
\* next commit on the portfolio changes the balance.
LEMMA CommitSnapshot ==
  ASSUME IInv, SnapshotIsBalance, NEW w \in Workers, Commit(w)
  PROVE  SnapshotIsBalance'
<1> DEFINE p == req[w].portfolio
           row == AsStored(NewRow(req[w], price[w], mem[w].cash))
           newCash == Stored(mem[w].cash, CashScale)
<1>1. /\ cash' = [cash EXCEPT ![p] = newCash]
      /\ journal' = Append(journal, row)
      /\ pc[w] = "commit" /\ pc[w] \in InTransaction
  BY DEF Commit, InTransaction
<1>2. req[w] \in Request /\ Priced(req[w], price[w]) /\ mem[w].cash \in Nat
  BY <1>1, CommitCopies DEF IInv, Serving
<1>3. p \in Portfolios
  BY <1>2 DEF Request, TradeRequest, CashRequest
<1>4. row \in Row /\ row.portfolio = p /\ (IsTrade(row) <=> IsTrade(req[w]))
  BY <1>2, CommittedRow DEF IsTrade
<1>5. ~IsTrade(row) => row.balance = newCash
  BY <1>4 DEF NewRow, AsStored, IsTrade
<1> HIDE DEF row, newCash
<1>6. /\ \A i \in DOMAIN journal' :
           \/ i \in DOMAIN journal /\ journal'[i] = journal[i] /\ Len(journal) + 1 > i
           \/ i = Len(journal) + 1
      /\ Len(journal) + 1 \in DOMAIN journal' /\ journal'[Len(journal) + 1] = row
      /\ \A i \in DOMAIN journal : i \in DOMAIN journal' /\ journal'[i] = journal[i]
  BY <1>1, <1>4 DEF IInv, TypeOK
<1>7. ASSUME NEW i \in DOMAIN journal', ~IsTrade(journal'[i]),
             \A j \in DOMAIN journal' :
               j > i => journal'[j].portfolio # journal'[i].portfolio
      PROVE  journal'[i].balance = cash'[journal'[i].portfolio]
  <2>1. CASE i = Len(journal) + 1
    BY <1>1, <1>3, <1>4, <1>5, <1>6, <1>7, <2>1 DEF IInv, TypeOK
  <2>2. CASE i \in DOMAIN journal /\ journal'[i] = journal[i] /\ Len(journal) + 1 > i
    <3>1. journal[i].portfolio # p
      BY <1>4, <1>6, <1>7, <2>2
    <3>2. journal[i].balance = cash[journal[i].portfolio]
      BY <1>6, <1>7, <2>2 DEF SnapshotIsBalance
    <3>3. journal[i].portfolio \in Portfolios
      BY <2>2 DEF IInv, TypeOK, Row, TradeRow, CashRow
    <3>4. QED
      BY <1>1, <2>2, <3>1, <3>2, <3>3 DEF IInv, TypeOK
  <2>3. QED
    BY <1>6, <2>1, <2>2
<1>8. QED
  BY <1>7 DEF SnapshotIsBalance

\* What every step but a commit does to the committed data.
LEMMA OtherSteps ==
  ASSUME [Next]_vars, ~ \E w \in Workers : Commit(w)
  PROVE  db' = db \/ \E p \in Portfolios : RemovePortfolio(p)
BY DEF Next, Work, Receive, CheckKey, FetchPrice, LockPortfolio, Apply, Insert,
       Publish, Respond, Crash, RollBack, vars, db

LEMMA NextSnapshot == IInv /\ SnapshotIsBalance /\ [Next]_vars => SnapshotIsBalance'
<1> SUFFICES ASSUME IInv, SnapshotIsBalance, [Next]_vars PROVE SnapshotIsBalance'
  OBVIOUS
<1>1. CASE db' = db
  BY <1>1 DEF db, SnapshotIsBalance
<1>2. ASSUME NEW p \in Portfolios, RemovePortfolio(p)
      PROVE  SnapshotIsBalance'
  <2>1. /\ journal' = journal /\ cash' = [cash EXCEPT ![p] = 0]
        /\ \A i \in DOMAIN journal : journal[i].portfolio # p
    BY <1>2 DEF RemovePortfolio
  <2>2. \A i \in DOMAIN journal : cash'[journal[i].portfolio] = cash[journal[i].portfolio]
    <3>1. \A i \in DOMAIN journal : journal[i].portfolio \in Portfolios
      BY DEF IInv, TypeOK, Row, TradeRow, CashRow
    <3>2. QED
      BY <2>1, <3>1 DEF IInv, TypeOK
  <2>3. QED
    BY <2>1, <2>2 DEF SnapshotIsBalance
<1>3. QED
  BY <1>1, <1>2, CommitSnapshot, OtherSteps

\* The resulting_balance of a portfolio's last transfer is its balance, until
\* another entry follows it.
THEOREM SnapshotTrue == Spec => []SnapshotIsBalance
<1>1. Init => SnapshotIsBalance
  BY DEF Init, SnapshotIsBalance
<1>2. QED
  BY <1>1, NextSnapshot, Invariance, PTL DEF Spec

-----------------------------------------------------------------------------
(* Sums over the history.                                                  *)

LEMMA LessWellFounded == IsWellFoundedOn({ss \in Nat \X Nat : ss[1] < ss[2]}, Nat)
BY NatLessThanWellFounded, Zenon DEF OpToRel

LEMMA Least ==
  ASSUME NEW T \in SUBSET Nat, T # {}
  PROVE  \E x \in T : \A y \in T : x <= y
<1> DEFINE R == {ss \in Nat \X Nat : ss[1] < ss[2]}
<1>1. IsWellFoundedOn(R, Nat)
  BY LessWellFounded
<1>2. \A x, y \in Nat : x < y => <<x, y>> \in R
  OBVIOUS
<1> HIDE DEF R
<1>3. PICK x \in T : \A y \in T : ~ (<<y, x>> \in R)
  BY <1>1, WFMin
<1>4. ASSUME NEW y \in T PROVE x <= y
  <2>1. x \in Nat /\ y \in Nat /\ ~ (<<y, x>> \in R)
    BY <1>3
  <2>2. ~ (y < x)
    BY <1>2, <2>1
  <2>3. QED
    BY <2>1, <2>2
<1>5. QED
  BY <1>4

\* Induction, for a set of numbers.
LEMMA Induct ==
  ASSUME NEW T \in SUBSET Nat, 0 \in T, \A n \in T : n + 1 \in T
  PROVE  T = Nat
<1>1. SUFFICES ASSUME Nat \ T # {} PROVE FALSE
  OBVIOUS
<1>2. PICK x \in Nat \ T : \A y \in Nat \ T : x <= y
  BY <1>1, Least
<1>3. x # 0 /\ x - 1 \in Nat /\ ~(x <= x - 1)
  BY <1>2
<1>4. x - 1 \in T
  BY <1>2, <1>3
<1>5. QED
  BY <1>2, <1>3, <1>4

\* sum[k] is the sum of the first k amounts of s, up to n of them.
Sums(sum, s, n) ==
  \A k \in 0 .. n : sum[k] = IF k = 0 THEN 0 ELSE sum[k - 1] + s[k]

LEMMA SumsAgree ==
  ASSUME NEW s \in Seq(Int), NEW n \in 0 .. Len(s), NEW f, NEW g,
         Sums(f, s, n), Sums(g, s, n)
  PROVE  f[n] = g[n] /\ f[n] \in Int
<1> DEFINE T == {k \in Nat : k <= n => f[k] = g[k] /\ f[k] \in Int}
<1>1. 0 \in T
  BY DEF Sums
<1>2. ASSUME NEW k \in T PROVE k + 1 \in T
  <2>1. SUFFICES ASSUME k + 1 <= n PROVE f[k + 1] = g[k + 1] /\ f[k + 1] \in Int
    OBVIOUS
  <2>2. f[k] = g[k] /\ f[k] \in Int
    BY <2>1
  <2>3. k + 1 \in 0 .. n /\ k + 1 # 0 /\ (k + 1) - 1 = k /\ s[k + 1] \in Int
    BY <2>1
  <2>4. f[k + 1] = f[k] + s[k + 1] /\ g[k + 1] = g[k] + s[k + 1]
    BY <2>3 DEF Sums
  <2>5. QED
    BY <2>2, <2>3, <2>4
<1> HIDE DEF T
<1>3. T = Nat
  BY <1>1, <1>2, Induct DEF T
<1>4. QED
  BY <1>3 DEF T

LEMMA SumsExist ==
  ASSUME NEW s \in Seq(Int)
  PROVE  \A n \in 0 .. Len(s) :
           \E f : f = [k \in 0 .. n |-> IF k = 0 THEN 0 ELSE f[k - 1] + s[k]]
<1> DEFINE Exists(n) ==
             \E f : f = [k \in 0 .. n |-> IF k = 0 THEN 0 ELSE f[k - 1] + s[k]]
           T == {n \in Nat : n <= Len(s) => Exists(n)}
<1>1. 0 \in T
  <2> DEFINE f == [k \in 0 .. 0 |-> 0]
  <2>1. f = [k \in 0 .. 0 |-> IF k = 0 THEN 0 ELSE f[k - 1] + s[k]]
    OBVIOUS
  <2>2. QED
    BY <2>1
<1>2. ASSUME NEW n \in T PROVE n + 1 \in T
  <2>1. SUFFICES ASSUME n + 1 <= Len(s) PROVE Exists(n + 1)
    OBVIOUS
  <2>2. PICK f : f = [k \in 0 .. n |-> IF k = 0 THEN 0 ELSE f[k - 1] + s[k]]
    BY <2>1
  <2> DEFINE g == [k \in 0 .. n + 1 |-> IF k = n + 1 THEN f[n] + s[n + 1] ELSE f[k]]
  <2>3. ASSUME NEW k \in 0 .. n + 1
        PROVE  g[k] = IF k = 0 THEN 0 ELSE g[k - 1] + s[k]
    <3>1. CASE k = n + 1
      BY <3>1
    <3>2. CASE k \in 0 .. n
      <4>1. g[k] = f[k] /\ (k # 0 => g[k - 1] = f[k - 1])
        BY <3>2
      <4>2. f[k] = IF k = 0 THEN 0 ELSE f[k - 1] + s[k]
        BY <2>2, <3>2
      <4>3. QED
        BY <4>1, <4>2
    <3>3. QED
      BY <3>1, <3>2
  <2>4. g = [k \in 0 .. n + 1 |-> IF k = 0 THEN 0 ELSE g[k - 1] + s[k]]
    <3>1. g = [k \in 0 .. n + 1 |-> g[k]]
      OBVIOUS
    <3> HIDE DEF g
    <3>2. QED
      BY <2>3, <3>1
  <2>5. QED
    BY <2>4
<1> HIDE DEF T, Exists
<1>3. T = Nat
  BY <1>1, <1>2, Induct DEF T
<1>4. ASSUME NEW n \in 0 .. Len(s) PROVE Exists(n)
  BY <1>3 DEF T
<1>5. QED
  BY <1>4 DEF Exists

LEMMA TotalSums ==
  ASSUME NEW s \in Seq(Int)
  PROVE  \E f : Sums(f, s, Len(s)) /\ Total(s) = f[Len(s)]
<1> DEFINE IsSum(f) ==
             f = [n \in 0 .. Len(s) |-> IF n = 0 THEN 0 ELSE f[n - 1] + s[n]]
           f == CHOOSE f : IsSum(f)
<1>1. Len(s) \in 0 .. Len(s)
  OBVIOUS
<1>2. \E g : IsSum(g)
  BY <1>1, SumsExist
<1>3. IsSum(f)
  BY <1>2, Zenon
<1>4. Total(s) = f[Len(s)]
  BY DEF Total
<1> HIDE DEF f
<1>5. Sums(f, s, Len(s))
  BY <1>3 DEF Sums
<1>6. QED
  BY <1>4, <1>5

\* An amount that is appended is added to the sum.
LEMMA TotalAppend ==
  ASSUME NEW s \in Seq(Int), NEW x \in Int
  PROVE  Total(Append(s, x)) = Total(s) + x
<1> DEFINE t == Append(s, x)
           n == Len(s)
<1>1. /\ t \in Seq(Int) /\ Len(t) = n + 1 /\ n \in Nat /\ t[n + 1] = x
      /\ \A k \in 1 .. n : t[k] = s[k]
  OBVIOUS
<1> HIDE DEF t
<1>2. PICK f : Sums(f, s, n) /\ Total(s) = f[n]
  BY TotalSums
<1>3. PICK g : Sums(g, t, n + 1) /\ Total(t) = g[n + 1]
  BY <1>1, TotalSums
<1>4. Sums(g, s, n)
  BY <1>1, <1>3 DEF Sums
<1>5. f[n] = g[n]
  BY <1>1, <1>2, <1>4, SumsAgree
<1>6. g[n + 1] = g[n] + x
  <2>1. n + 1 \in 0 .. n + 1 /\ n + 1 # 0 /\ (n + 1) - 1 = n
    BY <1>1
  <2>2. g[n + 1] = g[n] + t[n + 1]
    <3> HIDE DEF n
    <3> QED
      BY <1>3, <2>1, Zenon DEF Sums
  <2> QED
    BY <1>1, <2>2
<1>7. QED
  BY <1>2, <1>3, <1>5, <1>6 DEF t

LEMMA TotalType ==
  ASSUME NEW s \in Seq(Int)
  PROVE  Total(s) \in Int
BY TotalSums, SumsAgree

LEMMA TotalZero ==
  ASSUME NEW s \in Seq(Int), \A k \in DOMAIN s : s[k] = 0
  PROVE  Total(s) = 0
<1>1. PICK f : Sums(f, s, Len(s)) /\ Total(s) = f[Len(s)]
  BY TotalSums
<1>2. Sums([k \in 0 .. Len(s) |-> 0], s, Len(s))
  BY DEF Sums
<1>3. QED
  BY <1>1, <1>2, SumsAgree

LEMMA RestUnique ==
  ASSUME NEW scale \in Nat \ {0}, NEW q \in Int, NEW m \in 0 .. scale - 1
  PROVE  (scale * q + m) % scale = m
OBVIOUS

\* Whole column units may be added before or after rounding.
LEMMA StoredAdds ==
  ASSUME NEW scale \in Nat \ {0}, NEW q \in Nat, NEW x \in Nat
  PROVE  Stored(scale * q + x, scale) = scale * q + Stored(x, scale)
<1> DEFINE m == x % scale
           k == q + (x \div scale)
<1>1. x = scale * (x \div scale) + m /\ x \div scale \in Nat /\ m \in 0 .. scale - 1
  OBVIOUS
<1>2. k \in Int /\ scale * q + x = scale * k + m
  BY <1>1
<1> HIDE DEF k
<1>3. (scale * k + m) % scale = m
  BY <1>1, <1>2, RestUnique
<1>4. PICK whole \in Int : whole = scale * q
  OBVIOUS
<1>5. (whole + x) % scale = m
  BY <1>2, <1>3, <1>4
<1>6. QED
  BY <1>1, <1>4, <1>5 DEF Stored

\* Taking an amount from whole column units and rounding never leaves less than
\* taking the rounded amount.
LEMMA StoredSubtracts ==
  ASSUME NEW scale \in Nat \ {0}, NEW q \in Nat, NEW x \in Nat, x <= scale * q
  PROVE  Stored(scale * q - x, scale) >= scale * q - Stored(x, scale)
<1> DEFINE m == x % scale
           d == x \div scale
           c == scale * q
<1>1. x = scale * d + m /\ d \in Nat /\ m \in 0 .. scale - 1 /\ c \in Nat
  OBVIOUS
<1>2. CASE m = 0
  <2> DEFINE k == q - d
  <2>1. k \in Int /\ c - x = scale * k + 0 /\ 0 \in 0 .. scale - 1
    BY <1>1, <1>2
  <2> HIDE DEF k, c, m
  <2>2. (c - x) % scale = 0 /\ x % scale = 0
    BY <1>2, <2>1, RestUnique DEF m
  <2>3. Stored(c - x, scale) = c - x /\ Stored(x, scale) = x
    BY <1>1, <2>2 DEF Stored
  <2>4. QED
    BY <1>1, <2>3 DEF c
<1>3. CASE m # 0
  <2> DEFINE k == q - d - 1
  <2>1. k \in Int /\ scale * k + scale = scale * (k + 1) /\ k + 1 = q - d
    BY <1>1
  <2>2. scale * (q - d) = scale * q - scale * d
    BY <1>1
  <2>3. /\ scale * k \in Int /\ scale * d \in Int
        /\ scale * k + scale = c - scale * d
    BY <1>1, <2>1, <2>2
  <2> HIDE DEF k, c, m
  <2>4. scale - m \in 0 .. scale - 1 /\ c - x = scale * k + (scale - m)
    <3> DEFINE a == scale * k
               b == scale * d
    <3>1. a \in Int /\ b \in Int /\ a + scale = c - b /\ x = b + m
      BY <1>1, <2>3
    <3> HIDE DEF a, b
    <3>2. scale - m \in 0 .. scale - 1 /\ c - x = a + (scale - m)
      BY <1>1, <1>3, <3>1
    <3>3. QED
      BY <3>2 DEF a
  <2>5. (scale * k + (scale - m)) % scale = scale - m
    BY <2>1, <2>4, RestUnique
  <2>6. (c - x) % scale = scale - m /\ x % scale = m
    BY <2>4, <2>5 DEF m
  <2>7. Stored(c - x, scale) >= c - Stored(x, scale)
    BY <1>1, <1>3, <2>6 DEF Stored
  <2>8. QED
    BY <2>7 DEF c
<1>4. QED
  BY <1>2, <1>3

\* What a commit does to the balance against what its row says it did: rounding
\* never favours the house, and at one precision they agree.
LEMMA CashMoves ==
  ASSUME NEW r \in Request, NEW pr, Priced(r, pr),
         NEW c, \E q \in Nat : c = CashScale * q, NEW h,
         Allowed(c, h, r, pr), NEW b, NEW row, row = AsStored(NewRow(r, pr, b))
  PROVE  /\ CashEffect(row) \in Int
         /\ Stored(CashAfter(c, r, pr), CashScale) >= c + CashEffect(row)
         /\ CashScale = 1 =>
              Stored(CashAfter(c, r, pr), CashScale) = c + CashEffect(row)
<1> DEFINE x == Worth(r, pr)
<1>1. x \in Nat /\ c \in Nat /\ Stored(x, CashScale) \in Nat
  BY WorthNat, StoredNat
<1> PICK q \in Nat : c = CashScale * q
  OBVIOUS
<1>2. row.kind = r.kind /\ row.value = Stored(x, CashScale)
  <2>1. CASE IsTrade(r)
    BY <2>1 DEF NewRow, AsStored, IsTrade
  <2>2. CASE ~IsTrade(r)
    BY <2>2 DEF NewRow, AsStored, IsTrade, Worth
  <2>3. QED
    BY <2>1, <2>2
<1>3. CASE r.kind \in {"SELL", "CREDIT"}
  <2>1. CashAfter(c, r, pr) = c + x /\ CashEffect(row) = Stored(x, CashScale)
    BY <1>2, <1>3 DEF CashAfter, CashEffect
  <2>2. Stored(c + x, CashScale) = c + Stored(x, CashScale)
    BY <1>1, StoredAdds
  <2> HIDE DEF x
  <2>3. QED
    BY <1>1, <2>1, <2>2
<1>4. CASE r.kind \in {"BUY", "DEBIT"}
  <2>1. CashAfter(c, r, pr) = c - x /\ CashEffect(row) = -Stored(x, CashScale)
    BY <1>2, <1>4 DEF CashAfter, CashEffect
  <2>2. x <= c
    BY <1>1, <1>4 DEF Allowed
  <2>3. Stored(c - x, CashScale) >= c - Stored(x, CashScale)
    BY <1>1, <2>2, StoredSubtracts
  <2>4. CashScale = 1 => Stored(c - x, CashScale) = c - x /\ Stored(x, CashScale) = x
    BY <1>1, <2>2, StoredExact
  <2> HIDE DEF x
  <2>5. QED
    BY <1>1, <2>1, <2>3, <2>4
<1>5. QED
  BY <1>3, <1>4 DEF Request, TradeRequest, CashRequest, TradeKinds, CashKinds

LEMMA HeldMoves ==
  ASSUME NEW r \in TradeRequest, NEW pr, NEW h, \E q \in Nat : h = QtyScale * q,
         NEW c, Allowed(c, h, r, pr), NEW b, NEW row,
         row = AsStored(NewRow(r, pr, b)), NEW t \in Tickers
  PROVE  /\ HeldEffect(row, t) \in Int
         /\ t # r.ticker => HeldEffect(row, t) = 0
         /\ t = r.ticker =>
              /\ Stored(HeldAfter(h, r), QtyScale) >= h + HeldEffect(row, t)
              /\ QtyScale = 1 =>
                   Stored(HeldAfter(h, r), QtyScale) = h + HeldEffect(row, t)
<1> DEFINE x == r.quantity
<1> PICK q \in Nat : h = QtyScale * q
  OBVIOUS
<1>1. x \in Nat /\ h \in Nat /\ Stored(x, QtyScale) \in Nat
  <2>1. x \in Nat
    BY DEF TradeRequest
  <2>2. QtyScale \in Nat \ {0} /\ h \in Nat
    OBVIOUS
  <2> HIDE DEF x
  <2>3. QED
    BY <2>1, <2>2, StoredNat
<1>2. /\ IsTrade(row) /\ row.kind = r.kind /\ row.ticker = r.ticker
      /\ row.quantity = Stored(x, QtyScale)
  <2>1. IsTrade(r)
    BY DEF IsTrade, TradeRequest
  <2>2. QED
    BY <2>1 DEF NewRow, AsStored, IsTrade
<1>3. CASE r.kind = "BUY"
  <2>1. HeldAfter(h, r) = h + x
        /\ HeldEffect(row, t) = IF t = r.ticker THEN Stored(x, QtyScale) ELSE 0
    BY <1>2, <1>3 DEF HeldAfter, HeldEffect
  <2>2. Stored(h + x, QtyScale) = h + Stored(x, QtyScale)
    BY <1>1, StoredAdds
  <2> HIDE DEF x
  <2>3. QED
    BY <1>1, <2>1, <2>2
<1>4. CASE r.kind = "SELL"
  <2>1. HeldAfter(h, r) = h - x
        /\ HeldEffect(row, t) = IF t = r.ticker THEN -Stored(x, QtyScale) ELSE 0
    BY <1>2, <1>4 DEF HeldAfter, HeldEffect
  <2>2. x <= h
    BY <1>1, <1>4 DEF Allowed
  <2>3. Stored(h - x, QtyScale) >= h - Stored(x, QtyScale)
    BY <1>1, <2>2, StoredSubtracts
  <2>4. QtyScale = 1 => Stored(h - x, QtyScale) = h - x /\ Stored(x, QtyScale) = x
    BY <1>1, <2>2, StoredExact
  <2> HIDE DEF x
  <2>5. QED
    BY <1>1, <2>1, <2>3, <2>4
<1>5. QED
  BY <1>3, <1>4 DEF TradeRequest, TradeKinds

\* The committed balances and positions are column values.
Columns ==
  \A p \in Portfolios :
    /\ \E q \in Nat : cash[p] = CashScale * q
    /\ \A t \in Tickers : \E q \in Nat : position[p][t] = QtyScale * q

LEMMA HistoryType ==
  ASSUME TypeOK, NEW p \in Portfolios
  PROVE  /\ CashHistory(p) \in Seq(Int)
         /\ \A t \in Tickers : HeldHistory(p, t) \in Seq(Int)
<1>1. \A row \in Row : CashEffect(row) \in Int
  BY DEF Row, TradeRow, CashRow, CashEffect
<1>2. \A t \in Tickers, row \in Row : HeldEffect(row, t) \in Int
  <2>1. \A row \in Row : IsTrade(row) => row.quantity \in Nat
    BY DEF Row, TradeRow, CashRow, IsTrade, TradeKinds, CashKinds
  <2>2. QED
    BY <2>1 DEF HeldEffect
<1>3. DOMAIN journal = 1 .. Len(journal) /\ Len(journal) \in Nat
  BY DEF TypeOK
<1>4. QED
  BY <1>1, <1>2, <1>3 DEF CashHistory, HeldHistory, TypeOK

\* A commit adds one amount to every history: what its row says it did to that
\* balance or holding, 0 for all the others.
LEMMA HistoryGrows ==
  ASSUME TypeOK, NEW row, journal' = Append(journal, row), NEW p \in Portfolios
  PROVE  /\ CashHistory(p)' =
              Append(CashHistory(p), IF row.portfolio = p THEN CashEffect(row) ELSE 0)
         /\ \A t \in Tickers :
              HeldHistory(p, t)' =
                Append(HeldHistory(p, t),
                       IF row.portfolio = p THEN HeldEffect(row, t) ELSE 0)
<1>1. /\ DOMAIN journal = 1 .. Len(journal) /\ Len(journal) \in Nat
      /\ DOMAIN journal' = 1 .. Len(journal) + 1
      /\ journal'[Len(journal) + 1] = row
      /\ \A n \in 1 .. Len(journal) : journal'[n] = journal[n]
  BY DEF TypeOK
<1>2. CashHistory(p)' =
        Append(CashHistory(p), IF row.portfolio = p THEN CashEffect(row) ELSE 0)
  BY <1>1, HistoryType DEF CashHistory
<1>3. ASSUME NEW t \in Tickers
      PROVE  HeldHistory(p, t)' =
               Append(HeldHistory(p, t),
                      IF row.portfolio = p THEN HeldEffect(row, t) ELSE 0)
  BY <1>1, HistoryType DEF HeldHistory
<1>4. QED
  BY <1>2, <1>3

LEMMA HistoryKept ==
  ASSUME journal' = journal, NEW p \in Portfolios
  PROVE  /\ CashHistory(p)' = CashHistory(p)
         /\ \A t \in Tickers : HeldHistory(p, t)' = HeldHistory(p, t)
BY DEF CashHistory, HeldHistory

LEMMA CommitMoves ==
  ASSUME IInv, Columns, NEW w \in Workers, Commit(w), NEW p \in Portfolios
  PROVE  /\ Total(CashHistory(p)') \in Int
         /\ Total(CashHistory(p)') - Total(CashHistory(p)) <= cash'[p] - cash[p]
         /\ CashScale = 1 =>
              Total(CashHistory(p)') - Total(CashHistory(p)) = cash'[p] - cash[p]
         /\ \A t \in Tickers :
              /\ Total(HeldHistory(p, t)') \in Int
              /\ Total(HeldHistory(p, t)') - Total(HeldHistory(p, t))
                   <= position'[p][t] - position[p][t]
              /\ QtyScale = 1 =>
                   Total(HeldHistory(p, t)') - Total(HeldHistory(p, t))
                     = position'[p][t] - position[p][t]
<1> DEFINE r == req[w]
           row == AsStored(NewRow(r, price[w], mem[w].cash))
<1>1. pc[w] = "commit" /\ pc[w] \in InTransaction
  BY DEF Commit, InTransaction
<1>2. /\ r \in Request /\ Priced(r, price[w])
      /\ Allowed(cash[r.portfolio], HeldBy(r), r, price[w])
      /\ mem[w].cash = CashAfter(cash[r.portfolio], r, price[w])
      /\ mem[w].held = HeldAfter(HeldBy(r), r)
  BY <1>1 DEF IInv, Serving, WritesAreFresh
<1>3. r.portfolio \in Portfolios /\ (IsTrade(r) => r \in TradeRequest /\ r.ticker \in Tickers)
  BY <1>2 DEF Request, TradeRequest, CashRequest, IsTrade, TradeKinds, CashKinds
<1>4. row \in Row /\ row.portfolio = r.portfolio
  BY <1>1, <1>2, CommitCopies, CommittedRow
<1>5. /\ journal' = Append(journal, row)
      /\ cash' = [cash EXCEPT ![r.portfolio] = Stored(mem[w].cash, CashScale)]
      /\ position' =
           IF IsTrade(r)
           THEN [position EXCEPT ![r.portfolio][r.ticker] = Stored(mem[w].held, QtyScale)]
           ELSE position
  BY DEF Commit
<1>6. /\ cash[p] \in Int /\ CashHistory(p) \in Seq(Int)
      /\ \A t \in Tickers : position[p][t] \in Int /\ HeldHistory(p, t) \in Seq(Int)
  BY HistoryType DEF IInv, TypeOK
<1>7. /\ Total(CashHistory(p)) \in Int
      /\ \A t \in Tickers : Total(HeldHistory(p, t)) \in Int
  BY <1>6, TotalType
<1>8. /\ CashHistory(p)' =
             Append(CashHistory(p), IF row.portfolio = p THEN CashEffect(row) ELSE 0)
       /\ \A t \in Tickers :
            HeldHistory(p, t)' =
              Append(HeldHistory(p, t),
                     IF row.portfolio = p THEN HeldEffect(row, t) ELSE 0)
  <2> HIDE DEF row
  <2>1. QED
    BY <1>5, HistoryGrows DEF IInv
<1>9. CASE p # r.portfolio
  <2>1. Total(CashHistory(p)') = Total(CashHistory(p)) + 0
    <3>1. CashHistory(p)' = Append(CashHistory(p), 0)
      BY <1>4, <1>9, <1>8
    <3>2. QED
      BY <1>6, <3>1, TotalAppend
  <2>2. ASSUME NEW t \in Tickers
        PROVE  Total(HeldHistory(p, t)') = Total(HeldHistory(p, t)) + 0
    <3>1. HeldHistory(p, t)' = Append(HeldHistory(p, t), 0)
      BY <1>4, <1>9, <1>8
    <3>2. QED
      BY <1>6, <3>1, TotalAppend
  <2>3. cash'[p] = cash[p] /\ position'[p] = position[p]
    BY <1>5, <1>9 DEF IInv, TypeOK
  <2>4. QED
    BY <1>6, <1>7, <2>1, <2>2, <2>3
<1>10. CASE p = r.portfolio
  <2>1. /\ CashEffect(row) \in Int
        /\ cash'[p] >= cash[p] + CashEffect(row)
        /\ CashScale = 1 => cash'[p] = cash[p] + CashEffect(row)
    <3>1. \E q \in Nat : cash[p] = CashScale * q
      BY DEF Columns
    <3>2. cash'[p] = Stored(CashAfter(cash[p], r, price[w]), CashScale)
      BY <1>2, <1>5, <1>10 DEF IInv, TypeOK
    <3>3. Allowed(cash[p], HeldBy(r), r, price[w])
      BY <1>2, <1>10
    <3>4. row = AsStored(NewRow(r, price[w], mem[w].cash))
      OBVIOUS
    <3> HIDE DEF row, r
    <3>5. QED
      BY <1>2, <3>1, <3>2, <3>3, <3>4, CashMoves
  <2>2. Total(CashHistory(p)') = Total(CashHistory(p)) + CashEffect(row)
    <3>1. CashHistory(p)' = Append(CashHistory(p), CashEffect(row))
      BY <1>4, <1>10, <1>8
    <3>2. QED
      BY <1>6, <2>1, <3>1, TotalAppend
  <2>3. ASSUME NEW t \in Tickers
        PROVE  /\ HeldEffect(row, t) \in Int
               /\ position'[p][t] >= position[p][t] + HeldEffect(row, t)
               /\ QtyScale = 1 => position'[p][t] = position[p][t] + HeldEffect(row, t)
    <3>1. CASE ~IsTrade(r)
      <4>1. HeldEffect(row, t) = 0
        BY <3>1 DEF HeldEffect, AsStored, NewRow, IsTrade
      <4>2. QED
        BY <1>5, <1>6, <3>1, <4>1
    <3>2. CASE IsTrade(r)
      <4>1. \E q \in Nat : position[p][r.ticker] = QtyScale * q
        BY <1>3, <3>2 DEF Columns
      <4>2. position'[p][t] =
              IF t = r.ticker THEN Stored(HeldAfter(position[p][r.ticker], r), QtyScale)
              ELSE position[p][t]
        BY <1>2, <1>3, <1>5, <1>10, <3>2 DEF HeldBy, IInv, TypeOK
      <4>3. Allowed(cash[p], position[p][r.ticker], r, price[w])
        BY <1>2, <1>10, <3>2 DEF HeldBy
      <4>4. row = AsStored(NewRow(r, price[w], mem[w].cash))
        OBVIOUS
      <4> HIDE DEF row, r
      <4>5. r \in TradeRequest
        BY <1>3, <3>2
      <4> DEFINE h == position[p][r.ticker]
      <4>6. \E q \in Nat : h = QtyScale * q
        BY <4>1
      <4>7. Allowed(cash[p], h, r, price[w])
        BY <4>3
      <4> HIDE DEF h
      <4>8. HeldEffect(row, t) \in Int
        BY <4>4, <4>5, <4>6, <4>7, HeldMoves
      <4>9. t # r.ticker => HeldEffect(row, t) = 0
        BY <4>4, <4>5, <4>6, <4>7, HeldMoves
      <4>10. t = r.ticker => Stored(HeldAfter(h, r), QtyScale) >= h + HeldEffect(row, t)
        BY <4>4, <4>5, <4>6, <4>7, HeldMoves
      <4>11. t = r.ticker =>
               (QtyScale = 1 =>
                  Stored(HeldAfter(h, r), QtyScale) = h + HeldEffect(row, t))
        BY <4>4, <4>5, <4>6, <4>7, HeldMoves
      <4>12. QED
        BY <1>6, <4>2, <4>8, <4>9, <4>10, <4>11 DEF h
    <3>3. QED
      BY <3>1, <3>2
  <2>4. ASSUME NEW t \in Tickers
        PROVE  Total(HeldHistory(p, t)') = Total(HeldHistory(p, t)) + HeldEffect(row, t)
    <3>1. HeldHistory(p, t)' = Append(HeldHistory(p, t), HeldEffect(row, t))
      BY <1>4, <1>10, <1>8
    <3>2. QED
      BY <1>6, <2>3, <3>1, TotalAppend
  <2> HIDE DEF row
  <2>5. cash'[p] \in Int /\ \A t \in Tickers : position'[p][t] \in Int
    BY NextIInv, <1>1 DEF IInv, TypeOK, Next, Work
  <2>6. /\ Total(CashHistory(p)') \in Int
        /\ Total(CashHistory(p)') - Total(CashHistory(p)) <= cash'[p] - cash[p]
        /\ CashScale = 1 =>
             Total(CashHistory(p)') - Total(CashHistory(p)) = cash'[p] - cash[p]
    BY <1>6, <1>7, <2>1, <2>2, <2>5, SMTT(30)
  <2>7. ASSUME NEW t \in Tickers
        PROVE  /\ Total(HeldHistory(p, t)') \in Int
               /\ Total(HeldHistory(p, t)') - Total(HeldHistory(p, t))
                    <= position'[p][t] - position[p][t]
               /\ QtyScale = 1 =>
                    Total(HeldHistory(p, t)') - Total(HeldHistory(p, t))
                      = position'[p][t] - position[p][t]
    <3>1. /\ position[p][t] \in Int /\ position'[p][t] \in Int
          /\ Total(HeldHistory(p, t)) \in Int
      BY <1>6, <1>7, <2>5
    <3>2. /\ HeldEffect(row, t) \in Int
          /\ position'[p][t] >= position[p][t] + HeldEffect(row, t)
          /\ QtyScale = 1 => position'[p][t] = position[p][t] + HeldEffect(row, t)
      BY <2>3
    <3>3. Total(HeldHistory(p, t)') = Total(HeldHistory(p, t)) + HeldEffect(row, t)
      BY <2>4
    <3>4. QED
      BY <3>1, <3>2, <3>3
  <2>8. QED
    BY <2>6, <2>7
<1>11. QED
  BY <1>9, <1>10

LEMMA NextColumns == IInv /\ Columns /\ [Next]_vars => Columns'
<1> SUFFICES ASSUME IInv, Columns, [Next]_vars PROVE Columns'
  OBVIOUS
<1>1. CASE db' = db
  BY <1>1 DEF db, Columns
<1>2. ASSUME NEW p \in Portfolios, RemovePortfolio(p)
      PROVE  Columns'
  <2>1. (\E q \in Nat : 0 = CashScale * q) /\ (\E q \in Nat : 0 = QtyScale * q)
    <3>1. 0 = CashScale * 0 /\ 0 = QtyScale * 0 /\ 0 \in Nat
      OBVIOUS
    <3>2. QED
      BY <3>1, Zenon
  <2>2. /\ cash' = [cash EXCEPT ![p] = 0]
        /\ position' = [position EXCEPT ![p] = [t \in Tickers |-> 0]]
    BY <1>2 DEF RemovePortfolio
  <2>3. \A q \in Portfolios :
          /\ cash'[q] = 0 \/ cash'[q] = cash[q]
          /\ \A t \in Tickers : position'[q][t] = 0 \/ position'[q][t] = position[q][t]
    BY <2>2 DEF IInv, TypeOK
  <2>4. SUFFICES ASSUME NEW p1 \in Portfolios
                 PROVE  /\ \E q \in Nat : cash'[p1] = CashScale * q
                        /\ \A t \in Tickers : \E q \in Nat : position'[p1][t] = QtyScale * q
    BY DEF Columns
  <2>5. /\ \E q \in Nat : cash[p1] = CashScale * q
        /\ \A t \in Tickers : \E q \in Nat : position[p1][t] = QtyScale * q
    BY DEF Columns
  <2>6. \E q \in Nat : cash'[p1] = CashScale * q
    BY <2>1, <2>3, <2>5, Zenon
  <2>7. \A t \in Tickers : \E q \in Nat : position'[p1][t] = QtyScale * q
    <3>1. TAKE t \in Tickers
    <3>2. position'[p1][t] = 0 \/ position'[p1][t] = position[p1][t]
      BY <2>3
    <3>3. \E q \in Nat : position[p1][t] = QtyScale * q
      BY <2>5
    <3>4. QED
      BY <2>1, <3>2, <3>3, Zenon
  <2>8. QED
    BY <2>6, <2>7
<1>3. ASSUME NEW w \in Workers, Commit(w)
      PROVE  Columns'
  <2> DEFINE r == req[w]
             newCash == Stored(mem[w].cash, CashScale)
             newHeld == Stored(mem[w].held, QtyScale)
  <2>1. pc[w] = "commit" /\ pc[w] \in InTransaction
    BY <1>3 DEF Commit, InTransaction
  <2>2. mem[w].cash \in Nat /\ mem[w].held \in Nat
    BY <2>1, CommitCopies
  <2>3. (\E q \in Nat : newCash = CashScale * q) /\ (\E q \in Nat : newHeld = QtyScale * q)
    BY <2>2, StoredMultiple
  <2> HIDE DEF newCash, newHeld
  <2>4. /\ cash' = [cash EXCEPT ![r.portfolio] = newCash]
        /\ position' =
             IF IsTrade(r)
             THEN [position EXCEPT ![r.portfolio][r.ticker] = newHeld]
             ELSE position
    BY <1>3 DEF Commit, newCash, newHeld
  <2>5. ASSUME NEW p \in Portfolios PROVE \E q \in Nat : cash'[p] = CashScale * q
    <3>1. cash'[p] = newCash \/ cash'[p] = cash[p]
      BY <2>4 DEF IInv, TypeOK
    <3>2. QED
      BY <2>3, <3>1 DEF Columns
  <2>6. ASSUME NEW p \in Portfolios, NEW t \in Tickers
        PROVE  \E q \in Nat : position'[p][t] = QtyScale * q
    <3>1. position'[p][t] = newHeld \/ position'[p][t] = position[p][t]
      BY <2>4 DEF IInv, TypeOK
    <3>2. QED
      BY <2>3, <3>1 DEF Columns
  <2>7. QED
    BY <2>5, <2>6 DEF Columns
<1>4. QED
  BY <1>1, <1>2, <1>3, OtherSteps

\* A portfolio that is deleted has no history.
LEMMA RemovedHistory ==
  ASSUME TypeOK, NEW p \in Portfolios, RemovePortfolio(p), NEW q \in Portfolios
  PROVE  /\ CashHistory(q)' = CashHistory(q)
         /\ \A t \in Tickers : HeldHistory(q, t)' = HeldHistory(q, t)
         /\ q # p => cash'[q] = cash[q] /\ position'[q] = position[q]
         /\ q = p =>
              /\ cash'[q] = 0 /\ Total(CashHistory(q)) = 0
              /\ \A t \in Tickers :
                   position'[q][t] = 0 /\ Total(HeldHistory(q, t)) = 0
<1>1. /\ \A i \in DOMAIN journal : journal[i].portfolio # p
      /\ cash' = [cash EXCEPT ![p] = 0]
      /\ position' = [position EXCEPT ![p] = [t \in Tickers |-> 0]]
      /\ journal' = journal
  BY DEF RemovePortfolio
<1>2. /\ CashHistory(q)' = CashHistory(q)
      /\ \A t \in Tickers : HeldHistory(q, t)' = HeldHistory(q, t)
  BY <1>1, HistoryKept
<1>3. q # p => cash'[q] = cash[q] /\ position'[q] = position[q]
  BY <1>1 DEF TypeOK
<1>4. ASSUME q = p
      PROVE  /\ cash'[q] = 0 /\ Total(CashHistory(q)) = 0
             /\ \A t \in Tickers :
                  position'[q][t] = 0 /\ Total(HeldHistory(q, t)) = 0
  <2>1. cash'[q] = 0 /\ \A t \in Tickers : position'[q][t] = 0
    BY <1>1, <1>4 DEF TypeOK
  <2>2. Total(CashHistory(q)) = 0
    <3>1. \A n \in DOMAIN CashHistory(q) : CashHistory(q)[n] = 0
      BY <1>1, <1>4 DEF CashHistory
    <3>2. QED
      BY <3>1, HistoryType, TotalZero
  <2>3. ASSUME NEW t \in Tickers PROVE Total(HeldHistory(q, t)) = 0
    <3>1. \A n \in DOMAIN HeldHistory(q, t) : HeldHistory(q, t)[n] = 0
      BY <1>1, <1>4 DEF HeldHistory
    <3>2. QED
      BY <3>1, HistoryType, TotalZero
  <2>4. QED
    BY <2>1, <2>2, <2>3
<1>5. QED
  BY <1>2, <1>3, <1>4

HistoryInv == Columns /\ AtLeastHistory

LEMMA NextHistory == IInv /\ HistoryInv /\ [Next]_vars => HistoryInv'
<1> SUFFICES ASSUME IInv, HistoryInv, [Next]_vars PROVE HistoryInv'
  OBVIOUS
<1>1. Columns'
  BY NextColumns DEF HistoryInv
<1>2. ASSUME NEW q \in Portfolios
      PROVE  /\ cash[q] \in Int /\ cash'[q] \in Int /\ Total(CashHistory(q)) \in Int
             /\ \A t \in Tickers :
                  /\ position[q][t] \in Int /\ position'[q][t] \in Int
                  /\ Total(HeldHistory(q, t)) \in Int
  <2>1. TypeOK /\ TypeOK'
    BY NextIInv DEF IInv
  <2>2. QED
    BY <2>1, HistoryType, TotalType DEF TypeOK
<1>3. AtLeastHistory'
  <2>1. CASE db' = db
    <3>1. journal' = journal /\ cash' = cash /\ position' = position
      BY <2>1 DEF db
    <3>2. QED
      BY <3>1, HistoryKept DEF HistoryInv, AtLeastHistory
  <2>2. ASSUME NEW p \in Portfolios, RemovePortfolio(p)
        PROVE  AtLeastHistory'
    BY <2>2, <1>2, RemovedHistory DEF HistoryInv, AtLeastHistory, IInv
  <2>3. ASSUME NEW w \in Workers, Commit(w)
        PROVE  AtLeastHistory'
    <3>1. ASSUME NEW q \in Portfolios
          PROVE  /\ cash'[q] >= Total(CashHistory(q)')
                 /\ \A t \in Tickers : position'[q][t] >= Total(HeldHistory(q, t)')
      BY <1>2, <2>3, CommitMoves DEF HistoryInv, AtLeastHistory
    <3>2. QED
      BY <3>1 DEF AtLeastHistory
  <2>4. QED
    BY <2>1, <2>2, <2>3, OtherSteps
<1>4. QED
  BY <1>1, <1>3 DEF HistoryInv

\* With one precision in memory and in the columns the two are equal.
LEMMA NextExact ==
  ASSUME CashScale = 1, QtyScale = 1
  PROVE  IInv /\ HistoryInv /\ Reconstructible /\ [Next]_vars => Reconstructible'
<1> SUFFICES ASSUME IInv, HistoryInv, Reconstructible, [Next]_vars
             PROVE  Reconstructible'
  OBVIOUS
<1>1. ASSUME NEW q \in Portfolios
      PROVE  /\ cash[q] \in Int /\ cash'[q] \in Int /\ Total(CashHistory(q)) \in Int
             /\ \A t \in Tickers :
                  /\ position[q][t] \in Int /\ position'[q][t] \in Int
                  /\ Total(HeldHistory(q, t)) \in Int
  <2>1. TypeOK /\ TypeOK'
    BY NextIInv DEF IInv
  <2>2. QED
    BY <2>1, HistoryType, TotalType DEF TypeOK
<1>2. CASE db' = db
  <2>1. journal' = journal /\ cash' = cash /\ position' = position
    BY <1>2 DEF db
  <2>2. QED
    BY <2>1, HistoryKept DEF Reconstructible
<1>3. ASSUME NEW p \in Portfolios, RemovePortfolio(p)
      PROVE  Reconstructible'
  BY <1>3, RemovedHistory DEF Reconstructible, IInv
<1>4. ASSUME NEW w \in Workers, Commit(w)
      PROVE  Reconstructible'
  <2>1. ASSUME NEW q \in Portfolios
        PROVE  /\ cash'[q] = Total(CashHistory(q)')
               /\ \A t \in Tickers : position'[q][t] = Total(HeldHistory(q, t)')
    BY <1>1, <1>4, CommitMoves DEF HistoryInv, Reconstructible
  <2>2. QED
    BY <2>1 DEF Reconstructible
<1>5. QED
  BY <1>2, <1>3, <1>4, OtherSteps

LEMMA InitHistory == Init => HistoryInv /\ Reconstructible
<1> SUFFICES ASSUME Init PROVE HistoryInv /\ Reconstructible
  OBVIOUS
<1>1. /\ \A p \in Portfolios : cash[p] = 0
      /\ \A p \in Portfolios, t \in Tickers : position[p][t] = 0
      /\ journal = <<>>
  BY DEF Init
<1>2. ASSUME NEW p \in Portfolios
      PROVE  /\ Total(CashHistory(p)) = 0
             /\ \A t \in Tickers : Total(HeldHistory(p, t)) = 0
  <2>1. /\ CashHistory(p) \in Seq(Int) /\ DOMAIN CashHistory(p) = {}
        /\ \A t \in Tickers :
             HeldHistory(p, t) \in Seq(Int) /\ DOMAIN HeldHistory(p, t) = {}
    <3>1. DOMAIN journal = {}
      BY <1>1
    <3>2. TypeOK
      BY InitIInv DEF IInv
    <3>3. QED
      BY <3>1, <3>2, HistoryType DEF CashHistory, HeldHistory
  <2>2. QED
    BY <2>1, TotalZero
<1>3. (\E q \in Nat : 0 = CashScale * q) /\ (\E q \in Nat : 0 = QtyScale * q)
  <2>1. 0 = CashScale * 0 /\ 0 = QtyScale * 0 /\ 0 \in Nat
    OBVIOUS
  <2>2. QED
    BY <2>1, Zenon
<1>4. Columns
  BY <1>1, <1>3 DEF Columns
<1>5. AtLeastHistory /\ Reconstructible
  BY <1>1, <1>2 DEF AtLeastHistory, Reconstructible
<1>6. QED
  BY <1>4, <1>5 DEF HistoryInv

\* Whatever the columns round off is in the customer's favour: a balance or a
\* holding is never less than the sum of its history.
THEOREM NeverBelowHistory == Spec => []AtLeastHistory
<1>1. HistoryInv => AtLeastHistory
  BY DEF HistoryInv
<1>2. QED
  BY <1>1, InitHistory, NextHistory, Invariance, PTL DEF Spec

\* Rounding is the only way a portfolio can drift from its history: when memory
\* and columns have the same precision, no interleaving, crash, replay or
\* deletion makes the two differ.
THEOREM HistoryAddsUp ==
  ASSUME CashScale = 1, QtyScale = 1
  PROVE  Spec => []Reconstructible
<1>1. IInv /\ HistoryInv /\ Reconstructible /\ [Next]_vars => Reconstructible'
  BY NextExact
<1>2. QED
  BY <1>1, InitHistory, NextHistory, Invariance, PTL DEF Spec

-----------------------------------------------------------------------------
(* The handlers implement the atomic ledger of LedgerSpec.                 *)

\* What a transaction has saved, its columns can hold.
WritesFit ==
  \A w \in Workers :
    pc[w] \in {"insert", "commit"} => Fits(mem[w].cash, mem[w].held)

LEMMA WorkWritesFit ==
  ASSUME TypeOK, WritesFit, NEW w \in Workers, Receive(w) \/ Work(w) \/ Crash(w)
  PROVE  WritesFit'
<1>1. \A v \in Workers \ {w} : mem'[v] = mem[v] /\ pc'[v] = pc[v]
  BY DEF TypeOK, Receive, Work, Crash, CheckKey, FetchPrice, LockPortfolio, Apply,
         Insert, Commit, Publish, Respond, Rest, RollBack, Answer, Goto
<1>2. CASE Apply(w)
  <2>1. pc'[w] = "insert" => Fits(mem'[w].cash, mem'[w].held)
    BY <1>2 DEF Apply, RollBack, Answer, Goto, TypeOK
  <2>2. pc'[w] # "commit"
    BY <1>2 DEF Apply, RollBack, Answer, Goto, TypeOK
  <2>3. QED
    BY <1>1, <2>1, <2>2 DEF WritesFit
<1>3. CASE Insert(w)
  <2>1. mem' = mem /\ pc[w] = "insert"
    BY <1>3 DEF Insert, RollBack
  <2>2. QED
    BY <1>1, <2>1 DEF WritesFit
<1>4. CASE Receive(w) \/ CheckKey(w) \/ FetchPrice(w) \/ LockPortfolio(w)
           \/ Commit(w) \/ Publish(w) \/ Respond(w) \/ Crash(w)
  <2>1. pc'[w] \notin {"insert", "commit"}
    BY <1>4 DEF TypeOK, Receive, Crash, CheckKey, FetchPrice, LockPortfolio,
                Commit, Publish, Respond, Rest, Answer, Goto
  <2>2. QED
    BY <1>1, <2>1 DEF WritesFit
<1>5. QED
  BY <1>2, <1>3, <1>4 DEF Work

LEMMA NextWritesFit == TypeOK /\ WritesFit /\ [Next]_vars => WritesFit'
<1> SUFFICES ASSUME TypeOK, WritesFit, [Next]_vars PROVE WritesFit'
  OBVIOUS
<1>1. CASE \E p \in Portfolios : RemovePortfolio(p)
  BY <1>1 DEF RemovePortfolio, WritesFit
<1>2. CASE UNCHANGED vars
  BY <1>2 DEF vars, WritesFit
<1>3. QED
  BY <1>1, <1>2, WorkWritesFit DEF Next

\* The price plays no part in a cash transfer.
LEMMA TransferIgnoresPrice ==
  ASSUME NEW r \in CashRequest, NEW c, NEW h, NEW pr
  PROVE  /\ Worth(r, pr) = Worth(r, 0)
         /\ CashAfter(c, r, pr) = CashAfter(c, r, 0)
         /\ HeldAfter(h, r) = h
         /\ Allowed(c, h, r, pr) = Allowed(c, 0, r, 0)
         /\ NewRow(r, pr, c) = NewRow(r, 0, c)
<1>1. ~IsTrade(r) /\ r.kind \in {"CREDIT", "DEBIT"}
  BY DEF CashRequest, IsTrade, TradeKinds, CashKinds
<1>2. Worth(r, pr) = Worth(r, 0) /\ NewRow(r, pr, c) = NewRow(r, 0, c)
  BY <1>1 DEF Worth, NewRow
<1>3. CashAfter(c, r, pr) = CashAfter(c, r, 0) /\ HeldAfter(h, r) = h
  BY <1>1, <1>2 DEF CashAfter, HeldAfter
<1>4. Allowed(c, h, r, pr) = Allowed(c, 0, r, 0)
  BY <1>1, <1>2 DEF Allowed
<1>5. QED
  BY <1>2, <1>3, <1>4

\* LedgerSpec, as instantiated here, computes with the same operators.
LEMMA SameRequests ==
  Abstract!TradeRequest = TradeRequest /\ Abstract!CashRequest = CashRequest
BY DEF Abstract!TradeRequest, TradeRequest, Abstract!CashRequest, CashRequest,
       Abstract!TradeKinds, TradeKinds, Abstract!CashKinds, CashKinds

LEMMA SameArithmetic ==
  /\ \A x, scale : Abstract!Stored(x, scale) = Stored(x, scale)
  /\ \A c, h : Abstract!Fits(c, h) <=> Fits(c, h)
  /\ \A r, pr : Abstract!Worth(r, pr) = Worth(r, pr)
  /\ \A c, r, pr : Abstract!CashAfter(c, r, pr) = CashAfter(c, r, pr)
  /\ \A h, r : Abstract!HeldAfter(h, r) = HeldAfter(h, r)
  /\ \A c, h, r, pr : Abstract!Allowed(c, h, r, pr) <=> Allowed(c, h, r, pr)
<1>1. \A x, scale : Abstract!Stored(x, scale) = Stored(x, scale)
  BY DEF Abstract!Stored, Stored
<1>2. \A c, h : Abstract!Fits(c, h) <=> Fits(c, h)
  BY <1>1 DEF Abstract!Fits, Fits
<1>3. \A r, pr : Abstract!Worth(r, pr) = Worth(r, pr)
  BY DEF Abstract!Worth, Worth, Abstract!IsTrade, IsTrade, Abstract!TradeKinds, TradeKinds
<1>4. \A c, r, pr : Abstract!CashAfter(c, r, pr) = CashAfter(c, r, pr)
  BY <1>3 DEF Abstract!CashAfter, CashAfter
<1>5. \A h, r : Abstract!HeldAfter(h, r) = HeldAfter(h, r)
  BY DEF Abstract!HeldAfter, HeldAfter
<1>6. \A c, h, r, pr : Abstract!Allowed(c, h, r, pr) <=> Allowed(c, h, r, pr)
  BY <1>3 DEF Abstract!Allowed, Allowed
<1>7. QED
  BY <1>1, <1>2, <1>3, <1>4, <1>5, <1>6

LEMMA SameRows ==
  /\ \A j, r : Abstract!Recorded(j, r) <=> Recorded(j, r)
  /\ \A r, pr, c : Abstract!NewRow(r, pr, c) = NewRow(r, pr, c)
  /\ \A row : Abstract!AsStored(row) = AsStored(row)
<1>1. \A x : Abstract!IsTrade(x) <=> IsTrade(x)
  BY DEF Abstract!IsTrade, IsTrade, Abstract!TradeKinds, TradeKinds
<1>2. \A j, r : Abstract!Recorded(j, r) <=> Recorded(j, r)
  BY <1>1 DEF Abstract!Recorded, Recorded, Abstract!SameKey, SameKey
<1>3. \A r, pr, c : Abstract!NewRow(r, pr, c) = NewRow(r, pr, c)
  BY <1>1, SameArithmetic DEF Abstract!NewRow, NewRow
<1>4. \A row : Abstract!AsStored(row) = AsStored(row)
  BY <1>1, SameArithmetic DEF Abstract!AsStored, AsStored
<1>5. QED
  BY <1>2, <1>3, <1>4

\* The commit is the one step that the atomic ledger sees of a request.
LEMMA CommitRefines ==
  ASSUME IInv, WritesFit, NEW w \in Workers, Commit(w)
  PROVE  Abstract!Next
<1> DEFINE r == req[w]
           p == req[w].portfolio
<1>1. pc[w] = "commit" /\ pc[w] \in InTransaction
  BY DEF Commit, InTransaction
<1>2. r \in Request /\ Priced(r, price[w]) /\ p \in live /\ ~Recorded(journal, r)
  BY <1>1 DEF IInv, Serving, RowLocks, PendingKeysNew
<1>3. /\ Allowed(cash[p], HeldBy(r), r, price[w])
      /\ mem[w].cash = CashAfter(cash[p], r, price[w])
      /\ mem[w].held = HeldAfter(HeldBy(r), r)
      /\ Fits(mem[w].cash, mem[w].held)
  BY <1>1 DEF IInv, WritesAreFresh, WritesFit
<1>4. CASE r \in TradeRequest
  <2>1. IsTrade(r) /\ price[w] \in Prices /\ HeldBy(r) = position[p][r.ticker]
    BY <1>2, <1>4 DEF TradeRequest, IsTrade, Priced, HeldBy
  <2>2. Abstract!Trade(r, price[w])
    BY <1>2, <1>3, <2>1, SameArithmetic, SameRows DEF Commit, Abstract!Trade
  <2>3. QED
    BY <1>4, <2>1, <2>2, SameRequests DEF Abstract!Next
<1>5. CASE r \in CashRequest
  <2>1. ~IsTrade(r) /\ HeldBy(r) = 0
    BY <1>5 DEF CashRequest, IsTrade, TradeKinds, CashKinds, HeldBy
  <2>2. /\ Allowed(cash[p], 0, r, 0)
        /\ mem[w].cash = CashAfter(cash[p], r, 0)
        /\ mem[w].held = 0
        /\ NewRow(r, price[w], mem[w].cash) = NewRow(r, 0, mem[w].cash)
    BY <1>3, <1>5, <2>1, TransferIgnoresPrice
  <2>3. Abstract!Transfer(r)
    BY <1>2, <1>3, <2>1, <2>2, SameArithmetic, SameRows DEF Commit, Abstract!Transfer
  <2>4. QED
    BY <1>5, <2>3, SameRequests DEF Abstract!Next
<1>6. QED
  BY <1>2, <1>4, <1>5 DEF Request

LEMMA NextRefines ==
  ASSUME IInv, WritesFit, [Next]_vars
  PROVE  [Abstract!Next]_(Abstract!vars)
<1>1. CASE \E w \in Workers : Commit(w)
  BY <1>1, CommitRefines
<1>2. CASE \E p \in Portfolios : RemovePortfolio(p)
  <2>1. \E p \in Portfolios : Abstract!Remove(p)
    BY <1>2 DEF RemovePortfolio, Abstract!Remove
  <2>2. QED
    BY <2>1 DEF Abstract!Next
<1>3. CASE \E w \in Workers :
             \/ Receive(w) \/ CheckKey(w) \/ FetchPrice(w) \/ LockPortfolio(w)
             \/ Apply(w) \/ Insert(w) \/ Publish(w) \/ Respond(w) \/ Crash(w)
  <2>1. db' = db
    BY <1>3 DEF Receive, CheckKey, FetchPrice, LockPortfolio, Apply, Insert,
                Publish, Respond, Crash, RollBack
  <2>2. QED
    BY <2>1 DEF db, Abstract!vars
<1>4. CASE UNCHANGED vars
  BY <1>4 DEF vars, Abstract!vars
<1>5. QED
  BY <1>1, <1>2, <1>3, <1>4 DEF Next, Work

\* Every behaviour of the request handlers is, seen from the committed tables,
\* a behaviour of the atomic ledger.
THEOREM LedgerImplementsLedgerSpec == Spec => ImplementsLedgerSpec
<1>1. Init => Abstract!Init /\ WritesFit
  BY DEF Init, Abstract!Init, WritesFit
<1>2. IInv => TypeOK
  BY DEF IInv
<1>3. Spec => []WritesFit
  BY <1>1, <1>2, NextWritesFit, Invariance, PTL DEF Spec
<1>4. QED
  BY <1>1, <1>3, NextRefines, Invariance, PTL DEF Spec, ImplementsLedgerSpec, Abstract!Spec
=============================================================================
