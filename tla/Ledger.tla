------------------------------- MODULE Ledger -------------------------------
(***************************************************************************)
(* The ledger's write path: POST /trade/ and POST /cash-transfer/, from    *)
(* the router through LedgerOrchestratorService to TradeExecutionService   *)
(* and CashTransferService.  Workers are the server threads that run the   *)
(* handlers.  An action ends where a handler gives up control to something *)
(* another worker can interleave with: a query, a row lock, the price      *)
(* cache, the commit, the broadcast.  A worker inside transaction.atomic() *)
(* keeps its writes to itself (mem) until it commits (READ COMMITTED).     *)
(***************************************************************************)
EXTENDS LedgerData

CONSTANTS
  Workers,
  NoWorker  \* the holder of a row lock that is free

ASSUME LedgerAssumption == NoWorker \notin Workers

VARIABLES
  live,      \* portfolios that exist
  cash,      \* committed Portfolio.cash_balance
  position,  \* committed Position.quantity; a missing row counts as 0
  journal,   \* committed Trade and CashTransaction rows, in commit order
  lock,      \* the worker whose transaction holds the Portfolio row FOR UPDATE
  pc,        \* the step each worker is at
  req,       \* the request it serves
  price,     \* the live price it fetched
  mem,       \* its in-memory portfolio.cash_balance and position.quantity
  reply      \* the HTTP status and body it is about to send

db == <<live, cash, position, journal>>
vars == <<live, cash, position, journal, lock, pc, req, price, mem, reply>>

\* What an idle worker holds.
NoRequest == [kind |-> "NONE"]
NoCopy == [cash |-> 0, held |-> 0]
NoRow == [kind |-> "NONE"]
NoReply == [status |-> 0, row |-> NoRow]
Reply == [status: {0, 200, 201, 404, 409, 500}, row: Row \cup {NoRow}]

InTransaction == {"apply", "insert", "commit"}
Steps ==
  {"idle", "check", "price", "lock", "apply", "insert", "commit", "publish", "answer"}

Init ==
  /\ live = Portfolios
  /\ cash = [p \in Portfolios |-> 0]
  /\ position = [p \in Portfolios |-> [t \in Tickers |-> 0]]
  /\ journal = <<>>
  /\ lock = [p \in Portfolios |-> NoWorker]
  /\ pc = [w \in Workers |-> "idle"]
  /\ req = [w \in Workers |-> NoRequest]
  /\ price = [w \in Workers |-> 0]
  /\ mem = [w \in Workers |-> NoCopy]
  /\ reply = [w \in Workers |-> NoReply]

-----------------------------------------------------------------------------
Goto(w, step) == pc' = [pc EXCEPT ![w] = step]
Answer(w, status, row) ==
  /\ Goto(w, "answer")
  /\ reply' = [reply EXCEPT ![w] = [status |-> status, row |-> row]]

\* Leaving transaction.atomic(), by commit or by rollback, frees the row lock.
Unlocked(w) == [p \in Portfolios |-> IF lock[p] = w THEN NoWorker ELSE lock[p]]

\* Faulty variant: the rollback leaves the row locked.
RollBackKeepsLock(w, status) ==
  /\ Answer(w, status, NoRow)
  /\ UNCHANGED <<db, lock, req, price, mem>>

\* An exception inside transaction.atomic(): nothing was written.
RollBack(w, status) ==
  /\ Answer(w, status, NoRow)
  /\ lock' = Unlocked(w)
  /\ UNCHANGED <<db, req, price, mem>>

HeldBy(r) == IF IsTrade(r) THEN position[r.portfolio][r.ticker] ELSE 0

-----------------------------------------------------------------------------
\* The router resolves the caller's portfolio before it calls the service.
Receive(w) ==
  /\ pc[w] = "idle"
  /\ \E r \in Request :
       /\ req' = [req EXCEPT ![w] = r]
       /\ IF r.portfolio \in live
          THEN Goto(w, "check") /\ UNCHANGED reply
          ELSE Answer(w, 404, NoRow)
  /\ UNCHANGED <<db, lock, price, mem>>

\* Faulty variant: the check looks the key up in both tables.
CheckKeyAnyTable(w) ==
  /\ pc[w] = "check"
  /\ \/ \E i \in DOMAIN journal :
          journal[i].key = req[w].key /\ Answer(w, 200, journal[i])
     \/ /\ ~Recorded(journal, req[w])
        /\ Goto(w, IF IsTrade(req[w]) THEN "price" ELSE "lock")
        /\ UNCHANGED reply
  /\ UNCHANGED <<db, lock, req, price, mem>>

\* The idempotency check, outside any lock: a known key is a replay.
CheckKey(w) ==
  /\ pc[w] = "check"
  /\ IF Recorded(journal, req[w])
     THEN \E i \in DOMAIN journal :
            SameKey(journal[i], req[w]) /\ Answer(w, 200, journal[i])
     ELSE /\ Goto(w, IF IsTrade(req[w]) THEN "price" ELSE "lock")
          /\ UNCHANGED reply
  /\ UNCHANGED <<db, lock, req, price, mem>>

\* The live price, or PriceUnavailableError: missing, malformed or expired in
\* the cache, or the cache unreachable.
FetchPrice(w) ==
  /\ pc[w] = "price"
  /\ \/ /\ \E quote \in Prices : price' = [price EXCEPT ![w] = quote]
        /\ Goto(w, "lock")
        /\ UNCHANGED reply
     \/ /\ Answer(w, 409, NoRow)
        /\ UNCHANGED price
  /\ UNCHANGED <<db, lock, req, mem>>

\* Faulty variant: a plain read, without FOR UPDATE.
LockPortfolioPlainRead(w) ==
  /\ pc[w] = "lock"
  /\ LET p == req[w].portfolio
     IN  /\ p \in live
         /\ mem' = [mem EXCEPT ![w].cash = cash[p]]
         /\ Goto(w, "apply")
  /\ UNCHANGED <<db, lock, req, price, reply>>

\* SELECT ... FOR UPDATE on the Portfolio row: waits for the row, then reads
\* its last committed version.
LockPortfolio(w) ==
  /\ pc[w] = "lock"
  /\ LET p == req[w].portfolio
     IN  /\ lock[p] = NoWorker
         /\ IF p \in live
            THEN /\ lock' = [lock EXCEPT ![p] = w]
                 /\ mem' = [mem EXCEPT ![w].cash = cash[p]]
                 /\ Goto(w, "apply")
                 /\ UNCHANGED reply
            ELSE Answer(w, 404, NoRow) /\ UNCHANGED <<lock, mem>>
  /\ UNCHANGED <<db, req, price>>

\* Locks and reads the position, decides, changes both copies and saves them.
Apply(w) ==
  /\ pc[w] = "apply"
  /\ LET r == req[w]
         after == [cash |-> CashAfter(mem[w].cash, r, price[w]),
                   held |-> HeldAfter(HeldBy(r), r)]
     IN  \/ /\ ~Allowed(mem[w].cash, HeldBy(r), r, price[w])
            /\ RollBack(w, 409)
         \/ /\ Allowed(mem[w].cash, HeldBy(r), r, price[w])
            /\ ~Fits(after.cash, after.held)
            /\ RollBack(w, 500)
         \/ /\ Allowed(mem[w].cash, HeldBy(r), r, price[w])
            /\ Fits(after.cash, after.held)
            /\ mem' = [mem EXCEPT ![w] = after]
            /\ Goto(w, "insert")
            /\ UNCHANGED <<db, lock, req, price, reply>>

\* Faulty variant: the unique index does not see the inserts of transactions
\* that have not ended.
InsertWithoutWait(w) ==
  /\ pc[w] = "insert"
  /\ \/ /\ Recorded(journal, req[w])
        /\ RollBack(w, 500)
     \/ /\ ~Recorded(journal, req[w])
        /\ Goto(w, "commit")
        /\ UNCHANGED <<db, lock, req, price, mem, reply>>

\* INSERT of the Trade or CashTransaction.  The unique index makes it wait for
\* a transaction that has inserted the key and not ended, and fail with
\* IntegrityError, which the router does not map, if the key is committed.
Insert(w) ==
  /\ pc[w] = "insert"
  /\ \A v \in Workers : pc[v] = "commit" => ~SameKey(req[v], req[w])
  /\ \/ /\ Recorded(journal, req[w])
        /\ RollBack(w, 500)
     \/ /\ ~Recorded(journal, req[w])
        /\ Goto(w, "commit")
        /\ UNCHANGED <<db, lock, req, price, mem, reply>>

\* Commit makes the three writes visible and frees the row at once.
Commit(w) ==
  /\ pc[w] = "commit"
  /\ LET r == req[w]
         p == r.portfolio
     IN  /\ cash' = [cash EXCEPT ![p] = Stored(mem[w].cash, CashScale)]
         /\ position' =
              IF IsTrade(r)
              THEN [position EXCEPT ![p][r.ticker] = Stored(mem[w].held, QtyScale)]
              ELSE position
         /\ journal' =
              Append(journal, AsStored(NewRow(r, price[w], mem[w].cash)))
  /\ lock' = Unlocked(w)
  /\ Goto(w, "publish")
  /\ UNCHANGED <<live, req, price, mem, reply>>

\* The broadcast of a fresh entry.  If the channel layer is unreachable the
\* handler raises, although the entry is committed.
Publish(w) ==
  /\ pc[w] = "publish"
  /\ \/ Answer(w, 201, NewRow(req[w], price[w], mem[w].cash))
     \/ Answer(w, 500, NoRow)
  /\ UNCHANGED <<db, lock, req, price, mem>>

Rest(w) ==
  /\ Goto(w, "idle")
  /\ req' = [req EXCEPT ![w] = NoRequest]
  /\ price' = [price EXCEPT ![w] = 0]
  /\ mem' = [mem EXCEPT ![w] = NoCopy]
  /\ reply' = [reply EXCEPT ![w] = NoReply]

Respond(w) == pc[w] = "answer" /\ Rest(w) /\ UNCHANGED <<db, lock>>

\* The worker process dies: the database rolls its transaction back, the
\* client gets no answer.
Crash(w) ==
  /\ pc[w] # "idle"
  /\ Rest(w)
  /\ lock' = Unlocked(w)
  /\ UNCHANGED db

\* Faulty variant: the delete does not wait for a transaction on the portfolio.
RemovePortfolioAnyTime(p) ==
  /\ p \in live
  /\ \A i \in DOMAIN journal : journal[i].portfolio # p
  /\ live' = live \ {p}
  /\ cash' = [cash EXCEPT ![p] = 0]
  /\ position' = [position EXCEPT ![p] = [t \in Tickers |-> 0]]
  /\ UNCHANGED <<journal, lock, pc, req, price, mem, reply>>

\* Staff delete a portfolio (or its user) in the admin.  on_delete=PROTECT
\* refuses that once the portfolio has an entry; its positions go with it.
RemovePortfolio(p) ==
  /\ p \in live
  /\ lock[p] = NoWorker
  /\ \A i \in DOMAIN journal : journal[i].portfolio # p
  /\ live' = live \ {p}
  /\ cash' = [cash EXCEPT ![p] = 0]
  /\ position' = [position EXCEPT ![p] = [t \in Tickers |-> 0]]
  /\ UNCHANGED <<journal, lock, pc, req, price, mem, reply>>

Work(w) ==
  \/ CheckKey(w)
  \/ FetchPrice(w)
  \/ LockPortfolio(w)
  \/ Apply(w)
  \/ Insert(w)
  \/ Commit(w)
  \/ Publish(w)
  \/ Respond(w)

Next ==
  \/ \E w \in Workers : Receive(w) \/ Work(w) \/ Crash(w)
  \/ \E p \in Portfolios : RemovePortfolio(p)

Spec == Init /\ [][Next]_vars

-----------------------------------------------------------------------------
\* Every variable has its type.
TypeOK ==
  /\ live \subseteq Portfolios
  /\ cash \in [Portfolios -> Int]
  /\ position \in [Portfolios -> [Tickers -> Int]]
  /\ journal \in Seq(Row)
  /\ lock \in [Portfolios -> Workers \cup {NoWorker}]
  /\ pc \in [Workers -> Steps]
  /\ req \in [Workers -> Request \cup {NoRequest}]
  /\ price \in [Workers -> Prices \cup {0}]
  /\ mem \in [Workers -> [cash: Int, held: Int]]
  /\ reply \in [Workers -> Reply]

\* Concurrent trades and transfers never spend cash twice or sell a holding
\* twice (the promise of execute_trade): no committed balance or position is
\* ever negative.
Solvent ==
  \A p \in Portfolios :
    /\ cash[p] >= 0
    /\ \A t \in Tickers : position[p][t] >= 0

\* No lost update: what a transaction is about to write was computed from the
\* balance and the position that are still the committed ones, whoever else
\* ran in between.
WritesAreFresh ==
  \A w \in Workers :
    LET r == req[w]
    IN  /\ pc[w] = "apply" => mem[w].cash = cash[r.portfolio]
        /\ pc[w] \in {"insert", "commit"} =>
             /\ Allowed(cash[r.portfolio], HeldBy(r), r, price[w])
             /\ mem[w].cash = CashAfter(cash[r.portfolio], r, price[w])
             /\ mem[w].held = HeldAfter(HeldBy(r), r)

\* An idempotency key takes effect at most once per table, although the check
\* for it runs outside the lock.
KeysUnique ==
  \A i, j \in DOMAIN journal : SameKey(journal[i], journal[j]) => i = j

\* A 200 or a 201 shows a row of the ledger under the caller's key (as the
\* database stores it), even if the handler read it long ago.
AnswersAreTrue ==
  \A w \in Workers :
    reply[w].status \in {200, 201} =>
      \E i \in DOMAIN journal :
        /\ SameKey(journal[i], req[w])
        /\ journal[i] = AsStored(reply[w].row)

\* CashTransaction.resulting_balance is "cash_balance immediately after this
\* entry": as long as nothing follows it in its portfolio, it is the balance.
SnapshotIsBalance ==
  \A i \in DOMAIN journal :
    /\ ~IsTrade(journal[i])
    /\ \A j \in DOMAIN journal : j > i => journal[j].portfolio # journal[i].portfolio
    => journal[i].balance = cash[journal[i].portfolio]

\* The state of every portfolio is what its history adds up to (the promise of
\* ledger/models.py: "reconstructible from history").
CashHistory(p) ==
  [n \in DOMAIN journal |->
     IF journal[n].portfolio = p THEN CashEffect(journal[n]) ELSE 0]
HeldHistory(p, t) ==
  [n \in DOMAIN journal |->
     IF journal[n].portfolio = p THEN HeldEffect(journal[n], t) ELSE 0]
Reconstructible ==
  \A p \in Portfolios :
    /\ cash[p] = Total(CashHistory(p))
    /\ \A t \in Tickers : position[p][t] = Total(HeldHistory(p, t))

\* What the columns round off is in the customer's favour: no balance and no
\* holding is less than what its history adds up to, over crashes, rollbacks,
\* replays and races.
AtLeastHistory ==
  \A p \in Portfolios :
    /\ cash[p] >= Total(CashHistory(p))
    /\ \A t \in Tickers : position[p][t] >= Total(HeldHistory(p, t))

\* The handlers implement the atomic ledger: locks, copies in memory, replays,
\* rejections, crashes and failed inserts are all invisible in the database.
Abstract == INSTANCE LedgerSpec WITH
  live <- live, cash <- cash, position <- position, journal <- journal
ImplementsLedgerSpec == Abstract!Spec

\* The workers a worker waits for: the holder of the row it is to lock, the
\* transaction that has inserted the key it is to insert.
WaitsFor(w) ==
  {v \in Workers :
     \/ pc[w] = "lock" /\ lock[req[w].portfolio] = v
     \/ pc[w] = "insert" /\ pc[v] = "commit" /\ SameKey(req[v], req[w])}

\* The row locks and the waits for another transaction's insert, both taken in
\* one transaction, never form a cycle, and nobody waits for a request that has
\* ended: whom a worker waits for is inside a transaction, and waits at most for
\* one that is about to commit and waits for nobody.
WaitsEnd ==
  \A w \in Workers : \A v \in WaitsFor(w) :
    /\ pc[v] \in InTransaction
    /\ \A u \in WaitsFor(v) : pc[u] = "commit" /\ WaitsFor(u) = {}
=============================================================================
