# A formal model of the Djaskt paper-trading app

The app lets a user deposit cash, trade against live prices and watch the
portfolio over a WebSocket. The backend is Django under an ASGI server with
several worker processes, PostgreSQL for the ledger and Redis for prices, token
revocation, broker sessions and the channel layer. The frontend is a React
client. This directory holds TLA+ modules translated from that code, TLC
configurations that check them on small instances, and TLAPS proofs about every
component modelled: for each safety property the passing runs check there is a
theorem for every value of the constants. Paths below are relative to
`src/backend/django/`; those of the client (`features/`, `pages/`, `components/`)
to `src/frontend/react/src/`.

`PROJECT.json` maps every definition to the lines it models and lists runs,
mutants, findings, hazards and theorems.

## The system

| Component | State it keeps | Operations | What is hard | Model |
|---|---|---|---|---|
| Ledger write path (`ledger/services`, `ledger/api/router.py`, `ledger/models.py`) | portfolios, positions, `Trade` and `CashTransaction` rows | `execute_trade`, `apply_transfer` | row locks, idempotency checked outside them, rounding by the columns, crashes and failed inserts | `Ledger`, `LedgerSpec`, `LedgerData` |
| Broadcast and WebSocket (`ledger/services/main_service.py`, `ledger/realtime`) | channel group, per-socket flags and tasks | `_broadcast_portfolio_update`, `connect`, `receive`, `disconnect`, `portfolio_update` | broadcasts outside the lock, awaits in `receive`, the timeout task beside it, exceptions that skip `disconnect` | `PortfolioConsumer` |
| Tokens (`accounts/api.py`, `extensions/token_denylist.py`, `ledger/api/auth.py`) | JWT claims; denylist entries and a cutoff per user in Redis | login, refresh, logout, logout-all, the check of each request | check-then-act over Redis, whole-second times, keys that lapse | `TokenAuth` |
| Accounts (`accounts/api.py`, `accounts/models.py`, `pages/SignupPage.tsx`, `pages/LoginPage.tsx`, `features/auth`) | users and their portfolios; the tokens of a browser | signup with the login that follows it, the staff's inserts, login, logout of a browser | check-then-insert against a unique index, an answer that is lost after the commit, two spellings of one email | `Accounts`, `AccountsSpec` |
| Brokerage (`brokerage/`) | links in the database; broker sessions and cooldowns in Redis | create, list, delete link; broker login and logout | broker calls of many seconds between read and write, TTL at IST midnight | `BrokerSession` |
| Web client: trading (`features/trading`, `pages/PortfolioPage.tsx`) | refs, sockets and reconnect timers of the stream; the query cache; the state of a form | `usePortfolioStream`, `usePortfolio`, `useTradeExecution`, `TradeForm`, `CashTransferForm` | late events of old sockets, three writers of one cache entry, submissions over a connection that breaks | `PortfolioStream`, `TradingTab` |
| Server process (`extensions/vault.py`, `extensions/redis_client.py`, `extensions/logger.py`, `middlewares/request_log_context.py`, `django_app/settings.py`) | the Vault login and the secrets of a worker; the Redis client; the context and the log queue | a worker's boot, `get_client`, a request's context, a line's way to stdout | a token that expires in the boot, a double-checked lock, threads that serve many requests | `Settings`, `Once`, `ServerProcess` |
| Ledger reads and admin edits, other client pages, health, deployment | | | | in part, see below |

A request goes router -> `LedgerOrchestratorService` -> the execution service
(database, price cache) -> commit -> broadcast -> channel layer -> one
`PortfolioConsumer` per open socket -> the client's query cache. Every REST
request and the first frame of every socket passes `DenylistCheckingJWTAuth`,
which reads the two kinds of Redis key that logout, logout-all and refresh
write.

What makes each part correct:

* **Ledger**: a trade or transfer is atomic, never overdraws cash or a holding,
  takes effect once per key, leaves a history that adds up to the state, and no
  request waits for ever.
* **WebSocket**: only the owner is told anything; no trade falls between the
  initial history and the live updates, and no transfer committed since the
  socket joined its group is left out; a silent socket is closed; what the client
  was told last is the state of the portfolio.
* **Tokens**: what was revoked stays refused until it has expired, although the
  keys that say so lapse on their own; logout-all ends every session and no
  later one.
* **Brokerage**: a session that was logged out does not come back, a logout
  leaves nothing cached, a session ends at IST midnight, logins reach the broker
  a cooldown apart.
* **Accounts**: one account per email, never one without its portfolio; only a
  race can be refused without a reason; every submitted form is answered.
* **Client**: one connection or one timer, none left behind a page (not so when
  the tab's user changes, see the findings); after a failure the stream comes
  back; the cached portfolio becomes the committed one; every form is told an
  outcome.
* **Server process**: the workers that booted without an outage of Vault hold the
  same secrets, and each comes from where the deployment has it (a secret that
  nobody provides is the literal `settings.py` names for it);
  one Redis client; a log line bears the trace of its own request.

## The modules

### LedgerData, LedgerSpec, Ledger

`LedgerData` has what both levels share: requests, rows, the arithmetic on a
portfolio, and the rounding a `numeric(19,4)` column applies (`Stored`; the code
hands the database unrounded `Decimal`s, PostgreSQL rounds a tie away from
zero, and a value beyond the column is an error). Amounts are integers;
`CashScale`, `QtyScale` and `PriceScale` say how many in-memory units make one
unit of the columns for cash, quantities and prices; `AsStored` is a row as its
columns keep it.

`LedgerSpec` is the promise: one step checks the key, the portfolio and the
funds, and changes the balance, the holding and the journal together.

`Ledger` is the code. Each worker runs a handler; its `pc` names where it is:

| Step | Action | Code |
|---|---|---|
| `idle` | `Receive` | the router resolves the caller's portfolio (404) |
| `check` | `CheckKey` | the idempotency query, outside the transaction (200 replay) |
| `price` | `FetchPrice` | `PriceFetchService.get_live_price` (409 when there is none) |
| `lock` | `LockPortfolio` | `select_for_update().get()`, waits for the row (404) |
| `apply` | `Apply` | position row, business rules (409), both saves (500 on overflow) |
| `insert` | `Insert` | `objects.create`; waits for an uncommitted insert of the same key, 500 (IntegrityError) if it commits |
| `commit` | `Commit` | end of `transaction.atomic()`: writes visible, lock freed |
| `publish` | `Publish` | the broadcast: 201, or 500 although committed |
| `answer` | `Respond` | the response |

`Crash` may take any busy worker: PostgreSQL rolls back and frees the row.
`RemovePortfolio` is the admin's delete, refused by `PROTECT` once there is
history. A transaction's writes are in `mem` until `Commit` (READ COMMITTED),
so no other worker can read them. The position row is always reached through
the locked portfolio row and its lock is therefore not modelled apart. `WaitsFor` says whom a
worker at `lock` or at `insert` waits for. The
checks of trade type and sign at the top of `execute_trade` cannot fail after
the schemas have validated the payload and are left out.

### PortfolioConsumer

The portfolio is reduced to a version, the number of entries committed; `trades`
says which of them are `Trade` rows, the others are cash transfers. The history a
socket is sent is the code's query: the newest `HistoryLimit` trades (50 in the
code) of those committed, and never a transfer. Trades are ordered by their
commits; a `timestamp` is set inside the transaction, under the row lock of the
portfolio, so on one clock the two orders are the same. `since` is the version at
which a socket joined its group; no code keeps it, it is there to state `NoGap`:
every entry committed since, and every trade from before that is not older than a
full history, has been told, is on its way, or is counted in `missed`. A transfer
from before the socket joined is never told over the socket: the client has its
effect on the balance from the REST query.

Handlers take the steps `Commit`, `ReadPositions`, `GroupSend` (or
`BroadcastFails`); the payload carries the version of the cash (the instance in
memory) and the version of the holdings (queried again). A consumer handles one
event at a time, as Channels does; its `pc` is the await it is at: `validate`,
`check_owner`, `join`, `history`, `greet`, or `open` when it waits for an event.
`AuthTimeout` alone runs beside that. `group_name` and `user_id` are set with
`_authenticated` without an await in between, so `authed` stands for the three.
A send on a socket that is gone is lost or raises (`Raises`); an exception ends
the consumer without `disconnect` (`Die` is the same for a failed query or a
server that dies). The channel layer keeps `Capacity` messages per socket, drops
the next one, and forgets a member after a day (`Expire`).

### TokenAuth

One user's token pairs, the denylist and the cutoff, and workers that run the
endpoints. The clock ticks `TicksPerSecond` times a second, while claims and
TTLs are whole seconds. A request first passes the expiry check (no I/O), then
`CheckDenylist`, then, unless it is a refresh, `CheckCutoff`; the step after
that is the endpoint. `Tick` drops the Redis keys whose time has come. `Fail`
ends a request at any point. A logout's body names tokens of the pair it is
authorised by, at least one of them.

### AccountsSpec, Accounts

`AccountsSpec` is what a visitor may count on: `Ask` (a form is sent), `Register`
(the account, with its portfolio, in one step), `Refuse` (the 409), and what the
staff do, `Add` an account and `Fund` it with a portfolio.

`Accounts` is the code. A browser `Submit`s the signup form or the login form;
`SignupAnswered` goes on to the login by itself, as `handleSubmit` does, and
`LoginAnswered` stores the tokens or shows the error; `AnswerLost` may hit either
call. The handler of a signup takes the steps `Check` (409), `Insert` (waits for
an uncommitted insert of the same email, as the unique index does, and fails if
that one commits), `Fund` (the portfolio), `Close` (`Commit`, `Abort`, or
`CommitUnacknowledged`: the commit happens and the connection breaks). The rows of
an open transaction are invisible. `AddUser` and `AddPortfolio` are the staff's
inserts. Signup normalizes what was typed (`Email`), so two spellings of one email
are distinct texts and one account; the login compares the text letter by letter
(`Matches`). The button is disabled while a form is under way, but a visitor may
leave the page and send the other form, so one browser can have two submissions
under way. `ClearTokens` is the header's logout or a 401. `known` only records
whether the email was taken when the form was sent.

`Commit` and `CommitUnacknowledged` map to `Register` of the abstract level, and
an IntegrityError to a failure it allows; an account of the staff has no portfolio
until `AddPortfolio`.

### BrokerSession

One user and one brokerage (keys of others are disjoint). A login is `StartLogin`
(the link), `EnforceCooldown` (one `SET NX EX`), `InvalidCredentials` or
`CallBroker` (the broker's answer, and the clock reading of `store()`), `Store`
(HSET and EXPIRE in one transaction; a TTL of 0 deletes). A logout is `StartLogout`, `ReadSession`,
`TellBroker` (whose failure changes nothing, because of the `finally`) and
`Delete`. An error of the broker's logout that the router does not catch
(credentials refused, an answer that is not JSON) is answered with a 500 after the
`finally` has deleted the session; the model has one answer for both, since the
session is gone either way. `create_link` is `StartLink` and then `InsertLink` or `LinkExists`;
`delete_link` is one statement. `Fail` ends any request at any point. Time 0 is a
midnight in India. `MaxLag` bounds the ticks between the clock reading and Redis
acting on the TTL: `EndsByMidnight` says how far past midnight that can carry a
session, and the proof holds for every value of it. A session carries the clock
reading it was stored under (`read`); `admitted`, `ended` and `off` only record
what was answered.

The broker's answers are `Responses`; `ParsesToSession` says which of them
`_parse_response` turns into a session and which into an error. Whether a
credential is missing is a choice: it decides between the two and nothing else.

### PortfolioStream, TradingTab

`PortfolioStream` is the hook. A view is one mounted page with its own refs
(`hook`); a socket outlives its view until its close event is delivered. Socket
states: `connecting`, `open` (the auth frame is sent), `joined` (accepted by the
server, with an inbox), `closing` (closed by a cleanup, event to come), `waiting`
(closed, its reconnect timer is set). `Mount` runs the effect if the portfolio's
id is known, `Unmount` is the cleanup, `OnClose` the close handler. The server can
be unreachable (`Outage`), the token can expire (`Expire`), and the users of a tab
may follow each other (`Login`). Delays and the backoff are not timed: a timer may
fire at once or late.

The effect depends on the portfolio's id. `Show`, which every writer of the cached
portfolio goes through, runs it again when the id changes under a mounted page
(`RunAgain`: the cleanup, then `RunEffect`). That happens when a second user logs
in: a logout clears the tokens but not the query cache, whose key names nobody, so
the next page connects for the first user's portfolio (which the server refuses)
until the refetch lands. `of` and `by` are the portfolio and the token of a
socket's closure. The second run resets `isUnmountedRef`, so the close event of
the socket that was just cleaned up starts a second connection
(finding 4). `stale` only records that this has happened to a view; `OneConnection`,
`NothingLeftBehind` and `Recovers` speak of the views it has not happened to
(`Steady`), beside whatever sockets the stale ones leave. `BadgeIsTrue` holds for all.
`RunEffect` needs an unused socket of the finite pool: where the code would have
more connections under way than the pool has sockets, the model does not take the
step, which is a bound.
React drops an unobserved query after five minutes; the model keeps it, which is
the harder case. Under React's StrictMode (`main.tsx`, development only) effects
run twice when a page mounts, with the same consequence as above; the model is of
the production build.

`TradingTab` adds what else writes the cached portfolio and what a form is told:
the query (`fetch`: in flight, the balance read, the positions read, landed), the
refetch on focus and after a success, and submissions `sub[k]`, each with a key
`k` of its own. The server commits an entry at one instant, as
`Ledger` is proved to do, broadcasts later (`due`) and in any order, and may serve
other tabs (`NoKey`). A portfolio is the pair of versions its balance and its
positions show, and whose it is. A query in flight when the user changes is
joined by the next page and may land for it.

### Settings, Once, ServerProcess

`Settings` is the boot of a worker: for each secret in the order of
`settings.py`, `Authenticate`, `FetchSucceeds` or `FetchFails` (the first failure
forces a fresh login and a second try), else `Fallback` to the environment, the
default, or `ImproperlyConfigured`. `Expire` ends a Vault token at any point of
the boot but between a fresh login and its fetch. `outage` records that Vault
failed to answer with something it holds. `SdkRaises` is an exception of the SDK
that neither `vault.py` nor `settings.py` catches: they catch `InfisicalError` and
the two errors `vault.py` makes of it, so anything else ends the boot
(`crashed`), whatever the environment holds. Which failures of the network the SDK
turns into an `InfisicalError` is outside the repository, so any call may end
either way. The calls pass no timeout; that they return is assumed.

`ServerProcess` is a worker that is up: carriers (threads or tasks) run requests
inside `RequestLogContextMiddleware` (`Start`, `Finish`), call
`RedisClientManager.get_client` (`GetClient`, `Acquire`, `BuildClient`,
`Release`, `Return`: each look at `_client` is a step) and log lines, which the
listener thread writes later. `Restart` ends a worker with all of that. `Once` is
the promise of `get_client`: a value built at most once per place and handed to
everyone.

## The runs

| Run | Question | Bounds |
|---|---|---|
| `LedgerSafety` | is the write path safe, free of deadlock, and does it implement the atomic ledger? | 2 workers, 2 portfolios, 2 keys, balances up to 3, amounts of one and a half column units, all scales 2: every race on the lock, on a key and on a deletion needs two workers; two keys give both a replay and two fresh entries; two portfolios, a wait for an insert by one that holds a row; two roundings follow each other, up and down |
| `LedgerRounding` | is the state reconstructible from history? **No** | 1 worker |
| `ConsumerSafety` | is the live view private, gap-free and in order, and do silent sockets end? | 2 handlers, 1 socket (sockets share nothing but the portfolio), 2 entries, each a trade or a transfer, a history of 1 trade (so that an older one falls out), a queue of 1 (so that one overflows), 2 frames waiting |
| `ConsumerStale` | is the last update the current state? **No** | 2 handlers, 2 entries |
| `TokenSafety` | do revocations outlast the tokens? | 2 requests, 2 pairs (a rotation), days and lifetimes of 2 s, 4 ticks: tokens and keys expire within the run, and a clock reading can be half a second old |
| `TokenEnds` | does logout-all end every session? **No** | 1 request at a time |
| `BrokerSafety` | do broker sessions end when they should, under races of logins, logouts and unlinks? | 3 requests (two logins and a logout at once), 3 sessions, days of 2 s, cooldown of 1 s, 6 ticks: one midnight is passed and another session is stored after it |
| `TabStream` | does a page keep one connection, leave none behind, tell the truth about it and recover? | 2 users, 2 views (a page and its successor), 2 sockets, no entries (an update that changes the cached id is as an answer that does; the proofs have both): an old socket's close beside a new one, a second user beside the first one's cache |
| `TabConverges` | does the tab show the truth in the end, and answer every form? | 1 user, 2 views, 2 sockets, 1 entry, inbox of 2, 1 key: an answer beside an update |
| `TabUsers` | is there one WebSocket in a tab? **No** | 2 users, 1 view, 2 sockets |
| `AccountsSafety` | is a registration atomic, unique and answered? | 2 browsers with 2 submissions, 1 insert by the staff, 3 texts of 2 people (one email spelled twice): every race on one email |
| `ProcessSafety` | do workers agree on their secrets, build one client and log the right trace? | 1 worker, 2 carriers, 2 requests (so one carrier serves two), 2 secrets of which one has a default, 4 deployments, 1 expiry, 1 restart, a queue of 1: the workers share only Vault, so the proof, not the run, has several |

Deadlock is checked in the ledger runs, where `WaitsEnd` says more (a busy worker
can always crash, so TLC's own check would miss a cycle of waits). In the others the bound on entries or on
the clock lets the system stop, so it is not.

`Capacity` and `HistoryLimit` stand for the channel layer's and the query's own
limits. `MaxVersion`, `MaxInbox`, `MaxUnread`, `MaxPairs`, `MaxLogins`, `MaxTime`, `MaxExpiries`,
`MaxRestarts` and `MaxQueue` bound counters of the model; a submission or an insert of
`Accounts` is used once, so its sets are the bound; the ledger's journal is bounded by its keys, its balances by `ColumnMax`.

### Properties

* `Solvent`, `WritesAreFresh`, `KeysUnique`, `AnswersAreTrue`,
  `SnapshotIsBalance`, `AtLeastHistory`, `WaitsEnd`, `ImplementsLedgerSpec` for the
  ledger;
* `OnlyOwnerIsTold`, `NoGap`, `HistoryComesFirst`, `BroadcastsAreCommitted`,
  `SilentSocketsEnd` for the WebSocket;
* `DenialOutlivesToken`, `RevokedIsRefused`, `CutoffOutlivesTokens` for tokens;
* `EndsByMidnight`, `LoggedOutStaysOut`, `LogoutDisconnects`, `CooldownAdmitsOne`
  for broker sessions;
* `OneAccountPerEmail`, `NoHalfAccount`, `KnownEmailIsRefused`,
  `ImplementsAccountsSpec`, `EverySubmitEnds` for accounts;
* `OneConnection`, `NothingLeftBehind`, `BadgeIsTrue`, `Recovers`, `Converges`,
  `ButtonsComeBack` for the tab;
* `WorkersAgree`, `SecretsComplete`, `BootEnds`, `TraceIsOwn`, `ImplementsOnce` for
  the server process;
* a type invariant per module, by TLC or, for `Accounts`, `TradingTab` and
  `ServerProcess`, by proof alone.

`Converges` assumes a user who keeps coming back to the window: without a refetch
an old answer that lands over a newer update stays. It is checked for one user.

`SecretsComplete` says where each secret of a worker that came up is from (what a
working Vault holds, else the environment, else the default), and that a boot ends
with `ImproperlyConfigured` only for a secret none of them has; it allows the
defaults described below and the boots that `SdkRaises` ends.

`RevokedIsRefused` has one exception that the code has too: a request that
passed the expiry check just before the token expired may find that the
denylist entry has lapsed with it.

### Findings

1. `LedgerRounding`: balance and rows are rounded apart (`trade_service.py:105`),
   so history does not add up to the state as `ledger/models.py:8` says.
2. `ConsumerStale`: broadcasts are sent after the row lock is freed
   (`main_service.py:148`), in any order; a socket may be left with an old state.
3. `TokenEnds`: `refresh()` never asks for the logout-all cutoff
   (`accounts/api.py:236`, against `:309-317`).
4. `TabUsers`: `usePortfolioStream.ts:66` resets `isUnmountedRef` when the effect
   runs again (`:128`), before the close event of the socket it has just cleaned
   up: a tab whose user has changed has two sockets and two reconnect loops, one of
   them for a portfolio the server refuses.

Other disagreements were met while modelling and have no run of their own: the
models contain the behaviour.

* `useTradeExecution.ts:28` makes the idempotency key per request, so "a retried
  request ... never double-executes" (`:10-13`) does not hold for a user whose
  connection breaks after the commit and who clicks again after "Trade failed.
  Please try again.": the second `Submit` has a key of its own.
* `settings.py:235` (and, with a blank, `:262`) gives `_get_secret` a default, so
  "the app never boots with an empty or hardcoded secret" (`:54-55`) does not hold
  for the passwords of the database and Redis; `SecretsComplete` allows it.
* The same docstring says that a network error falls back to the environment;
  that is so only when the SDK raises an `InfisicalError` for it (`SdkRaises`).
* Two requests with one key that pass the check together: the loser gets 409 or
  500, not "the original trade" of `trade_service.py:71-73`.
* The logout-all cutoff is a whole second and inclusive (`token_denylist.py:104`),
  so a login in that second is refused, against `accounts/api.py:317`.
* Unlinking leaves the session in Redis (`brokerage/api/router.py:125`), so "a
  session that can't exist" (`:94-95`) does when the user links again.
* Signup stores the email with its domain in lower case (`EmailStr` and
  `normalize_email`); the login compares what was typed. Who signs up with an
  upper-case domain is refused (401) by the login that follows it, against
  `pages/SignupPage.tsx`, and by every later one typed the same way.

### Fairness

* The ledger has no fairness and no liveness property: that a request ends
  follows, outside the model, from `WaitsEnd`, from calls that time out or return,
  and from PostgreSQL's queues for a row and for a unique key.
* `PortfolioConsumer!FairSpec`: weak fairness of each consumer's handlers and of
  the timeout task (the event loop runs whatever is ready) and of broadcasts. No
  fairness for clients, commits, `Die` or `Expire`.
* `Accounts!FairSpec`: weak fairness of each handler's steps up to its commit (a
  handler never leaves `transaction.atomic()` open, and the holder of an email
  commits, so a waiting insert is let through) and of the answers that reach a
  browser; none for visitors, staff or failures.
* `TradingTab!FairSpec`: weak fairness of each socket's events (its timer
  included), of the query's steps, of broadcasts and of a submission's outcome: the browser delivers what
  happened and the server answers what reaches it. None for users, outages or
  other tabs; `Recovers` and `Converges` name what they need of these.
* `ServerProcess!FairSpec`: weak fairness of a worker's boot.

## The proofs

`LedgerProofs` proves, for any number of workers, portfolios, tickers and keys,
any prices and amounts, and any scales and column size:

| Theorem | States |
|---|---|
| `TypeCorrect` | `Spec => []TypeOK` |
| `NeverOverdrawn` | `Spec => []Solvent` |
| `NoLostUpdate` | `Spec => []WritesAreFresh` |
| `AtMostOnce` | `Spec => []KeysUnique` |
| `NoDeadlock` | `Spec => []WaitsEnd`: whom a worker waits for is in a transaction and waits at most for one about to commit |
| `AnswersTrue` | `Spec => []AnswersAreTrue` |
| `SnapshotTrue` | `Spec => []SnapshotIsBalance` |
| `NeverBelowHistory` | `Spec => []AtLeastHistory`: no balance and no holding is less than the sum of its history |
| `HistoryAddsUp` | `Spec => []Reconstructible`, when `CashScale = 1` and `QtyScale = 1` |
| `LedgerImplementsLedgerSpec` | `Spec => ImplementsLedgerSpec` |

The assumptions are `LedgerDataAssumption` (prices and amounts positive, as the
schemas and the price service guarantee; the three scales positive) and
`LedgerAssumption` (`NoWorker` is no worker).

The argument. `Solvent` alone is not inductive: a commit writes what the worker
computed a few steps earlier. `IInv` adds what makes that value good:

* `Serving`: a worker that is not idle holds a request (a trade, if it is to
  fetch a price) and, past `price`, its price;
* `RowLocks`: a worker inside a transaction holds the lock of its portfolio and
  that portfolio exists; a lock is held only by such a worker;
* `WritesAreFresh`: the copies of a worker inside its transaction are those
  its portfolio's committed values give;
* `PendingKeysNew`: a worker about to commit has a key that no row has, and no
  other worker is about to commit the same key.

One lemma per action shows that it preserves `IInv`. `RollBack`, `Crash` and the
end of a request share `ReleaseStep`, the steps that write no shared state share
`KeepStep`. Freshness is preserved by another's commit because two workers in a
transaction on one portfolio would both hold its lock. `AllowedStaysNat` turns
the business rules into a non-negative result, and `StoredNat` says rounding
keeps it non-negative. The refinement maps the four database variables to
themselves: `Commit` is `Trade` or `Transfer`, `RemovePortfolio` is `Remove`,
everything else stutters; it needs `WritesFit` (what is about to be committed
fits its column) besides `IInv`.

Three more invariants rest on `IInv`. `AnswersInv`: a success is held only by a
worker that is about to answer, the entry of a worker that is about to broadcast
is in its table (`CommittedIsKept`), and the tables hold column values
(`JournalStored`), so that storing a replayed row again changes nothing
(`StoredTwice`). `SnapshotIsBalance` is inductive on top of `IInv`: only a commit
on its portfolio changes a balance, and a portfolio with a row is not deleted.
`HistoryInv`: balances and positions are whole column units (`Columns`), so a
credit may be rounded before or after it is added (`StoredAdds`), and what a debit
leaves is never less than if its amount had been rounded first
(`StoredSubtracts`); each commit therefore moves a balance by its row's effect or
by more, and by exactly that when nothing is rounded (`CommitMoves`). That is
`NeverBelowHistory` and `HistoryAddsUp`: the drift of finding 1 comes from
debits, and only upwards. The
hypotheses of `HistoryAddsUp` are what its conclusion needs: `LedgerRounding` shows
that it fails without them. `Total`, the sum of a
sequence, is a recursive function; that it exists, is unique and grows by what is
appended (`TotalAppend`) is proved by induction over a set of numbers (`Induct`),
which follows from the well-foundedness of `<` on `Nat`.

`BrokerProofs` proves, for any number of requests, any clock resolution, day,
cooldown, lag and number of logins:

| Theorem | States |
|---|---|
| `TypeCorrect` | `Spec => []TypeOK` |
| `MidnightEnds` | `Spec => []EndsByMidnight` |
| `LoggedOutForGood` | `Spec => []LoggedOutStaysOut` |
| `LogoutLeavesNothing` | `Spec => []LogoutDisconnects` |
| `CooldownSpacesLogins` | `Spec => CooldownAdmitsOne` |

from `BrokerSessionAssumption` (durations and resolution are positive). Its
`IInv` adds: `NewSessions`, a session a login is about to store is held by no
other worker, is not in Redis and has not been logged out, because the broker
issues each once (`HeldIssued`); `LifeBounded`, the time Redis was given is at
most the midnight after the clock reading plus the lag, which is lemma `TTL`
(`(t \div d) * d <= t`) and `ReadInTime`; `CooldownHolds`, the cooldown key stands
for the last login let through; `Quiet`, while the user is disconnected no
login runs.

`AccountsProofs` proves, for any browsers, handlers, texts and people and any
normalization of texts:

| Theorem | States |
|---|---|
| `TypeCorrect` | `Spec => []TypeOK` |
| `AccountsAreUnique` | `Spec => []OneAccountPerEmail` |
| `AccountsAreWhole` | `Spec => []NoHalfAccount` |
| `ConflictsAreRaces` | `Spec => []KnownEmailIsRefused` |
| `SessionsAreOwn` | `Spec => []SessionsAreReal` |
| `Refinement` | `Spec => ImplementsAccountsSpec` |

Its `IInv` says of every open transaction what the index makes true: the rows
committed and those not yet committed never share an email, the row of a
transaction is that of its request (`RowsAreRequests`), and it is complete, with
its portfolio, before it may commit. `RequestsInOrder` ties the step of a handler
to that of the browser it answers.

`ServerProofs` proves, for any workers, carriers, requests, clients, order of
secrets and deployments:

| Theorem | States |
|---|---|
| `TypeCorrect` | `Spec => []TypeOK` |
| `Agreement` | `Spec => []WorkersAgree` |
| `Completeness` | `Spec => []SecretsComplete` |
| `NoLeakedTrace` | `Spec => []TraceIsOwn` |
| `Refinement` | `Spec => ImplementsOnce` |

`BootInv` follows the secrets resolved so far: those before `turn` are where the
deployment says (`Chosen`), and nothing that a working Vault holds is looked for
elsewhere (`FallbackIsForced`), because the second try always has a fresh token
(`TokenIsFresh`); a boot that
`failed` wanted a secret nobody has (`FailedForWant`), and one the SDK ended is
neither `up` nor `failed`. `RunInv` has the context (`ContextIsOwn`), the lines in the
queue (`LogIsOwn`) and the lock (`OneBuilder`: who is about to build holds the
lock and nobody has built). The assumptions are `SettingsAssumption` and
`ProcessAssumption`: at least one secret is asked for, and the values that stand
for nothing are none of the others.

`TabProofs` proves, for any users, views, sockets, keys and entries:

| Theorem | States |
|---|---|
| `TypeCorrect` | `Spec => []TypeOK` |
| `OneStream` | `Spec => []OneConnection` |
| `CleanUnmount` | `Spec => []NothingLeftBehind` |
| `HonestBadge` | `Spec => []BadgeIsTrue` |

from `PortfolioStreamAssumption` (the values that stand for nothing are none of
the others). The key is `Attached`: whatever is alive and not of a stale view is
in `socketRef` of the page on screen, and its timer in `reconnectTimeoutRef`. It
needs `ClosedByCleanup` (a socket that a cleanup closed has an unmounted view, so
its close handler returns early, or a stale one), `Mounted` (the cleanup runs only
when the page is left or the effect runs again in the same handler), `Accounted`
and `NoneWithoutData` (the effect has not run before the portfolio's id is known).
`EffectInv` is the effect itself, for whatever the handler has left; `RunAgainInv`
and `ShowInv` bring a changed id to it: if a socket was connected the view turns
stale, and if only a timer was pending the cleanup stops it and nothing is left
over. `SameSocketsInv` covers every handler that moves no socket.

`ConsumerProofs` proves, for any number of handlers, sockets and entries, any
capacity of the channel layer, any length of the history and any number of frames
waiting:

| Theorem | States |
|---|---|
| `TypeCorrect` | `Spec => []TypeOK` |
| `OnlyOwner` | `Spec => []OnlyOwnerIsTold` |
| `HistoryFirst` | `Spec => []HistoryComesFirst` |
| `CommittedBroadcasts` | `Spec => []BroadcastsAreCommitted` |
| `GapFree` | `Spec => []NoGap` |

from `PortfolioConsumerAssumption` (a queue holds at least one message). Its
`IInv` has `AuthOnce` (membership, queue and messages imply that the owner's frame
let the socket in, and no later frame replaces that one), `Greeted` (nothing is
sent before the history, and a consumer that is open and let in has sent it),
`BroadcastsInOrder` (the payload under way is committed and read in order) and
`QueuesBounded` (so what does not fit is counted as missed). `NoGap` needs
`NoGapAhead`: from the moment the socket is in the group, whatever is committed is
`Coming`, still to be told or lost; and between the query of the history and its
sending, every trade is `Coming`, in the list, or older than a full list
(`NothingLeftOut`). It holds because the group is joined before the query: an entry
committed after that is broadcast to a member (`CommittedIsComing`, `EntryBefore`),
it stays on its way until it is told (`ComingKept`), and one that leaves the queue
is told (`HandledIsTold`). `GreetEntered` is the step that reads the list.

`TokenProofs` proves, for any finite number of requests at a time, any number of
pairs, any resolution of the clock, any day and lifetimes:

| Theorem | States |
|---|---|
| `TypeCorrect` | `Spec => []TypeOK` |
| `DenialLasts` | `Spec => []DenialOutlivesToken` |
| `RevokedRefused` | `Spec => RevokedIsRefused` |
| `CutoffLasts` | `Spec => CutoffOutlivesTokens` |

from `TokenAuthAssumption`: durations are positive, the cutoff's TTL is no
shorter than a refresh token's life or a day (`token_denylist.py:38` sets it to the
seven days a refresh token lives), and the requests served at a time are finitely many, which the
bound on pairs needs (`RoomKept` counts those about to mint one). In its `IInv`,
`DeniedLongEnough` and `CutoffLongEnough` say how long Redis has been told to keep
a key; they follow from `RequestsInOrder` (a request's clock reading is not in the
future, whole seconds or not) by `RemainingLife` and `CutoffLife`. `BlockedAhead`
and `LateIsRevoked` carry a revocation through the two steps between which it is
answered or asked for. `CutoffOutlivesTokens` also needs `PairsDated`: an access
token ends at the midnight after its issue.

Only model-checked is liveness, which is out of the prover's reach:
`SilentSocketsEnd`, `EverySubmitEnds`, `Recovers`, `Converges`,
`ButtonsComeBack`, `BootEnds`. The four violations are shown by TLC on one instance
each, which is all a counterexample needs.

## Not modelled

* In-place edits by staff: they write no history, by design.
* `list_trades`, health probes, routing and the proxy: no state.
* The trade-history query (`useTradeHistory`), a second query of the shape of the
  portfolio's that no stream writes to.
* `lib/apiClient`, which attaches the token and handles a 401, is not in the
  repository; the client never calls `refresh`.
* The simulated market feed, the brokerage pages and the views of the client.
* The layout and the levels of log lines, hashing of passwords, the JSON of
  broker calls.

## Plan

Every safety property of the runs is proved. What is left: the converse of
finding 1 (by how much at most a balance exceeds its history); `LedgerSpec`'s own invariants, derived once at the abstract level; and the
hazards that have no property yet (`PROJECT.json`), two refreshes with one token
and two logout-alls first.

## Running

    tlc -workers 2 -config LedgerSafety.cfg MCLedger.tla
    tlapm LedgerProofs.tla
    tlapm BrokerProofs.tla

and so on for the other configurations (each names its module in the table of
`PROJECT.json`) and proof modules.
