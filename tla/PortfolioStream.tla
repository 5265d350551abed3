--------------------------- MODULE PortfolioStream ---------------------------
(***************************************************************************)
(* The hook usePortfolioStream() of the web client: the sockets it opens,  *)
(* its reconnect timers, and the portfolio it writes to the query cache.   *)
(* A view is one mounted instance of a page (Dashboard or Portfolio) with  *)
(* its own refs; its closures outlive it, so the close event of a socket   *)
(* may find its view gone, or its effect run anew for another portfolio.   *)
(* The browser runs one handler at a time: each action is one, with the    *)
(* effects it leads to.  Delays are not timed: a pending timer may fire at *)
(* once or late.  The hook is that of a production build, whose effects    *)
(* run once per change of their inputs (StrictMode runs them twice when a  *)
(* page mounts, under the dev server).                                     *)
(***************************************************************************)
EXTENDS Naturals, Sequences

CONSTANTS
  Users,       \* who may log in; each has one portfolio, known by its owner
  NoUser,
  Views,       \* mounted instances of a page; reused once nothing refers to them
  NoView,      \* no page with the hook is on screen
  Sockets,     \* WebSocket objects; reused once closed and their timer is done
  NoSocket,
  NoData,      \* the query cache has no portfolio yet
  History,     \* the "trade_history" message
  MaxVersion,  \* bound: entries committed
  MaxInbox     \* bound: messages on their way to one socket

\* A portfolio as a response or an update shows it: whose it is, and the number
\* of entries its balance and its positions account for (they are read one
\* after the other).
Portfolio == [of: Users, cash: 0..MaxVersion, held: 0..MaxVersion]

ASSUME PortfolioStreamAssumption ==
  /\ NoUser \notin Users
  /\ NoView \notin Views
  /\ NoSocket \notin Sockets
  /\ NoData \notin Portfolio
  /\ History \notin Portfolio
  /\ MaxVersion \in Nat
  /\ MaxInbox \in Nat

VARIABLES
  page,       \* the view on screen
  hook,       \* each view's refs and status
  sock,       \* each socket, or the timer its close has set
  up,         \* the server can be reached; when not, connections break
  user,       \* whose access token the client holds, or held last
  valid,      \* that token is still accepted
  portfolio   \* the query cache's portfolio

streamVars == <<page, hook, sock, up, user, valid, portfolio>>
login == <<user, valid>>

\* In socket state "open" the handshake is done and the auth message sent; in
\* "joined" the server has accepted it; "waiting" is a closed socket whose
\* close handler has set the reconnect timer.  of and by are the portfolioId
\* and the accessToken of the closure.
Connected == {"connecting", "open", "joined"}
Hook ==
  [socket: Sockets \cup {NoSocket}, timer: Sockets \cup {NoSocket},
   unmounted: BOOLEAN, status: {"connecting", "open", "closed"}, stale: BOOLEAN]
Socket ==
  [state: Connected \cup {"none", "closing", "waiting"},
   view: Views \cup {NoView}, of: Users \cup {NoUser}, by: Users \cup {NoUser},
   inbox: Seq(Portfolio \cup {History})]

\* stale only records that the effect ran again while a socket of its earlier
\* run was connected.
NewHook ==
  [socket |-> NoSocket, timer |-> NoSocket, unmounted |-> FALSE,
   status |-> "connecting", stale |-> FALSE]
\* The refs of a view that has gone: only isUnmountedRef is read again.
Gone(refs) ==
  [socket |-> NoSocket, timer |-> NoSocket, unmounted |-> TRUE,
   status |-> "closed", stale |-> refs.stale]

NoObject == [state |-> "none", view |-> NoView, of |-> NoUser, by |-> NoUser, inbox |-> <<>>]
Opening(v, of, by) ==
  [state |-> "connecting", view |-> v, of |-> of, by |-> by, inbox |-> <<>>]
\* A socket that will bring no further message.
Emptied(socket, state) == [socket EXCEPT !.state = state, !.inbox = <<>>]

StreamInit ==
  /\ page = NoView
  /\ hook = [v \in Views |-> NewHook]
  /\ sock = [s \in Sockets |-> NoObject]
  /\ up = TRUE
  /\ user \in Users
  /\ valid = TRUE
  /\ portfolio = NoData

-----------------------------------------------------------------------------
\* What connect() leaves in the refs; nobody reads those of a view that has gone.
Connecting(refs, s) ==
  IF refs.unmounted THEN refs ELSE [refs EXCEPT !.socket = s, !.status = "connecting"]

\* Faulty variant: the cleanup closes the socket but forgets the timer.
CleanedUpKeepsTimer(refs, objects) ==
  [s \in Sockets |->
     IF s = refs.socket /\ objects[s].state \in Connected
     THEN Emptied(objects[s], "closing")
     ELSE objects[s]]

\* The cleanup.  close() delivers no further message; the close event comes later.
CleanedUp(refs, objects) ==
  [s \in Sockets |->
     IF s = refs.timer /\ objects[s].state = "waiting" THEN NoObject
     ELSE IF s = refs.socket /\ objects[s].state \in Connected
     THEN Emptied(objects[s], "closing")
     ELSE objects[s]]

\* The effect of view v runs for the portfolio of one user, whichever objects
\* and hooks the handler has left: isUnmountedRef is reset and connect() called.
RunEffect(v, of, objects, hooks) ==
  LET unused == {s \in Sockets : objects[s].state = "none"}
      socket == CHOOSE s \in unused : TRUE
  IN  /\ unused # {}
      /\ sock' = [objects EXCEPT ![socket] = Opening(v, of, user)]
      /\ hook' = [hooks EXCEPT ![v] = Connecting([@ EXCEPT !.unmounted = FALSE], socket)]

\* The effect runs anew: first the cleanup of the run before, if there was one.
RunAgain(v, of, objects, hooks) ==
  LET refs == hooks[v]
      live == refs.socket # NoSocket /\ objects[refs.socket].state \in Connected
  IN  RunEffect(v, of, CleanedUp(refs, objects),
                [hooks EXCEPT ![v].stale = @ \/ live])

\* The cached portfolio is replaced.  If that changes its id, the effect of the
\* page on screen depends on it and runs.
Show(shown, objects, hooks) ==
  /\ portfolio' = shown
  /\ IF page # NoView /\ (portfolio = NoData \/ portfolio.of # shown.of)
     THEN RunAgain(page, shown.of, objects, hooks)
     ELSE sock' = objects /\ hook' = hooks

\* A page mounts; its effect connects if the cache knows a portfolio's id, be it
\* that of the user before.
Mount(v) ==
  /\ page = NoView
  /\ \A s \in Sockets : sock[s].view # v
  /\ page' = v
  /\ IF portfolio = NoData
     THEN hook' = [hook EXCEPT ![v] = NewHook] /\ UNCHANGED sock
     ELSE RunEffect(v, portfolio.of, sock, [hook EXCEPT ![v] = NewHook])
  /\ UNCHANGED <<up, login, portfolio>>

\* The page is left, or a logout clears the token and RequireAuth redirects:
\* the cleanup, if the effect has run.
Unmount ==
  /\ page # NoView
  /\ page' = NoView
  /\ IF hook[page].socket = NoSocket
     THEN UNCHANGED <<hook, sock>>
     ELSE /\ hook' = [hook EXCEPT ![page] = Gone(@)]
          /\ sock' = CleanedUp(hook[page], sock)
  /\ UNCHANGED <<up, login, portfolio>>

Closed(s) == hook' = [hook EXCEPT ![sock[s].view].status = "closed"]
ClosedAndWaits(s) ==
  /\ hook' = [hook EXCEPT ![sock[s].view].status = "closed", ![sock[s].view].timer = s]
  /\ sock' = [sock EXCEPT ![s] = Emptied(@, "waiting")]

\* Faulty variants: the handler reconnects whether or not the view is gone;
\* it does not tell the badge; it gives up after a failed handshake.
OnCloseAlways(s) == ClosedAndWaits(s)
OnCloseSilent(s) ==
  IF hook[sock[s].view].unmounted
  THEN sock' = [sock EXCEPT ![s] = NoObject] /\ UNCHANGED hook
  ELSE /\ hook' = [hook EXCEPT ![sock[s].view].timer = s]
       /\ sock' = [sock EXCEPT ![s] = Emptied(@, "waiting")]
OnCloseGivesUp(s) ==
  IF hook[sock[s].view].unmounted \/ sock[s].state = "connecting"
  THEN Closed(s) /\ sock' = [sock EXCEPT ![s] = NoObject]
  ELSE ClosedAndWaits(s)

\* The close handler: a timer, unless the view is gone.  It cannot tell that its
\* own run of the effect was cleaned up, once another has reset isUnmountedRef.
OnClose(s) ==
  IF hook[sock[s].view].unmounted
  THEN Closed(s) /\ sock' = [sock EXCEPT ![s] = NoObject]
  ELSE ClosedAndWaits(s)

\* The open handler sends the access token.
Open(s) ==
  /\ sock[s].state = "connecting"
  /\ up
  /\ sock' = [sock EXCEPT ![s].state = "open"]
  /\ UNCHANGED <<page, hook, up, login, portfolio>>

\* The server accepts a token of the portfolio's owner and sends the history.
\* The token of a closure whose page is gone may be an old one, good or not.
Join(s) ==
  /\ sock[s].state = "open"
  /\ up
  /\ sock[s].of = sock[s].by
  /\ sock[s].view = page => valid
  /\ sock' = [sock EXCEPT ![s].state = "joined", ![s].inbox = <<History>>]
  /\ UNCHANGED <<page, hook, up, login, portfolio>>

\* The close event: of a connection that broke, of one the server refused for
\* its token (4401) or its portfolio (4403), or of one the cleanup closed.
Close(s) ==
  /\ \/ sock[s].state \in Connected /\ ~up
     \/ sock[s].state = "open" /\ up /\ (~valid \/ sock[s].view # page)
     \/ sock[s].state = "open" /\ up /\ sock[s].of # sock[s].by
     \/ sock[s].state = "closing"
  /\ OnClose(s)
  /\ UNCHANGED <<page, up, login, portfolio>>

\* The timer runs connect(), with the closure of the socket that set it.
Reconnect(s) ==
  /\ sock[s].state = "waiting"
  /\ sock' = [sock EXCEPT ![s].state = "connecting"]
  /\ hook' = [hook EXCEPT ![sock[s].view] = Connecting(@, s)]
  /\ UNCHANGED <<page, up, login, portfolio>>

\* Any message means the stream is open; an update replaces the cached
\* portfolio, the history is ignored.
Receive(s) ==
  LET objects == [sock EXCEPT ![s].inbox = Tail(@)]
      hooks == [hook EXCEPT ![sock[s].view].status = "open"]
  IN  /\ sock[s].state = "joined"
      /\ sock[s].inbox # <<>>
      /\ IF Head(sock[s].inbox) = History
         THEN sock' = objects /\ hook' = hooks /\ UNCHANGED portfolio
         ELSE Show(Head(sock[s].inbox), objects, hooks)
      /\ UNCHANGED <<page, up, login>>

\* The server sends an update to every socket that has joined the portfolio; the
\* channel layer drops it for one whose queue is full.
Deliver(update) ==
  sock' = [s \in Sockets |->
             IF /\ sock[s].state = "joined" /\ sock[s].of = update.of
                /\ Len(sock[s].inbox) < MaxInbox
             THEN [sock[s] EXCEPT !.inbox = Append(@, update)]
             ELSE sock[s]]

\* The network or the server goes away and comes back.
Outage == up' = ~up /\ UNCHANGED <<page, hook, sock, login, portfolio>>

\* The token expires or is revoked; a login, perhaps of another user, brings
\* a new one.  The query cache survives both.
Expire == valid /\ valid' = FALSE /\ UNCHANGED <<page, hook, sock, up, user, portfolio>>
Login(u) ==
  /\ page = NoView
  /\ ~valid \/ u # user
  /\ user' = u
  /\ valid' = TRUE
  /\ UNCHANGED <<page, hook, sock, up, portfolio>>

SocketStep(s) == Open(s) \/ Join(s) \/ Close(s) \/ Reconnect(s) \/ Receive(s)

-----------------------------------------------------------------------------
StreamTypeOK ==
  /\ page \in Views \cup {NoView}
  /\ hook \in [Views -> Hook]
  /\ sock \in [Sockets -> Socket]
  /\ up \in BOOLEAN
  /\ user \in Users
  /\ valid \in BOOLEAN
  /\ portfolio \in Portfolio \cup {NoData}

\* A socket that is connected, or whose timer will connect again.
Busy(s) == sock[s].state \in Connected \cup {"waiting"}

\* One of a page whose effect never ran again over a live connection.
Steady(s) == Busy(s) /\ ~hook[sock[s].view].stale

\* A second connection has one cause only, an effect that runs again while its
\* socket is connected (the cached id changes under a page): whatever else
\* fails, and whichever views and users follow each other, the pages that were
\* spared that have one socket or one timer between them.
OneConnection ==
  \A s, t \in Sockets : Steady(s) /\ Steady(t) => s = t

\* Such a page, once left, has no socket and no timer behind it, however the
\* close events and the timers fall, and whatever the sockets of other pages do:
\* what lives is in the refs of the page on screen, where its cleanup finds it.
NothingLeftBehind ==
  \A s \in Sockets :
    Steady(s) =>
      /\ page # NoView
      /\ sock[s].view = page
      /\ ~hook[page].unmounted
      /\ IF sock[s].state = "waiting" THEN hook[page].timer = s ELSE hook[page].socket = s

\* The "Connected" badge is shown only over a stream the server has joined to
\* a portfolio's group for this page.
BadgeIsTrue ==
  page # NoView /\ hook[page].status = "open" =>
    \E s \in Sockets : sock[s].view = page /\ sock[s].state = "joined"

\* Once the server is there, the token is good and a page with its user's
\* portfolio stays on screen, the stream opens and stays open, whatever failed
\* before and whatever sockets earlier pages have left; but for a page whose
\* effect ran again over a live connection.
Recovers ==
  <>[](/\ up /\ valid
       /\ page # NoView /\ ~hook[page].stale
       /\ portfolio # NoData /\ portfolio.of = user)
    => <>[](page # NoView /\ hook[page].status = "open")

\* "Opens the portfolio WebSocket": a tab has one at a time, or one timer.
OneWebSocket ==
  \A s, t \in Sockets : Busy(s) /\ Busy(t) => s = t
=============================================================================
