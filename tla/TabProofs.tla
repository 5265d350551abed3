----------------------------- MODULE TabProofs -----------------------------
(***************************************************************************)
(* Proofs about PortfolioStream and TradingTab, for any number of users,   *)
(* page views, sockets, keys and entries.  The inductive invariant ties    *)
(* every socket that is alive to the refs of the page on screen, which is  *)
(* where the cleanup of the effect looks, unless its page was made stale   *)
(* by an effect that ran again over a live connection.                     *)
(***************************************************************************)
EXTENDS TradingTab, TLAPS

\* But for stale pages, what is alive is the socket in socketRef of the page on
\* screen, and what waits is its timer.
Attached ==
  \A s \in Sockets :
    Steady(s) =>
      /\ page # NoView
      /\ sock[s].view = page
      /\ ~hook[page].unmounted
      /\ hook[page].socket = s
      /\ sock[s].state = "waiting" => hook[page].timer = s

\* The cleanup runs only when the page is left or the effect runs again at once.
Mounted == page # NoView => ~hook[page].unmounted

\* A socket that was closed by a cleanup belongs to a view that is gone, or that
\* the cleanup of a second run has made stale.
ClosedByCleanup ==
  \A s \in Sockets :
    sock[s].state = "closing" =>
      hook[sock[s].view].unmounted \/ hook[sock[s].view].stale

Accounted ==
  \A s \in Sockets :
    IF sock[s].state = "none" THEN sock[s] = NoObject ELSE sock[s].view \in Views

\* The effect runs only with a portfolio.
NoneWithoutData == portfolio = NoData => \A s \in Sockets : sock[s] = NoObject

StreamInv ==
  /\ StreamTypeOK
  /\ Attached
  /\ Mounted
  /\ ClosedByCleanup
  /\ Accounted
  /\ NoneWithoutData
  /\ BadgeIsTrue

LEMMA StreamInitInv == StreamInit => StreamInv
<1> SUFFICES ASSUME StreamInit PROVE StreamInv
  OBVIOUS
<1>1. StreamTypeOK
  BY PortfolioStreamAssumption
     DEF StreamInit, StreamTypeOK, NewHook, NoObject, Hook, Socket
<1> QED
  BY <1>1 DEF StreamInit, StreamInv, Attached, Mounted, ClosedByCleanup, Accounted,
     NoneWithoutData, BadgeIsTrue, NoObject, Steady, Busy, Connected

LEMMA StreamStutter == StreamInv /\ UNCHANGED streamVars => StreamInv'
BY DEF streamVars, StreamInv, StreamTypeOK, Attached, Mounted,
       ClosedByCleanup, Accounted, NoneWithoutData, BadgeIsTrue, Steady, Busy

\* The values the handlers build have their types.
LEMMA HookTypes ==
  /\ NewHook \in Hook /\ ~NewHook.unmounted /\ ~NewHook.stale
  /\ NewHook.status = "connecting"
  /\ \A refs \in Hook :
       Gone(refs) \in Hook /\ Gone(refs).unmounted /\ Gone(refs).stale = refs.stale
BY DEF NewHook, Gone, Hook

LEMMA ConnectingTypes ==
  ASSUME NEW refs \in Hook, NEW s \in Sockets, NEW r,
         r = Connecting([refs EXCEPT !.unmounted = FALSE], s)
  PROVE  /\ r \in Hook
         /\ r.socket = s /\ ~r.unmounted /\ r.status = "connecting"
         /\ r.stale = refs.stale
<1> DEFINE mounted == [refs EXCEPT !.unmounted = FALSE]
<1>1. mounted \in Hook /\ ~mounted.unmounted /\ mounted.stale = refs.stale
  BY DEF Hook
<1> HIDE DEF mounted
<1>2. r = [mounted EXCEPT !.socket = s, !.status = "connecting"]
  BY <1>1 DEF Connecting, mounted
<1> QED
  BY <1>1, <1>2 DEF Hook

LEMMA SocketTypes ==
  /\ NoObject \in Socket /\ NoObject.state = "none"
  /\ \A v \in Views, of \in Users, by \in Users :
       /\ Opening(v, of, by) \in Socket
       /\ Opening(v, of, by).state = "connecting" /\ Opening(v, of, by).view = v
  /\ \A o \in Socket :
       \A st \in {"closing", "waiting"} :
         /\ Emptied(o, st) \in Socket
         /\ Emptied(o, st).state = st /\ Emptied(o, st).view = o.view
<1>1. <<>> \in Seq(Portfolio \cup {History})
  OBVIOUS
<1> HIDE DEF Portfolio
<1> QED
  BY <1>1 DEF NoObject, Opening, Socket, Connected, Emptied

\* An effect that runs connects the one socket that is alive and not stale.
LEMMA EffectInv ==
  ASSUME NEW v \in Views, NEW of \in Users,
         NEW objects \in [Sockets -> Socket], NEW hooks \in [Views -> Hook],
         RunEffect(v, of, objects, hooks),
         \A s \in Sockets :
           IF objects[s].state = "none" THEN objects[s] = NoObject
           ELSE objects[s].view \in Views,
         \A s \in Sockets :
           objects[s].state \in Connected \cup {"waiting"} => hooks[objects[s].view].stale,
         \A s \in Sockets :
           objects[s].state = "closing" =>
             \/ hooks[objects[s].view].stale
             \/ objects[s].view # v /\ hooks[objects[s].view].unmounted,
         page' = v, user \in Users, user' = user, portfolio' \in Portfolio,
         up' \in BOOLEAN, valid' \in BOOLEAN
  PROVE  StreamInv'
<1> USE PortfolioStreamAssumption
<1> DEFINE unused == {s \in Sockets : objects[s].state = "none"}
           socket == CHOOSE s \in unused : TRUE
           refs == Connecting([hooks[v] EXCEPT !.unmounted = FALSE], socket)
<1>1. unused # {} /\ socket \in unused
  BY DEF RunEffect
<1>2. /\ sock' = [objects EXCEPT ![socket] = Opening(v, of, user)]
      /\ hook' = [hooks EXCEPT ![v] = refs]
  BY DEF RunEffect
<1>3. PICK s \in Sockets : s = socket
  BY <1>1
<1> HIDE DEF unused, socket
<1>4. /\ refs \in Hook
      /\ refs.socket = s /\ ~refs.unmounted /\ refs.status = "connecting"
      /\ refs.stale = hooks[v].stale
  BY <1>3, ConnectingTypes
<1> HIDE DEF refs
<1>5. /\ hook' \in [Views -> Hook]
      /\ hook'[v] = refs
      /\ \A w \in Views : w # v => hook'[w] = hooks[w]
      /\ \A w \in Views : hook'[w].stale = hooks[w].stale
  BY <1>2, <1>4
<1>6. /\ sock' \in [Sockets -> Socket]
      /\ sock'[s].state = "connecting" /\ sock'[s].view = v
      /\ \A t \in Sockets : t # s => sock'[t] = objects[t]
  BY <1>2, <1>3, SocketTypes
<1>7. StreamTypeOK'
  BY <1>5, <1>6 DEF StreamTypeOK
<1>8. \A t \in Sockets : t # s => ~Steady(t)'
  <2>1. SUFFICES ASSUME NEW t \in Sockets, t # s, Busy(t)'
                 PROVE  hook'[sock'[t].view].stale
    BY DEF Steady
  <2>2. objects[t].state \in Connected \cup {"waiting"} /\ sock'[t] = objects[t]
    BY <1>6, <2>1 DEF Busy
  <2>3. objects[t].view \in Views
    BY <2>2 DEF Connected
  <2> QED
    BY <1>5, <2>2, <2>3
<1>9. Attached' /\ Mounted'
  BY <1>4, <1>5, <1>6, <1>8 DEF Attached, Mounted
<1>10. ClosedByCleanup'
  BY <1>5, <1>6 DEF ClosedByCleanup
<1>11. Accounted' /\ NoneWithoutData'
  BY <1>6 DEF Accounted, NoneWithoutData
<1>12. BadgeIsTrue'
  BY <1>4, <1>5 DEF BadgeIsTrue
<1> QED
  BY <1>7, <1>9, <1>10, <1>11, <1>12 DEF StreamInv

LEMMA MountInv ==
  ASSUME StreamInv, NEW v \in Views, Mount(v)
  PROVE  StreamInv'
<1> USE DEF StreamInv, StreamTypeOK, Mount
<1> DEFINE hooks == [hook EXCEPT ![v] = NewHook]
<1>1. /\ hooks \in [Views -> Hook] /\ hooks[v] = NewHook
      /\ \A w \in Views : w # v => hooks[w] = hook[w]
  BY HookTypes
<1> HIDE DEF hooks
<1>2. \A s \in Sockets : ~Steady(s) /\ sock[s].view # v
  BY DEF Attached
<1>3. \A s \in Sockets : sock[s].state # "none" => hooks[sock[s].view] = hook[sock[s].view]
  BY <1>1, <1>2 DEF Accounted
<1>4. CASE portfolio = NoData
  <2>1. hook' = hooks /\ sock' = sock /\ page' = v /\ portfolio' = portfolio
    BY <1>4 DEF hooks
  <2>2. \A s \in Sockets : sock[s] = NoObject
    BY <1>4 DEF NoneWithoutData
  <2>3. StreamTypeOK' /\ Accounted' /\ NoneWithoutData'
    BY <1>1, <2>1 DEF Accounted, NoneWithoutData, login
  <2>4. Attached' /\ Mounted' /\ ClosedByCleanup'
    BY <1>1, <2>1, <2>2, HookTypes, SocketTypes
       DEF Attached, Mounted, ClosedByCleanup, Steady, Busy, Connected
  <2>5. BadgeIsTrue'
    BY <1>1, <2>1, HookTypes DEF BadgeIsTrue
  <2> QED
    BY <2>3, <2>4, <2>5
<1>5. CASE portfolio # NoData
  <2>1. RunEffect(v, portfolio.of, sock, hooks)
    BY <1>5 DEF hooks
  <2>2. portfolio.of \in Users
    BY <1>5 DEF Portfolio
  <2>3. \A s \in Sockets :
          sock[s].state \in Connected \cup {"waiting"} => hooks[sock[s].view].stale
    BY <1>2, <1>3 DEF Steady, Busy, Connected
  <2>4. \A s \in Sockets :
          sock[s].state = "closing" =>
            \/ hooks[sock[s].view].stale
            \/ sock[s].view # v /\ hooks[sock[s].view].unmounted
    BY <1>2, <1>3 DEF ClosedByCleanup
  <2> QED
    BY <1>1, <1>5, <2>1, <2>2, <2>3, <2>4, EffectInv DEF Accounted, login
<1> QED
  BY <1>4, <1>5

\* What the cleanup does to each object.
LEMMA CleanupCases ==
  ASSUME NEW objects \in [Sockets -> Socket], NEW refs \in Hook, NEW s \in Sockets
  PROVE  \/ /\ s = refs.timer /\ objects[s].state = "waiting"
            /\ CleanedUp(refs, objects)[s] = NoObject
         \/ /\ s = refs.socket /\ objects[s].state \in Connected
            /\ CleanedUp(refs, objects)[s] \in Socket
            /\ CleanedUp(refs, objects)[s].state = "closing"
            /\ CleanedUp(refs, objects)[s].view = objects[s].view
         \/ /\ ~(s = refs.timer /\ objects[s].state = "waiting")
            /\ ~(s = refs.socket /\ objects[s].state \in Connected)
            /\ CleanedUp(refs, objects)[s] = objects[s]
BY SocketTypes DEF CleanedUp, Connected

LEMMA UnmountInv ==
  ASSUME StreamInv, Unmount
  PROVE  StreamInv'
<1> USE PortfolioStreamAssumption DEF StreamInv, StreamTypeOK, Unmount
<1>1. CASE hook[page].socket = NoSocket
  <2>1. \A s \in Sockets : ~Steady(s)
    BY <1>1 DEF Attached
  <2>2. \A s \in Sockets : ~Steady(s)'
    BY <1>1, <2>1 DEF Steady, Busy
  <2> QED
    BY <1>1, <2>2 DEF Attached, Mounted, ClosedByCleanup, Accounted,
                      NoneWithoutData, BadgeIsTrue, login
<1>2. CASE hook[page].socket # NoSocket
  <2>1. /\ page \in Views /\ hook' \in [Views -> Hook]
        /\ hook'[page].unmounted
        /\ \A v \in Views : v # page => hook'[v] = hook[v]
        /\ \A v \in Views : hook'[v].stale = hook[v].stale
    BY <1>2, HookTypes
  <2>2. /\ sock' = CleanedUp(hook[page], sock)
        /\ page' = NoView /\ portfolio' = portfolio
        /\ UNCHANGED <<up, user, valid>>
    BY <1>2 DEF login
  <2> HIDE DEF Unmount
  <2>3. \A s \in Sockets :
          \/ /\ s = hook[page].timer /\ sock[s].state = "waiting"
             /\ sock'[s] = NoObject
          \/ /\ s = hook[page].socket /\ sock[s].state \in Connected
             /\ sock'[s] \in Socket
             /\ sock'[s].state = "closing" /\ sock'[s].view = sock[s].view
          \/ /\ ~(s = hook[page].timer /\ sock[s].state = "waiting")
             /\ ~(s = hook[page].socket /\ sock[s].state \in Connected)
             /\ sock'[s] = sock[s]
    BY <2>1, <2>2, CleanupCases
  <2>4. sock' \in [Sockets -> Socket]
    <3>1. \A s \in Sockets : sock'[s] \in Socket
      BY <2>3, SocketTypes
    <3> QED
      BY <2>2, <3>1 DEF CleanedUp
  <2>5. StreamTypeOK'
    BY <2>1, <2>2, <2>4
  <2>6. \A s \in Sockets : ~Steady(s)'
    <3>1. SUFFICES ASSUME NEW s \in Sockets, Busy(s)' PROVE hook'[sock'[s].view].stale
      BY DEF Steady
    <3>2. sock'[s] = sock[s] /\ Busy(s)
      BY <2>3, <3>1, SocketTypes DEF Busy, Connected
    <3>3. ~Steady(s)
      BY <2>3, <3>2, SocketTypes DEF Attached, Steady, Busy, Connected
    <3>4. sock[s].view \in Views
      BY <3>2 DEF Accounted, Busy, Connected
    <3> QED
      BY <2>1, <3>2, <3>3, <3>4 DEF Steady
  <2>7. Attached' /\ Mounted' /\ BadgeIsTrue'
    BY <2>2, <2>6 DEF Attached, Mounted, BadgeIsTrue
  <2>8. Accounted' /\ NoneWithoutData'
    BY <2>2, <2>3, SocketTypes DEF Accounted, NoneWithoutData, Connected
  <2>9. ClosedByCleanup'
    <3>1. SUFFICES ASSUME NEW s \in Sockets, sock'[s].state = "closing"
                   PROVE  hook'[sock'[s].view].unmounted \/ hook'[sock'[s].view].stale
      BY DEF ClosedByCleanup
    <3>2. sock'[s].view = sock[s].view /\ sock[s].state \in Connected \cup {"closing"}
      BY <2>3, <3>1, SocketTypes
    <3>3. sock[s].view \in Views
      BY <3>2 DEF Accounted, Connected
    <3>4. CASE sock[s].state = "closing"
      BY <2>1, <3>2, <3>3, <3>4 DEF ClosedByCleanup
    <3>5. CASE Steady(s)
      BY <2>1, <3>2, <3>5 DEF Attached
    <3>6. CASE sock[s].state \in Connected /\ ~Steady(s)
      BY <2>1, <3>2, <3>3, <3>6 DEF Steady, Busy
    <3> QED
      BY <3>2, <3>4, <3>5, <3>6
  <2> QED
    BY <2>5, <2>7, <2>8, <2>9
<1> QED
  BY <1>1, <1>2

\* A handler that leaves every socket where it is, but for its messages and for
\* how far its handshake has come.
LEMMA SameSocketsInv ==
  ASSUME StreamInv, UNCHANGED <<page, up, user, valid>>,
         portfolio' \in Portfolio \cup {NoData},
         portfolio' = NoData => portfolio = NoData /\ UNCHANGED sock,
         hook' \in [Views -> Hook], sock' \in [Sockets -> Socket],
         \A v \in Views :
           /\ hook'[v].socket = hook[v].socket /\ hook'[v].timer = hook[v].timer
           /\ hook'[v].unmounted = hook[v].unmounted /\ hook'[v].stale = hook[v].stale,
         \A s \in Sockets :
           \/ sock'[s] = sock[s]
           \/ /\ sock[s].state \in Connected /\ sock'[s].state \in Connected
              /\ sock'[s].view = sock[s].view,
         BadgeIsTrue'
  PROVE  StreamInv'
<1> USE DEF StreamInv
<1>1. StreamTypeOK' /\ NoneWithoutData'
  BY DEF StreamTypeOK, NoneWithoutData
<1>2. Accounted'
  BY DEF Accounted, Connected
<1>3. \A s \in Sockets : Steady(s)' => Steady(s) /\ sock'[s].view = sock[s].view
  BY DEF Steady, Busy, Accounted, Connected
<1>4. \A s \in Sockets : sock'[s].state = "waiting" => sock[s].state = "waiting"
  BY DEF Connected
<1>5. Attached' /\ Mounted'
  BY <1>3, <1>4 DEF StreamTypeOK, Attached, Mounted
<1>6. ClosedByCleanup'
  BY DEF Accounted, ClosedByCleanup, Connected
<1> QED
  BY <1>1, <1>2, <1>5, <1>6

\* The effect of the page on screen runs again, the first time included.
LEMMA RunAgainInv ==
  ASSUME StreamInv, page \in Views, NEW of \in Users,
         NEW objects \in [Sockets -> Socket], NEW hooks \in [Views -> Hook],
         \A s \in Sockets :
           \/ objects[s] = sock[s]
           \/ /\ sock[s].state = "joined" /\ objects[s].state = "joined"
              /\ objects[s].view = sock[s].view,
         \A v \in Views :
           /\ hooks[v].socket = hook[v].socket /\ hooks[v].timer = hook[v].timer
           /\ hooks[v].unmounted = hook[v].unmounted /\ hooks[v].stale = hook[v].stale,
         RunAgain(page, of, objects, hooks),
         UNCHANGED <<page, up, user, valid>>, portfolio' \in Portfolio
  PROVE  StreamInv'
<1> USE PortfolioStreamAssumption DEF StreamInv, StreamTypeOK
<1> DEFINE refs == hooks[page]
           live == refs.socket # NoSocket /\ objects[refs.socket].state \in Connected
           cleaned == CleanedUp(refs, objects)
           marked == [hooks EXCEPT ![page].stale = @ \/ live]
<1>1. RunEffect(page, of, cleaned, marked)
  BY DEF RunAgain
<1>2. \A s \in Sockets :
        \/ /\ s = refs.timer /\ objects[s].state = "waiting"
           /\ cleaned[s] = NoObject
        \/ /\ s = refs.socket /\ objects[s].state \in Connected
           /\ cleaned[s] \in Socket
           /\ cleaned[s].state = "closing" /\ cleaned[s].view = objects[s].view
        \/ /\ ~(s = refs.timer /\ objects[s].state = "waiting")
           /\ ~(s = refs.socket /\ objects[s].state \in Connected)
           /\ cleaned[s] = objects[s]
  <2>1. refs \in Hook
    OBVIOUS
  <2> QED
    BY <2>1, CleanupCases
<1>3. cleaned \in [Sockets -> Socket]
  <2>1. \A s \in Sockets : cleaned[s] \in Socket
    BY <1>2, SocketTypes
  <2> QED
    BY <2>1 DEF CleanedUp
<1>4. \A s \in Sockets : objects[s].state = sock[s].state /\ objects[s].view = sock[s].view
  OBVIOUS
<1>5. /\ marked \in [Views -> Hook]
      /\ marked[page].stale <=> hook[page].stale \/ live
      /\ \A v \in Views : marked[v].unmounted = hook[v].unmounted
      /\ \A v \in Views : v # page => marked[v].stale = hook[v].stale
  <2>1. live \in BOOLEAN
    BY DEF live
  <2> HIDE DEF live
  <2> QED
    BY <2>1 DEF Hook
<1>6. refs.socket = hook[page].socket /\ refs.timer = hook[page].timer
  OBVIOUS
<1> HIDE DEF cleaned, marked, refs
<1>7. \A s \in Sockets :
        IF cleaned[s].state = "none" THEN cleaned[s] = NoObject
        ELSE cleaned[s].view \in Views
  BY <1>2, <1>4, SocketTypes DEF Accounted, Connected
<1>8. \A s \in Sockets :
        cleaned[s].state \in Connected \cup {"waiting"} => marked[cleaned[s].view].stale
  <2>1. SUFFICES ASSUME NEW s \in Sockets, cleaned[s].state \in Connected \cup {"waiting"}
                 PROVE  marked[cleaned[s].view].stale
    OBVIOUS
  <2>2. /\ cleaned[s] = objects[s] /\ Busy(s)
        /\ ~(s = refs.timer /\ sock[s].state = "waiting")
        /\ ~(s = refs.socket /\ sock[s].state \in Connected)
    BY <1>2, <1>4, <2>1, SocketTypes DEF Busy, Connected
  <2>3. ~Steady(s)
    BY <1>6, <2>2 DEF Attached, Steady, Busy
  <2>4. sock[s].view \in Views /\ hook[sock[s].view].stale
    BY <2>2, <2>3 DEF Accounted, Steady, Busy, Connected
  <2> QED
    BY <1>4, <1>5, <2>2, <2>4
<1>9. \A s \in Sockets :
        cleaned[s].state = "closing" =>
          \/ marked[cleaned[s].view].stale
          \/ cleaned[s].view # page /\ marked[cleaned[s].view].unmounted
  <2>1. SUFFICES ASSUME NEW s \in Sockets, cleaned[s].state = "closing"
                 PROVE  \/ marked[cleaned[s].view].stale
                        \/ cleaned[s].view # page /\ marked[cleaned[s].view].unmounted
    OBVIOUS
  <2>2. /\ cleaned[s].view = sock[s].view
        /\ \/ sock[s].state = "closing"
           \/ s = refs.socket /\ sock[s].state \in Connected
    BY <1>2, <1>4, <2>1, SocketTypes
  <2>3. sock[s].view \in Views
    BY <2>2 DEF Accounted, Connected
  <2>4. CASE s = refs.socket /\ sock[s].state \in Connected
    <3>1. live
      BY <1>4, <2>4 DEF live
    <3>2. CASE sock[s].view = page
      BY <1>5, <2>2, <3>1, <3>2
    <3>3. CASE sock[s].view # page
      BY <1>5, <2>2, <2>3, <2>4, <3>3 DEF Attached, Steady, Busy
    <3> QED
      BY <3>2, <3>3
  <2>5. CASE sock[s].state = "closing"
    BY <1>5, <2>2, <2>3, <2>5 DEF ClosedByCleanup, Mounted
  <2> QED
    BY <2>2, <2>4, <2>5
<1>10. /\ page' = page /\ user \in Users /\ user' = user
       /\ up' \in BOOLEAN /\ valid' \in BOOLEAN /\ portfolio' \in Portfolio
  OBVIOUS
<1> HIDE DEF StreamInv, StreamTypeOK
<1> QED
  BY <1>1, <1>3, <1>5, <1>7, <1>8, <1>9, <1>10, EffectInv

\* The cache shows another portfolio.
LEMMA ShowInv ==
  ASSUME StreamInv, NEW shown \in Portfolio,
         NEW objects \in [Sockets -> Socket], NEW hooks \in [Views -> Hook],
         \A s \in Sockets :
           \/ objects[s] = sock[s]
           \/ /\ sock[s].state = "joined" /\ objects[s].state = "joined"
              /\ objects[s].view = sock[s].view,
         \A v \in Views :
           /\ hooks[v].socket = hook[v].socket /\ hooks[v].timer = hook[v].timer
           /\ hooks[v].unmounted = hook[v].unmounted /\ hooks[v].stale = hook[v].stale,
         page # NoView /\ hooks[page].status = "open" =>
           \E s \in Sockets : objects[s].view = page /\ objects[s].state = "joined",
         Show(shown, objects, hooks), UNCHANGED <<page, up, user, valid>>
  PROVE  StreamInv'
<1>1. CASE page # NoView /\ (portfolio = NoData \/ portfolio.of # shown.of)
  <2>1. /\ page \in Views /\ shown.of \in Users /\ portfolio' \in Portfolio
        /\ RunAgain(page, shown.of, objects, hooks)
    BY <1>1 DEF Show, StreamInv, StreamTypeOK, Portfolio
  <2> QED
    BY <2>1, RunAgainInv
<1>2. CASE ~(page # NoView /\ (portfolio = NoData \/ portfolio.of # shown.of))
  <2>1. sock' = objects /\ hook' = hooks /\ portfolio' = shown
    BY <1>2 DEF Show
  <2>2. BadgeIsTrue'
    BY <2>1 DEF BadgeIsTrue
  <2>3. portfolio' # NoData
    BY <2>1, PortfolioStreamAssumption
  <2> QED
    BY <2>1, <2>2, <2>3, SameSocketsInv DEF Connected
<1> QED
  BY <1>1, <1>2

LEMMA OpenInv ==
  ASSUME StreamInv, NEW s \in Sockets, Open(s) \/ Join(s)
  PROVE  StreamInv'
<1> USE DEF StreamInv, StreamTypeOK, login
<1>1. <<History>> \in Seq(Portfolio \cup {History})
  OBVIOUS
<1>2. sock' \in [Sockets -> Socket]
  <2>1. CASE Open(s)
    BY <2>1 DEF Open, Socket, Connected
  <2>2. CASE Join(s)
    <3>1. [sock[s] EXCEPT !.state = "joined"] \in Socket
      BY DEF Socket, Connected
    <3>2. [[sock[s] EXCEPT !.state = "joined"] EXCEPT !.inbox = <<History>>] \in Socket
      BY <1>1, <3>1 DEF Socket
    <3> QED
      BY <2>2, <3>2 DEF Join
  <2> QED
    BY <2>1, <2>2
<1>3. \A t \in Sockets :
        \/ sock'[t] = sock[t]
        \/ /\ sock[t].state \in Connected \ {"joined"} /\ sock'[t].state \in Connected
           /\ sock'[t].view = sock[t].view
  BY DEF Open, Join, Socket, Connected
<1>4. BadgeIsTrue'
  BY <1>3 DEF Open, Join, BadgeIsTrue
<1>5. portfolio # NoData
  BY DEF Open, Join, NoneWithoutData, NoObject
<1> QED
  BY <1>2, <1>3, <1>4, <1>5, SameSocketsInv DEF Open, Join

LEMMA ReceiveInv ==
  ASSUME StreamInv, NEW s \in Sockets, Receive(s)
  PROVE  StreamInv'
<1> USE PortfolioStreamAssumption DEF StreamInv, StreamTypeOK
<1> DEFINE objects == [sock EXCEPT ![s].inbox = Tail(@)]
           hooks == [hook EXCEPT ![sock[s].view].status = "open"]
<1>1. /\ sock[s].state = "joined" /\ sock[s].inbox # <<>>
      /\ IF Head(sock[s].inbox) = History
         THEN sock' = objects /\ hook' = hooks /\ UNCHANGED portfolio
         ELSE Show(Head(sock[s].inbox), objects, hooks)
      /\ UNCHANGED <<page, up, user, valid>>
  BY DEF Receive, login
<1>2. /\ Head(sock[s].inbox) \in Portfolio \cup {History}
      /\ Tail(sock[s].inbox) \in Seq(Portfolio \cup {History})
  BY <1>1 DEF Socket
<1>3. sock[s].view \in Views
  BY <1>1 DEF Accounted
<1>4. objects \in [Sockets -> Socket]
  BY <1>2 DEF Socket
<1>5. hooks \in [Views -> Hook]
  BY <1>3 DEF Hook
<1>6. \A t \in Sockets :
        \/ objects[t] = sock[t]
        \/ /\ t = s /\ objects[t].state = "joined"
           /\ objects[t].view = sock[t].view
  BY <1>1 DEF Socket
<1>7. \A v \in Views :
        /\ hooks[v].socket = hook[v].socket /\ hooks[v].timer = hook[v].timer
        /\ hooks[v].unmounted = hook[v].unmounted /\ hooks[v].stale = hook[v].stale
  BY <1>3 DEF Hook
<1>8. \A v \in Views : v # sock[s].view => hooks[v] = hook[v]
  OBVIOUS
<1> HIDE DEF objects, hooks
<1>9. page # NoView /\ hooks[page].status = "open" =>
        \E t \in Sockets : objects[t].view = page /\ objects[t].state = "joined"
  <2>1. \A t \in Sockets : objects[t].view = sock[t].view
    BY <1>6
  <2>2. objects[s].state = "joined"
    BY <1>1, <1>6
  <2>3. CASE page = sock[s].view
    BY <2>1, <2>2, <2>3
  <2>4. CASE page # sock[s].view
    BY <1>6, <1>8, <2>1, <2>4 DEF BadgeIsTrue
  <2> QED
    BY <2>3, <2>4
<1>10. CASE Head(sock[s].inbox) = History
  <2>1. sock' = objects /\ hook' = hooks /\ portfolio' = portfolio
    BY <1>1, <1>10
  <2>2. portfolio # NoData
    BY <1>1 DEF NoneWithoutData, NoObject
  <2>3. BadgeIsTrue'
    BY <1>1, <1>9, <2>1 DEF BadgeIsTrue
  <2> QED
    BY <1>1, <1>4, <1>5, <1>6, <1>7, <2>1, <2>2, <2>3, SameSocketsInv DEF Connected
<1>11. CASE Head(sock[s].inbox) # History
  <2>1. Head(sock[s].inbox) \in Portfolio /\ Show(Head(sock[s].inbox), objects, hooks)
    BY <1>1, <1>2, <1>11
  <2> QED
    BY <1>1, <1>4, <1>5, <1>6, <1>7, <1>9, <2>1, ShowInv
<1> QED
  BY <1>10, <1>11

LEMMA DeliverInv ==
  ASSUME StreamInv, NEW update \in Portfolio, Deliver(update),
         UNCHANGED <<page, hook, up, user, valid, portfolio>>
  PROVE  StreamInv'
<1> USE DEF StreamInv, StreamTypeOK, Deliver
<1>1. \A t \in Sockets :
        Append(sock[t].inbox, update) \in Seq(Portfolio \cup {History})
  BY DEF Socket
<1>2. \A t \in Sockets :
        \/ sock'[t] = sock[t]
        \/ /\ sock[t].state = "joined" /\ sock'[t].state = "joined"
           /\ sock'[t].view = sock[t].view
           /\ sock'[t] \in Socket
  BY <1>1 DEF Socket
<1>3. sock' \in [Sockets -> Socket]
  BY <1>2
<1>4. portfolio = NoData => UNCHANGED sock
  BY <1>2 DEF NoneWithoutData, NoObject
<1>5. BadgeIsTrue'
  BY <1>2 DEF BadgeIsTrue
<1> HIDE DEF Deliver
<1> QED
  BY <1>2, <1>3, <1>4, <1>5, SameSocketsInv DEF Connected

LEMMA CloseInv ==
  ASSUME StreamInv, NEW s \in Sockets, Close(s)
  PROVE  StreamInv'
<1> USE PortfolioStreamAssumption DEF StreamInv, StreamTypeOK
<1> DEFINE view == sock[s].view
<1>1. /\ sock[s].state \in Connected \cup {"closing"} /\ view \in Views
      /\ UNCHANGED <<page, up, user, valid, portfolio>> /\ OnClose(s)
  BY DEF Close, Accounted, Connected, login
<1> HIDE DEF view
<1>2. portfolio # NoData
  BY <1>1 DEF NoneWithoutData, NoObject, Connected
<1>3. CASE hook[view].unmounted
  <2>1. /\ sock' = [sock EXCEPT ![s] = NoObject]
        /\ hook' = [hook EXCEPT ![view].status = "closed"]
    BY <1>1, <1>3 DEF OnClose, Closed, view
  <2>2. /\ hook' \in [Views -> Hook] /\ hook'[view].status = "closed"
        /\ \A v \in Views : v # view => hook'[v] = hook[v]
        /\ \A v \in Views :
             /\ hook'[v].socket = hook[v].socket /\ hook'[v].timer = hook[v].timer
             /\ hook'[v].unmounted = hook[v].unmounted /\ hook'[v].stale = hook[v].stale
    BY <1>1, <2>1 DEF Hook
  <2>3. StreamTypeOK' /\ Accounted' /\ NoneWithoutData'
    BY <1>1, <2>1, <2>2, SocketTypes DEF Accounted, NoneWithoutData
  <2>4. \A t \in Sockets : Steady(t)' => Steady(t) /\ sock'[t] = sock[t]
    BY <2>1, <2>2, SocketTypes DEF Steady, Busy, Connected, Accounted
  <2>5. Attached' /\ Mounted'
    BY <1>1, <2>2, <2>4 DEF Attached, Mounted
  <2>6. ClosedByCleanup'
    BY <2>1, <2>2, SocketTypes DEF ClosedByCleanup, Accounted
  <2>7. BadgeIsTrue'
    BY <1>1, <2>1, <2>2 DEF BadgeIsTrue, view
  <2> QED
    BY <2>3, <2>5, <2>6, <2>7
<1>4. CASE ~hook[view].unmounted
  <2>1. /\ sock' = [sock EXCEPT ![s] = Emptied(sock[s], "waiting")]
        /\ hook' = [hook EXCEPT ![view].status = "closed", ![view].timer = s]
    BY <1>1, <1>4 DEF OnClose, ClosedAndWaits, view
  <2>2. /\ hook' \in [Views -> Hook]
        /\ hook'[view].status = "closed" /\ hook'[view].timer = s
        /\ \A v \in Views : v # view => hook'[v] = hook[v]
        /\ \A v \in Views : /\ hook'[v].socket = hook[v].socket
                            /\ hook'[v].unmounted = hook[v].unmounted
                            /\ hook'[v].stale = hook[v].stale
    <3> DEFINE told == [hook[view] EXCEPT !.status = "closed"]
               new == [told EXCEPT !.timer = s]
    <3>1. told \in Hook /\ told.status = "closed" /\ told.socket = hook[view].socket
          /\ told.unmounted = hook[view].unmounted /\ told.stale = hook[view].stale
      BY <1>1 DEF Hook
    <3> HIDE DEF told
    <3>2. new \in Hook /\ new.status = "closed" /\ new.socket = hook[view].socket
          /\ new.unmounted = hook[view].unmounted /\ new.stale = hook[view].stale
          /\ new.timer = s
      BY <3>1 DEF Hook
    <3> HIDE DEF new
    <3>3. hook' = [hook EXCEPT ![view] = new]
      BY <1>1, <2>1 DEF new, told
    <3> QED
      BY <1>1, <3>2, <3>3
  <2>3. /\ sock' \in [Sockets -> Socket]
        /\ sock'[s].state = "waiting" /\ sock'[s].view = view
        /\ \A t \in Sockets : t # s => sock'[t] = sock[t]
    BY <2>1, SocketTypes DEF view
  <2>4. StreamTypeOK'
    BY <1>1, <2>2, <2>3
  <2>5. \A t \in Sockets :
          Steady(t)' => Steady(t) /\ sock'[t].view = sock[t].view
    <3>1. SUFFICES ASSUME NEW t \in Sockets, Steady(t)'
                   PROVE  Steady(t) /\ sock'[t].view = sock[t].view
      OBVIOUS
    <3>2. CASE t = s
      BY <1>1, <1>4, <2>2, <2>3, <3>1, <3>2 DEF Steady, Busy, ClosedByCleanup, view
    <3>3. CASE t # s
      BY <2>2, <2>3, <3>1, <3>3 DEF Steady, Busy, Accounted, Connected
    <3> QED
      BY <3>2, <3>3
  <2>6. \A t \in Sockets : Steady(t)' /\ view = page => t = s
    <3>1. SUFFICES ASSUME NEW t \in Sockets, Steady(t)', view = page PROVE t = s
      OBVIOUS
    <3>2. Steady(t) /\ sock[t].view = page /\ hook[page].socket = t
      BY <2>5, <3>1 DEF Attached
    <3>3. ~hook[view].stale
      BY <3>1, <3>2 DEF Steady
    <3>4. Steady(s)
      BY <1>1, <1>4, <3>3 DEF Steady, Busy, ClosedByCleanup, view
    <3> QED
      BY <3>2, <3>4 DEF Attached
  <2>7. Attached'
    <3>1. SUFFICES ASSUME NEW t \in Sockets, Steady(t)'
                   PROVE  /\ page' # NoView
                          /\ sock'[t].view = page'
                          /\ ~hook'[page'].unmounted
                          /\ hook'[page'].socket = t
                          /\ sock'[t].state = "waiting" => hook'[page'].timer = t
      BY DEF Attached
    <3>2. /\ page # NoView /\ sock[t].view = page /\ ~hook[page].unmounted
          /\ hook[page].socket = t
          /\ sock[t].state = "waiting" => hook[page].timer = t
          /\ sock'[t].view = page
      BY <2>5, <3>1 DEF Attached
    <3>3. CASE view = page
      BY <1>1, <2>2, <2>6, <3>1, <3>2, <3>3
    <3>4. CASE view # page
      <4>1. t # s
        BY <3>2, <3>4 DEF view
      <4> QED
        BY <1>1, <2>2, <2>3, <3>2, <3>4, <4>1
    <3> QED
      BY <3>3, <3>4
  <2>8. ClosedByCleanup' /\ Mounted'
    BY <1>1, <2>2, <2>3 DEF ClosedByCleanup, Accounted, Mounted
  <2>9. Accounted' /\ NoneWithoutData'
    BY <1>1, <1>2, <2>3 DEF Accounted, NoneWithoutData
  <2>10. BadgeIsTrue'
    BY <1>1, <2>2, <2>3 DEF BadgeIsTrue, view
  <2> QED
    BY <2>4, <2>7, <2>8, <2>9, <2>10
<1> QED
  BY <1>3, <1>4

LEMMA ReconnectInv ==
  ASSUME StreamInv, NEW s \in Sockets, Reconnect(s)
  PROVE  StreamInv'
<1> USE PortfolioStreamAssumption DEF StreamInv, StreamTypeOK
<1> DEFINE view == sock[s].view
<1>1. /\ sock[s].state = "waiting" /\ view \in Views
      /\ sock' = [sock EXCEPT ![s].state = "connecting"]
      /\ hook' = [hook EXCEPT ![view] = Connecting(@, s)]
      /\ UNCHANGED <<page, up, user, valid, portfolio>>
  BY DEF Reconnect, Accounted, login
<1> HIDE DEF view
<1>2. /\ sock' \in [Sockets -> Socket]
      /\ sock'[s].state = "connecting" /\ sock'[s].view = view
      /\ \A t \in Sockets : t # s => sock'[t] = sock[t]
  BY <1>1 DEF Socket, Connected, view
<1>3. /\ hook' \in [Views -> Hook]
      /\ \A v \in Views : v # view => hook'[v] = hook[v]
      /\ \A v \in Views : /\ hook'[v].timer = hook[v].timer
                          /\ hook'[v].unmounted = hook[v].unmounted
                          /\ hook'[v].stale = hook[v].stale
      /\ hook'[view].socket \in {s, hook[view].socket}
      /\ hook'[view].status \in {"connecting", hook[view].status}
  BY <1>1 DEF Connecting, Hook
<1>4. \A t \in Sockets : Steady(t)' => Steady(t) /\ sock'[t].view = sock[t].view
  BY <1>1, <1>2, <1>3 DEF Steady, Busy, Accounted, Connected, view
<1>5. Attached'
  <2>1. SUFFICES ASSUME NEW t \in Sockets, Steady(t)'
                 PROVE  /\ page' # NoView
                        /\ sock'[t].view = page'
                        /\ ~hook'[page'].unmounted
                        /\ hook'[page'].socket = t
                        /\ sock'[t].state = "waiting" => hook'[page'].timer = t
    BY DEF Attached
  <2>2. /\ Steady(t) /\ page # NoView /\ sock[t].view = page /\ ~hook[page].unmounted
        /\ hook[page].socket = t
        /\ sock[t].state = "waiting" => hook[page].timer = t
        /\ sock'[t].view = page
    BY <1>4, <2>1 DEF Attached
  <2>3. view = page => s = t
    BY <1>1, <2>2 DEF Attached, Steady, Busy, view
  <2>4. hook'[page].socket = t
    BY <1>1, <1>3, <2>2, <2>3
  <2> QED
    BY <1>1, <1>2, <1>3, <2>2, <2>4
<1>6. ClosedByCleanup' /\ Mounted' /\ Accounted' /\ NoneWithoutData'
  BY <1>1, <1>2, <1>3 DEF ClosedByCleanup, Mounted, Accounted, NoneWithoutData, NoObject
<1>7. BadgeIsTrue'
  <2>1. SUFFICES ASSUME page # NoView, hook'[page].status = "open"
                 PROVE  \E t \in Sockets : sock'[t].view = page /\ sock'[t].state = "joined"
    BY <1>1 DEF BadgeIsTrue
  <2>2. hook[page].status = "open"
    BY <1>1, <1>3, <2>1
  <2> QED
    BY <1>1, <1>2, <2>1, <2>2 DEF BadgeIsTrue
<1> QED
  BY <1>1, <1>2, <1>3, <1>5, <1>6, <1>7

LEMMA OutsideInv ==
  StreamInv /\ (Outage \/ Expire \/ (\E u \in Users : Login(u))) => StreamInv'
BY DEF Outage, Expire, Login, StreamInv, StreamTypeOK, Attached, Mounted,
       ClosedByCleanup, Accounted, NoneWithoutData, BadgeIsTrue, Steady, Busy, login

(***************************************************************************)
(* TradingTab.                                                             *)
(***************************************************************************)
Entry == [of: Users, version: 1..MaxVersion, key: Keys \cup {NoKey}]
Fetch ==
  [step: {"none", "asked", "reading", "answered"}, of: Users \cup {NoUser},
   cash: 0..MaxVersion, held: 0..MaxVersion]

TabTypeOK ==
  /\ version \in [Users -> 0..MaxVersion]
  /\ due \subseteq Entry
  /\ fetch \in Fetch
  /\ fetch.step # "none" => fetch.of \in Users
  /\ sub \in [Keys -> Submission]
  /\ form \in Keys \cup {NoKey}

IInv == StreamInv /\ TabTypeOK

LEMMA InitIInv == Init => IInv
<1> SUFFICES ASSUME Init PROVE IInv
  OBVIOUS
<1>1. TabTypeOK
  BY PortfolioStreamAssumption
     DEF Init, StreamInit, TabTypeOK, NoFetch, Fetch, Submission
<1> QED
  BY <1>1, StreamInitInv DEF Init, IInv

LEMMA StreamNextIInv ==
  ASSUME IInv, StreamNext
  PROVE  IInv'
<1>1. TabTypeOK'
  BY DEF IInv, StreamNext, tabVars, TabTypeOK
<1>2. StreamInv'
  BY OpenInv, CloseInv, ReconnectInv, ReceiveInv, OutsideInv
     DEF IInv, StreamNext, SocketStep
<1> QED
  BY <1>1, <1>2 DEF IInv

LEMMA FetchTypes ==
  ASSUME StreamInv
  PROVE  /\ {Asked, NoFetch} \subseteq Fetch
         /\ Asked.of \in Users /\ NoFetch.step = "none"
BY PortfolioStreamAssumption DEF Asked, NoFetch, Fetch, StreamInv, StreamTypeOK

LEMMA PageIInv ==
  ASSUME IInv, (\E v \in Views : MountPage(v)) \/ LeavePage
  PROVE  IInv'
<1>1. StreamInv'
  BY MountInv, UnmountInv DEF IInv, MountPage, LeavePage
<1>2. TabTypeOK'
  BY FetchTypes DEF IInv, TabTypeOK, MountPage, LeavePage, Ensured
<1> QED
  BY <1>1, <1>2 DEF IInv

LEMMA QueryIInv ==
  ASSUME IInv, Focus \/ ReadCash \/ ReadPositions \/ FetchFails
  PROVE  IInv'
<1>1. StreamInv'
  BY StreamStutter DEF IInv, Focus, ReadCash, ReadPositions, FetchFails
<1> USE DEF IInv, TabTypeOK
<1>2. CASE Focus
  BY <1>1, <1>2, FetchTypes DEF Focus
<1>3. CASE ReadCash
  BY <1>1, <1>3 DEF ReadCash, Fetch
<1>4. CASE ReadPositions
  BY <1>1, <1>4 DEF ReadPositions, Fetch
<1>5. CASE FetchFails
  BY <1>1, <1>5, FetchTypes DEF FetchFails
<1> QED
  BY <1>2, <1>3, <1>4, <1>5

LEMMA LandIInv ==
  ASSUME IInv, Land
  PROVE  IInv'
<1>1. TabTypeOK'
  BY FetchTypes DEF IInv, TabTypeOK, Land
<1>2. Response \in Portfolio
  BY DEF IInv, TabTypeOK, Land, Response, Fetch, Portfolio
<1>3. Show(Response, sock, hook) /\ UNCHANGED <<page, up, user, valid>>
  BY DEF Land, login
<1>4. StreamInv'
  BY <1>2, <1>3, ShowInv DEF IInv, StreamInv, StreamTypeOK, BadgeIsTrue
<1> QED
  BY <1>1, <1>4 DEF IInv

LEMMA SubmitIInv ==
  ASSUME IInv, NEW k \in Keys, Submit(k) \/ TurnDown(k) \/ Succeed(k) \/ Fail(k)
  PROVE  IInv'
<1>1. StreamInv'
  BY StreamStutter DEF IInv, Submit, TurnDown, Succeed, Fail
<1>2. CASE Submit(k)
  <2>1. [[sub[k] EXCEPT !.at = "sent"] EXCEPT !.by = user] \in Submission
    <3>1. [sub[k] EXCEPT !.at = "sent"] \in Submission
      BY DEF IInv, TabTypeOK, Submission
    <3>2. user \in Users
      BY DEF IInv, StreamInv, StreamTypeOK
    <3> QED
      BY <3>1, <3>2 DEF Submission
  <2>2. sub' = [sub EXCEPT ![k] = [[sub[k] EXCEPT !.at = "sent"] EXCEPT !.by = user]]
    BY <1>2 DEF IInv, TabTypeOK, Submit
  <2>3. sub' \in [Keys -> Submission]
    BY <2>1, <2>2 DEF IInv, TabTypeOK
  <2> QED
    BY <1>1, <1>2, <2>3 DEF IInv, TabTypeOK, Submit
<1>3. CASE TurnDown(k)
  BY <1>1, <1>3 DEF IInv, TabTypeOK, TurnDown, Submission
<1>4. CASE Succeed(k)
  <2>1. sub' \in [Keys -> Submission]
    BY <1>4 DEF IInv, TabTypeOK, Succeed, Submission
  <2>2. fetch' \in {fetch, Asked}
    BY <1>4 DEF Succeed, Ensured
  <2> QED
    BY <1>1, <1>4, <2>1, <2>2, FetchTypes DEF IInv, TabTypeOK, Succeed
<1>5. CASE Fail(k)
  BY <1>1, <1>5 DEF IInv, TabTypeOK, Fail, Submission
<1> QED
  BY <1>2, <1>3, <1>4, <1>5

LEMMA CommitIInv ==
  ASSUME IInv, NEW k \in Keys \cup {NoKey}, Commit(k)
  PROVE  IInv'
<1> USE PortfolioStreamAssumption
<1>1. StreamInv'
  BY StreamStutter DEF IInv, Commit
<1>2. PICK u \in Users :
             /\ version[u] < MaxVersion
             /\ version' = [version EXCEPT ![u] = @ + 1]
             /\ due' = due \cup {[of |-> u, version |-> version[u] + 1, key |-> k]}
  BY DEF Commit
<1>3. version[u] \in 0..MaxVersion /\ version[u] + 1 \in 1..MaxVersion
  BY <1>2 DEF IInv, TabTypeOK
<1>4. version' \in [Users -> 0..MaxVersion]
  BY <1>2, <1>3 DEF IInv, TabTypeOK
<1>5. due' \subseteq Entry
  BY <1>2, <1>3 DEF IInv, TabTypeOK, Entry
<1>6. sub' \in [Keys -> Submission]
  BY DEF IInv, TabTypeOK, Commit, Submission
<1> QED
  BY <1>1, <1>4, <1>5, <1>6 DEF IInv, TabTypeOK, Commit

LEMMA PublishIInv ==
  ASSUME IInv, NEW entry \in due, Publish(entry)
  PROVE  IInv'
<1>1. entry \in Entry
  BY DEF IInv, TabTypeOK
<1>2. [of |-> entry.of, cash |-> entry.version, held |-> version[entry.of]] \in Portfolio
  BY <1>1, PortfolioStreamAssumption DEF IInv, TabTypeOK, Entry, Portfolio
<1>3. UNCHANGED <<page, hook, up, user, valid, portfolio>>
  BY DEF Publish, login
<1>4. StreamInv'
  <2>1. CASE UNCHANGED sock
    BY <1>3, <2>1, StreamStutter DEF IInv, streamVars
  <2>2. CASE Deliver([of |-> entry.of, cash |-> entry.version, held |-> version[entry.of]])
    BY <1>2, <1>3, <2>2, DeliverInv DEF IInv
  <2> QED
    BY <2>1, <2>2 DEF Publish
<1>5. sub' \in [Keys -> Submission]
  BY <1>1 DEF IInv, TabTypeOK, Publish, Submission, Entry
<1> QED
  BY <1>4, <1>5 DEF IInv, TabTypeOK, Publish

LEMMA NextIInv == IInv /\ [Next]_vars => IInv'
<1> SUFFICES ASSUME IInv, [Next]_vars PROVE IInv'
  OBVIOUS
<1>1. CASE UNCHANGED vars
  BY <1>1, StreamStutter DEF vars, tabVars, IInv, TabTypeOK
<1> QED
  BY <1>1, StreamNextIInv, PageIInv, QueryIInv, LandIInv, SubmitIInv, CommitIInv,
     PublishIInv DEF Next

LEMMA Invariance == Spec => []IInv
BY InitIInv, NextIInv, PTL DEF Spec

\* Every variable of the tab has its type.
THEOREM TypeCorrect == Spec => []TypeOK
<1>1. IInv => TypeOK
  BY DEF IInv, StreamInv, TabTypeOK, Entry, Fetch, TypeOK
<1> QED
  BY <1>1, Invariance, PTL

\* However many pages and users follow each other and whatever fails, the pages
\* that are not stale have one socket or one timer.
THEOREM OneStream == Spec => []OneConnection
<1>1. IInv => OneConnection
  BY DEF IInv, StreamInv, Attached, OneConnection
<1> QED
  BY <1>1, Invariance, PTL

\* A page that is not stale leaves neither a socket nor a timer behind.
THEOREM CleanUnmount == Spec => []NothingLeftBehind
<1>1. IInv => NothingLeftBehind
  BY DEF IInv, StreamInv, Attached, NothingLeftBehind
<1> QED
  BY <1>1, Invariance, PTL

\* "Connected" is shown only over a socket in the portfolio's group.
THEOREM HonestBadge == Spec => []BadgeIsTrue
<1>1. IInv => BadgeIsTrue
  BY DEF IInv, StreamInv
<1> QED
  BY <1>1, Invariance, PTL

=============================================================================
