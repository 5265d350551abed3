------------------------- MODULE PortfolioConsumer -------------------------
(***************************************************************************)
(* The live view of one portfolio: the broadcast that follows every commit *)
(* (LedgerOrchestratorService._broadcast_portfolio_update), the channel    *)
(* layer's group, and a PortfolioConsumer per WebSocket with its           *)
(* first-message authentication and its timeout.                           *)
(*                                                                         *)
(* The portfolio is reduced to the entries committed to it: version n is   *)
(* its state after the n-th of them, a trade or a transfer.  The history a *)
(* client is sent holds trades only, and no more than HistoryLimit.  A     *)
(* consumer handles one event at a time, a client frame or a group message,*)
(* and an action ends where its handler awaits; only the timeout task runs *)
(* beside it.                                                              *)
(***************************************************************************)
EXTENDS Integers, Sequences, FiniteSets, SequencesExt

CONSTANTS
  Workers,      \* handlers of POST /trade/ and /cash-transfer/
  Sockets,
  MaxVersion,   \* bound: entries committed
  HistoryLimit, \* TRADE_HISTORY_LIMIT
  Capacity,     \* messages the channel layer keeps for a socket
  MaxUnread     \* bound: client frames waiting for a consumer

ASSUME PortfolioConsumerAssumption ==
  /\ MaxVersion \in Nat
  /\ HistoryLimit \in Nat \ {0}
  /\ Capacity \in Nat \ {0}
  /\ MaxUnread \in Nat

VARIABLES
  version,   \* entries committed
  trades,    \* those of them that are trades
  pub,       \* per worker: where it is between commit and group_send
  group,     \* members of the group portfolio_<id>
  chan,      \* per socket: group messages not yet handled
  missed,    \* per socket: entries whose message failed or found the queue full
  wire,      \* per socket: "none", "up", "down"
  inbox,     \* per socket: client frames not yet handled
  pc,        \* per socket: the await its consumer is at
  frame,     \* per socket: the client frame it is handling or handled last
  authed,    \* per socket: _authenticated (group_name and user_id are set with it)
  armed,     \* per socket: the auth timeout task is sleeping
  since,     \* per socket: version when it joined (kept by no code)
  snapshot,  \* per socket: the trade history it read
  received   \* per socket: frames the client got

server == <<version, trades, pub>>
layer == <<group, chan, missed>>
socket == <<wire, inbox, pc, frame, authed, armed, since, snapshot, received>>
vars == <<server, layer, socket>>

Versions == 0..MaxVersion
\* What a client may send first: no text, no valid auth message, a token of
\* another user, a token of the owner.
Frames == {"binary", "bad", "stranger", "owner"}
Update == [type: {"update"}, entry: Versions, holdings: Versions]
History == [type: {"history"}, trades: SUBSET Versions]

Handling == {"validate", "check_owner", "join", "history", "greet"}
Active == Handling \cup {"open"}
Ended == {"stopped", "dead"}

Idle == [step |-> "idle", entry |-> 0, holdings |-> 0]

Init ==
  /\ version = 0
  /\ trades = {}
  /\ pub = [w \in Workers |-> Idle]
  /\ group = {}
  /\ chan = [s \in Sockets |-> <<>>]
  /\ missed = [s \in Sockets |-> {}]
  /\ wire = [s \in Sockets |-> "none"]
  /\ inbox = [s \in Sockets |-> <<>>]
  /\ pc = [s \in Sockets |-> "none"]
  /\ frame = [s \in Sockets |-> "none"]
  /\ authed = [s \in Sockets |-> FALSE]
  /\ armed = [s \in Sockets |-> FALSE]
  /\ since = [s \in Sockets |-> 0]
  /\ snapshot = [s \in Sockets |-> {}]
  /\ received = [s \in Sockets |-> <<>>]

-----------------------------------------------------------------------------
\* A handler commits a transfer or a trade; its in-memory Portfolio is the new
\* version.
Commit(w) ==
  /\ pub[w].step = "idle"
  /\ version < MaxVersion
  /\ version' = version + 1
  /\ trades' \in {trades, trades \cup {version + 1}}
  /\ pub' = [pub EXCEPT ![w] = [step |-> "read", entry |-> version + 1, holdings |-> 0]]
  /\ UNCHANGED <<layer, socket>>

\* Faulty variant: the holdings were loaded before the transaction.
ReadPositionsBefore(w) ==
  /\ pub[w].step = "read"
  /\ pub' = [pub EXCEPT ![w].step = "send", ![w].holdings = pub[w].entry - 1]
  /\ UNCHANGED <<version, trades, layer, socket>>

\* The broadcast takes the cash from the instance in memory and queries the
\* positions again.
ReadPositions(w) ==
  /\ pub[w].step = "read"
  /\ pub' = [pub EXCEPT ![w] = [step |-> "send", entry |-> @.entry, holdings |-> version]]
  /\ UNCHANGED <<version, trades, layer, socket>>

\* Faulty variant: the change is applied once more to the instance in memory.
PayloadTwice(w) ==
  [type |-> "update", entry |-> pub[w].entry + 1, holdings |-> pub[w].holdings]

Payload(w) == [type |-> "update", entry |-> pub[w].entry, holdings |-> pub[w].holdings]

\* group_send: the layer drops the message for a member whose queue is full.
GroupSend(w) ==
  /\ pub[w].step = "send"
  /\ chan' = [s \in Sockets |->
                IF s \in group /\ Len(chan[s]) < Capacity
                THEN Append(chan[s], Payload(w)) ELSE chan[s]]
  /\ missed' = [s \in Sockets |->
                  IF s \in group /\ Len(chan[s]) = Capacity
                  THEN missed[s] \cup {pub[w].entry} ELSE missed[s]]
  /\ pub' = [pub EXCEPT ![w] = Idle]
  /\ UNCHANGED <<version, trades, group, socket>>

\* The channel layer is unreachable, or the worker dies: nothing is sent.
BroadcastFails(w) ==
  /\ pub[w].step # "idle"
  /\ missed' = [s \in Sockets |-> missed[s] \cup {pub[w].entry}]
  /\ pub' = [pub EXCEPT ![w] = Idle]
  /\ UNCHANGED <<version, trades, group, chan, socket>>

\* The layer forgets a member a day after group_add.
Expire(s) ==
  /\ s \in group
  /\ group' = group \ {s}
  /\ UNCHANGED <<server, chan, missed, socket>>

-----------------------------------------------------------------------------
Goto(s, step) == pc' = [pc EXCEPT ![s] = step]

\* Sending on a socket that is gone is ignored or raises; an exception ends
\* the consumer without disconnect().
Raises(s) == wire[s] = "down" /\ Goto(s, "dead")

SendFrame(s, f) ==
  \/ /\ Goto(s, "open")
     /\ received' = IF wire[s] = "up"
                    THEN [received EXCEPT ![s] = Append(@, f)] ELSE received
  \/ Raises(s) /\ UNCHANGED received

CloseSocket(s) ==
  \/ Goto(s, "open") /\ wire' = [wire EXCEPT ![s] = "down"]
  \/ Raises(s) /\ UNCHANGED wire

\* Faulty variant: the timeout task is not started.
ConnectUntimed(s) ==
  /\ pc[s] = "none"
  /\ Goto(s, "open")
  /\ wire' = [wire EXCEPT ![s] = "up"]
  /\ UNCHANGED <<server, layer, inbox, frame, authed, armed, since, snapshot, received>>

\* connect() accepts at once and starts the timeout task.
Connect(s) ==
  /\ pc[s] = "none"
  /\ Goto(s, "open")
  /\ wire' = [wire EXCEPT ![s] = "up"]
  /\ armed' = [armed EXCEPT ![s] = TRUE]
  /\ UNCHANGED <<server, layer, inbox, frame, authed, since, snapshot, received>>

\* Faulty variant: a frame after authentication is handled again.
ReceiveAlways(s) ==
  /\ pc[s] = "open" /\ inbox[s] # <<>>
  /\ inbox' = [inbox EXCEPT ![s] = Tail(@)]
  /\ \/ /\ Head(inbox[s]) = "binary"
        /\ CloseSocket(s)
        /\ UNCHANGED frame
     \/ /\ Head(inbox[s]) # "binary"
        /\ frame' = [frame EXCEPT ![s] = Head(inbox[s])]
        /\ Goto(s, "validate")
        /\ UNCHANGED wire
  /\ UNCHANGED <<server, layer, authed, armed, since, snapshot, received>>

\* receive(): everything after the authentication is ignored.
Receive(s) ==
  /\ pc[s] = "open" /\ inbox[s] # <<>>
  /\ inbox' = [inbox EXCEPT ![s] = Tail(@)]
  /\ \/ authed[s] /\ UNCHANGED <<wire, pc, frame>>
     \/ /\ ~authed[s] /\ Head(inbox[s]) = "binary"
        /\ CloseSocket(s)
        /\ UNCHANGED frame
     \/ /\ ~authed[s] /\ Head(inbox[s]) # "binary"
        /\ frame' = [frame EXCEPT ![s] = Head(inbox[s])]
        /\ Goto(s, "validate")
        /\ UNCHANGED wire
  /\ UNCHANGED <<server, layer, authed, armed, since, snapshot, received>>

\* authenticate_first_message: any token may be found expired or revoked.
Validate(s) ==
  /\ pc[s] = "validate"
  /\ \/ frame[s] # "bad" /\ Goto(s, "check_owner") /\ UNCHANGED wire
     \/ CloseSocket(s)
  /\ UNCHANGED <<server, layer, inbox, frame, authed, armed, since, snapshot, received>>

\* Faulty variant: the user is trusted before the portfolio is looked up.
CheckOwnerLate(s) ==
  /\ pc[s] = "check_owner"
  /\ authed' = [authed EXCEPT ![s] = TRUE]
  /\ armed' = [armed EXCEPT ![s] = FALSE]
  /\ Goto(s, "join")
  /\ UNCHANGED <<server, layer, wire, inbox, frame, since, snapshot, received>>

\* get_owned_portfolio_or_none, asked with the user of the token.
OwnsPortfolio(s) == frame[s] = "owner"

\* What that says, then the flags and the cancelled timeout.
CheckOwner(s) ==
  /\ pc[s] = "check_owner"
  /\ \/ /\ OwnsPortfolio(s)
        /\ authed' = [authed EXCEPT ![s] = TRUE]
        /\ armed' = [armed EXCEPT ![s] = FALSE]
        /\ Goto(s, "join")
        /\ UNCHANGED wire
     \/ /\ ~OwnsPortfolio(s)
        /\ CloseSocket(s)
        /\ UNCHANGED <<authed, armed>>
  /\ UNCHANGED <<server, layer, inbox, frame, since, snapshot, received>>

\* _get_recent_trades: the newest trades that are committed, up to a limit, and
\* no transfer.
OlderThan(list, v) == Cardinality(list) = HistoryLimit /\ \A t \in list : v < t

RecentTrades ==
  {list \in SUBSET trades :
     /\ Cardinality(list) <= HistoryLimit
     /\ \A t \in trades \ list : OlderThan(list, t)}

GroupAdd(s) ==
  /\ group' = group \cup {s}
  /\ since' = [since EXCEPT ![s] = version]
  /\ UNCHANGED <<server, chan, missed, wire, inbox, frame, authed, armed,
                 snapshot, received>>

QueryHistory(s) ==
  /\ \E list \in RecentTrades : snapshot' = [snapshot EXCEPT ![s] = list]
  /\ UNCHANGED <<server, layer, wire, inbox, frame, authed, armed, since, received>>

\* Faulty variant: the history is read first, the group is joined afterwards.
JoinAfterHistory(s) ==
  \/ pc[s] = "join" /\ QueryHistory(s) /\ Goto(s, "history")
  \/ pc[s] = "history" /\ GroupAdd(s) /\ Goto(s, "greet")

\* group_add, then the query of the recent trades.
JoinThenHistory(s) ==
  \/ pc[s] = "join" /\ GroupAdd(s) /\ Goto(s, "history")
  \/ pc[s] = "history" /\ QueryHistory(s) /\ Goto(s, "greet")

\* The trade history is the first thing the client is told.
Greet(s) ==
  /\ pc[s] = "greet"
  /\ SendFrame(s, [type |-> "history", trades |-> snapshot[s]])
  /\ UNCHANGED <<server, layer, wire, inbox, frame, authed, armed, since, snapshot>>

\* portfolio_update(): a group message goes to the client as it is.
PortfolioUpdate(s) ==
  /\ pc[s] = "open" /\ chan[s] # <<>>
  /\ chan' = [chan EXCEPT ![s] = Tail(@)]
  /\ SendFrame(s, Head(chan[s]))
  /\ UNCHANGED <<server, group, missed, wire, inbox, frame, authed, armed, since, snapshot>>

\* disconnect(), once the frames before it are handled.
Disconnect(s) ==
  /\ pc[s] = "open" /\ wire[s] = "down" /\ inbox[s] = <<>>
  /\ Goto(s, "stopped")
  /\ armed' = [armed EXCEPT ![s] = FALSE]
  /\ group' = IF authed[s] THEN group \ {s} ELSE group
  /\ UNCHANGED <<server, chan, missed, wire, inbox, frame, authed, since, snapshot, received>>

\* _enforce_auth_timeout wakes up beside whatever the consumer awaits.
AuthTimeout(s) ==
  /\ armed[s] /\ pc[s] \in Active
  /\ armed' = [armed EXCEPT ![s] = FALSE]
  /\ wire' = [wire EXCEPT ![s] = "down"]
  /\ UNCHANGED <<server, layer, inbox, pc, frame, authed, since, snapshot, received>>

\* A query or a Redis call of the handler fails, or the server process dies:
\* disconnect() does not run.
Die(s) ==
  /\ pc[s] \in Active
  /\ Goto(s, "dead")
  /\ wire' = [wire EXCEPT ![s] = "down"]
  /\ armed' = [armed EXCEPT ![s] = FALSE]
  /\ UNCHANGED <<server, layer, inbox, frame, authed, since, snapshot, received>>

ClientSends(s) ==
  /\ wire[s] = "up" /\ Len(inbox[s]) < MaxUnread
  /\ \E f \in Frames : inbox' = [inbox EXCEPT ![s] = Append(@, f)]
  /\ UNCHANGED <<server, layer, wire, pc, frame, authed, armed, since, snapshot, received>>

ClientCloses(s) ==
  /\ wire[s] = "up"
  /\ wire' = [wire EXCEPT ![s] = "down"]
  /\ UNCHANGED <<server, layer, inbox, pc, frame, authed, armed, since, snapshot, received>>

Broadcast(w) == ReadPositions(w) \/ GroupSend(w) \/ BroadcastFails(w)

Consume(s) ==
  \/ Receive(s)
  \/ Validate(s)
  \/ CheckOwner(s)
  \/ JoinThenHistory(s)
  \/ Greet(s)
  \/ PortfolioUpdate(s)
  \/ Disconnect(s)

Next ==
  \/ \E w \in Workers : Commit(w) \/ Broadcast(w)
  \/ \E s \in Sockets :
       \/ Connect(s)
       \/ Consume(s)
       \/ AuthTimeout(s)
       \/ Die(s)
       \/ Expire(s)
       \/ ClientSends(s)
       \/ ClientCloses(s)

Spec == Init /\ [][Next]_vars

\* The event loop runs every handler that can go on and wakes every sleeper;
\* it serves the disconnection even while frames keep arriving, because none
\* arrives on a socket that is down.
Fairness ==
  /\ \A w \in Workers : WF_vars(Broadcast(w))
  /\ \A s \in Sockets : WF_vars(Consume(s)) /\ WF_vars(AuthTimeout(s))

FairSpec == Spec /\ Fairness

-----------------------------------------------------------------------------
\* Every variable has its type.
TypeOK ==
  /\ version \in Versions
  /\ trades \subseteq Versions
  /\ pub \in [Workers -> [step: {"idle", "read", "send"}, entry: Versions, holdings: Versions]]
  /\ group \subseteq Sockets
  /\ chan \in [Sockets -> Seq(Update)]
  /\ missed \in [Sockets -> SUBSET Versions]
  /\ wire \in [Sockets -> {"none", "up", "down"}]
  /\ inbox \in [Sockets -> Seq(Frames)]
  /\ pc \in [Sockets -> Active \cup Ended \cup {"none"}]
  /\ frame \in [Sockets -> Frames \cup {"none"}]
  /\ authed \in [Sockets -> BOOLEAN]
  /\ armed \in [Sockets -> BOOLEAN]
  /\ since \in [Sockets -> Versions]
  /\ snapshot \in [Sockets -> SUBSET Versions]
  /\ received \in [Sockets -> Seq(Update \cup History)]

\* Only the owner of the portfolio is ever told anything about it, whatever
\* else the client sent before and whenever the timeout fires.
OnlyOwnerIsTold ==
  \A s \in Sockets :
    s \in group \/ chan[s] # <<>> \/ received[s] # <<>> => frame[s] = "owner"

\* Entries a socket has been told of, in the history or in an update.
ToldOf(s) ==
  {v \in Versions : \E f \in ToSet(received[s]) :
     IF f.type = "history" THEN v \in f.trades ELSE v = f.entry}

\* Entry v will still be told to s, or was lost by the channel layer.
Coming(s, v) ==
  \/ v \in missed[s]
  \/ \E f \in ToSet(chan[s]) : f.entry = v
  \/ \E w \in Workers : pub[w].step # "idle" /\ pub[w].entry = v

\* Trade v is older than a full history that was sent to s.
BeforeHistory(s, v) ==
  \E f \in ToSet(received[s]) : f.type = "history" /\ OlderThan(f.trades, v)

\* No entry falls between the history and the live updates.  A member of the
\* group has been told of every trade but those that a full history was too
\* short for, and of every trade and transfer committed since it joined, or the
\* message is queued for it, is still to be sent, or was lost by the channel
\* layer.  A transfer committed earlier is never told: the history is of trades.
NoGap ==
  \A s \in group :
    wire[s] = "up" /\ received[s] # <<>> =>
      \A v \in 1..version :
        /\ v > since[s] => v \in ToldOf(s) \/ Coming(s, v)
        /\ v \in trades => v \in ToldOf(s) \/ Coming(s, v) \/ BeforeHistory(s, v)

\* The client gets the trade history once, before any live update.
HistoryComesFirst ==
  \A s \in Sockets : \A i \in DOMAIN received[s] :
    received[s][i].type = "history" <=> i = 1

\* A broadcast follows its commit and reads the holdings after it: it tells of
\* no entry that is not committed, with holdings at least as new as the cash.
BroadcastsAreCommitted ==
  \A s \in Sockets : \A f \in ToSet(chan[s]) :
    f.entry <= f.holdings /\ f.holdings <= version

\* "A connection that never sends a valid auth message within the timeout is
\* closed": every connection is authenticated in the end or ends.
SilentSocketsEnd ==
  \A s \in Sockets : pc[s] = "open" ~> authed[s] \/ pc[s] \in Ended

\* "Broadcast the portfolio's current state": once every broadcast has gone out
\* and been delivered, the last update a socket was sent is the portfolio's state.
LastUpdateIsCurrent ==
  \A s \in group :
    /\ \A w \in Workers : pub[w].step = "idle"
    /\ wire[s] = "up" /\ received[s] # <<>> /\ chan[s] = <<>> /\ missed[s] = {}
    /\ Last(received[s]).type = "update"
    => Last(received[s]).entry = version
=============================================================================
