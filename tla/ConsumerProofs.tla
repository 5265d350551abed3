--------------------------- MODULE ConsumerProofs ---------------------------
(***************************************************************************)
(* Proofs about PortfolioConsumer, for any number of handlers and sockets, *)
(* any number of entries, any capacity of the channel layer's queues and   *)
(* any number of client frames waiting.                                    *)
(***************************************************************************)
EXTENDS PortfolioConsumer, TLAPS

USE PortfolioConsumerAssumption

-----------------------------------------------------------------------------
(* The inductive invariant.                                                *)

Joining == {"join", "history", "greet"}

\* Who is told anything has been found to own the portfolio, and the frame he
\* was let in with is never replaced; a consumer authenticates once.
AuthOnce ==
  \A s \in Sockets :
    /\ authed[s] => frame[s] = "owner"
    /\ s \in group \/ chan[s] # <<>> \/ received[s] # <<>> => authed[s]
    /\ pc[s] \in Joining => authed[s]
    /\ pc[s] \in {"none", "validate", "check_owner"} => ~authed[s]

\* Nothing is sent before the history, and a consumer that waits for events
\* has sent it, unless the socket went down meanwhile.
Greeted ==
  \A s \in Sockets :
    /\ pc[s] \in Joining => received[s] = <<>>
    /\ pc[s] = "open" /\ authed[s] /\ wire[s] = "up" => received[s] # <<>>

\* The payload of a broadcast is committed and in order from the read on.
BroadcastsInOrder ==
  \A w \in Workers :
    /\ pub[w].step # "idle" => pub[w].entry <= version
    /\ pub[w].step = "send" =>
         pub[w].entry <= pub[w].holdings /\ pub[w].holdings <= version

\* A queue never holds more than its capacity, so a message for a member is
\* either queued or counted as missed.
QueuesBounded == \A s \in Sockets : Len(chan[s]) <= Capacity

\* From group_add on, what is committed is on its way; between the query of the
\* history and its sending, so is every trade that the history neither holds nor
\* is too short for, because the group was joined before the query.
NoGapAhead ==
  \A s \in group : \A v \in 1..version :
    /\ pc[s] \in {"history", "greet"} /\ v > since[s] => Coming(s, v)
    /\ pc[s] = "greet" /\ v \in trades =>
         Coming(s, v) \/ v \in snapshot[s] \/ OlderThan(snapshot[s], v)

IInv ==
  /\ TypeOK
  /\ AuthOnce
  /\ Greeted
  /\ HistoryComesFirst
  /\ BroadcastsInOrder
  /\ BroadcastsAreCommitted
  /\ QueuesBounded
  /\ NoGapAhead
  /\ NoGap
-----------------------------------------------------------------------------
(* A queue and the set of what it holds.                                   *)

LEMMA AppendToQueue ==
  ASSUME NEW S, NEW q \in Seq(S), NEW x \in S
  PROVE  /\ Append(q, x) \in Seq(S)
         /\ Append(q, x) # <<>>
         /\ Len(Append(q, x)) = Len(q) + 1
         /\ ToSet(Append(q, x)) = ToSet(q) \cup {x}
<1>1. /\ Append(q, x) \in Seq(S)
      /\ Len(Append(q, x)) = Len(q) + 1
      /\ DOMAIN Append(q, x) = 1..(Len(q) + 1)
      /\ \A i \in 1..(Len(q) + 1) : Append(q, x)[i] = IF i <= Len(q) THEN q[i] ELSE x
  OBVIOUS
<1>2. Append(q, x) # <<>>
  BY <1>1
<1>3. DOMAIN q = 1..Len(q) /\ Len(q) \in Nat
  OBVIOUS
<1>4. ToSet(Append(q, x)) \subseteq ToSet(q) \cup {x}
  <2>1. SUFFICES ASSUME NEW i \in 1..(Len(q) + 1)
                 PROVE  Append(q, x)[i] \in ToSet(q) \cup {x}
    BY <1>1 DEF ToSet
  <2>2. CASE i \in 1..Len(q)
    BY <1>1, <1>3, <2>2 DEF ToSet
  <2>3. CASE i = Len(q) + 1
    BY <1>1, <1>3, <2>3
  <2>4. QED
    BY <1>3, <2>2, <2>3
<1>5. \A i \in 1..Len(q) : i \in DOMAIN Append(q, x) /\ Append(q, x)[i] = q[i]
  BY <1>1, <1>3
<1>6. Len(q) + 1 \in DOMAIN Append(q, x) /\ Append(q, x)[Len(q) + 1] = x
  BY <1>1, <1>3
<1>7. ToSet(q) \cup {x} \subseteq ToSet(Append(q, x))
  BY <1>3, <1>5, <1>6 DEF ToSet
<1>8. QED
  BY <1>1, <1>2, <1>4, <1>7

LEMMA TakeFromQueue ==
  ASSUME NEW S, NEW q \in Seq(S), q # <<>>
  PROVE  /\ Head(q) \in S
         /\ Tail(q) \in Seq(S)
         /\ Len(Tail(q)) = Len(q) - 1
         /\ ToSet(q) = {Head(q)} \cup ToSet(Tail(q))
<1>1. /\ Head(q) \in S /\ Head(q) = q[1]
      /\ Tail(q) \in Seq(S)
      /\ Len(Tail(q)) = Len(q) - 1
      /\ DOMAIN Tail(q) = 1..(Len(q) - 1)
      /\ \A i \in 1..(Len(q) - 1) : Tail(q)[i] = q[i + 1]
  OBVIOUS
<1>2. DOMAIN q = 1..Len(q) /\ Len(q) \in Nat /\ Len(q) # 0
  OBVIOUS
<1>3. ToSet(q) \subseteq {Head(q)} \cup ToSet(Tail(q))
  <2>1. SUFFICES ASSUME NEW i \in 1..Len(q)
                 PROVE  q[i] \in {Head(q)} \cup ToSet(Tail(q))
    BY <1>2 DEF ToSet
  <2>2. CASE i = 1
    BY <1>1, <2>2
  <2>3. CASE i # 1
    <3>1. i - 1 \in DOMAIN Tail(q) /\ Tail(q)[i - 1] = q[i]
      BY <1>1, <1>2, <2>3
    <3>2. QED
      BY <3>1 DEF ToSet
  <2>4. QED
    BY <2>2, <2>3
<1>4. {Head(q)} \cup ToSet(Tail(q)) \subseteq ToSet(q)
  BY <1>1, <1>2 DEF ToSet
<1>5. QED
  BY <1>1, <1>3, <1>4

-----------------------------------------------------------------------------
(* Types.                                                                  *)

LEMMA InitIInv == Init => IInv
<1>1. SUFFICES ASSUME Init PROVE IInv
  OBVIOUS
<1>2. TypeOK
  BY <1>1 DEF Init, TypeOK, Versions, Idle, Active, Handling, Ended
<1>3. AuthOnce /\ Greeted /\ BroadcastsInOrder /\ QueuesBounded /\ NoGapAhead /\ NoGap
  BY <1>1 DEF Init, AuthOnce, Greeted, BroadcastsInOrder, QueuesBounded, NoGapAhead, NoGap,
              Joining, Idle
<1>4. HistoryComesFirst /\ BroadcastsAreCommitted
  BY <1>1 DEF Init, HistoryComesFirst, BroadcastsAreCommitted, ToSet
<1>5. QED
  BY <1>2, <1>3, <1>4 DEF IInv

\* What a handler of a trade or transfer may do to the variables it changes.
LEMMA ServerTypes ==
  ASSUME TypeOK, NEW w \in Workers, Commit(w) \/ Broadcast(w)
  PROVE  TypeOK'
<1> USE DEF TypeOK, Versions
<1>1. CASE Commit(w)
  <2>1. version + 1 \in Versions
    BY <1>1 DEF Commit
  <2>2. version' \in Versions /\ trades' \subseteq Versions
    BY <1>1, <2>1 DEF Commit
  <2>3. QED
    BY <1>1, <2>1, <2>2 DEF Commit, layer, socket
<1>2. CASE ReadPositions(w)
  <2>1. pub' \in [Workers -> [step: {"idle", "read", "send"}, entry: Versions, holdings: Versions]]
    BY <1>2 DEF ReadPositions
  <2>2. UNCHANGED <<version, trades, layer, socket>>
    BY <1>2 DEF ReadPositions
  <2>3. QED
    BY <2>1, <2>2 DEF layer, socket
<1>3. CASE GroupSend(w)
  <2>1. Payload(w) \in Update
    BY DEF Payload, Update
  <2>2. chan' \in [Sockets -> Seq(Update)]
    BY <1>3, <2>1 DEF GroupSend
  <2>3. missed' \in [Sockets -> SUBSET Versions]
    BY <1>3 DEF GroupSend
  <2>4. pub' \in [Workers -> [step: {"idle", "read", "send"}, entry: Versions, holdings: Versions]]
    BY <1>3 DEF GroupSend, Idle
  <2>5. UNCHANGED <<version, trades, group, socket>>
    BY <1>3 DEF GroupSend
  <2>6. QED
    BY <2>2, <2>3, <2>4, <2>5 DEF socket
<1>4. CASE BroadcastFails(w)
  BY <1>4 DEF BroadcastFails, Idle, socket
<1>5. QED
  BY <1>1, <1>2, <1>3, <1>4 DEF Broadcast

\* What a consumer that sends a frame does to its step and to what is received.
LEMMA SendFrameTypes ==
  ASSUME TypeOK, NEW s \in Sockets, NEW f \in Update \cup History, SendFrame(s, f)
  PROVE  /\ pc' \in [Sockets -> Active \cup Ended \cup {"none"}]
         /\ received' \in [Sockets -> Seq(Update \cup History)]
<1>1. pc' \in [Sockets -> Active \cup Ended \cup {"none"}]
  BY DEF TypeOK, SendFrame, Raises, Goto, Active, Ended
<1>2. Append(received[s], f) \in Seq(Update \cup History)
  BY DEF TypeOK
<1>3. received' = [received EXCEPT ![s] = Append(received[s], f)] \/ received' = received
  BY DEF SendFrame
<1>4. QED
  BY <1>1, <1>2, <1>3 DEF TypeOK

\* What the two handlers that send a frame send.
LEMMA FramesSent ==
  ASSUME TypeOK, NEW s \in Sockets
  PROVE  /\ Greet(s) => [type |-> "history", trades |-> snapshot[s]] \in History
         /\ PortfolioUpdate(s) =>
              Head(chan[s]) \in Update /\ Tail(chan[s]) \in Seq(Update)
BY DEF TypeOK, Greet, PortfolioUpdate, History

\* What is queued for a socket and what it received, as sequences.
LEMMA ChanSeq ==
  ASSUME TypeOK, NEW s \in Sockets
  PROVE  /\ chan[s] \in Seq(Update) /\ Len(chan[s]) \in Nat
         /\ \A f \in ToSet(chan[s]) : f.entry \in Nat /\ f.holdings \in Nat
         /\ \A f \in Update : /\ Len(Append(chan[s], f)) = Len(chan[s]) + 1
                             /\ ToSet(Append(chan[s], f)) = ToSet(chan[s]) \cup {f}
         /\ chan[s] # <<>> =>
              /\ Len(Tail(chan[s])) = Len(chan[s]) - 1
              /\ ToSet(chan[s]) = {Head(chan[s])} \cup ToSet(Tail(chan[s]))
<1>1. chan[s] \in Seq(Update) /\ Len(chan[s]) \in Nat
  BY DEF TypeOK
<1>2. ASSUME NEW f \in ToSet(chan[s])
      PROVE  f.entry \in Nat /\ f.holdings \in Nat
  <2>1. PICK i \in DOMAIN chan[s] : f = chan[s][i]
    BY DEF ToSet
  <2>2. f \in Update
    BY <1>1, <2>1
  <2>3. QED
    BY <2>2 DEF Update, Versions
<1>3. QED
  BY <1>1, <1>2, AppendToQueue, TakeFromQueue

LEMMA ReceivedSeq ==
  ASSUME TypeOK, NEW s \in Sockets
  PROVE  /\ received[s] \in Seq(Update \cup History)
         /\ \A f \in Update \cup History :
              /\ Append(received[s], f) # <<>>
              /\ ToSet(Append(received[s], f)) = ToSet(received[s]) \cup {f}
<1>1. received[s] \in Seq(Update \cup History)
  BY DEF TypeOK
<1>2. QED
  BY <1>1, AppendToQueue

LEMMA SocketTypes ==
  ASSUME TypeOK, NEW s \in Sockets,
         \/ Connect(s) \/ Consume(s) \/ AuthTimeout(s) \/ Die(s)
         \/ Expire(s) \/ ClientSends(s) \/ ClientCloses(s)
  PROVE  TypeOK'
<1> USE DEF TypeOK, server, layer, Goto, Active, Handling, Ended
<1>1. CASE Connect(s)
  BY <1>1 DEF Connect
<1>2. CASE Receive(s)
  <2>1. Head(inbox[s]) \in Frames /\ Tail(inbox[s]) \in Seq(Frames)
    BY <1>2 DEF Receive
  <2>2. QED
    BY <1>2, <2>1 DEF Receive, CloseSocket, Raises
<1>3. CASE Validate(s)
  BY <1>3 DEF Validate, CloseSocket, Raises
<1>4. CASE CheckOwner(s)
  BY <1>4 DEF CheckOwner, CloseSocket, Raises
<1>5. CASE JoinThenHistory(s)
  <2>1. CASE GroupAdd(s)
    BY <1>5, <2>1 DEF JoinThenHistory, GroupAdd
  <2>2. CASE QueryHistory(s)
    <3>1. PICK list \in RecentTrades : snapshot' = [snapshot EXCEPT ![s] = list]
      BY <2>2 DEF QueryHistory
    <3>2. snapshot' \in [Sockets -> SUBSET Versions]
      BY <3>1 DEF RecentTrades
    <3>3. QED
      BY <1>5, <2>2, <3>2 DEF JoinThenHistory, QueryHistory
  <2>3. QED
    BY <1>5, <2>1, <2>2 DEF JoinThenHistory
<1>6. CASE Greet(s)
  BY <1>6, FramesSent, SendFrameTypes DEF Greet
<1>7. CASE PortfolioUpdate(s)
  BY <1>7, FramesSent, SendFrameTypes DEF PortfolioUpdate
<1>8. CASE Disconnect(s)
  BY <1>8 DEF Disconnect
<1>9. CASE AuthTimeout(s) \/ Die(s) \/ Expire(s) \/ ClientCloses(s)
  BY <1>9 DEF AuthTimeout, Die, Expire, ClientCloses, socket
<1>10. CASE ClientSends(s)
  BY <1>10 DEF ClientSends
<1>11. QED
  BY <1>1, <1>2, <1>3, <1>4, <1>5, <1>6, <1>7, <1>8, <1>9, <1>10 DEF Consume

LEMMA NextTypes == TypeOK /\ [Next]_vars => TypeOK'
<1>1. TypeOK /\ UNCHANGED vars => TypeOK'
  BY DEF TypeOK, vars, server, layer, socket
<1>2. QED
  BY <1>1, ServerTypes, SocketTypes DEF Next

-----------------------------------------------------------------------------
(* Authentication.                                                         *)

LEMMA AuthStep == TypeOK /\ AuthOnce /\ [Next]_vars => AuthOnce'
<1> SUFFICES ASSUME TypeOK, AuthOnce, [Next]_vars
             PROVE  AuthOnce'
  OBVIOUS
<1> USE DEF TypeOK, AuthOnce, Joining, server, layer, Goto
<1>1. CASE UNCHANGED vars
  BY <1>1 DEF vars, socket
<1>2. ASSUME NEW w \in Workers, Commit(w) \/ ReadPositions(w) \/ BroadcastFails(w)
      PROVE  AuthOnce'
  BY <1>2 DEF Commit, ReadPositions, BroadcastFails, socket
<1>3. ASSUME NEW w \in Workers, GroupSend(w)
      PROVE  AuthOnce'
  BY <1>3 DEF GroupSend, socket
<1>4. ASSUME NEW s \in Sockets, Expire(s) \/ ClientSends(s) \/ ClientCloses(s)
      PROVE  AuthOnce'
  BY <1>4 DEF Expire, ClientSends, ClientCloses, socket
<1>5. ASSUME NEW s \in Sockets, Connect(s) \/ AuthTimeout(s) \/ Die(s)
      PROVE  AuthOnce'
  BY <1>5 DEF Connect, AuthTimeout, Die
<1>6. ASSUME NEW s \in Sockets, Receive(s)
      PROVE  AuthOnce'
  BY <1>6 DEF Receive, CloseSocket, Raises
<1>7. ASSUME NEW s \in Sockets, Validate(s)
      PROVE  AuthOnce'
  BY <1>7 DEF Validate, CloseSocket, Raises
<1>8. ASSUME NEW s \in Sockets, CheckOwner(s)
      PROVE  AuthOnce'
  <2>1. CASE OwnsPortfolio(s)
    <3>1. /\ authed' = [authed EXCEPT ![s] = TRUE]
          /\ pc' = [pc EXCEPT ![s] = "join"]
          /\ UNCHANGED <<group, chan, frame, received>>
      BY <1>8, <2>1 DEF CheckOwner
    <3>2. QED
      BY <2>1, <3>1 DEF OwnsPortfolio
  <2>2. CASE ~OwnsPortfolio(s)
    <3>1. /\ \E p \in {"open", "dead"} : pc' = [pc EXCEPT ![s] = p]
          /\ UNCHANGED <<authed, group, chan, frame, received>>
      BY <1>8, <2>2 DEF CheckOwner, CloseSocket, Raises
    <3>2. QED
      BY <3>1
  <2>3. QED
    BY <2>1, <2>2
<1>9. ASSUME NEW s \in Sockets, JoinThenHistory(s)
      PROVE  AuthOnce'
  BY <1>9 DEF JoinThenHistory, GroupAdd, QueryHistory
<1>10. ASSUME NEW s \in Sockets, Greet(s)
       PROVE  AuthOnce'
  BY <1>10 DEF Greet, SendFrame, Raises
<1>11. ASSUME NEW s \in Sockets, PortfolioUpdate(s)
       PROVE  AuthOnce'
  BY <1>11 DEF PortfolioUpdate, SendFrame, Raises
<1>12. ASSUME NEW s \in Sockets, Disconnect(s)
       PROVE  AuthOnce'
  BY <1>12 DEF Disconnect
<1>13. QED
  BY <1>1, <1>2, <1>3, <1>4, <1>5, <1>6, <1>7, <1>8, <1>9, <1>10, <1>11, <1>12
     DEF Next, Broadcast, Consume

-----------------------------------------------------------------------------
(* The history comes first.                                                *)

LEMMA GreetedStep == TypeOK /\ AuthOnce /\ Greeted /\ [Next]_vars => Greeted'
<1> SUFFICES ASSUME TypeOK, AuthOnce, Greeted, [Next]_vars
             PROVE  Greeted'
  OBVIOUS
<1> USE DEF TypeOK, AuthOnce, Greeted, Joining, server, layer, Goto
<1>1. CASE UNCHANGED vars
  BY <1>1 DEF vars, socket
<1>2. ASSUME NEW w \in Workers, Commit(w) \/ Broadcast(w)
      PROVE  Greeted'
  BY <1>2 DEF Commit, Broadcast, ReadPositions, GroupSend, BroadcastFails, socket
<1>3. ASSUME NEW s \in Sockets, Expire(s) \/ ClientSends(s) \/ ClientCloses(s)
      PROVE  Greeted'
  BY <1>3 DEF Expire, ClientSends, ClientCloses, socket
<1>4. ASSUME NEW s \in Sockets, Connect(s) \/ AuthTimeout(s) \/ Die(s)
      PROVE  Greeted'
  BY <1>4 DEF Connect, AuthTimeout, Die
<1>5. ASSUME NEW s \in Sockets, Receive(s)
      PROVE  Greeted'
  BY <1>5 DEF Receive, CloseSocket, Raises
<1>6. ASSUME NEW s \in Sockets, Validate(s)
      PROVE  Greeted'
  BY <1>6 DEF Validate, CloseSocket, Raises
<1>7. ASSUME NEW s \in Sockets, CheckOwner(s)
      PROVE  Greeted'
  BY <1>7 DEF CheckOwner, CloseSocket, Raises
<1>8. ASSUME NEW s \in Sockets, JoinThenHistory(s)
      PROVE  Greeted'
  BY <1>8 DEF JoinThenHistory, GroupAdd, QueryHistory
<1>9. ASSUME NEW s \in Sockets, NEW f \in Update \cup History, SendFrame(s, f),
             pc[s] \in {"open", "greet"}, UNCHANGED <<authed, wire>>
      PROVE  Greeted'
  <2>1. Append(received[s], f) # <<>>
    BY ReceivedSeq
  <2>2. CASE wire[s] = "up"
    <3>1. /\ pc' = [pc EXCEPT ![s] = "open"]
          /\ received' = [received EXCEPT ![s] = Append(received[s], f)]
      BY <1>9, <2>2 DEF SendFrame, Raises
    <3>2. QED
      BY <1>9, <2>1, <3>1
  <2>3. CASE wire[s] # "up"
    <3>1. /\ \E p \in {"open", "dead"} : pc' = [pc EXCEPT ![s] = p]
          /\ received' = received
      BY <1>9, <2>3 DEF SendFrame, Raises
    <3>2. QED
      BY <1>9, <2>3, <3>1
  <2>4. QED
    BY <2>2, <2>3
<1>10. ASSUME NEW s \in Sockets, Greet(s)
       PROVE  Greeted'
  BY <1>10, <1>9, FramesSent DEF Greet
<1>11. ASSUME NEW s \in Sockets, PortfolioUpdate(s)
       PROVE  Greeted'
  BY <1>11, <1>9, FramesSent DEF PortfolioUpdate
<1>12. ASSUME NEW s \in Sockets, Disconnect(s)
       PROVE  Greeted'
  BY <1>12 DEF Disconnect
<1>13. QED
  BY <1>1, <1>2, <1>3, <1>4, <1>5, <1>6, <1>7, <1>8, <1>10, <1>11, <1>12
     DEF Next, Consume

LEMMA HistoryStep ==
  TypeOK /\ AuthOnce /\ Greeted /\ HistoryComesFirst /\ [Next]_vars => HistoryComesFirst'
<1> SUFFICES ASSUME TypeOK, AuthOnce, Greeted, HistoryComesFirst, [Next]_vars
             PROVE  HistoryComesFirst'
  OBVIOUS
<1> USE DEF HistoryComesFirst
<1>1. CASE UNCHANGED received
  BY <1>1
<1>2. ASSUME NEW s \in Sockets, NEW f \in Update \cup History, SendFrame(s, f),
             wire[s] = "up" => (f.type = "history" <=> received[s] = <<>>)
      PROVE  HistoryComesFirst'
  <2>1. CASE UNCHANGED received
    BY <2>1, <1>1
  <2>2. CASE wire[s] = "up" /\ received' = [received EXCEPT ![s] = Append(received[s], f)]
    <3>1. received[s] \in Seq(Update \cup History)
      BY DEF TypeOK
    <3>2. \A i \in DOMAIN Append(received[s], f) :
            Append(received[s], f)[i].type = "history" <=> i = 1
      BY <3>1, <1>2, <2>2
    <3>3. QED
      BY <2>2, <3>2 DEF TypeOK
  <2>3. QED
    BY <1>2, <2>1, <2>2 DEF SendFrame
<1>3. ASSUME NEW s \in Sockets, Greet(s)
      PROVE  HistoryComesFirst'
  <2>1. received[s] = <<>>
    BY <1>3 DEF Greet, Greeted, Joining
  <2>2. QED
    BY <1>2, <1>3, <2>1, FramesSent DEF Greet
<1>4. ASSUME NEW s \in Sockets, PortfolioUpdate(s)
      PROVE  HistoryComesFirst'
  <2>1. wire[s] = "up" => received[s] # <<>>
    BY <1>4 DEF PortfolioUpdate, Greeted, AuthOnce
  <2>2. Head(chan[s]).type # "history"
    BY <1>4, FramesSent DEF PortfolioUpdate, Update
  <2>3. QED
    BY <1>2, <1>4, <2>1, <2>2, FramesSent DEF PortfolioUpdate
<1>5. QED
  BY <1>1, <1>3, <1>4
     DEF Next, Broadcast, Consume, vars, socket, Commit, ReadPositions, GroupSend,
         BroadcastFails, Connect, Receive, Validate, CheckOwner, JoinThenHistory,
         GroupAdd, QueryHistory, Disconnect, AuthTimeout, Die, Expire, ClientSends, ClientCloses

-----------------------------------------------------------------------------
(* Broadcasts.                                                             *)

\* Of the actions, only two of a handler change the queues and one takes from
\* them; a handler's broadcast is its own.
LEMMA QueuesUnchanged ==
  ASSUME [Next]_vars,
         \A w \in Workers : ~Commit(w) /\ ~Broadcast(w),
         \A s \in Sockets : ~PortfolioUpdate(s)
  PROVE  UNCHANGED <<version, trades, pub, chan, missed>>
BY DEF Next, Consume, vars, server, layer, socket, Connect, Receive, Validate, CheckOwner,
       JoinThenHistory, GroupAdd, QueryHistory, Greet, Disconnect, AuthTimeout, Die, Expire, ClientSends, ClientCloses

LEMMA PayloadType ==
  ASSUME TypeOK, NEW w \in Workers
  PROVE  Payload(w) \in Update
BY DEF TypeOK, Payload, Update

\* group_send leaves a member's queue as it is, or appends the payload to it.
LEMMA GroupSendQueue ==
  ASSUME TypeOK, NEW w \in Workers, GroupSend(w), NEW s \in Sockets
  PROVE  /\ ToSet(chan[s]) \subseteq ToSet(chan'[s])
         /\ ToSet(chan'[s]) \subseteq ToSet(chan[s]) \cup {Payload(w)}
         /\ s \in group /\ Len(chan[s]) < Capacity => Payload(w) \in ToSet(chan'[s])
<1>1. ToSet(Append(chan[s], Payload(w))) = ToSet(chan[s]) \cup {Payload(w)}
  BY PayloadType, ChanSeq
<1>2. CASE s \in group /\ Len(chan[s]) < Capacity
  <2>1. chan'[s] = Append(chan[s], Payload(w))
    BY <1>2 DEF GroupSend
  <2>2. QED
    BY <1>1, <2>1
<1>3. CASE ~(s \in group /\ Len(chan[s]) < Capacity)
  <2>1. chan'[s] = chan[s]
    BY <1>3 DEF GroupSend
  <2>2. QED
    BY <1>3, <2>1
<1>4. QED
  BY <1>2, <1>3

LEMMA BroadcastStep ==
  TypeOK /\ BroadcastsInOrder /\ BroadcastsAreCommitted /\ [Next]_vars
  => BroadcastsInOrder' /\ BroadcastsAreCommitted'
<1> SUFFICES ASSUME TypeOK, BroadcastsInOrder, BroadcastsAreCommitted, [Next]_vars
             PROVE  BroadcastsInOrder' /\ BroadcastsAreCommitted'
  OBVIOUS
<1> USE DEF BroadcastsInOrder, BroadcastsAreCommitted
<1>1. version \in Nat
      /\ \A w \in Workers : pub[w].entry \in Nat /\ pub[w].holdings \in Nat
  BY DEF TypeOK, Versions
<1>2. \A s \in Sockets : \A f \in ToSet(chan[s]) : f.entry \in Nat /\ f.holdings \in Nat
  BY ChanSeq
<1>3. ASSUME NEW w \in Workers, Commit(w)
      PROVE  BroadcastsInOrder' /\ BroadcastsAreCommitted'
  BY <1>1, <1>2, <1>3 DEF Commit, layer, TypeOK
<1>4. ASSUME NEW w \in Workers, ReadPositions(w)
      PROVE  BroadcastsInOrder' /\ BroadcastsAreCommitted'
  BY <1>1, <1>4 DEF ReadPositions, layer, TypeOK
<1>5. ASSUME NEW w \in Workers, GroupSend(w)
      PROVE  BroadcastsInOrder' /\ BroadcastsAreCommitted'
  <2>1. BroadcastsInOrder'
    BY <1>1, <1>5 DEF GroupSend, Idle, TypeOK
  <2>2. Payload(w).entry <= Payload(w).holdings /\ Payload(w).holdings <= version
    BY <1>1, <1>5 DEF Payload, GroupSend
  <2>3. ASSUME NEW s \in Sockets
        PROVE  ToSet(chan'[s]) \subseteq ToSet(chan[s]) \cup {Payload(w)}
    BY <1>5, GroupSendQueue
  <2>4. version' = version
    BY <1>5 DEF GroupSend
  <2>5. QED
    BY <2>1, <2>2, <2>3, <2>4
<1>6. ASSUME NEW w \in Workers, BroadcastFails(w)
      PROVE  BroadcastsInOrder' /\ BroadcastsAreCommitted'
  BY <1>1, <1>6 DEF BroadcastFails, Idle, TypeOK
<1>7. ASSUME NEW s \in Sockets, PortfolioUpdate(s)
      PROVE  BroadcastsInOrder' /\ BroadcastsAreCommitted'
  <2>1. ToSet(Tail(chan[s])) \subseteq ToSet(chan[s])
    BY <1>7, ChanSeq DEF PortfolioUpdate
  <2>2. UNCHANGED <<version, pub>> /\ chan' = [chan EXCEPT ![s] = Tail(chan[s])]
    BY <1>7 DEF PortfolioUpdate, server
  <2>3. QED
    BY <2>1, <2>2 DEF TypeOK
<1>8. QED
  BY <1>3, <1>4, <1>5, <1>6, <1>7, QueuesUnchanged DEF Broadcast

LEMMA BoundStep == TypeOK /\ QueuesBounded /\ [Next]_vars => QueuesBounded'
<1> SUFFICES ASSUME TypeOK, QueuesBounded, [Next]_vars
             PROVE  QueuesBounded'
  OBVIOUS
<1>1. \A s \in Sockets : chan[s] \in Seq(Update) /\ Len(chan[s]) \in Nat
  BY ChanSeq
<1>2. ASSUME NEW w \in Workers, GroupSend(w)
      PROVE  QueuesBounded'
  <2>1. ASSUME NEW s \in Sockets
        PROVE  Len(chan'[s]) <= Capacity
    <3>1. CASE s \in group /\ Len(chan[s]) < Capacity
      <4>1. chan'[s] = Append(chan[s], Payload(w))
        BY <1>2, <3>1 DEF GroupSend
      <4>2. QED
        BY <3>1, <4>1, PayloadType, ChanSeq
    <3>2. CASE ~(s \in group /\ Len(chan[s]) < Capacity)
      BY <1>2, <3>2 DEF GroupSend, QueuesBounded
    <3>3. QED
      BY <3>1, <3>2
  <2>2. QED
    BY <2>1 DEF QueuesBounded
<1>3. ASSUME NEW s \in Sockets, PortfolioUpdate(s)
      PROVE  QueuesBounded'
  <2>1. Len(Tail(chan[s])) = Len(chan[s]) - 1
    BY <1>3, ChanSeq DEF PortfolioUpdate
  <2>2. QED
    BY <1>1, <1>3, <2>1 DEF PortfolioUpdate, QueuesBounded, TypeOK
<1>4. CASE UNCHANGED chan
  BY <1>4 DEF QueuesBounded
<1>5. QED
  BY <1>2, <1>3, <1>4, QueuesUnchanged
     DEF Broadcast, Commit, ReadPositions, BroadcastFails, layer

-----------------------------------------------------------------------------
(* No entry is passed over.                                                *)

\* What is on its way to a member of the group stays so, whatever a handler of
\* a trade or a transfer does.
LEMMA ComingStays ==
  ASSUME TypeOK, QueuesBounded, NEW w \in Workers, Commit(w) \/ Broadcast(w),
         NEW s \in group, NEW v, Coming(s, v)
  PROVE  Coming(s, v)'
<1>1. s \in Sockets
  BY DEF TypeOK
<1>2. /\ \/ pub[w].step = "idle"
         \/ pub[w].entry # v
         \/ pub'[w].step # "idle" /\ pub'[w].entry = v
      /\ \A u \in Workers : u # w => pub'[u] = pub[u]
      /\ missed[s] \subseteq missed'[s]
      /\ ToSet(chan[s]) \subseteq ToSet(chan'[s])
      => Coming(s, v)'
  BY DEF Coming
<1>3. CASE Commit(w)
  <2>1. UNCHANGED <<chan, missed>> /\ pub[w].step = "idle"
    BY <1>3 DEF Commit, layer
  <2>2. \A u \in Workers : u # w => pub'[u] = pub[u]
    BY <1>3 DEF Commit, TypeOK
  <2>3. missed[s] \subseteq missed'[s]
    BY <2>1
  <2>4. ToSet(chan[s]) \subseteq ToSet(chan'[s])
    BY <2>1
  <2>5. QED
    BY <1>2, <2>1, <2>2, <2>3, <2>4
<1>4. CASE ReadPositions(w)
  <2>1. UNCHANGED <<chan, missed>>
    BY <1>4 DEF ReadPositions, layer
  <2>2. /\ pub'[w].step = "send" /\ pub'[w].entry = pub[w].entry
        /\ \A u \in Workers : u # w => pub'[u] = pub[u]
    BY <1>4 DEF ReadPositions, TypeOK
  <2>3. QED
    BY <1>2, <2>1, <2>2
<1>5. CASE GroupSend(w)
  <2>1. CASE pub[w].entry # v
    <3>1. ToSet(chan[s]) \subseteq ToSet(chan'[s])
      BY <1>1, <1>5, GroupSendQueue
    <3>2. missed[s] \subseteq missed'[s]
      BY <1>1, <1>5 DEF GroupSend
    <3>3. \A u \in Workers : u # w => pub'[u] = pub[u]
      BY <1>5 DEF GroupSend, TypeOK
    <3>4. QED
      BY <1>2, <2>1, <3>1, <3>2, <3>3
  <2>2. CASE pub[w].entry = v /\ Len(chan[s]) < Capacity
    <3>1. Payload(w) \in ToSet(chan'[s])
      BY <1>1, <1>5, <2>2, GroupSendQueue
    <3>2. Payload(w).entry = v
      BY <2>2 DEF Payload
    <3>3. QED
      BY <3>1, <3>2 DEF Coming
  <2>3. CASE pub[w].entry = v /\ Len(chan[s]) = Capacity
    BY <1>1, <1>5, <2>3 DEF GroupSend, Coming
  <2>4. QED
    BY <1>1, <2>1, <2>2, <2>3, ChanSeq DEF QueuesBounded
<1>6. CASE BroadcastFails(w)
  <2>1. CASE pub[w].entry # v
    <3>1. missed[s] \subseteq missed'[s] /\ chan' = chan
      BY <1>1, <1>6 DEF BroadcastFails
    <3>2. \A u \in Workers : u # w => pub'[u] = pub[u]
      BY <1>6 DEF BroadcastFails, TypeOK
    <3>3. QED
      BY <1>2, <2>1, <3>1, <3>2
  <2>2. CASE pub[w].entry = v
    BY <1>1, <1>6, <2>2 DEF BroadcastFails, Coming
  <2>3. QED
    BY <2>1, <2>2
<1>7. QED
  BY <1>3, <1>4, <1>5, <1>6 DEF Broadcast

\* What is committed is on its way.
LEMMA CommittedIsComing ==
  ASSUME TypeOK, NEW w \in Workers, Commit(w), NEW s, NEW v, v = version + 1
  PROVE  /\ version' = version + 1 /\ version \in Nat /\ Coming(s, v)'
         /\ trades' \subseteq trades \cup {v}
<1>1. pub'[w].step # "idle" /\ pub'[w].entry = version + 1
  BY DEF TypeOK, Commit
<1>2. version' = version + 1 /\ version \in Nat
  BY DEF TypeOK, Versions, Commit
<1>3. Coming(s, v)'
  BY <1>1 DEF Coming
<1>4. trades' \subseteq trades \cup {v}
  BY DEF Commit
<1>5. QED
  BY <1>2, <1>3, <1>4

\* The query of the history leaves out no trade that a list of HistoryLimit
\* trades has room for.
LEMMA NothingLeftOut ==
  ASSUME NEW list \in RecentTrades, NEW v \in trades
  PROVE  v \in list \/ OlderThan(list, v)
BY DEF RecentTrades

\* A consumer between group_add and the history was so before the step, or has
\* just joined, or has just read the history.
LEMMA GreetEntered ==
  ASSUME TypeOK, [Next]_vars, NEW s \in Sockets, s \in group',
         pc'[s] \in {"history", "greet"}
  PROVE  \/ s \in group /\ pc'[s] = pc[s] /\ since'[s] = since[s] /\ snapshot'[s] = snapshot[s]
         \/ UNCHANGED <<version, trades, pub, chan, missed>> /\ pc'[s] = "history"
            /\ since'[s] = version
         \/ UNCHANGED <<version, trades, pub, chan, missed, group>> /\ pc[s] = "history"
            /\ since'[s] = since[s] /\ snapshot'[s] \in RecentTrades
<1> DEFINE Same == /\ s \in group /\ pc'[s] = pc[s]
                   /\ since'[s] = since[s] /\ snapshot'[s] = snapshot[s]
           Joined == /\ UNCHANGED <<version, trades, pub, chan, missed>> /\ pc'[s] = "history"
                     /\ since'[s] = version
           Read == /\ UNCHANGED <<version, trades, pub, chan, missed, group>>
                   /\ pc[s] = "history"
                   /\ since'[s] = since[s] /\ snapshot'[s] \in RecentTrades
<1> USE DEF TypeOK, server, layer, Goto
<1>1. CASE UNCHANGED <<group, pc, since, snapshot>>
  BY <1>1
<1>2. ASSUME NEW r \in Sockets, JoinThenHistory(r)
      PROVE  Same \/ Joined \/ Read
  <2>1. CASE pc[r] = "join" /\ GroupAdd(r) /\ Goto(r, "history")
    <3>1. CASE r = s
      BY <2>1, <3>1 DEF GroupAdd
    <3>2. CASE r # s
      BY <2>1, <3>2 DEF GroupAdd
    <3>3. QED
      BY <3>1, <3>2
  <2>2. CASE pc[r] = "history" /\ QueryHistory(r) /\ Goto(r, "greet")
    <3>1. PICK list \in RecentTrades : snapshot' = [snapshot EXCEPT ![r] = list]
      BY <2>2 DEF QueryHistory
    <3>2. CASE r = s
      BY <2>2, <3>1, <3>2 DEF QueryHistory
    <3>3. CASE r # s
      BY <2>2, <3>1, <3>3 DEF QueryHistory
    <3>4. QED
      BY <3>2, <3>3
  <2>3. QED
    BY <1>2, <2>1, <2>2 DEF JoinThenHistory
<1>3. ASSUME NEW r \in Sockets, NEW p, p \notin {"history", "greet"},
             pc' = [pc EXCEPT ![r] = p],
             group' \subseteq group, UNCHANGED <<since, snapshot>>
      PROVE  Same
  BY <1>3
<1>4. ASSUME NEW r \in Sockets, CloseSocket(r), UNCHANGED <<group, since, snapshot>>
      PROVE  Same
  BY <1>4, <1>3 DEF CloseSocket, Raises
<1>5. ASSUME NEW r \in Sockets, NEW f, SendFrame(r, f), UNCHANGED <<group, since, snapshot>>
      PROVE  Same
  BY <1>5, <1>3 DEF SendFrame, Raises
<1>6. ASSUME NEW w \in Workers, Commit(w) \/ Broadcast(w)
      PROVE  UNCHANGED <<group, pc, since, snapshot>>
  BY <1>6 DEF Commit, Broadcast, ReadPositions, GroupSend, BroadcastFails, socket
<1>7. ASSUME NEW r \in Sockets,
             AuthTimeout(r) \/ Expire(r) \/ ClientSends(r) \/ ClientCloses(r)
      PROVE  Same
  BY <1>7 DEF AuthTimeout, Expire, ClientSends, ClientCloses, socket
<1>8. ASSUME NEW r \in Sockets, Connect(r) \/ Die(r) \/ Disconnect(r)
      PROVE  Same
  BY <1>8 DEF Connect, Die, Disconnect
<1>9. ASSUME NEW r \in Sockets, Receive(r) \/ Validate(r) \/ CheckOwner(r)
      PROVE  Same
  BY <1>9, <1>1, <1>3, <1>4 DEF Receive, Validate, CheckOwner
<1>10. ASSUME NEW r \in Sockets, Greet(r) \/ PortfolioUpdate(r)
       PROVE  Same
  BY <1>10, <1>5 DEF Greet, PortfolioUpdate
<1>11. UNCHANGED vars => UNCHANGED <<group, pc, since, snapshot>>
  BY DEF vars, socket
<1>12. QED
  BY <1>1, <1>2, <1>6, <1>7, <1>8, <1>9, <1>10, <1>11 DEF Next, Consume

\* What is on its way to a member stays so until its consumer handles it.
LEMMA ComingKept ==
  ASSUME TypeOK, QueuesBounded, [Next]_vars, NEW s \in group, ~PortfolioUpdate(s),
         NEW v, Coming(s, v)
  PROVE  Coming(s, v)'
<1>1. ASSUME NEW r \in Sockets, PortfolioUpdate(r)
      PROVE  Coming(s, v)'
  <2>1. chan'[s] = chan[s] /\ UNCHANGED <<pub, missed>>
    BY <1>1 DEF PortfolioUpdate, server, TypeOK
  <2>2. QED
    BY <2>1 DEF Coming
<1>2. CASE UNCHANGED <<version, trades, pub, chan, missed>>
  BY <1>2 DEF Coming
<1>3. QED
  BY <1>1, <1>2, ComingStays, QueuesUnchanged

\* An entry is new, or was there before the step with its kind.
LEMMA EntryBefore ==
  ASSUME TypeOK, [Next]_vars, NEW v \in 1..version'
  PROVE  \/ v \in 1..version /\ (v \in trades' => v \in trades)
         \/ \A s : Coming(s, v)'
<1>1. CASE UNCHANGED <<version, trades>>
  BY <1>1
<1>2. ASSUME NEW w \in Workers, Commit(w)
      PROVE  \/ v \in 1..version /\ (v \in trades' => v \in trades)
             \/ \A s : Coming(s, v)'
  <2>1. CASE v = version + 1
    BY <1>2, <2>1, CommittedIsComing
  <2>2. CASE v # version + 1
    BY <1>2, <2>2 DEF Commit, TypeOK, Versions
  <2>3. QED
    BY <2>1, <2>2
<1>3. ASSUME NEW w \in Workers, Broadcast(w)
      PROVE  UNCHANGED <<version, trades>>
  BY <1>3 DEF Broadcast, ReadPositions, GroupSend, BroadcastFails
<1>4. ASSUME NEW r \in Sockets, PortfolioUpdate(r)
      PROVE  UNCHANGED <<version, trades>>
  BY <1>4 DEF PortfolioUpdate, server
<1>5. QED
  BY <1>1, <1>2, <1>3, <1>4, QueuesUnchanged

LEMMA AheadStep ==
  TypeOK /\ QueuesBounded /\ NoGapAhead /\ [Next]_vars => NoGapAhead'
<1> DEFINE Left(s, v) == Coming(s, v) \/ v \in snapshot[s] \/ OlderThan(snapshot[s], v)
<1> SUFFICES ASSUME TypeOK, QueuesBounded, NoGapAhead, [Next]_vars,
                    NEW s \in Sockets, s \in group', pc'[s] \in {"history", "greet"},
                    NEW v \in 1..version'
             PROVE  /\ v > since'[s] => Coming(s, v)'
                    /\ pc'[s] = "greet" /\ v \in trades' => Left(s, v)'
  BY NextTypes DEF NoGapAhead, TypeOK
<1>1. CASE \A u : Coming(u, v)'
  BY <1>1
<1>2. CASE v \in 1..version /\ (v \in trades' => v \in trades)
  <2>1. CASE /\ s \in group /\ pc'[s] = pc[s]
             /\ since'[s] = since[s] /\ snapshot'[s] = snapshot[s]
    <3>1. Coming(s, v) => Coming(s, v)'
      BY <2>1, ComingKept DEF PortfolioUpdate
    <3>2. v > since[s] => Coming(s, v)
      BY <1>2, <2>1 DEF NoGapAhead
    <3>3. pc[s] = "greet" /\ v \in trades => Left(s, v)
      BY <1>2, <2>1 DEF NoGapAhead
    <3>4. Left(s, v) => Left(s, v)'
      BY <2>1, <3>1 DEF OlderThan
    <3>5. QED
      BY <1>2, <2>1, <3>1, <3>2, <3>3, <3>4
  <2>2. CASE since'[s] = version /\ version' = version /\ pc'[s] = "history"
    BY <2>2 DEF TypeOK, Versions
  \* The query of the history leads here, and its answer leaves nothing out.
  <2>3. CASE /\ UNCHANGED <<version, trades, pub, chan, missed, group>>
             /\ pc[s] = "history" /\ since'[s] = since[s] /\ snapshot'[s] \in RecentTrades
    <3>1. v > since[s] => Coming(s, v)
      BY <1>2, <2>3 DEF NoGapAhead
    <3>2. Coming(s, v) => Coming(s, v)'
      BY <2>3 DEF Coming
    <3>3. v \in trades' => v \in snapshot'[s] \/ OlderThan(snapshot'[s], v)
      BY <2>3, NothingLeftOut
    <3>4. QED
      BY <2>3, <3>1, <3>2, <3>3 DEF OlderThan
  <2>4. QED
    BY <2>1, <2>2, <2>3, GreetEntered
<1>3. QED
  BY <1>1, <1>2, EntryBefore

\* What a socket has been told of stays told.
LEMMA ToldStays ==
  ASSUME NEW s, ToSet(received[s]) \subseteq ToSet(received'[s]), NEW v
  PROVE  /\ v \in ToldOf(s) => v \in ToldOf(s)'
         /\ BeforeHistory(s, v) => BeforeHistory(s, v)'
BY DEF ToldOf, BeforeHistory, OlderThan

\* A message that is handled while the socket is up is told.
LEMMA HandledIsTold ==
  ASSUME TypeOK, NEW s \in Sockets, NEW f \in Update \cup History, SendFrame(s, f),
         wire[s] = "up"
  PROVE  ToSet(received'[s]) = ToSet(received[s]) \cup {f}
<1>1. received'[s] = Append(received[s], f)
  BY DEF SendFrame, Raises, TypeOK
<1>2. QED
  BY <1>1, ReceivedSeq

\* Who is a member, up, and has been told something, was so before the step,
\* unless the step told him.
LEMMA MemberBefore ==
  ASSUME TypeOK, AuthOnce, Greeted, [Next]_vars,
         \A r \in Sockets : ~Greet(r) /\ ~PortfolioUpdate(r),
         NEW s \in Sockets, s \in group', wire'[s] = "up", received'[s] # <<>>
  PROVE  s \in group /\ wire[s] = "up" /\ UNCHANGED received /\ since'[s] = since[s]
<1> USE DEF TypeOK, server, layer
<1> DEFINE Before == /\ s \in group /\ wire[s] = "up"
                     /\ UNCHANGED received /\ since'[s] = since[s]
<1>1. CASE UNCHANGED vars
  BY <1>1 DEF vars, socket
<1>2. ASSUME NEW w \in Workers, Commit(w) \/ Broadcast(w)
      PROVE  Before
  BY <1>2 DEF Commit, Broadcast, ReadPositions, GroupSend, BroadcastFails, socket
<1>3. ASSUME NEW r \in Sockets, Connect(r)
      PROVE  Before
  BY <1>3 DEF Connect, AuthOnce
<1>4. ASSUME NEW r \in Sockets, JoinThenHistory(r)
      PROVE  Before
  <2>1. received[r] = <<>> /\ received' = received
    BY <1>4 DEF JoinThenHistory, GroupAdd, QueryHistory, Greeted, Joining
  <2>2. QED
    BY <1>4, <2>1 DEF JoinThenHistory, GroupAdd, QueryHistory
<1>5. ASSUME NEW r \in Sockets, Receive(r) \/ Validate(r) \/ CheckOwner(r)
      PROVE  Before
  BY <1>5 DEF Receive, Validate, CheckOwner, CloseSocket, Raises
<1>6. ASSUME NEW r \in Sockets,
             \/ Disconnect(r) \/ AuthTimeout(r) \/ Die(r)
             \/ Expire(r) \/ ClientSends(r) \/ ClientCloses(r)
      PROVE  Before
  BY <1>6 DEF Disconnect, AuthTimeout, Die, Expire, ClientSends, ClientCloses, socket
<1>7. QED
  BY <1>1, <1>2, <1>3, <1>4, <1>5, <1>6 DEF Next, Consume

\* What NoGap says of one entry.
Accounted(s, v) ==
  /\ v > since[s] => v \in ToldOf(s) \/ Coming(s, v)
  /\ v \in trades => v \in ToldOf(s) \/ Coming(s, v) \/ BeforeHistory(s, v)

LEMMA GapStep ==
  TypeOK /\ AuthOnce /\ Greeted /\ QueuesBounded /\ NoGapAhead /\ NoGap /\ [Next]_vars
  => NoGap'
<1> SUFFICES ASSUME TypeOK, AuthOnce, Greeted, QueuesBounded, NoGapAhead, NoGap, [Next]_vars,
                    NEW s \in Sockets, s \in group', wire'[s] = "up", received'[s] # <<>>,
                    NEW v \in 1..version'
             PROVE  Accounted(s, v)'
  BY NextTypes DEF NoGap, Accounted, TypeOK
<1>1. CASE \A u : Coming(u, v)'
  BY <1>1 DEF Accounted
<1>2. CASE v \in 1..version /\ (v \in trades' => v \in trades)
  <2>1. s \in group /\ wire[s] = "up" /\ received[s] # <<>> => Accounted(s, v)
    BY <1>2 DEF NoGap, Accounted
  \* A step after which s has been told no less and expects no less.
  <2>2. ASSUME s \in group, wire[s] = "up", received[s] # <<>>, since'[s] = since[s],
               ToSet(received[s]) \subseteq ToSet(received'[s]),
               Coming(s, v) => Coming(s, v)' \/ v \in ToldOf(s)'
        PROVE  Accounted(s, v)'
    BY <1>2, <2>1, <2>2, ToldStays DEF Accounted
  <2>3. CASE \A r \in Sockets : ~Greet(r) /\ ~PortfolioUpdate(r)
    <3>1. s \in group /\ wire[s] = "up" /\ received' = received /\ since'[s] = since[s]
      BY <2>3, MemberBefore
    <3>2. Coming(s, v) => Coming(s, v)'
      BY <2>3, <3>1, ComingKept
    <3>3. QED
      BY <2>2, <3>1, <3>2
  <2>4. ASSUME NEW r \in Sockets, PortfolioUpdate(r)
        PROVE  Accounted(s, v)'
    <3>1. /\ UNCHANGED <<version, pub, missed, group, wire, since>>
          /\ SendFrame(r, Head(chan[r])) /\ pc[r] = "open"
          /\ chan' = [chan EXCEPT ![r] = Tail(chan[r])] /\ chan[r] # <<>>
      BY <2>4 DEF PortfolioUpdate, server
    <3>2. CASE r # s
      <4>1. received'[s] = received[s] /\ chan'[s] = chan[s]
        BY <3>1, <3>2 DEF SendFrame, TypeOK
      <4>2. Coming(s, v) => Coming(s, v)'
        BY <3>1, <4>1 DEF Coming
      <4>3. QED
        BY <2>2, <3>1, <4>1, <4>2
    <3>3. CASE r = s
      <4>1. received[s] # <<>>
        BY <3>1, <3>3 DEF Greeted, AuthOnce
      <4>2. Head(chan[s]) \in Update
        BY <2>4, <3>3, FramesSent
      <4>3. ToSet(received'[s]) = ToSet(received[s]) \cup {Head(chan[s])}
        BY <3>1, <3>3, <4>2, HandledIsTold
      <4>4. ToSet(chan[s]) = {Head(chan[s])} \cup ToSet(chan'[s])
        BY <3>1, <3>3, ChanSeq DEF TypeOK
      <4>5. v = Head(chan[s]).entry => v \in ToldOf(s)'
        BY <4>2, <4>3 DEF ToldOf, Update, Versions
      <4>6. Coming(s, v) => Coming(s, v)' \/ v \in ToldOf(s)'
        BY <3>1, <4>4, <4>5 DEF Coming
      <4>7. QED
        BY <2>2, <3>1, <4>1, <4>3, <4>6
    <3>4. QED
      BY <3>2, <3>3
  <2>5. ASSUME NEW r \in Sockets, Greet(r)
        PROVE  Accounted(s, v)'
    <3>1. /\ UNCHANGED <<version, trades, pub, chan, missed, group, wire, since>>
          /\ SendFrame(r, [type |-> "history", trades |-> snapshot[r]]) /\ pc[r] = "greet"
      BY <2>5 DEF Greet, server, layer
    <3>2. Coming(s, v) => Coming(s, v)'
      BY <3>1 DEF Coming
    <3>3. CASE r # s
      <4>1. received'[s] = received[s]
        BY <3>1, <3>3 DEF SendFrame, TypeOK
      <4>2. QED
        BY <2>2, <3>1, <3>2, <4>1
    <3>4. CASE r = s
      <4> DEFINE h == [type |-> "history", trades |-> snapshot[s]]
      <4>1. h \in History
        BY <2>5, <3>4, FramesSent
      <4>2. h \in ToSet(received'[s])
        BY <3>1, <3>4, <4>1, HandledIsTold
      <4>3. v \in snapshot[s] => v \in ToldOf(s)'
        BY <3>1, <4>2 DEF ToldOf, TypeOK
      <4>4. OlderThan(snapshot[s], v) => BeforeHistory(s, v)'
        BY <4>2 DEF BeforeHistory, OlderThan
      <4>5. /\ v > since[s] => Coming(s, v)
            /\ v \in trades => Coming(s, v) \/ v \in snapshot[s] \/ OlderThan(snapshot[s], v)
        BY <1>2, <3>1, <3>4 DEF NoGapAhead
      <4>6. QED
        BY <3>1, <3>2, <4>3, <4>4, <4>5 DEF Accounted
    <3>5. QED
      BY <3>3, <3>4
  <2>6. QED
    BY <2>3, <2>4, <2>5
<1>3. QED
  BY <1>1, <1>2, EntryBefore
-----------------------------------------------------------------------------
(* The theorems.                                                           *)

LEMMA StepIInv == IInv /\ [Next]_vars => IInv'
BY NextTypes, AuthStep, GreetedStep, HistoryStep, BroadcastStep, BoundStep, AheadStep, GapStep
   DEF IInv

LEMMA Invariant == Spec => []IInv
BY InitIInv, StepIInv, PTL DEF Spec

\* Every variable of the broadcast path keeps its type: in particular no queue
\* of the channel layer ever holds anything but an update.
THEOREM TypeCorrect == Spec => []TypeOK
<1>1. IInv => TypeOK
  BY DEF IInv
<1>2. QED
  BY <1>1, Invariant, PTL

\* receive() lets a client in only by a token of the portfolio's owner, and
\* nothing the client sends afterwards, no timeout and no broadcast between two
\* awaits tells anybody else anything, however many sockets there are.
THEOREM OnlyOwner == Spec => []OnlyOwnerIsTold
<1>1. IInv => OnlyOwnerIsTold
  BY DEF IInv, AuthOnce, OnlyOwnerIsTold
<1>2. QED
  BY <1>1, Invariant, PTL

\* receive() sends the trade history after joining the group, yet a broadcast
\* that arrives in between is not handled before it: the history is the first
\* thing the client gets, and it gets it once.
THEOREM HistoryFirst == Spec => []HistoryComesFirst
<1>1. IInv => HistoryComesFirst
  BY DEF IInv
<1>2. QED
  BY <1>1, Invariant, PTL

\* _broadcast_portfolio_update runs after the commit and reads the positions
\* then: whatever other handlers do meanwhile, a queued message tells of a
\* committed entry, with holdings at least as new as its cash.
THEOREM CommittedBroadcasts == Spec => []BroadcastsAreCommitted
<1>1. IInv => BroadcastsAreCommitted
  BY DEF IInv
<1>2. QED
  BY <1>1, Invariant, PTL

\* group_add comes before the query of the recent trades: for any number of
\* handlers that commit and broadcast meanwhile, any length of the history and
\* any capacity of the channel layer, no trade falls between the history and the
\* live updates, and no transfer committed since the socket joined is passed over.
THEOREM GapFree == Spec => []NoGap
<1>1. IInv => NoGap
  BY DEF IInv
<1>2. QED
  BY <1>1, Invariant, PTL
=============================================================================
