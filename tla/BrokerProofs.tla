---------------------------- MODULE BrokerProofs ----------------------------
(***************************************************************************)
(* Proofs about BrokerSession, for any number of concurrent requests, any  *)
(* clock resolution, any lag of Redis and any number of logins.            *)
(***************************************************************************)
EXTENDS BrokerSession, TLAPS

USE BrokerSessionAssumption

-----------------------------------------------------------------------------
(* The arithmetic of the TTL.                                              *)

\* Whole seconds never add up to more than the ticks they were taken from.
LEMMA WholeSeconds ==
  ASSUME NEW t \in Nat, NEW d \in Nat \ {0}
  PROVE  /\ t \div d \in Nat
         /\ (t \div d) * d \in Nat
         /\ (t \div d) * d <= t
         /\ t < (t \div d + 1) * d
<1>1. t \div d \in Nat
  OBVIOUS
<1>2. t = d * (t \div d) + (t % d) /\ t % d \in 0 .. d - 1
  OBVIOUS
<1>3. /\ (t \div d) * d = d * (t \div d)
      /\ (t \div d + 1) * d = d * (t \div d) + d
      /\ d * (t \div d) \in Nat
  BY <1>1
<1>4. QED
  BY <1>1, <1>2, <1>3

LEMMA DayTicksPositive == DayTicks \in Nat \ {0}
<1>1. \A m, n \in Nat \ {0} : m * n \in Nat \ {0}
  OBVIOUS
<1>2. QED
  BY <1>1 DEF DayTicks

\* The next midnight is ahead, and a TTL for it does not go past it.
LEMMA TTL ==
  ASSUME NEW t \in Nat
  PROVE  /\ NextMidnight(t) \in Nat
         /\ t < NextMidnight(t)
         /\ SecondsLeft(t) \in Nat
         /\ SecondsLeft(t) * TicksPerSecond \in Nat
         /\ t + SecondsLeft(t) * TicksPerSecond <= NextMidnight(t)
<1>1. t \div DayTicks \in Nat /\ t < NextMidnight(t)
  BY WholeSeconds, DayTicksPositive DEF NextMidnight
<1>2. \A m, n \in Nat : m * n \in Nat
  OBVIOUS
<1>3. NextMidnight(t) \in Nat
  BY <1>1, <1>2, DayTicksPositive DEF NextMidnight
<1>4. NextMidnight(t) - t \in Nat
  BY <1>1, <1>3
<1>5. /\ SecondsLeft(t) \in Nat
      /\ SecondsLeft(t) * TicksPerSecond \in Nat
      /\ SecondsLeft(t) * TicksPerSecond <= NextMidnight(t) - t
  BY <1>4, WholeSeconds DEF SecondsLeft
<1>6. QED
  BY <1>1, <1>3, <1>5

\* A TTL of at least a second ends in the future.
LEMMA TTLPositive ==
  ASSUME NEW t \in Nat, SecondsLeft(t) # 0
  PROVE  SecondsLeft(t) * TicksPerSecond > 0
<1>1. SecondsLeft(t) \in Nat \ {0}
  BY TTL
<1>2. \A m, n \in Nat \ {0} : m * n > 0
  OBVIOUS
<1>3. QED
  BY <1>1, <1>2

LEMMA CooldownTicks == Cooldown * TicksPerSecond \in Nat \ {0}
<1>1. \A m, n \in Nat \ {0} : m * n \in Nat \ {0}
  OBVIOUS
<1>2. QED
  BY <1>1

-----------------------------------------------------------------------------
(* The inductive invariant.                                                *)

HasSession == {"store", "tell", "delete"}

\* The sessions the workers and Redis hold were issued.
HeldIssued ==
  /\ session.id <= issued
  /\ ended \subseteq 1..issued
  /\ \A w \in Workers : pc[w] \in HasSession => held[w] \in 1..issued

\* The session a login is about to store is known to nobody else.
NewSessions ==
  \A w \in Workers :
    pc[w] = "store" =>
      /\ held[w] \notin ended
      /\ held[w] # session.id
      /\ \A v \in Workers \ {w} : pc[v] \in HasSession => held[v] # held[w]

\* What Redis was told about the life of the session, and how old a clock
\* reading can be when Redis gets the TTL computed from it.
LifeBounded == Cached => session.until <= NextMidnight(session.read) + MaxLag
ReadInTime == \A w \in Workers : pc[w] = "store" => now <= stamp[w] + MaxLag

\* The cooldown key stands for the login that was let through last.
CooldownHolds ==
  /\ cooldown > 0 => cooldown = admitted + Cooldown * TicksPerSecond
  /\ cooldown = 0 => now >= admitted + Cooldown * TicksPerSecond

Quiet == off => ~Cached /\ NoLoginRuns

IInv ==
  /\ TypeOK
  /\ HeldIssued
  /\ NewSessions
  /\ LoggedOutStaysOut
  /\ LifeBounded
  /\ ReadInTime
  /\ CooldownHolds
  /\ Quiet

LEMMA InitIInv == Init => IInv
<1>1. SUFFICES ASSUME Init PROVE IInv
  OBVIOUS
<1>2. TypeOK
  <2>1. admitted \in Int
    BY <1>1, CooldownTicks DEF Init
  <2>2. linked \in BOOLEAN /\ off \in BOOLEAN
    BY <1>1 DEF Init
  <2>3. /\ now = 0 /\ cooldown = 0 /\ issued \in 0..MaxLogins /\ ended \subseteq 1..MaxLogins
        /\ session \in {NoSession} /\ ~Cached
        /\ pc \in [Workers -> Steps]
        /\ held \in [Workers -> 0..MaxLogins]
        /\ stamp \in [Workers -> 0..now]
    BY <1>1 DEF Init, Cached, Steps
  <2>4. QED
    BY <2>1, <2>2, <2>3 DEF TypeOK
<1>3. HeldIssued /\ NewSessions /\ LoggedOutStaysOut /\ LifeBounded /\ ReadInTime /\ Quiet
  BY <1>1 DEF Init, HeldIssued, NewSessions, HasSession, LoggedOutStaysOut,
              LifeBounded, ReadInTime, Quiet, Cached, NoSession
<1>4. CooldownHolds
  BY <1>1, CooldownTicks DEF Init, CooldownHolds
<1>5. QED
  BY <1>2, <1>3, <1>4 DEF IInv

-----------------------------------------------------------------------------
(* Each action preserves the invariant.                                    *)

\* A step that touches neither Redis, the clock nor the sessions and takes one
\* worker to a step where it holds none and is not logging in.
LEMMA LeaveStep ==
  ASSUME IInv, NEW w \in Workers, NEW step \in Steps \ (HasSession \cup LoggingIn),
         UNCHANGED <<now, issued, redis, ghosts>>, linked' \in BOOLEAN,
         pc' = [pc EXCEPT ![w] = step],
         held' \in {held, [held EXCEPT ![w] = 0]},
         stamp' \in {stamp, [stamp EXCEPT ![w] = 0]}
  PROVE  IInv'
<1> USE DEF redis, ghosts
<1>1. /\ \A v \in Workers : v # w => pc'[v] = pc[v] /\ held'[v] = held[v] /\ stamp'[v] = stamp[v]
      /\ pc'[w] = step /\ step \notin HasSession /\ step \notin LoggingIn
  BY DEF IInv, TypeOK
<1>2. TypeOK'
  <2>1. pc' \in [Workers -> Steps] /\ held' \in [Workers -> 0..MaxLogins] /\ stamp' \in [Workers -> 0..now]
    BY DEF IInv, TypeOK
  <2>2. QED
    BY <2>1 DEF IInv, TypeOK, Cached
<1>3. HeldIssued' /\ NewSessions' /\ LoggedOutStaysOut'
  BY <1>1 DEF IInv, HeldIssued, NewSessions, HasSession, LoggedOutStaysOut, Cached
<1>4. LifeBounded' /\ ReadInTime' /\ CooldownHolds'
  BY <1>1 DEF IInv, LifeBounded, ReadInTime, CooldownHolds, HasSession, Cached, NextMidnight
<1>5. Quiet'
  BY <1>1 DEF IInv, Quiet, Cached, NoLoginRuns
<1>6. QED
  BY <1>2, <1>3, <1>4, <1>5 DEF IInv

\* A step that only takes one worker on; if it is to a step of a login, no
\* logout is taken to have left the user disconnected.
LEMMA GotoStep ==
  ASSUME IInv, NEW w \in Workers, NEW step \in Steps \ {"store"},
         UNCHANGED <<now, rows, redis, held, stamp, admitted, ended>>,
         pc' = [pc EXCEPT ![w] = step],
         step \in HasSession => pc[w] \in HasSession \ {"store"},
         off' \in {off, FALSE}, step \in LoggingIn => off' = FALSE
  PROVE  IInv'
<1> USE DEF redis, rows
<1>1. /\ \A v \in Workers : v # w => pc'[v] = pc[v]
      /\ pc'[w] = step
  BY DEF IInv, TypeOK
<1>2. TypeOK'
  <2>1. pc' \in [Workers -> Steps]
    BY DEF IInv, TypeOK
  <2>2. QED
    BY <2>1 DEF IInv, TypeOK, Cached
<1>3. HeldIssued' /\ NewSessions' /\ LoggedOutStaysOut'
  BY <1>1 DEF IInv, HeldIssued, NewSessions, HasSession, LoggedOutStaysOut, Cached
<1>4. LifeBounded' /\ ReadInTime' /\ CooldownHolds'
  BY <1>1 DEF IInv, LifeBounded, ReadInTime, CooldownHolds, HasSession, Cached, NextMidnight
<1>5. Quiet'
  BY <1>1 DEF IInv, Quiet, Cached, NoLoginRuns
<1>6. QED
  BY <1>2, <1>3, <1>4, <1>5 DEF IInv

LEMMA TickStep ==
  ASSUME IInv, Tick
  PROVE  IInv'
<1> USE DEF rows, local, ghosts
<1>1. now \in Nat /\ now' = now + 1
  BY DEF IInv, TypeOK, Tick
<1>2. session' = NoSession \/ (session' = session /\ session.until > now')
  BY DEF Tick
<1>3. cooldown' = 0 \/ (cooldown' = cooldown /\ cooldown > now')
  BY DEF Tick
<1>4. Cached' => Cached
  BY <1>2 DEF Cached
<1>5. TypeOK'
  <2>1. stamp' \in [Workers -> 0..now']
    <3>1. 0..now \subseteq 0..now'
      BY <1>1
    <3>2. QED
      BY <3>1 DEF Tick, IInv, TypeOK
  <2>2. session' \in [id: 1..MaxLogins, read: 0..now', until: Nat] \cup {NoSession}
    BY <1>1, <1>2 DEF IInv, TypeOK
  <2>3. Cached' => session'.until > now'
    BY <1>2 DEF Cached
  <2>4. cooldown' \in Nat /\ (cooldown' > 0 => cooldown' > now')
    BY <1>1, <1>3 DEF IInv, TypeOK
  <2>5. QED
    BY <1>1, <2>1, <2>2, <2>3, <2>4 DEF Tick, IInv, TypeOK
<1>6. HeldIssued' /\ NewSessions' /\ LoggedOutStaysOut'
  <2>1. session'.id = session.id \/ session'.id = 0
    BY <1>2 DEF NoSession
  <2>2. \A w \in Workers : pc[w] = "store" => held[w] # 0
    BY DEF IInv, HeldIssued, HasSession
  <2>3. QED
    BY <1>2, <1>4, <2>1, <2>2
       DEF Tick, IInv, TypeOK, HeldIssued, NewSessions, HasSession, LoggedOutStaysOut, Cached
<1>7. LifeBounded'
  BY <1>2, <1>4 DEF IInv, LifeBounded, Cached, NextMidnight
<1>8. ReadInTime'
  <2>1. \A w \in Workers : stamp[w] \in Nat
    BY DEF IInv, TypeOK
  <2>2. QED
    BY <1>1, <2>1 DEF Tick, ReadInTime
<1>9. CooldownHolds'
  <2>1. Cooldown * TicksPerSecond \in Nat
    BY CooldownTicks
  <2>2. QED
    BY <1>1, <1>3, <2>1 DEF Tick, IInv, TypeOK, CooldownHolds
<1>10. Quiet'
  BY <1>4 DEF Tick, IInv, Quiet, NoLoginRuns
<1>11. QED
  BY <1>5, <1>6, <1>7, <1>8, <1>9, <1>10 DEF IInv

LEMMA DeleteLinkStep ==
  ASSUME IInv, DeleteLink
  PROVE  IInv'
<1> USE DEF redis, local, ghosts, DeleteLink
<1>1. TypeOK'
  BY DEF IInv, TypeOK, Cached
<1>2. HeldIssued' /\ NewSessions' /\ LoggedOutStaysOut' /\ Quiet'
  BY DEF IInv, HeldIssued, NewSessions, LoggedOutStaysOut, Quiet, Cached, NoLoginRuns
<1>3. LifeBounded' /\ ReadInTime' /\ CooldownHolds'
  BY DEF IInv, LifeBounded, ReadInTime, CooldownHolds, Cached, NextMidnight
<1>4. QED
  BY <1>1, <1>2, <1>3 DEF IInv

LEMMA EnforceCooldownStep ==
  ASSUME IInv, NEW w \in Workers, EnforceCooldown(w)
  PROVE  IInv'
<1>1. CASE cooldown > 0
  BY <1>1, LeaveStep DEF EnforceCooldown, Done, Steps, HasSession, LoggingIn, rows,
                         redis, ghosts, IInv, TypeOK
<1>2. CASE cooldown = 0
  <2> USE DEF EnforceCooldown, Goto, rows
  <2>1. /\ pc' = [pc EXCEPT ![w] = "call"] /\ pc[w] = "cooldown"
        /\ cooldown' = now + Cooldown * TicksPerSecond /\ admitted' = now
        /\ UNCHANGED <<now, linked, issued, session, held, stamp, ended, off>>
    BY <1>2
  <2>2. /\ \A v \in Workers : v # w => pc'[v] = pc[v]
        /\ pc'[w] = "call"
    BY <2>1 DEF IInv, TypeOK
  <2>3. now \in Nat /\ cooldown' \in Nat /\ cooldown' > now
    BY <2>1, CooldownTicks DEF IInv, TypeOK
  <2>4. TypeOK'
    <3>1. pc' \in [Workers -> Steps]
      BY <2>1 DEF IInv, TypeOK, Steps, LoggingIn
    <3>2. QED
      BY <2>1, <2>3, <3>1 DEF IInv, TypeOK, Cached
  <2>5. HeldIssued' /\ NewSessions' /\ LoggedOutStaysOut'
    BY <2>1, <2>2 DEF IInv, HeldIssued, NewSessions, HasSession, LoggedOutStaysOut, Cached
  <2>6. LifeBounded' /\ ReadInTime'
    BY <2>1, <2>2 DEF IInv, LifeBounded, ReadInTime, Cached, NextMidnight
  <2>7. CooldownHolds'
    BY <2>1, <2>3, CooldownTicks DEF CooldownHolds
  <2>8. Quiet'
    BY <2>1, <2>2 DEF IInv, Quiet, Cached, NoLoginRuns, LoggingIn
  <2>9. QED
    BY <2>4, <2>5, <2>6, <2>7, <2>8 DEF IInv
<1>3. QED
  BY <1>1, <1>2 DEF EnforceCooldown

\* The broker hands over a session.
LEMMA SessionIssuedStep ==
  ASSUME IInv, NEW w \in Workers,
         pc[w] = "call", issued < MaxLogins, issued' = issued + 1,
         pc' = [pc EXCEPT ![w] = "store"],
         held' = [held EXCEPT ![w] = issued'],
         stamp' = [stamp EXCEPT ![w] = now],
         UNCHANGED <<now, linked, redis, ghosts>>
  PROVE  IInv'
<1> USE DEF redis, ghosts
<1>1. /\ issued' = issued + 1 /\ issued \in Nat /\ issued' \in 1..MaxLogins
      /\ now \in Nat
  BY DEF IInv, TypeOK
<1>2. /\ \A v \in Workers : v # w => pc'[v] = pc[v] /\ held'[v] = held[v] /\ stamp'[v] = stamp[v]
      /\ pc[w] = "call" /\ pc'[w] = "store" /\ held'[w] = issued' /\ stamp'[w] = now
  BY DEF IInv, TypeOK
<1>3. TypeOK'
  <2>1. /\ pc' \in [Workers -> Steps]
        /\ held' \in [Workers -> 0..MaxLogins]
        /\ stamp' \in [Workers -> 0..now]
    BY <1>1 DEF IInv, TypeOK, Steps, LoggingIn
  <2>2. QED
    BY <1>1, <2>1 DEF IInv, TypeOK, Cached
<1>4. HeldIssued'
  <2>1. 1..issued \subseteq 1..issued' /\ issued' \in 1..issued'
    BY <1>1
  <2>2. session'.id <= issued'
    BY <1>1 DEF IInv, TypeOK, HeldIssued, NoSession
  <2>3. QED
    BY <1>2, <2>1, <2>2 DEF IInv, HeldIssued, HasSession
<1>5. /\ issued' \notin ended
      /\ issued' # session.id
      /\ \A v \in Workers : pc[v] \in HasSession => held[v] # issued'
  BY <1>1 DEF IInv, TypeOK, HeldIssued, NoSession
<1>6. NewSessions' /\ LoggedOutStaysOut'
  BY <1>2, <1>5 DEF IInv, NewSessions, HasSession, LoggedOutStaysOut, Cached
<1>7. LifeBounded' /\ ReadInTime' /\ CooldownHolds'
  BY <1>1, <1>2 DEF IInv, LifeBounded, ReadInTime, CooldownHolds, Cached, NextMidnight
<1>8. Quiet'
  BY <1>2 DEF IInv, Quiet, Cached, NoLoginRuns, LoggingIn
<1>9. QED
  BY <1>3, <1>4, <1>6, <1>7, <1>8 DEF IInv

\* After Store, the key is gone or holds a session that ends in time.
LEMMA StoreStep ==
  ASSUME IInv, NEW w \in Workers, Store(w)
  PROVE  IInv'
<1> DEFINE ttl == SecondsLeft(stamp[w])
           life == ttl * TicksPerSecond
<1>1. /\ now \in Nat /\ stamp[w] \in Nat /\ stamp[w] <= now /\ now <= stamp[w] + MaxLag
      /\ held[w] \in 1..MaxLogins /\ held[w] \in 1..issued /\ issued \in Nat
  BY DEF Store, IInv, TypeOK, ReadInTime, HeldIssued, HasSession
<1>2. /\ life \in Nat /\ NextMidnight(stamp[w]) \in Nat
      /\ stamp[w] + life <= NextMidnight(stamp[w])
      /\ ttl # 0 => life > 0
  BY <1>1, TTL, TTLPositive
<1>3. /\ \A v \in Workers : v # w => pc'[v] = pc[v] /\ held'[v] = held[v] /\ stamp'[v] = stamp[v]
      /\ pc[w] = "store" /\ pc'[w] = "idle"
      /\ UNCHANGED <<now, linked, issued, cooldown, admitted, ended, off>>
  BY DEF Store, Done, rows, ghosts, IInv, TypeOK
<1>4. \/ session' = NoSession
      \/ /\ ttl # 0
         /\ session' = [id |-> held[w], read |-> stamp[w], until |-> now + life]
  BY DEF Store
<1>5. TypeOK'
  <2>1. /\ pc' \in [Workers -> Steps]
        /\ held' \in [Workers -> 0..MaxLogins]
        /\ stamp' \in [Workers -> 0..now]
    BY DEF Store, Done, IInv, TypeOK, Steps
  <2>2. /\ session' \in [id: 1..MaxLogins, read: 0..now, until: Nat] \cup {NoSession}
        /\ Cached' => session'.until > now
    <3>1. CASE session' = NoSession
      BY <3>1 DEF Cached
    <3>2. CASE session' # NoSession
      <4> HIDE DEF ttl, life
      <4>1. now + life \in Nat /\ now + life > now
        BY <1>1, <1>2, <1>4, <3>2
      <4>2. QED
        BY <1>1, <1>4, <3>2, <4>1
    <3>3. QED
      BY <3>1, <3>2
  <2>3. QED
    BY <1>3, <2>1, <2>2 DEF IInv, TypeOK
<1>6. HeldIssued' /\ NewSessions' /\ LoggedOutStaysOut'
  <2>1. session'.id = 0 \/ session'.id = held[w]
    BY <1>4 DEF NoSession
  <2>2. session'.id <= issued /\ (Cached' => session'.id \notin ended)
    BY <1>1, <1>3, <1>4, <2>1 DEF IInv, NewSessions, Cached
  <2>3. \A v \in Workers : pc[v] = "store" /\ v # w => held[v] # 0 /\ held[v] # held[w]
    BY <1>3 DEF IInv, HeldIssued, NewSessions, HasSession
  <2>4. QED
    BY <1>3, <2>1, <2>2, <2>3 DEF IInv, HeldIssued, NewSessions, HasSession, LoggedOutStaysOut
<1>7. LifeBounded'
  <2>1. CASE session' = NoSession
    BY <2>1 DEF LifeBounded, Cached
  <2>2. CASE session' # NoSession
    <3>1. /\ session'.until = now + life
          /\ NextMidnight(session.read)' = NextMidnight(stamp[w])
      BY <1>4, <2>2 DEF NextMidnight
    <3> HIDE DEF ttl, life
    <3>2. now + life <= NextMidnight(stamp[w]) + MaxLag
      BY <1>1, <1>2
    <3>3. QED
      BY <3>1, <3>2 DEF LifeBounded
  <2>3. QED
    BY <2>1, <2>2
<1>8. ReadInTime' /\ CooldownHolds'
  BY <1>3 DEF IInv, ReadInTime, CooldownHolds
<1>9. Quiet'
  BY <1>3 DEF IInv, Quiet, NoLoginRuns, LoggingIn
<1>10. QED
  BY <1>5, <1>6, <1>7, <1>8, <1>9 DEF IInv

-----------------------------------------------------------------------------
LEMMA ReadSessionStep ==
  ASSUME IInv, NEW w \in Workers, ReadSession(w)
  PROVE  IInv'
<1> USE DEF rows, redis
<1>1. CASE ~Cached
  <2>1. /\ pc' = [pc EXCEPT ![w] = "idle"]
        /\ held' = [held EXCEPT ![w] = 0]
        /\ stamp' = [stamp EXCEPT ![w] = 0]
        /\ off' = NoLoginRuns
        /\ UNCHANGED <<now, linked, issued, session, cooldown, admitted, ended>>
    BY <1>1 DEF ReadSession, Done
  <2>2. /\ \A v \in Workers : v # w => pc'[v] = pc[v] /\ held'[v] = held[v] /\ stamp'[v] = stamp[v]
        /\ pc'[w] = "idle"
    BY <2>1 DEF IInv, TypeOK
  <2>3. TypeOK'
    <3>1. /\ pc' \in [Workers -> Steps]
          /\ held' \in [Workers -> 0..MaxLogins]
          /\ stamp' \in [Workers -> 0..now]
      BY <2>1 DEF IInv, TypeOK, Steps
    <3>2. off' \in BOOLEAN
      BY <2>1 DEF NoLoginRuns
    <3>3. QED
      BY <2>1, <3>1, <3>2 DEF IInv, TypeOK, Cached
  <2>4. HeldIssued' /\ NewSessions' /\ LoggedOutStaysOut'
    BY <2>1, <2>2 DEF IInv, HeldIssued, NewSessions, HasSession, LoggedOutStaysOut, Cached
  <2>5. LifeBounded' /\ ReadInTime' /\ CooldownHolds'
    BY <2>1, <2>2 DEF IInv, LifeBounded, ReadInTime, CooldownHolds, Cached, NextMidnight
  <2>6. Quiet'
    BY <1>1, <2>1, <2>2 DEF Quiet, Cached, NoLoginRuns, LoggingIn
  <2>7. QED
    BY <2>3, <2>4, <2>5, <2>6 DEF IInv
<1>2. CASE Cached
  <2>1. /\ pc' = [pc EXCEPT ![w] = "tell"]
        /\ held' = [held EXCEPT ![w] = session.id]
        /\ UNCHANGED <<now, linked, issued, session, cooldown, stamp, admitted, ended, off>>
    BY <1>2 DEF ReadSession
  <2>2. /\ \A v \in Workers : v # w => pc'[v] = pc[v] /\ held'[v] = held[v]
        /\ pc'[w] = "tell" /\ held'[w] = session.id
    BY <2>1 DEF IInv, TypeOK
  <2>3. session.id \in 1..MaxLogins /\ issued \in Nat
    BY <1>2 DEF IInv, TypeOK, Cached
  <2>4. TypeOK'
    <3>1. /\ pc' \in [Workers -> Steps]
          /\ held' \in [Workers -> 0..MaxLogins]
      BY <2>1, <2>3 DEF IInv, TypeOK, Steps
    <3>2. QED
      BY <2>1, <3>1 DEF IInv, TypeOK, Cached
  <2>5. HeldIssued' /\ NewSessions' /\ LoggedOutStaysOut'
    <3>1. session.id \in 1..issued
      BY <2>3 DEF IInv, HeldIssued
    <3>2. QED
      BY <2>1, <2>2, <3>1 DEF IInv, HeldIssued, NewSessions, HasSession, LoggedOutStaysOut, Cached
  <2>6. LifeBounded' /\ ReadInTime' /\ CooldownHolds'
    BY <2>1, <2>2 DEF IInv, LifeBounded, ReadInTime, CooldownHolds, Cached, NextMidnight
  <2>7. Quiet'
    BY <1>2, <2>1 DEF IInv, Quiet
  <2>8. QED
    BY <2>4, <2>5, <2>6, <2>7 DEF IInv
<1>3. QED
  BY <1>1, <1>2

LEMMA DeleteStep ==
  ASSUME IInv, NEW w \in Workers, Delete(w)
  PROVE  IInv'
<1>1. /\ pc[w] = "delete"
      /\ session' = NoSession /\ ~Cached'
      /\ ended' = ended \cup {held[w]} /\ off' = NoLoginRuns
      /\ UNCHANGED <<now, linked, issued, cooldown, admitted>>
  BY DEF Delete, rows, Cached
<1>2. /\ \A v \in Workers : v # w => pc'[v] = pc[v] /\ held'[v] = held[v] /\ stamp'[v] = stamp[v]
      /\ pc'[w] = "idle"
  BY DEF Delete, Done, IInv, TypeOK
<1>3. held[w] \in 1..issued /\ held[w] \in 1..MaxLogins
  BY <1>1 DEF IInv, TypeOK, HeldIssued, HasSession
<1>4. TypeOK'
  <2>1. /\ pc' \in [Workers -> Steps]
        /\ held' \in [Workers -> 0..MaxLogins]
        /\ stamp' \in [Workers -> 0..now]
    BY DEF Delete, Done, IInv, TypeOK, Steps
  <2>2. off' \in BOOLEAN
    BY <1>1 DEF NoLoginRuns
  <2>3. QED
    BY <1>1, <1>3, <2>1, <2>2 DEF IInv, TypeOK
<1>5. HeldIssued' /\ NewSessions' /\ LoggedOutStaysOut'
  <2>1. \A v \in Workers : pc'[v] = "store" =>
          v # w /\ pc[v] = "store" /\ held[v] # 0 /\ held[v] # held[w]
    BY <1>1, <1>2 DEF IInv, HeldIssued, NewSessions, HasSession
  <2>2. session'.id = 0 /\ issued \in Nat
    BY <1>1 DEF NoSession, IInv, TypeOK
  <2>3. HeldIssued'
    <3>1. ended' \subseteq 1..issued
      BY <1>1, <1>3 DEF IInv, HeldIssued
    <3>2. \A v \in Workers : pc'[v] \in HasSession => held'[v] \in 1..issued
      BY <1>2 DEF IInv, HeldIssued, HasSession
    <3>3. issued' = issued /\ session'.id <= issued
      BY <1>1, <2>2
    <3>4. QED
      BY <3>1, <3>2, <3>3 DEF HeldIssued
  <2>4. NewSessions'
    BY <1>1, <1>2, <2>1, <2>2 DEF IInv, NewSessions, HasSession
  <2>5. QED
    BY <1>1, <2>3, <2>4 DEF LoggedOutStaysOut
<1>6. LifeBounded' /\ ReadInTime' /\ CooldownHolds'
  BY <1>1, <1>2 DEF IInv, LifeBounded, ReadInTime, CooldownHolds
<1>7. Quiet'
  BY <1>1, <1>2 DEF Quiet, NoLoginRuns, LoggingIn
<1>8. QED
  BY <1>4, <1>5, <1>6, <1>7 DEF IInv

LEMMA NextIInv == IInv /\ [Next]_vars => IInv'
<1>1. SUFFICES ASSUME IInv, [Next]_vars PROVE IInv'
  OBVIOUS
<1>2. CASE Tick
  BY <1>1, <1>2, TickStep
<1>3. CASE DeleteLink
  BY <1>1, <1>3, DeleteLinkStep
<1>4. CASE \E w \in Workers :
             InsertLink(w) \/ LinkExists(w) \/ InvalidCredentials(w) \/ Fail(w)
  BY <1>1, <1>4, LeaveStep
     DEF InsertLink, LinkExists, InvalidCredentials, Fail, Done, Steps, HasSession, LoggingIn,
         rows, redis, ghosts, IInv, TypeOK
<1>5. CASE \E w \in Workers :
             StartLink(w) \/ StartLogin(w) \/ StartLogout(w) \/ TellBroker(w)
  <2>1. PICK w \in Workers :
          StartLink(w) \/ StartLogin(w) \/ StartLogout(w) \/ TellBroker(w)
    BY <1>5
  <2>2. PICK step \in {"insert", "cooldown", "read", "delete"} :
          /\ pc' = [pc EXCEPT ![w] = step]
          /\ UNCHANGED <<now, rows, redis, held, stamp, admitted, ended>>
          /\ step = "delete" => pc[w] = "tell"
          /\ off' = (IF step = "cooldown" THEN FALSE ELSE off)
    BY <2>1 DEF StartLink, StartLogin, StartLogout, TellBroker, Goto, ghosts
  <2>3. QED
    BY <1>1, <2>2, GotoStep DEF Steps, HasSession, LoggingIn
<1>6. CASE \E w \in Workers : EnforceCooldown(w)
  BY <1>1, <1>6, EnforceCooldownStep
<1>7. CASE \E w \in Workers : CallBroker(w)
  <2>1. PICK w \in Workers : CallBroker(w)
    BY <1>7
  <2>2. CASE issued' = issued + 1
    BY <1>1, <2>1, <2>2, SessionIssuedStep DEF CallBroker, IInv, TypeOK
  <2>3. CASE issued' # issued + 1
    BY <1>1, <2>1, <2>3, LeaveStep
       DEF CallBroker, Done, Steps, HasSession, LoggingIn, rows, redis, ghosts, IInv, TypeOK
  <2>4. QED
    BY <2>2, <2>3
<1>8. CASE \E w \in Workers : Store(w)
  BY <1>1, <1>8, StoreStep
<1>9. CASE \E w \in Workers : ReadSession(w) \/ Delete(w)
  BY <1>1, <1>9, ReadSessionStep, DeleteStep
<1>10. CASE UNCHANGED vars
  BY <1>1, <1>10
     DEF vars, rows, redis, local, ghosts, IInv, TypeOK, HeldIssued, NewSessions,
         LoggedOutStaysOut, LifeBounded, ReadInTime, CooldownHolds, Quiet, Cached,
         NoLoginRuns, NextMidnight
<1>11. QED
  BY <1>1, <1>2, <1>3, <1>4, <1>5, <1>6, <1>7, <1>8, <1>9, <1>10 DEF Next

-----------------------------------------------------------------------------
\* The invariant of every request that reads or writes a broker session.
THEOREM Invariance == Spec => []IInv
  BY InitIInv, NextIInv, PTL DEF Spec

\* Every variable keeps its type, and a key is in Redis only in its time.
THEOREM TypeCorrect == Spec => []TypeOK
<1>1. IInv => TypeOK
  BY DEF IInv
<1>2. QED
  BY <1>1, Invariance, PTL

\* A cached session ends at the midnight after its clock reading, but for the
\* lag of Redis: the TTL is truncated, never rounded up.
THEOREM MidnightEnds == Spec => []EndsByMidnight
<1>1. IInv => EndsByMidnight
  <2>1. SUFFICES ASSUME IInv, Cached PROVE now < NextMidnight(session.read) + MaxLag
    BY DEF EndsByMidnight
  <2>2. session.until > now /\ session.until <= NextMidnight(session.read) + MaxLag
    BY <2>1 DEF IInv, TypeOK, LifeBounded
  <2>3. now \in Nat /\ session.until \in Nat /\ session.read \in Nat
    BY <2>1 DEF IInv, TypeOK, Cached
  <2>4. NextMidnight(session.read) \in Nat
    BY <2>3, TTL
  <2>5. QED
    BY <2>2, <2>3, <2>4
<1>2. QED
  BY <1>1, Invariance, PTL

\* No interleaving of logins and logouts brings a logged-out session back.
THEOREM LoggedOutForGood == Spec => []LoggedOutStaysOut
<1>1. IInv => LoggedOutStaysOut
  BY DEF IInv
<1>2. QED
  BY <1>1, Invariance, PTL

\* A logout that no login overlaps leaves nothing cached.
THEOREM LogoutLeavesNothing == Spec => []LogoutDisconnects
<1>1. IInv => LogoutDisconnects
  BY DEF IInv, Quiet, LogoutDisconnects
<1>2. QED
  BY <1>1, Invariance, PTL

\* Logins get past the cooldown at least Cooldown seconds apart.
THEOREM CooldownSpacesLogins == Spec => CooldownAdmitsOne
<1>1. ASSUME IInv, Next, NEW w \in Workers, pc[w] = "cooldown", pc'[w] = "call"
      PROVE  now >= admitted + Cooldown * TicksPerSecond
  <2>1. PICK v \in Workers : EnforceCooldown(v) /\ pc'[v] = "call"
    BY <1>1 DEF Next, Tick, DeleteLink, StartLink, InsertLink, LinkExists, StartLogin,
                EnforceCooldown, InvalidCredentials, CallBroker, Store, StartLogout,
                ReadSession, TellBroker, Delete, Fail, Goto, Done, local, IInv, TypeOK
  <2>2. cooldown = 0
    BY <1>1, <2>1 DEF EnforceCooldown, Done, IInv, TypeOK
  <2>3. QED
    BY <1>1, <2>2 DEF IInv, CooldownHolds
<1>2. IInv /\ [Next]_vars =>
        [\A w \in Workers :
           pc[w] = "cooldown" /\ pc'[w] = "call"
           => now >= admitted + Cooldown * TicksPerSecond]_vars
  BY <1>1
<1>3. QED
  BY <1>2, Invariance, PTL DEF Spec, CooldownAdmitsOne
=============================================================================
