---------------------------- MODULE TokenProofs ----------------------------
(***************************************************************************)
(* Proofs about TokenAuth, for any finite number of requests served at a   *)
(* time, any number of token pairs, any resolution of the clock, any day   *)
(* and any token lifetimes that the assumption on the cutoff's TTL allows. *)
(***************************************************************************)
EXTENDS TokenAuth, FiniteSetTheorems, TLAPS

USE TokenAuthAssumption

-----------------------------------------------------------------------------
(* The inductive invariant.                                                *)

Issued == Kinds \X DOMAIN pairs
Blocked(t) == Expired(t) \/ Denied(t)

\* Room is kept for the pairs that accepted refreshes are going to mint.
RoomKept == Len(pairs) + Cardinality(Minting) <= MaxPairs

\* A request is about a pair that was issued, and the time a logout read is
\* not in the future; only a refresh rotates and mints.
RequestsInOrder ==
  \A w \in Workers :
    /\ pc[w] = "idle" => req[w] = NoRequest
    /\ pc[w] # "idle" => req[w].kind \in Kinds /\ req[w].id \in DOMAIN pairs
    /\ pc[w] \in {"rotate", "mint"} => req[w].kind = "refresh"
    /\ req[w].stamp * TicksPerSecond <= now

PairsDated == \A id \in DOMAIN pairs : pairs[id].access <= pairs[id].iat + Day

\* Redis holds a key at least until the token it blocks expires, and the cutoff
\* at least CutoffTTL longer than the time it names.
DeniedLongEnough ==
  \A t \in Tokens :
    Denied(t) => t \in Issued /\ deny[t] >= Exp(t) * TicksPerSecond

CutoffLongEnough ==
  cutoff.until > 0 => cutoff.until >= (cutoff.value + CutoffTTL) * TicksPerSecond

\* What a request has blocked so far, on its way to an answer.
BlockedAhead ==
  \A w \in Workers :
    /\ pc[w] = "mint" => Blocked(Presented(req[w]))
    /\ pc[w] = "revoke_refresh" /\ "access" \in req[w].body =>
         Blocked(<<"access", req[w].id>>)

RevokedIssued == revoked \subseteq Issued

\* A late request is one with a revoked token, and it gets past the denylist
\* only when the token has expired.
LateIsRevoked ==
  \A w \in Workers :
    late[w] => /\ pc[w] \in Checking
               /\ Presented(req[w]) \in revoked
               /\ pc[w] = "cutoff" => Expired(Presented(req[w]))

IInv ==
  /\ TypeOK
  /\ RoomKept
  /\ RequestsInOrder
  /\ PairsDated
  /\ DeniedLongEnough
  /\ CutoffLongEnough
  /\ BlockedAhead
  /\ RevokedIssued
  /\ DenialOutlivesToken
  /\ LateIsRevoked

-----------------------------------------------------------------------------
(* The clock and its whole seconds.                                        *)

LEMMA Truncated ==
  ASSUME NEW t \in Nat, NEW d \in Nat \ {0}
  PROVE  /\ t \div d \in Nat
         /\ (t \div d) * d <= t
<1>1. t \div d \in Nat
  OBVIOUS
<1>2. t = d * (t \div d) + (t % d) /\ t % d \in 0 .. d - 1
  OBVIOUS
<1>3. (t \div d) * d = d * (t \div d) /\ d * (t \div d) \in Nat
  BY <1>1
<1>4. QED
  BY <1>1, <1>2, <1>3

LEMMA Monotone ==
  ASSUME NEW a \in Nat, NEW b \in Nat, a <= b
  PROVE  a * TicksPerSecond <= b * TicksPerSecond
<1>1. \A m, n \in Nat : m * n \in Nat
  OBVIOUS
<1>2. (b - a) * TicksPerSecond \in Nat
  BY <1>1
<1>3. (b - a) * TicksPerSecond = b * TicksPerSecond - a * TicksPerSecond
  OBVIOUS
<1>4. a * TicksPerSecond \in Nat /\ b * TicksPerSecond \in Nat
  BY <1>1
<1>5. QED
  BY <1>2, <1>3, <1>4

LEMMA ClockReading ==
  ASSUME now \in Nat
  PROVE  /\ Seconds \in Nat
         /\ Seconds * TicksPerSecond <= now
         /\ NextMidnight \in Nat
         /\ NextMidnight <= Seconds + Day
<1>1. Seconds \in Nat /\ Seconds * TicksPerSecond <= now
  BY Truncated DEF Seconds
<1>2. Seconds \div Day \in Nat /\ (Seconds \div Day) * Day <= Seconds
  BY <1>1, Truncated
<1>3. NextMidnight = (Seconds \div Day) * Day + Day
  BY <1>2 DEF NextMidnight
<1>4. (Seconds \div Day) * Day \in Nat
  BY <1>2
<1>5. QED
  BY <1>1, <1>2, <1>3, <1>4

\* An expiry that is ahead of the clock is ahead of any reading of the clock,
\* and a time to live computed from an old reading reaches to it.
LEMMA RemainingLife ==
  ASSUME now \in Nat, NEW e \in Nat, NEW stamp \in Nat, stamp * TicksPerSecond <= now
  PROVE  /\ e - stamp \in Int
         /\ e - stamp > 0 => /\ now + (e - stamp) * TicksPerSecond \in Nat
                             /\ now + (e - stamp) * TicksPerSecond > 0
                             /\ now + (e - stamp) * TicksPerSecond >= e * TicksPerSecond
         /\ ~(now >= e * TicksPerSecond) => e - stamp > 0
<1>1. \A m, n \in Nat : m * n \in Nat
  OBVIOUS
<1>2. e * TicksPerSecond \in Nat /\ stamp * TicksPerSecond \in Nat
  BY <1>1
<1>3. (e - stamp) * TicksPerSecond = e * TicksPerSecond - stamp * TicksPerSecond
  OBVIOUS
<1>4. \A m, n \in Nat \ {0} : m * n \in Nat \ {0}
  OBVIOUS
<1>5. ASSUME e - stamp > 0
      PROVE  (e - stamp) * TicksPerSecond \in Nat \ {0}
  BY <1>4, <1>5
<1>6. ASSUME ~(now >= e * TicksPerSecond)
      PROVE  e - stamp > 0
  BY <1>2, <1>6, Monotone
<1>7. QED
  BY <1>2, <1>3, <1>5, <1>6

\* The cutoff that is written now outlives the time it names by CutoffTTL.
LEMMA CutoffLife ==
  ASSUME now \in Nat, NEW stamp \in Nat, stamp * TicksPerSecond <= now
  PROVE  /\ now + CutoffTTL * TicksPerSecond \in Nat
         /\ now + CutoffTTL * TicksPerSecond >= (stamp + CutoffTTL) * TicksPerSecond
<1>1. \A m, n \in Nat : m * n \in Nat /\ m + n \in Nat
  OBVIOUS
<1>2. CutoffTTL * TicksPerSecond \in Nat /\ stamp * TicksPerSecond \in Nat
  BY <1>1
<1>3. (stamp + CutoffTTL) * TicksPerSecond = stamp * TicksPerSecond + CutoffTTL * TicksPerSecond
  OBVIOUS
<1>4. QED
  BY <1>1, <1>2, <1>3

-----------------------------------------------------------------------------
(* Token pairs.                                                            *)

LEMMA PairsSeq ==
  ASSUME TypeOK
  PROVE  /\ Len(pairs) \in Nat /\ DOMAIN pairs = 1..Len(pairs)
         /\ DOMAIN pairs \subseteq Ids
         /\ \A id \in DOMAIN pairs : pairs[id] \in [iat: Nat, access: Nat, refresh: Nat]
<1> DEFINE Pair == [iat: Nat, access: Nat, refresh: Nat]
<1>1. pairs \in Seq(Pair) /\ Len(pairs) <= MaxPairs
  BY DEF TypeOK
<1> HIDE DEF Pair
<1>2. Len(pairs) \in Nat /\ DOMAIN pairs = 1..Len(pairs)
  BY <1>1
<1>3. \A id \in DOMAIN pairs : pairs[id] \in Pair
  BY <1>1, <1>2
<1>4. QED
  BY <1>1, <1>2, <1>3 DEF Ids, Pair

LEMMA Minted ==
  ASSUME TypeOK, Mint
  PROVE  /\ pairs' \in Seq([iat: Nat, access: Nat, refresh: Nat])
         /\ Len(pairs') = Len(pairs) + 1
         /\ DOMAIN pairs' = DOMAIN pairs \cup {Len(pairs) + 1}
         /\ \A id \in DOMAIN pairs : pairs'[id] = pairs[id]
         /\ pairs'[Len(pairs) + 1].access = NextMidnight
         /\ pairs'[Len(pairs) + 1].iat = Seconds
<1> DEFINE p == [iat |-> Seconds, access |-> NextMidnight, refresh |-> Seconds + RefreshLife]
<1>1. p \in [iat: Nat, access: Nat, refresh: Nat]
  BY ClockReading DEF TypeOK
<1>2. p.access = NextMidnight /\ p.iat = Seconds
  OBVIOUS
<1>3. pairs' = Append(pairs, p) /\ pairs \in Seq([iat: Nat, access: Nat, refresh: Nat])
  BY DEF Mint, TypeOK
<1> HIDE DEF p
<1>4. QED
  BY <1>1, <1>2, <1>3, PairsSeq

LEMMA MintingFinite ==
  /\ IsFiniteSet(Minting)
  /\ Cardinality(Minting) \in Nat
BY FS_Subset, FS_CardinalityType DEF Minting

LEMMA MintingShrinks ==
  ASSUME Minting' \subseteq Minting
  PROVE  Cardinality(Minting') \in Nat /\ Cardinality(Minting') <= Cardinality(Minting)
BY MintingFinite, FS_Subset, FS_CardinalityType

\* The expiry of a token never changes, and an expired token stays expired.
LEMMA IssuedTokens ==
  ASSUME TypeOK, now' >= now, now' \in Nat, UNCHANGED pairs \/ Mint, NEW t \in Issued
  PROVE  /\ t \in Tokens /\ t \in Issued'
         /\ Exp(t) \in Nat /\ Exp(t)' = Exp(t)
         /\ Exp(t) * TicksPerSecond \in Nat
         /\ Expired(t) => Expired(t)'
<1>1. t[1] \in Kinds /\ t[2] \in DOMAIN pairs /\ t = <<t[1], t[2]>>
  BY DEF Issued
<1>2. t \in Tokens /\ Exp(t) \in Nat
  BY <1>1, PairsSeq DEF Tokens, Exp
<1>3. t[2] \in DOMAIN pairs' /\ pairs'[t[2]] = pairs[t[2]]
  BY <1>1, Minted
<1>4. t \in Issued' /\ Exp(t)' = Exp(t)
  BY <1>1, <1>3 DEF Issued, Exp
<1>5. \A m, n \in Nat : m * n \in Nat
  OBVIOUS
<1>6. Exp(t) * TicksPerSecond \in Nat
  BY <1>2, <1>5
<1>7. Expired(t) => Expired(t)'
  BY <1>4, <1>6 DEF Expired, TypeOK
<1>8. QED
  BY <1>2, <1>4, <1>6, <1>7

-----------------------------------------------------------------------------
(* Requests: the three ways a step leaves the request of its worker.       *)

Control ==
  /\ pc \in [Workers -> Checking \cup Accepted \cup {"idle"}]
  /\ req \in [Workers -> Requests \cup {NoRequest}]
  /\ late \in [Workers -> BOOLEAN]
  /\ RequestsInOrder

\* Time passes, and pairs are only added.
Later ==
  /\ now' \in Nat /\ now' >= now
  /\ DOMAIN pairs \subseteq DOMAIN pairs'

LEMMA ServedRequest ==
  ASSUME TypeOK, RequestsInOrder, NEW w \in Workers, pc[w] # "idle"
  PROVE  req[w] \in Requests /\ Presented(req[w]) \in Issued
BY DEF TypeOK, RequestsInOrder, NoRequest, Kinds, Presented, Issued

LEMMA StampIsPast ==
  ASSUME TypeOK, RequestsInOrder, Later, NEW w \in Workers
  PROVE  req[w].stamp * TicksPerSecond <= now'
<1>1. req[w].stamp \in Nat
  BY DEF TypeOK, Requests, NoRequest
<1>2. \A m, n \in Nat : m * n \in Nat
  OBVIOUS
<1>3. req[w].stamp * TicksPerSecond \in Nat
  BY <1>1, <1>2
<1>4. QED
  BY <1>3 DEF RequestsInOrder, Later, TypeOK

LEMMA UnchangedControl ==
  ASSUME TypeOK, RequestsInOrder, Later, UNCHANGED <<pc, req, late>>
  PROVE  Control' /\ Minting' = Minting
<1>1. \A w \in Workers : req[w].stamp * TicksPerSecond <= now'
  BY StampIsPast
<1>2. QED
  BY <1>1 DEF Control, RequestsInOrder, TypeOK, Later, Minting

LEMMA DoneControl ==
  ASSUME TypeOK, RequestsInOrder, Later, NEW w \in Workers, Done(w)
  PROVE  /\ Control'
         /\ Minting' = Minting \ {w}
<1>1. \A u \in Workers : req'[u].stamp * TicksPerSecond <= now'
  <2>1. \A u \in Workers \ {w} : req'[u] = req[u]
    BY DEF Done, TypeOK
  <2>2. req'[w].stamp = 0
    BY DEF Done, NoRequest, TypeOK
  <2>3. QED
    BY <2>1, <2>2, StampIsPast DEF Later
<1>2. pc' \in [Workers -> Checking \cup Accepted \cup {"idle"}]
  BY DEF Done, TypeOK
<1>3. req' \in [Workers -> Requests \cup {NoRequest}]
  BY DEF Done, TypeOK
<1>4. late' \in [Workers -> BOOLEAN]
  BY DEF Done, TypeOK
<1>5. \A u \in Workers :
        /\ pc'[u] = "idle" => req'[u] = NoRequest
        /\ pc'[u] # "idle" => req'[u].kind \in Kinds /\ req'[u].id \in DOMAIN pairs'
        /\ pc'[u] \in {"rotate", "mint"} => req'[u].kind = "refresh"
  BY DEF Done, RequestsInOrder, TypeOK, Later
<1>6. Minting' = Minting \ {w}
  BY DEF Done, Minting, NoRequest, TypeOK
<1>7. QED
  BY <1>1, <1>2, <1>3, <1>4, <1>5, <1>6 DEF Control, RequestsInOrder

LEMMA GotoControl ==
  ASSUME TypeOK, RequestsInOrder, Later, NEW w \in Workers, pc[w] # "idle",
         NEW step \in Checking \cup Accepted, Goto(w, step),
         step \in {"rotate", "mint"} => req[w].kind = "refresh"
  PROVE  Control' /\ Minting' = Minting
<1>1. \A u \in Workers : req'[u].stamp * TicksPerSecond <= now'
  BY StampIsPast DEF Goto
<1>2. /\ pc' \in [Workers -> Checking \cup Accepted \cup {"idle"}]
      /\ req' \in [Workers -> Requests \cup {NoRequest}]
      /\ late' \in [Workers -> BOOLEAN]
  BY DEF Goto, TypeOK
<1>3. \A u \in Workers :
        /\ pc'[u] = "idle" => req'[u] = NoRequest
        /\ pc'[u] # "idle" => req'[u].kind \in Kinds /\ req'[u].id \in DOMAIN pairs'
        /\ pc'[u] \in {"rotate", "mint"} => req'[u].kind = "refresh"
  BY DEF Goto, RequestsInOrder, TypeOK, Later, Checking, Accepted
<1>4. Minting' = Minting
  BY DEF Goto, Minting
<1>5. QED
  BY <1>1, <1>2, <1>3, <1>4 DEF Control, RequestsInOrder

LEMMA AcceptControl ==
  ASSUME TypeOK, RequestsInOrder, Later, NEW w \in Workers, pc[w] # "idle",
         NEW step \in Accepted, NEW body \in SUBSET Kinds, NEW stamp \in Nat,
         stamp * TicksPerSecond <= now, Accept(w, step, body, stamp),
         step \in {"rotate", "mint"} => req[w].kind = "refresh"
  PROVE  Control' /\ Minting' = Minting
<1>1. req[w] \in Requests
  BY ServedRequest
<1>2. /\ \A u \in Workers \ {w} : req'[u] = req[u] /\ pc'[u] = pc[u]
      /\ req'[w] \in Requests /\ pc'[w] = step
      /\ req'[w].kind = req[w].kind /\ req'[w].id = req[w].id
      /\ req'[w].body = body /\ req'[w].stamp = stamp
  BY <1>1 DEF Accept, TypeOK, Requests
<1>3. \A u \in Workers : req'[u].stamp * TicksPerSecond <= now'
  <2>1. \A m, n \in Nat : m * n \in Nat
    OBVIOUS
  <2>2. stamp * TicksPerSecond \in Nat
    BY <2>1
  <2>3. stamp * TicksPerSecond <= now'
    BY <2>2 DEF Later, TypeOK
  <2>4. QED
    BY <1>2, <2>3, StampIsPast
<1>4. /\ pc' \in [Workers -> Checking \cup Accepted \cup {"idle"}]
      /\ late' \in [Workers -> BOOLEAN]
  BY DEF Accept, TypeOK
<1>5. req' \in [Workers -> Requests \cup {NoRequest}]
  <2>1. \E r : req' = [req EXCEPT ![w] = r]
    BY DEF Accept
  <2>2. QED
    BY <1>2, <2>1 DEF TypeOK
<1>6. \A u \in Workers :
        /\ pc'[u] = "idle" => req'[u] = NoRequest
        /\ pc'[u] # "idle" => req'[u].kind \in Kinds /\ req'[u].id \in DOMAIN pairs'
        /\ pc'[u] \in {"rotate", "mint"} => req'[u].kind = "refresh"
  BY <1>2 DEF RequestsInOrder, Later, Accepted
<1>7. Minting' = Minting
  BY <1>2 DEF Minting
<1>8. QED
  BY <1>3, <1>4, <1>5, <1>6, <1>7 DEF Control, RequestsInOrder

LEMMA ReceiveControl ==
  ASSUME TypeOK, RequestsInOrder, NEW w \in Workers, Receive(w)
  PROVE  Control' /\ (Minting' = Minting \/ (RoomToMint /\ Minting' = Minting \cup {w}))
<1>1. PICK t \in Issued :
        /\ t[1] = "refresh" => RoomToMint
        /\ req' = [req EXCEPT ![w] = [NoRequest EXCEPT !.kind = t[1], !.id = t[2]]]
        /\ late' = [late EXCEPT ![w] = t \in revoked]
  BY DEF Receive, Issued
<1> DEFINE r == [NoRequest EXCEPT !.kind = t[1], !.id = t[2]]
<1>2. t[1] \in Kinds /\ t[2] \in DOMAIN pairs /\ t[2] \in Ids
  BY PairsSeq DEF Issued
<1>3. /\ r \in Requests /\ r.stamp = 0
      /\ r.kind = t[1] /\ r.id = t[2]
  BY <1>2 DEF NoRequest, Requests
<1> HIDE DEF r
<1>4. /\ \A u \in Workers \ {w} : req'[u] = req[u] /\ pc'[u] = pc[u]
      /\ req'[w] = r /\ pc'[w] = "denylist"
  BY <1>1 DEF Receive, TypeOK, r
<1>5. Later /\ UNCHANGED <<now, pairs>>
  BY DEF Receive, Later, TypeOK
<1>6. \A u \in Workers : req'[u].stamp * TicksPerSecond <= now'
  BY <1>3, <1>4, <1>5, StampIsPast DEF Later
<1>7. /\ pc' \in [Workers -> Checking \cup Accepted \cup {"idle"}]
      /\ req' \in [Workers -> Requests \cup {NoRequest}]
      /\ late' \in [Workers -> BOOLEAN]
  <2>1. pc' \in [Workers -> Checking \cup Accepted \cup {"idle"}]
    BY DEF Receive, TypeOK, Checking
  <2>2. req' = [req EXCEPT ![w] = r]
    BY <1>1 DEF r
  <2>3. req' \in [Workers -> Requests \cup {NoRequest}]
    BY <1>3, <2>2 DEF TypeOK
  <2>4. (t \in revoked) \in BOOLEAN
    OBVIOUS
  <2>5. late' \in [Workers -> BOOLEAN]
    BY <1>1, <2>4 DEF TypeOK
  <2>6. QED
    BY <2>1, <2>3, <2>5
<1>8. \A u \in Workers :
        /\ pc'[u] = "idle" => req'[u] = NoRequest
        /\ pc'[u] # "idle" => req'[u].kind \in Kinds /\ req'[u].id \in DOMAIN pairs'
        /\ pc'[u] \in {"rotate", "mint"} => req'[u].kind = "refresh"
  BY <1>2, <1>3, <1>4, <1>5 DEF RequestsInOrder
<1>9. req[w].kind # "refresh"
  BY DEF Receive, RequestsInOrder, NoRequest
<1>10. Minting' = Minting \/ (RoomToMint /\ Minting' = Minting \cup {w})
  <2>1. CASE t[1] = "refresh"
    <3>1. \A u \in Workers : req'[u].kind = "refresh" <=> req[u].kind = "refresh" \/ u = w
      BY <1>3, <1>4, <2>1
    <3>2. QED
      BY <1>1, <2>1, <3>1 DEF Minting
  <2>2. CASE t[1] # "refresh"
    <3>1. \A u \in Workers : req'[u].kind = "refresh" <=> req[u].kind = "refresh"
      BY <1>3, <1>4, <1>9, <2>2
    <3>2. Minting' = Minting
      BY <3>1 DEF Minting
    <3>3. QED
      BY <3>2
  <2>3. QED
    BY <2>1, <2>2
<1>11. QED
  BY <1>6, <1>7, <1>8, <1>10 DEF Control, RequestsInOrder

-----------------------------------------------------------------------------
(* The denylist.                                                           *)

\* An entry made in this step lasts to the end of the token's life.
LongEnough(t) == deny'[t] > 0 /\ deny'[t] >= Exp(t) * TicksPerSecond

\* deny() leaves every entry as it is but one.
LEMMA DenyEffect ==
  ASSUME TypeOK, NEW t \in Issued, NEW stamp \in Nat, stamp * TicksPerSecond <= now,
         Deny(t, Exp(t) - stamp), now' = now, UNCHANGED pairs
  PROVE  /\ deny' \in [Tokens -> Nat]
         /\ \A u \in Tokens \ {t} : deny'[u] = deny[u]
         /\ deny'[t] = deny[t] \/ LongEnough(t)
         /\ Blocked(t)'
<1> DEFINE ttl == Exp(t) - stamp
           until == now + ttl * TicksPerSecond
<1>1. t \in Tokens /\ Exp(t) \in Nat /\ Exp(t)' = Exp(t)
  BY IssuedTokens DEF TypeOK
<1>2. /\ ttl \in Int
      /\ ttl > 0 => until \in Nat /\ until > 0 /\ until >= Exp(t) * TicksPerSecond
      /\ ~(now >= Exp(t) * TicksPerSecond) => ttl > 0
  BY <1>1, RemainingLife DEF TypeOK
<1>3. deny' = IF ttl > 0 THEN [deny EXCEPT ![t] = until] ELSE deny
  BY DEF Deny
<1> HIDE DEF ttl, until
<1>4. CASE ttl > 0
  <2>1. deny' = [deny EXCEPT ![t] = until]
    BY <1>3, <1>4
  <2>2. QED
    BY <1>1, <1>2, <1>4, <2>1 DEF TypeOK, Blocked, Denied, LongEnough
<1>5. CASE ~(ttl > 0)
  <2>1. deny' = deny
    BY <1>3, <1>5
  <2>2. Expired(t)'
    BY <1>1, <1>2, <1>5 DEF Expired
  <2>3. QED
    BY <2>1, <2>2 DEF TypeOK, Blocked
<1>6. QED
  BY <1>4, <1>5

\* One round of logout()'s loop, and the rotation of a refresh token.
LEMMA RevokeEffect ==
  ASSUME TypeOK, RequestsInOrder, NEW w \in Workers, pc[w] # "idle", NEW kind \in Kinds,
         Revoke(w, kind), now' = now, UNCHANGED pairs,
         NEW t, t = <<kind, req[w].id>>
  PROVE  /\ deny' \in [Tokens -> Nat]
         /\ \A u \in Tokens :
              deny'[u] = deny[u] \/ (u \in Issued /\ LongEnough(u))
         /\ kind \in req[w].body => Blocked(t)'
<1>1. req[w] \in Requests /\ req[w].id \in DOMAIN pairs /\ req[w].stamp * TicksPerSecond <= now
  BY ServedRequest DEF RequestsInOrder
<1>2. t \in Issued /\ req[w].stamp \in Nat
  BY <1>1 DEF Issued, Requests
<1>3. CASE kind \in req[w].body /\ ~Expired(t)
  <2>1. Deny(t, Exp(t) - req[w].stamp)
    BY <1>3 DEF Revoke
  <2>2. QED
    BY <1>1, <1>2, <2>1, DenyEffect
<1>4. CASE ~(kind \in req[w].body /\ ~Expired(t))
  <2>1. deny' = deny
    BY <1>4 DEF Revoke
  <2>2. kind \in req[w].body => Expired(t)'
    BY <1>2, <1>4, IssuedTokens DEF TypeOK
  <2>3. QED
    BY <2>1, <2>2 DEF TypeOK, Blocked
<1>5. QED
  BY <1>3, <1>4

LEMMA RotateEffect ==
  ASSUME TypeOK, RequestsInOrder, NEW w \in Workers, Rotate(w), NEW t, t = Presented(req[w])
  PROVE  /\ deny' \in [Tokens -> Nat]
         /\ \A u \in Tokens :
              deny'[u] = deny[u] \/ (u \in Issued /\ LongEnough(u))
         /\ Blocked(t)'
<1>1. t \in Issued
  BY ServedRequest DEF Rotate
<1>2. Deny(t, Exp(t) - Seconds) /\ now' = now /\ UNCHANGED pairs
  BY DEF Rotate
<1>3. now \in Nat
  BY DEF TypeOK
<1>4. Seconds \in Nat /\ Seconds * TicksPerSecond <= now
  BY <1>3, ClockReading
<1>5. QED
  BY <1>1, <1>2, <1>4, DenyEffect

-----------------------------------------------------------------------------
(* Types, and the room for new pairs.                                      *)

Data ==
  /\ now \in Nat
  /\ pairs \in Seq([iat: Nat, access: Nat, refresh: Nat])
  /\ deny \in [Tokens -> Nat]
  /\ cutoff \in [value: Nat, until: Nat]
  /\ revoked \subseteq Tokens

LEMMA TypeParts ==
  TypeOK <=>
  /\ Data
  /\ Len(pairs) <= MaxPairs
  /\ pc \in [Workers -> Checking \cup Accepted \cup {"idle"}]
  /\ req \in [Workers -> Requests \cup {NoRequest}]
  /\ late \in [Workers -> BOOLEAN]
BY DEF TypeOK, Data

LEMMA Follows ==
  ASSUME TypeOK, [Next]_vars
  PROVE  Later /\ (UNCHANGED pairs \/ Mint)
<1>1. now' = now \/ now' = now + 1
  BY DEF Next, vars, Tick, Login, Receive, CheckDenylist, CheckCutoff, Serve, RevokeAccess,
         RevokeRefresh, SetCutoff, Rotate, MintPair, Fail
<1>2. UNCHANGED pairs \/ Mint
  BY DEF Next, vars, Tick, Login, Receive, CheckDenylist, CheckCutoff, Serve, RevokeAccess,
         RevokeRefresh, SetCutoff, Rotate, MintPair, Fail
<1>3. DOMAIN pairs \subseteq DOMAIN pairs'
  BY <1>2, Minted
<1>4. QED
  BY <1>1, <1>2, <1>3 DEF Later, TypeOK

\* If no more refreshes are to mint than before, room is kept.
LEMMA RoomStays ==
  ASSUME TypeOK, RoomKept, Minting' \subseteq Minting, UNCHANGED pairs
  PROVE  RoomKept' /\ Len(pairs') <= MaxPairs
BY MintingShrinks, MintingFinite, PairsSeq DEF RoomKept

LEMMA BaseStep ==
  TypeOK /\ RoomKept /\ RequestsInOrder /\ [Next]_vars
  => TypeOK' /\ RoomKept' /\ RequestsInOrder'
<1> DEFINE Goal == Control' /\ Data' /\ RoomKept' /\ Len(pairs') <= MaxPairs
<1> SUFFICES ASSUME TypeOK, RoomKept, RequestsInOrder, [Next]_vars
             PROVE  Goal
  BY TypeParts DEF Control, TypeOK, Data
<1>1. Later
  BY Follows
<1>2. Data
  BY TypeParts
<1>3. CASE UNCHANGED vars
  BY <1>1, <1>2, <1>3, UnchangedControl, RoomStays DEF vars, redis, Data
<1>4. CASE Tick
  <2>1. deny' \in [Tokens -> Nat] /\ cutoff' \in [value: Nat, until: Nat]
    BY <1>2, <1>4 DEF Tick, Data, NoCutoff
  <2>2. QED
    BY <1>1, <1>2, <1>4, <2>1, UnchangedControl, RoomStays DEF Tick, Data, Later
<1>5. ASSUME NEW w \in Workers, Login(w)
      PROVE  Goal
  <2>1. Control' /\ Minting' = Minting
    BY <1>1, <1>5, UnchangedControl DEF Login
  <2>2. Mint /\ UNCHANGED <<now, deny, cutoff, revoked>> /\ RoomToMint
    BY <1>5 DEF Login, redis
  <2>3. Len(pairs') = Len(pairs) + 1 /\ Data'
    BY <1>2, <2>2, Minted DEF Data
  <2>4. RoomKept' /\ Len(pairs') <= MaxPairs
    BY <2>1, <2>2, <2>3, MintingFinite, PairsSeq DEF RoomKept, RoomToMint
  <2>5. QED
    BY <2>1, <2>3, <2>4
<1>6. ASSUME NEW w \in Workers, Receive(w)
      PROVE  Goal
  <2>1. Control' /\ (Minting' = Minting \/ (RoomToMint /\ Minting' = Minting \cup {w}))
    BY <1>6, ReceiveControl
  <2>2. UNCHANGED <<now, pairs, deny, cutoff, revoked>>
    BY <1>6 DEF Receive, redis
  <2>3. CASE Minting' = Minting
    BY <1>2, <2>1, <2>2, <2>3, RoomStays DEF Data
  <2>4. CASE RoomToMint /\ Minting' = Minting \cup {w}
    <3>1. Cardinality(Minting') \in Nat /\ Cardinality(Minting') <= Cardinality(Minting) + 1
      <4>1. Cardinality(Minting \cup {w}) =
              IF w \in Minting THEN Cardinality(Minting) ELSE Cardinality(Minting) + 1
        BY MintingFinite, FS_AddElement
      <4>2. QED
        BY <2>4, <4>1, MintingFinite
    <3>2. RoomKept' /\ Len(pairs') <= MaxPairs
      BY <2>2, <2>4, <3>1, MintingFinite, PairsSeq DEF RoomKept, RoomToMint
    <3>3. QED
      BY <1>2, <2>1, <2>2, <3>2 DEF Data
  <2>5. QED
    BY <2>1, <2>3, <2>4
<1>7. ASSUME NEW w \in Workers, Done(w), UNCHANGED pairs, Data'
      PROVE  Goal
  BY <1>1, <1>7, DoneControl, RoomStays
<1>8. ASSUME NEW w \in Workers, CheckDenylist(w)
      PROVE  Goal
  <2>1. Data' /\ UNCHANGED pairs /\ pc[w] # "idle"
    BY <1>2, <1>8 DEF CheckDenylist, redis, Data
  <2>2. CASE Done(w)
    BY <1>7, <2>1, <2>2
  <2>3. CASE req[w].kind = "refresh" /\ Accept(w, "rotate", {}, 0)
    <3>1. 0 * TicksPerSecond <= now
      BY DEF TypeOK
    <3>2. Control' /\ Minting' = Minting
      BY <1>1, <2>1, <2>3, <3>1, AcceptControl DEF Accepted
    <3>3. QED
      BY <2>1, <3>2, RoomStays
  <2>4. CASE Goto(w, "cutoff")
    <3>1. Control' /\ Minting' = Minting
      BY <1>1, <2>1, <2>4, GotoControl DEF Checking
    <3>2. QED
      BY <2>1, <3>1, RoomStays
  <2>5. QED
    BY <1>8, <2>2, <2>3, <2>4 DEF CheckDenylist
<1>9. ASSUME NEW w \in Workers, CheckCutoff(w)
      PROVE  Goal
  <2>1. Data' /\ UNCHANGED pairs /\ pc[w] # "idle"
    BY <1>2, <1>9 DEF CheckCutoff, redis, Data
  <2>2. CASE Done(w)
    BY <1>7, <2>1, <2>2
  <2>3. ASSUME NEW step \in {"serve", "set_cutoff", "revoke_access"}, NEW body \in SUBSET Kinds,
               NEW stamp \in {0, Seconds}, Accept(w, step, body, stamp)
        PROVE  Goal
    <3>1. stamp \in Nat /\ stamp * TicksPerSecond <= now
      BY ClockReading DEF TypeOK
    <3>2. Control' /\ Minting' = Minting
      BY <1>1, <2>1, <2>3, <3>1, AcceptControl DEF Accepted
    <3>3. QED
      BY <2>1, <3>2, RoomStays
  <2>4. QED
    BY <1>9, <2>2, <2>3 DEF CheckCutoff
<1>10. ASSUME NEW w \in Workers, Serve(w) \/ Fail(w)
       PROVE  Goal
  BY <1>2, <1>7, <1>10 DEF Serve, Fail, redis, Data
<1>11. ASSUME NEW w \in Workers, RevokeAccess(w)
       PROVE  Goal
  <2>1. pc[w] # "idle" /\ Revoke(w, "access") /\ Goto(w, "revoke_refresh")
        /\ UNCHANGED <<now, pairs, cutoff, revoked>>
    BY <1>11 DEF RevokeAccess
  <2>2. deny' \in [Tokens -> Nat]
    BY <2>1, RevokeEffect DEF Kinds
  <2>3. Control' /\ Minting' = Minting
    BY <1>1, <2>1, GotoControl DEF Accepted
  <2>4. QED
    BY <1>2, <2>1, <2>2, <2>3, RoomStays DEF Data
<1>12. ASSUME NEW w \in Workers, RevokeRefresh(w)
       PROVE  Goal
  <2>1. pc[w] # "idle" /\ Revoke(w, "refresh") /\ Done(w)
        /\ UNCHANGED <<now, pairs, cutoff>>
        /\ revoked' = revoked \cup (req[w].body \X {req[w].id})
    BY <1>12 DEF RevokeRefresh
  <2>2. deny' \in [Tokens -> Nat]
    BY <2>1, RevokeEffect DEF Kinds
  <2>3. revoked' \subseteq Tokens
    BY <1>2, <2>1, ServedRequest DEF Requests, Tokens, Data
  <2>4. QED
    BY <1>2, <1>7, <2>1, <2>2, <2>3 DEF Data
<1>13. ASSUME NEW w \in Workers, SetCutoff(w)
       PROVE  Goal
  <2>1. req[w].stamp \in Nat /\ req[w].stamp * TicksPerSecond <= now
    BY <1>13, ServedRequest DEF SetCutoff, Requests, RequestsInOrder
  <2>2. now + CutoffTTL * TicksPerSecond \in Nat
    BY <2>1, CutoffLife DEF TypeOK
  <2>3. cutoff' \in [value: Nat, until: Nat]
    BY <1>13, <2>1, <2>2 DEF SetCutoff, DenyAllForUser
  <2>4. QED
    BY <1>2, <1>7, <1>13, <2>3 DEF SetCutoff, Data
<1>14. ASSUME NEW w \in Workers, Rotate(w)
       PROVE  Goal
  <2>1. pc[w] # "idle" /\ Goto(w, "mint") /\ req[w].kind = "refresh"
        /\ UNCHANGED <<now, pairs, cutoff, revoked>>
    BY <1>14 DEF Rotate, RequestsInOrder
  <2>2. deny' \in [Tokens -> Nat]
    BY <1>14, RotateEffect
  <2>3. Control' /\ Minting' = Minting
    BY <1>1, <2>1, GotoControl DEF Accepted
  <2>4. QED
    BY <1>2, <2>1, <2>2, <2>3, RoomStays DEF Data
<1>15. ASSUME NEW w \in Workers, MintPair(w)
       PROVE  Goal
  <2>1. pc[w] # "idle" /\ w \in Minting /\ Mint /\ Done(w)
        /\ revoked' = revoked \cup {Presented(req[w])} /\ UNCHANGED <<now, deny, cutoff>>
    BY <1>15 DEF MintPair, redis, RequestsInOrder, Minting
  <2>2. Control' /\ Minting' = Minting \ {w}
    BY <1>1, <2>1, DoneControl
  <2>3. Cardinality(Minting') = Cardinality(Minting) - 1 /\ Cardinality(Minting') \in Nat
    BY <2>1, <2>2, MintingFinite, MintingShrinks, FS_RemoveElement
  <2>4. Len(pairs') = Len(pairs) + 1 /\ pairs' \in Seq([iat: Nat, access: Nat, refresh: Nat])
    BY <2>1, Minted
  <2>5. RoomKept' /\ Len(pairs') <= MaxPairs
    BY <2>3, <2>4, MintingFinite, PairsSeq DEF RoomKept
  <2>6. revoked' \subseteq Tokens
    <3>1. Presented(req[w]) \in Tokens
      BY <2>1, ServedRequest, PairsSeq DEF Issued, Tokens
    <3>2. QED
      BY <1>2, <2>1, <3>1 DEF Data
  <2>7. QED
    BY <1>2, <2>1, <2>2, <2>4, <2>5, <2>6 DEF Data
<1>16. QED
  BY <1>3, <1>4, <1>5, <1>6, <1>8, <1>9, <1>10, <1>11, <1>12, <1>13, <1>14, <1>15 DEF Next

-----------------------------------------------------------------------------
(* What a step does to the denylist and to the other requests.             *)

Step(w) ==
  \/ Login(w) \/ Receive(w) \/ CheckDenylist(w) \/ CheckCutoff(w) \/ Serve(w)
  \/ RevokeAccess(w) \/ RevokeRefresh(w) \/ SetCutoff(w) \/ Rotate(w)
  \/ MintPair(w) \/ Fail(w)

LEMMA NextSteps ==
  ASSUME [Next]_vars
  PROVE  Tick \/ UNCHANGED vars \/ \E w \in Workers : Step(w)
BY DEF Next, Step

LEMMA Others ==
  ASSUME TypeOK, NEW w \in Workers, Step(w), NEW u \in Workers, u # w
  PROVE  pc'[u] = pc[u] /\ req'[u] = req[u] /\ late'[u] = late[u]
<1> DEFINE Same == pc'[u] = pc[u] /\ req'[u] = req[u] /\ late'[u] = late[u]
<1>1. Done(w) => Same
  BY DEF Done, TypeOK
<1>2. \A step : Goto(w, step) => Same
  BY DEF Goto, TypeOK
<1>3. \A step, body, stamp : Accept(w, step, body, stamp) => Same
  BY DEF Accept, TypeOK
<1>4. Login(w) => Same
  BY DEF Login
<1>5. Receive(w) => Same
  BY DEF Receive, TypeOK
<1>6. QED
  BY <1>1, <1>2, <1>3, <1>4, <1>5
     DEF Step, CheckDenylist, CheckCutoff, Serve, RevokeAccess, RevokeRefresh, SetCutoff,
         Rotate, MintPair, Fail

\* An entry of the denylist stays, or its time has come, or it is made to last.
LEMMA DenyChanges ==
  ASSUME TypeOK, RequestsInOrder, [Next]_vars, NEW t \in Tokens
  PROVE  \/ deny'[t] = deny[t]
         \/ deny'[t] = 0 /\ deny[t] <= now'
         \/ t \in Issued /\ LongEnough(t)
<1>1. CASE Tick
  BY <1>1 DEF Tick, TypeOK
<1>2. ASSUME NEW w \in Workers, RevokeAccess(w) \/ RevokeRefresh(w)
      PROVE  deny'[t] = deny[t] \/ (t \in Issued /\ LongEnough(t))
  <2>1. PICK kind \in Kinds : Revoke(w, kind)
    BY <1>2 DEF RevokeAccess, RevokeRefresh, Kinds
  <2>2. pc[w] # "idle" /\ now' = now /\ UNCHANGED pairs
    BY <1>2 DEF RevokeAccess, RevokeRefresh
  <2>3. QED
    BY <2>1, <2>2, RevokeEffect
<1>3. ASSUME NEW w \in Workers, Rotate(w)
      PROVE  deny'[t] = deny[t] \/ (t \in Issued /\ LongEnough(t))
  BY <1>3, RotateEffect
<1>4. QED
  BY <1>1, <1>2, <1>3
     DEF Next, vars, redis, Login, Receive, CheckDenylist, CheckCutoff, Serve, SetCutoff,
         MintPair, Fail

LEMMA BlockedStays ==
  ASSUME TypeOK, RequestsInOrder, DeniedLongEnough, [Next]_vars, NEW t \in Issued, Blocked(t)
  PROVE  Blocked(t)'
<1>1. /\ t \in Tokens /\ Exp(t) \in Nat /\ Exp(t)' = Exp(t)
      /\ Exp(t) * TicksPerSecond \in Nat
      /\ Expired(t) => Expired(t)'
  BY Follows, IssuedTokens DEF Later
<1>2. now' \in Nat
  BY Follows DEF Later
<1>3. CASE Denied(t) /\ deny'[t] = 0 /\ deny[t] <= now'
  <2>1. deny[t] >= Exp(t) * TicksPerSecond /\ deny[t] \in Nat
    BY <1>1, <1>3 DEF DeniedLongEnough, TypeOK
  <2>2. Expired(t)'
    BY <1>1, <1>2, <1>3, <2>1 DEF Expired
  <2>3. QED
    BY <2>2 DEF Blocked
<1>4. QED
  BY <1>1, <1>3, DenyChanges DEF Blocked, Denied, LongEnough

LEMMA DeniedStep ==
  TypeOK /\ RequestsInOrder /\ DeniedLongEnough /\ [Next]_vars => DeniedLongEnough'
<1> SUFFICES ASSUME TypeOK, RequestsInOrder, DeniedLongEnough, [Next]_vars,
                    NEW t \in Tokens, Denied(t)'
             PROVE  t \in Issued' /\ deny'[t] >= Exp(t)' * TicksPerSecond
  BY DEF DeniedLongEnough
<1>1. t \in Issued /\ deny'[t] >= Exp(t) * TicksPerSecond
  BY DenyChanges DEF DeniedLongEnough, Denied, LongEnough
<1>2. QED
  BY <1>1, Follows, IssuedTokens DEF Later

LEMMA DatedStep == TypeOK /\ PairsDated /\ [Next]_vars => PairsDated'
<1> SUFFICES ASSUME TypeOK, PairsDated, [Next]_vars
             PROVE  PairsDated'
  OBVIOUS
<1>1. CASE UNCHANGED pairs
  BY <1>1 DEF PairsDated
<1>2. CASE Mint
  BY <1>2, Minted, ClockReading DEF PairsDated, TypeOK
<1>3. QED
  BY <1>1, <1>2, Follows

LEMMA CutoffStep ==
  TypeOK /\ RequestsInOrder /\ CutoffLongEnough /\ [Next]_vars => CutoffLongEnough'
<1> SUFFICES ASSUME TypeOK, RequestsInOrder, CutoffLongEnough, [Next]_vars
             PROVE  CutoffLongEnough'
  OBVIOUS
<1>1. CASE UNCHANGED cutoff
  BY <1>1 DEF CutoffLongEnough
<1>2. CASE Tick
  BY <1>2 DEF Tick, CutoffLongEnough, NoCutoff
<1>3. ASSUME NEW w \in Workers, SetCutoff(w)
      PROVE  CutoffLongEnough'
  <2>1. req[w].stamp \in Nat /\ req[w].stamp * TicksPerSecond <= now
    BY <1>3, ServedRequest DEF SetCutoff, Requests, RequestsInOrder
  <2>2. now + CutoffTTL * TicksPerSecond >= (req[w].stamp + CutoffTTL) * TicksPerSecond
    BY <2>1, CutoffLife DEF TypeOK
  <2>3. cutoff'.value = req[w].stamp /\ cutoff'.until = now + CutoffTTL * TicksPerSecond
    BY <1>3 DEF SetCutoff, DenyAllForUser
  <2>4. QED
    BY <2>2, <2>3 DEF CutoffLongEnough
<1>4. QED
  BY <1>1, <1>2, <1>3
     DEF Next, vars, redis, Login, Receive, CheckDenylist, CheckCutoff, Serve, RevokeAccess,
         RevokeRefresh, Rotate, MintPair, Fail

-----------------------------------------------------------------------------
(* Revocation.                                                             *)

LEMMA AheadStep ==
  TypeOK /\ RequestsInOrder /\ DeniedLongEnough /\ BlockedAhead /\ [Next]_vars
  => BlockedAhead'
<1> SUFFICES ASSUME TypeOK, RequestsInOrder, DeniedLongEnough, BlockedAhead, [Next]_vars,
                    NEW u \in Workers
             PROVE  /\ pc'[u] = "mint" => Blocked(Presented(req[u]))'
                    /\ pc'[u] = "revoke_refresh" /\ "access" \in req'[u].body =>
                         Blocked(<<"access", req[u].id>>)'
  BY DEF BlockedAhead
<1>1. PICK p : p = Presented(req'[u])
  OBVIOUS
<1>2. PICK a : a = <<"access", req'[u].id>>
  OBVIOUS
<1>3. SUFFICES /\ pc'[u] = "mint" => Blocked(p)'
               /\ pc'[u] = "revoke_refresh" /\ "access" \in req'[u].body => Blocked(a)'
  BY <1>1, <1>2 DEF Blocked, Expired, Denied, Exp, Presented
<1>4. CASE pc'[u] = pc[u] /\ req'[u] = req[u]
  <2>1. p = Presented(req[u]) /\ a = <<"access", req[u].id>>
    BY <1>1, <1>2, <1>4 DEF Presented
  <2>2. pc[u] # "idle" => p \in Issued /\ a \in Issued
    BY <2>1, ServedRequest DEF RequestsInOrder, Issued, Kinds
  <2>3. pc[u] = "mint" => Blocked(p)
    BY <2>1 DEF BlockedAhead
  <2>4. pc[u] = "revoke_refresh" /\ "access" \in req[u].body => Blocked(a)
    BY <2>1 DEF BlockedAhead
  <2>5. QED
    BY <1>4, <2>2, <2>3, <2>4, BlockedStays
<1>5. ASSUME Rotate(u)
      PROVE  pc'[u] = "mint" /\ Blocked(p)'
  <2>1. pc'[u] = "mint" /\ req' = req
    BY <1>5 DEF Rotate, Goto, TypeOK
  <2>2. p = Presented(req[u])
    BY <1>1, <2>1 DEF Presented
  <2>3. QED
    BY <1>5, <2>1, <2>2, RotateEffect
<1>6. ASSUME RevokeAccess(u)
      PROVE  pc'[u] = "revoke_refresh" /\ ("access" \in req'[u].body => Blocked(a)')
  <2>1. /\ pc[u] # "idle" /\ Revoke(u, "access") /\ UNCHANGED <<now, pairs>>
        /\ pc'[u] = "revoke_refresh" /\ req' = req
    BY <1>6 DEF RevokeAccess, Goto, TypeOK
  <2>2. a = <<"access", req[u].id>>
    BY <1>2, <2>1
  <2>3. QED
    BY <2>1, <2>2, RevokeEffect DEF Kinds
<1>7. ASSUME Step(u), ~Rotate(u), ~RevokeAccess(u), ~Login(u)
      PROVE  pc'[u] # "mint" /\ pc'[u] # "revoke_refresh"
  BY <1>7 DEF Step, Receive, CheckDenylist, CheckCutoff, Serve, RevokeRefresh, SetCutoff,
       MintPair, Fail, Done, Goto, Accept, TypeOK
<1>8. Login(u) => pc' = pc /\ req' = req
  BY DEF Login
<1>9. Tick \/ UNCHANGED vars => pc' = pc /\ req' = req
  BY DEF Tick, vars
<1>10. QED
  BY <1>4, <1>5, <1>6, <1>7, <1>8, <1>9, NextSteps, Others

LEMMA RevokedStep ==
  TypeOK /\ RequestsInOrder /\ DeniedLongEnough /\ BlockedAhead
  /\ RevokedIssued /\ DenialOutlivesToken /\ [Next]_vars
  => RevokedIssued' /\ DenialOutlivesToken'
<1> SUFFICES ASSUME TypeOK, RequestsInOrder, DeniedLongEnough, BlockedAhead,
                    RevokedIssued, DenialOutlivesToken, [Next]_vars,
                    NEW t \in revoked'
             PROVE  t \in Issued' /\ Blocked(t)'
  BY DEF RevokedIssued, DenialOutlivesToken, Blocked
<1>1. ASSUME t \in Issued
      PROVE  t \in Issued'
  BY <1>1, Follows, IssuedTokens DEF Later
<1>2. CASE t \in revoked
  <2>1. t \in Issued /\ Blocked(t)
    BY <1>2 DEF RevokedIssued, DenialOutlivesToken, Blocked
  <2>2. QED
    BY <1>1, <2>1, BlockedStays
<1>3. ASSUME NEW w \in Workers, RevokeRefresh(w), t \notin revoked
      PROVE  t \in Issued' /\ Blocked(t)'
  <2>1. /\ pc[w] = "revoke_refresh" /\ Revoke(w, "refresh") /\ UNCHANGED <<now, pairs>>
        /\ t \in req[w].body \X {req[w].id}
    BY <1>3 DEF RevokeRefresh
  <2>2. PICK kind \in req[w].body : t = <<kind, req[w].id>>
    BY <2>1
  <2>3. kind \in {"access", "refresh"} /\ t \in Issued
    BY <2>1, <2>2, ServedRequest DEF Requests, RequestsInOrder, Issued, Kinds
  <2>4. CASE kind = "access"
    <3>1. Blocked(t)
      BY <2>1, <2>2, <2>4 DEF BlockedAhead
    <3>2. QED
      BY <1>1, <2>3, <3>1, BlockedStays
  <2>5. CASE kind = "refresh"
    <3>1. Blocked(t)'
      BY <2>1, <2>2, <2>5, RevokeEffect DEF Kinds
    <3>2. QED
      BY <1>1, <2>3, <3>1
  <2>6. QED
    BY <2>3, <2>4, <2>5
<1>4. ASSUME NEW w \in Workers, MintPair(w), t \notin revoked
      PROVE  t \in Issued' /\ Blocked(t)'
  <2>1. pc[w] = "mint" /\ t = Presented(req[w])
    BY <1>4 DEF MintPair
  <2>2. t \in Issued /\ Blocked(t)
    BY <2>1, ServedRequest DEF BlockedAhead
  <2>3. QED
    BY <1>1, <2>2, BlockedStays
<1>5. QED
  BY <1>2, <1>3, <1>4
     DEF Next, vars, Tick, Login, Receive, CheckDenylist, CheckCutoff, Serve, RevokeAccess,
         SetCutoff, Rotate, Fail

\* Who passes the check of the denylist with a revoked token holds one that has
\* expired meanwhile.
LEMMA PassedDenylist ==
  ASSUME TypeOK, DenialOutlivesToken, LateIsRevoked, NEW w \in Workers, late[w],
         CheckDenylist(w), ~Done(w)
  PROVE  Expired(Presented(req[w]))
BY DEF CheckDenylist, LateIsRevoked, DenialOutlivesToken

LEMMA LateStep ==
  TypeOK /\ RequestsInOrder /\ RevokedIssued /\ DenialOutlivesToken /\ LateIsRevoked
  /\ [Next]_vars => LateIsRevoked'
<1> SUFFICES ASSUME TypeOK, RequestsInOrder, RevokedIssued, DenialOutlivesToken,
                    LateIsRevoked, [Next]_vars, NEW u \in Workers, late'[u]
             PROVE  /\ pc'[u] \in Checking
                    /\ Presented(req'[u]) \in revoked'
                    /\ pc'[u] = "cutoff" => Expired(Presented(req[u]))'
  BY DEF LateIsRevoked, Presented
<1>1. PICK p : p = Presented(req'[u])
  OBVIOUS
<1>2. SUFFICES /\ pc'[u] \in Checking
               /\ p \in revoked'
               /\ pc'[u] = "cutoff" => Expired(p)'
  BY <1>1 DEF Expired, Exp, Presented
<1>3. revoked \subseteq revoked'
  BY DEF Next, vars, Tick, Login, Receive, CheckDenylist, CheckCutoff, Serve, RevokeAccess,
         RevokeRefresh, SetCutoff, Rotate, MintPair, Fail
<1>4. ASSUME p \in revoked, Expired(p)
      PROVE  Expired(p)'
  BY <1>4, Follows, IssuedTokens DEF Later, RevokedIssued
<1>5. CASE pc'[u] = pc[u] /\ req'[u] = req[u] /\ late'[u] = late[u]
  <2>1. p = Presented(req[u])
    BY <1>1, <1>5 DEF Presented
  <2>2. QED
    BY <1>3, <1>4, <1>5, <2>1 DEF LateIsRevoked
<1>6. CASE Receive(u)
  <2>1. PICK t \in Issued :
          /\ req' = [req EXCEPT ![u] = [NoRequest EXCEPT !.kind = t[1], !.id = t[2]]]
          /\ late' = [late EXCEPT ![u] = t \in revoked]
    BY <1>6 DEF Receive, Issued
  <2>2. p = t
    <3>1. t = <<t[1], t[2]>>
      BY DEF Issued
    <3>2. req'[u].kind = t[1] /\ req'[u].id = t[2]
      BY <2>1 DEF TypeOK, NoRequest
    <3>3. QED
      BY <1>1, <3>1, <3>2 DEF Presented
  <2>3. t \in revoked
    BY <2>1 DEF TypeOK
  <2>4. pc'[u] = "denylist"
    BY <1>6 DEF Receive, TypeOK
  <2>5. QED
    BY <1>3, <2>2, <2>3, <2>4 DEF Checking
<1>7. CASE CheckDenylist(u)
  <2>1. ~Done(u) /\ ~Accept(u, "rotate", {}, 0)
    BY DEF Done, Accept, TypeOK
  <2>2. Goto(u, "cutoff")
    BY <1>7, <2>1 DEF CheckDenylist
  <2>3. pc'[u] = "cutoff" /\ late[u] /\ p = Presented(req[u])
    BY <1>1, <2>2 DEF Goto, TypeOK, Presented
  <2>4. p \in revoked /\ Expired(p)
    BY <1>7, <2>1, <2>3, PassedDenylist DEF LateIsRevoked
  <2>5. QED
    BY <1>3, <1>4, <2>3, <2>4 DEF Checking
<1>8. ASSUME CheckCutoff(u) \/ Serve(u) \/ RevokeRefresh(u) \/ SetCutoff(u) \/ MintPair(u) \/ Fail(u)
      PROVE  FALSE
  BY <1>8 DEF CheckCutoff, Serve, RevokeRefresh, SetCutoff, MintPair, Fail, Done, Accept, TypeOK
<1>9. ASSUME RevokeAccess(u) \/ Rotate(u)
      PROVE  FALSE
  BY <1>9 DEF RevokeAccess, Rotate, Goto, LateIsRevoked, Checking
<1>10. Login(u) \/ Tick \/ UNCHANGED vars => UNCHANGED <<pc, req, late>>
  BY DEF Login, Tick, vars
<1>11. QED
  BY <1>5, <1>6, <1>7, <1>8, <1>9, <1>10, NextSteps, Others DEF Step

-----------------------------------------------------------------------------
(* The theorems.                                                           *)

LEMMA InitIInv == Init => IInv
<1> SUFFICES ASSUME Init
             PROVE  IInv
  OBVIOUS
<1>1. DOMAIN pairs = {} /\ Len(pairs) = 0
  BY DEF Init
<1>2. Minting = {}
  BY DEF Init, Minting, NoRequest
<1>3. TypeOK
  BY <1>1 DEF Init, TypeOK, NoCutoff
<1>4. RoomKept
  BY <1>1, <1>2, FS_EmptySet DEF RoomKept
<1>5. RequestsInOrder
  BY DEF Init, RequestsInOrder, NoRequest
<1>6. PairsDated /\ RevokedIssued /\ DenialOutlivesToken
  BY <1>1 DEF Init, PairsDated, RevokedIssued, DenialOutlivesToken
<1>7. DeniedLongEnough /\ CutoffLongEnough
  BY DEF Init, DeniedLongEnough, CutoffLongEnough, Denied, NoCutoff
<1>8. BlockedAhead /\ LateIsRevoked
  BY DEF Init, BlockedAhead, LateIsRevoked
<1>9. QED
  BY <1>3, <1>4, <1>5, <1>6, <1>7, <1>8 DEF IInv

LEMMA StepIInv == IInv /\ [Next]_vars => IInv'
BY BaseStep, DatedStep, DeniedStep, CutoffStep, AheadStep, RevokedStep, LateStep DEF IInv

LEMMA Invariant == Spec => []IInv
BY InitIInv, StepIInv, PTL DEF Spec

\* Every variable keeps its type, and no request mints a pair there is no room
\* for.
THEOREM TypeCorrect == Spec => []TypeOK
<1>1. IInv => TypeOK
  BY DEF IInv
<1>2. QED
  BY <1>1, Invariant, PTL

\* logout() and refresh() give deny() a time to live computed from a truncated
\* reading of the clock, which may be old when Redis gets it; still a token
\* whose revocation was answered is in the denylist until it expires, whatever
\* the resolution of the clock and whatever other requests do meanwhile.
THEOREM DenialLasts == Spec => []DenialOutlivesToken
<1>1. IInv => DenialOutlivesToken
  BY DEF IInv
<1>2. QED
  BY <1>1, Invariant, PTL

\* Only the last check of an endpoint accepts a request.
LEMMA RefusedStep ==
  ASSUME IInv, [Next]_vars, NEW w \in Workers,
         pc[w] \in Checking, pc'[w] \in Accepted, late[w]
  PROVE  Expired(Presented(req[w]))
<1> USE DEF IInv
<1>1. pc'[w] # pc[w]
  BY DEF Checking, Accepted
<1>2. Step(w)
  BY <1>1, NextSteps, Others DEF Tick, vars
<1>3. CASE CheckDenylist(w)
  <2>1. ~Done(w)
    BY DEF Done, Accepted, TypeOK
  <2>2. QED
    BY <1>3, <2>1, PassedDenylist
<1>4. CASE CheckCutoff(w)
  BY <1>4 DEF CheckCutoff, LateIsRevoked
<1>5. CASE Fail(w)
  BY <1>5 DEF Fail, Done, Accepted, TypeOK
<1>6. QED
  BY <1>2, <1>3, <1>4, <1>5
     DEF Step, Login, Receive, Serve, RevokeAccess, RevokeRefresh, SetCutoff, Rotate, MintPair,
         Checking

\* A request that arrives with a token whose revocation was answered is refused
\* by DenylistCheckingJWTAuth, or by the refresh endpoint's own check, unless
\* the token expires while it is being checked.
THEOREM RevokedRefused == Spec => RevokedIsRefused
<1>1. IInv /\ [Next]_vars =>
        [\A w \in Workers :
           pc[w] \in Checking /\ pc'[w] \in Accepted /\ late[w]
           => Expired(Presented(req[w]))]_vars
  BY RefusedStep
<1>2. QED
  BY <1>1, Invariant, PTL DEF Spec, RevokedIsRefused

\* Only the clock makes Redis drop a cutoff.
LEMMA DroppedStep ==
  ASSUME IInv, [Next]_vars, cutoff.until > 0, cutoff'.until = 0,
         NEW id \in DOMAIN pairs, pairs[id].iat <= cutoff.value
  PROVE  now' >= pairs[id].access * TicksPerSecond
<1> USE DEF IInv
<1>1. cutoff.until \in Nat /\ cutoff.value \in Nat /\ now \in Nat
  BY DEF TypeOK
<1>2. CASE Tick
  <2>1. cutoff.until <= now' /\ now' \in Nat
    BY <1>1, <1>2 DEF Tick
  <2>2. pairs[id].access \in Nat /\ pairs[id].iat \in Nat
    BY PairsSeq
  <2>3. pairs[id].access <= cutoff.value + CutoffTTL /\ cutoff.value + CutoffTTL \in Nat
    BY <1>1, <2>2 DEF PairsDated
  <2>4. pairs[id].access * TicksPerSecond <= (cutoff.value + CutoffTTL) * TicksPerSecond
    BY <2>2, <2>3, Monotone
  <2>5. cutoff.until >= (cutoff.value + CutoffTTL) * TicksPerSecond
    BY DEF CutoffLongEnough
  <2>6. \A m, n \in Nat : m * n \in Nat
    OBVIOUS
  <2>7. /\ pairs[id].access * TicksPerSecond \in Nat
        /\ (cutoff.value + CutoffTTL) * TicksPerSecond \in Nat
    BY <2>2, <2>3, <2>6
  <2>8. QED
    BY <1>1, <2>1, <2>4, <2>5, <2>7
<1>3. ASSUME NEW w \in Workers, SetCutoff(w)
      PROVE  FALSE
  <2>1. now + CutoffTTL * TicksPerSecond > 0
    <3>1. \A m, n \in Nat \ {0} : m * n \in Nat \ {0}
      OBVIOUS
    <3>2. CutoffTTL * TicksPerSecond \in Nat \ {0}
      BY <3>1
    <3>3. QED
      BY <1>1, <3>2
  <2>2. QED
    BY <1>3, <2>1 DEF SetCutoff, DenyAllForUser
<1>4. CASE UNCHANGED cutoff
  BY <1>1, <1>4
<1>5. QED
  BY <1>2, <1>3, <1>4
     DEF Next, vars, redis, Login, Receive, CheckDenylist, CheckCutoff, Serve, RevokeAccess,
         RevokeRefresh, Rotate, MintPair, Fail

\* USER_CUTOFF_TTL_SECONDS is no shorter than a day: when Redis drops
\* the cutoff that logout_all() wrote, every access token issued up to it has
\* expired, since it lives to the next midnight at most.
THEOREM CutoffLasts == Spec => CutoffOutlivesTokens
<1>1. IInv /\ [Next]_vars =>
        [cutoff.until > 0 /\ cutoff'.until = 0
         => \A id \in DOMAIN pairs :
              pairs[id].iat <= cutoff.value => now' >= pairs[id].access * TicksPerSecond]_vars
  BY DroppedStep
<1>2. QED
  BY <1>1, Invariant, PTL DEF Spec, CutoffOutlivesTokens
=============================================================================
