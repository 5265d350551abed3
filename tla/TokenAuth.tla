----------------------------- MODULE TokenAuth -----------------------------
(***************************************************************************)
(* Sessions of one user: login, token refresh with rotation, logout,       *)
(* logout-all (accounts/api.py) and the check every authenticated request  *)
(* and WebSocket makes (DenylistCheckingJWTAuth), over the denylist and    *)
(* the logout-all cutoff in Redis (TokenDenylist).                         *)
(*                                                                         *)
(* Time is a count of ticks; claims of a token and times given to Redis    *)
(* are whole seconds, truncated.  An action ends at each call to Redis, so *)
(* requests interleave with each other and with the clock there.           *)
(***************************************************************************)
EXTENDS Integers, Sequences, FiniteSets

CONSTANTS
  Workers,
  TicksPerSecond,
  Day,          \* seconds from one UTC midnight to the next
  RefreshLife,  \* REFRESH_TOKEN_LIFETIME, in seconds
  CutoffTTL,    \* USER_CUTOFF_TTL_SECONDS
  MaxPairs,     \* bound: token pairs minted
  MaxTime       \* bound on the clock, in ticks

ASSUME TokenAuthAssumption ==
  /\ IsFiniteSet(Workers)
  /\ TicksPerSecond \in Nat \ {0}
  /\ Day \in Nat \ {0}
  /\ RefreshLife \in Nat \ {0}
  /\ CutoffTTL \in Nat /\ CutoffTTL >= RefreshLife /\ CutoffTTL >= Day
  /\ MaxPairs \in Nat
  /\ MaxTime \in Nat

VARIABLES
  now,      \* the clock
  pairs,    \* token pairs minted, in order: their iat and exp claims
  deny,     \* per token: until when Redis holds deny:<jti>; 0 if it does not
  cutoff,   \* logout_all:<user>: its value, and until when Redis holds it
  pc,       \* the step each worker is at
  req,      \* the request it serves
  late,     \* the token of the request was revoked when the request arrived
  revoked   \* tokens whose revocation was answered, by logout or by rotation

redis == <<deny, cutoff>>
vars == <<now, pairs, deny, cutoff, pc, req, late, revoked>>

Kinds == {"access", "refresh"}
Ids == 1..MaxPairs
Tokens == Kinds \X Ids
Seconds == now \div TicksPerSecond

\* The token a request presents is of pair id.  A logout names in its body the
\* access token, the refresh token or both; stamp is the time it or a
\* logout-all read from the clock.
Requests == [kind: Kinds, id: Ids, body: SUBSET Kinds, stamp: Nat]
NoCutoff == [value |-> 0, until |-> 0]
NoRequest == [kind |-> "none", id |-> 0, body |-> {}, stamp |-> 0]
Presented(r) == <<r.kind, r.id>>

Init ==
  /\ now = 0
  /\ pairs = <<>>
  /\ deny = [t \in Tokens |-> 0]
  /\ cutoff = NoCutoff
  /\ pc = [w \in Workers |-> "idle"]
  /\ req = [w \in Workers |-> NoRequest]
  /\ late = [w \in Workers |-> FALSE]
  /\ revoked = {}

-----------------------------------------------------------------------------
Exp(t) == IF t[1] = "access" THEN pairs[t[2]].access ELSE pairs[t[2]].refresh
Expired(t) == now >= Exp(t) * TicksPerSecond
Denied(t) == deny[t] > 0

\* Faulty variant: a token issued in the second of the logout-all passes.
DeniedForUserBefore(id) ==
  cutoff.until > 0 /\ pairs[id].iat < cutoff.value

DeniedForUser(id) ==
  cutoff.until > 0 /\ pairs[id].iat <= cutoff.value

\* Midnight, not now + 24 hours: at midnight itself the next one.
NextMidnight == (Seconds \div Day + 1) * Day

\* get_token(): the access token takes the iat of its refresh token.
Mint ==
  pairs' = Append(pairs,
    [iat |-> Seconds, access |-> NextMidnight, refresh |-> Seconds + RefreshLife])

\* Faulty variant: PX, milliseconds, instead of EX, seconds.
DenyTooShort(t, ttl) ==
  deny' = IF ttl > 0 THEN [deny EXCEPT ![t] = now + ttl] ELSE deny

\* Faulty variant: the remaining life with its sign reversed, and no guard.
DenyBackwards(t, ttl) == deny' = [deny EXCEPT ![t] = now - ttl]

\* TokenDenylist.deny: SET deny:<jti> EX ttl, if there is anything to revoke.
Deny(t, ttl) ==
  deny' = IF ttl > 0 THEN [deny EXCEPT ![t] = now + ttl * TicksPerSecond] ELSE deny

\* Faulty variant: PX instead of EX.
DenyAllBriefly(stamp) == cutoff' = [value |-> stamp, until |-> now + CutoffTTL]

\* TokenDenylist.deny_all_for_user: SET logout_all:<user> EX; the last write wins.
DenyAllForUser(stamp) ==
  cutoff' = [value |-> stamp, until |-> now + CutoffTTL * TicksPerSecond]

Goto(w, step) == pc' = [pc EXCEPT ![w] = step] /\ UNCHANGED <<req, late>>

Accept(w, step, body, stamp) ==
  /\ pc' = [pc EXCEPT ![w] = step]
  /\ req' = [req EXCEPT ![w].body = body, ![w].stamp = stamp]
  /\ late' = [late EXCEPT ![w] = FALSE]

\* The response is sent, with or without a result.
Done(w) ==
  /\ pc' = [pc EXCEPT ![w] = "idle"]
  /\ req' = [req EXCEPT ![w] = NoRequest]
  /\ late' = [late EXCEPT ![w] = FALSE]

Minting == {w \in Workers : req[w].kind = "refresh"}
RoomToMint == Len(pairs) + Cardinality(Minting) < MaxPairs

-----------------------------------------------------------------------------
\* Redis drops a key when its time has come.
Tick ==
  /\ now < MaxTime
  /\ now' = now + 1
  /\ deny' = [t \in Tokens |-> IF deny[t] > now' THEN deny[t] ELSE 0]
  /\ cutoff' = IF cutoff.until > now' THEN cutoff ELSE NoCutoff
  /\ UNCHANGED <<pairs, pc, req, late, revoked>>

Login(w) ==
  /\ pc[w] = "idle" /\ RoomToMint
  /\ Mint
  /\ UNCHANGED <<now, redis, pc, req, late, revoked>>

\* A request with a token that was issued, past the check of signature and
\* expiry (get_validated_token, RefreshToken(payload.refresh)), which asks
\* nobody; an expired token is refused there and then.
Receive(w) ==
  /\ pc[w] = "idle"
  /\ \E t \in Kinds \X DOMAIN pairs :
       /\ ~Expired(t)
       /\ t[1] = "refresh" => RoomToMint
       /\ req' = [req EXCEPT ![w] = [NoRequest EXCEPT !.kind = t[1], !.id = t[2]]]
       /\ late' = [late EXCEPT ![w] = t \in revoked]
  /\ pc' = [pc EXCEPT ![w] = "denylist"]
  /\ UNCHANGED <<now, pairs, redis, revoked>>

\* Faulty variant: only a refresh token's jti is looked up.
CheckDenylistRefreshOnly(w) ==
  /\ pc[w] = "denylist"
  /\ \/ req[w].kind = "refresh" /\ Denied(Presented(req[w])) /\ Done(w)
     \/ req[w].kind = "refresh" /\ ~Denied(Presented(req[w])) /\ Accept(w, "rotate", {}, 0)
     \/ req[w].kind = "access" /\ Goto(w, "cutoff")
  /\ UNCHANGED <<now, pairs, redis, revoked>>

\* is_denied(jti).  The refresh endpoint asks nothing more; every other
\* request goes on to the cutoff of the user.
CheckDenylist(w) ==
  /\ pc[w] = "denylist"
  /\ \/ Denied(Presented(req[w])) /\ Done(w)
     \/ /\ ~Denied(Presented(req[w])) /\ req[w].kind = "refresh"
        /\ Accept(w, "rotate", {}, 0)
     \/ /\ ~Denied(Presented(req[w])) /\ req[w].kind = "access"
        /\ Goto(w, "cutoff")
  /\ UNCHANGED <<now, pairs, redis, revoked>>

\* is_denied_for_user(user, iat), the last check; then the endpoint runs, and
\* logout and logout-all read the clock.
CheckCutoff(w) ==
  /\ pc[w] = "cutoff"
  /\ \/ DeniedForUser(req[w].id) /\ Done(w)
     \/ /\ ~DeniedForUser(req[w].id)
        /\ \/ Accept(w, "serve", {}, 0)
           \/ Accept(w, "set_cutoff", {}, Seconds)
           \/ \E body \in SUBSET Kinds \ {{}} : Accept(w, "revoke_access", body, Seconds)
  /\ UNCHANGED <<now, pairs, redis, revoked>>

Serve(w) ==
  /\ pc[w] = "serve"
  /\ Done(w)
  /\ UNCHANGED <<now, pairs, redis, revoked>>

\* One round of the loop in logout(): a token that is not in the body, or that
\* has expired, is skipped.
Revoke(w, kind) ==
  LET t == <<kind, req[w].id>>
  IN  IF kind \in req[w].body /\ ~Expired(t)
      THEN Deny(t, Exp(t) - req[w].stamp)
      ELSE UNCHANGED deny

RevokeAccess(w) ==
  /\ pc[w] = "revoke_access"
  /\ Revoke(w, "access")
  /\ Goto(w, "revoke_refresh")
  /\ UNCHANGED <<now, pairs, cutoff, revoked>>

RevokeRefresh(w) ==
  /\ pc[w] = "revoke_refresh"
  /\ Revoke(w, "refresh")
  /\ Done(w)
  /\ revoked' = revoked \cup (req[w].body \X {req[w].id})
  /\ UNCHANGED <<now, pairs, cutoff>>

\* The last call of logout_all().
SetCutoff(w) ==
  /\ pc[w] = "set_cutoff"
  /\ DenyAllForUser(req[w].stamp)
  /\ Done(w)
  /\ UNCHANGED <<now, pairs, deny, revoked>>

\* refresh(): the old token is denied for the rest of its life ...
Rotate(w) ==
  /\ pc[w] = "rotate"
  /\ LET t == Presented(req[w]) IN Deny(t, Exp(t) - Seconds)
  /\ Goto(w, "mint")
  /\ UNCHANGED <<now, pairs, cutoff, revoked>>

\* ... and a new pair is minted.
MintPair(w) ==
  /\ pc[w] = "mint"
  /\ Mint
  /\ Done(w)
  /\ revoked' = revoked \cup {Presented(req[w])}
  /\ UNCHANGED <<now, redis>>

\* Redis or the database fails, or the worker dies: the client gets no 200.
Fail(w) ==
  /\ pc[w] # "idle"
  /\ Done(w)
  /\ UNCHANGED <<now, pairs, redis, revoked>>

Next ==
  \/ Tick
  \/ \E w \in Workers :
       \/ Login(w)
       \/ Receive(w)
       \/ CheckDenylist(w)
       \/ CheckCutoff(w)
       \/ Serve(w)
       \/ RevokeAccess(w)
       \/ RevokeRefresh(w)
       \/ SetCutoff(w)
       \/ Rotate(w)
       \/ MintPair(w)
       \/ Fail(w)

Spec == Init /\ [][Next]_vars

-----------------------------------------------------------------------------
Checking == {"denylist", "cutoff"}
Accepted ==
  {"serve", "revoke_access", "revoke_refresh", "set_cutoff", "rotate", "mint"}

\* Every variable has its type.
TypeOK ==
  /\ now \in Nat
  /\ pairs \in Seq([iat: Nat, access: Nat, refresh: Nat]) /\ Len(pairs) <= MaxPairs
  /\ deny \in [Tokens -> Nat]
  /\ cutoff \in [value: Nat, until: Nat]
  /\ pc \in [Workers -> Checking \cup Accepted \cup {"idle"}]
  /\ req \in [Workers -> Requests \cup {NoRequest}]
  /\ late \in [Workers -> BOOLEAN]
  /\ revoked \subseteq Tokens

\* A denylist entry lives at least as long as the token it blocks: a token
\* that was logged out or rotated away is expired or still in the denylist,
\* although its time to live was computed from a truncated clock reading that
\* may be old when Redis gets it.
DenialOutlivesToken == \A t \in revoked : Expired(t) \/ Denied(t)

\* A logged-out access token or a used refresh token stops working on its very
\* next request: none that arrives after the answer is accepted, unless the
\* token expired while the request was being checked.
RevokedIsRefused ==
  [][\A w \in Workers :
       pc[w] \in Checking /\ pc'[w] \in Accepted /\ late[w]
       => Expired(Presented(req[w]))]_vars

\* The cutoff key lives as long as any access token it is there for (the
\* comment on USER_CUTOFF_TTL_SECONDS): when Redis drops it, every access token
\* issued up to the cutoff has expired.
CutoffOutlivesTokens ==
  [][cutoff.until > 0 /\ cutoff'.until = 0
     => \A id \in DOMAIN pairs :
          pairs[id].iat <= cutoff.value => now' >= pairs[id].access * TicksPerSecond]_vars

\* "Revoke every access/refresh token issued to the caller, on every device":
\* no token issued up to the cutoff in force is accepted, of either kind.
LogoutAllEndsSessions ==
  [][\A w \in Workers :
       pc[w] \in Checking /\ pc'[w] \in Accepted => ~DeniedForUser(req[w].id)]_vars
=============================================================================
