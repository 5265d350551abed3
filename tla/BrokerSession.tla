--------------------------- MODULE BrokerSession ---------------------------
(***************************************************************************)
(* One user and one brokerage: the link between them, and the session the  *)
(* broker gave, cached in Redis until midnight in India                    *)
(* (BrokerageController, BrokerAuthOrchestrator, BrokerSessionCache).      *)
(*                                                                         *)
(* Time is a count of ticks from a midnight; Redis is given whole seconds. *)
(* An action ends at each call to the database, to Redis or to the broker, *)
(* whose answer may take as long as it likes.                              *)
(***************************************************************************)
EXTENDS Integers

CONSTANTS
  Workers,
  TicksPerSecond,
  Day,        \* seconds from one midnight IST to the next
  Cooldown,   \* LOGIN_COOLDOWN_SECONDS
  MaxLag,     \* ticks between reading the clock for a TTL and Redis acting on it
  MaxLogins,  \* bound: sessions the broker issues
  MaxTime     \* bound on the clock

ASSUME BrokerSessionAssumption ==
  /\ TicksPerSecond \in Nat \ {0}
  /\ Day \in Nat \ {0}
  /\ Cooldown \in Nat \ {0}
  /\ MaxLag \in Nat
  /\ MaxLogins \in Nat
  /\ MaxTime \in Nat

VARIABLES
  now,       \* the clock
  linked,    \* there is a UserBrokerageLink; its two keys are unique
  session,   \* auth_user_<u>_brokerage_<b>: which session, for which clock
             \* reading, and until when Redis holds it
  cooldown,  \* login_cooldown_user_<u>_brokerage_<b>: until when; 0 if unset
  issued,    \* sessions the broker has issued: 1, 2, ...
  pc,        \* the step each worker is at
  held,      \* the session it was given by the broker, or read from Redis
  stamp,     \* the clock reading its TTL is computed from
  admitted,  \* when a login was last let through to the broker
  ended,     \* sessions whose logout was answered
  off        \* a logout was answered while no login ran, and none began since

rows == <<linked, issued>>
redis == <<session, cooldown>>
local == <<pc, held, stamp>>
ghosts == <<admitted, ended, off>>
vars == <<now, rows, redis, local, ghosts>>

NoSession == [id |-> 0, read |-> 0, until |-> 0]

\* What comes back of a call to the broker: nothing in time or an HTTP error, or
\* a body with a status and some of the fields a session needs.
SessionFields == {"jwtToken", "feedToken"}
Responses == [arrived: BOOLEAN, status: BOOLEAN, fields: SUBSET SessionFields]
ParsesToSession(r) == r.arrived /\ r.status /\ r.fields = SessionFields

Cached == session # NoSession

LoggingIn == {"cooldown", "call", "store"}
Steps == LoggingIn \cup {"idle", "insert", "read", "tell", "delete"}
NoLoginRuns == \A w \in Workers : pc[w] \notin LoggingIn

DayTicks == Day * TicksPerSecond
NextMidnight(t) == (t \div DayTicks + 1) * DayTicks

\* Faulty variant: a TTL that is rounded up.
SecondsLeftCeil(t) == (NextMidnight(t) - t + TicksPerSecond - 1) \div TicksPerSecond

\* int(seconds_until_ist_midnight(t).total_seconds())
SecondsLeft(t) == (NextMidnight(t) - t) \div TicksPerSecond

Init ==
  /\ now = 0
  /\ linked = FALSE
  /\ session = NoSession
  /\ cooldown = 0
  /\ issued = 0
  /\ pc = [w \in Workers |-> "idle"]
  /\ held = [w \in Workers |-> 0]
  /\ stamp = [w \in Workers |-> 0]
  /\ admitted = -(Cooldown * TicksPerSecond)
  /\ ended = {}
  /\ off = FALSE

-----------------------------------------------------------------------------
Goto(w, step) == pc' = [pc EXCEPT ![w] = step] /\ UNCHANGED <<held, stamp>>

Done(w) ==
  /\ pc' = [pc EXCEPT ![w] = "idle"]
  /\ held' = [held EXCEPT ![w] = 0]
  /\ stamp' = [stamp EXCEPT ![w] = 0]

\* Redis drops a key when its time has come.
Tick ==
  /\ now < MaxTime
  /\ \A w \in Workers : pc[w] = "store" => now < stamp[w] + MaxLag
  /\ now' = now + 1
  /\ session' = IF session.until > now' THEN session ELSE NoSession
  /\ cooldown' = IF cooldown > now' THEN cooldown ELSE 0
  /\ UNCHANGED <<rows, local, ghosts>>

\* create_link() asks whether there is a link (409 if so) and then inserts one;
\* the unique constraint makes a second insert fail, which nobody catches.
StartLink(w) ==
  /\ pc[w] = "idle" /\ ~linked
  /\ Goto(w, "insert")
  /\ UNCHANGED <<now, rows, redis, ghosts>>

InsertLink(w) ==
  /\ pc[w] = "insert" /\ ~linked
  /\ linked' = TRUE
  /\ Done(w)
  /\ UNCHANGED <<now, issued, redis, ghosts>>

LinkExists(w) ==
  /\ pc[w] = "insert" /\ linked
  /\ Done(w)
  /\ UNCHANGED <<now, rows, redis, ghosts>>

\* delete_link(): the row only.
DeleteLink ==
  /\ linked
  /\ linked' = FALSE
  /\ UNCHANGED <<now, issued, redis, local, ghosts>>

\* authenticate_and_cache() finds the link (404 if there is none), ...
StartLogin(w) ==
  /\ pc[w] = "idle" /\ linked
  /\ Goto(w, "cooldown")
  /\ off' = FALSE
  /\ UNCHANGED <<now, rows, redis, admitted, ended>>

\* Faulty variant: SET EX without NX.
EnforceCooldownAlways(w) ==
  /\ pc[w] = "cooldown"
  /\ cooldown' = now + Cooldown * TicksPerSecond
  /\ admitted' = now
  /\ Goto(w, "call")
  /\ UNCHANGED <<now, rows, session, ended, off>>

\* ... takes the cooldown with one SET NX EX (429 if it is taken), ...
EnforceCooldown(w) ==
  /\ pc[w] = "cooldown"
  /\ \/ /\ cooldown > 0
        /\ Done(w)
        /\ UNCHANGED <<cooldown, admitted>>
     \/ /\ cooldown = 0
        /\ cooldown' = now + Cooldown * TicksPerSecond
        /\ admitted' = now
        /\ Goto(w, "call")
  /\ UNCHANGED <<now, rows, session, ended, off>>

\* ... refuses a login whose link or request lacks a credential (409), by when
\* the cooldown is taken, ...
InvalidCredentials(w) ==
  /\ pc[w] = "call"
  /\ Done(w)
  /\ UNCHANGED <<now, rows, redis, ghosts>>

\* ... and asks the broker for a session (502 if it gets none it can use).
\* store() reads the clock as soon as the session is there.
CallBroker(w) ==
  /\ pc[w] = "call"
  /\ \E r \in Responses :
       IF ParsesToSession(r)
       THEN /\ issued < MaxLogins
            /\ issued' = issued + 1
            /\ pc' = [pc EXCEPT ![w] = "store"]
            /\ held' = [held EXCEPT ![w] = issued']
            /\ stamp' = [stamp EXCEPT ![w] = now]
       ELSE Done(w) /\ UNCHANGED issued
  /\ UNCHANGED <<now, linked, redis, ghosts>>

\* Faulty variant: EXPIRE is left out when there is no time left.
StoreUnlessZero(w) ==
  LET ttl == SecondsLeft(stamp[w])
  IN  /\ pc[w] = "store"
      /\ session' = [id |-> held[w], read |-> stamp[w],
                     until |-> IF ttl = 0 THEN 0 ELSE now + ttl * TicksPerSecond]
      /\ Done(w)
      /\ UNCHANGED <<now, rows, cooldown, ghosts>>

\* HSET and EXPIRE in one transaction; EXPIRE 0 deletes the key.
Store(w) ==
  LET ttl == SecondsLeft(stamp[w])
  IN  /\ pc[w] = "store"
      /\ session' = IF ttl = 0 THEN NoSession
                    ELSE [id |-> held[w], read |-> stamp[w],
                          until |-> now + ttl * TicksPerSecond]
      /\ Done(w)
      /\ UNCHANGED <<now, rows, cooldown, ghosts>>

-----------------------------------------------------------------------------
\* logout_and_clear() finds the link (404 if there is none), ...
StartLogout(w) ==
  /\ pc[w] = "idle" /\ linked
  /\ Goto(w, "read")
  /\ UNCHANGED <<now, rows, redis, ghosts>>

\* ... reads the cached session ("Already logged out." if there is none), ...
ReadSession(w) ==
  /\ pc[w] = "read"
  /\ \/ /\ Cached
        /\ pc' = [pc EXCEPT ![w] = "tell"]
        /\ held' = [held EXCEPT ![w] = session.id]
        /\ UNCHANGED <<stamp, off>>
     \/ ~Cached /\ Done(w) /\ off' = NoLoginRuns
  /\ UNCHANGED <<now, rows, redis, admitted, ended>>

\* Faulty variant: no finally; a broker that fails ends the request.
TellBrokerFirst(w) ==
  /\ pc[w] = "tell"
  /\ \/ Goto(w, "delete") /\ UNCHANGED <<ended, off>>
     \/ Done(w) /\ ended' = ended \cup {held[w]} /\ off' = NoLoginRuns
  /\ UNCHANGED <<now, rows, redis, admitted>>

\* ... tells the broker, and whatever comes of that (an HTTP error, a refusal, a
\* credential the link lacks) ...
TellBroker(w) ==
  /\ pc[w] = "tell"
  /\ Goto(w, "delete")
  /\ UNCHANGED <<now, rows, redis, ghosts>>

\* Faulty variant: the key is deleted only if it still holds what was read.
DeleteIfSame(w) ==
  /\ pc[w] = "delete"
  /\ session' = IF session.id = held[w] THEN NoSession ELSE session
  /\ ended' = ended \cup {held[w]}
  /\ off' = NoLoginRuns
  /\ Done(w)
  /\ UNCHANGED <<now, rows, cooldown, admitted>>

\* ... deletes the key, whatever it holds by now.
Delete(w) ==
  /\ pc[w] = "delete"
  /\ session' = NoSession
  /\ ended' = ended \cup {held[w]}
  /\ off' = NoLoginRuns
  /\ Done(w)
  /\ UNCHANGED <<now, rows, cooldown, admitted>>

\* Redis or the database fails, or the worker dies.  A broker that fails at
\* "tell" does not end the logout.
Fail(w) ==
  /\ pc[w] # "idle"
  /\ Done(w)
  /\ UNCHANGED <<now, rows, redis, ghosts>>

Next ==
  \/ Tick
  \/ DeleteLink
  \/ \E w \in Workers :
       \/ StartLink(w) \/ InsertLink(w) \/ LinkExists(w)
       \/ StartLogin(w) \/ EnforceCooldown(w) \/ InvalidCredentials(w) \/ CallBroker(w) \/ Store(w)
       \/ StartLogout(w) \/ ReadSession(w) \/ TellBroker(w) \/ Delete(w)
       \/ Fail(w)

Spec == Init /\ [][Next]_vars

-----------------------------------------------------------------------------
\* Every variable has its type, and a key in Redis is there only while its
\* time has not come.
TypeOK ==
  /\ now \in Nat
  /\ linked \in BOOLEAN
  /\ session \in [id: 1..MaxLogins, read: 0..now, until: Nat] \cup {NoSession}
  /\ Cached => session.until > now
  /\ cooldown \in Nat /\ (cooldown > 0 => cooldown > now)
  /\ issued \in 0..MaxLogins
  /\ pc \in [Workers -> Steps]
  /\ held \in [Workers -> 0..MaxLogins]
  /\ stamp \in [Workers -> 0..now]
  /\ admitted \in Int
  /\ ended \subseteq 1..MaxLogins
  /\ off \in BOOLEAN

\* Double clicks and retry loops do not reach the broker: of the logins of one
\* user, two that get past the cooldown do so at least Cooldown seconds apart.
CooldownAdmitsOne ==
  [][\A w \in Workers :
       pc[w] = "cooldown" /\ pc'[w] = "call"
       => now >= admitted + Cooldown * TicksPerSecond]_vars

\* "Sessions expire at the next IST midnight": no session is cached past the
\* midnight after the clock was read for it, but for the time Redis took.
EndsByMidnight == Cached => now < NextMidnight(session.read) + MaxLag

\* A session that a logout read is gone for good when the logout is answered,
\* also when the broker refused it and whatever logins run beside it.
LoggedOutStaysOut == Cached => session.id \notin ended

\* "This app's source of truth for is this user connected": after a logout
\* that no login overlaps at its end, nothing is cached until a login begins,
\* not even a session that was stored while the broker was being told.
LogoutDisconnects == off => ~Cached
=============================================================================
