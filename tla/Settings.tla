------------------------------ MODULE Settings ------------------------------
(***************************************************************************)
(* How the worker processes of the server start: each loads                *)
(* django_app/settings.py, which resolves one secret after another with    *)
(* _get_secret, from Vault (extensions/vault.py) and else from the         *)
(* environment or a default.  A worker has its own copy of everything here;*)
(* Vault is what they share, and it may refuse, be away, or let a worker's *)
(* token expire at any time, and its SDK may raise what nobody catches.    *)
(***************************************************************************)
EXTENDS Naturals, Sequences

CONSTANTS
  Workers,      \* the processes uvicorn starts
  Secrets,      \* names of the secrets
  Order,        \* the order in which settings.py asks for them
  HasDefault,   \* the secrets asked for with a default
  Deployments,  \* what Vault and the environment hold, and if Vault is set up
  MaxExpiries,  \* bound: how often a worker's Vault token expires
  MaxRestarts   \* bound: how often the workers are restarted

ASSUME SettingsAssumption ==
  /\ Order \in Seq(Secrets) /\ Order # <<>>
  /\ HasDefault \subseteq Secrets
  /\ Deployments \subseteq [configured : BOOLEAN, vault : SUBSET Secrets,
                            env : SUBSET Secrets]
  /\ MaxExpiries \in Nat /\ MaxRestarts \in Nat

VARIABLES
  deployed,       \* the deployment at hand
  step,           \* where a worker's boot is
  turn,           \* the secret it resolves, a position in Order
  authenticated,  \* InfisicalVaultManager._authenticated
  token,          \* the access token inside the SDK client
  source,         \* where each secret was taken from
  outage,         \* did Vault fail this boot?
  expiries,       \* how often the token expired
  restarts        \* restarts so far

settingsVars == <<deployed, step, turn, authenticated, token, source, outage,
                  expiries, restarts>>
counters == <<deployed, expiries, restarts>>

Nowhere == [s \in Secrets |-> "none"]

SettingsInit ==
  /\ deployed \in Deployments
  /\ step = [w \in Workers |-> "login"]
  /\ turn = [w \in Workers |-> 1]
  /\ authenticated = [w \in Workers |-> FALSE]
  /\ token = [w \in Workers |-> "none"]
  /\ source = [w \in Workers |-> Nowhere]
  /\ outage = [w \in Workers |-> FALSE]
  /\ expiries = 0
  /\ restarts = 0

Wanted(w) == Order[turn[w]]

\* _authenticate: nothing to do, or a login that Vault accepts.
LoggedIn(w) ==
  /\ \/ authenticated[w] /\ UNCHANGED <<authenticated, token>>
     \/ /\ ~authenticated[w] /\ deployed.configured
        /\ authenticated' = [authenticated EXCEPT ![w] = TRUE]
        /\ token' = [token EXCEPT ![w] = "valid"]
  /\ step' = [step EXCEPT ![w] = IF step[w] = "login" THEN "fetch" ELSE "refetch"]
  /\ UNCHANGED <<turn, source, outage, counters>>

\* VaultNotConfiguredError, without a call; VaultSecretUnavailableError after
\* a login that failed.
LoginFailed(w) ==
  /\ ~authenticated[w]
  /\ outage' = [outage EXCEPT ![w] = @ \/ deployed.configured]
  /\ step' = [step EXCEPT ![w] = "fallback"]
  /\ UNCHANGED <<turn, authenticated, token, source, counters>>

Authenticate(w) ==
  /\ step[w] \in {"login", "relogin"}
  /\ LoggedIn(w) \/ LoginFailed(w)

\* The value is there: on to the next secret, or the settings are complete.
Resolved(w, from) ==
  /\ source' = [source EXCEPT ![w][Wanted(w)] = from]
  /\ turn' = [turn EXCEPT ![w] = @ + 1]
  /\ step' = [step EXCEPT ![w] = IF turn[w] = Len(Order) THEN "up" ELSE "login"]

Held(w) == token[w] = "valid" /\ Wanted(w) \in deployed.vault

FetchSucceeds(w) ==
  /\ step[w] \in {"fetch", "refetch"}
  /\ Held(w)
  /\ Resolved(w, "vault")
  /\ UNCHANGED <<authenticated, token, outage, counters>>

\* Faulty variants: the second try reuses the login; every failure is retried.
FetchFailsKeepsLogin(w) ==
  /\ step[w] \in {"fetch", "refetch"}
  /\ outage' = [outage EXCEPT ![w] = @ \/ Held(w)]
  /\ step' = [step EXCEPT ![w] = IF @ = "fetch" THEN "relogin" ELSE "fallback"]
  /\ UNCHANGED <<turn, authenticated, token, source, counters>>

FetchFailsAgain(w) ==
  /\ step[w] \in {"fetch", "refetch"}
  /\ outage' = [outage EXCEPT ![w] = @ \/ Held(w)]
  /\ authenticated' = [authenticated EXCEPT ![w] = FALSE]
  /\ step' = [step EXCEPT ![w] = "relogin"]
  /\ UNCHANGED <<turn, token, source, counters>>

\* An InfisicalError: the token expired, the secret is missing, or Vault fails.
\* The first one forces a fresh login and a second try, the second gives up.
FetchFails(w) ==
  /\ step[w] \in {"fetch", "refetch"}
  /\ outage' = [outage EXCEPT ![w] = @ \/ Held(w)]
  /\ IF step[w] = "fetch"
       THEN /\ authenticated' = [authenticated EXCEPT ![w] = FALSE]
            /\ step' = [step EXCEPT ![w] = "relogin"]
       ELSE /\ step' = [step EXCEPT ![w] = "fallback"]
            /\ UNCHANGED authenticated
  /\ UNCHANGED <<turn, token, source, counters>>

\* Faulty variant: a missing secret is replaced by a blank one.
FallbackToBlank(w) ==
  /\ step[w] = "fallback"
  /\ \/ Wanted(w) \in deployed.env /\ Resolved(w, "env")
     \/ Wanted(w) \notin deployed.env /\ Resolved(w, "default")
  /\ UNCHANGED <<authenticated, token, outage, counters>>

\* env(key, default=...), which raises ImproperlyConfigured without either.
Fallback(w) ==
  /\ step[w] = "fallback"
  /\ \/ Wanted(w) \in deployed.env /\ Resolved(w, "env")
     \/ /\ Wanted(w) \in HasDefault \ deployed.env
        /\ Resolved(w, "default")
     \/ /\ Wanted(w) \notin deployed.env \cup HasDefault
        /\ step' = [step EXCEPT ![w] = "failed"]
        /\ UNCHANGED <<turn, source>>
  /\ UNCHANGED <<authenticated, token, outage, counters>>

\* A login or a fetch raises something that is no InfisicalError.  Neither
\* vault.py nor _get_secret catches it: the import of the settings ends, and no
\* fallback is tried.
SdkRaises(w) ==
  /\ deployed.configured
  /\ \/ step[w] \in {"login", "relogin"} /\ ~authenticated[w]
     \/ step[w] \in {"fetch", "refetch"}
  /\ outage' = [outage EXCEPT ![w] = TRUE]
  /\ step' = [step EXCEPT ![w] = "crashed"]
  /\ UNCHANGED <<turn, authenticated, token, source, counters>>

Boot(w) ==
  \/ Authenticate(w) \/ FetchSucceeds(w) \/ FetchFails(w) \/ Fallback(w)
  \/ SdkRaises(w)

\* A boot is over when the worker is up, for want of a value
\* (ImproperlyConfigured), or with an exception of the SDK.
BootOver == {"up", "failed", "crashed"}

\* The lifetime of a token may end anywhere in a boot, but it outlasts the call
\* that the login was made for.
Expire(w) ==
  /\ token[w] = "valid"
  /\ step[w] \notin BootOver \cup {"refetch"}
  /\ expiries < MaxExpiries
  /\ token' = [token EXCEPT ![w] = "stale"]
  /\ expiries' = expiries + 1
  /\ UNCHANGED <<deployed, step, turn, authenticated, source, outage, restarts>>

\* A worker dies, or its boot failed, and it is started anew.
Reboot(w) ==
  /\ restarts < MaxRestarts
  /\ step' = [step EXCEPT ![w] = "login"]
  /\ turn' = [turn EXCEPT ![w] = 1]
  /\ authenticated' = [authenticated EXCEPT ![w] = FALSE]
  /\ token' = [token EXCEPT ![w] = "none"]
  /\ source' = [source EXCEPT ![w] = Nowhere]
  /\ outage' = [outage EXCEPT ![w] = FALSE]
  /\ restarts' = restarts + 1
  /\ UNCHANGED <<deployed, expiries>>

(***************************************************************************)
(* Properties                                                              *)
(***************************************************************************)
SettingsTypeOK ==
  /\ deployed \in Deployments
  /\ step \in [Workers -> BootOver \cup {"login", "fetch", "relogin", "refetch",
                                        "fallback"}]
  /\ turn \in [Workers -> 1 .. Len(Order) + 1]
  /\ authenticated \in [Workers -> BOOLEAN]
  /\ token \in [Workers -> {"none", "valid", "stale"}]
  /\ source \in [Workers -> [Secrets -> {"none", "vault", "env", "default"}]]
  /\ outage \in [Workers -> BOOLEAN]
  /\ expiries \in 0 .. MaxExpiries
  /\ restarts \in 0 .. MaxRestarts

\* What a boot takes from where while Vault works depends on the deployment
\* alone, so all workers hold the same secrets, before and after a restart, and
\* each accepts the tokens that another signs: a Vault token that expires in
\* the middle of a boot is replaced and never makes it fall back.
Choice(s) ==
  IF deployed.configured /\ s \in deployed.vault THEN "vault"
  ELSE IF s \in deployed.env THEN "env" ELSE "default"

WorkersAgree ==
  \A w \in Workers :
    step[w] = "up" /\ ~outage[w] =>
      \A i \in DOMAIN Order : source[w][Order[i]] = Choice(Order[i])

\* A worker is up only with a value for every secret, and with a default only
\* where settings.py gives one and the environment has nothing.  A boot ends in
\* ImproperlyConfigured only where neither has a value and Vault gave none, also
\* after a failed login or fetch (an exception of the SDK ends it otherwise).
SecretsComplete ==
  \A w \in Workers :
    /\ step[w] = "up" =>
         \A i \in DOMAIN Order :
           /\ source[w][Order[i]] # "none"
           /\ source[w][Order[i]] = "default" =>
                Order[i] \in HasDefault \ deployed.env
    /\ step[w] = "failed" =>
         /\ Wanted(w) \notin deployed.env \cup HasDefault
         /\ outage[w] \/ ~deployed.configured \/ Wanted(w) \notin deployed.vault

\* Every boot ends, whatever Vault does: each secret takes two tries at most.
BootEnds ==
  \A w \in Workers : step[w] \notin BootOver ~> step[w] \in BootOver
=============================================================================
