---------------------------- MODULE ServerProofs ----------------------------
(***************************************************************************)
(* Proofs about Settings and ServerProcess, for any number of workers,     *)
(* carriers, requests and clients, any order of secrets, any deployment    *)
(* and any bounds.  The boot touches none of the variables of the          *)
(* requests, so the inductive invariant is in two parts: BootInv about the *)
(* settings of a worker, and RunInv about its carriers, client and log.    *)
(***************************************************************************)
EXTENDS ServerProcess, TLAPS

RunTypeOK ==
  /\ serving \in [Carriers -> Requests \cup {NoRequest}]
  /\ context \in [Carriers -> Requests \cup {NoRequest}]
  /\ saved \in [Carriers -> Requests \cup {NoRequest}]
  /\ inside \in [Carriers -> BOOLEAN]
  /\ call \in [Carriers -> {"idle", "wait", "build", "release", "return", "raised"}]
  /\ held \in [Carriers -> Clients \cup {NoClient}]
  /\ client \in [Workers -> Clients \cup {NoClient}]
  /\ made \subseteq Clients
  /\ lock \in [Workers -> Carriers \cup {NoCarrier}]
  /\ pending \subseteq Requests

(***************************************************************************)
(* The boot of a worker.                                                   *)
(***************************************************************************)
\* A token comes from a configured Vault, and the second try has a valid one.
TokenIsFresh ==
  \A w \in Workers :
    /\ token[w] # "none" => deployed.configured
    /\ step[w] = "relogin" => ~authenticated[w]
    /\ step[w] = "refetch" => token[w] = "valid"

\* While Vault works, nothing that it holds is looked for elsewhere.
FallbackIsForced ==
  \A w \in Workers :
    step[w] \in {"fallback", "failed"} /\ ~outage[w] =>
      ~(deployed.configured /\ Wanted(w) \in deployed.vault)

\* The secrets resolved so far are those before turn.
TurnIsNext ==
  \A w \in Workers :
    IF step[w] = "up" THEN turn[w] = Len(Order) + 1 ELSE turn[w] <= Len(Order)

Chosen ==
  \A w \in Workers :
    ~outage[w] => \A i \in 1 .. turn[w] - 1 : source[w][Order[i]] = Choice(Order[i])

Complete ==
  \A w \in Workers :
    \A i \in 1 .. turn[w] - 1 :
      /\ source[w][Order[i]] # "none"
      /\ source[w][Order[i]] = "default" => Order[i] \in HasDefault \ deployed.env

FailedForWant ==
  \A w \in Workers :
    step[w] = "failed" => Wanted(w) \notin deployed.env \cup HasDefault

BootInv ==
  /\ SettingsTypeOK
  /\ TokenIsFresh
  /\ FallbackIsForced
  /\ TurnIsNext
  /\ Chosen
  /\ Complete
  /\ FailedForWant

LEMMA BootInit == SettingsInit => BootInv
<1> SUFFICES ASSUME SettingsInit PROVE BootInv
  OBVIOUS
<1>1. Len(Order) \in Nat \ {0}
  BY SettingsAssumption
<1>2. SettingsTypeOK
  BY <1>1, SettingsAssumption DEF SettingsInit, SettingsTypeOK, BootOver, Nowhere
<1>3. TokenIsFresh /\ FallbackIsForced /\ FailedForWant
  BY DEF SettingsInit, TokenIsFresh, FallbackIsForced, FailedForWant
<1>4. TurnIsNext /\ Chosen /\ Complete
  BY <1>1 DEF SettingsInit, TurnIsNext, Chosen, Complete
<1> QED
  BY <1>2, <1>3, <1>4 DEF BootInv

\* The three lemmas about a secret that was found.
LEMMA ResolvedTypes ==
  ASSUME BootInv, NEW w \in Workers, NEW from \in {"vault", "env", "default"},
         Resolved(w, from), step[w] \notin {"up", "failed"}
  PROVE  /\ source' \in [Workers -> [Secrets -> {"none", "vault", "env", "default"}]]
         /\ turn' \in [Workers -> 1 .. Len(Order) + 1]
         /\ step' \in [Workers -> BootOver \cup {"login", "fetch", "relogin", "refetch",
                                               "fallback"}]
         /\ TurnIsNext'
<1>1. Len(Order) \in Nat \ {0} /\ \A i \in 1 .. Len(Order) : Order[i] \in Secrets
  BY SettingsAssumption
<1>2. turn[w] \in 1 .. Len(Order) /\ Wanted(w) \in Secrets
  BY <1>1 DEF BootInv, SettingsTypeOK, TurnIsNext, Wanted
<1>3. source' \in [Workers -> [Secrets -> {"none", "vault", "env", "default"}]]
  BY <1>2 DEF BootInv, SettingsTypeOK, Resolved
<1>4. turn' \in [Workers -> 1 .. Len(Order) + 1]
  BY <1>1, <1>2 DEF BootInv, SettingsTypeOK, Resolved
<1>5. step' \in [Workers -> BootOver \cup {"login", "fetch", "relogin", "refetch",
                                        "fallback"}]
  BY DEF BootOver, BootInv, SettingsTypeOK, Resolved
<1>6. TurnIsNext'
  BY <1>1, <1>2 DEF BootInv, SettingsTypeOK, TurnIsNext, Resolved
<1> QED
  BY <1>3, <1>4, <1>5, <1>6

LEMMA ResolvedChosen ==
  ASSUME BootInv, NEW w \in Workers, NEW from, Resolved(w, from),
         step[w] \notin {"up", "failed"}, UNCHANGED <<outage, deployed>>,
         ~outage[w] => from = Choice(Wanted(w))
  PROVE  Chosen'
<1>1. Len(Order) \in Nat \ {0} /\ \A i \in 1 .. Len(Order) : Order[i] \in Secrets
  BY SettingsAssumption
<1>2. turn[w] \in 1 .. Len(Order) /\ Wanted(w) \in Secrets
  BY <1>1 DEF BootInv, SettingsTypeOK, TurnIsNext, Wanted
<1>3. SUFFICES ASSUME NEW v \in Workers, ~outage[v], NEW i \in 1 .. turn'[v] - 1
               PROVE  source'[v][Order[i]] = Choice(Order[i])
  BY DEF Chosen, Choice
<1>4. CASE v # w
  BY <1>3, <1>4 DEF BootInv, Chosen, Resolved, SettingsTypeOK
<1>5. CASE v = w
  <2>1. i \in 1 .. turn[w]
    BY <1>2, <1>5 DEF Resolved, BootInv, SettingsTypeOK
  <2>2. Order[i] \in Secrets
    BY <1>1, <1>2, <2>1
  <2>3. CASE Order[i] = Wanted(w)
    BY <1>2, <1>3, <1>5, <2>3 DEF Resolved, BootInv, SettingsTypeOK
  <2>4. CASE Order[i] # Wanted(w)
    <3>1. i \in 1 .. turn[w] - 1
      BY <1>2, <2>1, <2>4 DEF Wanted
    <3>2. source'[w][Order[i]] = source[w][Order[i]]
      BY <1>2, <2>2, <2>4 DEF Resolved, BootInv, SettingsTypeOK
    <3> QED
      BY <1>3, <1>5, <3>1, <3>2 DEF BootInv, Chosen
  <2> QED
    BY <2>3, <2>4
<1> QED
  BY <1>4, <1>5

LEMMA ResolvedComplete ==
  ASSUME BootInv, NEW w \in Workers, NEW from, Resolved(w, from),
         step[w] \notin {"up", "failed"}, UNCHANGED deployed, from # "none",
         from = "default" => Wanted(w) \in HasDefault \ deployed.env
  PROVE  Complete'
<1>1. Len(Order) \in Nat \ {0} /\ \A i \in 1 .. Len(Order) : Order[i] \in Secrets
  BY SettingsAssumption
<1>2. turn[w] \in 1 .. Len(Order) /\ Wanted(w) \in Secrets
  BY <1>1 DEF BootInv, SettingsTypeOK, TurnIsNext, Wanted
<1> QED
  BY <1>1, <1>2 DEF BootInv, SettingsTypeOK, Complete, Resolved, Wanted

LEMMA AuthenticateInv ==
  ASSUME BootInv, NEW w \in Workers, Authenticate(w)
  PROVE  BootInv'
<1>0. Len(Order) \in Nat \ {0} /\ \A i \in 1 .. Len(Order) : Order[i] \in Secrets
  BY SettingsAssumption
<1> USE <1>0 DEF BootOver, BootInv, SettingsTypeOK, Authenticate, LoggedIn, LoginFailed, counters
<1>1. SettingsTypeOK'
  BY SettingsAssumption DEF TurnIsNext, Wanted
<1>2. TokenIsFresh'
  BY DEF TokenIsFresh
<1>3. FallbackIsForced'
  <2>1. CASE LoggedIn(w)
    BY <2>1 DEF FallbackIsForced, Wanted
  <2>2. CASE LoginFailed(w)
    BY <2>2 DEF FallbackIsForced, Wanted
  <2> QED
    BY <2>1, <2>2
<1>4. TurnIsNext'
  BY DEF TurnIsNext
<1>5. Chosen'
  <2>1. CASE LoggedIn(w)
    BY <2>1 DEF Chosen, Choice
  <2>2. CASE LoginFailed(w)
    BY <2>2 DEF Chosen, Choice
  <2> QED
    BY <2>1, <2>2
<1>6. Complete'
  BY DEF Complete, TurnIsNext, Wanted
<1>7. FailedForWant'
  BY DEF FailedForWant, Wanted
<1> QED
  BY <1>1, <1>2, <1>3, <1>4, <1>5, <1>6, <1>7 DEF BootInv

LEMMA FetchSucceedsInv ==
  ASSUME BootInv, NEW w \in Workers, FetchSucceeds(w)
  PROVE  BootInv'
<1>0. Len(Order) \in Nat \ {0} /\ \A i \in 1 .. Len(Order) : Order[i] \in Secrets
  BY SettingsAssumption
<1> USE <1>0 DEF BootOver, BootInv, SettingsTypeOK, FetchSucceeds, Resolved, Held, counters
<1>1. SettingsTypeOK'
  BY ResolvedTypes
<1>2. TokenIsFresh'
  BY DEF TokenIsFresh
<1>3. FallbackIsForced'
  BY DEF FallbackIsForced, TokenIsFresh, Wanted
<1>4. TurnIsNext'
  BY ResolvedTypes
<1>5. Chosen'
  BY DEF Chosen, Choice, FallbackIsForced, TokenIsFresh, TurnIsNext, Wanted
<1>6. Complete'
  BY DEF Complete, TurnIsNext, Wanted
<1>7. FailedForWant'
  BY DEF FailedForWant, Wanted
<1> QED
  BY <1>1, <1>2, <1>3, <1>4, <1>5, <1>6, <1>7 DEF BootInv

LEMMA FetchFailsInv ==
  ASSUME BootInv, NEW w \in Workers, FetchFails(w)
  PROVE  BootInv'
<1>0. Len(Order) \in Nat \ {0} /\ \A i \in 1 .. Len(Order) : Order[i] \in Secrets
  BY SettingsAssumption
<1> USE <1>0 DEF BootOver, BootInv, SettingsTypeOK, FetchFails, Held, counters
<1>1. SettingsTypeOK'
  BY SettingsAssumption DEF TurnIsNext, Wanted
<1>2. TokenIsFresh'
  BY DEF TokenIsFresh
<1>3. FallbackIsForced'
  BY DEF FallbackIsForced, TokenIsFresh, Wanted
<1>4. TurnIsNext'
  BY DEF TurnIsNext
<1>5. Chosen'
  BY DEF Chosen, Choice, FallbackIsForced, TokenIsFresh, TurnIsNext, Wanted
<1>6. Complete'
  BY DEF Complete, TurnIsNext, Wanted
<1>7. FailedForWant'
  BY DEF FailedForWant, Wanted
<1> QED
  BY <1>1, <1>2, <1>3, <1>4, <1>5, <1>6, <1>7 DEF BootInv

LEMMA SdkRaisesInv ==
  ASSUME BootInv, NEW w \in Workers, SdkRaises(w)
  PROVE  BootInv'
<1>0. Len(Order) \in Nat \ {0} /\ \A i \in 1 .. Len(Order) : Order[i] \in Secrets
  BY SettingsAssumption
<1> USE <1>0 DEF BootInv, SettingsTypeOK, SdkRaises, counters, BootOver
<1>1. SettingsTypeOK'
  OBVIOUS
<1>2. TokenIsFresh'
  BY DEF TokenIsFresh
<1>3. FallbackIsForced'
  BY DEF FallbackIsForced, Wanted
<1>4. TurnIsNext'
  BY DEF TurnIsNext
<1>5. Chosen'
  BY DEF Chosen, Choice
<1>6. Complete'
  BY DEF Complete
<1>7. FailedForWant'
  BY DEF FailedForWant, Wanted
<1> QED
  BY <1>1, <1>2, <1>3, <1>4, <1>5, <1>6, <1>7 DEF BootInv

LEMMA FallbackInv ==
  ASSUME BootInv, NEW w \in Workers, Fallback(w)
  PROVE  BootInv'
<1>1. CASE Wanted(w) \in deployed.env /\ Resolved(w, "env")
  <2> USE <1>1 DEF BootInv, Fallback, counters
  <2>1. SettingsTypeOK' /\ TurnIsNext'
    BY ResolvedTypes DEF SettingsTypeOK
  <2>2. ~outage[w] => Choice(Wanted(w)) = "env"
    BY DEF FallbackIsForced, Choice
  <2>3. Chosen' /\ Complete'
    BY <2>2, ResolvedChosen, ResolvedComplete
  <2>4. TokenIsFresh' /\ FallbackIsForced' /\ FailedForWant'
    BY DEF SettingsTypeOK, TokenIsFresh, FallbackIsForced, FailedForWant, Resolved, Wanted
  <2> QED
    BY <2>1, <2>3, <2>4
<1>2. CASE Wanted(w) \in HasDefault \ deployed.env /\ Resolved(w, "default")
  <2> USE <1>2 DEF BootInv, Fallback, counters
  <2>1. SettingsTypeOK' /\ TurnIsNext'
    BY ResolvedTypes DEF SettingsTypeOK
  <2>2. ~outage[w] => Choice(Wanted(w)) = "default"
    BY DEF FallbackIsForced, Choice
  <2>3. Chosen' /\ Complete'
    BY <2>2, ResolvedChosen, ResolvedComplete
  <2>4. TokenIsFresh' /\ FallbackIsForced' /\ FailedForWant'
    BY DEF SettingsTypeOK, TokenIsFresh, FallbackIsForced, FailedForWant, Resolved, Wanted
  <2> QED
    BY <2>1, <2>3, <2>4
<1>3. CASE /\ Wanted(w) \notin deployed.env \cup HasDefault
           /\ step' = [step EXCEPT ![w] = "failed"]
           /\ UNCHANGED <<turn, source>>
  <2> USE <1>3 DEF BootInv, Fallback, counters
  <2>1. SettingsTypeOK' /\ TurnIsNext'
    BY DEF SettingsTypeOK, TurnIsNext, BootOver
  <2>2. Chosen' /\ Complete'
    BY DEF Chosen, Complete, Choice
  <2>3. TokenIsFresh' /\ FallbackIsForced' /\ FailedForWant'
    BY DEF SettingsTypeOK, TokenIsFresh, FallbackIsForced, FailedForWant, Wanted
  <2> QED
    BY <2>1, <2>2, <2>3
<1> QED
  BY <1>1, <1>2, <1>3 DEF Fallback

LEMMA ExpireInv ==
  ASSUME BootInv, NEW w \in Workers, Expire(w)
  PROVE  BootInv'
<1>0. Len(Order) \in Nat \ {0} /\ \A i \in 1 .. Len(Order) : Order[i] \in Secrets
  BY SettingsAssumption
<1> USE <1>0 DEF BootOver, BootInv, SettingsTypeOK, Expire
<1>1. SettingsTypeOK'
  BY SettingsAssumption DEF TurnIsNext, Wanted
<1>2. TokenIsFresh'
  BY DEF TokenIsFresh
<1>3. FallbackIsForced'
  BY DEF FallbackIsForced, TokenIsFresh, Wanted
<1>4. TurnIsNext'
  BY DEF TurnIsNext
<1>5. Chosen'
  BY DEF Chosen, Choice, FallbackIsForced, TokenIsFresh, TurnIsNext, Wanted
<1>6. Complete'
  BY DEF Complete, TurnIsNext, Wanted
<1>7. FailedForWant'
  BY DEF FailedForWant, Wanted
<1> QED
  BY <1>1, <1>2, <1>3, <1>4, <1>5, <1>6, <1>7 DEF BootInv

LEMMA RebootInv ==
  ASSUME BootInv, NEW w \in Workers, Reboot(w)
  PROVE  BootInv'
<1>0. Len(Order) \in Nat \ {0} /\ \A i \in 1 .. Len(Order) : Order[i] \in Secrets
  BY SettingsAssumption
<1> USE <1>0 DEF BootOver, BootInv, SettingsTypeOK, Reboot, Nowhere
<1>1. SettingsTypeOK'
  BY SettingsAssumption DEF TurnIsNext, Wanted
<1>2. TokenIsFresh'
  BY DEF TokenIsFresh
<1>3. FallbackIsForced'
  BY DEF FallbackIsForced, TokenIsFresh, Wanted
<1>4. TurnIsNext'
  BY DEF TurnIsNext
<1>5. Chosen'
  BY DEF Chosen, Choice, FallbackIsForced, TokenIsFresh, TurnIsNext, Wanted
<1>6. Complete'
  BY DEF Complete, TurnIsNext, Wanted
<1>7. FailedForWant'
  BY DEF FailedForWant, Wanted
<1> QED
  BY <1>1, <1>2, <1>3, <1>4, <1>5, <1>6, <1>7 DEF BootInv

LEMMA BootNext ==
  ASSUME BootInv, NEW w \in Workers, Boot(w) \/ Expire(w) \/ Reboot(w)
  PROVE  BootInv'
BY AuthenticateInv, FetchSucceedsInv, FetchFailsInv, FallbackInv, SdkRaisesInv,
   ExpireInv, RebootInv DEF Boot

LEMMA BootStutter == BootInv /\ UNCHANGED settingsVars => BootInv'
BY DEF BootInv, settingsVars, SettingsTypeOK, TokenIsFresh, FallbackIsForced,
       TurnIsNext, Chosen, Choice, Complete, FailedForWant, Wanted

(***************************************************************************)
(* The requests, the client and the log.                                   *)
(***************************************************************************)
OwnLine == {line \in Line : line.trace = line.of}

\* The context is that of the request between Start and Finish, else empty.
ContextIsOwn ==
  \A c \in Carriers :
    IF inside[c]
    THEN serving[c] # NoRequest /\ context[c] = serving[c] /\ saved[c] = NoRequest
    ELSE context[c] = NoRequest

LogIsOwn ==
  /\ queue \in [Workers -> Seq(OwnLine)]
  /\ written \in [Workers -> OwnLine \cup {NoLine}]

\* Who builds holds the lock, and nobody has built before.
OneBuilder ==
  \A c \in Carriers :
    /\ call[c] = "build" => lock[Home[c]] = c /\ client[Home[c]] = NoClient
    /\ call[c] = "release" => lock[Home[c]] = c /\ client[Home[c]] # NoClient
    /\ call[c] = "return" => client[Home[c]] # NoClient

RunInv == RunTypeOK /\ ContextIsOwn /\ LogIsOwn /\ OneBuilder

runVars == <<requestVars, clientVars, logVars>>

LEMMA RunInit == Init => RunInv
BY DEF Init, RunInv, RunTypeOK, ContextIsOwn, LogIsOwn, OneBuilder

LEMMA RunStutter == RunInv /\ UNCHANGED runVars => RunInv'
BY DEF runVars, requestVars, clientVars, logVars, RunInv, RunTypeOK,
       ContextIsOwn, LogIsOwn, OneBuilder

\* A step of a request: the client and the log are not concerned.
LEMMA ArriveInv ==
  ASSUME RunInv, NEW c \in Carriers, NEW r \in Requests, Arrive(c, r)
  PROVE  RunInv'
BY DEF RunInv, RunTypeOK, clientVars, logVars, Arrive, ContextIsOwn, LogIsOwn,
       OneBuilder

LEMMA RequestInv ==
  ASSUME RunInv, NEW c \in Carriers, Start(c) \/ Finish(c)
  PROVE  RunInv'
<1> USE ProcessAssumption DEF RunInv, RunTypeOK, clientVars, logVars
<1>1. CASE Start(c)
  BY <1>1 DEF Start, ContextIsOwn, LogIsOwn, OneBuilder
<1>2. CASE Finish(c)
  BY <1>2 DEF Finish, ContextIsOwn, LogIsOwn, OneBuilder
<1> QED
  BY <1>1, <1>2

LEMMA CallInv ==
  ASSUME RunInv, NEW c \in Carriers, GetClient(c) \/ Calling(c)
  PROVE  RunInv'
<1> USE ProcessAssumption DEF RunInv, RunTypeOK, requestVars, logVars
<1>1. CASE GetClient(c)
  BY <1>1 DEF GetClient, ContextIsOwn, LogIsOwn, OneBuilder
<1>2. CASE Acquire(c)
  BY <1>2 DEF Acquire, ContextIsOwn, LogIsOwn, OneBuilder
<1>3. ASSUME NEW x \in Clients, BuildClient(c, x)
      PROVE  RunInv'
  BY <1>3 DEF BuildClient, ContextIsOwn, LogIsOwn, OneBuilder
<1>4. CASE Release(c)
  BY <1>4 DEF Release, ContextIsOwn, LogIsOwn, OneBuilder
<1>5. CASE Return(c)
  BY <1>5 DEF Return, ContextIsOwn, LogIsOwn, OneBuilder
<1> QED
  BY <1>1, <1>2, <1>3, <1>4, <1>5 DEF Calling

LEMMA LogInv ==
  ASSUME RunInv, NEW c \in Carriers, Log(c)
  PROVE  RunInv'
<1> USE ProcessAssumption DEF RunInv, RunTypeOK, Log, requestVars, clientVars
<1>1. [of |-> OwnRequest(c), trace |-> context[c]] \in OwnLine
  BY DEF ContextIsOwn, OwnRequest, OwnLine, Line
<1>2. LogIsOwn'
  BY <1>1 DEF LogIsOwn
<1>3. RunTypeOK' /\ ContextIsOwn' /\ OneBuilder'
  BY DEF ContextIsOwn, OneBuilder
<1> QED
  BY <1>2, <1>3

LEMMA WriteInv ==
  ASSUME RunInv, NEW w \in Workers, Write(w)
  PROVE  RunInv'
<1> USE DEF RunInv, RunTypeOK, Write, requestVars, clientVars
<1>1. Head(queue[w]) \in OwnLine /\ Tail(queue[w]) \in Seq(OwnLine)
  BY DEF LogIsOwn
<1>2. LogIsOwn'
  BY <1>1 DEF LogIsOwn
<1>3. RunTypeOK' /\ ContextIsOwn' /\ OneBuilder'
  BY DEF ContextIsOwn, OneBuilder
<1> QED
  BY <1>2, <1>3

LEMMA RestartInv ==
  ASSUME RunInv, NEW w \in Workers, Restart(w)
  PROVE  RunInv'
<1> USE ProcessAssumption DEF RunInv, RunTypeOK, Restart
<1>1. RunTypeOK'
  OBVIOUS
<1>2. ContextIsOwn'
  BY DEF ContextIsOwn
<1>3. LogIsOwn'
  BY DEF LogIsOwn
<1>4. OneBuilder'
  BY DEF OneBuilder
<1> QED
  BY <1>1, <1>2, <1>3, <1>4

(***************************************************************************)
(* The theorems.                                                           *)
(***************************************************************************)
IInv == BootInv /\ RunInv

LEMMA InitIInv == Init => IInv
BY BootInit, RunInit DEF Init, IInv

LEMMA NextIInv == IInv /\ [Next]_vars => IInv'
<1> SUFFICES ASSUME IInv, [Next]_vars PROVE IInv'
  OBVIOUS
<1> USE DEF IInv
<1>1. ASSUME NEW w \in Workers, Boot(w) \/ Expire(w),
             UNCHANGED <<requestVars, clientVars, logVars>>
      PROVE  IInv'
  BY <1>1, BootNext, RunStutter DEF runVars
<1>2. ASSUME NEW w \in Workers, Restart(w)
      PROVE  IInv'
  BY <1>2, BootNext, RestartInv DEF Restart
<1>3. ASSUME NEW w \in Workers, Write(w)
      PROVE  IInv'
  BY <1>3, BootStutter, WriteInv DEF Write
<1>4. ASSUME NEW c \in Carriers, NEW r \in Requests, Arrive(c, r)
      PROVE  IInv'
  BY <1>4, BootStutter, ArriveInv DEF Arrive
<1>5. ASSUME NEW c \in Carriers, Start(c) \/ Finish(c)
      PROVE  IInv'
  <2>1. UNCHANGED settingsVars
    BY <1>5 DEF Start, Finish
  <2> QED
    BY <1>5, <2>1, BootStutter, RequestInv
<1>6. ASSUME NEW c \in Carriers, Log(c)
      PROVE  IInv'
  BY <1>6, BootStutter, LogInv DEF Log
<1>7. ASSUME NEW c \in Carriers, GetClient(c) \/ Calling(c)
      PROVE  IInv'
  <2>1. UNCHANGED settingsVars
    BY <1>7 DEF GetClient, Calling, Acquire, Release, Return, BuildClient
  <2> QED
    BY <1>7, <2>1, BootStutter, CallInv
<1>8. CASE UNCHANGED vars
  BY <1>8, BootStutter, RunStutter DEF vars, runVars
<1> QED
  BY <1>1, <1>2, <1>3, <1>4, <1>5, <1>6, <1>7, <1>8 DEF Next

LEMMA Invariance == Spec => []IInv
BY InitIInv, NextIInv, PTL DEF Spec

\* Every variable of a worker and of its carriers has its type.
THEOREM TypeCorrect == Spec => []TypeOK
<1>1. OwnLine \subseteq Line
  BY DEF OwnLine
<1>2. ASSUME IInv PROVE TypeOK
  <2>1. queue \in [Workers -> Seq(Line)] /\ written \in [Workers -> Line \cup {NoLine}]
    BY <1>1, <1>2 DEF IInv, RunInv, LogIsOwn
  <2> QED
    BY <1>2, <2>1 DEF IInv, BootInv, RunInv, RunTypeOK, TypeOK
<1> QED
  BY <1>2, Invariance, PTL

\* A boot that Vault did not fail takes each secret from where the deployment
\* alone says, although tokens expire in it: all workers sign with one key.
THEOREM Agreement == Spec => []WorkersAgree
<1>1. ASSUME IInv PROVE WorkersAgree
  <2>1. SUFFICES ASSUME NEW w \in Workers, step[w] = "up", ~outage[w],
                        NEW i \in DOMAIN Order
                 PROVE  source[w][Order[i]] = Choice(Order[i])
    BY DEF WorkersAgree
  <2>2. turn[w] = Len(Order) + 1 /\ i \in 1 .. Len(Order)
    BY <1>1, <2>1, SettingsAssumption DEF IInv, BootInv, TurnIsNext
  <2> QED
    BY <1>1, <2>1, <2>2, SettingsAssumption DEF IInv, BootInv, Chosen
<1> QED
  BY <1>1, Invariance, PTL

\* No worker serves with a secret that was found nowhere, and none refuses to
\* boot while there is a value to be had.
THEOREM Completeness == Spec => []SecretsComplete
<1>1. ASSUME IInv PROVE SecretsComplete
  <2> USE <1>1 DEF IInv, BootInv
  <2>1. SUFFICES ASSUME NEW w \in Workers
                 PROVE  /\ step[w] = "up" =>
                             \A i \in DOMAIN Order :
                               /\ source[w][Order[i]] # "none"
                               /\ source[w][Order[i]] = "default" =>
                                    Order[i] \in HasDefault \ deployed.env
                        /\ step[w] = "failed" =>
                             /\ Wanted(w) \notin deployed.env \cup HasDefault
                             /\ \/ outage[w] \/ ~deployed.configured
                                \/ Wanted(w) \notin deployed.vault
    BY DEF SecretsComplete
  <2>2. step[w] = "up" => turn[w] = Len(Order) + 1
    BY DEF TurnIsNext
  <2>3. DOMAIN Order = 1 .. Len(Order) /\ Len(Order) \in Nat
    BY SettingsAssumption
  <2>4. step[w] = "up" =>
          \A i \in DOMAIN Order :
            /\ source[w][Order[i]] # "none"
            /\ source[w][Order[i]] = "default" =>
                 Order[i] \in HasDefault \ deployed.env
    BY <2>2, <2>3 DEF Complete
  <2>5. step[w] = "failed" =>
          /\ Wanted(w) \notin deployed.env \cup HasDefault
          /\ outage[w] \/ ~deployed.configured \/ Wanted(w) \notin deployed.vault
    BY DEF FallbackIsForced, FailedForWant
  <2> QED
    BY <2>4, <2>5
<1> QED
  BY <1>1, Invariance, PTL

\* However the carriers of a worker interleave, a line that is written bears
\* the trace of the request it was logged for.
THEOREM NoLeakedTrace == Spec => []TraceIsOwn
<1>1. IInv => TraceIsOwn
  BY DEF IInv, RunInv, LogIsOwn, OwnLine, TraceIsOwn
<1> QED
  BY <1>1, Invariance, PTL

\* The double-checked lock builds at most one client per worker and life, and
\* every caller is handed that one: each step is one of Once, or none.
THEOREM Refinement == Spec => ImplementsOnce
<1>1. Init => LazyClient!Init
  BY DEF Init, LazyClient!Init
<1>2. ASSUME IInv, [Next]_vars
      PROVE  [LazyClient!Next]_(LazyClient!vars)
  <2> USE DEF LazyClient!vars, LazyClient!Next
  <2>1. ASSUME NEW w \in Workers, Restart(w)
        PROVE  LazyClient!GoDown(w)
    BY <2>1 DEF Restart, LazyClient!GoDown
  <2>2. ASSUME NEW c \in Carriers, Finish(c)
        PROVE  LazyClient!Give(c)
    BY <2>2 DEF Finish, LazyClient!Give
  <2>3. ASSUME NEW c \in Carriers, NEW x \in Clients, BuildClient(c, x)
        PROVE  Home[c] \in Workers /\ LazyClient!Build(Home[c], x)
    BY <1>2, <2>3, ProcessAssumption
       DEF IInv, RunInv, OneBuilder, BuildClient, LazyClient!Build
  <2>4. ASSUME NEW c \in Carriers, Return(c)
        PROVE  LazyClient!Take(c)
    BY <1>2, <2>4 DEF IInv, RunInv, OneBuilder, Return, LazyClient!Take
  <2>5. ASSUME NEW c \in Carriers, NEW r \in Requests, Arrive(c, r)
        PROVE  UNCHANGED <<client, held>>
    BY <2>5 DEF Arrive, clientVars
  <2>6. ASSUME NEW c \in Carriers,
               Start(c) \/ Log(c) \/ GetClient(c) \/ Acquire(c) \/ Release(c)
        PROVE  UNCHANGED <<client, held>>
    BY <2>6 DEF Start, Log, GetClient, Acquire, Release, clientVars
  <2>7. ASSUME NEW w \in Workers,
               \/ UNCHANGED <<requestVars, clientVars, logVars>>
               \/ Write(w)
        PROVE  UNCHANGED <<client, held>>
    BY <2>7 DEF Write, clientVars
  <2>8. CASE UNCHANGED vars
    BY <2>8 DEF vars, clientVars
  <2> QED
    BY <1>2, <2>1, <2>2, <2>3, <2>4, <2>5, <2>6, <2>7, <2>8 DEF Next, Calling
<1> QED
  BY <1>1, <1>2, Invariance, PTL DEF Spec, ImplementsOnce, LazyClient!Spec

=============================================================================
