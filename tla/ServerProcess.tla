--------------------------- MODULE ServerProcess ---------------------------
(***************************************************************************)
(* What the requests of one worker process share once it is up: the Redis  *)
(* client of extensions/redis_client.py, built by whoever needs it first,  *)
(* and the log of extensions/logger.py, whose lines carry the context that *)
(* middlewares/request_log_context.py sets for the request.  A carrier is  *)
(* what runs a request: a thread of the WSGI server, which serves many in  *)
(* turn, or the task and the thread of one request under ASGI.             *)
(***************************************************************************)
EXTENDS Settings

CONSTANTS
  Carriers, Home,   \* threads or tasks, and the worker each belongs to
  NoCarrier,
  Requests, NoRequest, NoLine,
  Clients, NoClient,
  MaxQueue          \* bound: lines in a queue that has none (queue.Queue(-1))

Line == [of : Requests \cup {NoRequest}, trace : Requests \cup {NoRequest}]

ASSUME ProcessAssumption ==
  /\ Home \in [Carriers -> Workers]
  /\ NoCarrier \notin Carriers
  /\ NoRequest \notin Requests
  /\ NoClient \notin Clients
  /\ NoLine \notin Line
  /\ MaxQueue \in Nat

VARIABLES
  pending,   \* requests that were not made yet
  serving,   \* the request a carrier runs
  inside,    \* is it past RequestLogContextMiddleware?
  context,   \* request_metadata_var of the carrier
  saved,     \* the reset token: what the variable held before
  call,      \* where the carrier is in get_client
  held,      \* the client it was given
  client,    \* RedisClientManager._client of a worker
  made,      \* clients that were built
  lock,      \* RedisClientManager._client_lock
  queue,     \* a worker's log queue
  written    \* the last line on its standard output

requestVars == <<pending, serving, inside, context, saved>>
clientVars == <<call, held, client, made, lock>>
logVars == <<queue, written>>
vars == <<settingsVars, requestVars, clientVars, logVars>>

Init ==
  /\ SettingsInit
  /\ pending = Requests
  /\ serving = [c \in Carriers |-> NoRequest]
  /\ inside = [c \in Carriers |-> FALSE]
  /\ context = [c \in Carriers |-> NoRequest]
  /\ saved = [c \in Carriers |-> NoRequest]
  /\ call = [c \in Carriers |-> "idle"]
  /\ held = [c \in Carriers |-> NoClient]
  /\ client = [w \in Workers |-> NoClient]
  /\ made = {}
  /\ lock = [w \in Workers |-> NoCarrier]
  /\ queue = [w \in Workers |-> <<>>]
  /\ written = [w \in Workers |-> NoLine]

Up(c) == step[Home[c]] = "up"

(***************************************************************************)
(* RequestLogContextMiddleware, with other middlewares around it.          *)
(***************************************************************************)
Arrive(c, r) ==
  /\ Up(c) /\ serving[c] = NoRequest
  /\ r \in pending
  /\ pending' = pending \ {r}
  /\ serving' = [serving EXCEPT ![c] = r]
  /\ UNCHANGED <<settingsVars, inside, context, saved, clientVars, logVars>>

\* _start: set() returns the token that reset() takes back.
Start(c) ==
  /\ serving[c] # NoRequest /\ ~inside[c]
  /\ saved' = [saved EXCEPT ![c] = context[c]]
  /\ context' = [context EXCEPT ![c] = serving[c]]
  /\ inside' = [inside EXCEPT ![c] = TRUE]
  /\ UNCHANGED <<settingsVars, pending, serving, clientVars, logVars>>

\* Faulty variant: the variable is not reset.
FinishKeepsContext(c) ==
  /\ inside[c] /\ call[c] \in {"idle", "raised"}
  /\ inside' = [inside EXCEPT ![c] = FALSE]
  /\ serving' = [serving EXCEPT ![c] = NoRequest]
  /\ held' = [held EXCEPT ![c] = NoClient]
  /\ call' = [call EXCEPT ![c] = "idle"]
  /\ UNCHANGED <<settingsVars, pending, context, saved, client, made, lock, logVars>>

\* The response, or an exception: finally resets the variable, and the request
\* object goes, with the services it built.
Finish(c) ==
  /\ inside[c] /\ call[c] \in {"idle", "raised"}
  /\ context' = [context EXCEPT ![c] = saved[c]]
  /\ saved' = [saved EXCEPT ![c] = NoRequest]
  /\ inside' = [inside EXCEPT ![c] = FALSE]
  /\ serving' = [serving EXCEPT ![c] = NoRequest]
  /\ held' = [held EXCEPT ![c] = NoClient]
  /\ call' = [call EXCEPT ![c] = "idle"]
  /\ UNCHANGED <<settingsVars, pending, client, made, lock, logVars>>

(***************************************************************************)
(* RedisClientManager.get_client: a look without the lock, a second look   *)
(* with it, and a return statement that reads the attribute once more.     *)
(***************************************************************************)
GetClient(c) ==
  /\ inside[c] /\ call[c] = "idle"
  /\ call' = [call EXCEPT ![c] =
                IF client[Home[c]] = NoClient THEN "wait" ELSE "return"]
  /\ UNCHANGED <<settingsVars, requestVars, held, client, made, lock, logVars>>

\* Faulty variant: no second look.
AcquireAndBuild(c) ==
  /\ call[c] = "wait"
  /\ lock[Home[c]] = NoCarrier
  /\ lock' = [lock EXCEPT ![Home[c]] = c]
  /\ call' = [call EXCEPT ![c] = "build"]
  /\ UNCHANGED <<settingsVars, requestVars, held, client, made, logVars>>

Acquire(c) ==
  /\ call[c] = "wait"
  /\ lock[Home[c]] = NoCarrier
  /\ lock' = [lock EXCEPT ![Home[c]] = c]
  /\ call' = [call EXCEPT ![c] =
                IF client[Home[c]] = NoClient THEN "build" ELSE "release"]
  /\ UNCHANGED <<settingsVars, requestVars, held, client, made, logVars>>

\* redis.Redis.from_url, which opens no connection.
BuildClient(c, x) ==
  /\ call[c] = "build"
  /\ x \notin made
  /\ made' = made \cup {x}
  /\ client' = [client EXCEPT ![Home[c]] = x]
  /\ call' = [call EXCEPT ![c] = "release"]
  /\ UNCHANGED <<settingsVars, requestVars, held, lock, logVars>>

\* The end of the with block.  from_url raises for a REDIS_URL it cannot read:
\* then the lock is released all the same and the exception leaves get_client.
Release(c) ==
  /\ call[c] \in {"build", "release"}
  /\ lock' = [lock EXCEPT ![Home[c]] = NoCarrier]
  /\ call' = [call EXCEPT ![c] = IF call[c] = "build" THEN "raised" ELSE "return"]
  /\ UNCHANGED <<settingsVars, requestVars, held, client, made, logVars>>

Return(c) ==
  /\ call[c] = "return"
  /\ held' = [held EXCEPT ![c] = client[Home[c]]]
  /\ call' = [call EXCEPT ![c] = "idle"]
  /\ UNCHANGED <<settingsVars, requestVars, client, made, lock, logVars>>

(***************************************************************************)
(* extensions/logger.py: the handler's filter adds the context in the      *)
(* carrier that logs; one listener thread writes what the queue holds.     *)
(***************************************************************************)
OwnRequest(c) == IF inside[c] THEN serving[c] ELSE NoRequest

Log(c) ==
  LET w == Home[c]
  IN  /\ Up(c) /\ Len(queue[w]) < MaxQueue
      /\ queue' = [queue EXCEPT ![w] =
                     Append(@, [of |-> OwnRequest(c), trace |-> context[c]])]
      /\ UNCHANGED <<settingsVars, requestVars, clientVars, written>>

Write(w) ==
  /\ queue[w] # <<>>
  /\ written' = [written EXCEPT ![w] = Head(queue[w])]
  /\ queue' = [queue EXCEPT ![w] = Tail(@)]
  /\ UNCHANGED <<settingsVars, requestVars, clientVars>>

\* The process goes, and with it its carriers, its client and its queue.
Restart(w) ==
  LET Gone(f, none) == [c \in Carriers |-> IF Home[c] = w THEN none ELSE f[c]]
  IN  /\ Reboot(w)
      /\ serving' = Gone(serving, NoRequest)
      /\ inside' = Gone(inside, FALSE)
      /\ context' = Gone(context, NoRequest)
      /\ saved' = Gone(saved, NoRequest)
      /\ call' = Gone(call, "idle")
      /\ held' = Gone(held, NoClient)
      /\ client' = [client EXCEPT ![w] = NoClient]
      /\ lock' = [lock EXCEPT ![w] = NoCarrier]
      /\ queue' = [queue EXCEPT ![w] = <<>>]
      /\ written' = [written EXCEPT ![w] = NoLine]
      /\ UNCHANGED <<pending, made>>

Calling(c) ==
  \/ Acquire(c) \/ Release(c) \/ Return(c)
  \/ \E x \in Clients : BuildClient(c, x)

Next ==
  \/ \E w \in Workers :
       \/ (Boot(w) \/ Expire(w)) /\ UNCHANGED <<requestVars, clientVars, logVars>>
       \/ Restart(w)
       \/ Write(w)
  \/ \E c \in Carriers :
       \/ \E r \in Requests : Arrive(c, r)
       \/ Start(c) \/ Finish(c) \/ Log(c)
       \/ GetClient(c) \/ Calling(c)

Spec == Init /\ [][Next]_vars

\* A process that is started runs on until it is up, or dies.
FairSpec ==
  /\ Spec
  /\ \A w \in Workers :
       WF_vars(Boot(w) /\ UNCHANGED <<requestVars, clientVars, logVars>>)

(***************************************************************************)
(* Properties                                                              *)
(***************************************************************************)
TypeOK ==
  /\ SettingsTypeOK
  /\ pending \subseteq Requests
  /\ serving \in [Carriers -> Requests \cup {NoRequest}]
  /\ inside \in [Carriers -> BOOLEAN]
  /\ context \in [Carriers -> Requests \cup {NoRequest}]
  /\ saved \in [Carriers -> Requests \cup {NoRequest}]
  /\ call \in [Carriers -> {"idle", "wait", "build", "release", "return",
                          "raised"}]
  /\ held \in [Carriers -> Clients \cup {NoClient}]
  /\ client \in [Workers -> Clients \cup {NoClient}]
  /\ made \subseteq Clients
  /\ lock \in [Workers -> Carriers \cup {NoCarrier}]
  /\ queue \in [Workers -> Seq(Line)]
  /\ written \in [Workers -> Line \cup {NoLine}]

\* "this request's context can never leak into a later request reusing the
\* same thread": every line bears the trace of the request it was logged for
\* and of no other, although another thread writes it later.
TraceIsOwn ==
  \A w \in Workers : written[w] # NoLine => written[w].trace = written[w].of

\* Whatever the threads do, a worker has one client, and everyone who was
\* given one has that one.
LazyClient == INSTANCE Once WITH
  Places <- Workers, Callers <- Carriers, Values <- Clients,
  NoValue <- NoClient, value <- client, taken <- held
ImplementsOnce == LazyClient!Spec
=============================================================================
