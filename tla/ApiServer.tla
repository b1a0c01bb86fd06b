------------------------------ MODULE ApiServer ------------------------------
(***************************************************************************)
(* One API process from boot to exit: the posture it boots with, the order *)
(* in which app.ts puts a request through body limit, token, rate limit,   *)
(* validation, attribution and store, the cached and shared fetch of the   *)
(* key set, the key provider that rotates behind it, and the shutdown that *)
(* drains requests, closes the pool and is watched by a timer.             *)
(*                                                                         *)
(* A step is what runs between two awaits that leave the process.  Routes  *)
(* are classes of routes: what a handler does to the ledger is modelled    *)
(* with the stores.  Time is counted in ticks.                             *)
(***************************************************************************)
EXTENDS RuntimePosture, Integers, FiniteSets

CONSTANTS
  Environments,   \* the environments a process is started with
  Requests,       \* one-shot requests
  Traffic,        \* what a request can be: [route, token, valid]
  Subjects,       \* subjects of tokens
  NoSubject,      \* a token without a usable sub, or no token at all
  NoFetch,        \* no fetch of the key set
  NoEnvironment,  \* the process has not been started
  Ttl,            \* JWKS_CACHE_TTL_MS
  MaxFlight,      \* the longest a fetch of the key set takes
  Window,         \* windowMs of the rate limiters
  Limit,          \* limit of each rate limiter
  MaxTime,        \* bound: last tick
  MaxKeys         \* bound: keys the provider publishes one after the other

VARIABLES
  environment,\* what the process was started with
  process,    \* where the process is in its life, and its signal handlers
  pool,       \* the Postgres client
  clock,
  provider,   \* [key |-> current key, since |-> when each key was published]
  keySet,     \* [key, expiresAt, inflight]: the cache and its shared promise
  fetch,      \* every fetch by the request that started it
  bucket,     \* hits and end of the window by limiter and key
  client,     \* the connection each request came on: absent, connected or left
  request

apiVars ==
  <<environment, process, pool, clock, provider, keySet, fetch, bucket, client, request>>

posture == Posture(environment)

NoKey == 0
Keys == 1..MaxKeys

\* A token names the key that signed it; NoKey is a forgery.
Tokens == [subject : Subjects \cup {NoSubject}, key : {NoKey} \cup Keys]
NoToken == [subject |-> NoSubject, key |-> MaxKeys + 1]

(***************************************************************************)
(* Routes                                                                  *)
(***************************************************************************)
\* probe: /health and /ready.  info: GET /api/runtime-info.  read: the plain
\* reads.  report: /api/reports/ and /api/exports/.  post: the writes that
\* stamp an actor (evidence, compose, decisions, import, simulation, advisor).
\* change: the other POST and PUT routes.  reset: /api/testing/reset.
Routes == {"probe", "info", "read", "report", "post", "change", "reset"}
Mutating == {"post", "change", "reset"}
Attributed == {"post"}
NeedsToken(route) == posture.auth /\ route \notin {"probe", "info"}
ASSUME ApiServerConstants ==
  /\ Environments \subseteq Environment
  /\ Traffic \subseteq
       [route : Routes, token : Tokens \cup {NoToken}, valid : BOOLEAN]
  /\ NoSubject \notin Subjects
  /\ NoFetch \notin Requests
  /\ NoEnvironment \notin Environment
  /\ {Ttl, MaxFlight, Window, Limit, MaxTime, MaxKeys} \subseteq Nat \ {0}

Limiter(route) ==
  IF ~posture.limited THEN "none"
  ELSE IF route \in Mutating THEN "mutation"
  ELSE IF route = "report" THEN "read" ELSE "none"

\* app.onError, as far as a client can act on it: the request was refused and
\* will be again, or it failed and may have taken effect or not.
Answer(failure) ==
  IF failure \in {"validation", "period", "review_edit", "sie_import", "not_found",
                  "blocked", "unique_violation"}
  THEN "refused" ELSE "failed"

\* What can come back from the store of this process.
Failures ==
  IF posture.store = "unavailable" THEN {"unavailable"}
  ELSE {"not_found", "review_edit", "sie_import", "period", "other"}
         \cup (IF posture.mode = "normal" THEN {"blocked"} ELSE {})
         \cup (IF posture.store = "postgres"
               THEN {"unique_violation", "connection"} ELSE {})

\* keys is what the fetch a request awaited has come to.
Idle == [phase |-> "idle", route |-> "probe", token |-> NoToken, valid |-> TRUE,
         from |-> NoFetch, keys |-> NoKey, actor |-> NoSubject, at |-> 0,
         status |-> "none"]

NotSent == [state |-> "none", key |-> NoKey, sentAt |-> 0]
Open(r) == request[r].phase \in {"keys", "verify", "store"}

\* The process takes requests while it serves; what it has taken runs on until
\* it ends, while the pool closes too.
Serving == process.state \in {"up", "draining"}
Running == Serving \/ process.state = "closing"

(***************************************************************************)
(* createCachedJwksFetcher                                                 *)
(***************************************************************************)
FreshForEver == keySet.key # NoKey
Fresh == keySet.key # NoKey /\ clock < keySet.expiresAt

\* inflight ??= ...: the first request without keys sends the fetch, the
\* others share its promise.
JoinFetch(r) ==
  IF keySet.inflight = NoFetch
  THEN /\ keySet' = [keySet EXCEPT !.inflight = r]
       /\ fetch' = [fetch EXCEPT ![r] =
                      [state |-> "sent", key |-> NoKey, sentAt |-> clock]]
  ELSE UNCHANGED <<keySet, fetch>>

SharedFetch(r) == IF keySet.inflight = NoFetch THEN r ELSE keySet.inflight

(***************************************************************************)
(* Connections: what server.close waits for.  A handler does not notice    *)
(* that its client has left.                                               *)
(***************************************************************************)
IdleConnection(r) == client[r] = "connected" /\ ~Open(r)

\* A server that drains accepts no connection, but a request may still come on
\* one that is open and idle.
Connects(r) ==
  \/ process.state = "up" /\ client' = [client EXCEPT ![r] = "connected"]
  \/ /\ process.state = "draining"
     /\ \E q \in Requests :
          IdleConnection(q) /\ client' = [client EXCEPT ![q] = "absent", ![r] = "connected"]

\* server.closeIdleConnections
DropIdle ==
  client' = [r \in Requests |-> IF IdleConnection(r) THEN "absent" ELSE client[r]]

\* A client goes away, from a request under way or from an idle connection that
\* the server waits for.
Disconnect(r) ==
  /\ client[r] = "connected"
  /\ \/ Serving /\ Open(r) /\ client' = [client EXCEPT ![r] = "left"]
     \/ process.state = "draining" /\ ~Open(r) /\ client' = [client EXCEPT ![r] = "absent"]
  /\ UNCHANGED <<environment, process, pool, clock, provider, keySet, fetch, bucket, request>>

(***************************************************************************)
(* The way of a request                                                    *)
(***************************************************************************)
Ended(rec, status) == [rec EXCEPT !.phase = "done", !.status = status]
Refused(status) == Ended(Idle, status)

\* hono-rate-limiter: the first hit of a key opens its window.
Hits(b) == IF clock < bucket[b].until THEN bucket[b].hits ELSE 0
Hit(b) == [bucket EXCEPT ![b] =
             [hits |-> Hits(b) + 1,
              until |-> IF clock < @.until THEN @.until ELSE clock + Window]]

\* Validation, deriveActorId and the call of the store, in this order.
Handled(rec) ==
  IF rec.route \in {"post", "change", "report"} /\ ~rec.valid
  THEN Ended(rec, Answer("validation"))
  ELSE IF rec.route \in Attributed /\ posture.auth /\ rec.actor = NoSubject
       THEN Ended(rec, "unauthorized")
  ELSE IF rec.route = "reset"
       THEN Ended(rec, IF posture.resettable THEN "ok" ELSE "refused")
  ELSE IF rec.route = "info" THEN Ended(rec, "ok")
  ELSE [rec EXCEPT !.phase = "store"]

\* One bucket for everybody.
AdmitByAddress(r, rec) ==
  LET b == <<Limiter(rec.route), NoSubject>>
  IN IF b[1] = "none"
     THEN request' = [request EXCEPT ![r] = Handled(rec)] /\ UNCHANGED bucket
     ELSE /\ bucket' = Hit(b)
          /\ request' = [request EXCEPT ![r] =
                IF Hits(b) >= Limit THEN Ended(rec, "limited") ELSE Handled(rec)]

\* The limiter, with the key rateLimitKey derives: the verified subject, or
\* else the address, which all requests share behind the proxy.
Admit(r, rec) ==
  LET b == <<Limiter(rec.route), rec.actor>>
  IN IF b[1] = "none"
     THEN request' = [request EXCEPT ![r] = Handled(rec)] /\ UNCHANGED bucket
     ELSE /\ bucket' = Hit(b)
          /\ request' = [request EXCEPT ![r] =
                IF Hits(b) >= Limit THEN Ended(rec, "limited") ELSE Handled(rec)]

\* hono/jwk with the keys at hand: the token must be signed by one of them.
Verify(r, rec, key) ==
  IF rec.token.key = key
  THEN Admit(r, [rec EXCEPT !.actor = rec.token.subject, !.at = clock,
                            !.keys = NoKey])
  ELSE request' = [request EXCEPT ![r] = Refused("unauthorized")] /\ UNCHANGED bucket

\* A request comes in: body limit, then token, and on as far as it gets
\* without waiting.
Arrive(r, q) ==
  LET rec == [Idle EXCEPT !.phase = "keys", !.route = q.route, !.valid = q.valid,
                          !.token = IF NeedsToken(q.route) THEN q.token ELSE NoToken]
  IN /\ Connects(r)
     /\ request[r].phase = "idle"
     /\ q.token \in Tokens => q.token.key <= provider.key
     /\ \/ /\ ~NeedsToken(rec.route)
           /\ Admit(r, rec)
           /\ UNCHANGED <<keySet, fetch>>
        \/ /\ NeedsToken(rec.route) /\ rec.token = NoToken
           /\ request' = [request EXCEPT ![r] = Refused("unauthorized")]
           /\ UNCHANGED <<keySet, fetch, bucket>>
        \/ /\ NeedsToken(rec.route) /\ rec.token # NoToken /\ Fresh
           /\ Verify(r, rec, keySet.key)
           /\ UNCHANGED <<keySet, fetch>>
        \/ /\ NeedsToken(rec.route) /\ rec.token # NoToken /\ ~Fresh
           /\ JoinFetch(r)
           /\ request' = [request EXCEPT ![r] = [rec EXCEPT !.from = SharedFetch(r)]]
           /\ UNCHANGED bucket
     /\ UNCHANGED <<environment, process, pool, clock, provider>>

\* A body over its limit is refused before anything else is looked at.
ArriveTooLarge(r, route) ==
  /\ Connects(r)
  /\ request[r].phase = "idle" /\ route \in Mutating
  /\ request' = [request EXCEPT ![r] = Refused("refused")]
  /\ UNCHANGED <<environment, process, pool, clock, provider, keySet, fetch, bucket>>

\* The provider answers a fetch with the key it publishes at that moment.
ProviderAnswers(f) ==
  /\ Running /\ fetch[f].state = "sent"
  /\ fetch' = [fetch EXCEPT ![f].state = "answered", ![f].key = provider.key]
  /\ UNCHANGED <<environment, process, pool, clock, provider, keySet, bucket, client, request>>

\* A fetch settles: inflight is empty, and whoever awaits it wakes up.
Settle(f, keys) ==
  /\ fetch' = [fetch EXCEPT ![f] = NotSent]
  /\ request' = [r \in Requests |->
       IF request[r].phase = "keys" /\ request[r].from = f
       THEN [request[r] EXCEPT !.phase = "verify", !.from = NoFetch, !.keys = keys]
       ELSE request[r]]
  /\ UNCHANGED <<environment, process, pool, clock, provider, bucket, client>>

\* The answer arrives, and the cache holds it for Ttl from now.
FetchArrives(f) ==
  /\ Running /\ fetch[f].state = "answered"
  /\ keySet' = [key |-> fetch[f].key, expiresAt |-> clock + Ttl, inflight |-> NoFetch]
  /\ Settle(f, fetch[f].key)

\* No answer, a status, no JSON or no keys in it: nothing is cached.
FetchFails(f) ==
  /\ Running /\ fetch[f].state \in {"sent", "answered"}
  /\ keySet' = [keySet EXCEPT !.inflight = NoFetch]
  /\ Settle(f, NoKey)

\* A request goes on with the keys it awaited, or with a 503.
AfterFetch(r) ==
  /\ Running /\ request[r].phase = "verify"
  /\ \/ /\ request[r].keys # NoKey
        /\ Verify(r, request[r], request[r].keys)
     \/ /\ request[r].keys = NoKey
        /\ request' = [request EXCEPT ![r] = Refused(Answer("unavailable"))]
        /\ UNCHANGED bucket
  /\ UNCHANGED <<environment, process, pool, clock, provider, keySet, fetch, client>>

\* The store answers or throws; onError makes a status of the error.
StoreAnswers(r) ==
  /\ Running /\ request[r].phase = "store"
  /\ \E status \in {"ok"} \cup {Answer(f) : f \in Failures} :
       request' = [request EXCEPT ![r] =
         IF @.route = "probe" THEN Ended(@, "ok") ELSE Ended(@, status)]
  /\ UNCHANGED <<environment, process, pool, clock, provider, keySet, fetch, bucket, client>>

(***************************************************************************)
(* Boot and shutdown: index.ts, shutdown.ts                                *)
(***************************************************************************)
Boot(env) ==
  /\ process.state = "off"
  /\ environment' = env
  /\ process' = [process EXCEPT !.state = IF RefusesToBoot(env) THEN "refused" ELSE "up"]
  /\ pool' = IF ~RefusesToBoot(env) /\ LedgerStore(env) = "postgres" THEN "open" ELSE "none"
  /\ UNCHANGED <<clock, provider, keySet, fetch, bucket, client, request>>

SignalWithoutWatchdog(s) ==
  /\ Running
  /\ process' = IF s \notin process.handlers THEN [process EXCEPT !.state = "killed"]
                ELSE [process EXCEPT !.handlers = @ \ {s},
                                     !.state = IF @ = "up" THEN "draining" ELSE @]
  /\ IF process.state = "up" THEN DropIdle ELSE UNCHANGED client
  /\ UNCHANGED <<environment, pool, clock, provider, keySet, fetch, bucket, request>>

\* proc.once removes a handler that has run: the same signal again finds none
\* and ends the process at once.  Another signal calls shutdown again, which
\* returns because it is draining.
Signal(s) ==
  /\ Running
  /\ process' = IF s \notin process.handlers THEN [process EXCEPT !.state = "killed"]
                ELSE [process EXCEPT
                        !.handlers = @ \ {s},
                        !.state = IF @ = "up" THEN "draining" ELSE @,
                        !.watchdog = TRUE]
  /\ IF process.state = "up" THEN DropIdle ELSE UNCHANGED client
  /\ UNCHANGED <<environment, pool, clock, provider, keySet, fetch, bucket, request>>

\* The pool is closed without waiting for the server.
CloseAtOnce ==
  /\ process.state = "draining"
  /\ process' = [process EXCEPT !.state = "closing"]
  /\ pool' = IF pool = "open" THEN "closing" ELSE pool
  /\ UNCHANGED <<environment, clock, provider, keySet, fetch, bucket, client, request>>

\* server.close calls back when the last connection has gone, whatever still
\* runs for a client that has left; then closeDatabase starts.
ServerCloses ==
  /\ process.state = "draining"
  /\ \A r \in Requests : client[r] # "connected"
  /\ process' = [process EXCEPT !.state = "closing"]
  /\ pool' = IF pool = "open" THEN "closing" ELSE pool
  /\ UNCHANGED <<environment, clock, provider, keySet, fetch, bucket, client, request>>

\* closeDatabase settles, with an error or not, and the process exits.
Exit ==
  /\ process.state = "closing"
  /\ process' = [process EXCEPT !.state = "exited", !.code = 0]
  /\ pool' = IF pool = "none" THEN "none" ELSE "closed"
  /\ UNCHANGED <<environment, clock, provider, keySet, fetch, bucket, client, request>>

WatchdogFires ==
  /\ process.watchdog /\ process.state \in {"draining", "closing"}
  /\ process' = [process EXCEPT !.state = "exited", !.code = 1]
  /\ UNCHANGED <<environment, pool, clock, provider, keySet, fetch, bucket, client, request>>

(***************************************************************************)
(* The world                                                               *)
(***************************************************************************)
\* No fetch takes longer than MaxFlight, and what waits for a settled fetch
\* goes on before any time passes.
Tick ==
  /\ Running /\ clock < MaxTime
  /\ \A f \in Requests :
       fetch[f].state \in {"sent", "answered"} => clock < fetch[f].sentAt + MaxFlight
  /\ \A r \in Requests : request[r].phase # "verify"
  /\ clock' = clock + 1
  /\ UNCHANGED <<environment, process, pool, provider, keySet, fetch, bucket, client, request>>

\* The provider publishes a new key and withdraws the old one.
Rotate ==
  /\ Running /\ provider.key < MaxKeys
  /\ provider' = [key |-> provider.key + 1,
                  since |-> [provider.since EXCEPT ![provider.key + 1] = clock]]
  /\ UNCHANGED <<environment, process, pool, clock, keySet, fetch, bucket, client, request>>

ApiInit ==
  /\ environment = NoEnvironment
  /\ process = [state |-> "off", handlers |-> {"SIGTERM", "SIGINT"},
                watchdog |-> FALSE, code |-> 0]
  /\ pool = "none"
  /\ clock = 0
  /\ provider = [key |-> 1, since |-> [k \in Keys |-> 0]]
  /\ keySet = [key |-> NoKey, expiresAt |-> 0, inflight |-> NoFetch]
  /\ fetch = [r \in Requests |-> NotSent]
  /\ bucket = [b \in {"mutation", "read"} \X (Subjects \cup {NoSubject}) |->
                 [hits |-> 0, until |-> 0]]
  /\ client = [r \in Requests |-> "absent"]
  /\ request = [r \in Requests |-> Idle]

RequestStep(r) == FetchArrives(r) \/ FetchFails(r) \/ AfterFetch(r) \/ StoreAnswers(r)

ApiNext ==
  \/ process.state = "off" /\ \E env \in Environments : Boot(env)
  \/ \E r \in Requests :
       \/ \E q \in Traffic : Arrive(r, q)
       \/ \E route \in Mutating : ArriveTooLarge(r, route)
       \/ ProviderAnswers(r) \/ RequestStep(r) \/ Disconnect(r)
  \/ \E s \in {"SIGTERM", "SIGINT"} : Signal(s)
  \/ ServerCloses \/ Exit \/ WatchdogFires
  \/ Tick \/ Rotate

\* A fetch and a call of the store come to an end (the runtime and the driver
\* bound them), the event loop runs what is settled, and a timer fires.  That
\* the server closes is not assumed: its connections belong to the clients.
ApiFairness ==
  /\ \A r \in Requests : WF_apiVars(RequestStep(r))
  /\ WF_apiVars(Exit) /\ WF_apiVars(WatchdogFires)

ApiSpec == ApiInit /\ [][ApiNext]_apiVars /\ ApiFairness

(***************************************************************************)
(* Properties                                                              *)
(***************************************************************************)
Booted == process.state \notin {"off", "refused"}

\* What has started in normal mode has no demo fallback in it, tells the
\* operator what it is, uses every setting it was given, and is not ready
\* without live services (config.ts and runtime.ts, each on its own).
PostureFailsClosed == Booted => FailsClosed(posture)
BootLogIsTrue == Booted => LogTellsTheTruth(environment, posture)
EverySettingHonoured == Booted => SettingsHonoured(environment, posture)
ReadyMeansLive == Booted => ReadyIsLive(posture)

\* The shared promise is a fetch that is still under way, and no other fetch
\* is: a fetch that failed is not remembered, a burst sends one (app.ts:157).
InflightIsTheOnlyFetch ==
  Serving =>
    {f \in Requests : fetch[f].state \in {"sent", "answered"}} =
      {keySet.inflight} \ {NoFetch}

\* Whatever reaches the ledger under a name carries the subject of a token that
\* was verified, with a key that had not been withdrawn for longer than the
\* cache may be old: its time to live and the flight of the fetch before it.
WritesAreVerified ==
  \A r \in Requests :
    LET rec == request[r]
    IN rec.route \in Attributed /\ Booted /\ posture.auth
         /\ (rec.phase = "store" \/ rec.status = "ok") =>
       /\ rec.actor \in Subjects /\ rec.actor = rec.token.subject
       /\ rec.token.key \in Keys
       /\ rec.token.key < provider.key =>
            rec.at < provider.since[rec.token.key + 1] + Ttl + MaxFlight

\* A request is refused for its subject's budget only when that subject has
\* spent it within the window: the bad tokens and the traffic of others, who
\* may share its address, do not count (app.ts:408).
LimitedByOwnRequests ==
  \A r \in Requests :
    request[r].status = "limited" /\ posture.auth /\ request[r].actor # NoSubject =>
      Cardinality({q \in Requests \ {r} :
        /\ request[q].actor = request[r].actor
        /\ Limiter(request[q].route) = Limiter(request[r].route)
        /\ request[q].at \in (request[r].at - Window + 1)..request[r].at})
      >= Limit

\* No client that is still there loses its request to an orderly shutdown: the
\* pool closes, and the process exits with code 0, only under requests whose
\* clients have left (shutdown.ts:35-50).  Those requests lose it.
CleanExit ==
  \/ pool \in {"closing", "closed"}
  \/ process.state = "exited" /\ process.code = 0
  => \A r \in Requests : Open(r) => client[r] = "left"

\* A request that is being served is answered, or the process ends under it.
EveryRequestEnds ==
  \A r \in Requests : Open(r) ~> (~Open(r) \/ ~Running)

\* A process told to stop exits, whatever its requests and its pool do.
ShutdownEnds == process.state = "draining" ~> process.state \in {"exited", "killed"}

\* Every process that has started fails closed, and what it says of itself in
\* the boot line and in /ready is what it is.
PostureHolds ==
  /\ PostureFailsClosed
  /\ BootLogIsTrue
  /\ EverySettingHonoured
  /\ ReadyMeansLive

\* One fetch of the key set at a time, shared by all who wait, and no write
\* that was not verified with a key it brought in time.
TokensAreChecked ==
  /\ InflightIsTheOnlyFetch
  /\ WritesAreVerified
=============================================================================
