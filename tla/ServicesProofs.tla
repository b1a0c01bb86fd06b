--------------------------- MODULE ServicesProofs ---------------------------
(***************************************************************************)
(* What the API and the surfaces beside it promise, for every number of    *)
(* processes, requests, keys, turns, reviews, tabs and runners: an API     *)
(* process fails closed, one fetch of the key set is under way at most,    *)
(* what is attributed was verified in time, a refused client was refused   *)
(* for its own requests, and a clean exit cuts off no client that is still *)
(* there, whatever still runs for one that has left; only a                *)
(* human's card lets the advisor touch the ledger; what a sign-out leaves  *)
(* on the device, it leaves for one of two reasons; and migration runners  *)
(* that overlap or die execute every file once and in order.               *)
(*                                                                         *)
(* The posture is a function of the environment, and the environment never *)
(* changes after the boot. The age of a key is followed along its way: a   *)
(* fetch carries the tick it was sent at, so the key it brings was current *)
(* then or later; the cache adds Ttl to the arrival; the request that uses *)
(* it is stamped with a tick before the expiry. A bucket counts requests   *)
(* of its own key in its own window, one more for each that was admitted.  *)
(*                                                                         *)
(* The advisor is followed from the card to the ledger: a turn of kind     *)
(* "answer" exists only where a human decided the card of the thread, what *)
(* that turn carries is what the human saw, and what the gate holds as     *)
(* decided was human.                                                      *)
(*                                                                         *)
(* The sweep goes through the registry in order, so an item that a tab at  *)
(* entry n still finds is of an entry that it has not reached, was written *)
(* late, or sits in a database that could not be deleted.                  *)
(*                                                                         *)
(* A migration runner reads the history under the session lock and keeps   *)
(* the lock until it ends, so what it read and what it applied is the      *)
(* history. In a valid directory the number of a file is its place: all    *)
(* that come before the next file are the ones the runner has passed.      *)
(***************************************************************************)
EXTENDS ApiServer, AdvisorChat, LocalData, MigrationRunner,
        TLAPS, FiniteSetTheorems, FunctionTheorems, SequenceTheorems

States == {"off", "refused", "up", "draining", "closing", "killed", "exited"}
Phases == {"idle", "keys", "verify", "store", "done"}
Statuses == {"none", "ok", "refused", "failed", "unauthorized", "limited"}

RequestRecord ==
  [phase : Phases, route : Routes, token : Tokens \cup {NoToken}, valid : BOOLEAN,
   from : Requests \cup {NoFetch}, keys : {NoKey} \cup Keys,
   actor : Subjects \cup {NoSubject}, at : Nat, status : Statuses]

ProcessOK ==
  /\ process \in [state : States, handlers : SUBSET {"SIGTERM", "SIGINT"},
                  watchdog : BOOLEAN, code : {0, 1}]
  /\ Booted => environment \in Environments /\ ~RefusesToBoot(environment)
  /\ process.state = "off" => \A r \in Requests : request[r] = Idle

TypesOK ==
  /\ clock \in Nat
  /\ provider \in [key : Keys, since : [Keys -> Nat]]
  /\ keySet \in [key : {NoKey} \cup Keys, expiresAt : Nat,
                 inflight : Requests \cup {NoFetch}]
  /\ fetch \in [Requests -> [state : {"none", "sent", "answered"},
                             key : {NoKey} \cup Keys, sentAt : Nat]]
  /\ request \in [Requests -> RequestRecord]

FlightOK == \A f \in Requests : fetch[f].state # "none" <=> f = keySet.inflight

\* k was published, and if it has been withdrawn since, then after t - age.
Age(k, t, age) ==
  /\ k <= provider.key
  /\ k < provider.key => t <= provider.since[k + 1] + age

FetchOK(f) ==
  /\ fetch[f].state # "none" =>
       fetch[f].sentAt <= clock /\ clock <= fetch[f].sentAt + MaxFlight
  /\ fetch[f].state = "answered" =>
       fetch[f].key \in Keys /\ Age(fetch[f].key, fetch[f].sentAt, 0)

CacheOK ==
  keySet.key \in Keys =>
    /\ keySet.expiresAt <= clock + Ttl
    /\ Age(keySet.key, keySet.expiresAt, Ttl + MaxFlight)

Verified(rec) ==
  /\ rec.actor \in Subjects /\ rec.actor = rec.token.subject
  /\ rec.token.key \in Keys
  /\ rec.at <= clock
  /\ Age(rec.token.key, rec.at + 1, Ttl + MaxFlight)

RequestOK(rec) ==
  /\ rec.phase \in {"idle", "keys", "verify"} => rec.status = "none"
  /\ rec.phase = "verify" /\ rec.keys \in Keys => Age(rec.keys, clock, MaxFlight)
  /\ rec.route \in Attributed /\ Booted /\ posture.auth
       /\ (rec.phase = "store" \/ rec.status = "ok") => Verified(rec)

KeysOK ==
  /\ \A f \in Requests : FetchOK(f)
  /\ CacheOK
  /\ \A r \in Requests : RequestOK(request[r])

ClosedOK ==
  /\ pool \in {"none", "open", "closing", "closed"}
  /\ \/ pool \in {"closing", "closed"}
     \/ process.state = "closing"
     \/ process.state = "exited" /\ process.code = 0
     => ~Serving /\ process.state # "off" /\ \A r \in Requests : client[r] # "connected"

\* The inductive invariant of the process, its requests and the key set.
ApiInv == TypesOK /\ ProcessOK /\ FlightOK /\ KeysOK /\ ClosedOK

-----------------------------------------------------------------------------

\* The posture of every environment that is not refused fails closed: no
\* combination of settings gets a demo fallback into normal mode.
LEMMA PostureOfAnEnvironment ==
  ASSUME NEW env \in Environment, ~RefusesToBoot(env)
  PROVE  FailsClosed(Posture(env))
<1>1. env.mode \in {"unset", "demo", "normal"}
  BY DEF Environment, RefusesToBoot
<1>2. CASE RuntimeMode(env) = "demo"
  BY <1>2 DEF Posture, FailsClosed
<1>3. CASE RuntimeMode(env) # "demo"
  <2>1. RuntimeMode(env) = "normal" /\ env.jwks /\ env.secret = "own"
    BY <1>1, <1>3 DEF RuntimeMode, RefusesToBoot
  <2>2. LedgerStore(env) # "memory" /\ AiRuntime(env) # "local-demo"
    BY <1>3 DEF LedgerStore, AiRuntime
  <2>3. \A configured \in BOOLEAN : Peripheral(configured, TRUE) # "stub"
    BY DEF Peripheral
  <2>4. env.storage \in BOOLEAN /\ env.docintel \in BOOLEAN
    BY DEF Environment
  <2> QED
    BY <2>1, <2>2, <2>3, <2>4 DEF Posture, FailsClosed
<1> QED
  BY <1>2, <1>3

\* The boot line, the settings and the readiness of such a posture are true.
LEMMA PostureIsTold ==
  ASSUME NEW env \in Environment, ~RefusesToBoot(env)
  PROVE  /\ LogTellsTheTruth(env, Posture(env))
         /\ SettingsHonoured(env, Posture(env))
         /\ ReadyIsLive(Posture(env))
<1>1. LogTellsTheTruth(env, Posture(env))
  BY DEF LogTellsTheTruth, BootLog, Posture, LedgerStore
<1>2. SettingsHonoured(env, Posture(env))
  <2>1. ASSUME LedgerStore(env) = "postgres"
        PROVE  {env.databaseUrl, env.supabaseUrl} \subseteq {RuntimeUrl(env), NoUrl}
    BY DEF RefusesToBoot, ConflictingUrls, RuntimeUrl
  <2>2. ASSUME env.poolMode = "transaction" \/ env.transactionFlag
        PROVE  PoolMode(env) = "transaction"
    <3>1. env.poolMode \in PoolModes \cup {"unset", "unknown"}
      BY DEF Environment
    <3>2. env.poolMode \in {"unset", "transaction"}
      BY <2>2, <3>1 DEF RefusesToBoot, ConflictingPoolModes
    <3> QED
      BY <2>2, <3>2 DEF PoolMode
  <2> QED
    BY <2>1, <2>2 DEF SettingsHonoured, Posture
<1>3. ReadyIsLive(Posture(env))
  <2> DEFINE p == Posture(env)
  <2> SUFFICES ASSUME p.mode = "normal", Ready(p, TRUE)
               PROVE  /\ p.store = "postgres" /\ p.blob = "azure"
                      /\ p.docintel = "azure" /\ p.model /\ p.vector
    BY DEF ReadyIsLive
  <2>1. RuntimeMode(env) = "normal"
    BY DEF Posture
  <2>2. p.store = "postgres" /\ LedgerStore(env) = "postgres"
    BY <2>1 DEF Ready, Posture, LedgerStore
  <2>3. AiRuntime(env) = "azure-openai" /\ env.openai
    BY <2>1 DEF Ready, Posture, AiRuntime
  <2>4. p.model /\ p.vector
    BY <2>1, <2>2, <2>3 DEF Posture, AdvisorModel, VectorRetrieval
  <2>5. Peripheral(env.storage, TRUE) # "unavailable" /\ Peripheral(env.docintel, TRUE) # "unavailable"
    BY <2>1 DEF Ready, Posture
  <2>6. p.blob = "azure" /\ p.docintel = "azure"
    BY <2>1, <2>5 DEF Posture, Peripheral
  <2> QED
    BY <2>2, <2>4, <2>6
<1> QED
  BY <1>1, <1>2, <1>3

-----------------------------------------------------------------------------

\* A request that is not there has the types of one.
LEMMA RecordOfIdle == Idle \in RequestRecord
BY DEF Idle, RequestRecord, Phases, Routes, Statuses, NoKey

\* The durations and the bound on keys are positive.
LEMMA NaturalConstants ==
  /\ Ttl \in Nat \ {0} /\ MaxFlight \in Nat \ {0} /\ MaxKeys \in Nat \ {0}
BY ApiServerConstants

\* Where Admit can lead: the request keeps what it is, and is done or with the
\* store; under a name it is let through only when it has one.
LEMMA AdmitResult ==
  ASSUME NEW r \in Requests, NEW rec \in RequestRecord, rec.status = "none",
         Admit(r, rec)
  PROVE  \E res \in RequestRecord :
           /\ request' = [request EXCEPT ![r] = res]
           /\ res.route = rec.route /\ res.token = rec.token
           /\ res.actor = rec.actor /\ res.at = rec.at
           /\ res.phase \in {"done", "store"}
           /\ rec.route \in Attributed /\ posture.auth
                /\ (res.phase = "store" \/ res.status = "ok") => rec.actor # NoSubject
<1>1. \A status \in Statuses :
        /\ Ended(rec, status) \in RequestRecord
        /\ Ended(rec, status).route = rec.route /\ Ended(rec, status).token = rec.token
        /\ Ended(rec, status).actor = rec.actor /\ Ended(rec, status).at = rec.at
        /\ Ended(rec, status).phase = "done" /\ Ended(rec, status).status = status
  BY DEF Ended, RequestRecord, Phases
<1>2. DEFINE stored == [rec EXCEPT !.phase = "store"]
<1>3. /\ stored \in RequestRecord
      /\ stored.route = rec.route /\ stored.token = rec.token
      /\ stored.actor = rec.actor /\ stored.at = rec.at /\ stored.phase = "store"
  BY DEF RequestRecord, Phases
<1>4. \/ Handled(rec) = Ended(rec, "refused")
      \/ Handled(rec) = Ended(rec, "unauthorized")
      \/ rec.route \notin Attributed /\ Handled(rec) = Ended(rec, "ok")
      \/ Handled(rec) = stored /\ ~(rec.route \in Attributed /\ posture.auth /\ rec.actor = NoSubject)
  BY DEF Handled, Answer, Attributed
<1>5. \/ request' = [request EXCEPT ![r] = Handled(rec)]
      \/ request' = [request EXCEPT ![r] = Ended(rec, "limited")]
  <2> DEFINE b == <<Limiter(rec.route), rec.actor>>
  <2>1. CASE b[1] = "none"
    BY <2>1 DEF Admit
  <2>2. CASE b[1] # "none"
    <3>1. request' = [request EXCEPT ![r] =
            IF Hits(b) >= Limit THEN Ended(rec, "limited") ELSE Handled(rec)]
      BY <2>2 DEF Admit
    <3>2. CASE Hits(b) >= Limit
      BY <3>1, <3>2
    <3>3. CASE ~(Hits(b) >= Limit)
      BY <3>1, <3>3
    <3> QED
      BY <3>2, <3>3
  <2> QED
    BY <2>1, <2>2
<1> HIDE DEF stored
<1>6. CASE request' = [request EXCEPT ![r] = Ended(rec, "limited")]
  BY <1>1, <1>6 DEF Statuses
<1>7. CASE request' = [request EXCEPT ![r] = Handled(rec)]
  <2>1. CASE Handled(rec) = Ended(rec, "refused")
    BY <1>1, <1>7, <2>1 DEF Statuses
  <2>2. CASE Handled(rec) = Ended(rec, "unauthorized")
    BY <1>1, <1>7, <2>2 DEF Statuses
  <2>3. CASE rec.route \notin Attributed /\ Handled(rec) = Ended(rec, "ok")
    BY <1>1, <1>7, <2>3 DEF Statuses
  <2>4. CASE Handled(rec) = stored /\ ~(rec.route \in Attributed /\ posture.auth /\ rec.actor = NoSubject)
    BY <1>3, <1>7, <2>4
  <2> QED
    BY <1>4, <2>1, <2>2, <2>3, <2>4
<1> QED
  BY <1>5, <1>6, <1>7

\* A request whose token a key of the cache or of a fetch signed goes on with
\* the subject of that token, stamped with this tick; another one is refused.
LEMMA VerifyResult ==
  ASSUME TypesOK, NEW r \in Requests, NEW rec \in RequestRecord, rec.status = "none",
         rec.token \in Tokens, NEW key \in Keys,
         Age(key, clock + 1, Ttl + MaxFlight),
         Verify(r, rec, key)
  PROVE  \E res \in RequestRecord :
           /\ request' = [request EXCEPT ![r] = res]
           /\ res.phase \in {"done", "store"}
           /\ res.route \in Attributed /\ posture.auth
                /\ (res.phase = "store" \/ res.status = "ok") => Verified(res)
<1> DEFINE named == [rec EXCEPT !.actor = rec.token.subject, !.at = clock, !.keys = NoKey]
<1>1. named \in RequestRecord /\ named.status = "none" /\ named.token = rec.token
      /\ named.actor = rec.token.subject /\ named.at = clock
  BY DEF RequestRecord, TypesOK, Tokens
<1> HIDE DEF named
<1>2. CASE rec.token.key = key
  <2>1. Admit(r, named)
    BY <1>2 DEF Verify, named
  <2>2. PICK res \in RequestRecord :
           /\ request' = [request EXCEPT ![r] = res]
           /\ res.route = named.route /\ res.token = rec.token
           /\ res.actor = rec.token.subject /\ res.at = clock
           /\ res.phase \in {"done", "store"}
           /\ named.route \in Attributed /\ posture.auth
                /\ (res.phase = "store" \/ res.status = "ok") => named.actor # NoSubject
    BY <1>1, <2>1, AdmitResult
  <2>3. rec.token.subject # NoSubject => Verified(res)
    BY <1>2, <2>2 DEF Verified, Tokens, TypesOK
  <2> QED
    BY <1>1, <2>2, <2>3
<1>3. CASE rec.token.key # key
  <2>1. request' = [request EXCEPT ![r] = Refused("unauthorized")]
    BY <1>3 DEF Verify
  <2>2. Refused("unauthorized") \in RequestRecord /\ Refused("unauthorized").phase = "done"
        /\ Refused("unauthorized").route \notin Attributed
    BY RecordOfIdle DEF Refused, Ended, Idle, RequestRecord, Phases, Statuses, Attributed
  <2> QED
    BY <2>1, <2>2
<1> QED
  BY <1>2, <1>3

-----------------------------------------------------------------------------

\* The invariant holds before the boot.
LEMMA ApiInvInit == ApiInit => ApiInv
<1> SUFFICES ASSUME ApiInit PROVE ApiInv
  OBVIOUS
<1> USE NaturalConstants DEF ApiInit
<1>1. TypesOK
  BY RecordOfIdle DEF TypesOK, Keys, NoKey, NotSent
<1>2. ProcessOK
  BY DEF ProcessOK, States, Booted
<1>3. FlightOK
  BY ApiServerConstants DEF FlightOK, NotSent
<1>4. KeysOK
  BY DEF KeysOK, FetchOK, CacheOK, RequestOK, NotSent, Idle, NoKey, Keys, Attributed
<1>5. ClosedOK
  BY DEF ClosedOK, Serving
<1> QED
  BY <1>1, <1>2, <1>3, <1>4, <1>5 DEF ApiInv

\* An answer to one request that moves nothing but that request and a bucket.
LEMMA AnswerKeepsInv ==
  ASSUME ApiInv, Serving \/ (Running /\ UNCHANGED client),
         NEW r \in Requests, NEW res \in RequestRecord,
         request' = [request EXCEPT ![r] = res],
         res.phase \in {"done", "store"},
         res.route \in Attributed /\ posture.auth
           /\ (res.phase = "store" \/ res.status = "ok") => Verified(res),
         UNCHANGED <<environment, process, pool, clock, provider, keySet, fetch>>
  PROVE  ApiInv'
<1>1. TypesOK'
  BY DEF ApiInv, TypesOK
<1>2. ProcessOK'
  BY DEF ApiInv, ProcessOK, Booted, Serving, Running
<1>3. FlightOK'
  BY DEF ApiInv, FlightOK
<1>4. KeysOK'
  <2>1. posture' = posture /\ Booted' = Booted
    BY DEF posture, Booted
  <2>2. RequestOK(request[r])'
    BY <2>1 DEF ApiInv, TypesOK, RequestOK, Verified, Age
  <2>3. ASSUME NEW q \in Requests, q # r PROVE RequestOK(request[q])'
    <3>1. request'[q] = request[q] /\ RequestOK(request[q])
      BY <2>3 DEF ApiInv, TypesOK, KeysOK
    <3> QED
      BY <2>1, <3>1 DEF RequestOK, Verified, Age
  <2>4. (\A f \in Requests : FetchOK(f))' /\ CacheOK'
    BY DEF ApiInv, KeysOK, FetchOK, CacheOK, Age
  <2> QED
    BY <2>2, <2>3, <2>4 DEF KeysOK
<1>5. ClosedOK'
  BY DEF ApiInv, ClosedOK, Serving, Running
<1> QED
  BY <1>1, <1>2, <1>3, <1>4, <1>5 DEF ApiInv

\* A step of the process or of its pool that leaves the requests alone.
LEMMA ProcessKeepsInv ==
  ASSUME ApiInv, ProcessOK', ClosedOK', Booted, Booted',
         UNCHANGED <<environment, clock, provider, keySet, fetch, request>>
  PROVE  ApiInv'
<1>1. TypesOK' /\ FlightOK'
  BY DEF ApiInv, TypesOK, FlightOK
<1>2. KeysOK'
  <2>1. posture' = posture
    BY DEF posture
  <2> QED
    BY <2>1 DEF ApiInv, KeysOK, FetchOK, CacheOK, RequestOK, Verified, Age
<1> QED
  BY <1>1, <1>2 DEF ApiInv

\* A request that arrives is refused, waits for a fetch or is verified.
LEMMA ArriveKeepsInv ==
  ASSUME ApiInv, NEW r \in Requests, NEW q \in Traffic, Arrive(r, q)
  PROVE  ApiInv'
<1> DEFINE rec == [Idle EXCEPT !.phase = "keys", !.route = q.route, !.valid = q.valid,
                          !.token = IF NeedsToken(q.route) THEN q.token ELSE NoToken]
<1>1. /\ rec \in RequestRecord /\ rec.status = "none" /\ rec.phase = "keys"
      /\ rec.actor = NoSubject /\ rec.route = q.route
      /\ rec.token = IF NeedsToken(q.route) THEN q.token ELSE NoToken
  BY ApiServerConstants, RecordOfIdle DEF Idle, RequestRecord, Phases
<1>2. Serving /\ request[r].phase = "idle"
      /\ UNCHANGED <<environment, process, pool, clock, provider>>
  BY DEF Arrive, Connects, Serving
<1>3. \/ /\ ~NeedsToken(rec.route)
         /\ Admit(r, rec)
         /\ UNCHANGED <<keySet, fetch>>
      \/ /\ NeedsToken(rec.route) /\ rec.token = NoToken
         /\ request' = [request EXCEPT ![r] = Refused("unauthorized")]
         /\ UNCHANGED <<keySet, fetch, bucket>>
      \/ /\ NeedsToken(rec.route) /\ rec.token # NoToken /\ Fresh
         /\ Verify(r, rec, keySet.key)
         /\ UNCHANGED <<keySet, fetch>>
      \/ /\ NeedsToken(rec.route) /\ rec.token # NoToken /\ ~Fresh
         /\ JoinFetch(r)
         /\ request' = [request EXCEPT ![r] = [rec EXCEPT !.from = SharedFetch(r)]]
         /\ UNCHANGED bucket
  BY DEF Arrive
<1> HIDE DEF rec
<1>4. CASE ~NeedsToken(rec.route) /\ Admit(r, rec) /\ UNCHANGED <<keySet, fetch>>
  <2>1. PICK res \in RequestRecord :
           /\ request' = [request EXCEPT ![r] = res]
           /\ res.route = rec.route /\ res.phase \in {"done", "store"}
           /\ rec.route \in Attributed /\ posture.auth
                /\ (res.phase = "store" \/ res.status = "ok") => rec.actor # NoSubject
    BY <1>1, <1>4, AdmitResult
  <2> QED
    BY <1>1, <1>2, <1>4, <2>1, AnswerKeepsInv
<1>5. CASE /\ request' = [request EXCEPT ![r] = Refused("unauthorized")]
           /\ UNCHANGED <<keySet, fetch, bucket>>
  <2>1. Refused("unauthorized") \in RequestRecord /\ Refused("unauthorized").phase = "done"
        /\ Refused("unauthorized").route \notin Attributed
    BY RecordOfIdle DEF Refused, Ended, Idle, RequestRecord, Phases, Statuses, Attributed
  <2> QED
    BY <1>2, <1>5, <2>1, AnswerKeepsInv
<1>6. CASE /\ NeedsToken(rec.route) /\ rec.token # NoToken /\ Fresh
           /\ Verify(r, rec, keySet.key)
           /\ UNCHANGED <<keySet, fetch>>
  <2>1. keySet.key \in Keys /\ TypesOK /\ CacheOK
    BY <1>6 DEF ApiInv, KeysOK, TypesOK, Fresh
  <2>2. Age(keySet.key, clock + 1, Ttl + MaxFlight)
    BY <1>6, <2>1, NaturalConstants DEF CacheOK, Age, Fresh, TypesOK, Keys
  <2>3. rec.token \in Tokens
    BY <1>1, <1>6 DEF RequestRecord
  <2>4. PICK res \in RequestRecord :
           /\ request' = [request EXCEPT ![r] = res]
           /\ res.phase \in {"done", "store"}
           /\ res.route \in Attributed /\ posture.auth
                /\ (res.phase = "store" \/ res.status = "ok") => Verified(res)
    BY <1>1, <1>6, <2>1, <2>2, <2>3, VerifyResult
  <2> QED
    BY <1>2, <1>6, <2>4, AnswerKeepsInv
<1>7. CASE /\ JoinFetch(r)
           /\ request' = [request EXCEPT ![r] = [rec EXCEPT !.from = SharedFetch(r)]]
  <2> DEFINE waiting == [rec EXCEPT !.from = SharedFetch(r)]
  <2>1. waiting \in RequestRecord /\ waiting.status = "none" /\ waiting.phase = "keys"
    BY <1>1 DEF ApiInv, TypesOK, SharedFetch, RequestRecord
  <2> HIDE DEF waiting
  <2>2. request' = [request EXCEPT ![r] = waiting]
    BY <1>7 DEF waiting
  <2>3. \/ UNCHANGED <<keySet, fetch>>
        \/ /\ keySet.inflight = NoFetch
           /\ keySet' = [keySet EXCEPT !.inflight = r]
           /\ fetch' = [fetch EXCEPT ![r] =
                          [state |-> "sent", key |-> NoKey, sentAt |-> clock]]
    BY <1>7 DEF JoinFetch
  <2>4. TypesOK'
    BY <1>2, <2>1, <2>2, <2>3 DEF ApiInv, TypesOK
  <2>5. ProcessOK' /\ ClosedOK'
    BY <1>2 DEF ApiInv, ProcessOK, ClosedOK, Booted, Serving
  <2>6. FlightOK'
    BY <2>3, ApiServerConstants DEF ApiInv, FlightOK, TypesOK
  <2>7. CacheOK'
    BY <1>2, <2>3 DEF ApiInv, KeysOK, CacheOK, Age, TypesOK
  <2>9. ASSUME NEW f \in Requests PROVE FetchOK(f)'
    <3>1. \/ fetch'[f] = fetch[f]
          \/ fetch'[f] = [state |-> "sent", key |-> NoKey, sentAt |-> clock]
      BY <2>3 DEF ApiInv, TypesOK
    <3>2. FetchOK(f) /\ clock \in Nat
      BY DEF ApiInv, KeysOK, TypesOK
    <3> QED
      BY <1>2, <3>1, <3>2, NaturalConstants DEF FetchOK, Age
  <2>8. ASSUME NEW p \in Requests PROVE RequestOK(request[p])'
    <3>1. posture' = posture /\ Booted' = Booted
      BY <1>2 DEF posture, Booted
    <3>2. request'[p] = (IF p = r THEN waiting ELSE request[p]) /\ RequestOK(request[p])
      BY <2>2 DEF ApiInv, TypesOK, KeysOK
    <3> QED
      BY <1>2, <2>1, <3>1, <3>2 DEF RequestOK, Verified, Age
  <2> QED
    BY <2>4, <2>5, <2>6, <2>7, <2>8, <2>9 DEF ApiInv, KeysOK
<1> QED
  BY <1>3, <1>4, <1>5, <1>6, <1>7

\* A body over the limit is refused before the key set is asked for.
LEMMA ArriveTooLargeKeepsInv ==
  ASSUME ApiInv, NEW r \in Requests, NEW route \in Mutating, ArriveTooLarge(r, route)
  PROVE  ApiInv'
<1>1. Refused("refused") \in RequestRecord /\ Refused("refused").phase = "done"
      /\ Refused("refused").route \notin Attributed
  BY RecordOfIdle DEF Refused, Ended, Idle, RequestRecord, Phases, Statuses, Attributed
<1> QED
  BY <1>1, AnswerKeepsInv DEF ArriveTooLarge, Connects, Serving

\* A request goes on with the keys that its fetch brought.
LEMMA AfterFetchKeepsInv ==
  ASSUME ApiInv, NEW r \in Requests, AfterFetch(r)
  PROVE  ApiInv'
<1> DEFINE rec == request[r]
<1>1. rec \in RequestRecord /\ rec.status = "none" /\ rec.phase = "verify" /\ Running
      /\ UNCHANGED <<environment, process, pool, clock, provider, keySet, fetch, client>>
  BY DEF ApiInv, TypesOK, KeysOK, RequestOK, AfterFetch
<1>2. CASE rec.keys # NoKey /\ Verify(r, rec, rec.keys)
  <2>1. rec.keys \in Keys /\ TypesOK
    BY <1>1, <1>2 DEF RequestRecord, ApiInv
  <2>2. Age(rec.keys, clock + 1, Ttl + MaxFlight)
    <3>1. Age(rec.keys, clock, MaxFlight)
      BY <1>1, <2>1 DEF ApiInv, KeysOK, RequestOK
    <3> QED
      BY <2>1, <3>1, NaturalConstants DEF Age, TypesOK, Keys
  <2>3. CASE rec.token \in Tokens
    <3>1. PICK res \in RequestRecord :
             /\ request' = [request EXCEPT ![r] = res]
             /\ res.phase \in {"done", "store"}
             /\ res.route \in Attributed /\ posture.auth
                  /\ (res.phase = "store" \/ res.status = "ok") => Verified(res)
      BY <1>1, <1>2, <2>1, <2>2, <2>3, VerifyResult
    <3> QED
      BY <1>1, <3>1, AnswerKeepsInv
  <2>4. CASE rec.token \notin Tokens
    <3>1. rec.token.key \notin Keys
      BY <1>1, <2>4, NaturalConstants DEF RequestRecord, NoToken, Keys
    <3>2. request' = [request EXCEPT ![r] = Refused("unauthorized")]
      BY <1>2, <2>1, <3>1 DEF Verify
    <3>3. Refused("unauthorized") \in RequestRecord /\ Refused("unauthorized").phase = "done"
          /\ Refused("unauthorized").route \notin Attributed
      BY RecordOfIdle DEF Refused, Ended, Idle, RequestRecord, Phases, Statuses, Attributed
    <3> QED
      BY <1>1, <3>2, <3>3, AnswerKeepsInv
  <2> QED
    BY <2>3, <2>4
<1>3. CASE request' = [request EXCEPT ![r] = Refused(Answer("unavailable"))]
  <2>1. /\ Refused(Answer("unavailable")) \in RequestRecord
        /\ Refused(Answer("unavailable")).phase = "done"
        /\ Refused(Answer("unavailable")).route \notin Attributed
    BY RecordOfIdle
    DEF Refused, Ended, Answer, Idle, RequestRecord, Phases, Statuses, Attributed
  <2> QED
    BY <1>1, <1>3, <2>1, AnswerKeepsInv
<1> QED
  BY <1>2, <1>3 DEF AfterFetch

\* The store answers only what was let in.
LEMMA StoreAnswersKeepsInv ==
  ASSUME ApiInv, NEW r \in Requests, StoreAnswers(r)
  PROVE  ApiInv'
<1>1. request[r] \in RequestRecord /\ request[r].phase = "store" /\ Running
      /\ UNCHANGED <<environment, process, pool, clock, provider, keySet, fetch, client>>
  BY DEF ApiInv, TypesOK, StoreAnswers
<1>2. PICK status \in {"ok", "refused", "failed"} :
        request' = [request EXCEPT ![r] = Ended(request[r], status)]
  <2>1. PICK status \in {"ok"} \cup {Answer(f) : f \in Failures} :
           request' = [request EXCEPT ![r] =
             IF @.route = "probe" THEN Ended(@, "ok") ELSE Ended(@, status)]
    BY DEF StoreAnswers
  <2>2. status \in {"ok", "refused", "failed"}
    BY <2>1 DEF Answer
  <2> QED
    BY <2>1, <2>2
<1>3. DEFINE res == Ended(request[r], status)
<1>4. /\ res \in RequestRecord /\ res.phase = "done" /\ res.route = request[r].route
      /\ res.actor = request[r].actor /\ res.token = request[r].token
      /\ res.at = request[r].at
  BY <1>1 DEF Ended, RequestRecord, Phases, Statuses
<1>5. res.route \in Attributed /\ posture.auth => Verified(res)
  <2>1. Booted /\ RequestOK(request[r])
    BY <1>1 DEF ApiInv, KeysOK, Booted, Serving, Running
  <2> QED
    BY <1>1, <1>4, <2>1 DEF RequestOK, Verified
<1> QED
  BY <1>1, <1>2, <1>4, <1>5, AnswerKeepsInv

\* What a fetch carries is what the provider has at that moment.
LEMMA ProviderAnswersKeepsInv ==
  ASSUME ApiInv, NEW f \in Requests, ProviderAnswers(f)
  PROVE  ApiInv'
<1> USE DEF ProviderAnswers
<1>1. fetch[f].state = "sent" /\ provider.key \in Keys /\ clock \in Nat
  BY DEF ApiInv, TypesOK
<1>2. TypesOK'
  BY DEF ApiInv, TypesOK
<1>3. ProcessOK' /\ ClosedOK'
  BY DEF ApiInv, ProcessOK, ClosedOK, Booted, Serving, Running
<1>4. FlightOK'
  BY <1>1 DEF ApiInv, FlightOK, TypesOK
<1>5. ASSUME NEW g \in Requests PROVE FetchOK(g)'
  <2>1. CASE g = f
    <3>1. /\ fetch'[f].state = "answered" /\ fetch'[f].key = provider.key
          /\ fetch'[f].sentAt = fetch[f].sentAt
      BY DEF ApiInv, TypesOK
    <3> QED
      BY <1>1, <2>1, <3>1, NaturalConstants
      DEF ApiInv, KeysOK, FetchOK, Age, TypesOK, Keys
  <2>2. CASE g # f
    BY <2>2 DEF ApiInv, KeysOK, FetchOK, Age, TypesOK
  <2> QED
    BY <2>1, <2>2
<1>6. CacheOK' /\ (\A r \in Requests : RequestOK(request[r]))'
  BY DEF ApiInv, KeysOK, CacheOK, RequestOK, Verified, Age, Booted, posture
<1> QED
  BY <1>2, <1>3, <1>4, <1>5, <1>6 DEF ApiInv, KeysOK

\* A fetch that settles takes its keys, or none, to those who waited for it.
LEMMA SettleKeepsInv ==
  ASSUME ApiInv, NEW f \in Requests, NEW keys \in {NoKey} \cup Keys,
         Running, fetch[f].state # "none", Settle(f, keys),
         keys \in Keys => Age(keys, fetch[f].sentAt, 0),
         \/ keySet' = [keySet EXCEPT !.inflight = NoFetch]
         \/ keys \in Keys /\ keySet' = [key |-> keys, expiresAt |-> clock + Ttl, inflight |-> NoFetch]
  PROVE  ApiInv'
<1>1. /\ fetch' = [fetch EXCEPT ![f] = NotSent]
      /\ UNCHANGED <<environment, process, pool, clock, provider, client>>
  BY DEF Settle
<1>2. ASSUME NEW r \in Requests
      PROVE  \/ request'[r] = request[r]
             \/ /\ request[r].phase = "keys"
                /\ request'[r] = [request[r] EXCEPT !.phase = "verify", !.from = NoFetch,
                                                    !.keys = keys]
  BY DEF Settle
<1>3. TypesOK'
  <2>1. ASSUME NEW r \in Requests PROVE request'[r] \in RequestRecord
    <3>1. request[r] \in RequestRecord
      BY DEF ApiInv, TypesOK
    <3> QED
      BY <1>2, <3>1 DEF RequestRecord, Phases
  <2>2. request' = [r \in Requests |-> request'[r]]
    BY DEF Settle
  <2>3. request' \in [Requests -> RequestRecord]
    BY <2>1, <2>2
  <2>4. NotSent \in [state : {"none", "sent", "answered"},
                     key : {NoKey} \cup Keys, sentAt : Nat]
    BY DEF NotSent
  <2>5. clock + Ttl \in Nat
    BY NaturalConstants DEF ApiInv, TypesOK
  <2>6. keySet' \in [key : {NoKey} \cup Keys, expiresAt : Nat,
                    inflight : Requests \cup {NoFetch}]
    BY <2>5 DEF ApiInv, TypesOK
  <2>7. fetch' \in [Requests -> [state : {"none", "sent", "answered"},
                                key : {NoKey} \cup Keys, sentAt : Nat]]
    BY <1>1, <2>4 DEF ApiInv, TypesOK
  <2> QED
    BY <1>1, <2>3, <2>6, <2>7 DEF ApiInv, TypesOK
<1>4. ProcessOK' /\ ClosedOK'
  BY <1>1 DEF ApiInv, ProcessOK, ClosedOK, Booted, Serving, Running
<1>5. FlightOK'
  BY <1>1, ApiServerConstants DEF ApiInv, FlightOK, TypesOK, NotSent
<1>6. (\A g \in Requests : FetchOK(g))'
  BY <1>1 DEF ApiInv, KeysOK, FetchOK, Age, TypesOK, NotSent
<1>7. clock \in Nat /\ fetch[f].sentAt \in Nat /\ clock <= fetch[f].sentAt + MaxFlight
  BY DEF ApiInv, TypesOK, KeysOK, FetchOK
<1>8. keys \in Keys => Age(keys, clock, MaxFlight) /\ Age(keys, clock + Ttl, Ttl + MaxFlight)
  <2> SUFFICES ASSUME keys \in Keys, Age(keys, fetch[f].sentAt, 0)
               PROVE  Age(keys, clock, MaxFlight) /\ Age(keys, clock + Ttl, Ttl + MaxFlight)
    OBVIOUS
  <2>1. provider.key \in Keys /\ provider.since \in [Keys -> Nat]
    BY DEF ApiInv, TypesOK
  <2>2. keys < provider.key => keys + 1 \in Keys
    BY <2>1, NaturalConstants DEF Keys
  <2>3. keys < provider.key => provider.since[keys + 1] \in Nat
    BY <2>1, <2>2
  <2> QED
    BY <1>7, <2>3, NaturalConstants DEF Age
<1>9. CacheOK'
  <2>1. CASE keySet' = [keySet EXCEPT !.inflight = NoFetch]
    <3>1. keySet'.key = keySet.key /\ keySet'.expiresAt = keySet.expiresAt
      BY <2>1 DEF ApiInv, TypesOK
    <3> QED
      BY <1>1, <3>1 DEF ApiInv, KeysOK, CacheOK, Age
  <2>2. CASE keys \in Keys /\ keySet' = [key |-> keys, expiresAt |-> clock + Ttl, inflight |-> NoFetch]
    BY <1>1, <1>7, <1>8, <2>2, NaturalConstants DEF CacheOK, Age
  <2> QED
    BY <2>1, <2>2
<1>10. ASSUME NEW r \in Requests PROVE RequestOK(request[r])'
  <2>1. posture' = posture /\ Booted' = Booted
    BY <1>1 DEF posture, Booted
  <2>2. RequestOK(request[r]) /\ request[r] \in RequestRecord
    BY DEF ApiInv, KeysOK, TypesOK
  <2>3. CASE request'[r] = request[r]
    BY <1>1, <2>1, <2>2, <2>3 DEF RequestOK, Verified, Age
  <2>4. CASE /\ request[r].phase = "keys"
             /\ request'[r] = [request[r] EXCEPT !.phase = "verify", !.from = NoFetch,
                                                 !.keys = keys]
    <3>1. request'[r].phase = "verify" /\ request'[r].status = "none" /\ request'[r].keys = keys
      BY <2>2, <2>4 DEF RequestRecord, RequestOK
    <3> QED
      BY <1>1, <1>8, <3>1 DEF RequestOK, Age
  <2> QED
    BY <1>2, <2>3, <2>4
<1> QED
  BY <1>3, <1>4, <1>5, <1>6, <1>9, <1>10 DEF ApiInv, KeysOK

\* A fetch that ends frees the one flight.
LEMMA FetchKeepsInv ==
  ASSUME ApiInv, NEW f \in Requests, FetchArrives(f) \/ FetchFails(f)
  PROVE  ApiInv'
<1>1. CASE FetchArrives(f)
  <2>1. fetch[f].key \in Keys /\ Age(fetch[f].key, fetch[f].sentAt, 0)
    BY <1>1 DEF FetchArrives, ApiInv, KeysOK, FetchOK
  <2> QED
    BY <1>1, <2>1, SettleKeepsInv DEF FetchArrives
<1>2. CASE FetchFails(f)
  <2>1. NoKey \notin Keys
    BY NaturalConstants DEF Keys, NoKey
  <2> QED
    BY <1>2, <2>1, SettleKeepsInv DEF FetchFails
<1> QED
  BY <1>1, <1>2

\* A boot starts with an empty key set and no request.
LEMMA BootKeepsInv ==
  ASSUME ApiInv, process.state = "off", NEW env \in Environments, Boot(env)
  PROVE  ApiInv'
<1> USE DEF Boot
<1>1. \A r \in Requests : request[r] = Idle /\ request'[r] = Idle
  BY DEF ApiInv, ProcessOK
<1>2. TypesOK' /\ FlightOK'
  BY DEF ApiInv, TypesOK, FlightOK
<1>3. process' \in [state : States, handlers : SUBSET {"SIGTERM", "SIGINT"},
                    watchdog : BOOLEAN, code : {0, 1}]
      /\ process'.state = (IF RefusesToBoot(env) THEN "refused" ELSE "up")
  BY DEF ApiInv, ProcessOK, States
<1>4. ProcessOK'
  BY <1>1, <1>3 DEF ProcessOK, Booted
<1>5. pool \notin {"closing", "closed"} /\ pool' \in {"none", "open"}
  BY DEF ApiInv, ClosedOK
<1>6. ClosedOK'
  BY <1>3, <1>5 DEF ClosedOK
<1>7. KeysOK'
  <2>1. (\A f \in Requests : FetchOK(f))' /\ CacheOK'
    BY DEF ApiInv, KeysOK, FetchOK, CacheOK, Age
  <2>2. (\A r \in Requests : RequestOK(request[r]))'
    BY <1>1 DEF RequestOK, Idle, Attributed
  <2> QED
    BY <2>1, <2>2 DEF KeysOK
<1> QED
  BY <1>2, <1>4, <1>6, <1>7 DEF ApiInv

\* A shutdown leaves a process that was up, and never comes back to the state before a boot.
LEMMA ShutdownStates ==
  ASSUME ApiInv,
         \/ \E s \in {"SIGTERM", "SIGINT"} : Signal(s)
         \/ ServerCloses \/ Exit \/ WatchdogFires
  PROVE  /\ process.state \in {"up", "draining", "closing"}
         /\ process' \in [state : States, handlers : SUBSET {"SIGTERM", "SIGINT"},
                          watchdog : BOOLEAN, code : {0, 1}]
         /\ process'.state \in {"draining", "closing", "killed", "exited"}
         /\ UNCHANGED <<environment, clock, provider, keySet, fetch, bucket, request>>
<1>1. process \in [state : States, handlers : SUBSET {"SIGTERM", "SIGINT"},
                   watchdog : BOOLEAN, code : {0, 1}]
  BY DEF ApiInv, ProcessOK
<1>2. /\ process.state \in {"up", "draining", "closing"}
      /\ UNCHANGED <<environment, clock, provider, keySet, fetch, bucket, request>>
  BY DEF Signal, ServerCloses, Exit, WatchdogFires, Serving, Running
<1>3. /\ process' \in [state : States, handlers : SUBSET {"SIGTERM", "SIGINT"},
                       watchdog : BOOLEAN, code : {0, 1}]
      /\ process'.state \in {"draining", "closing", "killed", "exited"}
  <2>1. CASE \E s \in {"SIGTERM", "SIGINT"} : Signal(s)
    <3>1. PICK s \in {"SIGTERM", "SIGINT"} : Signal(s)
      BY <2>1
    <3>2. CASE s \notin process.handlers
      BY <1>1, <3>1, <3>2 DEF Signal, States
    <3>3. CASE s \in process.handlers
      <4>1. process' = [process EXCEPT
                !.handlers = @ \ {s},
                !.state = IF @ = "up" THEN "draining" ELSE @,
                !.watchdog = TRUE]
        BY <3>1, <3>3 DEF Signal
      <4>2. process.handlers \ {s} \in SUBSET {"SIGTERM", "SIGINT"}
        BY <1>1
      <4> QED
        BY <1>1, <1>2, <4>1, <4>2 DEF States
    <3> QED
      BY <3>2, <3>3
  <2>2. CASE ServerCloses
    BY <1>1, <2>2 DEF ServerCloses, States
  <2>3. CASE Exit
    BY <1>1, <2>3 DEF Exit, States
  <2>4. CASE WatchdogFires
    BY <1>1, <2>4 DEF WatchdogFires, States
  <2> QED
    BY <2>1, <2>2, <2>3, <2>4
<1> QED
  BY <1>2, <1>3

\* A shutdown closes the pool when no request is with the store.
LEMMA ShutdownKeepsInv ==
  ASSUME ApiInv,
         \/ \E s \in {"SIGTERM", "SIGINT"} : Signal(s)
         \/ ServerCloses \/ Exit \/ WatchdogFires
  PROVE  ApiInv'
<1>1. /\ process \in [state : States, handlers : SUBSET {"SIGTERM", "SIGINT"},
                      watchdog : BOOLEAN, code : {0, 1}]
      /\ pool \in {"none", "open", "closing", "closed"}
  BY DEF ApiInv, ProcessOK, ClosedOK
<1>2. /\ process.state \in {"up", "draining", "closing"}
      /\ UNCHANGED <<environment, clock, provider, keySet, fetch, request>>
  BY DEF Signal, ServerCloses, Exit, WatchdogFires, Serving, Running
<1>3. /\ process' \in [state : States, handlers : SUBSET {"SIGTERM", "SIGINT"},
                       watchdog : BOOLEAN, code : {0, 1}]
      /\ process'.state \in {"draining", "closing", "killed", "exited"}
  BY ShutdownStates
<1>4. ProcessOK'
  BY <1>2, <1>3 DEF ApiInv, ProcessOK, Booted
<1>5. ClosedOK'
  <2>1. CASE \E s \in {"SIGTERM", "SIGINT"} : Signal(s)
    BY <1>1, <1>2, <1>3, <2>1 DEF Signal, DropIdle, ApiInv, ClosedOK, Serving, Running
  <2>2. CASE ServerCloses
    BY <1>1, <1>2, <2>2 DEF ServerCloses, ClosedOK, Serving
  <2>3. CASE Exit
    BY <1>1, <1>2, <2>3 DEF Exit, ApiInv, ClosedOK, Serving
  <2>4. CASE WatchdogFires
    BY <1>1, <1>2, <2>4 DEF WatchdogFires, ApiInv, ClosedOK, Serving
  <2> QED
    BY <2>1, <2>2, <2>3, <2>4
<1>6. Booted /\ Booted'
  BY <1>2, <1>3 DEF Booted
<1> QED
  BY <1>2, <1>4, <1>5, <1>6, ProcessKeepsInv

\* As time passes cached keys age, and no flight outlives its limit.
LEMMA TickKeepsInv ==
  ASSUME ApiInv, Tick
  PROVE  ApiInv'
<1> USE DEF Tick
<1>1. clock \in Nat /\ clock' = clock + 1
  BY DEF ApiInv, TypesOK
<1>2. TypesOK' /\ FlightOK'
  BY DEF ApiInv, TypesOK, FlightOK
<1>3. ProcessOK' /\ ClosedOK'
  BY DEF ApiInv, ProcessOK, ClosedOK, Booted, Serving, Running
<1>4. ASSUME NEW f \in Requests PROVE FetchOK(f)'
  <2>1. fetch[f].state \in {"none", "sent", "answered"} /\ fetch[f].sentAt \in Nat
    BY DEF ApiInv, TypesOK
  <2>2. fetch[f].state # "none" => clock < fetch[f].sentAt + MaxFlight
    BY <2>1
  <2> QED
    BY <1>1, <2>1, <2>2, NaturalConstants DEF ApiInv, KeysOK, FetchOK, Age
<1>5. CacheOK'
  <2>1. keySet.expiresAt \in Nat
    BY DEF ApiInv, TypesOK
  <2> QED
    BY <1>1, <2>1, NaturalConstants DEF ApiInv, KeysOK, CacheOK, Age
<1>6. ASSUME NEW r \in Requests PROVE RequestOK(request[r])'
  <2>1. posture' = posture /\ Booted' = Booted
    BY DEF posture, Booted
  <2>2. RequestOK(request[r]) /\ request[r].phase # "verify" /\ request[r].at \in Nat
    BY DEF ApiInv, KeysOK, TypesOK, RequestRecord
  <2> QED
    BY <1>1, <2>1, <2>2 DEF RequestOK, Verified, Age
<1> QED
  BY <1>2, <1>3, <1>4, <1>5, <1>6 DEF ApiInv, KeysOK

\* Whatever was current when the provider rotates is withdrawn from now on.
LEMMA AgeAfterRotate ==
  ASSUME TypesOK, Rotate, NEW k \in Keys, NEW t \in Int, NEW age \in Nat,
         t <= clock + age, Age(k, t, age)
  PROVE  Age(k, t, age)'
<1>1. /\ provider.key \in 1..MaxKeys /\ provider.key + 1 \in Keys
      /\ provider'.key = provider.key + 1
      /\ provider'.since = [provider.since EXCEPT ![provider.key + 1] = clock]
      /\ provider.since \in [Keys -> Nat]
  BY NaturalConstants DEF Rotate, TypesOK, Keys
<1>2. CASE k = provider.key
  <2>1. provider'.since[k + 1] = clock
    BY <1>1, <1>2
  <2> QED
    BY <1>1, <1>2, <2>1 DEF Age, Keys
<1>3. CASE k < provider.key
  <2>1. k + 1 \in Keys /\ k + 1 # provider.key + 1
    BY <1>1, <1>3, NaturalConstants DEF Keys
  <2>2. provider'.since[k + 1] = provider.since[k + 1]
    BY <1>1, <2>1
  <2> QED
    BY <1>1, <1>3, <2>2 DEF Age, Keys
<1> QED
  BY <1>1, <1>2, <1>3 DEF Age, Keys

\* A rotation withdraws a key at this moment.
LEMMA RotateKeepsInv ==
  ASSUME ApiInv, Rotate
  PROVE  ApiInv'
<1>1. TypesOK /\ clock \in Nat /\ UNCHANGED <<environment, process, pool, clock, keySet, fetch, bucket, client, request>>
  BY DEF ApiInv, TypesOK, Rotate
<1>2. TypesOK'
  <2>1. provider.key + 1 \in Keys
    BY NaturalConstants DEF Rotate, ApiInv, TypesOK, Keys
  <2>2. provider' \in [key : Keys, since : [Keys -> Nat]]
    BY <1>1, <2>1 DEF Rotate, TypesOK
  <2> QED
    BY <1>1, <2>2 DEF TypesOK
<1>3. ProcessOK' /\ ClosedOK' /\ FlightOK'
  BY <1>1 DEF ApiInv, ProcessOK, ClosedOK, FlightOK, Booted, Serving, Running
<1>4. ASSUME NEW f \in Requests PROVE FetchOK(f)'
  <2>1. FetchOK(f) /\ fetch[f].sentAt \in Nat /\ fetch[f].state \in {"none", "sent", "answered"}
    BY DEF ApiInv, KeysOK, TypesOK
  <2>2. fetch[f].state = "answered" => Age(fetch[f].key, fetch[f].sentAt, 0)'
    <3> SUFFICES ASSUME fetch[f].state = "answered"
                 PROVE  Age(fetch[f].key, fetch[f].sentAt, 0)'
      OBVIOUS
    <3>1. /\ fetch[f].key \in Keys /\ Age(fetch[f].key, fetch[f].sentAt, 0)
          /\ fetch[f].sentAt <= clock + 0
      BY <1>1, <2>1 DEF FetchOK
    <3>2. fetch'[f] = fetch[f]
      BY <1>1
    <3>3. PICK k \in Keys, t \in Nat : k = fetch[f].key /\ t = fetch[f].sentAt
      BY <2>1, <3>1
    <3>4. Age(k, t, 0)'
      BY <1>1, <3>1, <3>3, AgeAfterRotate
    <3> QED
      BY <3>2, <3>3, <3>4 DEF Age
  <2> QED
    BY <1>1, <2>1, <2>2 DEF FetchOK
<1>5. CacheOK'
  <2>1. keySet.key \in Keys => Age(keySet.key, keySet.expiresAt, Ttl + MaxFlight)'
    <3> SUFFICES ASSUME keySet.key \in Keys
                 PROVE  Age(keySet.key, keySet.expiresAt, Ttl + MaxFlight)'
      OBVIOUS
    <3>1. /\ Age(keySet.key, keySet.expiresAt, Ttl + MaxFlight)
          /\ keySet.expiresAt \in Nat /\ Ttl + MaxFlight \in Nat
          /\ keySet.expiresAt <= clock + (Ttl + MaxFlight)
      BY <1>1, NaturalConstants DEF ApiInv, KeysOK, CacheOK, TypesOK
    <3>2. PICK k \in Keys, t \in Nat : k = keySet.key /\ t = keySet.expiresAt
      BY <3>1
    <3>3. Age(k, t, Ttl + MaxFlight)'
      BY <1>1, <3>1, <3>2, AgeAfterRotate
    <3> QED
      BY <1>1, <3>2, <3>3 DEF Age
  <2> QED
    BY <1>1, <2>1 DEF ApiInv, KeysOK, CacheOK
<1>6. ASSUME NEW r \in Requests PROVE RequestOK(request[r])'
  <2> DEFINE rec == request[r]
  <2>1. posture' = posture /\ Booted' = Booted /\ rec' = rec
    BY <1>1 DEF posture, Booted
  <2>2. RequestOK(rec) /\ rec.at \in Nat
    BY DEF ApiInv, KeysOK, TypesOK, RequestRecord
  <2> HIDE DEF rec
  <2>3. rec.keys \in Keys /\ Age(rec.keys, clock, MaxFlight) => Age(rec.keys, clock, MaxFlight)'
    BY <1>1, <2>1, NaturalConstants, AgeAfterRotate DEF Age
  <2>4. Verified(rec) => Verified(rec)'
    <3> SUFFICES ASSUME Verified(rec) PROVE Verified(rec)'
      OBVIOUS
    <3>1. /\ Age(rec.token.key, rec.at + 1, Ttl + MaxFlight) /\ rec.token.key \in Keys
          /\ rec.at + 1 \in Int /\ Ttl + MaxFlight \in Nat
          /\ rec.at + 1 <= clock + (Ttl + MaxFlight)
      BY <1>1, <2>2, NaturalConstants DEF Verified
    <3>2. Age(rec.token.key, rec.at + 1, Ttl + MaxFlight)'
      BY <1>1, <2>1, <3>1, AgeAfterRotate DEF Age
    <3> QED
      BY <1>1, <2>1, <3>2 DEF Verified
  <2>5. RequestOK(rec)'
    BY <1>1, <2>1, <2>2, <2>3, <2>4 DEF RequestOK
  <2> QED
    BY <2>5 DEF rec
<1> QED
  BY <1>2, <1>3, <1>4, <1>5, <1>6 DEF ApiInv, KeysOK

\* Connections come to no server that has closed.
LEMMA DisconnectKeepsInv ==
  ASSUME ApiInv, NEW r \in Requests, Disconnect(r)
  PROVE  ApiInv'
<1>1. /\ Serving
      /\ UNCHANGED <<environment, process, pool, clock, provider, keySet, fetch, request>>
  BY DEF Disconnect, Serving
<1>2. ProcessOK' /\ ClosedOK' /\ Booted /\ Booted'
  BY <1>1 DEF ApiInv, ProcessOK, ClosedOK, Booted, Serving
<1> QED
  BY <1>1, <1>2, ProcessKeepsInv

-----------------------------------------------------------------------------

\* Every step keeps the invariant.
LEMMA ApiInvStep == ApiInv /\ [ApiNext]_apiVars => ApiInv'
<1> SUFFICES ASSUME ApiInv, [ApiNext]_apiVars PROVE ApiInv'
  OBVIOUS
<1>1. CASE process.state = "off" /\ \E env \in Environments : Boot(env)
  BY <1>1, BootKeepsInv
<1>2. CASE \E r \in Requests :
             \/ \E q \in Traffic : Arrive(r, q)
             \/ \E route \in Mutating : ArriveTooLarge(r, route)
             \/ ProviderAnswers(r) \/ RequestStep(r) \/ Disconnect(r)
  BY <1>2, DisconnectKeepsInv, ArriveKeepsInv, ArriveTooLargeKeepsInv, ProviderAnswersKeepsInv,
     FetchKeepsInv, AfterFetchKeepsInv, StoreAnswersKeepsInv DEF RequestStep
<1>3. CASE (\E s \in {"SIGTERM", "SIGINT"} : Signal(s)) \/ ServerCloses \/ Exit \/ WatchdogFires
  BY <1>3, ShutdownKeepsInv
<1>4. CASE Tick \/ Rotate
  BY <1>4, TickKeepsInv, RotateKeepsInv
<1>5. CASE UNCHANGED apiVars
  <2>1. posture' = posture /\ Booted' = Booted
    BY <1>5 DEF apiVars, posture, Booted
  <2>2. TypesOK' /\ ProcessOK' /\ FlightOK' /\ ClosedOK'
    BY <1>5, <2>1
    DEF apiVars, ApiInv, TypesOK, ProcessOK, FlightOK, ClosedOK, Serving
  <2>3. KeysOK'
    BY <1>5, <2>1 DEF apiVars, ApiInv, KeysOK, FetchOK, CacheOK, RequestOK, Verified, Age
  <2> QED
    BY <2>2, <2>3 DEF ApiInv
<1> QED
  BY <1>1, <1>2, <1>3, <1>4, <1>5 DEF ApiNext

\* Every state of an API process satisfies the invariant the rest rests on.
THEOREM ApiInvHolds == ApiSpec => []ApiInv
BY ApiInvInit, ApiInvStep, PTL DEF ApiSpec

\* Whatever its environment, a process that has started in normal mode has no
\* demo fallback in it, its boot line and its readiness tell the truth, and it
\* uses every setting it was given (config.ts, runtime.ts).
THEOREM ApiFailsClosed == ApiSpec => []PostureHolds
<1>1. ApiInv => PostureHolds
  <2>1. ApiInv /\ Booted => environment \in Environment /\ ~RefusesToBoot(environment)
    BY ApiServerConstants DEF ApiInv, ProcessOK
  <2> QED
    BY <2>1, PostureOfAnEnvironment, PostureIsTold
    DEF PostureHolds, PostureFailsClosed, BootLogIsTrue, EverySettingHonoured, ReadyMeansLive, posture
<1> QED
  BY <1>1, ApiInvHolds, PTL

\* However many requests come without keys at hand, one fetch of the key set
\* is under way, and it is the one they share (createCachedJwksFetcher).
THEOREM ApiFetchesOnce == ApiSpec => []InflightIsTheOnlyFetch
<1>1. ApiInv => InflightIsTheOnlyFetch
  <2> SUFFICES ASSUME ApiInv PROVE InflightIsTheOnlyFetch
    OBVIOUS
  <2>1. /\ \A f \in Requests : fetch[f].state \in {"none", "sent", "answered"}
        /\ keySet.inflight \in Requests \cup {NoFetch}
    BY DEF ApiInv, TypesOK
  <2> QED
    BY <2>1, ApiServerConstants DEF ApiInv, FlightOK, InflightIsTheOnlyFetch
<1> QED
  BY <1>1, ApiInvHolds, PTL

\* What reaches the ledger under a name was verified, with a key withdrawn at
\* most a time to live and a flight before, whatever the interleaving of
\* fetches, rotations, ticks and requests (app.ts).
THEOREM ApiVerifiesWrites == ApiSpec => []WritesAreVerified
<1>1. ApiInv => WritesAreVerified
  <2> SUFFICES ASSUME ApiInv, NEW r \in Requests, request[r].route \in Attributed,
                      Booted, posture.auth,
                      request[r].phase = "store" \/ request[r].status = "ok"
               PROVE  /\ request[r].actor \in Subjects
                      /\ request[r].actor = request[r].token.subject
                      /\ request[r].token.key \in Keys
                      /\ request[r].token.key < provider.key =>
                           request[r].at < provider.since[request[r].token.key + 1]
                                             + Ttl + MaxFlight
    BY DEF WritesAreVerified
  <2>1. Verified(request[r]) /\ request[r].at \in Nat
    BY DEF ApiInv, KeysOK, RequestOK, TypesOK, RequestRecord
  <2>2. request[r].token.key < provider.key =>
          provider.since[request[r].token.key + 1] \in Nat
    <3>1. provider.key \in Keys /\ provider.since \in [Keys -> Nat]
      BY DEF ApiInv, TypesOK
    <3>2. request[r].token.key < provider.key => request[r].token.key + 1 \in Keys
      BY <2>1, <3>1, NaturalConstants DEF Verified, Keys
    <3> QED
      BY <3>1, <3>2
  <2> QED
    BY <2>1, <2>2, NaturalConstants DEF Verified, Age
<1> QED
  BY <1>1, ApiInvHolds, PTL

\* Whatever fetches, rotations and requests overlap, one fetch is shared and no
\* write is attributed that was not verified in time (app.ts).
THEOREM ApiChecksTokens == ApiSpec => []TokensAreChecked
<1>1. InflightIsTheOnlyFetch /\ WritesAreVerified => TokensAreChecked
  BY DEF TokensAreChecked
<1> QED
  BY <1>1, ApiFetchesOnce, ApiVerifiesWrites, PTL

-----------------------------------------------------------------------------
(* The shutdown.                                                           *)

\* A request under way came on a connection: its client is there or has left.
ClientsOK ==
  /\ client \in [Requests -> {"absent", "connected", "left"}]
  /\ \A r \in Requests : Open(r) => client[r] # "absent"

\* A request comes on a connection of its own, and takes an idle one at most.
LEMMA ArriveConnects ==
  ASSUME ApiInv, ClientsOK, NEW r \in Requests, Connects(r),
         \A p \in Requests \ {r} : request'[p] = request[p]
  PROVE  ClientsOK'
<1>1. client' \in [Requests -> {"absent", "connected", "left"}] /\ client'[r] = "connected"
  BY DEF Connects, ClientsOK
<1>2. ASSUME NEW p \in Requests, p # r, Open(p)
      PROVE  client'[p] # "absent"
  BY <1>2 DEF Connects, IdleConnection, ClientsOK
<1>3. \A p \in Requests \ {r} : Open(p)' <=> Open(p)
  BY DEF Open
<1> QED
  BY <1>1, <1>2, <1>3 DEF ClientsOK

\* A step that opens no request and moves no connection.
LEMMA ClientsStay ==
  ASSUME ClientsOK, UNCHANGED client, \A r \in Requests : Open(r)' => Open(r)
  PROVE  ClientsOK'
BY DEF ClientsOK

\* Requests that arrive touch no other request.
LEMMA ArriveClients ==
  ASSUME ApiInv, ClientsOK, NEW r \in Requests, NEW q \in Traffic, Arrive(r, q)
  PROVE  ClientsOK'
<1> DEFINE rec == [Idle EXCEPT !.phase = "keys", !.route = q.route, !.valid = q.valid,
                          !.token = IF NeedsToken(q.route) THEN q.token ELSE NoToken]
<1>1. /\ Connects(r)
      /\ \/ Admit(r, rec)
         \/ request' = [request EXCEPT ![r] = Refused("unauthorized")]
         \/ Verify(r, rec, keySet.key)
         \/ request' = [request EXCEPT ![r] = [rec EXCEPT !.from = SharedFetch(r)]]
  BY DEF Arrive
<1> HIDE DEF rec
<1>2. ASSUME NEW p \in Requests, p # r PROVE request'[p] = request[p]
  BY <1>1, <1>2 DEF Admit, Verify, ApiInv, TypesOK
<1> QED
  BY <1>1, <1>2, ArriveConnects

\* What a request waits for opens no request.
LEMMA RequestStepClients ==
  ASSUME ApiInv, ClientsOK, NEW r \in Requests, ProviderAnswers(r) \/ RequestStep(r)
  PROVE  ClientsOK'
<1>1. UNCHANGED client
  BY DEF ProviderAnswers, RequestStep, FetchArrives, FetchFails, Settle, AfterFetch, StoreAnswers
<1>2. ASSUME NEW p \in Requests, p # r \/ request'[p] = request[p] PROVE Open(p)' => Open(p)
  <2>1. CASE ProviderAnswers(r)
    BY <2>1 DEF ProviderAnswers, Open
  <2>2. CASE FetchArrives(r) \/ FetchFails(r)
    <3>1. PICK keys : Settle(r, keys)
      BY <2>2 DEF FetchArrives, FetchFails
    <3> QED
      BY <3>1 DEF Settle, Open
  <2>3. CASE AfterFetch(r)
    BY <1>2, <2>3 DEF AfterFetch, Verify, Admit, ApiInv, TypesOK, Open
  <2>4. CASE StoreAnswers(r)
    BY <1>2, <2>4 DEF StoreAnswers, ApiInv, TypesOK, Open
  <2> QED
    BY <2>1, <2>2, <2>3, <2>4 DEF RequestStep
<1>3. Open(r)' => Open(r)
  <2>1. CASE ProviderAnswers(r) \/ FetchArrives(r) \/ FetchFails(r)
    <3>1. request'[r] = request[r] \/ request[r].phase = "keys"
      BY <2>1 DEF ProviderAnswers, FetchArrives, FetchFails, Settle
    <3> QED
      BY <3>1 DEF Open
  <2>2. CASE AfterFetch(r) \/ StoreAnswers(r)
    BY <2>2 DEF AfterFetch, StoreAnswers, Open
  <2> QED
    BY <2>1, <2>2 DEF RequestStep
<1>4. ASSUME NEW p \in Requests PROVE Open(p)' => Open(p)
  BY <1>2, <1>3
<1> QED
  BY <1>1, <1>4, ClientsStay

\* Every step keeps a connection, or one that was left, with every request under way.
LEMMA ClientsStep == ApiInv /\ ClientsOK /\ [ApiNext]_apiVars => ClientsOK'
<1> SUFFICES ASSUME ApiInv, ClientsOK, [ApiNext]_apiVars PROVE ClientsOK'
  OBVIOUS
<1>1. CASE \E r \in Requests : \E q \in Traffic : Arrive(r, q)
  BY <1>1, ArriveClients
<1>2. CASE \E r \in Requests : \E route \in Mutating : ArriveTooLarge(r, route)
  BY <1>2, ArriveConnects DEF ArriveTooLarge, ApiInv, TypesOK
<1>3. CASE \E r \in Requests : ProviderAnswers(r) \/ RequestStep(r)
  BY <1>3, RequestStepClients
<1>4. CASE \E r \in Requests : Disconnect(r)
  <2>1. PICK r \in Requests : Disconnect(r)
    BY <1>4
  <2>2. \A p \in Requests : Open(p)' <=> Open(p)
    BY <2>1 DEF Disconnect, Open
  <2> QED
    BY <2>1, <2>2 DEF Disconnect, ClientsOK
<1>5. CASE \E s \in {"SIGTERM", "SIGINT"} : Signal(s)
  <2>1. UNCHANGED request /\ (DropIdle \/ UNCHANGED client)
    BY <1>5 DEF Signal
  <2>2. \A p \in Requests : Open(p)' <=> Open(p)
    BY <2>1 DEF Open
  <2> QED
    BY <2>1, <2>2 DEF DropIdle, IdleConnection, ClientsOK
<1>6. CASE UNCHANGED <<client, request>>
  BY <1>6 DEF ClientsOK, Open
<1> QED
  BY <1>1, <1>2, <1>3, <1>4, <1>5, <1>6
  DEF ApiNext, Boot, ServerCloses, Exit, WatchdogFires, Tick, Rotate, apiVars

\* The pool closes, and the process exits with code 0, under no request whose
\* client is still there: server.close waits for connections, and a request
\* whose client has left has none (shutdown.ts).
THEOREM ApiExitsClean == ApiSpec => []CleanExit
<1>1. ApiInit => ClientsOK
  BY DEF ApiInit, ClientsOK, Open, Idle
<1>2. ApiInv /\ ClientsOK => CleanExit
  <2> SUFFICES ASSUME ApiInv, ClientsOK,
                      \/ pool \in {"closing", "closed"}
                      \/ process.state = "exited" /\ process.code = 0,
                      NEW r \in Requests, Open(r)
               PROVE  client[r] = "left"
    BY DEF CleanExit
  <2>1. client[r] # "connected"
    BY DEF ApiInv, ClosedOK
  <2>2. client[r] \in {"absent", "connected", "left"} /\ client[r] # "absent"
    BY DEF ClientsOK
  <2> QED
    BY <2>1, <2>2
<1> QED
  BY <1>1, <1>2, ClientsStep, ApiInvHolds, PTL DEF ApiSpec

-----------------------------------------------------------------------------
(* The rate limit.                                                         *)

Buckets == {"mutation", "read"} \X (Subjects \cup {NoSubject})

Named == {q \in Requests : request[q].actor # NoSubject}

\* What subject s has sent through limiter l since the tick from.
Spent(s, l, from) ==
  {q \in Requests : /\ request[q].actor = s /\ Limiter(request[q].route) = l
                    /\ request[q].at >= from}

\* What the subject of r sent through its limiter in the window that ends with r.
Others(r) ==
  {q \in Requests \ {r} :
     /\ request[q].actor = request[r].actor
     /\ Limiter(request[q].route) = Limiter(request[r].route)
     /\ request[q].at \in (request[r].at - Window + 1)..request[r].at}

BucketsOK ==
  /\ bucket \in [Buckets -> [hits : Nat, until : Nat]]
  /\ \A b \in Buckets : bucket[b].until <= clock + Window
  /\ process.state = "off" => \A b \in Buckets : bucket[b].until = 0

NamesOK ==
  /\ IsFiniteSet(Named)
  /\ \A q \in Requests :
       /\ request[q].at <= clock
       /\ request[q].phase \in {"idle", "keys", "verify"} => request[q].actor = NoSubject

\* Every hit in an open window of a subject is a request of that subject since the
\* window opened.
BudgetOK ==
  \A b \in Buckets : b[2] # NoSubject /\ clock < bucket[b].until =>
    bucket[b].hits <= Cardinality(Spent(b[2], b[1], bucket[b].until - Window))

OwnRequests ==
  \A r \in Requests : request[r].status = "limited" /\ request[r].actor # NoSubject =>
    Cardinality(Others(r)) >= Limit

\* The inductive invariant of the rate limit, on top of ApiInv.
LimitInv == BucketsOK /\ NamesOK /\ BudgetOK /\ OwnRequests

\* A request that has a name keeps it, its route and its tick.
Stays(q) ==
  request[q].actor # NoSubject =>
    /\ request'[q].actor = request[q].actor
    /\ request'[q].route = request[q].route
    /\ request'[q].at = request[q].at

\* The limit and the window are positive, and no subject is the missing one.
LEMMA LimitConstants ==
  Limit \in Nat \ {0} /\ Window \in Nat \ {0} /\ NoSubject \notin Subjects
BY ApiServerConstants

\* Named requests are counted, and never fewer of them.
LEMMA SpentGrows ==
  ASSUME NamesOK, UNCHANGED environment, \A q \in Requests : Stays(q),
         IsFiniteSet(Named'), NEW s, s # NoSubject, NEW l, NEW from
  PROVE  /\ Spent(s, l, from) \subseteq Spent(s, l, from)'
         /\ IsFiniteSet(Spent(s, l, from)) /\ IsFiniteSet(Spent(s, l, from)')
         /\ Cardinality(Spent(s, l, from)) \in Nat /\ Cardinality(Spent(s, l, from)') \in Nat
         /\ Cardinality(Spent(s, l, from)) <= Cardinality(Spent(s, l, from)')
<1>1. \A route : Limiter(route)' = Limiter(route)
  BY DEF Limiter, posture
<1>2. Spent(s, l, from) \subseteq Spent(s, l, from)'
  BY <1>1 DEF Spent, Stays
<1>3. Spent(s, l, from) \subseteq Named /\ Spent(s, l, from)' \subseteq Named'
  BY DEF Spent, Named
<1>4. IsFiniteSet(Spent(s, l, from)) /\ IsFiniteSet(Spent(s, l, from)')
  BY <1>3, FS_Subset DEF NamesOK
<1> QED
  BY <1>2, <1>4, FS_Subset, FS_CardinalityType

\* The window of a request that was made loses nobody.
LEMMA OthersGrow ==
  ASSUME NamesOK, UNCHANGED environment, \A q \in Requests : Stays(q),
         IsFiniteSet(Named'), NEW r \in Requests, request[r].actor # NoSubject
  PROVE  Cardinality(Others(r)) \in Nat /\ Cardinality(Others(r)') \in Nat
         /\ Cardinality(Others(r)) <= Cardinality(Others(r)')
<1>1. \A route : Limiter(route)' = Limiter(route)
  BY DEF Limiter, posture
<1>2. Others(r) \subseteq Others(r)'
  BY <1>1 DEF Others, Stays
<1>3. Others(r) \subseteq Named /\ Others(r)' \subseteq Named'
  BY DEF Others, Named, Stays
<1>4. IsFiniteSet(Others(r)) /\ IsFiniteSet(Others(r)')
  BY <1>3, FS_Subset DEF NamesOK
<1> QED
  BY <1>2, <1>4, FS_Subset, FS_CardinalityType

\* A request that is not limited in this step.
Quiet(q) ==
  /\ Stays(q) /\ request'[q].at <= clock
  /\ request'[q].phase \in {"idle", "keys", "verify"} => request'[q].actor = NoSubject
  /\ request'[q].status = "limited" /\ request'[q].actor # NoSubject =>
       request[q].status = "limited" /\ request[q].actor # NoSubject

\* A step that limits nobody and spends nobody's budget.
LEMMA QuietStep ==
  ASSUME LimitInv, UNCHANGED <<clock, environment>>,
         bucket' \in [Buckets -> [hits : Nat, until : Nat]],
         \A b \in Buckets : bucket'[b].until <= clock + Window,
         \A b \in Buckets : b[2] # NoSubject => bucket'[b] = bucket[b],
         process'.state = "off" => process.state = "off" /\ UNCHANGED bucket,
         IsFiniteSet(Named'), \A q \in Requests : Quiet(q)
  PROVE  LimitInv'
<1>1. \A q \in Requests : Stays(q)
  BY DEF Quiet
<1>2. IsFiniteSet(Named')
  OBVIOUS
<1>3. NamesOK'
  BY <1>2 DEF LimitInv, NamesOK, Quiet
<1>4. BucketsOK'
  BY DEF LimitInv, BucketsOK
<1>5. BudgetOK'
  <2> SUFFICES ASSUME NEW b \in Buckets, b[2] # NoSubject, clock' < bucket'[b].until
               PROVE  bucket'[b].hits <= Cardinality(Spent(b[2], b[1], bucket[b].until - Window)')
    BY DEF BudgetOK
  <2>1. bucket[b] \in [hits : Nat, until : Nat] /\ bucket'[b] = bucket[b]
    BY DEF LimitInv, BucketsOK
  <2>2. PICK s, l, from : s = b[2] /\ l = b[1] /\ from = bucket[b].until - Window
    OBVIOUS
  <2>3. bucket[b].hits <= Cardinality(Spent(s, l, from))
    BY <2>1, <2>2 DEF LimitInv, BudgetOK
  <2>4. /\ Cardinality(Spent(s, l, from)) <= Cardinality(Spent(s, l, from)')
        /\ Cardinality(Spent(s, l, from)) \in Nat /\ Cardinality(Spent(s, l, from)') \in Nat
    BY <1>1, <1>2, <2>2, SpentGrows DEF LimitInv, NamesOK
  <2>5. bucket'[b].hits <= Cardinality(Spent(s, l, from)')
    BY <2>1, <2>3, <2>4
  <2> QED
    BY <2>1, <2>2, <2>5
<1>6. OwnRequests'
  <2> SUFFICES ASSUME NEW r \in Requests, request'[r].status = "limited", request'[r].actor # NoSubject
               PROVE  Cardinality(Others(r)') >= Limit
    BY DEF OwnRequests
  <2>1. request[r].status = "limited" /\ request[r].actor # NoSubject
    BY DEF Quiet
  <2>2. Cardinality(Others(r)) >= Limit
    BY <2>1 DEF LimitInv, OwnRequests
  <2> QED
    BY <1>1, <1>2, <2>1, <2>2, OthersGrow, LimitConstants DEF LimitInv, NamesOK
<1> QED
  BY <1>3, <1>4, <1>5, <1>6 DEF LimitInv

\* The limiter: a request that it counts is limited when its bucket is spent.
LEMMA AdmitSpends ==
  ASSUME NEW r \in Requests, NEW rec \in RequestRecord, rec.status = "none",
         request \in [Requests -> RequestRecord], Admit(r, rec)
  PROVE  \/ UNCHANGED bucket /\ request'[r].status # "limited"
         \/ /\ Limiter(rec.route) \in {"mutation", "read"}
            /\ bucket' = Hit(<<Limiter(rec.route), rec.actor>>)
            /\ request'[r].status = "limited" => Hits(<<Limiter(rec.route), rec.actor>>) >= Limit
<1> DEFINE b == <<Limiter(rec.route), rec.actor>>
<1>1. Limiter(rec.route) \in {"none", "mutation", "read"} /\ b[1] = Limiter(rec.route)
  BY DEF Limiter
<1>2. Handled(rec).status # "limited"
  <2>1. \A status \in Statuses : Ended(rec, status).status = status
    BY DEF Ended, RequestRecord
  <2>2. [rec EXCEPT !.phase = "store"].status = "none"
    BY DEF RequestRecord
  <2>3. \/ Handled(rec) = Ended(rec, "refused") \/ Handled(rec) = Ended(rec, "unauthorized")
        \/ Handled(rec) = Ended(rec, "ok") \/ Handled(rec) = [rec EXCEPT !.phase = "store"]
    BY DEF Handled, Answer
  <2> QED
    BY <2>1, <2>2, <2>3 DEF Statuses
<1>3. CASE b[1] = "none"
  BY <1>2, <1>3 DEF Admit
<1>4. CASE b[1] # "none"
  <2>1. /\ bucket' = Hit(b)
        /\ request' = [request EXCEPT ![r] =
             IF Hits(b) >= Limit THEN Ended(rec, "limited") ELSE Handled(rec)]
    BY <1>4 DEF Admit
  <2>2. CASE Hits(b) >= Limit
    BY <1>1, <1>4, <2>1, <2>2
  <2>3. CASE ~(Hits(b) >= Limit)
    <3>1. request'[r] = Handled(rec)
      BY <2>1, <2>3
    <3> QED
      BY <1>1, <1>2, <1>4, <2>1, <3>1
  <2> QED
    BY <2>2, <2>3
<1> QED
  BY <1>3, <1>4

\* What a hit does to its bucket.
LEMMA HitBucket ==
  ASSUME BucketsOK, clock \in Nat, NEW b \in Buckets, bucket' = Hit(b)
  PROVE  /\ bucket' \in [Buckets -> [hits : Nat, until : Nat]]
         /\ \A c \in Buckets \ {b} : bucket'[c] = bucket[c]
         /\ clock < bucket[b].until =>
              bucket'[b].hits = bucket[b].hits + 1 /\ bucket'[b].until = bucket[b].until
         /\ ~(clock < bucket[b].until) =>
              bucket'[b].hits = 1 /\ bucket'[b].until = clock + Window
         /\ \A c \in Buckets : bucket'[c].until <= clock + Window
<1>1. bucket[b] \in [hits : Nat, until : Nat] /\ bucket \in [Buckets -> [hits : Nat, until : Nat]]
  BY DEF BucketsOK
<1>2. PICK rec : rec = [hits |-> Hits(b) + 1,
                        until |-> IF clock < bucket[b].until THEN bucket[b].until ELSE clock + Window]
  OBVIOUS
<1>3. bucket' = [bucket EXCEPT ![b] = rec]
  BY <1>1, <1>2 DEF Hit
<1>4. /\ clock < bucket[b].until => rec.hits = bucket[b].hits + 1 /\ rec.until = bucket[b].until
      /\ ~(clock < bucket[b].until) => rec.hits = 1 /\ rec.until = clock + Window
  BY <1>1, <1>2 DEF Hits
<1>5. rec \in [hits : Nat, until : Nat] /\ rec.until <= clock + Window
  BY <1>1, <1>2, <1>4, LimitConstants DEF BucketsOK
<1> QED
  BY <1>1, <1>3, <1>4, <1>5 DEF BucketsOK

\* A request that was verified now spends its own budget; it is limited when what is
\* spent in the open window is the limit.
LEMMA NamedAdmitStep ==
  ASSUME ApiInv, ApiInv', LimitInv, UNCHANGED <<clock, environment, process>>, process.state # "off",
         NEW r \in Requests, request[r].actor = NoSubject,
         NEW s \in Subjects, NEW l \in {"mutation", "read"},
         request'[r].actor = s, request'[r].at = clock, Limiter(request'[r].route) = l,
         request'[r].phase \notin {"idle", "keys", "verify"},
         \A q \in Requests \ {r} : request'[q] = request[q],
         bucket' = Hit(<<l, s>>), request'[r].status = "limited" => Hits(<<l, s>>) >= Limit
  PROVE  LimitInv'
<1> PICK b \in Buckets : b = <<l, s>> /\ b[1] = l /\ b[2] = s
  BY DEF Buckets
<1>1. clock \in Nat /\ s # NoSubject /\ Window \in Nat \ {0} /\ Limit \in Nat \ {0}
  BY LimitConstants DEF ApiInv, TypesOK
<1>2. /\ bucket' \in [Buckets -> [hits : Nat, until : Nat]]
      /\ \A c \in Buckets \ {b} : bucket'[c] = bucket[c]
      /\ clock < bucket[b].until =>
           bucket'[b].hits = bucket[b].hits + 1 /\ bucket'[b].until = bucket[b].until
      /\ ~(clock < bucket[b].until) =>
           bucket'[b].hits = 1 /\ bucket'[b].until = clock + Window
      /\ \A c \in Buckets : bucket'[c].until <= clock + Window
  BY <1>1, HitBucket DEF LimitInv
<1>3. \A q \in Requests : Stays(q)
  BY DEF Stays
<1>4. Named' = Named \cup {r} /\ IsFiniteSet(Named')
  <2>1. Named' = Named \cup {r}
    BY <1>1 DEF Named
  <2> QED
    BY <2>1, FS_AddElement DEF LimitInv, NamesOK
<1>5. BucketsOK' /\ NamesOK'
  <2>1. BucketsOK'
    BY <1>2 DEF LimitInv, BucketsOK
  <2>2. ASSUME NEW q \in Requests
        PROVE  /\ request'[q].at <= clock
               /\ request'[q].phase \in {"idle", "keys", "verify"} => request'[q].actor = NoSubject
    BY <1>1 DEF LimitInv, NamesOK
  <2> QED
    BY <1>4, <2>1, <2>2 DEF NamesOK
<1>6. \A route : Limiter(route)' = Limiter(route)
  BY DEF Limiter, posture
<1>7. \A q \in Requests : request[q].at \in Nat /\ request[q].at <= clock
  BY DEF ApiInv, TypesOK, RequestRecord, LimitInv, NamesOK
<1>8. ASSUME NEW c \in Buckets, c[2] # NoSubject, (clock < bucket[c].until)'
      PROVE  (bucket[c].hits <= Cardinality(Spent(c[2], c[1], bucket[c].until - Window)))'
  <2>1. bucket[c] \in [hits : Nat, until : Nat] /\ bucket'[c] \in [hits : Nat, until : Nat]
    BY <1>2 DEF LimitInv, BucketsOK
  <2>2. PICK t, k, from : t = c[2] /\ k = c[1] /\ from = bucket'[c].until - Window
    OBVIOUS
  <2>3. /\ Spent(t, k, from) \subseteq Spent(t, k, from)'
        /\ IsFiniteSet(Spent(t, k, from)) /\ IsFiniteSet(Spent(t, k, from)')
        /\ Cardinality(Spent(t, k, from)) \in Nat /\ Cardinality(Spent(t, k, from)') \in Nat
        /\ Cardinality(Spent(t, k, from)) <= Cardinality(Spent(t, k, from)')
    BY <1>3, <1>4, <1>8, <2>2, SpentGrows DEF LimitInv
  <2>4. CASE c # b
    <3>1. bucket'[c] = bucket[c]
      BY <1>2, <2>4
    <3>2. bucket[c].hits <= Cardinality(Spent(t, k, from))
      BY <1>8, <2>2, <3>1 DEF LimitInv, BudgetOK
    <3>3. bucket'[c].hits <= Cardinality(Spent(t, k, from)')
      BY <2>1, <2>3, <3>1, <3>2
    <3> QED
      BY <2>2, <3>3
  <2>5. CASE c = b
    <3>1. t = s /\ k = l /\ from <= clock
      BY <1>1, <1>2, <2>1, <2>2, <2>5
    <3>2. r \in Spent(t, k, from)' /\ r \notin Spent(t, k, from)
      BY <1>1, <1>6, <3>1 DEF Spent
    <3>3. Cardinality(Spent(t, k, from) \cup {r}) = Cardinality(Spent(t, k, from)) + 1
          /\ IsFiniteSet(Spent(t, k, from) \cup {r})
      BY <2>3, <3>2, FS_AddElement
    <3>4. Cardinality(Spent(t, k, from)) + 1 <= Cardinality(Spent(t, k, from)')
      <4>1. Spent(t, k, from) \cup {r} \subseteq Spent(t, k, from)'
        BY <2>3, <3>2
      <4>2. Cardinality(Spent(t, k, from) \cup {r}) <= Cardinality(Spent(t, k, from)')
        BY <2>3, <4>1, FS_Subset
      <4> QED
        BY <3>3, <4>2
    <3>5. CASE clock < bucket[b].until
      <4>1. bucket[c].hits <= Cardinality(Spent(t, k, from)) /\ bucket'[c].hits = bucket[c].hits + 1
        BY <1>2, <1>8, <2>2, <2>5, <3>5 DEF LimitInv, BudgetOK
      <4>2. bucket'[c].hits <= Cardinality(Spent(t, k, from)')
        BY <2>1, <2>3, <3>4, <4>1
      <4> QED
        BY <2>2, <4>2
    <3>6. CASE ~(clock < bucket[b].until)
      <4>1. bucket'[c].hits <= Cardinality(Spent(t, k, from)')
        BY <1>2, <2>3, <2>5, <3>4, <3>6
      <4> QED
        BY <2>2, <4>1
    <3> QED
      BY <3>5, <3>6
  <2> QED
    BY <2>4, <2>5
<1>9. BudgetOK'
  BY <1>8 DEF BudgetOK
<1>10. ASSUME request'[r].status = "limited"
       PROVE  Cardinality(Others(r)') >= Limit
  <2>1. bucket[b] \in [hits : Nat, until : Nat] /\ bucket[b].until <= clock + Window
    BY DEF LimitInv, BucketsOK
  <2>2. clock < bucket[b].until /\ bucket[b].hits >= Limit
    <3>1. Hits(b) >= Limit /\ Hits(b) = IF clock < bucket[b].until THEN bucket[b].hits ELSE 0
      BY <1>10 DEF Hits
    <3> QED
      BY <1>1, <2>1, <3>1
  <2>3. PICK from \in Int : from = bucket[b].until - Window
    BY <1>1, <2>1
  <2>4. bucket[b].hits <= Cardinality(Spent(s, l, from))
    BY <1>1, <2>2, <2>3 DEF LimitInv, BudgetOK
  <2>5. Spent(s, l, from) \subseteq Others(r)'
    <3>1. clock - Window + 1 <= from
      BY <1>1, <2>1, <2>2, <2>3
    <3> SUFFICES ASSUME NEW q \in Spent(s, l, from)
                 PROVE  /\ q \in Requests \ {r} /\ request'[q].actor = request'[r].actor
                        /\ (Limiter(request[q].route) = Limiter(request[r].route))'
                        /\ request'[q].at \in (request'[r].at - Window + 1)..request'[r].at
      BY DEF Others
    <3>2. q \in Requests /\ request[q].actor = s /\ Limiter(request[q].route) = l /\ request[q].at >= from
      BY DEF Spent
    <3>3. q # r /\ request'[q] = request[q]
      BY <1>1, <3>2
    <3> QED
      BY <1>1, <1>6, <1>7, <2>3, <3>1, <3>2, <3>3
  <2>6. /\ Cardinality(Spent(s, l, from)) \in Nat
        /\ IsFiniteSet(Others(r)')
    <3>1. Others(r)' \subseteq Named'
      BY <1>1 DEF Others, Named
    <3> QED
      BY <1>1, <1>3, <1>4, <3>1, SpentGrows, FS_Subset DEF LimitInv
  <2>7. Cardinality(Spent(s, l, from)) <= Cardinality(Others(r)') /\ Cardinality(Others(r)') \in Nat
    BY <2>5, <2>6, FS_Subset, FS_CardinalityType
  <2> QED
    BY <1>1, <2>1, <2>2, <2>4, <2>6, <2>7
<1>11. ASSUME NEW q \in Requests \ {r}, request'[q].status = "limited", request'[q].actor # NoSubject
       PROVE  Cardinality(Others(q)') >= Limit
  <2>1. request[q].status = "limited" /\ request[q].actor # NoSubject
    BY <1>11
  <2>2. Cardinality(Others(q)) >= Limit
    BY <2>1 DEF LimitInv, OwnRequests
  <2> QED
    BY <1>1, <1>3, <1>4, <2>1, <2>2, OthersGrow DEF LimitInv
<1>12. OwnRequests'
  BY <1>10, <1>11 DEF OwnRequests
<1> QED
  BY <1>5, <1>9, <1>12 DEF LimitInv

\* One request changes, and may get a name.
LEMMA OneNamed ==
  ASSUME NamesOK, NEW r \in Requests, \A q \in Requests \ {r} : request'[q] = request[q]
  PROVE  IsFiniteSet(Named')
<1>1. Named' \subseteq Named \cup {r}
  BY DEF Named
<1>2. IsFiniteSet(Named \cup {r})
  BY FS_AddElement DEF NamesOK
<1> QED
  BY <1>1, <1>2, FS_Subset

\* A request without a name is answered, and nobody's budget is spent.
LEMMA PlainStep ==
  ASSUME ApiInv, LimitInv, UNCHANGED <<clock, environment, process>>, process.state # "off",
         NEW r \in Requests, \A q \in Requests \ {r} : request'[q] = request[q],
         bucket' \in [Buckets -> [hits : Nat, until : Nat]],
         \A b \in Buckets : bucket'[b].until <= clock + Window,
         \A b \in Buckets : b[2] # NoSubject => bucket'[b] = bucket[b],
         request[r].actor = NoSubject, request'[r].at <= clock,
         request'[r].phase \in {"idle", "keys", "verify"} => request'[r].actor = NoSubject,
         request'[r].status # "limited" \/ request'[r].actor = NoSubject
  PROVE  LimitInv'
<1>1. IsFiniteSet(Named')
  BY OneNamed DEF LimitInv
<1>2. ASSUME NEW q \in Requests \ {r} PROVE Quiet(q)
  BY <1>2 DEF Quiet, Stays, LimitInv, NamesOK
<1>3. Quiet(r)
  BY DEF Quiet, Stays
<1> QED
  BY <1>1, <1>2, <1>3, QuietStep

\* A request is let through to the limiter: nameless, or under the name it got now.
LEMMA AdmitStep ==
  ASSUME ApiInv, ApiInv', LimitInv, UNCHANGED <<clock, environment, process>>, process.state # "off",
         NEW r \in Requests, request[r].actor = NoSubject,
         NEW rec \in RequestRecord, rec.status = "none", rec.at <= clock,
         rec.actor = NoSubject \/ rec.at = clock, Admit(r, rec)
  PROVE  LimitInv'
<1>1. request \in [Requests -> RequestRecord] /\ clock \in Nat /\ BucketsOK
  BY DEF ApiInv, TypesOK, LimitInv
<1>2. PICK res \in RequestRecord :
           /\ request' = [request EXCEPT ![r] = res]
           /\ res.route = rec.route /\ res.actor = rec.actor /\ res.at = rec.at
           /\ res.phase \in {"done", "store"}
  BY AdmitResult
<1>3. request'[r] = res /\ \A q \in Requests \ {r} : request'[q] = request[q]
  BY <1>1, <1>2
<1>4. CASE UNCHANGED bucket /\ request'[r].status # "limited"
  BY <1>1, <1>2, <1>3, <1>4, PlainStep DEF BucketsOK
<1>5. CASE /\ Limiter(rec.route) \in {"mutation", "read"}
           /\ bucket' = Hit(<<Limiter(rec.route), rec.actor>>)
           /\ request'[r].status = "limited" => Hits(<<Limiter(rec.route), rec.actor>>) >= Limit
  <2>1. PICK l \in {"mutation", "read"}, s \in Subjects \cup {NoSubject} :
          l = Limiter(rec.route) /\ s = rec.actor
    BY <1>5 DEF RequestRecord
  <2>2. CASE s = NoSubject
    <3>1. PICK b \in Buckets : b = <<l, s>> /\ b[2] = NoSubject
      <4>1. <<l, NoSubject>> \in Buckets
        BY DEF Buckets
      <4> QED
        BY <2>2, <4>1
    <3>3. /\ bucket' \in [Buckets -> [hits : Nat, until : Nat]]
          /\ \A c \in Buckets \ {b} : bucket'[c] = bucket[c]
          /\ \A c \in Buckets : bucket'[c].until <= clock + Window
      BY <1>1, <1>5, <2>1, <3>1, HitBucket
    <3>4. \A c \in Buckets : c[2] # NoSubject => bucket'[c] = bucket[c]
      BY <3>1, <3>3
    <3>5. /\ request'[r].actor = NoSubject /\ request'[r].at <= clock
          /\ request'[r].phase \notin {"idle", "keys", "verify"}
      BY <1>2, <1>3, <2>1, <2>2
    <3> QED
      BY <1>3, <3>3, <3>4, <3>5, PlainStep
  <2>3. CASE s \in Subjects
    <3>1. Limiter(request'[r].route) = l /\ request'[r].actor = s /\ request'[r].at = clock
      BY <1>2, <1>3, <2>1, <2>3, LimitConstants
    <3> QED
      BY <1>2, <1>3, <1>5, <2>1, <2>3, <3>1, NamedAdmitStep
  <2> QED
    BY <2>2, <2>3
<1> QED
  BY <1>1, <1>4, <1>5, AdmitSpends

\* A request is refused before it has a name.
LEMMA RefuseStep ==
  ASSUME ApiInv, LimitInv, UNCHANGED <<clock, environment, process, bucket>>, process.state # "off",
         NEW r \in Requests, request[r].actor = NoSubject, NEW status,
         request' = [request EXCEPT ![r] = Refused(status)]
  PROVE  LimitInv'
<1>1. /\ request'[r].actor = NoSubject /\ request'[r].at = 0
      /\ \A q \in Requests \ {r} : request'[q] = request[q]
  BY DEF ApiInv, TypesOK, Refused, Ended, Idle
<1>2. clock \in Nat /\ BucketsOK
  BY DEF ApiInv, TypesOK, LimitInv
<1> QED
  BY <1>1, <1>2, PlainStep DEF BucketsOK

\* A token is verified: the request gets its name now, or is refused.
LEMMA VerifyStep ==
  ASSUME ApiInv, ApiInv', LimitInv, UNCHANGED <<clock, environment, process>>, process.state # "off",
         NEW r \in Requests, request[r].actor = NoSubject, NEW key,
         NEW rec \in RequestRecord, rec.status = "none", Verify(r, rec, key)
  PROVE  LimitInv'
<1>1. CASE rec.token.key # key
  BY <1>1, RefuseStep DEF Verify
<1>2. CASE rec.token.key = key
  <2>1. PICK named : named = [rec EXCEPT !.actor = rec.token.subject, !.at = clock, !.keys = NoKey]
    OBVIOUS
  <2>2. named \in RequestRecord /\ named.status = "none" /\ named.at = clock /\ clock \in Nat
    <3>1. rec.token.subject \in Subjects \cup {NoSubject}
      BY DEF RequestRecord, Tokens, NoToken
    <3>2. clock \in Nat /\ NoKey \in {NoKey} \cup Keys
      BY DEF ApiInv, TypesOK
    <3> QED
      BY <2>1, <3>1, <3>2 DEF RequestRecord
  <2>3. Admit(r, named)
    BY <1>2, <2>1 DEF Verify
  <2> QED
    BY <2>2, <2>3, AdmitStep
<1> QED
  BY <1>1, <1>2

\* A request that arrives is admitted, refused, verified or waits for the key set.
LEMMA ArriveSpends ==
  ASSUME ApiInv, ApiInv', LimitInv, NEW r \in Requests, NEW q \in Traffic, Arrive(r, q)
  PROVE  LimitInv'
<1> DEFINE rec == [Idle EXCEPT !.phase = "keys", !.route = q.route, !.valid = q.valid,
                          !.token = IF NeedsToken(q.route) THEN q.token ELSE NoToken]
<1>1. /\ rec \in RequestRecord /\ rec.status = "none" /\ rec.phase = "keys"
      /\ rec.actor = NoSubject /\ rec.at = 0
  BY ApiServerConstants, RecordOfIdle DEF Idle, RequestRecord, Phases
<1>2. /\ Serving /\ request[r].phase = "idle" /\ clock \in Nat
      /\ UNCHANGED <<environment, process, pool, clock, provider>>
  BY DEF Arrive, Connects, Serving, ApiInv, TypesOK
<1>3. \/ Admit(r, rec)
      \/ request' = [request EXCEPT ![r] = Refused("unauthorized")] /\ UNCHANGED bucket
      \/ Verify(r, rec, keySet.key)
      \/ request' = [request EXCEPT ![r] = [rec EXCEPT !.from = SharedFetch(r)]] /\ UNCHANGED bucket
  BY DEF Arrive
<1> HIDE DEF rec
<1>4. request[r].actor = NoSubject /\ process.state # "off"
  BY <1>2 DEF LimitInv, NamesOK, Serving
<1>5. CASE Admit(r, rec)
  BY <1>1, <1>2, <1>4, <1>5, AdmitStep
<1>6. CASE request' = [request EXCEPT ![r] = Refused("unauthorized")] /\ UNCHANGED bucket
  BY <1>2, <1>4, <1>6, RefuseStep
<1>7. CASE Verify(r, rec, keySet.key)
  BY <1>1, <1>2, <1>4, <1>7, VerifyStep
<1>8. CASE request' = [request EXCEPT ![r] = [rec EXCEPT !.from = SharedFetch(r)]] /\ UNCHANGED bucket
  <2>1. /\ request'[r].actor = NoSubject /\ request'[r].at = 0
        /\ \A p \in Requests \ {r} : request'[p] = request[p]
    BY <1>1, <1>8 DEF ApiInv, TypesOK, RequestRecord
  <2> QED
    BY <1>2, <1>4, <1>8, <2>1, PlainStep DEF LimitInv, BucketsOK
<1> QED
  BY <1>3, <1>5, <1>6, <1>7, <1>8

\* A request goes on with the keys of its fetch, or is refused.
LEMMA AfterFetchSpends ==
  ASSUME ApiInv, ApiInv', LimitInv, NEW r \in Requests, AfterFetch(r)
  PROVE  LimitInv'
<1>1. /\ request[r].actor = NoSubject /\ process.state # "off" /\ request[r] \in RequestRecord
      /\ request[r].status = "none" /\ UNCHANGED <<environment, process, clock>>
  BY DEF AfterFetch, ApiInv, TypesOK, KeysOK, RequestOK, LimitInv, NamesOK, Serving, Running
<1>2. CASE Verify(r, request[r], request[r].keys)
  BY <1>1, <1>2, VerifyStep
<1>3. CASE request' = [request EXCEPT ![r] = Refused(Answer("unavailable"))] /\ UNCHANGED bucket
  BY <1>1, <1>3, RefuseStep
<1> QED
  BY <1>2, <1>3 DEF AfterFetch

\* The store answers a request under the name it was admitted with.
LEMMA StoreSpends ==
  ASSUME ApiInv, LimitInv, NEW r \in Requests, StoreAnswers(r)
  PROVE  LimitInv'
<1>1. /\ request[r] \in RequestRecord /\ request[r].phase = "store" /\ process.state # "off"
      /\ UNCHANGED <<environment, process, clock, bucket>>
  BY DEF StoreAnswers, Serving, Running, ApiInv, TypesOK
<1>2. PICK status : request' = [request EXCEPT ![r] =
                      IF @.route = "probe" THEN Ended(@, "ok") ELSE Ended(@, status)]
                    /\ status \in {"ok"} \cup {Answer(f) : f \in Failures}
  BY DEF StoreAnswers
<1>3. /\ request'[r].actor = request[r].actor /\ request'[r].route = request[r].route
      /\ request'[r].at = request[r].at /\ request'[r].phase = "done"
      /\ request'[r].status # "limited"
      /\ \A q \in Requests \ {r} : request'[q] = request[q]
  <2>1. status # "limited"
    BY <1>2 DEF Answer
  <2>2. \A st : /\ Ended(request[r], st).actor = request[r].actor
                /\ Ended(request[r], st).route = request[r].route
                /\ Ended(request[r], st).at = request[r].at
                /\ Ended(request[r], st).phase = "done" /\ Ended(request[r], st).status = st
    BY <1>1 DEF Ended, RequestRecord
  <2>3. PICK st \in {"ok", status} : request' = [request EXCEPT ![r] = Ended(request[r], st)]
    BY <1>2
  <2>4. request'[r] = Ended(request[r], st) /\ \A q \in Requests \ {r} : request'[q] = request[q]
    BY <2>3 DEF ApiInv, TypesOK
  <2> QED
    BY <2>1, <2>2, <2>4
<1>4. ASSUME NEW q \in Requests PROVE Quiet(q)
  BY <1>1, <1>3 DEF Quiet, Stays, LimitInv, NamesOK
<1>5. IsFiniteSet(Named')
  BY <1>3, OneNamed DEF LimitInv
<1> QED
  BY <1>1, <1>4, <1>5, QuietStep DEF LimitInv, BucketsOK

\* Those who wait for a fetch have no name yet.
LEMMA SettleSpends ==
  ASSUME ApiInv, LimitInv, NEW f \in Requests, FetchArrives(f) \/ FetchFails(f)
  PROVE  LimitInv'
<1>1. PICK keys : Settle(f, keys)
  BY DEF FetchArrives, FetchFails
<1>2. process.state # "off" /\ UNCHANGED <<environment, process, clock, bucket>>
  BY <1>1 DEF FetchArrives, FetchFails, Serving, Running, Settle
<1>3. ASSUME NEW q \in Requests
      PROVE  \/ request'[q] = request[q]
             \/ /\ request[q].phase = "keys"
                /\ request'[q] = [request[q] EXCEPT !.phase = "verify", !.from = NoFetch,
                                                    !.keys = keys]
  BY <1>1 DEF Settle
<1>4. ASSUME NEW q \in Requests PROVE Quiet(q) /\ request'[q].actor = request[q].actor
  <2>1. request[q] \in RequestRecord
    BY DEF ApiInv, TypesOK
  <2>2. \/ request'[q] = request[q]
        \/ /\ request[q].phase = "keys" /\ request'[q].actor = request[q].actor
           /\ request'[q].at = request[q].at
    BY <1>3, <2>1 DEF RequestRecord
  <2> QED
    BY <1>2, <2>2 DEF Quiet, Stays, LimitInv, NamesOK
<1>5. Named' = Named
  BY <1>4 DEF Named
<1> QED
  BY <1>2, <1>4, <1>5, QuietStep DEF LimitInv, BucketsOK, NamesOK

\* A step that concerns neither requests nor buckets, and boots nothing.
LEMMA OtherSpends ==
  ASSUME ApiInv, LimitInv, UNCHANGED <<environment, clock, bucket, request>>,
         process'.state = "off" => process.state = "off"
  PROVE  LimitInv'
<1>1. ASSUME NEW q \in Requests PROVE Quiet(q)
  BY DEF Quiet, Stays, LimitInv, NamesOK
<1>2. Named' = Named
  BY DEF Named
<1> QED
  BY <1>1, <1>2, QuietStep DEF LimitInv, BucketsOK, NamesOK

\* As time passes windows end, and nothing that was spent is forgotten.
LEMMA TickSpends ==
  ASSUME ApiInv, LimitInv, Tick
  PROVE  LimitInv'
<1>1. clock \in Nat /\ clock' = clock + 1 /\ UNCHANGED <<environment, process, bucket, request>>
  BY DEF Tick, ApiInv, TypesOK
<1>2. \A b \in Buckets : bucket[b].until \in Nat /\ bucket[b].hits \in Nat
  BY DEF LimitInv, BucketsOK
<1>3. Named' = Named /\ \A s, l, from : Spent(s, l, from)' = Spent(s, l, from)
  BY <1>1 DEF Named, Spent, Limiter, posture
<1>4. \A r : Others(r)' = Others(r)
  BY <1>1 DEF Others, Limiter, posture
<1>5. BucketsOK'
  BY <1>1, <1>2, LimitConstants DEF LimitInv, BucketsOK
<1>6. NamesOK'
  <2>1. \A q \in Requests : request[q].at \in Nat
    BY DEF ApiInv, TypesOK, RequestRecord
  <2> QED
    BY <1>1, <1>3, <2>1 DEF LimitInv, NamesOK
<1>7. BudgetOK'
  <2> SUFFICES ASSUME NEW b \in Buckets, b[2] # NoSubject, clock' < bucket'[b].until
               PROVE  bucket'[b].hits <= Cardinality(Spent(b[2], b[1], bucket[b].until - Window)')
    BY <1>1 DEF BudgetOK
  <2>1. clock < bucket[b].until
    BY <1>1, <1>2
  <2> QED
    BY <1>1, <1>3, <2>1 DEF LimitInv, BudgetOK
<1>8. OwnRequests'
  BY <1>1, <1>4 DEF LimitInv, OwnRequests
<1> QED
  BY <1>5, <1>6, <1>7, <1>8 DEF LimitInv

\* Before the boot nobody has sent anything.
LEMMA BootSpends ==
  ASSUME ApiInv, LimitInv, process.state = "off", NEW env, Boot(env)
  PROVE  LimitInv'
<1>1. /\ UNCHANGED <<clock, bucket, request>> /\ clock \in Nat
      /\ \A q \in Requests : request[q] = Idle /\ request'[q] = Idle
      /\ \A b \in Buckets : bucket[b].until = 0
  BY DEF Boot, ApiInv, ProcessOK, TypesOK, LimitInv, BucketsOK
<1>2. Named' = Named
  BY <1>1 DEF Named
<1>3. Idle.actor = NoSubject
  BY DEF Idle
<1> QED
  BY <1>1, <1>2, <1>3 DEF LimitInv, BucketsOK, NamesOK, BudgetOK, OwnRequests

-----------------------------------------------------------------------------
\* No bucket is open before the boot.
LEMMA LimitStart == ApiInit => LimitInv
<1> SUFFICES ASSUME ApiInit PROVE LimitInv
  OBVIOUS
<1>1. \A q \in Requests : request[q] = Idle /\ Idle.actor = NoSubject /\ Idle.at = 0
  BY DEF ApiInit, Idle
<1>2. BucketsOK
  BY LimitConstants DEF ApiInit, BucketsOK, Buckets
<1>3. Named = {}
  BY <1>1 DEF Named
<1>4. NamesOK
  BY <1>1, <1>3, FS_EmptySet DEF ApiInit, NamesOK
<1>5. BudgetOK
  BY DEF ApiInit, BudgetOK, Buckets
<1> QED
  BY <1>1, <1>2, <1>4, <1>5 DEF LimitInv, OwnRequests

\* Every step keeps the invariant of the rate limit.
LEMMA LimitStep == ApiInv /\ ApiInv' /\ LimitInv /\ [ApiNext]_apiVars => LimitInv'
<1> SUFFICES ASSUME ApiInv, ApiInv', LimitInv, [ApiNext]_apiVars PROVE LimitInv'
  OBVIOUS
<1>1. CASE process.state = "off" /\ \E env \in Environments : Boot(env)
  BY <1>1, BootSpends
<1>2. CASE \E r \in Requests : \E q \in Traffic : Arrive(r, q)
  BY <1>2, ArriveSpends
<1>3. CASE \E r \in Requests : \E route \in Mutating : ArriveTooLarge(r, route)
  BY <1>3, RefuseStep DEF ArriveTooLarge, Connects, Serving, LimitInv, NamesOK
<1>4. CASE \E r \in Requests : ProviderAnswers(r)
  BY <1>4, OtherSpends DEF ProviderAnswers
<1>5. CASE \E r \in Requests : RequestStep(r)
  BY <1>5, SettleSpends, AfterFetchSpends, StoreSpends DEF RequestStep
<1>6. CASE (\E s \in {"SIGTERM", "SIGINT"} : Signal(s)) \/ ServerCloses \/ Exit \/ WatchdogFires
  <2>1. UNCHANGED <<environment, clock, bucket, request>> /\ process'.state # "off"
    BY <1>6, ShutdownStates
  <2> QED
    BY <2>1, OtherSpends
<1>7. CASE Tick
  BY <1>7, TickSpends
<1>8. CASE Rotate \/ (\E r \in Requests : Disconnect(r)) \/ UNCHANGED apiVars
  BY <1>8, OtherSpends DEF Rotate, Disconnect, apiVars
<1> QED
  BY <1>1, <1>2, <1>3, <1>4, <1>5, <1>6, <1>7, <1>8 DEF ApiNext

\* A subject is refused for its budget only when its own requests have spent it within
\* the window, whatever others send from its address and with bad tokens (app.ts:408).
THEOREM ApiLimitsOwnRequests == ApiSpec => []LimitedByOwnRequests
<1>1. LimitInv => LimitedByOwnRequests
  BY DEF LimitInv, OwnRequests, LimitedByOwnRequests, Others
<1>2. ApiInit => LimitInv
  BY LimitStart
<1>3. ApiInv /\ ApiInv' /\ LimitInv /\ [ApiNext]_apiVars => LimitInv'
  BY LimitStep
<1> QED
  BY <1>1, <1>2, <1>3, ApiInvHolds, PTL DEF ApiSpec

-----------------------------------------------------------------------------
(* The advisor.                                                            *)

Proposal ==
  [state : {"none", "requested", "responded", "approved", "refused"},
   review : Reviews \cup {NoReview}, suggestion : Nat,
   fits : BOOLEAN, signed : BOOLEAN, approved : BOOLEAN]

Thread == [count : Nat, long : Nat, proposal : Proposal, waiting : Turns \cup {NoTurn}, failed : BOOLEAN]

TurnRecord ==
  [state : {"unused", "sent", "validated", "answered", "failed", "done"},
   kind : {"question", "approval"}, proposal : Proposal,
   outcome : {"none", "approved", "refused"}, overtaken : BOOLEAN]

GateRecord ==
  [status : {"needs-review", "approved", "rejected"}, by : {"nobody", "advisor", "queue"},
   suggestion : Nat, edited : Nat]

AdvisorTypes ==
  /\ mode \in {"demo", "normal"}
  /\ gate \in [Reviews -> GateRecord]
  /\ thread \in Thread /\ saved \in Thread
  /\ turn \in [Turns -> TurnRecord]

\* A card that may be answered is signed where signatures are asked for.
Signed(p) == p.state = "requested" /\ mode = "normal" => p.signed

\* The server answers a card with an approval only if a human gave it, and validates
\* it as long as the review is open.
TurnOK(rec) ==
  /\ rec.kind = "question" => Signed(rec.proposal) /\ rec.state # "validated" /\ rec.outcome = "none"
  /\ rec.kind = "approval" =>
       /\ rec.state # "failed"
       /\ mode = "normal" => rec.proposal.signed
       /\ rec.proposal.approved => <<rec.proposal.review, rec.proposal.suggestion>> \in human
       /\ rec.state = "answered" => rec.outcome # "none"
       /\ rec.state \in {"sent", "validated"} => rec.outcome = "none"
  /\ rec.state = "validated" \/ rec.outcome = "approved" =>
       rec.proposal.approved /\ rec.proposal.review \in Reviews

\* A review that was open when the approval was validated, and is not approved, was
\* decided by the queue in between.
CauseOK(rec) ==
  /\ rec.state = "validated" /\ gate[rec.proposal.review].status # "needs-review" =>
       gate[rec.proposal.review].status = "approved" \/ rec.overtaken
  /\ rec.outcome = "approved" =>
       \/ gate[rec.proposal.review].status = "approved"
       \/ rec.overtaken /\ gate[rec.proposal.review].status # "needs-review"

SafeTurns == \A t \in Turns : TurnOK(turn[t]) /\ CauseOK(turn[t])

SafeGate == \A r \in Reviews :
  gate[r].by = "advisor" => gate[r].status # "needs-review" /\ <<r, gate[r].edited>> \in human

SafeThread ==
  /\ Signed(thread.proposal) /\ Signed(saved.proposal)
  /\ saved.waiting = NoTurn
  /\ Busy => thread.proposal.state # "requested" /\ turn[thread.waiting].state # "unused"

\* Until a turn fails there is one at most, the page and its copy agree between two
\* turns, questions and answers alternate, and only the last message may be too long.
AloneOK ==
  /\ \A t \in Turns : turn[t].state \in {"unused", "done"} \/ thread.waiting = t
  /\ ~Busy => thread = saved
  /\ thread.count <= MaxMessages
  /\ thread.long # 0 => ~Busy /\ thread.long = thread.count
  /\ IF Busy /\ turn[thread.waiting].kind = "question" THEN thread.count % 2 = 1 ELSE thread.count % 2 = 0

\* A card of the demo that can still be answered is not of a review that the advisor
\* has decided.
NotPosted(p) == p.review \in Reviews => gate[p.review].by # "advisor"

PendingTurn(rec) ==
  /\ rec.kind = "question" /\ rec.state = "answered" => NotPosted(rec.proposal)
  /\ rec.kind = "approval" /\ rec.state = "sent" => NotPosted(rec.proposal)
  /\ /\ rec.outcome = "refused" /\ rec.proposal.approved /\ rec.proposal.fits
     /\ rec.proposal.review \in Reviews
     => gate[rec.proposal.review].status # "needs-review" /\ NotPosted(rec.proposal)

PendingOK ==
  /\ thread.proposal.state = "requested" => NotPosted(thread.proposal)
  /\ \A t \in Turns : PendingTurn(turn[t])

UnfailedOK == ~thread.failed => AloneOK /\ (mode = "demo" => PendingOK)

AdvisorInv == AdvisorTypes /\ SafeTurns /\ SafeGate /\ SafeThread /\ UnfailedOK

\* No proposal, and an empty thread, have their types.
LEMMA AdvisorEmpty == NoProposal \in Proposal /\ NewThread \in Thread
<1>1. MaxMessages \in Nat /\ MaxSuggestions \in Nat
  BY AdvisorConstants
<1>2. NoProposal \in Proposal
  BY DEF NoProposal, Proposal
<1> QED
  BY <1>2 DEF NewThread, Thread

\* The record of turn t becomes rec, and the others stay.
PutTurn(t, rec) ==
  DOMAIN turn' = Turns /\ turn'[t] = rec /\ \A u \in Turns \ {t} : turn'[u] = turn[u]

\* The turns stay safe when one of them moves on to a safe record.
LEMMA TurnPut ==
  ASSUME AdvisorTypes, SafeTurns, NEW t \in Turns, NEW rec \in TurnRecord, PutTurn(t, rec),
         turn' = [u \in Turns |-> turn'[u]],
         UNCHANGED <<mode, gate>>, human \subseteq human', TurnOK(rec)', CauseOK(rec)
  PROVE  turn' \in [Turns -> TurnRecord] /\ SafeTurns'
<1>1. \A u \in Turns : turn'[u] = IF u = t THEN rec ELSE turn[u]
  BY DEF PutTurn
<1>2. turn' \in [Turns -> TurnRecord]
  BY <1>1 DEF AdvisorTypes
<1>3. ASSUME NEW u \in Turns PROVE TurnOK(turn[u])' /\ CauseOK(turn[u])'
  <2>1. CASE u = t
    BY <1>1, <2>1 DEF TurnOK, CauseOK, Signed
  <2>2. CASE u # t
    <3>1. TurnOK(turn[u]) /\ CauseOK(turn[u]) /\ turn'[u] = turn[u]
      BY <1>1, <2>2 DEF SafeTurns
    <3> QED
      BY <3>1 DEF TurnOK, CauseOK, Signed
  <2> QED
    BY <2>1, <2>2
<1> QED
  BY <1>2, <1>3 DEF SafeTurns

\* What the update of two or three fields of a turn comes to.
LEMMA TurnUpdates ==
  ASSUME AdvisorTypes, NEW t \in Turns, NEW a, NEW b, NEW rec, rec = turn[t]
  PROVE  /\ turn' = [turn EXCEPT ![t].state = a]
              => PutTurn(t, [rec EXCEPT !.state = a]) /\ turn' = [u \in Turns |-> turn'[u]]
         /\ turn' = [turn EXCEPT ![t].state = a, ![t].proposal = b]
              => PutTurn(t, [rec EXCEPT !.state = a, !.proposal = b]) /\ turn' = [u \in Turns |-> turn'[u]]
         /\ turn' = [turn EXCEPT ![t].state = a, ![t].outcome = b]
              => PutTurn(t, [rec EXCEPT !.state = a, !.outcome = b]) /\ turn' = [u \in Turns |-> turn'[u]]
         /\ turn' = [turn EXCEPT ![t] = a]
              => PutTurn(t, a) /\ turn' = [u \in Turns |-> turn'[u]]
<1>1. turn \in [Turns -> TurnRecord]
  BY DEF AdvisorTypes
<1>2. ASSUME turn' = [turn EXCEPT ![t].state = a]
      PROVE  PutTurn(t, [rec EXCEPT !.state = a]) /\ turn' = [u \in Turns |-> turn'[u]]
  BY <1>1, <1>2 DEF PutTurn
<1>3. ASSUME turn' = [turn EXCEPT ![t].state = a, ![t].proposal = b]
      PROVE  PutTurn(t, [rec EXCEPT !.state = a, !.proposal = b]) /\ turn' = [u \in Turns |-> turn'[u]]
  BY <1>1, <1>3 DEF PutTurn
<1>4. ASSUME turn' = [turn EXCEPT ![t].state = a, ![t].outcome = b]
      PROVE  PutTurn(t, [rec EXCEPT !.state = a, !.outcome = b]) /\ turn' = [u \in Turns |-> turn'[u]]
  BY <1>1, <1>4 DEF PutTurn
<1>5. ASSUME turn' = [turn EXCEPT ![t] = a]
      PROVE  PutTurn(t, a) /\ turn' = [u \in Turns |-> turn'[u]]
  BY <1>1, <1>5 DEF PutTurn
<1> QED
  BY <1>2, <1>3, <1>4, <1>5

\* What a human approved, and what was posted, stays so.
LEMMA GateKept ==
  ASSUME SafeGate, UNCHANGED gate, human \subseteq human'
  PROVE  SafeGate'
  BY DEF SafeGate

-----------------------------------------------------------------------------
(* The browser.                                                            *)

\* A new turn is a question without a proposal, or the answer to the card of the page.
LEMMA PostStep ==
  ASSUME AdvisorInv, NEW t \in Turns, ~Busy, turn[t].state = "unused",
         NEW kind \in {"question", "approval"}, NEW next \in Thread,
         Post(t, kind, next), next.failed = thread.failed, next.waiting = NoTurn,
         next.proposal.state # "requested",
         kind = "question" => next.proposal = NoProposal /\ next.count = thread.count + 1,
         kind = "approval" =>
           /\ thread.proposal.state = "requested" /\ next.count = thread.count
           /\ next.proposal.review = thread.proposal.review
           /\ mode = "normal" => next.proposal.signed
           /\ next.proposal.approved => <<next.proposal.review, next.proposal.suggestion>> \in human',
         UNCHANGED <<mode, gate, saved>>, human \subseteq human'
  PROVE  AdvisorInv'
<1>1. SafeGate'
  BY GateKept DEF AdvisorInv
<1>2. thread \in Thread /\ saved \in Thread /\ turn \in [Turns -> TurnRecord]
  BY DEF AdvisorInv, AdvisorTypes
<1>3. CASE TooLong(next)
  <2>1. thread' = [next EXCEPT !.failed = TRUE] /\ UNCHANGED turn
    BY <1>3 DEF Post
  <2>2. /\ thread' \in Thread /\ thread'.failed = TRUE /\ thread'.proposal = next.proposal
        /\ thread'.waiting = NoTurn
    BY <2>1 DEF Thread
  <2>3. SafeTurns'
    BY <2>1 DEF AdvisorInv, SafeTurns, TurnOK, CauseOK, Signed
  <2>4. SafeThread'
    BY <2>2 DEF AdvisorInv, SafeThread, Busy, Signed
  <2> QED
    BY <1>1, <2>1, <2>2, <2>3, <2>4 DEF AdvisorInv, AdvisorTypes, UnfailedOK
<1>4. CASE ~TooLong(next)
  <2> PICK rec : rec = [state |-> "sent", kind |-> kind, proposal |-> next.proposal,
                        outcome |-> "none", overtaken |-> FALSE]
    OBVIOUS
  <2>1. thread' = [next EXCEPT !.waiting = t] /\ turn' = [turn EXCEPT ![t] = rec]
    BY <1>4 DEF Post, NewTurn
  <2>2. /\ thread' \in Thread /\ thread'.failed = thread.failed /\ thread'.proposal = next.proposal
        /\ thread'.waiting = t /\ thread'.count = next.count /\ thread'.long = next.long
    BY <2>1 DEF Thread
  <2>3. /\ rec \in TurnRecord /\ rec.state = "sent" /\ rec.kind = kind /\ rec.outcome = "none"
        /\ rec.proposal = next.proposal
    BY DEF TurnRecord, Thread
  <2>4. PutTurn(t, rec) /\ turn' = [u \in Turns |-> turn'[u]]
    BY <2>1, TurnUpdates DEF AdvisorInv
  <2>5. TurnOK(rec)' /\ CauseOK(rec)
    <3>1. kind = "question" => Signed(next.proposal)
      BY DEF NoProposal, Signed
    <3> QED
      BY <2>3, <3>1 DEF TurnOK, CauseOK, Signed
  <2>6. turn' \in [Turns -> TurnRecord] /\ SafeTurns'
    BY <2>3, <2>4, <2>5, TurnPut DEF AdvisorInv
  <2>7. turn'[t] = rec /\ \A u \in Turns \ {t} : turn'[u] = turn[u]
    BY <2>4 DEF PutTurn
  <2>8. t # NoTurn /\ thread.waiting = NoTurn
    BY AdvisorConstants DEF Busy
  <2>9. SafeThread'
    BY <2>2, <2>3, <2>7, <2>8 DEF AdvisorInv, SafeThread, Busy, Signed
  <2>10. ASSUME ~thread.failed PROVE AloneOK'
    <3>1. AloneOK
      BY <2>10 DEF AdvisorInv, UnfailedOK
    <3>2. \A u \in Turns \ {t} : turn'[u].state \in {"unused", "done"}
      BY <2>7, <2>8, <3>1, AdvisorConstants DEF AloneOK
    <3>3. thread.count % 2 = 0 /\ thread.count \in Nat
      BY <1>2, <2>8, <3>1 DEF AloneOK, Busy, Thread
    <3>4. next.count <= MaxMessages /\ next.long = 0
      BY <1>4, AdvisorConstants DEF TooLong, Thread
    <3>5. kind = "question" => next.count % 2 = 1
      BY <3>3
    <3>6. kind = "approval" => next.count % 2 = 0
      BY <3>3
    <3> QED
      BY <2>2, <2>3, <2>7, <2>8, <3>2, <3>4, <3>5, <3>6 DEF AloneOK, Busy
  <2>11. ASSUME ~thread.failed, mode = "demo" PROVE PendingOK'
    <3>1. PendingOK
      BY <2>11 DEF AdvisorInv, UnfailedOK
    <3>2. kind = "approval" => NotPosted(next.proposal)
      BY <3>1 DEF PendingOK, NotPosted
    <3>3. PendingTurn(rec)
      BY <2>3, <3>2 DEF PendingTurn
    <3>4. \A u \in Turns : PendingTurn(turn'[u])
      BY <2>7, <3>1, <3>3 DEF PendingOK
    <3>5. thread'.proposal.state # "requested"
      BY <2>2
    <3> QED
      BY <3>4, <3>5 DEF PendingOK, PendingTurn, NotPosted
  <2> QED
    BY <1>1, <1>2, <2>2, <2>6, <2>9, <2>10, <2>11 DEF AdvisorInv, AdvisorTypes, UnfailedOK
<1> QED
  BY <1>3, <1>4

\* A question leaves the page with a thread that has no proposal.
LEMMA AskStep ==
  ASSUME AdvisorInv, NEW t \in Turns, NEW long \in BOOLEAN, Ask(t, long)
  PROVE  AdvisorInv'
<1> PICK first : first = FirstLong(thread.count + 1, long)
  OBVIOUS
<1> PICK next : next = [thread EXCEPT !.count = @ + 1, !.proposal = NoProposal, !.long = first]
  OBVIOUS
<1>1. ~Busy /\ turn[t].state = "unused" /\ Post(t, "question", next) /\ UNCHANGED <<mode, gate, saved, human>>
  BY DEF Ask
<1>2. /\ next \in Thread /\ next.failed = thread.failed /\ next.waiting = NoTurn
      /\ next.proposal = NoProposal /\ next.count = thread.count + 1
  <2>1. thread \in Thread /\ NoProposal \in Proposal /\ thread.waiting = NoTurn
    BY <1>1, AdvisorEmpty DEF AdvisorInv, AdvisorTypes, Busy
  <2>2. thread.count + 1 \in Nat /\ first \in Nat
    BY <2>1 DEF Thread, FirstLong
  <2> QED
    BY <2>1, <2>2 DEF Thread
<1>3. next.proposal.state # "requested"
  BY <1>2 DEF NoProposal
<1> QED
  BY <1>1, <1>2, <1>3, PostStep

\* The answer to the card carries what the human saw and decided.
LEMMA RespondStep ==
  ASSUME AdvisorInv, NEW t \in Turns, NEW approved \in BOOLEAN, Respond(t, approved)
  PROVE  AdvisorInv'
<1> PICK card : card = thread.proposal
  OBVIOUS
<1> PICK answer : answer = [card EXCEPT !.state = "responded", !.approved = approved]
  OBVIOUS
<1> PICK next : next = [thread EXCEPT !.proposal = answer]
  OBVIOUS
<1>1. /\ ~Busy /\ turn[t].state = "unused" /\ card.state = "requested"
      /\ Post(t, "approval", next) /\ UNCHANGED <<mode, gate, saved>>
      /\ human' = IF approved THEN human \cup {<<card.review, card.suggestion>>} ELSE human
  BY DEF Respond, Responded
<1>2. thread \in Thread /\ card \in Proposal
  BY DEF AdvisorInv, AdvisorTypes, Thread
<1>3. /\ answer \in Proposal /\ answer.state = "responded" /\ answer.approved = approved
      /\ answer.review = card.review /\ answer.suggestion = card.suggestion
      /\ answer.signed = card.signed
  BY <1>2 DEF Proposal
<1>4. /\ next \in Thread /\ next.failed = thread.failed /\ next.waiting = NoTurn
      /\ next.proposal = answer /\ next.count = thread.count
  BY <1>1, <1>2, <1>3 DEF Thread, Busy
<1>5. mode = "normal" => answer.signed
  BY <1>1, <1>3 DEF AdvisorInv, SafeThread, Signed
<1>6. answer.approved => <<answer.review, answer.suggestion>> \in human'
  BY <1>1, <1>3
<1>7. human \subseteq human'
  BY <1>1
<1> QED
  BY <1>1, <1>3, <1>4, <1>5, <1>6, <1>7, PostStep

\* The message is complete: the page shows what the turn came to, and saves it.
LEMMA ReceiveStep ==
  ASSUME AdvisorInv, NEW t \in Turns, Receive(t)
  PROVE  AdvisorInv'
<1> PICK rec : rec = turn[t]
  OBVIOUS
<1> PICK done : done = [rec EXCEPT !.state = "done"]
  OBVIOUS
<1> PICK shown : shown = IF rec.kind = "question" THEN rec.proposal
                         ELSE [thread.proposal EXCEPT !.state = rec.outcome]
  OBVIOUS
<1> PICK count : count = IF rec.kind = "question" THEN thread.count + 1 ELSE thread.count
  OBVIOUS
<1>0. /\ thread.waiting = t /\ rec.state = "answered" /\ count = Answered(t)
      /\ saved' = thread' /\ turn' = [turn EXCEPT ![t].state = "done"]
      /\ UNCHANGED <<mode, gate, human>>
  BY DEF Receive, Complete, Answered
<1> PICK long \in BOOLEAN :
      thread' = [thread EXCEPT !.waiting = NoTurn, !.count = count,
                               !.long = FirstLong(count, long), !.proposal = shown]
  BY <1>0 DEF Receive, Complete
<1> PICK first : first = FirstLong(count, long)
  OBVIOUS
<1>1. /\ thread.waiting = t /\ rec.state = "answered"
      /\ thread' = [thread EXCEPT !.waiting = NoTurn, !.count = count,
                                  !.long = first, !.proposal = shown]
      /\ saved' = thread' /\ turn' = [turn EXCEPT ![t].state = "done"]
      /\ UNCHANGED <<mode, gate, human>>
  BY <1>0
<1>2. /\ thread \in Thread /\ rec \in TurnRecord /\ rec.proposal \in Proposal /\ thread.proposal \in Proposal
      /\ TurnOK(rec) /\ CauseOK(rec)
  BY DEF AdvisorInv, AdvisorTypes, Thread, TurnRecord, SafeTurns
<1>3. /\ done \in TurnRecord /\ done.state = "done" /\ done.kind = rec.kind
      /\ done.proposal = rec.proposal /\ done.outcome = rec.outcome /\ done.overtaken = rec.overtaken
  BY <1>2 DEF TurnRecord
<1>4. shown \in Proposal /\ Signed(shown)
      /\ (shown.state = "requested" => rec.kind = "question" /\ shown = rec.proposal)
  <2>1. CASE rec.kind = "question"
    BY <1>2, <2>1 DEF TurnOK
  <2>2. CASE rec.kind # "question"
    <3>1. rec.outcome \in {"none", "approved", "refused"}
      BY <1>2 DEF TurnRecord
    <3>2. shown \in Proposal /\ shown.state = rec.outcome
      BY <1>2, <2>2, <3>1 DEF Proposal
    <3> QED
      BY <3>1, <3>2 DEF Signed
  <2> QED
    BY <2>1, <2>2
<1>5. count \in Nat /\ first \in Nat
  BY <1>2 DEF Thread, FirstLong
<1>6. /\ thread' \in Thread /\ thread'.failed = thread.failed /\ thread'.proposal = shown
      /\ thread'.waiting = NoTurn /\ thread'.count = count /\ thread'.long = first
  BY <1>1, <1>2, <1>4, <1>5 DEF Thread
<1>7. PutTurn(t, done) /\ turn' = [u \in Turns |-> turn'[u]]
  BY <1>1, TurnUpdates DEF AdvisorInv
<1>8. TurnOK(done)' /\ CauseOK(done)
  BY <1>1, <1>2, <1>3 DEF TurnOK, CauseOK, Signed
<1>9. turn' \in [Turns -> TurnRecord] /\ SafeTurns'
  BY <1>1, <1>3, <1>7, <1>8, TurnPut DEF AdvisorInv
<1>10. turn'[t] = done /\ \A u \in Turns \ {t} : turn'[u] = turn[u]
  BY <1>7 DEF PutTurn
<1>11. SafeGate' /\ SafeThread'
  BY <1>1, <1>4, <1>6, GateKept DEF AdvisorInv, SafeThread, Busy, Signed
<1>12. t # NoTurn
  BY AdvisorConstants
<1>13. ASSUME ~thread.failed PROVE AloneOK'
  <2>1. AloneOK
    BY <1>13 DEF AdvisorInv, UnfailedOK
  <2>2. \A u \in Turns : turn'[u].state \in {"unused", "done"}
    <3>1. \A u \in Turns : turn[u].state \in {"unused", "done"} \/ thread.waiting = u
      BY <2>1 DEF AloneOK
    <3>2. thread.waiting = t /\ turn'[t].state = "done"
      BY <1>0, <1>3, <1>10
    <3>3. ASSUME NEW u \in Turns, u # t PROVE turn'[u].state \in {"unused", "done"}
      <4>1. turn'[u] = turn[u] /\ u # thread.waiting
        BY <1>10, <3>2, <3>3
      <4> QED
        BY <3>1, <4>1
    <3> QED
      BY <3>2, <3>3
  <2>3. thread.count \in Nat /\ thread.count <= MaxMessages
    BY <1>2, <2>1 DEF Thread, AloneOK
  <2>6. first = 0 \/ first = count
    <3>1. thread.long = 0
      BY <1>1, <1>12, <2>1 DEF AloneOK, Busy
    <3> QED
      BY <3>1 DEF FirstLong
  <2>4. CASE rec.kind = "question"
    <3>1. thread.count % 2 = 1 /\ count = thread.count + 1
      BY <1>1, <1>12, <2>1, <2>4 DEF AloneOK, Busy
    <3>2. thread.count # MaxMessages
      BY <3>1, AdvisorConstants
    <3>3. count <= MaxMessages
      BY <2>3, <3>1, <3>2, AdvisorConstants
    <3>4. count % 2 = 0
      BY <2>3, <3>1
    <3> QED
      BY <1>1, <1>6, <2>2, <2>6, <3>3, <3>4 DEF AloneOK, Busy
  <2>5. CASE rec.kind # "question"
    <3>1. thread.count % 2 = 0 /\ count = thread.count
      BY <1>1, <1>12, <2>1, <2>5 DEF AloneOK, Busy
    <3> QED
      BY <1>1, <1>6, <2>2, <2>3, <2>6, <3>1 DEF AloneOK, Busy
  <2> QED
    BY <2>4, <2>5
<1>14. ASSUME ~thread.failed, mode = "demo" PROVE PendingOK'
  <2>1. PendingOK
    BY <1>14 DEF AdvisorInv, UnfailedOK
  <2>2. shown.state = "requested" => NotPosted(shown)
    BY <1>1, <1>4, <2>1 DEF PendingOK, PendingTurn
  <2>3. PendingTurn(rec)
    BY <2>1 DEF PendingOK
  <2>4. PendingTurn(done)
    BY <1>3, <2>3 DEF PendingTurn
  <2>5. \A u \in Turns : PendingTurn(turn'[u])
    BY <1>10, <2>1, <2>4 DEF PendingOK
  <2> QED
    BY <1>1, <1>6, <2>2, <2>5 DEF PendingOK, PendingTurn, NotPosted
<1> QED
  BY <1>1, <1>6, <1>9, <1>11, <1>13, <1>14 DEF AdvisorInv, AdvisorTypes, UnfailedOK

\* A turn that fails, and a page that is loaded again while it waits or has another
\* thread than its copy, count as failed from then on.
LEMMA FailedStep ==
  ASSUME AdvisorInv, thread' \in Thread, thread'.failed, Signed(thread'.proposal),
         thread'.waiting = NoTurn, UNCHANGED <<mode, gate, saved, turn, human>>
  PROVE  AdvisorInv'
<1>1. SafeGate'
  BY GateKept DEF AdvisorInv
<1>2. SafeTurns'
  BY DEF AdvisorInv, SafeTurns, TurnOK, CauseOK, Signed
<1>3. SafeThread'
  BY DEF AdvisorInv, SafeThread, Signed, Busy
<1> QED
  BY <1>1, <1>2, <1>3 DEF AdvisorInv, AdvisorTypes, UnfailedOK

\* A turn that fails leaves its thread waiting for nobody.
LEMMA FailStep ==
  ASSUME AdvisorInv, NEW t \in Turns, Fail(t)
  PROVE  AdvisorInv'
<1>1. thread' = [thread EXCEPT !.waiting = NoTurn, !.failed = TRUE] /\ UNCHANGED <<mode, gate, saved, turn, human>>
  BY DEF Fail
<1>2. /\ thread' \in Thread /\ thread'.failed /\ thread'.waiting = NoTurn
      /\ thread'.proposal = thread.proposal
  BY <1>1 DEF AdvisorInv, AdvisorTypes, Thread
<1>3. Signed(thread'.proposal)
  BY <1>2 DEF AdvisorInv, SafeThread
<1> QED
  BY <1>1, <1>2, <1>3, FailedStep

\* A page that reloads comes back with the thread that was saved.
LEMMA ReloadPageStep ==
  ASSUME AdvisorInv, ReloadPage
  PROVE  AdvisorInv'
<1> PICK failed \in BOOLEAN : failed = (thread.failed \/ Busy)
  OBVIOUS
<1>1. /\ thread' = [saved EXCEPT !.failed = failed] /\ thread' # thread
      /\ UNCHANGED <<mode, gate, saved, turn, human>>
  BY DEF ReloadPage
<1>2. /\ thread \in Thread /\ saved \in Thread
  BY DEF AdvisorInv, AdvisorTypes
<1>3. /\ thread' \in Thread /\ thread'.failed = failed /\ thread'.waiting = saved.waiting
      /\ thread'.proposal = saved.proposal
  BY <1>1, <1>2 DEF Thread
<1>4. failed
  <2> SUFFICES ASSUME ~failed PROVE FALSE
    OBVIOUS
  <2>1. ~thread.failed /\ ~Busy /\ thread = saved
    BY DEF AdvisorInv, UnfailedOK, AloneOK
  <2>2. failed = thread.failed
    BY <1>2, <2>1 DEF Thread
  <2> QED
    BY <1>1, <1>2, <2>1, <2>2 DEF Thread
<1>5. Signed(thread'.proposal) /\ thread'.waiting = NoTurn
  BY <1>3 DEF AdvisorInv, SafeThread
<1> QED
  BY <1>1, <1>3, <1>4, <1>5, FailedStep

-----------------------------------------------------------------------------
(* The server.                                                             *)

\* A step of the server within a turn that is under way: the ledger and the page stay.
LEMMA ServerTurn ==
  ASSUME AdvisorInv, NEW t \in Turns, NEW rec \in TurnRecord, PutTurn(t, rec),
         turn' = [u \in Turns |-> turn'[u]], UNCHANGED <<mode, gate, thread, saved, human>>,
         turn[t].state \in {"sent", "validated"}, rec.kind = turn[t].kind, rec.state # "unused",
         TurnOK(rec), CauseOK(rec), mode = "demo" /\ ~thread.failed => PendingTurn(rec)
  PROVE  AdvisorInv'
<1>1. SafeGate'
  BY GateKept DEF AdvisorInv
<1>2. TurnOK(rec)'
  BY DEF TurnOK, Signed
<1>3. turn' \in [Turns -> TurnRecord] /\ SafeTurns'
  BY <1>2, TurnPut DEF AdvisorInv
<1>4. turn'[t] = rec /\ \A u \in Turns \ {t} : turn'[u] = turn[u]
  BY DEF PutTurn
<1>5. Busy => thread.waiting \in Turns
  BY DEF AdvisorInv, AdvisorTypes, Thread, Busy
<1>6. SafeThread'
  BY <1>4, <1>5 DEF AdvisorInv, SafeThread, Signed, Busy
<1>7. ASSUME ~thread.failed PROVE AloneOK'
  <2>1. AloneOK
    BY <1>7 DEF AdvisorInv, UnfailedOK
  <2>2. thread.waiting = t
    BY <2>1 DEF AloneOK
  <2>3. \A u \in Turns : turn'[u].state \in {"unused", "done"} \/ thread.waiting = u
    BY <1>4, <2>1, <2>2 DEF AloneOK
  <2>4. turn'[thread.waiting].kind = turn[thread.waiting].kind
    BY <1>4, <2>2
  <2> QED
    BY <2>1, <2>3, <2>4 DEF AloneOK, Busy
<1>8. ASSUME ~thread.failed, mode = "demo" PROVE PendingOK'
  <2>1. PendingOK
    BY <1>8 DEF AdvisorInv, UnfailedOK
  <2>2. \A u \in Turns : PendingTurn(turn'[u])
    BY <1>4, <1>8, <2>1 DEF PendingOK
  <2> QED
    BY <2>1, <2>2 DEF PendingOK, PendingTurn, NotPosted
<1> QED
  BY <1>1, <1>3, <1>6, <1>7, <1>8 DEF AdvisorInv, AdvisorTypes, UnfailedOK

\* The server answers a turn with text, a proposal or the outcome of one.
LEMMA AnswerStep ==
  ASSUME AdvisorInv, NEW t \in Turns, AnswerQuestion(t)
  PROVE  AdvisorInv'
<1> PICK rec : rec = turn[t]
  OBVIOUS
<1>1. /\ rec \in TurnRecord /\ TurnOK(rec) /\ CauseOK(rec) /\ rec.state = "sent" /\ rec.kind = "question"
      /\ rec.outcome = "none" /\ UNCHANGED <<mode, gate, thread, saved, human>>
  BY DEF AnswerQuestion, AdvisorInv, AdvisorTypes, SafeTurns, TurnOK
<1>2. ASSUME NEW p \in Proposals \cup {NoProposal}, turn' = [turn EXCEPT ![t].state = "answered", ![t].proposal = p]
      PROVE  AdvisorInv'
  <2> PICK next : next = [rec EXCEPT !.state = "answered", !.proposal = p]
    OBVIOUS
  <2>1. p \in Proposal /\ Signed(p) /\ (mode = "demo" => NotPosted(p))
    <3>1. CASE p = NoProposal
      BY <3>1, AdvisorEmpty, AdvisorConstants DEF NoProposal, Signed, NotPosted
    <3>2. CASE p \in Proposals
      <4>1. p \in Proposal
        <5> PICK signed \in BOOLEAN : signed = (mode = "normal")
          OBVIOUS
        <5>1. p \in [state : {"requested"}, review : Reviews \cup {NoReview}, suggestion : 1..MaxSuggestions,
                     fits : BOOLEAN, signed : {signed}, approved : {FALSE}]
          BY <3>2 DEF Proposals
        <5>2. 1..MaxSuggestions \subseteq Nat
          BY AdvisorConstants
        <5> QED
          BY <5>1, <5>2 DEF Proposal
      <4>2. Signed(p)
        BY <3>2 DEF Proposals, Signed
      <4>3. mode = "demo" => p.review \in Reviews /\ gate[p.review].status = "needs-review"
        BY <3>2 DEF Proposals
      <4> QED
        BY <4>1, <4>2, <4>3 DEF NotPosted, AdvisorInv, SafeGate
    <3> QED
      BY <3>1, <3>2
  <2>2. /\ next \in TurnRecord /\ next.state = "answered" /\ next.kind = "question" /\ next.proposal = p
        /\ next.outcome = "none"
    BY <1>1, <2>1 DEF TurnRecord
  <2>3. PutTurn(t, next) /\ turn' = [u \in Turns |-> turn'[u]]
    BY <1>2, TurnUpdates DEF AdvisorInv
  <2>4. TurnOK(next) /\ CauseOK(next)
    BY <2>1, <2>2 DEF TurnOK, CauseOK
  <2>5. mode = "demo" => PendingTurn(next)
    BY <2>1, <2>2 DEF PendingTurn
  <2> QED
    BY <1>1, <2>2, <2>3, <2>4, <2>5, ServerTurn
<1>3. ASSUME turn' = [turn EXCEPT ![t].state = "failed"] PROVE AdvisorInv'
  <2> PICK next : next = [rec EXCEPT !.state = "failed"]
    OBVIOUS
  <2>1. /\ next \in TurnRecord /\ next.state = "failed" /\ next.kind = "question"
        /\ next.proposal = rec.proposal /\ next.outcome = "none"
    BY <1>1 DEF TurnRecord
  <2>2. PutTurn(t, next) /\ turn' = [u \in Turns |-> turn'[u]]
    BY <1>3, TurnUpdates DEF AdvisorInv
  <2>3. TurnOK(next) /\ CauseOK(next) /\ PendingTurn(next)
    BY <1>1, <2>1 DEF TurnOK, CauseOK, PendingTurn
  <2> QED
    BY <1>1, <2>1, <2>2, <2>3, ServerTurn
<1> QED
  BY <1>2, <1>3 DEF AnswerQuestion

\* The history is checked, and an approval that stands waits for the ledger.
LEMMA ValidateStep ==
  ASSUME AdvisorInv, NEW t \in Turns, ValidateApproval(t)
  PROVE  AdvisorInv'
<1> PICK rec : rec = turn[t]
  OBVIOUS
<1> PICK p : p = rec.proposal
  OBVIOUS
<1>1. /\ rec \in TurnRecord /\ TurnOK(rec) /\ CauseOK(rec) /\ rec.state = "sent" /\ rec.kind = "approval"
      /\ rec.outcome = "none" /\ UNCHANGED <<mode, gate, thread, saved, human>>
  BY DEF ValidateApproval, AdvisorInv, AdvisorTypes, SafeTurns, TurnOK
<1>2. mode = "normal" => p.signed
  BY <1>1 DEF TurnOK
<1>3. \/ /\ p.approved /\ Stands(p) /\ turn' = [turn EXCEPT ![t].state = "validated"]
      \/ /\ ~(p.approved /\ Stands(p))
         /\ turn' = [turn EXCEPT ![t].state = "answered", ![t].outcome = "refused"]
  BY <1>2 DEF ValidateApproval
<1>4. CASE p.approved /\ Stands(p) /\ turn' = [turn EXCEPT ![t].state = "validated"]
  <2> PICK next : next = [rec EXCEPT !.state = "validated"]
    OBVIOUS
  <2>1. /\ next \in TurnRecord /\ next.state = "validated" /\ next.kind = "approval"
        /\ next.proposal = p /\ next.outcome = "none"
    BY <1>1 DEF TurnRecord
  <2>2. PutTurn(t, next) /\ turn' = [u \in Turns |-> turn'[u]]
    BY <1>4, TurnUpdates DEF AdvisorInv
  <2>3. TurnOK(next) /\ CauseOK(next) /\ PendingTurn(next)
    BY <1>1, <1>4, <2>1 DEF TurnOK, CauseOK, PendingTurn, Stands
  <2> QED
    BY <1>1, <2>1, <2>2, <2>3, ServerTurn
<1>5. CASE ~(p.approved /\ Stands(p)) /\ turn' = [turn EXCEPT ![t].state = "answered", ![t].outcome = "refused"]
  <2> PICK next : next = [rec EXCEPT !.state = "answered", !.outcome = "refused"]
    OBVIOUS
  <2>1. /\ next \in TurnRecord /\ next.state = "answered" /\ next.kind = "approval"
        /\ next.proposal = p /\ next.outcome = "refused"
    BY <1>1 DEF TurnRecord
  <2>2. PutTurn(t, next) /\ turn' = [u \in Turns |-> turn'[u]]
    BY <1>5, TurnUpdates DEF AdvisorInv
  <2>3. TurnOK(next) /\ CauseOK(next)
    BY <1>1, <2>1 DEF TurnOK, CauseOK
  <2>4. mode = "demo" /\ ~thread.failed => PendingTurn(next)
    <3> SUFFICES ASSUME mode = "demo", ~thread.failed PROVE PendingTurn(next)
      OBVIOUS
    <3>1. NotPosted(p)
      BY <1>1 DEF AdvisorInv, UnfailedOK, PendingOK, PendingTurn
    <3>2. p.approved /\ p.fits /\ p.review \in Reviews => gate[p.review].status # "needs-review"
      BY <1>5 DEF Stands
    <3> QED
      BY <2>1, <3>1, <3>2 DEF PendingTurn
  <2> QED
    BY <1>1, <2>1, <2>2, <2>3, <2>4, ServerTurn
<1> QED
  BY <1>3, <1>4, <1>5

\* One review of the gate changes.
LEMMA GatePut ==
  ASSUME AdvisorTypes, NEW r \in Reviews, NEW rec \in GateRecord, gate' = [gate EXCEPT ![r] = rec]
  PROVE  gate' \in [Reviews -> GateRecord] /\ gate'[r] = rec /\ \A q \in Reviews \ {r} : gate'[q] = gate[q]
  BY DEF AdvisorTypes

\* A server step within a turn leaves the page as it is.
LEMMA ThreadKept ==
  ASSUME AdvisorTypes, SafeThread, UNCHANGED <<mode, thread, saved>>,
         \A u \in Turns : turn[u].state # "unused" => turn'[u].state # "unused"
  PROVE  SafeThread'
<1>1. Busy => thread.waiting \in Turns
  BY DEF AdvisorTypes, Thread, Busy
<1> QED
  BY <1>1 DEF SafeThread, Signed, Busy

\* The gate executes an approval once: the review is decided with what the human saw.
LEMMA ApplyOpen ==
  ASSUME AdvisorInv, NEW t \in Turns, NEW rec \in TurnRecord, rec = turn[t],
         rec.state = "validated", TurnOK(rec), NEW p, p = rec.proposal,
         gate[p.review].status = "needs-review", NEW decided \in GateRecord, decided.status = "approved",
         decided.by = "advisor", decided.edited = p.suggestion, gate' = [gate EXCEPT ![p.review] = decided],
         turn' = [turn EXCEPT ![t].state = "answered", ![t].outcome = "approved"],
         UNCHANGED <<mode, thread, saved, human>>
  PROVE  AdvisorInv'
<1> PICK r : r = p.review
  OBVIOUS
<1> PICK next : next = [rec EXCEPT !.state = "answered", !.outcome = "approved"]
  OBVIOUS
<1>1. /\ rec.kind = "approval" /\ p.approved /\ r \in Reviews /\ <<r, p.suggestion>> \in human
      /\ p \in Proposal
  BY DEF TurnOK, TurnRecord
<1>4. decided.status = "approved" /\ decided.by = "advisor" /\ decided.edited = p.suggestion
  OBVIOUS
<1>5. gate' = [gate EXCEPT ![r] = decided]
  OBVIOUS
<1>6. gate' \in [Reviews -> GateRecord] /\ gate'[r] = decided /\ \A q \in Reviews \ {r} : gate'[q] = gate[q]
  BY <1>1, <1>4, <1>5, GatePut DEF AdvisorInv
<1>7. /\ next \in TurnRecord /\ next.state = "answered" /\ next.kind = "approval" /\ next.proposal = p
      /\ next.outcome = "approved"
  BY <1>1 DEF TurnRecord
<1>8. PutTurn(t, next) /\ turn' = [u \in Turns |-> turn'[u]]
  BY TurnUpdates DEF AdvisorInv
<1>9. turn'[t] = next /\ \A u \in Turns \ {t} : turn'[u] = turn[u]
  BY <1>8 DEF PutTurn
<1>10. turn' \in [Turns -> TurnRecord]
  BY <1>7, <1>8, <1>9 DEF AdvisorInv, AdvisorTypes
<1>11. SafeGate'
  BY <1>1, <1>4, <1>6 DEF AdvisorInv, SafeGate
<1>12. SafeTurns'
  <2>1. TurnOK(next)' /\ CauseOK(next)'
    BY <1>1, <1>4, <1>6, <1>7 DEF TurnOK, CauseOK
  <2>2. ASSUME NEW u \in Turns \ {t} PROVE TurnOK(turn[u])' /\ CauseOK(turn[u])'
    <3> PICK other : other = turn[u]
      OBVIOUS
    <3>1. TurnOK(other) /\ CauseOK(other) /\ turn'[u] = other
      BY <1>9 DEF AdvisorInv, SafeTurns
    <3>2. TurnOK(other)'
      BY <3>1 DEF TurnOK, Signed
    <3>3. CauseOK(other)'
      BY <1>4, <1>6, <3>1 DEF TurnOK, CauseOK
    <3> QED
      BY <3>1, <3>2, <3>3 DEF TurnOK, CauseOK, Signed
  <2>3. TurnOK(turn[t])' /\ CauseOK(turn[t])'
    BY <1>9, <2>1 DEF TurnOK, CauseOK, Signed
  <2> QED
    BY <2>2, <2>3 DEF SafeTurns
<1>13. \A u \in Turns : turn[u].state # "unused" => turn'[u].state # "unused"
  <2>1. turn'[t].state = "answered"
    BY <1>7, <1>9
  <2>2. ASSUME NEW u \in Turns \ {t} PROVE turn'[u].state = turn[u].state
    BY <1>9
  <2> QED
    BY <2>1, <2>2
<1>14. SafeThread'
  BY <1>13, ThreadKept DEF AdvisorInv
<1>15. ASSUME ~thread.failed PROVE AloneOK /\ AloneOK' /\ thread.waiting = t
  <2>1. AloneOK
    BY <1>15 DEF AdvisorInv, UnfailedOK
  <2>2. thread.waiting = t
    BY <2>1 DEF AloneOK
  <2>3. \A u \in Turns : turn'[u].state \in {"unused", "done"} \/ thread.waiting = u
    BY <1>9, <2>1, <2>2 DEF AloneOK
  <2>4. turn'[thread.waiting].kind = turn[thread.waiting].kind
    BY <1>1, <1>7, <1>9, <2>2
  <2> QED
    BY <2>1, <2>2, <2>3, <2>4 DEF AloneOK, Busy
<1>16. ASSUME ~thread.failed, mode = "demo" PROVE PendingOK'
  <2>1. PendingOK
    BY <1>16 DEF AdvisorInv, UnfailedOK
  <2>2. thread.proposal.state # "requested"
    BY <1>15, <1>16, AdvisorConstants DEF AdvisorInv, SafeThread, Busy
  <2>3. ASSUME NEW u \in Turns PROVE PendingTurn(turn[u])'
    <3>1. CASE u = t
      BY <1>7, <1>9, <3>1 DEF PendingTurn
    <3>2. CASE u # t
      <4> PICK other : other = turn[u]
        OBVIOUS
      <4>1. turn'[u] = other /\ other.state \in {"unused", "done"} /\ PendingTurn(other)
        BY <1>9, <1>15, <1>16, <2>1, <3>2 DEF AloneOK, PendingOK
      <4> QED
        BY <1>6, <4>1 DEF PendingTurn, NotPosted
    <3> QED
      BY <3>1, <3>2
  <2> QED
    BY <2>2, <2>3 DEF PendingOK
<1> QED
  BY <1>6, <1>10, <1>11, <1>12, <1>14, <1>15, <1>16 DEF AdvisorInv, AdvisorTypes, UnfailedOK

\* What is applied to the ledger is what the card showed, and only once.
LEMMA ApplyStep ==
  ASSUME AdvisorInv, NEW t \in Turns, ApplyApproval(t)
  PROVE  AdvisorInv'
<1> PICK rec : rec = turn[t]
  OBVIOUS
<1> PICK p : p = rec.proposal
  OBVIOUS
<1>1. rec \in TurnRecord /\ TurnOK(rec) /\ CauseOK(rec) /\ rec.state = "validated"
  BY DEF ApplyApproval, AdvisorInv, AdvisorTypes, SafeTurns
<1>2. /\ rec.kind = "approval" /\ rec.outcome = "none" /\ p.approved /\ p.review \in Reviews
      /\ <<p.review, p.suggestion>> \in human
      /\ mode = "normal" => p.signed
  BY <1>1 DEF TurnOK, TurnRecord
<1>3. UNCHANGED <<mode, thread, saved, human>>
  BY DEF ApplyApproval
<1>4. ASSUME NEW outcome \in {"approved", "refused"}, UNCHANGED gate,
             turn' = [turn EXCEPT ![t].state = "answered", ![t].outcome = outcome],
             outcome = "approved" => gate[p.review].status # "needs-review",
             outcome = "refused" => mode = "normal"
      PROVE  AdvisorInv'
  <2> PICK next : next = [rec EXCEPT !.state = "answered", !.outcome = outcome]
    OBVIOUS
  <2>1. /\ next \in TurnRecord /\ next.state = "answered" /\ next.kind = "approval" /\ next.proposal = p
        /\ next.outcome = outcome /\ next.overtaken = rec.overtaken
    BY <1>1, <1>2 DEF TurnRecord
  <2>2. PutTurn(t, next) /\ turn' = [u \in Turns |-> turn'[u]]
    BY <1>4, TurnUpdates DEF AdvisorInv
  <2>3. TurnOK(next)
    BY <1>2, <2>1 DEF TurnOK
  <2>4. CauseOK(next)
    BY <1>1, <1>4, <2>1 DEF CauseOK
  <2>5. mode = "demo" => PendingTurn(next)
    BY <1>4, <2>1 DEF PendingTurn
  <2> QED
    BY <1>1, <1>2, <1>3, <1>4, <2>1, <2>2, <2>3, <2>4, <2>5, ServerTurn
<1>5. CASE /\ gate[p.review].status = "needs-review"
           /\ gate' = [gate EXCEPT ![p.review] =
                [@ EXCEPT !.status = "approved", !.by = "advisor", !.edited = p.suggestion]]
           /\ turn' = [turn EXCEPT ![t].state = "answered", ![t].outcome = "approved"]
  <2>1. /\ gate[p.review].status = "needs-review"
        /\ turn' = [turn EXCEPT ![t].state = "answered", ![t].outcome = "approved"]
    BY <1>5
  <2>2. PICK decided \in GateRecord :
          /\ decided.status = "approved" /\ decided.by = "advisor" /\ decided.edited = p.suggestion
          /\ gate' = [gate EXCEPT ![p.review] = decided]
    <3> PICK open : open = gate[p.review]
      OBVIOUS
    <3> PICK decided : decided = [open EXCEPT !.status = "approved", !.by = "advisor", !.edited = p.suggestion]
      OBVIOUS
    <3>1. gate' = [gate EXCEPT ![p.review] = decided]
      BY <1>5
    <3>2. open \in GateRecord /\ p.suggestion \in Nat
      BY <1>1, <1>2 DEF AdvisorInv, AdvisorTypes, TurnRecord, Proposal
    <3>3. decided \in GateRecord /\ decided.status = "approved"
          /\ decided.by = "advisor" /\ decided.edited = p.suggestion
      BY <3>2 DEF GateRecord
    <3> QED
      BY <3>1, <3>3
  <2> QED
    BY <1>1, <1>3, <2>1, <2>2, ApplyOpen
<1>6. CASE /\ gate[p.review].status # "needs-review"
           /\ turn' = [turn EXCEPT ![t].state = "answered", ![t].outcome = "approved"]
           /\ UNCHANGED gate
  BY <1>4, <1>6
<1>7. CASE /\ mode = "normal"
           /\ turn' = [turn EXCEPT ![t].state = "answered", ![t].outcome = "refused"]
           /\ UNCHANGED gate
  BY <1>4, <1>7
<1> QED
  BY <1>5, <1>6, <1>7 DEF ApplyApproval, Edited

-----------------------------------------------------------------------------
(* The others.                                                             *)

\* A decision of the queue marks the approvals that it overtakes.
LEMMA DecideStep ==
  ASSUME AdvisorInv, NEW r \in Reviews, NEW status \in {"approved", "rejected"}, Decide(r, status)
  PROVE  AdvisorInv'
<1> PICK decided : decided = [gate[r] EXCEPT !.status = status, !.by = "queue"]
  OBVIOUS
<1>1. /\ gate[r].status = "needs-review" /\ gate' = [gate EXCEPT ![r] = decided]
      /\ UNCHANGED <<mode, thread, saved, human>>
  BY DEF Decide, AdvisorInv, AdvisorTypes
<1>2. gate \in [Reviews -> GateRecord] /\ gate[r] \in GateRecord /\ turn \in [Turns -> TurnRecord]
  BY DEF AdvisorInv, AdvisorTypes
<1>3. decided \in GateRecord /\ decided.status = status /\ decided.by = "queue"
  BY <1>2 DEF GateRecord
<1>4. gate' \in [Reviews -> GateRecord] /\ gate'[r] = decided /\ \A q \in Reviews \ {r} : gate'[q] = gate[q]
  BY <1>1, <1>3, GatePut DEF AdvisorInv
<1>5. ASSUME NEW u \in Turns
      PROVE  /\ turn'[u] \in TurnRecord /\ turn'[u].state = turn[u].state /\ turn'[u].kind = turn[u].kind
             /\ turn'[u].proposal = turn[u].proposal /\ turn'[u].outcome = turn[u].outcome
             /\ turn[u].overtaken => turn'[u].overtaken
             /\ turn[u].state = "validated" /\ turn[u].proposal.review = r => turn'[u].overtaken
  <2> PICK other : other = turn[u]
    OBVIOUS
  <2> PICK overtaken \in BOOLEAN :
        overtaken = (other.overtaken \/ (other.state = "validated" /\ other.proposal.review = r))
    BY <1>2 DEF TurnRecord
  <2>1. other \in TurnRecord
    BY <1>2
  <2>2. turn'[u] = [other EXCEPT !.overtaken = overtaken]
    BY DEF Decide
  <2>3. /\ turn'[u] \in TurnRecord /\ turn'[u].state = other.state /\ turn'[u].kind = other.kind
        /\ turn'[u].proposal = other.proposal /\ turn'[u].outcome = other.outcome
        /\ turn'[u].overtaken = overtaken
    BY <2>1, <2>2 DEF TurnRecord
  <2> QED
    BY <2>3
<1>6. turn' \in [Turns -> TurnRecord]
  BY <1>5 DEF Decide
<1>7. SafeGate'
  BY <1>1, <1>3, <1>4 DEF AdvisorInv, SafeGate
<1>8. ASSUME NEW u \in Turns PROVE TurnOK(turn[u])' /\ CauseOK(turn[u])'
  <2>1. TurnOK(turn[u]) /\ CauseOK(turn[u])
    BY DEF AdvisorInv, SafeTurns
  <2>2. TurnOK(turn[u])'
    BY <1>1, <1>5, <2>1 DEF TurnOK, Signed
  <2>3. CASE turn[u].proposal.review = r
    BY <1>1, <1>3, <1>4, <1>5, <2>1, <2>2, <2>3 DEF CauseOK
  <2>4. CASE turn[u].proposal.review # r
    <3>1. turn[u].state = "validated" \/ turn[u].outcome = "approved" =>
            gate'[turn[u].proposal.review] = gate[turn[u].proposal.review]
      BY <1>4, <2>1, <2>4 DEF TurnOK
    <3> QED
      BY <1>5, <2>1, <2>2, <3>1 DEF CauseOK
  <2> QED
    BY <2>2, <2>3, <2>4
<1>9. Busy => thread.waiting \in Turns
  BY DEF AdvisorInv, AdvisorTypes, Thread, Busy
<1>10. SafeThread'
  BY <1>1, <1>5, <1>9 DEF AdvisorInv, SafeThread, Signed, Busy
<1>11. ASSUME ~thread.failed PROVE AloneOK'
  BY <1>1, <1>5, <1>9, <1>11 DEF AdvisorInv, UnfailedOK, AloneOK, Busy
<1>12. ASSUME ~thread.failed, mode = "demo" PROVE PendingOK'
  <2>1. PendingOK
    BY <1>12 DEF AdvisorInv, UnfailedOK
  <2>2. ASSUME NEW p, NotPosted(p) PROVE NotPosted(p)'
    BY <1>3, <1>4, <2>2 DEF NotPosted
  <2>3. ASSUME NEW u \in Turns PROVE PendingTurn(turn[u])'
    <3> PICK p : p = turn[u].proposal
      OBVIOUS
    <3>1. PendingTurn(turn[u])
      BY <2>1 DEF PendingOK
    <3>2. p.review \in Reviews /\ gate[p.review].status # "needs-review" => gate'[p.review].status # "needs-review"
      BY <1>1, <1>4
    <3>3. NotPosted(p) => (p.review \in Reviews => gate'[p.review].by # "advisor")
      BY <2>2 DEF NotPosted
    <3> QED
      BY <1>5, <3>1, <3>2, <3>3 DEF PendingTurn, NotPosted
  <2> QED
    BY <1>1, <2>1, <2>2, <2>3 DEF PendingOK, NotPosted
<1>13. SafeTurns'
  BY <1>8 DEF SafeTurns
<1> QED
  BY <1>1, <1>4, <1>6, <1>7, <1>10, <1>11, <1>12, <1>13 DEF AdvisorInv, AdvisorTypes, UnfailedOK

\* A regenerated suggestion changes nothing that was decided or shown.
LEMMA RefreshStep ==
  ASSUME AdvisorInv, NEW r \in Reviews, RefreshSuggestion(r)
  PROVE  AdvisorInv'
<1> PICK fresh : fresh = [gate[r] EXCEPT !.suggestion = @ + 1]
  OBVIOUS
<1>1. gate' = [gate EXCEPT ![r] = fresh] /\ UNCHANGED <<mode, thread, saved, turn, human>>
  BY DEF RefreshSuggestion, AdvisorInv, AdvisorTypes
<1>2. gate \in [Reviews -> GateRecord] /\ gate[r] \in GateRecord
  BY DEF AdvisorInv, AdvisorTypes
<1>3. fresh \in GateRecord /\ fresh.status = gate[r].status /\ fresh.by = gate[r].by
      /\ fresh.edited = gate[r].edited
  <2>1. gate[r].suggestion + 1 \in Nat
    BY <1>2 DEF GateRecord
  <2> QED
    BY <1>2, <2>1 DEF GateRecord
<1>4. /\ gate' \in [Reviews -> GateRecord]
      /\ \A q \in Reviews : gate'[q].status = gate[q].status /\ gate'[q].by = gate[q].by /\ gate'[q].edited = gate[q].edited
  BY <1>1, <1>2, <1>3
<1>5. SafeGate'
  BY <1>1, <1>4 DEF AdvisorInv, SafeGate
<1>6. SafeTurns'
  <2>1. ASSUME NEW u \in Turns PROVE TurnOK(turn[u])' /\ CauseOK(turn[u])'
    <3>1. TurnOK(turn[u]) /\ CauseOK(turn[u]) /\ turn' = turn
      BY <1>1 DEF AdvisorInv, SafeTurns
    <3> QED
      BY <1>1, <1>4, <3>1 DEF TurnOK, CauseOK, Signed
  <2> QED
    BY <2>1 DEF SafeTurns
<1>7. SafeThread'
  BY <1>1 DEF AdvisorInv, SafeThread, Signed, Busy
<1>8. ~thread.failed => AloneOK'
  BY <1>1 DEF AdvisorInv, UnfailedOK, AloneOK, Busy
<1>9. ASSUME ~thread.failed, mode = "demo" PROVE PendingOK'
  <2>1. PendingOK
    BY <1>9 DEF AdvisorInv, UnfailedOK
  <2> QED
    BY <1>1, <1>4, <2>1 DEF PendingOK, PendingTurn, NotPosted
<1> QED
  BY <1>1, <1>4, <1>5, <1>6, <1>7, <1>8, <1>9 DEF AdvisorInv, AdvisorTypes, UnfailedOK

\* A new page, no turn and an untouched gate satisfy the invariant.
LEMMA AdvisorStart == AdvisorInit => AdvisorInv
<1> SUFFICES ASSUME AdvisorInit PROVE AdvisorInv
  OBVIOUS
<1>1. NoProposal \in Proposal /\ NewThread \in Thread
  BY AdvisorEmpty
<1>2. AdvisorTypes
  <2>1. gate \in [Reviews -> GateRecord]
    BY DEF AdvisorInit, GateRecord
  <2>2. turn \in [Turns -> TurnRecord]
    BY <1>1 DEF AdvisorInit, TurnRecord
  <2> QED
    BY <1>1, <2>1, <2>2 DEF AdvisorInit, AdvisorTypes
<1>3. \A t \in Turns : /\ turn[t].state = "unused" /\ turn[t].kind = "question" /\ turn[t].outcome = "none"
                       /\ turn[t].proposal = NoProposal
  BY DEF AdvisorInit
<1>4. /\ NoProposal.state = "none" /\ NoProposal.review = NoReview
      /\ thread = NewThread /\ saved = NewThread /\ NewThread.proposal = NoProposal
      /\ NewThread.waiting = NoTurn /\ NewThread.count = 0 /\ NewThread.long = 0
  BY DEF AdvisorInit, NewThread, NoProposal
<1>5. SafeTurns
  BY <1>3, <1>4 DEF SafeTurns, TurnOK, CauseOK, Signed
<1>6. SafeGate
  BY DEF AdvisorInit, SafeGate
<1>7. SafeThread
  BY <1>4 DEF SafeThread, Signed, Busy
<1>8. AloneOK
  BY <1>3, <1>4, AdvisorConstants DEF AloneOK, Busy
<1>9. PendingOK
  BY <1>3, <1>4 DEF PendingOK, PendingTurn
<1> QED
  BY <1>2, <1>5, <1>6, <1>7, <1>8, <1>9 DEF AdvisorInv, UnfailedOK

\* Every step of the page, the server and other people keeps the invariant.
LEMMA AdvisorStep == AdvisorInv /\ [AdvisorNext]_advisorVars => AdvisorInv'
<1> SUFFICES ASSUME AdvisorInv, [AdvisorNext]_advisorVars PROVE AdvisorInv'
  OBVIOUS
<1>1. ASSUME NEW t \in Turns, NEW long \in BOOLEAN, Ask(t, long) PROVE AdvisorInv'
  BY <1>1, AskStep
<1>2. ASSUME NEW t \in Turns, NEW approved \in BOOLEAN, Respond(t, approved) PROVE AdvisorInv'
  BY <1>2, RespondStep
<1>3. ASSUME NEW t \in Turns, Receive(t) PROVE AdvisorInv'
  BY <1>3, ReceiveStep
<1>4. ASSUME NEW t \in Turns, ReceiveError(t) \/ LoseAnswer(t) PROVE AdvisorInv'
  BY <1>4, FailStep DEF ReceiveError, LoseAnswer
<1>5. ASSUME NEW t \in Turns, ServerStep(t) PROVE AdvisorInv'
  BY <1>5, AnswerStep, ValidateStep, ApplyStep DEF ServerStep
<1>6. CASE ReloadPage
  BY <1>6, ReloadPageStep
<1>7. ASSUME NEW r \in Reviews, NEW status \in {"approved", "rejected"}, Decide(r, status) PROVE AdvisorInv'
  BY <1>7, DecideStep
<1>8. ASSUME NEW r \in Reviews, RefreshSuggestion(r) PROVE AdvisorInv'
  BY <1>8, RefreshStep
<1>9. CASE UNCHANGED advisorVars
  BY <1>9 DEF advisorVars, AdvisorInv, AdvisorTypes, SafeTurns, TurnOK, CauseOK, Signed, SafeGate, SafeThread,
              Busy, UnfailedOK, AloneOK, PendingOK, PendingTurn, NotPosted
<1> QED
  BY <1>1, <1>2, <1>3, <1>4, <1>5, <1>6, <1>7, <1>8, <1>9 DEF AdvisorNext

\* The invariant implies that humans decide.
LEMMA AdvisorInvHumansDecide == AdvisorInv => HumansDecide
<1> SUFFICES ASSUME AdvisorInv PROVE HumansDecide
  OBVIOUS
<1>1. PostedAsApproved
  BY DEF AdvisorInv, SafeGate, PostedAsApproved
<1>2. WrongReportHasACause
  <2>1. ASSUME NEW t \in Turns, turn[t].outcome = "approved", gate[turn[t].proposal.review].status # "approved"
        PROVE  turn[t].overtaken
    BY <2>1 DEF AdvisorInv, SafeTurns, CauseOK
  <2>2. ASSUME NEW t \in Turns, turn[t].outcome = "refused", mode = "demo", turn[t].proposal.approved,
               turn[t].proposal.fits, turn[t].proposal.review \in Reviews,
               gate[turn[t].proposal.review].by = "advisor"
        PROVE  thread.failed
    BY <2>2 DEF AdvisorInv, UnfailedOK, PendingOK, PendingTurn, NotPosted
  <2> QED
    BY <2>1, <2>2 DEF WrongReportHasACause
<1>3. UnanswerableCardHasACause
  <2> SUFFICES ASSUME thread.proposal.state = "requested", TooLong(thread), ~thread.failed
               PROVE  thread.long = thread.count
    BY DEF UnanswerableCardHasACause
  <2>1. /\ thread.count <= MaxMessages /\ thread.count \in Nat
        /\ thread.long # 0 => thread.long = thread.count
    BY DEF AdvisorInv, AdvisorTypes, Thread, UnfailedOK, AloneOK
  <2> QED
    BY <2>1, AdvisorConstants DEF TooLong
<1>4. ApprovalKeepsItsSignature
  BY DEF AdvisorInv, SafeTurns, TurnOK, ApprovalKeepsItsSignature
<1> QED
  BY <1>1, <1>2, <1>3, <1>4 DEF HumansDecide

\* What the advisor posts is what a human approved on a card; what it tells of an
\* approval is so, unless the queue rejected the review after the check or an answer
\* was missed; a card that cannot be answered follows a failure or is itself too
\* long; and no approval loses its signature.
THEOREM AdvisorAsksHumans == AdvisorSpec => []HumansDecide
<1>1. AdvisorInit => AdvisorInv
  BY AdvisorStart
<1>2. AdvisorInv /\ [AdvisorNext]_advisorVars => AdvisorInv'
  BY AdvisorStep
<1>3. AdvisorInv => HumansDecide
  BY AdvisorInvHumansDecide
<1> QED
  BY <1>1, <1>2, <1>3, PTL DEF AdvisorSpec

-----------------------------------------------------------------------------
(* Sign-out.                                                               *)

LocalDataTypes ==
  /\ kept \subseteq Items
  /\ page \in [DeviceTabs -> [at : {"app", "revoking", "sweeping", "leaving", "login"}, entry : Nat]]
  /\ late \in [DeviceTabs -> SUBSET Items]
  /\ deleting \in BOOLEAN
  /\ \A tab \in DeviceTabs :
       /\ page[tab].at = "sweeping" => page[tab].entry \in Entries
       /\ page[tab].at = "leaving" => \A i \in Entries : i < page[tab].entry

\* The sweep of the page is past an entry, of the owners it clears for.
Swept(p, i) == p.at \in {"sweeping", "leaving", "login"} /\ (i < p.entry \/ p.at = "login")

Clearable(tab, item) ==
  /\ LocalDataRegistry[item[1]].clearedOnSignOut
  /\ LocalDataRegistry[item[1]].storage \notin refuses
  /\ item[2] \in {"device", tab}

\* What a sweep has passed is gone, was written since, or is the database whose
\* deletion waits.
SweepOK(tab) ==
  \A item \in kept : Clearable(tab, item) /\ Swept(page[tab], item[1]) =>
    item \in late[tab] \/ (deleting /\ item = DbItem)

LocalDataInv == LocalDataTypes /\ \A tab \in DeviceTabs : SweepOK(tab)

\* The entries are numbered, and one of them is a database.
LEMMA EntriesAre ==
  /\ Entries = 1..10
  /\ \A i \in Entries : LocalDataRegistry[i].storage = "indexedDB" <=> i = DraftsDb
  /\ DraftsDb \in Entries
<1>1. Entries = 1..10
  BY DEF Entries, LocalDataRegistry
<1>2. \A i \in 1..10 : LocalDataRegistry[i].id = "captureDraftsDb" <=> i = 7
  BY DEF LocalDataRegistry, Entry
<1>3. \A i \in 1..10 : LocalDataRegistry[i].storage = "indexedDB" <=> i = 7
  BY DEF LocalDataRegistry, Entry
<1>4. DraftsDb = 7
  BY <1>1, <1>2 DEF DraftsDb
<1> QED
  BY <1>1, <1>3, <1>4

\* An item is of an entry, and of the tab or of the device.
LEMMA ItemsAre ==
  ASSUME NEW item \in Items
  PROVE  /\ item[1] \in Entries /\ item = <<item[1], item[2]>>
         /\ \A tab \in DeviceTabs : item[2] \in {"device", tab} => item[2] = Owner(item[1], tab)
<1>1. PICK i \in Entries, tab \in DeviceTabs : item = <<i, Owner(i, tab)>>
  BY DEF Items
<1>2. ASSUME NEW other \in DeviceTabs, item[2] \in {"device", other} PROVE item[2] = Owner(i, other)
  BY <1>1, <1>2, LocalDataConstants DEF Owner
<1> QED
  BY <1>1, <1>2

\* Items disappear, a waiting deletion ends only with the database, and one page goes on.
LEMMA PageStep ==
  ASSUME LocalDataInv, NEW tab \in DeviceTabs,
         NEW p \in [at : {"app", "revoking", "sweeping", "leaving", "login"}, entry : Nat],
         page' = [page EXCEPT ![tab] = p], kept' \subseteq kept, UNCHANGED <<refuses, late>>, deleting' \in BOOLEAN,
         p.at = "sweeping" => p.entry \in Entries, p.at = "leaving" => \A i \in Entries : i < p.entry,
         deleting /\ ~deleting' => DbItem \notin kept',
         \A item \in kept' : Clearable(tab, item) /\ Swept(p, item[1]) =>
           \/ Swept(page[tab], item[1])
           \/ deleting' /\ item = DbItem
  PROVE  LocalDataInv'
<1>1. page'[tab] = p /\ \A other \in DeviceTabs \ {tab} : page'[other] = page[other]
  BY DEF LocalDataInv, LocalDataTypes
<1>2. LocalDataTypes'
  BY <1>1 DEF LocalDataInv, LocalDataTypes
<1>3. ASSUME NEW other \in DeviceTabs, NEW item \in kept', Clearable(other, item), Swept(page'[other], item[1])
      PROVE  item \in late[other] \/ (deleting' /\ item = DbItem)
  <2>1. Swept(page[other], item[1]) => item \in late[other] \/ (deleting /\ item = DbItem)
    BY <1>3 DEF LocalDataInv, SweepOK
  <2>2. CASE other = tab
    BY <1>1, <1>3, <2>1, <2>2
  <2>3. CASE other # tab
    BY <1>1, <1>3, <2>1, <2>3
  <2> QED
    BY <2>2, <2>3
<1>4. \A other \in DeviceTabs : SweepOK(other)'
  BY <1>3 DEF SweepOK, Clearable
<1> QED
  BY <1>2, <1>4 DEF LocalDataInv

\* A write is late for every sweep that has passed its entry.
LEMMA WriteStep ==
  ASSUME LocalDataInv, NEW tab \in DeviceTabs, Write(tab)
  PROVE  LocalDataInv'
<1>1. PICK i \in Entries :
        /\ kept' = kept \cup {<<i, Owner(i, tab)>>}
        /\ late' = [other \in DeviceTabs |-> IF i < page[other].entry \/ page[other].at = "login"
                                               THEN late[other] \cup {<<i, Owner(i, tab)>>} ELSE late[other]]
        /\ UNCHANGED <<page, deleting, refuses>>
  BY DEF Write
<1> PICK item : item = <<i, Owner(i, tab)>>
  OBVIOUS
<1>2. item \in Items /\ item[1] = i
  BY DEF Items
<1>3. LocalDataTypes'
  BY <1>1, <1>2 DEF LocalDataInv, LocalDataTypes
<1>4. ASSUME NEW other \in DeviceTabs, NEW old \in kept', Clearable(other, old), Swept(page[other], old[1])
      PROVE  old \in late'[other] \/ (deleting /\ old = DbItem)
  <2>1. late'[other] = IF i < page[other].entry \/ page[other].at = "login"
                          THEN late[other] \cup {item} ELSE late[other]
    BY <1>1
  <2>2. CASE old \in kept
    BY <1>4, <2>1, <2>2 DEF LocalDataInv, SweepOK
  <2>3. CASE old = item
    BY <1>2, <1>4, <2>1, <2>3 DEF Swept
  <2> QED
    BY <1>1, <2>2, <2>3
<1>5. \A other \in DeviceTabs : SweepOK(other)'
  BY <1>1, <1>4 DEF SweepOK, Clearable
<1> QED
  BY <1>3, <1>5 DEF LocalDataInv

\* A sign-out begins with nothing passed and nothing late.
LEMMA ClickSignOutStep ==
  ASSUME LocalDataInv, NEW tab \in DeviceTabs, ClickSignOut(tab)
  PROVE  LocalDataInv'
<1>1. /\ page' = [page EXCEPT ![tab] = [at |-> "revoking", entry |-> 0]] /\ late' = [late EXCEPT ![tab] = {}]
      /\ UNCHANGED <<kept, deleting, refuses>>
  BY DEF ClickSignOut
<1>2. /\ page'[tab] = [at |-> "revoking", entry |-> 0]
      /\ \A other \in DeviceTabs \ {tab} : page'[other] = page[other] /\ late'[other] = late[other]
  BY <1>1 DEF LocalDataInv, LocalDataTypes
<1>3. LocalDataTypes'
  BY <1>1, <1>2 DEF LocalDataInv, LocalDataTypes
<1>4. ASSUME NEW other \in DeviceTabs PROVE SweepOK(other)'
  <2>1. CASE other = tab
    BY <1>2, <2>1 DEF SweepOK, Swept
  <2>2. CASE other # tab
    BY <1>1, <1>2, <2>2 DEF LocalDataInv, SweepOK, Clearable
  <2> QED
    BY <2>1, <2>2
<1> QED
  BY <1>3, <1>4 DEF LocalDataInv

\* The session is revoked, and the sweep starts at the first entry.
LEMMA RevokedStep ==
  ASSUME LocalDataInv, NEW tab \in DeviceTabs, Revoked(tab)
  PROVE  LocalDataInv'
<1> PICK p : p = [at |-> "sweeping", entry |-> 1]
  OBVIOUS
<1>1. page' = [page EXCEPT ![tab] = p] /\ UNCHANGED <<kept, deleting, refuses, late>>
  BY DEF Revoked
<1>2. p \in [at : {"app", "revoking", "sweeping", "leaving", "login"}, entry : Nat]
      /\ p.at = "sweeping" /\ p.entry = 1
  OBVIOUS
<1>3. 1 \in Entries /\ deleting \in BOOLEAN
  BY EntriesAre DEF LocalDataInv, LocalDataTypes
<1>4. ASSUME NEW item \in kept PROVE ~Swept(p, item[1])
  <2>1. item[1] \in 1..10
    BY ItemsAre, EntriesAre DEF LocalDataInv, LocalDataTypes
  <2> QED
    BY <1>2, <2>1 DEF Swept
<1> QED
  BY <1>1, <1>2, <1>3, <1>4, PageStep

\* One round of the sweep: what the entry keeps is not to be cleared, cannot be, is
\* gone, or is the database that others hold open.
LEMMA SweepEntryStep ==
  ASSUME LocalDataInv, NEW tab \in DeviceTabs, SweepEntry(tab)
  PROVE  LocalDataInv'
<1> PICK i : i = page[tab].entry
  OBVIOUS
<1> PICK next : next = i + 1
  OBVIOUS
<1> PICK p : p = IF next \in Entries THEN [at |-> "sweeping", entry |-> next] ELSE [at |-> "leaving", entry |-> next]
  OBVIOUS
<1> PICK storage : storage = LocalDataRegistry[i].storage
  OBVIOUS
<1>1. page[tab].at = "sweeping" /\ page' = [page EXCEPT ![tab] = p] /\ UNCHANGED <<connected, refuses, late>>
  BY DEF SweepEntry, NextEntry
<1>2. \/ (~LocalDataRegistry[i].clearedOnSignOut \/ storage \in refuses) /\ UNCHANGED <<kept, deleting>>
      \/ storage \notin refuses \cup {"indexedDB"} /\ kept' = kept \ {<<i, Owner(i, tab)>>} /\ UNCHANGED deleting
      \/ storage \in {"indexedDB"} \ refuses /\ DeleteIndexedDb
  BY DEF SweepEntry
<1>3. i \in 1..10 /\ deleting \in BOOLEAN /\ kept \subseteq Items
  BY <1>1, EntriesAre DEF LocalDataInv, LocalDataTypes
<1>4. /\ p \in [at : {"app", "revoking", "sweeping", "leaving", "login"}, entry : Nat] /\ p.entry = i + 1
      /\ p.at = "sweeping" => p.entry \in Entries
      /\ p.at = "leaving" => \A j \in Entries : j < p.entry
      /\ p.at \in {"sweeping", "leaving"}
  BY <1>3, EntriesAre
<1>5. ASSUME NEW item \in kept, Swept(p, item[1]), ~Swept(page[tab], item[1]), Clearable(tab, item)
      PROVE  item = <<i, Owner(i, tab)>> /\ storage \notin refuses /\ LocalDataRegistry[i].clearedOnSignOut
  <2>1. item[1] \in 1..10 /\ item = <<item[1], item[2]>> /\ item[2] = Owner(item[1], tab)
    BY <1>3, <1>5, ItemsAre, EntriesAre DEF Clearable
  <2>2. item[1] = i
    BY <1>1, <1>3, <1>4, <1>5, <2>1 DEF Swept
  <2> QED
    BY <1>5, <2>1, <2>2 DEF Clearable
<1>6. CASE (~LocalDataRegistry[i].clearedOnSignOut \/ storage \in refuses) /\ UNCHANGED <<kept, deleting>>
  BY <1>1, <1>3, <1>4, <1>5, <1>6, PageStep
<1>7. CASE kept' = kept \ {<<i, Owner(i, tab)>>} /\ UNCHANGED deleting
  BY <1>1, <1>3, <1>4, <1>5, <1>7, PageStep
<1>8. CASE storage \in {"indexedDB"} \ refuses /\ DeleteIndexedDb
  <2>1. i = DraftsDb /\ <<i, Owner(i, tab)>> = DbItem
    <3>1. i \in Entries /\ storage = "indexedDB"
      BY <1>3, <1>8, EntriesAre
    <3>2. i = DraftsDb
      BY <3>1, EntriesAre
    <3>3. Owner(i, tab) = "device"
      BY <3>1 DEF Owner
    <3> QED
      BY <3>2, <3>3 DEF DbItem
  <2>2. CASE kept' = kept \ {DbItem} /\ deleting' = FALSE
    <3>1. deleting' \in BOOLEAN /\ kept' \subseteq kept /\ DbItem \notin kept'
      BY <2>2
    <3>2. ASSUME NEW item \in kept', Swept(p, item[1]), Clearable(tab, item) PROVE Swept(page[tab], item[1])
      BY <1>5, <2>1, <3>1, <3>2
    <3> QED
      BY <1>1, <1>4, <3>1, <3>2, PageStep
  <2>3. CASE deleting' = TRUE /\ UNCHANGED kept
    <3>1. deleting' \in BOOLEAN /\ kept' \subseteq kept /\ deleting'
      BY <2>3
    <3>2. ASSUME NEW item \in kept', Swept(p, item[1]), Clearable(tab, item), ~Swept(page[tab], item[1])
          PROVE  item = DbItem
      BY <1>5, <2>1, <3>1, <3>2
    <3> QED
      BY <1>1, <1>4, <3>1, <3>2, PageStep
  <2> QED
    BY <1>8, <2>2, <2>3 DEF DeleteIndexedDb
<1> QED
  BY <1>2, <1>6, <1>7, <1>8

\* A page that has passed the last entry goes to the login.
LEMMA LeaveStep ==
  ASSUME LocalDataInv, NEW tab \in DeviceTabs, Leave(tab)
  PROVE  LocalDataInv'
<1> PICK old : old = page[tab]
  OBVIOUS
<1> PICK p : p = [old EXCEPT !.at = "login"]
  OBVIOUS
<1>1. page' = [page EXCEPT ![tab] = p] /\ old.at = "leaving" /\ UNCHANGED <<refuses, late>>
  BY DEF Leave, LocalDataInv, LocalDataTypes
<1>2. /\ p \in [at : {"app", "revoking", "sweeping", "leaving", "login"}, entry : Nat]
      /\ p.at = "login"
      /\ \A j \in Entries : j < old.entry
  BY <1>1 DEF LocalDataInv, LocalDataTypes
<1>3. kept' \subseteq kept /\ deleting' \in BOOLEAN /\ (deleting /\ ~deleting' => DbItem \notin kept')
  BY DEF Leave, Unload, LocalDataInv, LocalDataTypes
<1>4. ASSUME NEW item \in kept' PROVE Swept(old, item[1])
  <2>1. item[1] \in Entries
    BY <1>3, ItemsAre DEF LocalDataInv, LocalDataTypes
  <2> QED
    BY <1>1, <1>2, <2>1 DEF Swept
<1> QED
  BY <1>1, <1>2, <1>3, <1>4, PageStep

\* A page that signs in again starts with no late writes.
LEMMA SignInStep ==
  ASSUME LocalDataInv, NEW tab \in DeviceTabs, SignIn(tab)
  PROVE  LocalDataInv'
<1> PICK p : p = [at |-> "app", entry |-> 0]
  OBVIOUS
<1>1. page' = [page EXCEPT ![tab] = p] /\ UNCHANGED <<kept, deleting, refuses, late>>
  BY DEF SignIn
<1>2. p \in [at : {"app", "revoking", "sweeping", "leaving", "login"}, entry : Nat] /\ p.at = "app"
  OBVIOUS
<1>3. deleting \in BOOLEAN /\ \A i : ~Swept(p, i)
  BY <1>2 DEF LocalDataInv, LocalDataTypes, Swept
<1> QED
  BY <1>1, <1>2, <1>3, PageStep

\* What is left of a signed-out user on a device refused to go, was written after the
\* sweep, or is the database whose deletion another tab holds up.
THEOREM RemainsAreExplained == LocalDataSpec => []RemainsForAReason
<1>1. LocalDataInit => LocalDataInv
  <2> SUFFICES ASSUME LocalDataInit PROVE LocalDataInv
    OBVIOUS
  <2>1. LocalDataTypes
    BY DEF LocalDataInit, LocalDataTypes
  <2> QED
    BY <2>1 DEF LocalDataInit, LocalDataInv, SweepOK, Swept
<1>2. LocalDataInv /\ [LocalDataNext]_localDataVars => LocalDataInv'
  <2> SUFFICES ASSUME LocalDataInv, [LocalDataNext]_localDataVars PROVE LocalDataInv'
    OBVIOUS
  <2>1. CASE UNCHANGED localDataVars
    BY <2>1 DEF localDataVars, LocalDataInv, LocalDataTypes, SweepOK, Clearable
  <2> QED
    BY <2>1, WriteStep, ClickSignOutStep, RevokedStep, SweepEntryStep, LeaveStep, SignInStep DEF LocalDataNext
<1>3. LocalDataInv => RemainsForAReason
  <2> SUFFICES ASSUME LocalDataInv, NEW tab \in DeviceTabs, page[tab].at = "login", NEW item \in Departed(tab)
               PROVE  item \in late[tab] \cup (IF deleting THEN {DbItem} ELSE {})
    BY DEF RemainsForAReason
  <2>1. item \in kept /\ Clearable(tab, item) /\ Swept(page[tab], item[1])
    BY DEF Departed, Clearable, Swept
  <2> QED
    BY <2>1 DEF LocalDataInv, SweepOK
<1> QED
  BY <1>1, <1>2, <1>3, PTL DEF LocalDataSpec

-----------------------------------------------------------------------------
(* Migrations.                                                             *)

Outcomes ==
  {"none", "invalid directory", "drift", "no drift", "verified", "assertions failed", "failed",
   "killed", "migrated", "was pending", "not a no-op", "confirmed"}

RunnerRecord ==
  [pc : {"idle", "queued", "status", "verify", "replay", "locked", "applying", "after", "ended"},
   command : Commands \cup {"none"}, files : Seq(Migrations), seen : SUBSET Migrations,
   next : Nat \ {0}, applied : SUBSET Migrations, before : SUBSET Migrations, outcome : Outcomes]

MigrationTypes ==
  /\ schema \in Seq([file : Migrations, by : Runners \cup {NoRunner}])
  /\ history \in SUBSET Migrations
  /\ session \in Runners \cup {NoRunner}
  /\ runner \in [Runners -> RunnerRecord]

\* Whoever reads the history or acts on it holds the session lock.
LockHeld == \A r \in Runners : runner[r].pc \in {"locked", "applying"} => session = r

\* What a runner knows: the files it has passed are recorded, the number of a file
\* is its place, and what it will report is so.
Knows(rec) ==
  /\ rec.pc # "ended" => rec.outcome = "none"
  /\ rec.before \subseteq history
  /\ rec.pc \in {"idle", "replay", "queued", "locked"} => rec.next = 1 /\ rec.applied = {}
  /\ rec.pc \in {"replay", "queued", "locked", "applying"} => ValidSequence(rec.files)
  /\ rec.pc = "applying" =>
       /\ history = rec.seen \cup rec.applied
       /\ \A n \in DOMAIN rec.files : n < rec.next => rec.files[n] \in history
       /\ \A n \in DOMAIN rec.files : n <= rec.next => rec.files[n].prefix = n
  /\ rec.pc = "after" => rec.applied = {} /\ ToSet(rec.files) \subseteq history
  /\ rec.outcome = "migrated" => ToSet(rec.files) \subseteq history
  /\ rec.outcome = "confirmed" => rec.applied = {} /\ ToSet(rec.files) \subseteq history
  /\ rec.outcome = "not a no-op" => rec.applied = {} /\ history \ rec.before # {}

\* The executions of a runner are the files it applied, each behind all that come
\* before it in its directory.
BuiltBy(r, rec) ==
  \A i \in DOMAIN schema : schema[i].by = r =>
    /\ schema[i].file \in rec.applied
    /\ \A n \in DOMAIN rec.files : rec.files[n].prefix < schema[i].file.prefix =>
         \E j \in 1..(i - 1) : schema[j].file = rec.files[n]

\* The inductive invariant of the runners.
MigrationInv ==
  /\ MigrationTypes /\ LockHeld /\ ExecutedOnce
  /\ \A r \in Runners : Knows(runner[r]) /\ BuiltBy(r, runner[r])

\* The files of a directory come out as a sequence, because no two have the same place.
LEMMA InOrderIsSequence ==
  ASSUME NEW dir \in SUBSET Migrations, IsFiniteSet(dir),
         \A f, g \in dir : Name(f) = Name(g) => f = g
  PROVE  InOrder(dir) \in Seq(Migrations) /\ Len(InOrder(dir)) = Cardinality(dir)
<1> DEFINE Earlier(f) == {g \in dir : ComesBefore(g, f)}
           rank == [f \in dir |-> Cardinality(Earlier(f))]
           n == Cardinality(dir)
<1>1. n \in Nat
  BY FS_CardinalityType
<1>2. ASSUME NEW f \in dir
      PROVE  /\ IsFiniteSet(Earlier(f)) /\ Cardinality(Earlier(f)) \in 0..(n - 1)
             /\ Cardinality(Earlier(f) \cup {f}) = Cardinality(Earlier(f)) + 1
             /\ IsFiniteSet(Earlier(f) \cup {f})
  <2>1. f \notin Earlier(f)
    BY DEF ComesBefore, Migrations
  <2>2. IsFiniteSet(Earlier(f)) /\ Cardinality(Earlier(f)) \in Nat
    BY FS_Subset, FS_CardinalityType
  <2>3. IsFiniteSet(Earlier(f) \cup {f}) /\ Cardinality(Earlier(f) \cup {f}) = Cardinality(Earlier(f)) + 1
    BY <2>1, <2>2, FS_AddElement
  <2>4. Earlier(f) \cup {f} \in SUBSET dir
    OBVIOUS
  <2>5. Cardinality(Earlier(f) \cup {f}) <= n
    BY <2>4, FS_Subset
  <2> QED
    BY <1>1, <2>2, <2>3, <2>5
<1>3. ASSUME NEW f \in dir, NEW g \in dir, ComesBefore(f, g)
      PROVE  Cardinality(Earlier(f)) < Cardinality(Earlier(g))
  <2>1. Earlier(f) \cup {f} \in SUBSET Earlier(g)
    BY <1>3 DEF ComesBefore, Migrations
  <2>2. Cardinality(Earlier(f) \cup {f}) <= Cardinality(Earlier(g))
    BY <1>2, <2>1, FS_Subset
  <2>3. /\ Cardinality(Earlier(f)) \in 0..(n - 1) /\ Cardinality(Earlier(g)) \in 0..(n - 1)
        /\ Cardinality(Earlier(f) \cup {f}) = Cardinality(Earlier(f)) + 1
    BY <1>2
  <2> HIDE DEF Earlier, n
  <2> QED
    BY <1>1, <2>2, <2>3
<1>4. rank \in Injection(dir, 0..(n - 1))
  <2>1. rank \in [dir -> 0..(n - 1)]
    BY <1>2
  <2>2. ASSUME NEW f \in dir, NEW g \in dir, rank[f] = rank[g] PROVE f = g
    <3>1. ~ComesBefore(f, g) /\ ~ComesBefore(g, f)
      <4>1. /\ Cardinality(Earlier(f)) = Cardinality(Earlier(g))
            /\ Cardinality(Earlier(f)) \in 0..(n - 1) /\ Cardinality(Earlier(g)) \in 0..(n - 1)
        BY <1>2, <2>2
      <4>2. ~(Cardinality(Earlier(f)) < Cardinality(Earlier(g)))
            /\ ~(Cardinality(Earlier(g)) < Cardinality(Earlier(f)))
        <5> HIDE DEF Earlier, n
        <5> QED
          BY <1>1, <4>1
      <4> QED
        BY <1>3, <4>2
    <3>2. f.prefix = g.prefix /\ f.label = g.label
      BY <3>1 DEF ComesBefore, Migrations
    <3> QED
      BY <3>2 DEF Name
  <2> QED
    BY <2>1, <2>2 DEF Injection, IsInjective
<1>5. rank \in Surjection(dir, 0..(n - 1))
  <2>1. IsFiniteSet(0..(n - 1)) /\ Cardinality(0..(n - 1)) = n
    BY <1>1, FS_Interval
  <2> QED
    BY <1>4, <2>1, FS_Injection
<1>6. ASSUME NEW i \in 1..n PROVE \E f \in dir : Cardinality(Earlier(f)) = i - 1
  <2>1. i - 1 \in 0..(n - 1)
    BY <1>1
  <2> QED
    BY <1>5, <2>1 DEF Surjection
<1>7. \A i \in 1..n : (CHOOSE f \in dir : Cardinality({g \in dir : ComesBefore(g, f)}) = i - 1) \in dir
  BY <1>6
<1>8. InOrder(dir) = [i \in 1..n |-> CHOOSE f \in dir : Cardinality({g \in dir : ComesBefore(g, f)}) = i - 1]
  BY DEF InOrder
<1>9. InOrder(dir) \in [1..n -> Migrations]
  BY <1>7, <1>8
<1> HIDE DEF n
<1>10. PICK s : s = InOrder(dir)
  OBVIOUS
<1>11. s \in Seq(Migrations) /\ DOMAIN s = 1..n
  BY <1>1, <1>9, <1>10
<1>12. Len(s) \in Nat /\ DOMAIN s = 1..Len(s)
  BY <1>11, LenProperties
<1>13. Len(s) = n
  BY <1>1, <1>11, <1>12
<1> QED
  BY <1>10, <1>11, <1>13 DEF n

\* A runner moves on without touching the schema: it knows what it goes on with.
LEMMA RunnerMovesOn ==
  ASSUME MigrationInv, NEW r \in Runners, NEW rec \in RunnerRecord,
         runner' = [runner EXCEPT ![r] = rec], UNCHANGED <<schema, history>>,
         session' \in Runners \cup {NoRunner}, Knows(rec),
         rec.pc \in {"locked", "applying"} => session' = r,
         \A q \in Runners \ {r} : session = q => session' = q,
         rec.applied = runner[r].applied,
         rec.files = runner[r].files \/ runner[r].applied = {}
  PROVE  MigrationInv'
<1>1. /\ runner' \in [Runners -> RunnerRecord] /\ runner'[r] = rec
      /\ \A q \in Runners \ {r} : runner'[q] = runner[q]
  BY DEF MigrationInv, MigrationTypes
<1>2. MigrationTypes'
  BY <1>1 DEF MigrationInv, MigrationTypes
<1>3. LockHeld'
  <2> SUFFICES ASSUME NEW q \in Runners, runner'[q].pc \in {"locked", "applying"}
               PROVE  session' = q
    BY DEF LockHeld
  <2> QED
    BY <1>1 DEF MigrationInv, LockHeld
<1>4. ExecutedOnce'
  BY DEF MigrationInv, ExecutedOnce
<1>5. ASSUME NEW q \in Runners PROVE Knows(runner'[q]) /\ BuiltBy(q, runner'[q])
  <2>1. CASE q # r
    BY <1>1, <2>1 DEF MigrationInv
  <2>2. CASE q = r
    <3>1. BuiltBy(r, rec)
      BY DEF MigrationInv, BuiltBy
    <3> QED
      BY <1>1, <2>2, <3>1
  <2> QED
    BY <2>1, <2>2
<1>6. ASSUME NEW q \in Runners PROVE (Knows(runner[q]) /\ BuiltBy(q, runner[q]))'
  <2>1. PICK after : after = runner'[q]
    OBVIOUS
  <2>2. Knows(after) /\ BuiltBy(q, after)
    BY <1>5, <2>1
  <2>3. Knows(after)' /\ BuiltBy(q, after)'
    BY <2>2 DEF Knows, BuiltBy
  <2> QED
    BY <2>1, <2>3
<1> QED
  BY <1>2, <1>3, <1>4, <1>6 DEF MigrationInv

\* A command that is over reports what its runner knew.
LEMMA EndStep ==
  ASSUME MigrationInv, NEW r \in Runners, NEW outcome \in Outcomes, End(r, outcome),
         UNCHANGED <<schema, history>>,
         outcome = "migrated" => ToSet(runner[r].files) \subseteq history,
         outcome = "confirmed" => runner[r].applied = {} /\ ToSet(runner[r].files) \subseteq history,
         outcome = "not a no-op" => runner[r].applied = {} /\ history \ runner[r].before # {}
  PROVE  MigrationInv'
<1> PICK old : old = runner[r]
  OBVIOUS
<1> PICK rec : rec = [old EXCEPT !.pc = "ended", !.outcome = outcome]
  OBVIOUS
<1>1. old \in RunnerRecord /\ Knows(old)
  BY DEF MigrationInv, MigrationTypes
<1>2. /\ rec \in RunnerRecord /\ rec.pc = "ended" /\ rec.outcome = outcome
      /\ rec.files = old.files /\ rec.applied = old.applied /\ rec.before = old.before
  BY <1>1 DEF RunnerRecord
<1>3. runner' = [runner EXCEPT ![r] = rec]
  BY DEF End
<1>4. Knows(rec)
  BY <1>1, <1>2 DEF Knows
<1>5. session' = IF session = r THEN NoRunner ELSE session
  BY DEF End
<1>6. /\ session' \in Runners \cup {NoRunner}
      /\ \A q \in Runners \ {r} : session = q => session' = q
  BY <1>5, NoRunnerAssumption DEF MigrationInv, MigrationTypes
<1> QED
  BY <1>2, <1>3, <1>4, <1>6, RunnerMovesOn

\* What a runner is before it starts.
LEMMA NotStartedRecord ==
  /\ NotStarted \in RunnerRecord /\ NotStarted.outcome = "none" /\ NotStarted.before = {}
  /\ NotStarted.next = 1 /\ NotStarted.applied = {}
BY EmptySeq DEF NotStarted, RunnerRecord, Outcomes

\* A runner starts with the files of its directory, or is refused them.
LEMMA StartRunnerStep ==
  ASSUME MigrationInv, NEW r \in Runners, NEW command \in Commands, NEW dir \in Directories,
         StartRunner(r, command, dir)
  PROVE  MigrationInv'
<1>1. runner[r].pc = "idle" /\ UNCHANGED <<schema, history>> /\ runner[r].applied = {}
  BY DEF StartRunner, MigrationInv, Knows
<1>2. CASE End(r, "invalid directory")
  <2>1. "invalid directory" \in Outcomes
    BY DEF Outcomes
  <2> QED
    BY <1>1, <1>2, <2>1, EndStep
<1>3. CASE /\ command = "verify" \/ ValidSequence(InOrder(dir))
           /\ runner' = [runner EXCEPT ![r] = [NotStarted EXCEPT
                !.pc = IF command = "migrate" THEN "queued" ELSE command,
                !.command = command,
                !.files = InOrder(dir)]]
           /\ UNCHANGED session
  <2> PICK files : files = InOrder(dir)
    OBVIOUS
  <2> PICK pc : pc = IF command = "migrate" THEN "queued" ELSE command
    OBVIOUS
  <2> PICK rec : rec = [NotStarted EXCEPT !.pc = pc, !.command = command, !.files = files]
    OBVIOUS
  <2>1. files \in Seq(Migrations) /\ pc \in {"queued", "status", "verify", "replay"}
        /\ (pc # "verify" => ValidSequence(files))
    BY <1>3, InOrderIsSequence, DirectoriesAssumption DEF Commands
  <2>2. runner' = [runner EXCEPT ![r] = rec]
    BY <1>3
  <2>3. rec \in RunnerRecord
    BY <2>1, NotStartedRecord DEF RunnerRecord
  <2>4. Knows(rec) /\ rec.pc = pc /\ rec.applied = {}
    <3>1. /\ rec.pc = pc /\ rec.outcome = "none" /\ rec.before = {} /\ rec.next = 1
          /\ rec.applied = {} /\ rec.files = files
      BY NotStartedRecord DEF RunnerRecord
    <3> QED
      BY <2>1, <3>1 DEF Knows
  <2> QED
    BY <1>1, <1>3, <2>1, <2>2, <2>3, <2>4, RunnerMovesOn DEF MigrationInv, MigrationTypes
<1> QED
  BY <1>2, <1>3 DEF StartRunner

\* status and verify only look.
LEMMA LookStep ==
  ASSUME MigrationInv, NEW r \in Runners, ReportStatus(r) \/ VerifyCapabilities(r)
  PROVE  MigrationInv'
<1>1. {"drift", "no drift", "verified", "assertions failed"} \subseteq Outcomes
  BY DEF Outcomes
<1>2. UNCHANGED <<schema, history>>
      /\ (\E outcome \in {"drift", "no drift", "verified", "assertions failed"} : End(r, outcome))
  BY DEF ReportStatus, VerifyCapabilities
<1> QED
  BY <1>1, <1>2, EndStep

\* A replay remembers the history it starts from.
LEMMA SnapshotBeforeStep ==
  ASSUME MigrationInv, NEW r \in Runners, SnapshotBefore(r)
  PROVE  MigrationInv'
<1> PICK old : old = runner[r]
  OBVIOUS
<1> PICK rec : rec = [old EXCEPT !.pc = "queued", !.before = history]
  OBVIOUS
<1>1. /\ old.pc = "replay" /\ runner' = [runner EXCEPT ![r] = rec]
      /\ UNCHANGED <<schema, history, session>>
  BY DEF SnapshotBefore
<1>2. old \in RunnerRecord /\ Knows(old) /\ history \in SUBSET Migrations
  BY DEF MigrationInv, MigrationTypes
<1>3. /\ rec \in RunnerRecord /\ rec.pc = "queued" /\ rec.before = history
      /\ rec.files = old.files /\ rec.applied = old.applied /\ rec.outcome = old.outcome
      /\ rec.next = old.next
  BY <1>2 DEF RunnerRecord
<1>4. Knows(rec)
  BY <1>1, <1>2, <1>3 DEF Knows
<1> QED
  BY <1>1, <1>3, <1>4, RunnerMovesOn DEF MigrationInv, MigrationTypes

\* The lock is taken when nobody has it.
LEMMA LockSessionStep ==
  ASSUME MigrationInv, NEW r \in Runners, LockSession(r)
  PROVE  MigrationInv'
<1> PICK old : old = runner[r]
  OBVIOUS
<1> PICK rec : rec = [old EXCEPT !.pc = "locked"]
  OBVIOUS
<1>1. /\ old.pc = "queued" /\ runner' = [runner EXCEPT ![r] = rec]
      /\ session = NoRunner /\ session' = r /\ UNCHANGED <<schema, history>>
  BY DEF LockSession
<1>2. old \in RunnerRecord /\ Knows(old)
  BY DEF MigrationInv, MigrationTypes
<1>3. /\ rec \in RunnerRecord /\ rec.pc = "locked" /\ rec.before = old.before
      /\ rec.files = old.files /\ rec.applied = old.applied /\ rec.outcome = old.outcome
      /\ rec.next = old.next
  BY <1>2 DEF RunnerRecord
<1>4. Knows(rec)
  BY <1>1, <1>2, <1>3 DEF Knows
<1> QED
  BY <1>1, <1>3, <1>4, RunnerMovesOn, NoRunnerAssumption

\* The history is read under the lock, and no file has been passed yet.
LEMMA ReadHistoryStep ==
  ASSUME MigrationInv, NEW r \in Runners, ReadHistory(r)
  PROVE  MigrationInv'
<1> PICK old : old = runner[r]
  OBVIOUS
<1> PICK rec : rec = [old EXCEPT !.pc = "applying", !.seen = history]
  OBVIOUS
<1>1. /\ old.pc = "locked" /\ runner' = [runner EXCEPT ![r] = rec]
      /\ UNCHANGED <<schema, history, session>>
  BY DEF ReadHistory
<1>2. old \in RunnerRecord /\ Knows(old) /\ history \in SUBSET Migrations /\ session = r
  BY <1>1 DEF MigrationInv, MigrationTypes, LockHeld
<1>3. /\ rec \in RunnerRecord /\ rec.pc = "applying" /\ rec.before = old.before
      /\ rec.files = old.files /\ rec.applied = old.applied /\ rec.outcome = old.outcome
      /\ rec.next = old.next /\ rec.seen = history
  BY <1>2 DEF RunnerRecord
<1>4. Knows(rec)
  <2>1. rec.next = 1 /\ rec.applied = {} /\ ValidSequence(rec.files) /\ rec.files \in Seq(Migrations)
    BY <1>1, <1>2, <1>3 DEF Knows, RunnerRecord
  <2>2. DOMAIN rec.files \subseteq Nat \ {0}
    BY <2>1, LenProperties
  <2>3. \A n \in DOMAIN rec.files : n <= 1 => n = 1
    BY <2>2
  <2>4. \A n \in DOMAIN rec.files : ~(n < 1)
    BY <2>2
  <2>5. 1 \in DOMAIN rec.files => rec.files[1].prefix = 1
    BY <2>1 DEF ValidSequence
  <2> QED
    BY <1>1, <1>2, <1>3, <2>1, <2>3, <2>4, <2>5 DEF Knows
<1> QED
  BY <1>1, <1>2, <1>3, <1>4, RunnerMovesOn

\* A file and the next: the number of the next one is its place, too.
LEMMA NextFile ==
  ASSUME NEW files \in Seq(Migrations), ValidSequence(files), NEW m \in DOMAIN files,
         \A n \in DOMAIN files : n <= m => files[n].prefix = n
  PROVE  \A n \in DOMAIN files : n <= m + 1 => files[n].prefix = n
<1>1. Len(files) \in Nat /\ DOMAIN files = 1..Len(files)
  BY LenProperties
<1> SUFFICES ASSUME NEW n \in DOMAIN files, n = m + 1 PROVE files[n].prefix = n
  BY <1>1
<1>2. n \in 2..Len(files) /\ n - 1 = m
  BY <1>1
<1>3. files[n].prefix = files[n - 1].prefix + 1
  BY <1>2 DEF ValidSequence
<1> QED
  BY <1>1, <1>2, <1>3

\* What comes before a file whose number is its place has been passed.
LEMMA EarlierFiles ==
  ASSUME NEW files \in Seq(Migrations), ValidSequence(files), NEW m \in DOMAIN files,
         \A n \in DOMAIN files : n <= m => files[n].prefix = n,
         NEW k \in DOMAIN files, files[k].prefix < files[m].prefix
  PROVE  k < m
<1>1. Len(files) \in Nat /\ DOMAIN files = 1..Len(files) /\ files \in [1..Len(files) -> Migrations]
  BY LenProperties
<1>2. files[m].prefix = m
  BY <1>1
<1>3. files[k].prefix \in Nat \ {0}
  <2>1. \A i \in DOMAIN files : files[i].prefix \in Nat
    BY <1>1 DEF Migrations
  <2>2. CASE k = 1
    BY <1>1, <2>2 DEF ValidSequence
  <2>3. CASE k # 1
    <3>1. k \in 2..Len(files) /\ k - 1 \in DOMAIN files
      BY <1>1, <2>3
    <3>2. files[k].prefix = files[k - 1].prefix + 1
      BY <3>1 DEF ValidSequence
    <3> QED
      BY <2>1, <3>1, <3>2
  <2> QED
    BY <2>2, <2>3
<1>4. PICK p : p = files[k].prefix
  OBVIOUS
<1>5. p \in DOMAIN files /\ p < m
  BY <1>1, <1>2, <1>3, <1>4
<1>6. files[p].prefix = p
  BY <1>1, <1>5
<1>7. p = k
  BY <1>4, <1>5, <1>6 DEF ValidSequence
<1> QED
  BY <1>5, <1>7

\* A runner that is applying: its next file, and what it has passed.
LEMMA ApplyingFacts ==
  ASSUME MigrationInv, NEW r \in Runners, runner[r].pc = "applying", NEW old, old = runner[r]
  PROVE  /\ old \in RunnerRecord /\ Knows(old) /\ BuiltBy(r, old) /\ session = r
         /\ old.files \in Seq(Migrations) /\ old.next \in Nat \ {0} /\ old.outcome = "none"
         /\ Len(old.files) \in Nat /\ DOMAIN old.files = 1..Len(old.files)
         /\ ValidSequence(old.files) /\ history \in SUBSET Migrations
         /\ old.seen \subseteq history /\ old.seen \subseteq Migrations
         /\ FilesLeft(r) => old.next \in DOMAIN old.files /\ Current(r) = old.files[old.next]
                            /\ Current(r) \in Migrations
<1>1. old \in RunnerRecord /\ Knows(old) /\ BuiltBy(r, old) /\ session = r /\ history \in SUBSET Migrations
  BY DEF MigrationInv, MigrationTypes, LockHeld
<1>2. old.files \in Seq(Migrations) /\ old.next \in Nat \ {0} /\ old.seen \subseteq Migrations
  BY <1>1 DEF RunnerRecord
<1>3. /\ Len(old.files) \in Nat /\ DOMAIN old.files = 1..Len(old.files)
      /\ old.files \in [1..Len(old.files) -> Migrations]
  BY <1>2, LenProperties
<1>4. ValidSequence(old.files) /\ old.seen \subseteq history /\ old.outcome = "none"
  BY <1>1 DEF Knows
<1> QED
  BY <1>1, <1>2, <1>3, <1>4 DEF FilesLeft, Current

\* A file is its number, its description and its checksum.
LEMMA SameFile ==
  ASSUME NEW f \in Migrations, NEW h \in Migrations,
         h.prefix = f.prefix, h.label = f.label, h.sha = f.sha
  PROVE  h = f
BY DEF Migrations

\* A file that is recorded with its checksum is passed.
LEMMA SkipAppliedStep ==
  ASSUME MigrationInv, NEW r \in Runners, SkipApplied(r)
  PROVE  MigrationInv'
<1> PICK old : old = runner[r]
  OBVIOUS
<1> PICK f : f = Current(r)
  OBVIOUS
<1> PICK rec : rec = [old EXCEPT !.next = @ + 1]
  OBVIOUS
<1>1. /\ old.pc = "applying" /\ FilesLeft(r) /\ runner' = [runner EXCEPT ![r] = rec]
      /\ Records(old.seen, f) # {} /\ ~Drifted(old.seen, f)
      /\ UNCHANGED <<schema, history, session>>
  BY DEF SkipApplied
<1>2. /\ old \in RunnerRecord /\ Knows(old) /\ session = r
      /\ old.files \in Seq(Migrations) /\ old.next \in Nat \ {0}
      /\ ValidSequence(old.files) /\ DOMAIN old.files = 1..Len(old.files) /\ Len(old.files) \in Nat
      /\ old.next \in DOMAIN old.files /\ f = old.files[old.next] /\ f \in Migrations
      /\ old.seen \subseteq Migrations /\ old.seen \subseteq history
  BY <1>1, ApplyingFacts
<1>3. f \in history
  <2>1. PICK h \in old.seen : Name(h) = Name(f) /\ h.sha = f.sha
    BY <1>1 DEF Records, Drifted
  <2>2. h \in Migrations /\ h.prefix = f.prefix /\ h.label = f.label /\ h.sha = f.sha
    BY <1>2, <2>1 DEF Name
  <2>3. h = f
    BY <1>2, <2>2, SameFile
  <2> QED
    BY <1>2, <2>3
<1>4. /\ rec \in RunnerRecord /\ rec.pc = "applying" /\ rec.before = old.before
      /\ rec.files = old.files /\ rec.applied = old.applied /\ rec.outcome = old.outcome
      /\ rec.next = old.next + 1 /\ rec.seen = old.seen
  BY <1>1, <1>2 DEF RunnerRecord
<1>5. Knows(rec)
  <2>1. \A n \in DOMAIN old.files : n <= old.next => old.files[n].prefix = n
    BY <1>1, <1>2 DEF Knows
  <2>2. \A n \in DOMAIN rec.files : n <= rec.next => rec.files[n].prefix = n
    BY <1>2, <1>4, <2>1, NextFile
  <2>3. \A n \in DOMAIN rec.files : n < rec.next => rec.files[n] \in history
    <3> SUFFICES ASSUME NEW n \in DOMAIN rec.files, n < rec.next PROVE rec.files[n] \in history
      OBVIOUS
    <3>1. n = old.next \/ n < old.next
      BY <1>2, <1>4
    <3> QED
      BY <1>1, <1>2, <1>3, <1>4, <3>1 DEF Knows
  <2> QED
    BY <1>1, <1>2, <1>4, <2>2, <2>3 DEF Knows
<1> QED
  BY <1>1, <1>2, <1>4, <1>5, RunnerMovesOn

\* A runner stops: at a file that was edited, at one that fails, or killed.
LEMMA StopStep ==
  ASSUME MigrationInv, NEW r \in Runners, StopAtDrift(r) \/ FailFile(r) \/ KillRunner(r)
  PROVE  MigrationInv'
<1>1. {"drift", "failed", "killed"} \subseteq Outcomes
  BY DEF Outcomes
<1>2. UNCHANGED <<schema, history>> /\ (\E outcome \in {"drift", "failed", "killed"} : End(r, outcome))
  BY DEF StopAtDrift, FailFile, KillRunner
<1> QED
  BY <1>1, <1>2, EndStep

\* A runner that has no file left has passed them all.
LEMMA AllPassed ==
  ASSUME MigrationInv, NEW r \in Runners, runner[r].pc = "applying", ~FilesLeft(r)
  PROVE  ToSet(runner[r].files) \subseteq history
<1> PICK old : old = runner[r]
  OBVIOUS
<1>1. /\ Knows(old) /\ old.next \in Nat \ {0}
      /\ Len(old.files) \in Nat /\ DOMAIN old.files = 1..Len(old.files)
  BY ApplyingFacts
<1>2. old.next \notin DOMAIN old.files /\ old.pc = "applying"
  BY DEF FilesLeft
<1>3. \A n \in DOMAIN old.files : n < old.next
  BY <1>1, <1>2
<1>4. \A n \in DOMAIN old.files : old.files[n] \in history
  BY <1>1, <1>2, <1>3 DEF Knows
<1> QED
  BY <1>4 DEF ToSet

\* A migrate that is through its files has them all recorded.
LEMMA FinishMigrateStep ==
  ASSUME MigrationInv, NEW r \in Runners, FinishMigrate(r)
  PROVE  MigrationInv'
<1>1. {"migrated", "assertions failed"} \subseteq Outcomes
  BY DEF Outcomes
<1>2. UNCHANGED <<schema, history>> /\ (\E outcome \in {"migrated", "assertions failed"} : End(r, outcome))
      /\ runner[r].pc = "applying" /\ ~FilesLeft(r)
  BY DEF FinishMigrate
<1> QED
  BY <1>1, <1>2, AllPassed, EndStep

\* A replay that executed nothing frees the lock knowing that all are recorded.
LEMMA FinishReplayStep ==
  ASSUME MigrationInv, NEW r \in Runners, FinishReplay(r)
  PROVE  MigrationInv'
<1>1. UNCHANGED <<schema, history>> /\ runner[r].pc = "applying" /\ ToSet(runner[r].files) \subseteq history
  BY AllPassed DEF FinishReplay
<1>2. CASE End(r, "was pending")
  <2>1. "was pending" \in Outcomes
    BY DEF Outcomes
  <2> QED
    BY <1>1, <1>2, <2>1, EndStep
<1>3. CASE runner[r].applied = {} /\ runner' = [runner EXCEPT ![r].pc = "after"] /\ session' = NoRunner
  <2> PICK old : old = runner[r]
    OBVIOUS
  <2> PICK rec : rec = [old EXCEPT !.pc = "after"]
    OBVIOUS
  <2>1. runner' = [runner EXCEPT ![r] = rec] /\ old.applied = {} /\ ToSet(old.files) \subseteq history
    BY <1>1, <1>3
  <2>2. old \in RunnerRecord /\ Knows(old) /\ session = r /\ old.outcome = "none"
    BY <1>1, ApplyingFacts
  <2>3. /\ rec \in RunnerRecord /\ rec.pc = "after" /\ rec.before = old.before
        /\ rec.files = old.files /\ rec.applied = old.applied /\ rec.outcome = old.outcome
    BY <2>2 DEF RunnerRecord
  <2>4. Knows(rec)
    BY <2>1, <2>2, <2>3 DEF Knows
  <2> QED
    BY <1>1, <1>3, <2>1, <2>2, <2>3, <2>4, RunnerMovesOn
<1> QED
  BY <1>2, <1>3 DEF FinishReplay

\* What a replay reports of the history follows from what it remembers of it.
LEMMA CompareAfterStep ==
  ASSUME MigrationInv, NEW r \in Runners, CompareAfter(r)
  PROVE  MigrationInv'
<1>1. {"not a no-op", "confirmed", "assertions failed"} \subseteq Outcomes
  BY DEF Outcomes
<1>2. /\ runner[r].pc = "after" /\ UNCHANGED <<schema, history>> /\ Knows(runner[r])
      /\ \/ history # runner[r].before /\ End(r, "not a no-op")
         \/ End(r, "confirmed")
         \/ End(r, "assertions failed")
  BY DEF CompareAfter, MigrationInv
<1>3. runner[r].applied = {} /\ ToSet(runner[r].files) \subseteq history /\ runner[r].before \subseteq history
  BY <1>2 DEF Knows
<1> QED
  BY <1>1, <1>2, <1>3, EndStep

\* The execution of a file: it was not recorded, and all before it were executed.
LEMMA ApplyFileStep ==
  ASSUME MigrationInv, NEW r \in Runners, ApplyFile(r)
  PROVE  MigrationInv'
<1> PICK old : old = runner[r]
  OBVIOUS
<1> PICK f : f = Current(r)
  OBVIOUS
<1> PICK step, done : step = old.next + 1 /\ done = old.applied \cup {f}
  OBVIOUS
<1> PICK rec : rec = [old EXCEPT !.next = step, !.applied = done]
  OBVIOUS
<1> PICK entry : entry = [file |-> f, by |-> r]
  OBVIOUS
<1> PICK grown : grown = Append(schema, entry)
  OBVIOUS
<1> PICK more : more = history \cup {f}
  OBVIOUS
<1>1. /\ old.pc = "applying" /\ FilesLeft(r) /\ runner' = [runner EXCEPT ![r] = rec]
      /\ Records(history, f) = {} /\ schema' = grown /\ history' = more /\ session' = session
  BY DEF ApplyFile
<1>2. /\ old \in RunnerRecord /\ Knows(old) /\ BuiltBy(r, old) /\ session = r
      /\ old.files \in Seq(Migrations) /\ old.next \in Nat \ {0}
      /\ ValidSequence(old.files) /\ DOMAIN old.files = 1..Len(old.files) /\ Len(old.files) \in Nat
      /\ old.next \in DOMAIN old.files /\ f = old.files[old.next] /\ f \in Migrations
      /\ history \in SUBSET Migrations
  BY <1>1, ApplyingFacts
<1>3. /\ rec \in RunnerRecord /\ rec.pc = "applying" /\ rec.before = old.before
      /\ rec.files = old.files /\ rec.applied = old.applied \cup {f} /\ rec.outcome = old.outcome
      /\ rec.next = old.next + 1 /\ rec.seen = old.seen
  <2>1. /\ old.next + 1 \in Nat \ {0} /\ old.applied \cup {f} \in SUBSET Migrations
    BY <1>2 DEF RunnerRecord
  <2> QED
    BY <1>1, <1>2, <2>1 DEF RunnerRecord
<1>4. /\ runner' \in [Runners -> RunnerRecord] /\ runner'[r] = rec
      /\ \A q \in Runners \ {r} : runner'[q] = runner[q]
  BY <1>1, <1>3 DEF MigrationInv, MigrationTypes
<1>5. /\ schema \in Seq([file : Migrations, by : Runners \cup {NoRunner}])
      /\ entry \in [file : Migrations, by : Runners \cup {NoRunner}]
      /\ entry.file = f /\ entry.by = r /\ entry.by # NoRunner
  BY <1>2, NoRunnerAssumption DEF MigrationInv, MigrationTypes
<1> PICK top : top = Len(schema) + 1
  OBVIOUS
<1>6. /\ grown \in Seq([file : Migrations, by : Runners \cup {NoRunner}])
      /\ Len(schema) \in Nat /\ DOMAIN schema = 1..Len(schema) /\ top \in Nat
      /\ DOMAIN grown = DOMAIN schema \cup {top} /\ top \notin DOMAIN schema
      /\ grown[top] = entry /\ \A i \in DOMAIN schema : grown[i] = schema[i]
  <2>1. Len(schema) \in Nat /\ DOMAIN schema = 1..Len(schema)
    BY <1>5, LenProperties
  <2>2. /\ grown \in Seq([file : Migrations, by : Runners \cup {NoRunner}])
        /\ Len(grown) = Len(schema) + 1 /\ grown[Len(schema) + 1] = entry
        /\ \A i \in 1..Len(schema) : grown[i] = schema[i]
    BY <1>5, AppendProperties
  <2>3. DOMAIN grown = 1..Len(grown)
    BY <2>2, LenProperties
  <2> QED
    BY <2>1, <2>2, <2>3
<1>7. MigrationTypes'
  BY <1>1, <1>2, <1>4, <1>6 DEF MigrationInv, MigrationTypes
<1>8. LockHeld'
  BY <1>1, <1>2, <1>4 DEF MigrationInv, LockHeld
<1> PICK tracked : tracked = {i \in DOMAIN schema : schema[i].by # NoRunner}
  OBVIOUS
<1>9. /\ \A i, j \in tracked : Name(schema[i].file) = Name(schema[j].file) => i = j
      /\ history = {schema[i].file : i \in tracked}
  BY DEF MigrationInv, ExecutedOnce
<1>10. \A i \in tracked : Name(schema[i].file) # Name(f)
  BY <1>1, <1>9 DEF Records
<1>11. {i \in DOMAIN grown : grown[i].by # NoRunner} = tracked \cup {top}
  BY <1>5, <1>6
<1>12. ExecutedOnce'
  <2> PICK all : all = tracked \cup {top}
    OBVIOUS
  <2>1. \A i, j \in all : Name(grown[i].file) = Name(grown[j].file) => i = j
    <3> SUFFICES ASSUME NEW i \in all, NEW j \in all, Name(grown[i].file) = Name(grown[j].file)
                 PROVE  i = j
      OBVIOUS
    <3>1. tracked \subseteq DOMAIN schema
      OBVIOUS
    <3>2. CASE i \in tracked /\ j \in tracked
      BY <1>6, <1>9, <3>1, <3>2
    <3>3. CASE i = top /\ j \in tracked
      BY <1>5, <1>6, <1>10, <3>1, <3>3
    <3>4. CASE i \in tracked /\ j = top
      BY <1>5, <1>6, <1>10, <3>1, <3>4
    <3> QED
      BY <3>2, <3>3, <3>4
  <2>2. more = {grown[i].file : i \in all}
    BY <1>5, <1>6, <1>9
  <2>3. all = {i \in DOMAIN grown : grown[i].by # NoRunner}
    BY <1>11
  <2> QED
    BY <1>1, <2>1, <2>2, <2>3 DEF ExecutedOnce
<1>13. Knows(rec)'
  <2>1. \A n \in DOMAIN old.files : n <= old.next => old.files[n].prefix = n
    BY <1>1, <1>2 DEF Knows
  <2>2. \A n \in DOMAIN rec.files : n <= rec.next => rec.files[n].prefix = n
    <3>1. \A n \in DOMAIN old.files : n <= old.next + 1 => old.files[n].prefix = n
      BY <1>2, <2>1, NextFile
    <3> QED
      BY <1>3, <3>1
  <2>3. \A n \in DOMAIN rec.files : n < rec.next => rec.files[n] \in more
    <3> SUFFICES ASSUME NEW n \in DOMAIN rec.files, n < rec.next PROVE rec.files[n] \in more
      OBVIOUS
    <3>1. n = old.next \/ n < old.next
      BY <1>2, <1>3
    <3>2. old.files[n] \in more
      BY <1>1, <1>2, <1>3, <3>1 DEF Knows
    <3> QED
      BY <1>3, <3>2
  <2>4. rec.outcome = "none" /\ rec.before \subseteq more /\ more = rec.seen \cup rec.applied
    BY <1>1, <1>2, <1>3 DEF Knows
  <2> QED
    BY <1>1, <1>2, <1>3, <2>2, <2>3, <2>4 DEF Knows
<1>14. BuiltBy(r, rec)'
  <2> SUFFICES ASSUME NEW i \in DOMAIN grown, grown[i].by = r
               PROVE  /\ grown[i].file \in rec.applied
                      /\ \A n \in DOMAIN rec.files : rec.files[n].prefix < grown[i].file.prefix =>
                           \E j \in 1..(i - 1) : grown[j].file = rec.files[n]
    BY <1>1 DEF BuiltBy
  <2>1. CASE i \in DOMAIN schema
    <3>1. \A j \in 1..(i - 1) : grown[j] = schema[j]
      BY <1>6, <2>1
    <3>2. /\ schema[i].file \in old.applied
          /\ \A n \in DOMAIN old.files : old.files[n].prefix < schema[i].file.prefix =>
               \E j \in 1..(i - 1) : schema[j].file = old.files[n]
      BY <1>2, <1>6, <2>1 DEF BuiltBy
    <3>3. grown[i] = schema[i]
      BY <1>6, <2>1
    <3> QED
      BY <1>3, <3>1, <3>2, <3>3
  <2>2. CASE i = top
    <3>1. grown[i].file = f
      BY <1>5, <1>6, <2>2
    <3> SUFFICES ASSUME NEW n \in DOMAIN old.files, old.files[n].prefix < f.prefix
                 PROVE  \E j \in 1..(top - 1) : grown[j].file = old.files[n]
      BY <1>3, <2>2, <3>1
    <3>2. \A k \in DOMAIN old.files : k <= old.next => old.files[k].prefix = k
      BY <1>1, <1>2 DEF Knows
    <3>3. n < old.next
      BY <1>2, <3>2, EarlierFiles
    <3>4. old.files[n] \in history
      BY <1>1, <1>2, <3>3 DEF Knows
    <3>5. PICK j \in tracked : schema[j].file = old.files[n]
      BY <1>9, <3>4
    <3>6. j \in 1..(top - 1) /\ grown[j] = schema[j]
      BY <1>6, <3>5
    <3> QED
      BY <3>5, <3>6
  <2> QED
    BY <1>6, <2>1, <2>2
<1>15. ASSUME NEW q \in Runners \ {r}
       PROVE  (Knows(runner[q]) /\ BuiltBy(q, runner[q]))'
  <2> PICK other : other = runner[q]
    OBVIOUS
  <2>1. other.pc # "applying" /\ Knows(other) /\ BuiltBy(q, other) /\ runner'[q] = other
    BY <1>2, <1>4 DEF MigrationInv, LockHeld
  <2>2. history \subseteq more
    OBVIOUS
  <2>3. Knows(other)'
    BY <1>1, <2>1, <2>2 DEF Knows
  <2>4. BuiltBy(q, other)'
    <3> SUFFICES ASSUME NEW i \in DOMAIN grown, grown[i].by = q
                 PROVE  /\ grown[i].file \in other.applied
                        /\ \A n \in DOMAIN other.files : other.files[n].prefix < grown[i].file.prefix =>
                             \E j \in 1..(i - 1) : grown[j].file = other.files[n]
      BY <1>1 DEF BuiltBy
    <3>1. i \in DOMAIN schema
      BY <1>5, <1>6
    <3>2. \A j \in 1..(i - 1) : grown[j] = schema[j]
      BY <1>6, <3>1
    <3> QED
      BY <1>6, <2>1, <3>1, <3>2 DEF BuiltBy
  <2> QED
    BY <2>1, <2>3, <2>4
<1>16. (Knows(runner[r]) /\ BuiltBy(r, runner[r]))'
  BY <1>4, <1>13, <1>14
<1> QED
  BY <1>7, <1>8, <1>12, <1>15, <1>16 DEF MigrationInv

\* Nothing is tracked when the first runner starts.
LEMMA MigrationStart ==
  ASSUME MigrationInit
  PROVE  MigrationInv
<1>1. PICK untracked \in {{}, PreTooling} :
        schema = [i \in 1..Cardinality(untracked) |->
                    [file |-> InOrder(untracked)[i], by |-> NoRunner]]
  BY DEF MigrationInit
<1>2. history = {} /\ session = NoRunner /\ runner = [r \in Runners |-> NotStarted]
  BY DEF MigrationInit
<1>3. /\ untracked \in SUBSET Migrations /\ IsFiniteSet(untracked)
      /\ \A f, g \in untracked : Name(f) = Name(g) => f = g
  BY DirectoriesAssumption, FS_EmptySet
<1> PICK files : files = InOrder(untracked)
  OBVIOUS
<1> PICK n : n = Cardinality(untracked)
  OBVIOUS
<1>4. files \in Seq(Migrations) /\ Len(files) = n /\ n \in Nat
  BY <1>3, InOrderIsSequence, FS_CardinalityType
<1>5. \A i \in 1..n : files[i] \in Migrations
  BY <1>4
<1>6. schema = [i \in 1..n |-> [file |-> files[i], by |-> NoRunner]]
  BY <1>1
<1>7. schema \in Seq([file : Migrations, by : Runners \cup {NoRunner}])
  <2>1. \A i \in 1..n : [file |-> files[i], by |-> NoRunner]
                        \in [file : Migrations, by : Runners \cup {NoRunner}]
    BY <1>5
  <2>2. schema \in [1..n -> [file : Migrations, by : Runners \cup {NoRunner}]]
    BY <1>6, <2>1, Zenon
  <2>3. PICK Execution : Execution = [file : Migrations, by : Runners \cup {NoRunner}]
    OBVIOUS
  <2>4. schema \in [1..n -> Execution]
    BY <2>2, <2>3
  <2>5. schema \in Seq(Execution)
    BY <1>4, <2>4, SeqDef
  <2> QED
    BY <2>3, <2>5
<1>8. \A i \in DOMAIN schema : schema[i].by = NoRunner
  BY <1>6
<1>9. MigrationTypes
  BY <1>2, <1>7, NotStartedRecord DEF MigrationTypes
<1>10. LockHeld
  BY <1>2 DEF LockHeld, NotStarted
<1>11. ExecutedOnce
  <2>1. {i \in DOMAIN schema : schema[i].by # NoRunner} = {}
    BY <1>8
  <2> QED
    BY <1>2, <2>1 DEF ExecutedOnce
<1>12. ASSUME NEW r \in Runners PROVE Knows(runner[r]) /\ BuiltBy(r, runner[r])
  <2>1. NotStarted.pc = "idle"
    BY DEF NotStarted
  <2>2. Knows(NotStarted)
    BY <2>1, NotStartedRecord DEF Knows
  <2>3. BuiltBy(r, NotStarted)
    BY <1>8, NoRunnerAssumption DEF BuiltBy
  <2> QED
    BY <1>2, <2>2, <2>3
<1> QED
  BY <1>9, <1>10, <1>11, <1>12 DEF MigrationInv

\* Every step of a runner keeps the invariant.
LEMMA MigrationStep ==
  ASSUME MigrationInv, [MigrationNext]_migrationVars
  PROVE  MigrationInv'
<1>1. CASE UNCHANGED migrationVars
  <2>1. schema' = schema /\ history' = history /\ session' = session /\ runner' = runner
    BY <1>1 DEF migrationVars
  <2>2. MigrationTypes' /\ LockHeld' /\ ExecutedOnce'
    BY <2>1 DEF MigrationInv, MigrationTypes, LockHeld, ExecutedOnce
  <2>3. ASSUME NEW r \in Runners PROVE (Knows(runner[r]) /\ BuiltBy(r, runner[r]))'
    <3> PICK rec : rec = runner[r]
      OBVIOUS
    <3>1. Knows(rec) /\ BuiltBy(r, rec)
      BY DEF MigrationInv
    <3>2. Knows(rec)' /\ BuiltBy(r, rec)'
      BY <2>1, <3>1 DEF Knows, BuiltBy
    <3> QED
      BY <2>1, <3>2
  <2> QED
    BY <2>2, <2>3 DEF MigrationInv
<1>2. ASSUME NEW r \in Runners, NEW command \in Commands, NEW dir \in Directories,
             StartRunner(r, command, dir)
      PROVE  MigrationInv'
  BY <1>2, StartRunnerStep
<1>3. ASSUME NEW r \in Runners, RunnerStep(r)
      PROVE  MigrationInv'
  BY <1>3, LookStep, SnapshotBeforeStep, LockSessionStep, ReadHistoryStep, SkipAppliedStep, StopStep,
     ApplyFileStep, FinishMigrateStep, FinishReplayStep, CompareAfterStep DEF RunnerStep
<1>4. ASSUME NEW r \in Runners, KillRunner(r)
      PROVE  MigrationInv'
  BY <1>4, StopStep
<1> QED
  BY <1>1, <1>2, <1>3, <1>4 DEF MigrationNext

\* What the runners report and build follows from what each of them knows.
LEMMA MigrationInvIsEnough ==
  ASSUME MigrationInv
  PROVE  MigrationsAreOrderly
<1>1. \A r \in Runners : Knows(runner[r]) /\ BuiltBy(r, runner[r])
  BY DEF MigrationInv
<1>2. ExecutedOnce
  BY DEF MigrationInv
<1>3. SnapshotIsFresh
  BY <1>1 DEF SnapshotIsFresh, Knows
<1>4. BuiltInOrder
  BY <1>1 DEF BuiltInOrder, BuiltBy
<1>5. MigratedMeansAll
  BY <1>1 DEF MigratedMeansAll, Knows
<1>6. ReplayTellsTheTruth
  <2> SUFFICES ASSUME NEW r \in Runners, runner[r].outcome \in {"confirmed", "not a no-op"}
               PROVE  /\ {i \in DOMAIN schema : schema[i].by = r} = {}
                      /\ runner[r].outcome = "confirmed" => ToSet(runner[r].files) \subseteq history
                      /\ runner[r].outcome = "not a no-op" =>
                           {i \in DOMAIN schema : schema[i].by \notin {r, NoRunner}} # {}
    BY DEF ReplayTellsTheTruth
  <2>1. runner[r].applied = {}
    BY <1>1 DEF Knows
  <2>2. \A i \in DOMAIN schema : schema[i].by # r
    BY <1>1, <2>1 DEF BuiltBy
  <2>3. CASE runner[r].outcome = "confirmed"
    BY <1>1, <2>2, <2>3 DEF Knows
  <2>4. CASE runner[r].outcome = "not a no-op"
    <3>1. PICK h \in history : h \notin runner[r].before
      BY <1>1, <2>4 DEF Knows
    <3>2. PICK i \in DOMAIN schema : schema[i].by # NoRunner /\ schema[i].file = h
      BY <1>2, <3>1 DEF ExecutedOnce
    <3>3. i \in {k \in DOMAIN schema : schema[k].by \notin {r, NoRunner}}
      BY <2>2, <3>2
    <3> QED
      BY <2>2, <2>4, <3>3
  <2> QED
    BY <2>3, <2>4
<1> QED
  BY <1>2, <1>3, <1>4, <1>5, <1>6 DEF MigrationsAreOrderly

\* Whatever runners overlap, are killed or lose their connection: a runner acts on a
\* history that still is the history, no file is executed twice or on anything but
\* what its directory says comes before it, and what a runner reports is so
\* (scripts/db-migrations.mts).
THEOREM MigrationsOrderly == MigrationSpec => []MigrationsAreOrderly
<1>1. MigrationInit => MigrationInv
  BY MigrationStart
<1>2. MigrationInv /\ [MigrationNext]_migrationVars => MigrationInv'
  BY MigrationStep
<1>3. MigrationInv => MigrationsAreOrderly
  BY MigrationInvIsEnough
<1> QED
  BY <1>1, <1>2, <1>3, PTL DEF MigrationSpec
=============================================================================
