--------------------------- MODULE RuntimePosture ---------------------------
(***************************************************************************)
(* How an API process decides at boot what it is: config.ts reads the      *)
(* environment or refuses it, runtime.ts and the factories it calls build  *)
(* the store, the peripherals and the assistant from what was read, and    *)
(* app.ts derives its gates from the same configuration a second time.     *)
(*                                                                         *)
(* An environment is a record of what the variables say, as far as these   *)
(* decisions tell values apart.  garbage stands for a malformed PORT,      *)
(* DATABASE_POOL_MAX, DATABASE_MIGRATION_URL, SUPABASE_JWT_ALGS or advisor *)
(* limit: each of them throws while the configuration is read.             *)
(***************************************************************************)
CONSTANTS
  Urls,     \* database URLs
  NoUrl     \* no URL: the variable is unset or blank

ASSUME NoUrlIsNoUrl == NoUrl \notin Urls

PoolModes == {"direct", "session", "transaction"}

Environment ==
  [mode : {"unset", "demo", "normal", "unknown"}, garbage : BOOLEAN,
   databaseUrl : Urls \cup {NoUrl}, supabaseUrl : Urls \cup {NoUrl},
   poolMode : PoolModes \cup {"unset", "unknown"}, transactionFlag : BOOLEAN,
   jwks : BOOLEAN, secret : {"unset", "demo default", "own"},
   storage : BOOLEAN, docintel : BOOLEAN, openai : BOOLEAN,
   testReset : BOOLEAN]

(***************************************************************************)
(* config.ts                                                               *)
(***************************************************************************)
RuntimeMode(env) == IF env.mode = "unset" THEN "demo" ELSE env.mode

ConflictingUrls(env) ==
  /\ NoUrl \notin {env.databaseUrl, env.supabaseUrl}
  /\ env.databaseUrl # env.supabaseUrl

RuntimeUrl(env) ==
  IF env.databaseUrl = NoUrl THEN env.supabaseUrl ELSE env.databaseUrl

ConflictingPoolModes(env) ==
  /\ env.poolMode \in PoolModes \ {"transaction"}
  /\ env.transactionFlag

PoolMode(env) ==
  IF env.poolMode # "unset" THEN env.poolMode
  ELSE IF env.transactionFlag THEN "transaction" ELSE "direct"

\* The missing secret of normal mode is filled in like that of demo mode.
RefusesTyposOnly(env) ==
  \/ env.mode = "unknown"
  \/ env.garbage
  \/ ConflictingUrls(env)
  \/ env.poolMode = "unknown"
  \/ ConflictingPoolModes(env)
  \/ RuntimeMode(env) = "normal" /\ ~env.jwks

\* readApiRuntimeConfig throws: the process does not start.
RefusesToBoot(env) ==
  \/ env.mode = "unknown"
  \/ env.garbage
  \/ ConflictingUrls(env)
  \/ env.poolMode = "unknown"
  \/ ConflictingPoolModes(env)
  \/ RuntimeMode(env) = "normal" /\ ~env.jwks
  \/ RuntimeMode(env) = "normal" /\ env.secret # "own"

\* describeBootPosture: the line an operator reads, from the configuration.
BootLog(env) ==
  [runtimeMode |-> RuntimeMode(env),
   ledgerStore |-> IF RuntimeMode(env) = "demo" THEN "memory"
                   ELSE IF RuntimeUrl(env) # NoUrl THEN "postgres"
                   ELSE "unavailable",
   authEnabled |-> env.jwks,
   corsPolicy  |-> IF RuntimeMode(env) = "demo" THEN "wildcard" ELSE "allowlist",
   rateLimitEnabled |-> ~(env.testReset /\ RuntimeMode(env) = "demo")]

(***************************************************************************)
(* runtime.ts and the factories                                            *)
(***************************************************************************)
\* createBlobUploader and createDocumentIntelligenceClient.
Peripheral(configured, failClosed) ==
  IF configured THEN "azure" ELSE IF failClosed THEN "unavailable" ELSE "stub"

\* createAiRuntime, whose choice buildAiMetadata repeats for runtime-info.
AiRuntime(env) ==
  IF RuntimeMode(env) = "demo" THEN "local-demo"
  ELSE IF env.openai THEN "azure-openai" ELSE "unavailable"

\* createAdvisorModel, which createApp leaves out in demo mode.
AdvisorModel(env) == RuntimeMode(env) # "demo" /\ env.openai

LedgerStore(env) ==
  IF RuntimeMode(env) = "demo" THEN "memory"
  ELSE IF RuntimeUrl(env) # NoUrl THEN "postgres" ELSE "unavailable"

\* Vector retrieval needs the shared client and an operational runtime.
VectorRetrieval(env) ==
  LedgerStore(env) = "postgres" /\ AiRuntime(env) # "unavailable"

\* createApiRuntimeDependencies and the gates createApp derives itself.
Posture(env) ==
  [mode     |-> RuntimeMode(env),
   store    |-> LedgerStore(env),
   url      |-> IF LedgerStore(env) = "postgres" THEN RuntimeUrl(env) ELSE NoUrl,
   prepare  |-> PoolMode(env) # "transaction",
   auth     |-> env.jwks,
   secret   |-> IF env.secret = "unset" THEN "demo default" ELSE env.secret,
   blob     |-> Peripheral(env.storage, RuntimeMode(env) = "normal"),
   docintel |-> Peripheral(env.docintel, RuntimeMode(env) = "normal"),
   ai       |-> AiRuntime(env),
   model    |-> AdvisorModel(env),
   vector   |-> VectorRetrieval(env),
   cors     |-> IF RuntimeMode(env) = "demo" THEN "wildcard" ELSE "allowlist",
   limited  |-> ~(env.testReset /\ RuntimeMode(env) = "demo"),
   resettable |-> /\ env.testReset
                  /\ RuntimeMode(env) = "demo"
                  /\ LedgerStore(env) = "memory"]

\* GET /ready, given what the ping of the store answers.
Ready(posture, pingOk) ==
  /\ posture.store = "postgres" => pingOk
  /\ posture.store # "unavailable"
  /\ posture.ai # "unavailable"
  /\ "unavailable" \notin {posture.blob, posture.docintel}

(***************************************************************************)
(* What a posture must be                                                  *)
(***************************************************************************)
\* Normal mode never runs on a demo fallback: every token is verified, tool
\* approvals are signed with a secret of its own, the budgets hold, the ledger
\* cannot be reset, and nothing that is missing is replaced by a stub.
FailsClosed(posture) ==
  posture.mode # "demo" =>
    /\ posture.mode = "normal"
    /\ posture.auth
    /\ posture.secret = "own"
    /\ posture.limited
    /\ ~posture.resettable
    /\ posture.cors # "wildcard"
    /\ posture.store # "memory"
    /\ "stub" \notin {posture.blob, posture.docintel}
    /\ posture.ai # "local-demo"

\* The boot line, computed from the configuration, says what was built.
LogTellsTheTruth(env, posture) ==
  BootLog(env) =
    [runtimeMode |-> posture.mode, ledgerStore |-> posture.store,
     authEnabled |-> posture.auth, corsPolicy |-> posture.cors,
     rateLimitEnabled |-> posture.limited]

\* No setting is ignored: a database URL that is set, under either name, is
\* the one the store uses, and a transaction pooler gets no prepared
\* statements, whichever of the two variables announces it.
SettingsHonoured(env, posture) ==
  /\ posture.store = "postgres" =>
       {env.databaseUrl, env.supabaseUrl} \subseteq {posture.url, NoUrl}
  /\ env.poolMode = "transaction" \/ env.transactionFlag => ~posture.prepare

\* A process of normal mode that says it is ready has live services for all it
\* does: a database that answers, blob storage, extraction and a model.
ReadyIsLive(posture) ==
  posture.mode = "normal" /\ Ready(posture, TRUE) =>
    /\ posture.store = "postgres"
    /\ posture.blob = "azure"
    /\ posture.docintel = "azure"
    /\ posture.model
    /\ posture.vector
=============================================================================
