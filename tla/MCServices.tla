------------------------------ MODULE MCServices ------------------------------
(***************************************************************************)
(* Finite instances of what has to end: the migration runner, the API      *)
(* process, the advisor's turns and a sign-out.  The parts share no state  *)
(* in the code: part says which one this behaviour is about, and the       *)
(* others stay at one initial state.                                       *)
(***************************************************************************)
EXTENDS MigrationRunner, ApiServer, AdvisorChat, LocalData

CONSTANTS UrlA, UrlB, s1, s2

VARIABLE part

servicesVars == <<part, migrationVars, apiVars, advisorVars, localDataVars>>

(***************************************************************************)
(* Migrations: a directory that grows, skips a number, or was changed      *)
(* after it was run.                                                       *)
(***************************************************************************)
File(prefix, label, sha) == [prefix |-> prefix, label |-> label, sha |-> sha]
MCPreTooling == {File(1, 1, 1)}
MCDirectories ==
  {{File(1, 1, 1)}, {File(1, 1, 1), File(2, 1, 2)},
   {File(1, 1, 1), File(2, 2, 3), File(3, 1, 4)},
   {File(1, 1, 9), File(2, 1, 2)}, {File(1, 1, 1), File(3, 1, 4)}}

(***************************************************************************)
(* The API: every combination of the settings with one database, all of    *)
(* the optional services or none; then traffic in normal mode over time,   *)
(* and traffic while the process drains.                                   *)
(***************************************************************************)
Full ==
  [mode |-> "normal", garbage |-> FALSE, databaseUrl |-> UrlA, supabaseUrl |-> NoUrl,
   poolMode |-> "unset", transactionFlag |-> FALSE, jwks |-> TRUE, secret |-> "own",
   storage |-> TRUE, docintel |-> TRUE, openai |-> TRUE, testReset |-> FALSE]
Demo == [Full EXCEPT !.mode = "demo", !.jwks = FALSE]
MCEnvironments ==
  {env \in Environment : /\ ~env.garbage /\ env.databaseUrl # UrlB
                         /\ env.storage = env.docintel /\ env.storage = env.openai}
  \cup {[Full EXCEPT !.garbage = TRUE], [Full EXCEPT !.storage = FALSE], [Full EXCEPT !.openai = FALSE]}

Posted(token) == [route |-> "post", token |-> token, valid |-> TRUE]
Signed(subject, key) == [subject |-> subject, key |-> key]
MCTraffic ==
  {Posted(token) : token \in {NoToken, Signed(s1, 1), Signed(s1, 2), Signed(s2, 1),
                              Signed(NoSubject, 1), Signed(s1, 0)}}
  \cup {[Posted(NoToken) EXCEPT !.route = to] : to \in {"probe", "info"}}
  \cup {[Posted(Signed(s1, 1)) EXCEPT !.route = to] : to \in {"report", "read"}}
  \cup {[Posted(Signed(s2, 1)) EXCEPT !.route = "reset"],
        [Posted(Signed(s1, 1)) EXCEPT !.route = "change", !.valid = FALSE]}

ApiParts == {"boot", "keys", "drain"}
\* Before a shutdown nothing depends on whether a client is still there.
LeaveOnceItDrains == \A r \in Requests : client'[r] = "left" => process.state # "up"
WithinPart ==
  CASE part = "boot" -> process.state' # process.state
    [] part = "keys" ->
         /\ environment' = Full /\ process.handlers' = process.handlers
         /\ \A r \in Requests : request'[r].route \in {"probe", "read", "post"}
    [] part = "drain" ->   \* the two signals are alike: SIGTERM comes first
         /\ environment' \in {Full, Demo} /\ UNCHANGED <<clock, provider>>
         /\ process'.handlers # {"SIGTERM"}
         /\ \A r \in Requests : request'[r].token \in {NoToken, Signed(s1, 1), Signed(s2, 1)}

(***************************************************************************)
(* Devices that refuse to clear one of the stores                          *)
(***************************************************************************)
MCRefusals == {{}, {"localStorage"}, {"cacheStorage"}, {"indexedDB"}}

-----------------------------------------------------------------------------
MCInit ==
  /\ part \in {"migrations", "advisor", "device"} \cup ApiParts
  /\ MigrationInit /\ (part = "migrations" \/ schema = <<>>)
  /\ ApiInit
  /\ AdvisorInit /\ (part = "advisor" \/ mode = "demo")
  /\ LocalDataInit /\ (part = "device" \/ (connected = {} /\ refuses = {}))

MCNext ==
  \/ part = "migrations" /\ MigrationNext /\ UNCHANGED <<part, apiVars, advisorVars, localDataVars>>
  \/ part \in ApiParts /\ ApiNext /\ WithinPart /\ LeaveOnceItDrains /\ UNCHANGED <<part, migrationVars, advisorVars, localDataVars>>
  \/ part = "advisor" /\ AdvisorNext /\ UNCHANGED <<part, migrationVars, apiVars, localDataVars>>
  \/ part = "device" /\ LocalDataNext /\ UNCHANGED <<part, migrationVars, apiVars, advisorVars>>

MCSpec ==
  /\ MCInit /\ [][MCNext]_servicesVars
  /\ MigrationFairness /\ ApiFairness /\ AdvisorFairness /\ LocalDataFairness

\* Nobody waits for ever: runners, requests, a process told to stop, turns of
\* the assistant and sign-outs come to an end.
EverythingEnds ==
  /\ EveryRunnerEnds
  /\ EveryRequestEnds
  /\ ShutdownEnds
  /\ EveryTurnSettles
  /\ SignOutEnds
=============================================================================
