-------------------------- MODULE MigrationRunner --------------------------
(***************************************************************************)
(* The migration runner: processes that bring one database to the schema   *)
(* of the migrations directory they were started with.                     *)
(*                                                                         *)
(* A runner reads its directory, waits for the session advisory lock,      *)
(* reads the migration history, and runs each pending file in a            *)
(* transaction of its own that also records the file's checksum.  Two      *)
(* checkouts may differ: a later release, a branch with another file under *)
(* the same number, or an applied file that was edited.  A process may be  *)
(* killed, or lose its connection, at any point; the server then rolls its *)
(* transaction back and frees its lock.                                    *)
(***************************************************************************)
EXTENDS Integers, Sequences, FiniteSets, SequencesExt

CONSTANTS Runners,      \* the runner processes
          NoRunner,
          Directories,  \* the contents a migrations directory can have
          PreTooling,   \* what an older database had run without a history
          Provides      \* the numbers of the files the assertions look for

\* A file: its number, the place of its description among those of the same
\* number, and its checksum.
Migrations == [prefix : Nat, label : Nat, sha : Nat]

Name(f) == <<f.prefix, f.label>>

ASSUME NoRunnerAssumption == NoRunner \notin Runners
ASSUME DirectoriesAssumption ==
    \A dir \in Directories \cup {PreTooling} :
        /\ dir \in SUBSET Migrations /\ IsFiniteSet(dir)
        /\ \A f, g \in dir : Name(f) = Name(g) => f = g

VARIABLES schema,   \* the executions that were committed, in order
          history,  \* jpx_meta.schema_migrations
          session,  \* the runner that holds the advisory lock
          runner    \* what each process is doing

migrationVars == <<schema, history, session, runner>>

\* Nothing of a process that has not started.
NotStarted ==
    [pc |-> "idle", command |-> "none", files |-> <<>>, seen |-> {}, next |-> 1,
     applied |-> {}, before |-> {}, outcome |-> "none"]

-----------------------------------------------------------------------------
(* Discovery.                                                              *)

\* Lexical order of the file names: the i-th file has i - 1 files before it.
ComesBefore(f, g) == f.prefix < g.prefix \/ (f.prefix = g.prefix /\ f.label < g.label)
InOrder(dir) ==
    [i \in 1..Cardinality(dir) |->
        CHOOSE f \in dir : Cardinality({g \in dir : ComesBefore(g, f)}) = i - 1]

\* validateMigrationSequence: unique numbers, from 1, without a gap.
ValidSequence(files) ==
    /\ \A i, j \in DOMAIN files : files[i].prefix = files[j].prefix => i = j
    /\ files # <<>> => files[1].prefix = 1
    /\ \A i \in 2..Len(files) : files[i].prefix = files[i - 1].prefix + 1

-----------------------------------------------------------------------------
(* Reading the database.                                                   *)

\* What is recorded of file f in a snapshot of the history.
Records(snapshot, f) == {h \in snapshot : Name(h) = Name(f)}

Drifted(snapshot, f) == \E h \in Records(snapshot, f) : h.sha # f.sha

Executed == {schema[i].file : i \in DOMAIN schema}

\* The capability assertions find what the files that provide it leave behind.
CapabilitiesHold == \A n \in Provides : \E f \in Executed : f.prefix = n

\* The file the runner looks at next.
Current(r) == runner[r].files[runner[r].next]

FilesLeft(r) == runner[r].next \in DOMAIN runner[r].files

-----------------------------------------------------------------------------
(* Steps of a runner.                                                      *)

\* Mutant of End: the lock is kept by a runner that ended.
EndKeepingLock(r, outcome) ==
    /\ runner' = [runner EXCEPT ![r].pc = "ended", ![r].outcome = outcome]
    /\ UNCHANGED session

\* The command is over: the lock is freed in a finally, the client is closed.
End(r, outcome) ==
    /\ runner' = [runner EXCEPT ![r].pc = "ended", ![r].outcome = outcome]
    /\ session' = IF session = r THEN NoRunner ELSE session

\* The files are read, hashed and checked before anything is asked of the
\* database; status, verify and the first snapshot of replay take no lock.
StartRunner(r, command, dir) ==
    /\ runner[r].pc = "idle"
    /\ \/ /\ ~ ValidSequence(InOrder(dir))
          /\ command # "verify"
          /\ End(r, "invalid directory")
       \/ /\ command = "verify" \/ ValidSequence(InOrder(dir))
          /\ runner' = [runner EXCEPT ![r] = [NotStarted EXCEPT
                !.pc = IF command = "migrate" THEN "queued" ELSE command,
                !.command = command,
                !.files = InOrder(dir)]]
          /\ UNCHANGED session
    /\ UNCHANGED <<schema, history>>

\* status: pending files are not an error, drifted ones are.
ReportStatus(r) ==
    /\ runner[r].pc = "status"
    /\ \/ /\ \E i \in DOMAIN runner[r].files : Drifted(history, runner[r].files[i])
          /\ End(r, "drift")
       \/ /\ \A i \in DOMAIN runner[r].files : ~ Drifted(history, runner[r].files[i])
          /\ End(r, "no drift")
    /\ UNCHANGED <<schema, history>>

VerifyCapabilities(r) ==
    /\ runner[r].pc = "verify"
    /\ \/ CapabilitiesHold /\ End(r, "verified")
       \/ ~ CapabilitiesHold /\ End(r, "assertions failed")
    /\ UNCHANGED <<schema, history>>

SnapshotBefore(r) ==
    /\ runner[r].pc = "replay"
    /\ runner' = [runner EXCEPT ![r].pc = "queued", ![r].before = history]
    /\ UNCHANGED <<schema, history, session>>

LockSession(r) ==
    /\ runner[r].pc = "queued"
    /\ session = NoRunner
    /\ runner' = [runner EXCEPT ![r].pc = "locked"]
    /\ session' = r
    /\ UNCHANGED <<schema, history>>

ReadHistory(r) ==
    /\ runner[r].pc = "locked"
    /\ runner' = [runner EXCEPT ![r].pc = "applying", ![r].seen = history]
    /\ UNCHANGED <<schema, history, session>>

SkipApplied(r) ==
    /\ runner[r].pc = "applying"
    /\ FilesLeft(r)
    /\ Records(runner[r].seen, Current(r)) # {}
    /\ ~ Drifted(runner[r].seen, Current(r))
    /\ runner' = [runner EXCEPT ![r].next = @ + 1]
    /\ UNCHANGED <<schema, history, session>>

StopAtDrift(r) ==
    /\ runner[r].pc = "applying"
    /\ FilesLeft(r)
    /\ Drifted(runner[r].seen, Current(r))
    /\ End(r, "drift")
    /\ UNCHANGED <<schema, history>>

\* Mutant of ApplyFile: the process may die between the file's transaction and
\* a second one that records it.
ApplyThenRecord(r) ==
    /\ runner[r].pc = "applying"
    /\ FilesLeft(r)
    /\ Records(runner[r].seen, Current(r)) = {}
    /\ Records(history, Current(r)) = {}
    /\ schema' = Append(schema, [file |-> Current(r), by |-> r])
    /\ \/ /\ history' = history \cup {Current(r)}
          /\ runner' = [runner EXCEPT ![r].next = @ + 1, ![r].applied = @ \cup {Current(r)}]
          /\ UNCHANGED session
       \/ End(r, "killed") /\ UNCHANGED history

\* One transaction: the file's statements and the row that records it, whose
\* primary key is the file's name.
ApplyFile(r) ==
    /\ runner[r].pc = "applying"
    /\ FilesLeft(r)
    /\ Records(runner[r].seen, Current(r)) = {}
    /\ Records(history, Current(r)) = {}
    /\ schema' = Append(schema, [file |-> Current(r), by |-> r])
    /\ history' = history \cup {Current(r)}
    /\ runner' = [runner EXCEPT ![r].next = @ + 1, ![r].applied = @ \cup {Current(r)}]
    /\ UNCHANGED session

\* A statement of the transaction fails, the insert on a taken key included:
\* it is rolled back and what was applied before it stays.
FailFile(r) ==
    /\ runner[r].pc = "applying"
    /\ FilesLeft(r)
    /\ Records(runner[r].seen, Current(r)) = {}
    /\ End(r, "failed")
    /\ UNCHANGED <<schema, history>>

\* migrate asserts the capabilities under the lock; what it applied stays
\* applied when they fail.
FinishMigrate(r) ==
    /\ runner[r].pc = "applying"
    /\ runner[r].command = "migrate"
    /\ ~ FilesLeft(r)
    /\ \/ CapabilitiesHold /\ End(r, "migrated")
       \/ ~ CapabilitiesHold /\ End(r, "assertions failed")
    /\ UNCHANGED <<schema, history>>

\* replay frees the lock before it looks at the history again.
FinishReplay(r) ==
    /\ runner[r].pc = "applying"
    /\ runner[r].command = "replay"
    /\ ~ FilesLeft(r)
    /\ \/ runner[r].applied # {} /\ End(r, "was pending")
       \/ /\ runner[r].applied = {}
          /\ runner' = [runner EXCEPT ![r].pc = "after"]
          /\ session' = NoRunner
    /\ UNCHANGED <<schema, history>>

CompareAfter(r) ==
    /\ runner[r].pc = "after"
    /\ \/ history # runner[r].before /\ End(r, "not a no-op")
       \/ history = runner[r].before /\ CapabilitiesHold /\ End(r, "confirmed")
       \/ history = runner[r].before /\ ~ CapabilitiesHold /\ End(r, "assertions failed")
    /\ UNCHANGED <<schema, history>>

\* The process is killed, or its connection is lost and its next statement fails.
KillRunner(r) ==
    /\ runner[r].pc \notin {"idle", "ended"}
    /\ End(r, "killed")
    /\ UNCHANGED <<schema, history>>

RunnerStep(r) ==
    \/ ReportStatus(r) \/ VerifyCapabilities(r) \/ SnapshotBefore(r)
    \/ LockSession(r) \/ ReadHistory(r)
    \/ SkipApplied(r) \/ StopAtDrift(r) \/ ApplyFile(r) \/ FailFile(r)
    \/ FinishMigrate(r) \/ FinishReplay(r) \/ CompareAfter(r)

-----------------------------------------------------------------------------
\* A new database, or one whose schema is older than the history table.
MigrationInit ==
    /\ \E untracked \in {{}, PreTooling} :
        schema = [i \in 1..Cardinality(untracked) |->
                    [file |-> InOrder(untracked)[i], by |-> NoRunner]]
    /\ history = {}
    /\ session = NoRunner
    /\ runner = [r \in Runners |-> NotStarted]

Commands == {"migrate", "status", "verify", "replay"}

MigrationNext ==
    \E r \in Runners :
        \/ \E command \in Commands, dir \in Directories : StartRunner(r, command, dir)
        \/ RunnerStep(r)
        \/ KillRunner(r)

\* A process that waits for nobody goes on.
MigrationFairness == \A r \in Runners : WF_migrationVars(RunnerStep(r))

MigrationSpec == MigrationInit /\ [][MigrationNext]_migrationVars /\ MigrationFairness

-----------------------------------------------------------------------------
(* What the runner is for.                                                 *)

\* The snapshot a runner decides by is never stale: until it ends, the history is
\* what it read and what it has applied since, whoever else is started or killed.
SnapshotIsFresh ==
    \A r \in Runners :
        runner[r].pc = "applying" => history = runner[r].seen \cup runner[r].applied

\* However often runners are started and killed, no file is executed a second
\* time once it is tracked, and the history names exactly what was executed.
ExecutedOnce ==
    LET tracked == {i \in DOMAIN schema : schema[i].by # NoRunner}
    IN  /\ \A i, j \in tracked : Name(schema[i].file) = Name(schema[j].file) => i = j
        /\ history = {schema[i].file : i \in tracked}

\* A file is executed only on top of every earlier file of its directory, each
\* with the content the directory has: an edited file stops all behind it.
BuiltInOrder ==
    \A i \in DOMAIN schema : \A r \in Runners :
        schema[i].by = r =>
            \A n \in DOMAIN runner[r].files :
                runner[r].files[n].prefix < schema[i].file.prefix =>
                    \E j \in 1..(i - 1) : schema[j].file = runner[r].files[n]

\* A migrate that reports success leaves every file of its directory recorded
\* with its own checksum, whatever other checkouts were run meanwhile.
MigratedMeansAll ==
    \A r \in Runners :
        runner[r].outcome = "migrated" => ToSet(runner[r].files) \subseteq history

\* A confirmed replay executed nothing and missed nothing, and one that reports a
\* changed history did not change it: another process migrated meanwhile.
ReplayTellsTheTruth ==
    \A r \in Runners :
        LET own == {i \in DOMAIN schema : schema[i].by = r}
            foreign == {i \in DOMAIN schema : schema[i].by \notin {r, NoRunner}}
        IN  /\ runner[r].outcome = "confirmed" =>
                  own = {} /\ ToSet(runner[r].files) \subseteq history
            /\ runner[r].outcome = "not a no-op" => own = {} /\ foreign # {}

\* Every runner ends, also behind one that failed or was killed with the lock.
EveryRunnerEnds ==
    \A r \in Runners : runner[r].pc # "idle" ~> runner[r].pc = "ended"

\* Whatever runners overlap, die or lose their session: a runner acts on a
\* history that is still the history, no file is executed twice nor on top of what
\* its directory does not say, and what a runner reports is so.
MigrationsAreOrderly ==
  /\ SnapshotIsFresh
  /\ ExecutedOnce
  /\ BuiltInOrder
  /\ MigratedMeansAll
  /\ ReplayTellsTheTruth
=============================================================================
