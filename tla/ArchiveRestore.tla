--------------------------- MODULE ArchiveRestore ---------------------------
(***************************************************************************)
(* "mina-provision archive" (cmd/archive.go, internal/pg): runs that fetch *)
(* a dump, extract it in a work directory, tune the server and load the    *)
(* dump into one target database, together with the others who use that    *)
(* database: the archive writer, an operator, the server itself.           *)
(*                                                                         *)
(* A dump is a sequence of statements that commit one by one: "database"   *)
(* and "connect" are the CREATE DATABASE and \connect lines of a dump made *)
(* with pg_dump --create; "schema" is its types and tables, which fail     *)
(* where an archive's tables exist; "blocks" is the COPY of the blocks     *)
(* table and "rest" all that follows it.                                   *)
(***************************************************************************)
EXTENDS Naturals

CONSTANTS
  Runs,         \* bootstraps
  Nobody,       \* owner of what does not exist
  Writer,       \* the archive writer, or an operator's own archive
  Dumps,        \* the values of dumpCreates in use
  Modes,        \* the values of --if-present in use, and "skip-pg"
  Dirs,         \* directories
  WorkDir,      \* each run's --work-dir
  MaxBegin,     \* bound: runs begun
  MaxOutage,    \* bound: server crashes
  MaxOperator   \* bound: acts of the operator

ASSUME OwnersAssumption == Nobody \notin Runs /\ Writer \notin Runs /\ Nobody # Writer

ASSUME FlagsAssumption ==
  /\ Dumps \subseteq BOOLEAN /\ WorkDir \in [Runs -> Dirs]
  /\ Modes \subseteq {"import", "skip", "fail", "skip-pg"}
  /\ MaxBegin \in Nat /\ MaxOutage \in Nat /\ MaxOperator \in Nat

Owners == Runs \cup {Writer}

VARIABLES
  up,        \* the server accepts connections
  dbExists,  \* the target database exists
  foreign,   \* it holds objects that are no part of an archive
  schema,    \* who created the archive's tables in it
  blocks,    \* whose rows the blocks table has
  rest,      \* whose other rows and constraints it has
  tuned,     \* ALTER SYSTEM was applied
  sqlAt,     \* per work directory: whose extracted .sql the name denotes
  sqlWhole,  \* per work directory: that file is written to its end
  outages, operatorActs, begun  \* counters of the bounds

VARIABLES
  dumpCreates, \* the provider's dump has CREATE DATABASE (art.Database # "")
  pc,          \* where each run is
  mode,        \* its --if-present, or "skip-pg"
  statement,   \* the next statement of its load
  existing,    \* it loads with LoadSQLFileIntoExisting
  session,     \* its psql is connected
  reads,       \* what its psql has open: a whole or a partial file
  signalled    \* it received SIGINT or SIGTERM

(* Observations, which no action of a run depends on. *)
VARIABLES
  seen,        \* what each run's probe found
  kept         \* what the database has held ever since each run began

database == <<dbExists, foreign, schema, blocks, rest>>
files    == <<sqlAt, sqlWhole>>
others   == <<outages, operatorActs, begun, kept>>
config   == <<dumpCreates, mode>>
loading  == <<statement, existing, session, reads>>
vars == <<up, dbExists, foreign, schema, blocks, rest, tuned, sqlAt, sqlWhole,
          outages, operatorActs, begun, dumpCreates, pc, mode, statement,
          existing, session, reads, signalled, seen, kept>>

Probing    == {"probe_db", "probe_table", "probe_rows"}
Checking   == {"empty_db", "empty_count"}
Extracting == {"unlink", "create", "write"}
Active     == Probing \cup Checking \cup Extracting \cup {"get", "check", "tune", "open", "load"}
ExitZero   == {"ok", "skipped", "extracted"}
Ended      == {"idle", "err", "dead"} \cup ExitZero

Script == {"database", "connect", "schema", "blocks", "rest"}

(* Statements that run on a connection to the target database. *)
OnTarget == {"schema", "blocks", "rest"}

Init ==
  /\ up = TRUE
  /\ dbExists \in BOOLEAN
  /\ foreign \in {FALSE, dbExists}
  /\ schema \in {Nobody} \cup (IF dbExists THEN {Writer} ELSE {})
  /\ blocks \in {{}} \cup (IF schema = Writer THEN {{Writer}} ELSE {})
  /\ rest = blocks
  /\ tuned = FALSE
  /\ sqlAt = [d \in Dirs |-> Nobody]
  /\ sqlWhole = [d \in Dirs |-> FALSE]
  /\ outages = 0 /\ operatorActs = 0 /\ begun = 0
  /\ dumpCreates \in Dumps
  /\ pc = [r \in Runs |-> "idle"]
  /\ mode \in [Runs -> Modes]
  /\ statement = [r \in Runs |-> "database"]
  /\ existing = [r \in Runs |-> FALSE]
  /\ session = [r \in Runs |-> FALSE]
  /\ reads = [r \in Runs |-> "nothing"]
  /\ signalled = [r \in Runs |-> FALSE]
  /\ seen = [r \in Runs |-> "nothing"]
  /\ kept = [r \in Runs |-> {}]

Goto(r, label) == pc' = [pc EXCEPT ![r] = label]

(* A command started on a context that is done fails, and one that runs is *)
(* interrupted: a psql query succeeds only for a run without a signal.     *)
CanQuery(r) == up /\ ~signalled[r]

-----------------------------------------------------------------------------
(* runArchive; the probe is made only when it can decide something. *)
Begin(r) ==
  /\ pc[r] \in Ended
  /\ begun < MaxBegin
  /\ begun' = begun + 1
  /\ Goto(r, IF mode[r] \in {"skip", "fail"} THEN "probe_db" ELSE "get")
  /\ statement' = [statement EXCEPT ![r] = "database"]
  /\ existing' = [existing EXCEPT ![r] = FALSE]
  /\ session' = [session EXCEPT ![r] = FALSE]
  /\ reads' = [reads EXCEPT ![r] = "nothing"]
  /\ signalled' = [signalled EXCEPT ![r] = FALSE]
  /\ seen' = [seen EXCEPT ![r] = "nothing"]
  /\ kept' = [kept EXCEPT ![r] =
                (IF foreign \/ schema # Nobody THEN {"objects"} ELSE {})
                  \cup (IF blocks # {} THEN {"archive"} ELSE {})]
  /\ UNCHANGED <<up, database, tuned, files, outages, operatorActs, config>>

(***************************************************************************)
(* DetectArchive. "No archive" on positive evidence only.                  *)
(***************************************************************************)
NoArchive(r, evidence) ==
  Goto(r, "get") /\ seen' = [seen EXCEPT ![r] = evidence]

ProbeDatabase(r) ==
  /\ pc[r] = "probe_db"
  /\ CanQuery(r)
  /\ IF dbExists THEN Goto(r, "probe_table") /\ UNCHANGED seen
               ELSE NoArchive(r, "no_database")
  /\ UNCHANGED <<up, database, tuned, files, config, loading, signalled, others>>

ProbeTable(r) ==
  /\ pc[r] = "probe_table"
  /\ CanQuery(r) /\ dbExists
  /\ IF schema # Nobody THEN Goto(r, "probe_rows") /\ UNCHANGED seen
                        ELSE NoArchive(r, "no_table")
  /\ UNCHANGED <<up, database, tuned, files, config, loading, signalled, others>>

(* The count of the rows, and what runArchive makes of an archive. *)
ProbeRows(r) ==
  /\ pc[r] = "probe_rows"
  /\ CanQuery(r) /\ dbExists /\ schema # Nobody
  /\ IF blocks = {}
       THEN NoArchive(r, "no_rows")
       ELSE /\ Goto(r, IF mode[r] = "skip" THEN "skipped" ELSE "err")
            /\ seen' = [seen EXCEPT ![r] = "archive"]
  /\ UNCHANGED <<up, database, tuned, files, config, loading, signalled, others>>

-----------------------------------------------------------------------------
(* src.Get, whose steps module Fetch has: the dump is whole in the work *)
(* directory, for all that is known of it.                              *)
GetDump(r) ==
  /\ pc[r] = "get"
  /\ ~signalled[r]
  /\ Goto(r, "unlink")
  /\ UNCHANGED <<up, database, tuned, files, config, loading, signalled, seen, others>>

(* extract.TarGz on the one .sql file of a dump: whatever has its name is *)
(* removed, and the new file is created exclusively. No context.          *)
Unlink(r) ==
  /\ pc[r] = "unlink"
  /\ sqlAt' = [sqlAt EXCEPT ![WorkDir[r]] = Nobody]
  /\ sqlWhole' = [sqlWhole EXCEPT ![WorkDir[r]] = FALSE]
  /\ Goto(r, "create")
  /\ UNCHANGED <<up, database, tuned, config, loading, signalled, seen, others>>

Create(r) ==
  /\ pc[r] = "create"
  /\ IF sqlAt[WorkDir[r]] = Nobody
       THEN sqlAt' = [sqlAt EXCEPT ![WorkDir[r]] = r] /\ Goto(r, "write")
       ELSE UNCHANGED sqlAt /\ Goto(r, "err")
  /\ UNCHANGED <<up, database, tuned, sqlWhole, config, loading, signalled, seen, others>>

(* The copy ends. The name may denote another run's file by now. *)
Write(r) ==
  /\ pc[r] = "write"
  /\ sqlWhole' = IF sqlAt[WorkDir[r]] = r THEN [sqlWhole EXCEPT ![WorkDir[r]] = TRUE]
                                          ELSE sqlWhole
  /\ Goto(r, IF mode[r] = "skip-pg" THEN "extracted" ELSE "check")
  /\ UNCHANGED <<up, database, tuned, sqlAt, config, loading, signalled, seen, others>>

(* The file at the .sql's name: "gone", "partial" or "whole". *)
Sql(r) == IF sqlAt[WorkDir[r]] = Nobody THEN "gone"
          ELSE IF sqlWhole[WorkDir[r]] THEN "whole" ELSE "partial"

(* checkDump: the header names the configured database. A partial file may *)
(* hold the header or not. The context only reaches psql --version, whose  *)
(* failure is a warning.                                                   *)
CheckDump(r) ==
  /\ pc[r] = "check"
  /\ Sql(r) # "gone"
  /\ Goto(r, "tune")
  /\ UNCHANGED <<up, database, tuned, files, config, loading, signalled, seen, others>>

ApplyTuning(r) ==
  /\ pc[r] = "tune"
  /\ CanQuery(r)
  /\ tuned' = TRUE
  /\ Goto(r, IF dumpCreates THEN "empty_db" ELSE "open")
  /\ statement' = [statement EXCEPT ![r] = IF dumpCreates THEN "database" ELSE "schema"]
  /\ UNCHANGED <<up, database, files, config, existing, session, reads, signalled, seen, others>>

EmptyOfTables == schema = Nobody  \* mutant: only the archive's tables are counted

(* The objects EmptyDatabase counts. *)
Empty == ~foreign /\ schema = Nobody

EmptyDatabaseExists(r) ==
  /\ pc[r] = "empty_db"
  /\ CanQuery(r)
  /\ Goto(r, IF dbExists THEN "empty_count" ELSE "open")
  /\ UNCHANGED <<up, database, tuned, files, config, loading, signalled, seen, others>>

(* An empty database is restored into: CREATE DATABASE is left out. *)
EmptyDatabaseCount(r) ==
  /\ pc[r] = "empty_count"
  /\ CanQuery(r) /\ dbExists
  /\ existing' = [existing EXCEPT ![r] = Empty]
  /\ statement' = [statement EXCEPT ![r] = IF Empty THEN "connect" ELSE @]
  /\ Goto(r, "open")
  /\ UNCHANGED <<up, database, tuned, files, config, session, reads, signalled, seen, others>>

(* psql connects, to the target for a dump without CREATE DATABASE, and *)
(* opens the file.                                                      *)
OpenDump(r) ==
  /\ pc[r] = "open"
  /\ CanQuery(r)
  /\ dumpCreates \/ dbExists
  /\ Sql(r) # "gone"
  /\ reads' = [reads EXCEPT ![r] = Sql(r)]
  /\ session' = [session EXCEPT ![r] = TRUE]
  /\ Goto(r, "load")
  /\ UNCHANGED <<up, database, tuned, files, config, statement, existing, signalled, seen, others>>

-----------------------------------------------------------------------------
(***************************************************************************)
(* The load: psql sends the statements of the file one after the other and *)
(* stops at the first that fails.                                          *)
(***************************************************************************)
Connected(r) == up /\ session[r]

(* Mutant: a dump that takes tables as it finds them (IF NOT EXISTS). *)
AcceptedIfNotExists(r) ==
  CASE statement[r] = "database" -> ~dbExists
    [] statement[r] = "connect"  -> dbExists
    [] OTHER -> TRUE

(* The server accepts the statement. *)
Accepted(r) ==
  CASE statement[r] = "database" -> ~dbExists
    [] statement[r] = "connect"  -> dbExists
    [] statement[r] = "schema"   -> schema = Nobody
    [] OTHER -> TRUE

(* What the statement commits. *)
Effect(r) ==
  /\ dbExists' = (dbExists \/ statement[r] = "database")
  /\ schema' = IF statement[r] = "schema" THEN r ELSE schema
  /\ blocks' = IF statement[r] = "blocks" THEN blocks \cup {r} ELSE blocks
  /\ rest'   = IF statement[r] = "rest" THEN rest \cup {r} ELSE rest
  /\ UNCHANGED foreign

(* Mutant: past the end of the dump. *)
FollowingPastEnd ==
  [s \in Script |->
     CASE s = "database" -> "connect" [] s = "connect" -> "schema"
       [] s = "schema" -> "blocks" [] s = "blocks" -> "rest" [] OTHER -> "end"]

Following ==
  [s \in Script |->
     CASE s = "database" -> "connect" [] s = "connect" -> "schema"
       [] s = "schema" -> "blocks"    [] OTHER -> "rest"]

(* A psql whose parent was killed goes on by itself: it ends, but no run does. *)
Loads(r) == pc[r] \in {"load", "orphan"}
PsqlEnds(r, outcome) == Goto(r, IF pc[r] = "load" THEN outcome ELSE "dead")

Execute(r) ==
  /\ Loads(r) /\ Connected(r)
  /\ pc[r] = "load" => ~signalled[r]
  /\ Accepted(r)
  /\ Effect(r)
  /\ statement' = [statement EXCEPT ![r] = Following[@]]
  /\ IF statement[r] = "rest" THEN PsqlEnds(r, "ok") ELSE UNCHANGED pc
  /\ UNCHANGED <<up, tuned, files, config, existing, session, reads, signalled, seen, others>>

(* A file that was partial when psql opened it can end before the dump does: *)
(* psql reads to the end of the file and exits 0.                            *)
EndOfPartialFile(r) ==
  /\ Loads(r) /\ Connected(r) /\ reads[r] = "partial"
  /\ pc[r] = "load" => ~signalled[r]
  /\ PsqlEnds(r, "ok")
  /\ UNCHANGED <<up, database, tuned, files, config, loading, signalled, seen, others>>

(* Mutant: no ON_ERROR_STOP. *)
GoOnAfterError(r) ==
  /\ Loads(r)
  /\ \/ ~Connected(r) /\ PsqlEnds(r, "err") /\ UNCHANGED statement
     \/ /\ Connected(r) /\ ~Accepted(r)
        /\ statement' = [statement EXCEPT ![r] = Following[@]]
        /\ UNCHANGED pc
  /\ UNCHANGED <<up, database, tuned, files, config, existing, session, reads, signalled,
                 seen, others>>

(* ON_ERROR_STOP: the statement is refused, or the connection is lost. *)
StopOnError(r) ==
  /\ Loads(r)
  /\ ~Connected(r) \/ ~Accepted(r)
  /\ PsqlEnds(r, "err")
  /\ UNCHANGED <<up, database, tuned, files, config, loading, signalled, seen, others>>

(* The statement in progress when psql is interrupted commits or does not. *)
LastStatement(r) ==
  \/ UNCHANGED database
  \/ Connected(r) /\ Accepted(r) /\ Effect(r)

(* Mutant: psql's exit status 0 after SIGINT is believed. *)
InterruptBelieved(r) ==
  /\ pc[r] = "load" /\ signalled[r]
  /\ LastStatement(r)
  /\ Goto(r, "ok")
  /\ UNCHANGED <<up, tuned, files, config, loading, signalled, seen, others>>

(* SIGINT reaches psql; exec.Cmd.Wait then returns an error whatever psql's *)
(* exit status is.                                                          *)
InterruptLoad(r) ==
  /\ pc[r] = "load" /\ signalled[r]
  /\ LastStatement(r)
  /\ Goto(r, "err")
  /\ UNCHANGED <<up, tuned, files, config, loading, signalled, seen, others>>

-----------------------------------------------------------------------------
(* Mutant: queryRetry without a deadline. *)
UnreachableForGood(r) ==
  \/ ~dbExists /\ pc[r] \in {"probe_table", "probe_rows", "empty_count"}
  \/ ~dbExists /\ pc[r] = "open" /\ ~dumpCreates

(* The errors that the state of the system causes: a context that is done, a *)
(* server that cannot be reached until queryRetry's deadline (a connection   *)
(* to a database that was dropped counts), a table or a file that is gone.   *)
Unreachable(r) ==
  \/ ~up /\ pc[r] \in Probing \cup Checking \cup {"tune", "open"}
  \/ ~dbExists /\ pc[r] \in {"probe_table", "probe_rows", "empty_count"}
  \/ ~dbExists /\ pc[r] = "open" /\ ~dumpCreates

Fails(r) ==
  \/ signalled[r] /\ pc[r] \in Probing \cup Checking \cup {"get", "tune", "open"}
  \/ Unreachable(r)
  \/ pc[r] = "probe_rows" /\ dbExists /\ schema = Nobody
  \/ pc[r] \in {"check", "open"} /\ Sql(r) = "gone"
  \/ pc[r] = "check" /\ dumpCreates /\ Sql(r) = "partial"
  \/ pc[r] = "open" /\ existing[r] /\ Sql(r) = "partial"

(* Mutant: a probe that cannot be made is taken for "no archive". *)
FailOpen(r) ==
  /\ Fails(r)
  /\ Goto(r, IF pc[r] \in Probing /\ ~signalled[r] THEN "get" ELSE "err")
  /\ UNCHANGED <<up, database, tuned, files, config, loading, signalled, seen, others>>

Fail(r) ==
  /\ Fails(r)
  /\ Goto(r, "err")
  /\ UNCHANGED <<up, database, tuned, files, config, loading, signalled, seen, others>>

(* Mutant: an extraction that fails leaves a part of the dump and goes on. *)
FaultGoesOn(r) ==
  /\ pc[r] \in Active \cup {"orphan"}
  /\ IF pc[r] \in {"load", "orphan"} THEN PsqlEnds(r, "err")
     ELSE Goto(r, IF pc[r] = "write" THEN "check" ELSE "err")
  /\ UNCHANGED <<up, database, tuned, files, config, loading, signalled, seen, others>>

(* Any request, system call or statement can fail: no dump, a refused *)
(* permission, a full disk, a dump that names another database.       *)
Fault(r) ==
  /\ pc[r] \in Active \cup {"orphan"}
  /\ IF pc[r] \in {"load", "orphan"} THEN PsqlEnds(r, "err") ELSE Goto(r, "err")
  /\ UNCHANGED <<up, database, tuned, files, config, loading, signalled, seen, others>>

(* A signal can also come when all is done, before the process has exited. *)
Signal(r) ==
  /\ pc[r] \in Active \cup ExitZero
  /\ ~signalled[r]
  /\ signalled' = [signalled EXCEPT ![r] = TRUE]
  /\ UNCHANGED <<up, database, tuned, files, pc, config, loading, seen, others>>

(* The process is killed. Its psql goes on: one that reads a file to the end, *)
(* one that is fed through a pipe with what the pipe holds. A Fault is where  *)
(* that runs out, or where psql is killed too.                                *)
Kill(r) ==
  /\ pc[r] \in Active
  /\ Goto(r, IF pc[r] = "load" THEN "orphan" ELSE "dead")
  /\ UNCHANGED <<up, database, tuned, files, config, loading, signalled, seen, others>>

-----------------------------------------------------------------------------
(* The server crashes and recovers; what was committed stays. *)
Outage ==
  /\ up /\ outages < MaxOutage
  /\ up' = FALSE
  /\ session' = [r \in Runs |-> FALSE]
  /\ outages' = outages + 1
  /\ UNCHANGED <<database, tuned, files, pc, config, statement, existing, reads,
                 signalled, seen, operatorActs, begun, kept>>

Recover ==
  /\ ~up
  /\ up' = TRUE
  /\ UNCHANGED <<database, tuned, files, pc, config, loading, signalled, seen, others>>

(* The operator, or the entry point of a PostgreSQL container. *)
OperatorAct ==
  /\ up /\ operatorActs < MaxOperator
  /\ operatorActs' = operatorActs + 1
  /\ UNCHANGED <<up, tuned, files, pc, config, statement, existing, reads,
                 signalled, seen, outages, begun>>

CreateDatabase ==
  /\ OperatorAct
  /\ ~dbExists /\ dbExists' = TRUE
  /\ UNCHANGED <<foreign, schema, blocks, rest, session, kept>>

CreateForeign ==
  /\ OperatorAct
  /\ dbExists /\ foreign' = TRUE
  /\ UNCHANGED <<dbExists, schema, blocks, rest, session, kept>>

CreateArchive ==
  /\ OperatorAct
  /\ dbExists /\ schema = Nobody /\ schema' = Writer
  /\ UNCHANGED <<dbExists, foreign, blocks, rest, session, kept>>

(* DROP DATABASE ... WITH (FORCE) ends the connections to the database. *)
DropDatabase ==
  /\ OperatorAct
  /\ dbExists /\ dbExists' = FALSE
  /\ foreign' = FALSE /\ schema' = Nobody /\ blocks' = {} /\ rest' = {}
  /\ session' = [r \in Runs |-> IF statement[r] \in OnTarget THEN FALSE ELSE session[r]]
  /\ kept' = [r \in Runs |-> {}]

(* mina-archive adds the blocks it sees once the tables are there. In its own *)
(* archive everything that belongs to a block comes with it.                  *)
WriterAdds ==
  /\ up /\ schema # Nobody
  /\ blocks' = blocks \cup {Writer}
  /\ rest' = IF schema = Writer THEN rest \cup {Writer} ELSE rest
  /\ UNCHANGED <<up, dbExists, foreign, schema, tuned, files, pc, config, loading,
                 signalled, seen, others>>

-----------------------------------------------------------------------------
RunStep(r) ==
  \/ ProbeDatabase(r) \/ ProbeTable(r) \/ ProbeRows(r)
  \/ GetDump(r) \/ Unlink(r) \/ Create(r) \/ Write(r) \/ CheckDump(r)
  \/ ApplyTuning(r) \/ EmptyDatabaseExists(r) \/ EmptyDatabaseCount(r) \/ OpenDump(r)
  \/ Execute(r) \/ EndOfPartialFile(r) \/ StopOnError(r) \/ InterruptLoad(r)
  \/ Fail(r)

Disturbance(r) == Fault(r) \/ Signal(r) \/ Kill(r)

Environment ==
  \/ Outage \/ Recover
  \/ CreateDatabase \/ CreateForeign \/ CreateArchive \/ DropDatabase
  \/ WriterAdds

Next ==
  \/ \E r \in Runs : Begin(r) \/ RunStep(r) \/ Disturbance(r)
  \/ Environment

Spec == Init /\ [][Next]_vars

(* A Get whose publisher need not answer: a transfer has no timer everywhere. *)
Waiting(r) == pc[r] = "get" /\ ~signalled[r]

(* The program and psql are scheduled, and the server carries out what it is *)
(* asked while it is up.                                                     *)
FairSpec == Spec /\ \A r \in Runs : WF_vars(~Waiting(r) /\ RunStep(r))

-----------------------------------------------------------------------------
(* The types of the variables. *)
TypeOK ==
  /\ up \in BOOLEAN /\ dbExists \in BOOLEAN /\ foreign \in BOOLEAN /\ tuned \in BOOLEAN
  /\ schema \in Owners \cup {Nobody}
  /\ blocks \subseteq Owners
  /\ rest \subseteq Owners
  /\ sqlAt \in [Dirs -> Runs \cup {Nobody}]
  /\ sqlWhole \in [Dirs -> BOOLEAN]
  /\ outages \in Nat /\ operatorActs \in Nat /\ begun \in Nat
  /\ dumpCreates \in Dumps
  /\ pc \in [Runs -> Active \cup Ended \cup {"orphan"}]
  /\ mode \in [Runs -> Modes]
  /\ statement \in [Runs -> Script]
  /\ existing \in [Runs -> BOOLEAN]
  /\ session \in [Runs -> BOOLEAN]
  /\ reads \in [Runs -> {"nothing", "partial", "whole"}]
  /\ signalled \in [Runs -> BOOLEAN]
  /\ seen \in [Runs -> {"nothing", "no_database", "no_table", "no_rows", "archive"}]
  /\ kept \in [Runs -> SUBSET {"objects", "archive"}]

(* The restore that run r reports is in the database: its schema, its rows  *)
(* and all that follows, nobody else's, on a server that has the tuning.    *)
Restored(r) == schema = r /\ {r} = blocks \ {Writer} /\ rest = {r} /\ tuned

(* A run that says "Archive database provisioned" after psql read a whole    *)
(* dump has restored it to the end, into a database that no other run loads: *)
(* whatever statements failed, servers crashed and bootstraps raced before,  *)
(* also one that replaces the dump of the other in a --work-dir they share.  *)
WholeDumpIsRestored ==
  [][\A r \in Runs : pc[r] # "ok" /\ pc'[r] = "ok" /\ reads[r] = "whole" => Restored(r)']_vars

(* A run with a work directory of its own that says it has provisioned the   *)
(* database did read a whole dump, also after a run that left half a file.   *)
ProvisionedIsRestored ==
  [][\A r \in Runs : pc[r] # "ok" /\ pc'[r] = "ok" => Restored(r)']_vars

(* DetectArchive: "no archive" only on positive evidence. A run with         *)
(* --if-present=skip or fail never fetches, extracts, tunes or loads while   *)
(* an archive that was there when it began still is, also when the server    *)
(* went away during the probe.                                               *)
ArchiveIsProtected ==
  \A r \in Runs :
    "archive" \in kept[r] /\ mode[r] \in {"skip", "fail"}
      => pc[r] \in Probing \cup {"skipped", "err", "dead"}

(* README: "A database that holds anything is not restored into: the dump    *)
(* stops at its CREATE DATABASE and the database is left as it was." True    *)
(* of what the database has held since the run began.                        *)
NonEmptyIsLeftAlone ==
  \A r \in Runs : dumpCreates /\ "objects" \in kept[r] => statement[r] = "database"

(* SIGINT or SIGTERM: a run that was to restore and is signalled before it   *)
(* is through takes no step to a zero exit status, whatever psql's is.       *)
InterruptedIsNotProvisioned ==
  [][\A r \in Runs : signalled[r] /\ mode[r] # "skip-pg" /\ pc[r] \notin ExitZero
                       => pc'[r] \notin ExitZero]_vars

(* A bootstrap ends, and so does a psql it left behind, unless it waits for  *)
(* the publisher: a server that stays away is given up (queryRetry's         *)
(* deadline), a lost connection is an error, and a signal ends the wait for  *)
(* the dump, which is CancelledGetReturns of HttpGet.                        *)
RunEnds ==
  \A r \in Runs :
    pc[r] \notin Ended /\ ~Waiting(r) ~> pc[r] \in Ended \/ Waiting(r)

-----------------------------------------------------------------------------
Target == INSTANCE TargetDatabase WITH owner <- schema

(* Whatever the bootstraps, the operator and the server do, the archive's    *)
(* tables in the target database are one loader's, in the dump's order: see  *)
(* TargetDatabase. Of two bootstraps that both found the database empty, or  *)
(* absent, one loads and the other stops at its first statement.             *)
ImplementsTarget == Target!Spec

-----------------------------------------------------------------------------
(* What the documentation says and the code does not do. *)

(* pg.go: "A schema with no rows is a database waiting to be filled": a run  *)
(* that found one is not stopped by that schema.                             *)
SchemaWithoutRowsIsFilled ==
  \A r \in Runs : seen[r] = "no_rows" /\ pc[r] = "load" => Accepted(r)

(* archive.go: "Database %q already holds an archive", on exit status 0: rows *)
(* that the creator of the tables loaded are the rows of a whole archive.     *)
SkippedOverArchive ==
  [][\A r \in Runs : pc[r] # "skipped" /\ pc'[r] = "skipped" /\ schema' \in blocks'
                       => schema' \in rest']_vars
=============================================================================
