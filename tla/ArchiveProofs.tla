---------------------------- MODULE ArchiveProofs ---------------------------
(* Proofs about ArchiveRestore, for any set of runs and any bounds. *)
EXTENDS ArchiveRestore, TLAPS

USE OwnersAssumption, FlagsAssumption

(* The initial states are well typed. *)
LEMMA TypeOKInit == Init => TypeOK
<1> SUFFICES ASSUME Init PROVE TypeOK
  OBVIOUS
<1>1. foreign \in BOOLEAN
  BY Zenon DEF Init
<1>2. schema \in Owners \cup {Nobody} /\ blocks \subseteq Owners /\ rest \subseteq Owners
  <2>1. schema \in {Nobody, Writer} /\ blocks \in {{}, {Writer}} /\ rest = blocks
    BY DEF Init
  <2>2. QED
    BY <2>1 DEF Owners
<1>3. mode \in [Runs -> Modes] /\ dbExists \in BOOLEAN
  BY DEF Init
<1>4. QED
  BY <1>1, <1>2, <1>3 DEF Init, TypeOK, Active, Ended, Probing, Checking, Extracting, ExitZero, Script

(* The steps of runArchive keep the types. *)
LEMMA TypeOKRun ==
  ASSUME TypeOK, NEW r \in Runs, RunStep(r)
  PROVE  TypeOK'
<1> USE DEF TypeOK, Owners, Active, Ended, Probing, Checking, Extracting, ExitZero, Script,
        Goto, database, files, others, loading, config, CanQuery, NoArchive
<1>1. CASE ProbeDatabase(r) BY <1>1 DEF ProbeDatabase
<1>2. CASE ProbeTable(r) BY <1>2 DEF ProbeTable
<1>3. CASE ProbeRows(r)
  <2>1. CASE blocks = {} BY <1>3, <2>1 DEF ProbeRows
  <2>2. CASE blocks # {} BY <1>3, <2>2 DEF ProbeRows
  <2>3. QED BY <2>1, <2>2
<1>4. CASE GetDump(r) BY <1>4 DEF GetDump
<1>5. CASE Unlink(r) BY <1>5 DEF Unlink
<1>6. CASE Create(r) BY <1>6 DEF Create
<1>7. CASE Write(r) BY <1>7 DEF Write
<1>8. CASE CheckDump(r) BY <1>8 DEF CheckDump
<1>9. CASE ApplyTuning(r) BY <1>9 DEF ApplyTuning
<1>10. CASE EmptyDatabaseExists(r) BY <1>10 DEF EmptyDatabaseExists
<1>11. CASE EmptyDatabaseCount(r) BY <1>11 DEF EmptyDatabaseCount, Empty
<1>12. CASE OpenDump(r) BY <1>12 DEF OpenDump, Sql
<1>13. CASE Execute(r) BY <1>13 DEF Execute, Effect, PsqlEnds, Following
<1>14. CASE EndOfPartialFile(r) BY <1>14 DEF EndOfPartialFile, PsqlEnds
<1>15. CASE StopOnError(r) BY <1>15 DEF StopOnError, PsqlEnds
<1>16. CASE InterruptLoad(r) BY <1>16 DEF InterruptLoad, LastStatement, Effect
<1>17. CASE Fail(r) BY <1>17 DEF Fail
<1>18. QED
  BY <1>1, <1>2, <1>3, <1>4, <1>5, <1>6, <1>7, <1>8, <1>9, <1>10, <1>11, <1>12,
     <1>13, <1>14, <1>15, <1>16, <1>17 DEF RunStep

(* A new run, a fault, a signal and a kill keep the types. *)
LEMMA TypeOKBegin ==
  ASSUME TypeOK, NEW r \in Runs, Begin(r) \/ Disturbance(r)
  PROVE  TypeOK'
<1> USE DEF TypeOK, Owners, Active, Ended, Probing, Checking, Extracting, ExitZero, Script,
        Goto, database, files, others, loading, config
<1>1. CASE Begin(r) BY <1>1 DEF Begin
<1>2. CASE Fault(r) BY <1>2 DEF Fault, PsqlEnds
<1>3. CASE Signal(r) BY <1>3 DEF Signal
<1>4. CASE Kill(r) BY <1>4 DEF Kill
<1>5. QED BY <1>1, <1>2, <1>3, <1>4 DEF Disturbance

(* The server, the operator and the archive writer keep the types. *)
LEMMA TypeOKEnvironment ==
  ASSUME TypeOK, Environment
  PROVE  TypeOK'
<1> USE DEF TypeOK, Owners, database, files, others, loading, config
<1>1. CASE Outage
  <2>1. session' \in [Runs -> BOOLEAN] /\ up' \in BOOLEAN BY <1>1, Zenon DEF Outage
  <2>2. outages' \in Nat BY <1>1 DEF Outage
  <2>3. QED BY <1>1, <2>1, <2>2, Zenon DEF Outage
<1>2. CASE Recover BY <1>2 DEF Recover
<1>3. CASE CreateDatabase BY <1>3 DEF CreateDatabase, OperatorAct
<1>4. CASE CreateForeign BY <1>4 DEF CreateForeign, OperatorAct
<1>5. CASE CreateArchive BY <1>5 DEF CreateArchive, OperatorAct
<1>6. CASE DropDatabase
  <2>1. session' \in [Runs -> BOOLEAN] BY <1>6 DEF DropDatabase
  <2>2. kept' \in [Runs -> SUBSET {"objects", "archive"}] BY <1>6 DEF DropDatabase
  <2>3. operatorActs' \in Nat BY <1>6 DEF DropDatabase, OperatorAct
  <2>4. /\ dbExists' \in BOOLEAN /\ foreign' \in BOOLEAN /\ schema' \in Owners \cup {Nobody}
        /\ blocks' \subseteq Owners /\ rest' \subseteq Owners
    BY <1>6, Zenon DEF DropDatabase
  <2>5. QED BY <1>6, <2>1, <2>2, <2>3, <2>4, Zenon DEF DropDatabase, OperatorAct
<1>7. CASE WriterAdds BY <1>7 DEF WriterAdds
<1>8. QED BY <1>1, <1>2, <1>3, <1>4, <1>5, <1>6, <1>7 DEF Environment

(* A stuttering step keeps the types. *)
LEMMA TypeOKStutter == TypeOK /\ UNCHANGED vars => TypeOK'
  BY DEF TypeOK, vars

(* Type correctness of ArchiveRestore. *)
THEOREM TypeCorrect == Spec => []TypeOK
<1>1. TypeOK /\ [Next]_vars => TypeOK'
  BY TypeOKRun, TypeOKBegin, TypeOKEnvironment, TypeOKStutter DEF Next
<1>2. QED
  BY <1>1, TypeOKInit, PTL DEF Spec

-----------------------------------------------------------------------------
(***************************************************************************)
(* The target database. A load that is past its "schema" statement owns    *)
(* the schema as long as its connection lives: CREATE TABLE is the ticket  *)
(* that only one loader gets, and dropping the database ends the           *)
(* connections to it.                                                      *)
(***************************************************************************)
Shape ==
  /\ ~dbExists => ~foreign /\ schema = Nobody
  /\ schema = Nobody => blocks = {} /\ rest = {}
  /\ blocks \subseteq {schema, Writer}
  /\ rest \subseteq {schema}

Ticket(r) ==
  session[r] =>
    /\ statement[r] \in OnTarget => dbExists
    /\ statement[r] \in {"blocks", "rest"} => schema = r
    /\ statement[r] = "rest" => r \in blocks

Preparing == Active \ {"load"}

Fresh(r) ==
  pc[r] \in Preparing =>
    /\ ~session[r]
    /\ statement[r] \in {"database", "connect", "schema"}
    /\ statement[r] = "schema" => ~dumpCreates

DatabaseInv == Shape /\ \A r \in Runs : Ticket(r) /\ Fresh(r)

(***************************************************************************)
(* A run whose work directory is its own finds there the whole file it     *)
(* wrote.                                                                  *)
(***************************************************************************)
OwnFile(r) ==
  /\ pc[r] = "write" => sqlAt[WorkDir[r]] = r
  /\ pc[r] \in {"check", "tune", "open"} \cup Checking
       => sqlAt[WorkDir[r]] = r /\ sqlWhole[WorkDir[r]]
  /\ pc[r] = "load" => reads[r] = "whole"

FileInv == \A r \in Runs : OwnFile(r)

(* The server is tuned before a load. *)
TunedInv == \A r \in Runs : pc[r] \in {"open", "load"} \cup Checking => tuned

(* What the database held when a run began it still holds, unless it was *)
(* dropped.                                                              *)
KeptInv ==
  \A r \in Runs :
    /\ "objects" \in kept[r] => foreign \/ schema # Nobody
    /\ "archive" \in kept[r] => blocks # {}

-----------------------------------------------------------------------------
(* What a statement that the server accepts commits. *)
LEMMA EffectGrows ==
  ASSUME TypeOK, DatabaseInv, NEW r \in Runs, session[r], Accepted(r), Effect(r)
  PROVE  /\ Shape'
         /\ dbExists => dbExists'
         /\ schema # Nobody => schema' = schema
         /\ blocks \subseteq blocks'
         /\ statement[r] = "connect" => dbExists'
         /\ statement[r] = "schema" => schema' = r
         /\ statement[r] = "blocks" => r \in blocks'
<1> statement[r] \in Script
  BY DEF TypeOK
<1> Ticket(r) /\ Shape
  BY DEF DatabaseInv
<1>1. CASE statement[r] = "database"
  BY <1>1 DEF Effect, Accepted, Shape
<1>2. CASE statement[r] = "connect"
  BY <1>2 DEF Effect, Accepted, Shape
<1>3. CASE statement[r] = "schema"
  BY <1>3 DEF Effect, Accepted, Shape, Ticket, OnTarget
<1>4. CASE statement[r] = "blocks"
  BY <1>4 DEF Effect, Shape, Ticket, OnTarget
<1>5. CASE statement[r] = "rest"
  BY <1>5 DEF Effect, Shape, Ticket, OnTarget
<1>6. QED
  BY <1>1, <1>2, <1>3, <1>4, <1>5 DEF Script

(* The target database a run is pointed at has the shape the invariant asks for. *)
LEMMA DatabaseInvInit == Init => DatabaseInv
<1> SUFFICES ASSUME Init PROVE DatabaseInv
  OBVIOUS
<1>1. Shape
  <2>1. /\ schema \in {Nobody, Writer} /\ blocks \in {{}, {Writer}} /\ rest = blocks
        /\ schema # Writer => blocks = {}
        /\ ~dbExists => schema = Nobody
    BY DEF Init
  <2>2. ~dbExists => ~foreign
    BY Zenon DEF Init
  <2>3. QED
    BY <2>1, <2>2 DEF Shape
<1>2. \A r \in Runs : Ticket(r) /\ Fresh(r)
  BY DEF Init, Ticket, Fresh, Preparing, Active, Probing, Checking, Extracting
<1>3. QED
  BY <1>1, <1>2 DEF DatabaseInv

(* Steps that touch neither the database nor a load keep the invariant. *)
LEMMA QuietStep ==
  ASSUME DatabaseInv, NEW r \in Runs, UNCHANGED <<database, config, statement, session>>,
         \A q \in Runs \ {r} : pc'[q] = pc[q],
         pc'[r] \in Preparing => pc[r] \in Preparing
  PROVE  DatabaseInv'
<1>1. Shape'
  BY DEF DatabaseInv, Shape, database
<1>2. ASSUME NEW q \in Runs PROVE Ticket(q)' /\ Fresh(q)'
  BY <1>2 DEF DatabaseInv, Ticket, Fresh, database, config, OnTarget
<1>3. QED
  BY <1>1, <1>2 DEF DatabaseInv

(* So does the commit of the statement that a connected load is at, when the *)
(* load ends with it.                                                        *)
LEMMA LastCommit ==
  ASSUME TypeOK, DatabaseInv, NEW r \in Runs, LastStatement(r),
         UNCHANGED <<config, statement, session>>,
         \A q \in Runs \ {r} : pc'[q] = pc[q],
         pc'[r] \notin Preparing
  PROVE  DatabaseInv'
<1>1. CASE UNCHANGED database
  BY <1>1, QuietStep
<1>2. CASE Connected(r) /\ Accepted(r) /\ Effect(r)
  <2>1. /\ Shape' /\ (dbExists => dbExists')
        /\ schema # Nobody => schema' = schema
        /\ blocks \subseteq blocks'
    BY <1>2, EffectGrows DEF Connected
  <2>2. ASSUME NEW q \in Runs PROVE Ticket(q)' /\ Fresh(q)'
    <3>1. q # Nobody
      OBVIOUS
    <3>2. Ticket(q)'
      BY <2>1, <3>1 DEF DatabaseInv, Ticket, OnTarget
    <3>3. Fresh(q)'
      BY DEF DatabaseInv, Fresh, config
    <3>4. QED
      BY <3>2, <3>3
  <2>3. QED
    BY <2>1, <2>2 DEF DatabaseInv
<1>3. QED
  BY <1>1, <1>2 DEF LastStatement

(* A statement psql sends keeps every load's claim on the tables, its own *)
(* included.                                                              *)
LEMMA ExecuteKeepsDatabaseInv ==
  ASSUME TypeOK, DatabaseInv, NEW r \in Runs, Execute(r)
  PROVE  DatabaseInv'
<1> DEFINE next == Following[statement[r]]
<1>1. session[r] /\ Accepted(r) /\ Effect(r)
  BY DEF Execute, Connected
<1>2. /\ Shape' /\ (dbExists => dbExists')
      /\ schema # Nobody => schema' = schema
      /\ blocks \subseteq blocks'
      /\ statement[r] = "connect" => dbExists'
      /\ statement[r] = "schema" => schema' = r
      /\ statement[r] = "blocks" => r \in blocks'
  BY <1>1, EffectGrows
<1>3. statement[r] \in Script /\ statement' = [statement EXCEPT ![r] = next]
      /\ session' = session /\ dumpCreates' = dumpCreates
  BY DEF Execute, TypeOK, config
<1>4. pc'[r] \notin Preparing /\ \A q \in Runs \ {r} : pc'[q] = pc[q]
  BY DEF Execute, Loads, PsqlEnds, Goto, TypeOK, Preparing, Active, Probing, Checking, Extracting
<1>5. ASSUME NEW q \in Runs PROVE Ticket(q)' /\ Fresh(q)'
  <2>1. q # Nobody
    OBVIOUS
  <2>2. CASE q # r
    <3>1. statement'[q] = statement[q]
      BY <1>3, <2>2 DEF TypeOK
    <3>2. QED
      BY <1>2, <1>3, <1>4, <2>1, <2>2, <3>1 DEF DatabaseInv, Ticket, Fresh, OnTarget
  <2>3. CASE q = r
    <3>1. statement'[r] = next
      BY <1>3 DEF TypeOK
    <3>2. Ticket(r)
      BY DEF DatabaseInv
    <3>3. Ticket(r)'
      BY <1>1, <1>2, <1>3, <2>1, <2>3, <3>1, <3>2 DEF Ticket, OnTarget, Following, Script
    <3>4. QED
      BY <1>4, <2>3, <3>3 DEF Fresh
  <2>4. QED
    BY <2>2, <2>3
<1>6. QED
  BY <1>2, <1>5 DEF DatabaseInv

(* The steps of runArchive keep the invariant of the target database. *)
LEMMA DatabaseInvRun ==
  ASSUME TypeOK, DatabaseInv, NEW r \in Runs, RunStep(r)
  PROVE  DatabaseInv'
<1> DEFINE Labels == Preparing \cup Ended \cup {"load", "orphan"}
<1> USE DEF Preparing, Active, Probing, Checking, Extracting, Goto, PsqlEnds, Loads
<1>t. pc \in [Runs -> Labels]
  BY DEF TypeOK
<1> HIDE DEF Labels
<1>1. ASSUME \/ ProbeDatabase(r) \/ ProbeTable(r) \/ ProbeRows(r) \/ GetDump(r)
             \/ Unlink(r) \/ Create(r) \/ Write(r) \/ CheckDump(r) \/ EmptyDatabaseExists(r)
      PROVE  DatabaseInv'
  <2>1. pc[r] \in Preparing
    BY <1>1 DEF ProbeDatabase, ProbeTable, ProbeRows, GetDump, Unlink, Create, Write,
                CheckDump, EmptyDatabaseExists
  <2>2. UNCHANGED <<database, config, statement, session>>
    BY <1>1 DEF ProbeDatabase, ProbeTable, ProbeRows, GetDump, Unlink, Create, Write,
                CheckDump, EmptyDatabaseExists, loading
  <2>3. \A q \in Runs \ {r} : pc'[q] = pc[q]
    BY <1>t, <1>1 DEF ProbeDatabase, ProbeTable, ProbeRows, GetDump, Unlink, Create, Write,
                CheckDump, EmptyDatabaseExists, NoArchive
  <2>4. QED
    BY <2>1, <2>2, <2>3, QuietStep
<1>2. ASSUME EndOfPartialFile(r) \/ StopOnError(r) \/ Fail(r)
      PROVE  DatabaseInv'
  <2>1. pc'[r] \notin Preparing
    BY <1>t, <1>2 DEF EndOfPartialFile, StopOnError, Fail
  <2>2. UNCHANGED <<database, config, statement, session>>
    BY <1>2 DEF EndOfPartialFile, StopOnError, Fail, loading
  <2>3. \A q \in Runs \ {r} : pc'[q] = pc[q]
    BY <1>t, <1>2 DEF EndOfPartialFile, StopOnError, Fail
  <2>4. QED
    BY <2>1, <2>2, <2>3, QuietStep
<1>3. CASE Execute(r)
  BY <1>3, ExecuteKeepsDatabaseInv
<1>4. CASE InterruptLoad(r)
  <2>1. pc'[r] \notin Preparing /\ \A q \in Runs \ {r} : pc'[q] = pc[q]
    BY <1>t, <1>4 DEF InterruptLoad
  <2>2. QED
    BY <1>4, <2>1, LastCommit DEF InterruptLoad, loading
<1>5. CASE ApplyTuning(r) \/ EmptyDatabaseCount(r)
  <2>1. Shape'
    BY <1>5 DEF ApplyTuning, EmptyDatabaseCount, DatabaseInv, Shape, database
  <2>2. /\ pc[r] \in Preparing /\ session' = session /\ dumpCreates' = dumpCreates
        /\ dbExists' = dbExists /\ schema' = schema /\ blocks' = blocks
    BY <1>5 DEF ApplyTuning, EmptyDatabaseCount, config, database
  <2>3. /\ statement'[r] \in {"database", "connect", "schema"}
        /\ statement'[r] = "schema" => ~dumpCreates
    BY <1>5 DEF ApplyTuning, EmptyDatabaseCount, TypeOK, DatabaseInv, Fresh
  <2>4. \A q \in Runs \ {r} : pc'[q] = pc[q] /\ statement'[q] = statement[q]
    BY <1>5 DEF ApplyTuning, EmptyDatabaseCount, TypeOK
  <2>5. Ticket(r)' /\ Fresh(r)'
    BY <2>2, <2>3 DEF DatabaseInv, Ticket, Fresh
  <2>6. ASSUME NEW q \in Runs \ {r} PROVE Ticket(q)' /\ Fresh(q)'
    BY <2>2, <2>4 DEF DatabaseInv, Ticket, Fresh, OnTarget
  <2>7. QED
    BY <2>1, <2>5, <2>6 DEF DatabaseInv
<1>6. CASE OpenDump(r)
  <2>1. Shape'
    BY <1>6 DEF OpenDump, DatabaseInv, Shape, database
  <2>2. /\ statement' = statement /\ dumpCreates' = dumpCreates
        /\ dbExists' = dbExists /\ schema' = schema /\ blocks' = blocks
    BY <1>6 DEF OpenDump, config, database
  <2>3. pc'[r] = "load" /\ pc[r] \in Preparing /\ (dumpCreates \/ dbExists)
    BY <1>6 DEF OpenDump, TypeOK
  <2>4. \A q \in Runs \ {r} : pc'[q] = pc[q] /\ session'[q] = session[q]
    BY <1>6 DEF OpenDump, TypeOK
  <2>5. Ticket(r)' /\ Fresh(r)'
    BY <2>2, <2>3 DEF DatabaseInv, Ticket, Fresh, OnTarget
  <2>6. ASSUME NEW q \in Runs \ {r} PROVE Ticket(q)' /\ Fresh(q)'
    BY <2>2, <2>4 DEF DatabaseInv, Ticket, Fresh, OnTarget
  <2>7. QED
    BY <2>1, <2>5, <2>6 DEF DatabaseInv
<1>7. QED
  BY <1>1, <1>2, <1>3, <1>4, <1>5, <1>6 DEF RunStep

(* A new run, a fault, a signal and a kill keep the invariant of the target *)
(* database.                                                                *)
LEMMA DatabaseInvBegin ==
  ASSUME TypeOK, DatabaseInv, NEW r \in Runs, Begin(r) \/ Disturbance(r)
  PROVE  DatabaseInv'
<1> DEFINE Labels == Preparing \cup Ended \cup {"load", "orphan"}
<1> USE DEF Preparing, Active, Probing, Checking, Extracting, Goto, PsqlEnds
<1>t. pc \in [Runs -> Labels]
  BY DEF TypeOK
<1> HIDE DEF Labels
<1>1. CASE Begin(r)
  <2>1. Shape'
    BY <1>1 DEF Begin, DatabaseInv, Shape, database
  <2>2. dumpCreates' = dumpCreates /\ dbExists' = dbExists /\ schema' = schema /\ blocks' = blocks
    BY <1>1 DEF Begin, config, database
  <2>3. statement'[r] = "database" /\ session'[r] = FALSE
    <3>1. statement'[r] = "database"
      BY <1>1 DEF Begin, TypeOK
    <3>2. session'[r] = FALSE
      BY <1>1, Zenon DEF Begin, TypeOK
    <3>3. QED
      BY <3>1, <3>2
  <2>4. \A q \in Runs \ {r} :
          pc'[q] = pc[q] /\ statement'[q] = statement[q] /\ session'[q] = session[q]
    BY <1>1 DEF Begin, TypeOK
  <2>5. Ticket(r)' /\ Fresh(r)'
    BY <2>3 DEF Ticket, Fresh
  <2>6. ASSUME NEW q \in Runs \ {r} PROVE Ticket(q)' /\ Fresh(q)'
    BY <2>2, <2>4 DEF DatabaseInv, Ticket, Fresh, OnTarget
  <2>7. QED
    BY <2>1, <2>5, <2>6 DEF DatabaseInv
<1>2. CASE Disturbance(r)
  <2>1. UNCHANGED <<database, config, statement, session>>
    BY <1>2 DEF Disturbance, Fault, Signal, Kill, loading
  <2>2. (pc'[r] \in Preparing => pc[r] \in Preparing) /\ \A q \in Runs \ {r} : pc'[q] = pc[q]
    BY <1>t, <1>2 DEF Disturbance, Fault, Signal, Kill
  <2>3. QED
    BY <2>1, <2>2, QuietStep
<1>3. QED
  BY <1>1, <1>2

(* A server crash and DROP DATABASE end the connections that rely on the *)
(* database; the other acts take nothing away.                           *)
LEMMA DatabaseInvEnvironment ==
  ASSUME TypeOK, DatabaseInv, Environment
  PROVE  DatabaseInv'
<1> USE DEF DatabaseInv, Shape, Ticket, Fresh, OnTarget, database, config, loading
<1>1. CASE Outage
  <2>1. \A q \in Runs : session'[q] = FALSE
    BY <1>1, Zenon DEF Outage
  <2>2. UNCHANGED <<database, config, statement, pc>>
    BY <1>1 DEF Outage
  <2>3. QED
    BY <2>1, <2>2
<1>2. CASE Recover
  BY <1>2 DEF Recover
<1>3. CASE CreateDatabase
  BY <1>3 DEF CreateDatabase, OperatorAct
<1>4. CASE CreateForeign
  BY <1>4 DEF CreateForeign, OperatorAct
<1>5. CASE CreateArchive
  BY <1>5 DEF CreateArchive, OperatorAct
<1>6. CASE DropDatabase
  <2>1. \A q \in Runs : session'[q] => session[q] /\ statement[q] \notin OnTarget
    BY <1>6, Zenon DEF DropDatabase
  <2>2. Shape' /\ statement' = statement /\ pc' = pc /\ dumpCreates' = dumpCreates
    BY <1>6 DEF DropDatabase, OperatorAct
  <2>3. ASSUME NEW q \in Runs PROVE Ticket(q)' /\ Fresh(q)'
    BY <2>1, <2>2
  <2>4. QED
    BY <2>2, <2>3
<1>7. CASE WriterAdds
  BY <1>7 DEF WriterAdds
<1>8. QED
  BY <1>1, <1>2, <1>3, <1>4, <1>5, <1>6, <1>7 DEF Environment

(* A stuttering step keeps the invariant of the target database. *)
LEMMA DatabaseInvStutter == DatabaseInv /\ UNCHANGED vars => DatabaseInv'
  BY DEF DatabaseInv, Shape, Ticket, Fresh, vars

(* Whatever the runs, the operator and the server do: a database that does   *)
(* not exist holds nothing, an archive's rows are those of the loader that   *)
(* created its tables or of the archive writer, and a load past its "schema" *)
(* statement owns those tables for as long as its connection lives.          *)
THEOREM DatabaseCorrect == Spec => []DatabaseInv
<1>1. TypeOK /\ DatabaseInv /\ [Next]_vars => DatabaseInv'
  BY DatabaseInvRun, DatabaseInvBegin, DatabaseInvEnvironment, DatabaseInvStutter DEF Next
<1>2. QED
  BY <1>1, DatabaseInvInit, TypeCorrect, PTL DEF Spec

-----------------------------------------------------------------------------
(* The refinement of TargetDatabase. *)
LEMMA TargetInit == Init => Target!Init
<1> SUFFICES ASSUME Init PROVE Target!Init
  OBVIOUS
<1>1. /\ dbExists \in BOOLEAN /\ rest = blocks
      /\ schema \in {Nobody, Writer} /\ blocks \in {{}, {Writer}}
      /\ schema # Writer => blocks = {}
      /\ ~dbExists => schema = Nobody
  BY DEF Init
<1>2. QED
  BY <1>1 DEF Target!Init

(* What a load commits is a step of TargetDatabase. *)
LEMMA EffectIsTargetStep ==
  ASSUME TypeOK, DatabaseInv, NEW r \in Runs, session[r], Accepted(r), Effect(r)
  PROVE  [Target!Next]_Target!vars
<1> statement[r] \in Script /\ Ticket(r) /\ r \in Target!Owners
  BY DEF TypeOK, DatabaseInv, Target!Owners
<1> USE DEF Effect, Accepted, Ticket, OnTarget
<1>1. CASE statement[r] = "database"
  BY <1>1 DEF Target!Next, Target!Create
<1>2. CASE statement[r] = "connect"
  BY <1>2 DEF Target!vars
<1>3. CASE statement[r] = "schema"
  BY <1>3 DEF Target!Next, Target!Claim
<1>4. CASE statement[r] = "blocks"
  BY <1>4 DEF Target!Next, Target!AddBlocks
<1>5. CASE statement[r] = "rest"
  BY <1>5 DEF Target!Next, Target!Finish
<1>6. QED
  BY <1>1, <1>2, <1>3, <1>4, <1>5 DEF Script

(* Every step of ArchiveRestore is a step of TargetDatabase or changes *)
(* nothing there.                                                      *)
LEMMA TargetStep ==
  ASSUME TypeOK, DatabaseInv, [Next]_vars
  PROVE  [Target!Next]_Target!vars
<1>1. ASSUME UNCHANGED database PROVE [Target!Next]_Target!vars
  BY <1>1 DEF database, Target!vars
<1>2. ASSUME NEW r \in Runs, LastStatement(r) PROVE [Target!Next]_Target!vars
  BY <1>1, <1>2, EffectIsTargetStep DEF LastStatement, Connected
<1>3. ASSUME NEW r \in Runs, RunStep(r) PROVE [Target!Next]_Target!vars
  <2>1. CASE Execute(r)
    BY <2>1, EffectIsTargetStep DEF Execute, Connected
  <2>2. CASE InterruptLoad(r)
    BY <2>2, <1>2 DEF InterruptLoad
  <2>3. CASE ~Execute(r) /\ ~InterruptLoad(r)
    BY <1>1, <1>3, <2>3 DEF RunStep, ProbeDatabase, ProbeTable, ProbeRows, GetDump, Unlink,
       Create, Write, CheckDump, ApplyTuning, EmptyDatabaseExists, EmptyDatabaseCount,
       OpenDump, EndOfPartialFile, StopOnError, Fail
  <2>4. QED
    BY <2>1, <2>2, <2>3
<1>4. ASSUME NEW r \in Runs, Begin(r) \/ Disturbance(r) PROVE [Target!Next]_Target!vars
  <2>1. UNCHANGED database
    BY <1>4 DEF Disturbance, Begin, Fault, Signal, Kill
  <2>2. QED
    BY <1>1, <2>1
<1>5. ASSUME Environment PROVE [Target!Next]_Target!vars
  <2>1. CASE Outage \/ Recover
    BY <1>1, <2>1 DEF Outage, Recover
  <2>2. CASE CreateDatabase
    BY <2>2 DEF CreateDatabase, Target!Next, Target!Create
  <2>3. CASE CreateForeign
    BY <2>3 DEF CreateForeign, Target!vars
  <2>4. CASE CreateArchive
    BY <2>4 DEF CreateArchive, Target!Next, Target!Claim, Target!Owners
  <2>5. CASE DropDatabase
    BY <2>5 DEF DropDatabase, Target!Next, Target!Drop
  <2>6. CASE WriterAdds
    <3>1. CASE schema = Writer
      BY <2>6, <3>1 DEF WriterAdds, Target!Next, Target!Extend
    <3>2. CASE schema # Writer
      <4>1. schema \in Runs
        BY <2>6, <3>2 DEF WriterAdds, TypeOK, Owners
      <4>2. Target!AddBlocks(Writer)
        BY <2>6, <3>2, <4>1 DEF WriterAdds, Target!AddBlocks
      <4>3. QED
        BY <4>2 DEF Target!Next, Target!Owners
    <3>3. QED
      BY <3>1, <3>2
  <2>7. QED
    BY <1>5, <2>1, <2>2, <2>3, <2>4, <2>5, <2>6 DEF Environment
<1>6. CASE UNCHANGED vars
  BY <1>1, <1>6 DEF vars, database
<1>7. QED
  BY <1>3, <1>4, <1>5, <1>6 DEF Next

(* ArchiveRestore implements TargetDatabase, for any runs, work directories, *)
(* dumps and modes: the archive's tables in the target database are one      *)
(* loader's and filled in the order of the dump.                             *)
THEOREM RestoreImplementsTarget == Spec => ImplementsTarget
  BY TargetInit, TargetStep, TypeCorrect, DatabaseCorrect, PTL
     DEF Spec, ImplementsTarget, Target!Spec

-----------------------------------------------------------------------------
(***************************************************************************)
(* What a run leaves alone. KeptInv ties the observation kept, made when a *)
(* run begins, to the database as it is now; with it both properties are   *)
(* inductive.                                                              *)
(***************************************************************************)
LeftAloneInv == KeptInv /\ ArchiveIsProtected /\ NonEmptyIsLeftAlone

(* Before the first run nothing has been observed. *)
LEMMA LeftAloneInit == Init => LeftAloneInv
  BY DEF Init, LeftAloneInv, KeptInv, ArchiveIsProtected, NonEmptyIsLeftAlone

(* A commit of a load takes nothing away. *)
LEMMA CommitKeeps ==
  ASSUME TypeOK, DatabaseInv, KeptInv, NEW r \in Runs, LastStatement(r), kept' = kept
  PROVE  KeptInv'
<1>1. CASE UNCHANGED database
  BY <1>1 DEF database, KeptInv
<1>2. CASE Connected(r) /\ Accepted(r) /\ Effect(r)
  <2>1. (schema # Nobody => schema' = schema) /\ blocks \subseteq blocks'
    BY <1>2, EffectGrows DEF Connected
  <2>2. foreign' = foreign
    BY <1>2 DEF Effect
  <2>3. QED
    BY <2>1, <2>2 DEF KeptInv
<1>3. QED
  BY <1>1, <1>2 DEF LastStatement

(* No step of runArchive gets past a probe or a CREATE DATABASE that the *)
(* database forbids.                                                     *)
LEMMA LeftAloneRun ==
  ASSUME TypeOK, DatabaseInv, LeftAloneInv, NEW r \in Runs, RunStep(r)
  PROVE  LeftAloneInv'
<1> USE DEF LeftAloneInv
<1>1. KeptInv'
  <2>1. kept' = kept
    BY DEF RunStep, ProbeDatabase, ProbeTable, ProbeRows, GetDump, Unlink, Create, Write,
       CheckDump, ApplyTuning, EmptyDatabaseExists, EmptyDatabaseCount, OpenDump, Execute,
       EndOfPartialFile, StopOnError, InterruptLoad, Fail, others
  <2>2. LastStatement(r)
    BY DEF LastStatement, RunStep, ProbeDatabase, ProbeTable, ProbeRows, GetDump, Unlink,
       Create, Write, CheckDump, ApplyTuning, EmptyDatabaseExists, EmptyDatabaseCount,
       OpenDump, Execute, EndOfPartialFile, StopOnError, InterruptLoad, Fail
  <2>3. QED
    BY <2>1, <2>2, CommitKeeps
<1>2. /\ kept' = kept /\ mode' = mode /\ dumpCreates' = dumpCreates
      /\ \A q \in Runs \ {r} : pc'[q] = pc[q] /\ statement'[q] = statement[q]
  BY DEF TypeOK, RunStep, ProbeDatabase, ProbeTable, ProbeRows, GetDump, Unlink, Create, Write,
     CheckDump, ApplyTuning, EmptyDatabaseExists, EmptyDatabaseCount, OpenDump, Execute,
     EndOfPartialFile, StopOnError, InterruptLoad, Fail, others, config, loading, Goto,
     NoArchive, PsqlEnds
<1>3. ASSUME "archive" \in kept[r], mode[r] \in {"skip", "fail"}
      PROVE  pc'[r] \in Probing \cup {"skipped", "err", "dead"}
  <2>1. pc[r] \in Probing \cup {"skipped", "err", "dead"}
    BY <1>3 DEF ArchiveIsProtected
  <2>2. blocks # {} /\ schema # Nobody /\ dbExists
    BY <1>3 DEF KeptInv, DatabaseInv, Shape
  <2>3. ProbeDatabase(r) \/ ProbeTable(r) \/ ProbeRows(r) \/ Fail(r)
    BY <2>1 DEF RunStep, GetDump, Unlink, Create, Write, CheckDump, ApplyTuning,
       EmptyDatabaseExists, EmptyDatabaseCount, OpenDump, Execute, EndOfPartialFile,
       StopOnError, InterruptLoad, Loads, Probing
  <2>4. QED
    BY <2>2, <2>3 DEF ProbeDatabase, ProbeTable, ProbeRows, Fail, Goto, TypeOK, Probing
<1>4. ASSUME dumpCreates, "objects" \in kept[r]
      PROVE  statement'[r] = "database"
  <2>1. statement[r] = "database"
    BY <1>4 DEF NonEmptyIsLeftAlone
  <2>2. dbExists /\ ~Empty
    BY <1>4 DEF KeptInv, DatabaseInv, Shape, Empty
  <2>3. ~Execute(r)
    BY <2>1, <2>2 DEF Execute, Accepted
  <2>4. CASE ApplyTuning(r)
    BY <1>4, <2>4 DEF ApplyTuning, TypeOK
  <2>5. CASE EmptyDatabaseCount(r)
    BY <2>1, <2>2, <2>5 DEF EmptyDatabaseCount, TypeOK
  <2>6. CASE UNCHANGED statement
    BY <2>1, <2>6
  <2>7. QED
    BY <2>3, <2>4, <2>5, <2>6 DEF RunStep, ProbeDatabase, ProbeTable, ProbeRows, GetDump,
       Unlink, Create, Write, CheckDump, EmptyDatabaseExists, OpenDump,
       EndOfPartialFile, StopOnError, InterruptLoad, Fail, loading
<1>5. QED
  BY <1>1, <1>2, <1>3, <1>4 DEF ArchiveIsProtected, NonEmptyIsLeftAlone

(* A new run observes the database as it is; faults, signals and kills take *)
(* nothing away and start nothing.                                          *)
LEMMA LeftAloneBegin ==
  ASSUME TypeOK, DatabaseInv, LeftAloneInv, NEW r \in Runs, Begin(r) \/ Disturbance(r)
  PROVE  LeftAloneInv'
<1> USE DEF LeftAloneInv
<1>1. CASE Begin(r)
  <2>1. UNCHANGED <<database, mode, dumpCreates>>
    BY <1>1 DEF Begin, config
  <2>2. \A q \in Runs \ {r} :
          pc'[q] = pc[q] /\ statement'[q] = statement[q] /\ kept'[q] = kept[q]
    BY <1>1 DEF Begin, Goto, TypeOK
  <2>3. /\ "objects" \in kept'[r] => foreign \/ schema # Nobody
        /\ "archive" \in kept'[r] => blocks # {}
    BY <1>1 DEF Begin, TypeOK
  <2>4. /\ mode[r] \in {"skip", "fail"} => pc'[r] \in Probing
        /\ statement'[r] = "database"
    BY <1>1 DEF Begin, Goto, TypeOK, Probing
  <2>5. QED
    BY <2>1, <2>2, <2>3, <2>4 DEF KeptInv, ArchiveIsProtected, NonEmptyIsLeftAlone, database
<1>2. CASE Disturbance(r)
  <2>1. kept' = kept /\ statement' = statement /\ mode' = mode /\ dumpCreates' = dumpCreates
    BY <1>2 DEF Disturbance, Fault, Signal, Kill, others, loading, config
  <2>2. LastStatement(r)
    BY <1>2 DEF Disturbance, Fault, Signal, Kill, LastStatement
  <2>3. KeptInv'
    BY <2>1, <2>2, CommitKeeps
  <2>4. \A q \in Runs \ {r} : pc'[q] = pc[q]
    BY <1>2 DEF Disturbance, Fault, Signal, Kill, Goto, PsqlEnds, TypeOK
  <2>5. pc'[r] \in {pc[r], "err", "dead", "orphan"} /\ (pc'[r] = "orphan" => pc[r] \in {"load", "orphan"})
    <3>1. CASE Fault(r)
      BY <3>1 DEF Fault, Goto, PsqlEnds, TypeOK
    <3>2. CASE Signal(r)
      BY <3>2 DEF Signal
    <3>3. CASE Kill(r)
      BY <3>3 DEF Kill, Goto, TypeOK
    <3>4. QED
      BY <1>2, <3>1, <3>2, <3>3 DEF Disturbance
  <2>6. QED
    BY <2>1, <2>3, <2>4, <2>5 DEF ArchiveIsProtected, NonEmptyIsLeftAlone, Probing
<1>3. QED
  BY <1>1, <1>2

(* Only DROP DATABASE takes objects away, and it resets the observation. *)
LEMMA LeftAloneEnvironment ==
  ASSUME TypeOK, DatabaseInv, LeftAloneInv, Environment
  PROVE  LeftAloneInv'
<1> USE DEF LeftAloneInv, KeptInv, ArchiveIsProtected, NonEmptyIsLeftAlone
<1>1. pc' = pc /\ statement' = statement /\ mode' = mode /\ dumpCreates' = dumpCreates
  BY DEF Environment, Outage, Recover, CreateDatabase, CreateForeign, CreateArchive,
     DropDatabase, OperatorAct, WriterAdds, config, loading
<1>2. CASE DropDatabase
  <2>1. \A q \in Runs : kept'[q] = {}
    BY <1>2 DEF DropDatabase
  <2>2. QED
    BY <1>1, <2>1
<1>3. CASE ~DropDatabase
  <2>1. kept' = kept
    BY <1>3 DEF Environment, Outage, Recover, CreateDatabase, CreateForeign, CreateArchive,
       OperatorAct, WriterAdds, others
  <2>2. /\ foreign \/ schema # Nobody => foreign' \/ schema' # Nobody
        /\ blocks # {} => blocks' # {}
    BY <1>3 DEF Environment, Outage, Recover, CreateDatabase, CreateForeign, CreateArchive,
       OperatorAct, WriterAdds, database
  <2>3. QED
    BY <1>1, <2>1, <2>2
<1>4. QED
  BY <1>2, <1>3

(* A stuttering step keeps the invariant. *)
LEMMA LeftAloneStutter == LeftAloneInv /\ UNCHANGED vars => LeftAloneInv'
  BY DEF LeftAloneInv, KeptInv, ArchiveIsProtected, NonEmptyIsLeftAlone, vars

(* What a run leaves alone, for every state of the specification. *)
LEMMA LeftAlone == Spec => []LeftAloneInv
<1>1. TypeOK /\ DatabaseInv /\ LeftAloneInv /\ [Next]_vars => LeftAloneInv'
  BY LeftAloneRun, LeftAloneBegin, LeftAloneEnvironment, LeftAloneStutter DEF Next
<1>2. QED
  BY <1>1, LeftAloneInit, TypeCorrect, DatabaseCorrect, PTL DEF Spec

(* A run with --if-present=skip or fail never gets past its probe while the *)
(* archive that was there when it began is.                                 *)
THEOREM ProtectsArchives == Spec => []ArchiveIsProtected
<1>1. LeftAloneInv => ArchiveIsProtected
  BY DEF LeftAloneInv
<1>2. QED
  BY <1>1, LeftAlone, PTL

(* A run that began on a database with objects in it never gets past the  *)
(* CREATE DATABASE of its dump, unless that database was dropped.         *)
THEOREM LeavesObjectsAlone == Spec => []NonEmptyIsLeftAlone
<1>1. LeftAloneInv => NonEmptyIsLeftAlone
  BY DEF LeftAloneInv
<1>2. QED
  BY <1>1, LeftAlone, PTL

-----------------------------------------------------------------------------
(* The steps of a run are its own, and only Signal signals it. *)
LEMMA StepIsOwn ==
  ASSUME TypeOK, NEW r \in Runs, RunStep(r) \/ Disturbance(r)
  PROVE  /\ mode' = mode /\ dumpCreates' = dumpCreates
         /\ \A q \in Runs \ {r} : pc'[q] = pc[q]
         /\ Signal(r) \/ signalled' = signalled
<1> USE DEF RunStep, ProbeDatabase, ProbeTable, ProbeRows, GetDump, Unlink, Create, Write,
        CheckDump, ApplyTuning, EmptyDatabaseExists, EmptyDatabaseCount, OpenDump, Execute,
        EndOfPartialFile, StopOnError, InterruptLoad, Fail, Disturbance, Fault, Kill
<1>1. mode' = mode /\ dumpCreates' = dumpCreates
  BY DEF config, Signal
<1>2. \A q \in Runs \ {r} : pc'[q] = pc[q]
  BY DEF TypeOK, Goto, PsqlEnds, NoArchive, Signal
<1>3. Signal(r) \/ signalled' = signalled
  OBVIOUS
<1>4. QED
  BY <1>1, <1>2, <1>3

(* A step of a signalled run that was to restore is not its success. *)
LEMMA SignalledStep ==
  ASSUME TypeOK, NEW r \in Runs, RunStep(r) \/ Disturbance(r),
         signalled[r], mode[r] # "skip-pg", pc[r] \notin ExitZero
  PROVE  pc'[r] \notin ExitZero
<1> USE DEF Goto, PsqlEnds, ExitZero, Loads
<1>t. pc \in [Runs -> Active \cup Ended \cup {"orphan"}]
  BY DEF TypeOK
<1>1. ASSUME Disturbance(r) PROVE pc'[r] \notin ExitZero
  BY <1>t, <1>1 DEF Disturbance, Fault, Signal, Kill
<1>2. ASSUME RunStep(r) PROVE pc'[r] \notin ExitZero
  <2>1. ~ProbeDatabase(r) /\ ~ProbeTable(r) /\ ~ProbeRows(r) /\ ~GetDump(r) /\ ~ApplyTuning(r)
        /\ ~EmptyDatabaseExists(r) /\ ~EmptyDatabaseCount(r) /\ ~OpenDump(r)
    BY DEF ProbeDatabase, ProbeTable, ProbeRows, GetDump, ApplyTuning, EmptyDatabaseExists,
       EmptyDatabaseCount, OpenDump, CanQuery
  <2>2. CASE Unlink(r) \/ Create(r) \/ Write(r) \/ CheckDump(r)
    BY <1>t, <2>2 DEF Unlink, Create, Write, CheckDump
  <2>3. CASE Execute(r)
    BY <1>t, <2>3 DEF Execute
  <2>4. CASE EndOfPartialFile(r) \/ StopOnError(r) \/ InterruptLoad(r) \/ Fail(r)
    BY <1>t, <2>4 DEF EndOfPartialFile, StopOnError, InterruptLoad, Fail
  <2>5. QED
    BY <1>2, <2>1, <2>2, <2>3, <2>4 DEF RunStep
<1>3. QED
  BY <1>1, <1>2

(* A run that was to restore and is signalled before it is through takes no *)
(* step to a zero exit status.                                              *)
THEOREM InterruptedFails == Spec => InterruptedIsNotProvisioned
<1> DEFINE Interrupted == \A r \in Runs :
             signalled[r] /\ mode[r] # "skip-pg" /\ pc[r] \notin ExitZero => pc'[r] \notin ExitZero
<1>1. ASSUME TypeOK, [Next]_vars, NEW r \in Runs,
             signalled[r], mode[r] # "skip-pg", pc[r] \notin ExitZero
      PROVE  pc'[r] \notin ExitZero
  <2>1. CASE Begin(r)
    BY <1>1, <2>1 DEF Begin, Goto, TypeOK, ExitZero
  <2>2. CASE RunStep(r) \/ Disturbance(r)
    BY <1>1, <2>2, SignalledStep
  <2>3. ASSUME NEW q \in Runs \ {r}, Begin(q) \/ RunStep(q) \/ Disturbance(q)
        PROVE  pc'[r] = pc[r]
    <3>1. CASE Begin(q)
      BY <1>1, <3>1 DEF Begin, Goto, TypeOK
    <3>2. QED
      BY <1>1, <2>3, <3>1, StepIsOwn
  <2>4. ASSUME Environment \/ UNCHANGED vars PROVE pc' = pc
    BY <2>4 DEF Environment, Outage, Recover, CreateDatabase, CreateForeign, CreateArchive,
       DropDatabase, OperatorAct, WriterAdds, vars
  <2>5. QED
    BY <1>1, <2>1, <2>2, <2>3, <2>4 DEF Next
<1>2. TypeOK /\ [Next]_vars => [Interrupted]_vars
  BY <1>1
<1>3. QED
  BY <1>2, TypeCorrect, PTL DEF Spec, InterruptedIsNotProvisioned

-----------------------------------------------------------------------------
(***************************************************************************)
(* What "provisioned" means.                                               *)
(***************************************************************************)

(* Nothing takes the tuning back, and no step but ApplyTuning leads to a     *)
(* place where it is needed from one where it is not.                        *)
LEMMA TunedStep ==
  ASSUME TypeOK, TunedInv, [Next]_vars
  PROVE  TunedInv'
<1> DEFINE Needs(label) == label \in {"open", "load"} \cup Checking
<1> USE DEF Checking
<1>1. ASSUME NEW r \in Runs, RunStep(r), ~ApplyTuning(r)
      PROVE  tuned' = tuned /\ (Needs(pc'[r]) => Needs(pc[r]))
  <2>1. CASE ProbeDatabase(r) \/ ProbeTable(r) \/ ProbeRows(r) \/ GetDump(r)
    BY <2>1 DEF ProbeDatabase, ProbeTable, ProbeRows, GetDump, NoArchive, Goto, TypeOK
  <2>2. CASE Unlink(r) \/ Create(r) \/ Write(r) \/ CheckDump(r)
    BY <2>2 DEF Unlink, Create, Write, CheckDump, Goto, TypeOK
  <2>3. CASE EmptyDatabaseExists(r) \/ EmptyDatabaseCount(r) \/ OpenDump(r)
    BY <2>3 DEF EmptyDatabaseExists, EmptyDatabaseCount, OpenDump, Goto, TypeOK
  <2>4. CASE Execute(r) \/ EndOfPartialFile(r) \/ StopOnError(r) \/ InterruptLoad(r) \/ Fail(r)
    BY <2>4 DEF Execute, EndOfPartialFile, StopOnError, InterruptLoad, Fail, PsqlEnds, Goto, TypeOK
  <2>5. QED
    BY <1>1, <2>1, <2>2, <2>3, <2>4 DEF RunStep
<1>2. ASSUME NEW r \in Runs, RunStep(r) \/ Disturbance(r) \/ Begin(r) PROVE TunedInv'
  <2>1. \A q \in Runs \ {r} : pc'[q] = pc[q]
    BY <1>2, StepIsOwn DEF Begin, Goto, TypeOK
  <2>2. CASE ApplyTuning(r)
    BY <2>2 DEF ApplyTuning, TunedInv
  <2>3. CASE ~ApplyTuning(r)
    <3>1. tuned' = tuned /\ (Needs(pc'[r]) => Needs(pc[r]))
      <4>1. CASE Disturbance(r)
        BY <4>1 DEF Disturbance, Fault, Signal, Kill, PsqlEnds, Goto, TypeOK
      <4>2. CASE Begin(r)
        BY <4>2 DEF Begin, Goto, TypeOK
      <4>3. QED
        BY <1>1, <1>2, <2>3, <4>1, <4>2
    <3>2. QED
      BY <2>1, <3>1 DEF TunedInv
  <2>4. QED
    BY <2>2, <2>3
<1>3. ASSUME Environment \/ UNCHANGED vars PROVE TunedInv'
  <2>1. UNCHANGED <<tuned, pc>>
    BY <1>3 DEF Environment, Outage, Recover, CreateDatabase, CreateForeign, CreateArchive,
       DropDatabase, OperatorAct, WriterAdds, vars
  <2>2. QED
    BY <2>1 DEF TunedInv
<1>4. QED
  BY <1>2, <1>3 DEF Next

(* The server is tuned whenever a run is about to load, or loads. *)
LEMMA Tuned == Spec => []TunedInv
<1>1. Init => TunedInv
  BY DEF Init, TunedInv, Checking
<1>2. QED
  BY <1>1, TunedStep, TypeCorrect, PTL DEF Spec

(* A load that ends with status 0 is the only step to "ok". *)
LEMMA LoadEnds ==
  ASSUME TypeOK, [Next]_vars, NEW r \in Runs, pc[r] # "ok", pc'[r] = "ok"
  PROVE  pc[r] = "load" /\ (Execute(r) \/ EndOfPartialFile(r))
<1> USE DEF Goto, TypeOK
<1>1. pc' # pc
  OBVIOUS
<1>2. ~Environment /\ ~UNCHANGED vars
  BY <1>1 DEF Environment, Outage, Recover, CreateDatabase, CreateForeign, CreateArchive,
     DropDatabase, OperatorAct, WriterAdds, vars
<1>3. PICK q \in Runs : Begin(q) \/ RunStep(q) \/ Disturbance(q)
  BY <1>2 DEF Next
<1>4. q = r
  <2>1. CASE Begin(q)
    BY <2>1 DEF Begin
  <2>2. CASE RunStep(q) \/ Disturbance(q)
    BY <2>2, StepIsOwn
  <2>3. QED
    BY <1>3, <2>1, <2>2
<1>5. ~Begin(r) /\ ~Disturbance(r)
  BY DEF Begin, Disturbance, Fault, Signal, Kill, PsqlEnds
<1>6. Execute(r) \/ EndOfPartialFile(r)
  BY <1>3, <1>4, <1>5 DEF RunStep, ProbeDatabase, ProbeTable, ProbeRows, GetDump, Unlink,
     Create, Write, CheckDump, ApplyTuning, EmptyDatabaseExists, EmptyDatabaseCount,
     OpenDump, StopOnError, InterruptLoad, Fail, NoArchive, PsqlEnds
<1>7. QED
  BY <1>6 DEF Execute, EndOfPartialFile, Loads, PsqlEnds

(* The commit of a dump's last statement leaves the whole of it restored. *)
LEMMA LastStatementRestores ==
  ASSUME TypeOK, DatabaseInv, TunedInv, NEW r \in Runs, Execute(r), pc[r] = "load", pc'[r] = "ok"
  PROVE  Restored(r)'
<1>1. statement[r] = "rest" /\ session[r]
  BY DEF Execute, Connected
<1>2. schema = r /\ r \in blocks /\ blocks \subseteq {schema, Writer} /\ rest \subseteq {schema}
  BY <1>1 DEF DatabaseInv, Shape, Ticket, OnTarget
<1>3. schema' = schema /\ blocks' = blocks /\ rest' = rest \cup {r} /\ tuned' = tuned
  BY <1>1 DEF Execute, Effect
<1>4. tuned
  BY DEF TunedInv
<1>5. r # Writer
  BY OwnersAssumption
<1>6. QED
  BY <1>2, <1>3, <1>4, <1>5 DEF Restored

(* Whatever directories the runs use, a run that reports "Archive database  *)
(* provisioned" after psql opened a whole dump has restored all of it, into *)
(* a database that holds nothing of another bootstrap, on a tuned server.   *)
THEOREM WholeDumpRestores == Spec => WholeDumpIsRestored
<1> DEFINE Restores == \A r \in Runs :
                         pc[r] # "ok" /\ pc'[r] = "ok" /\ reads[r] = "whole" => Restored(r)'
<1>1. TypeOK /\ DatabaseInv /\ TunedInv /\ [Next]_vars => [Restores]_vars
  <2>1. ASSUME TypeOK, DatabaseInv, TunedInv, [Next]_vars, NEW r \in Runs, pc[r] # "ok",
               pc'[r] = "ok", reads[r] = "whole"
        PROVE  Restored(r)'
    BY <2>1, LoadEnds, LastStatementRestores DEF EndOfPartialFile
  <2>2. QED
    BY <2>1
<1>2. QED
  BY <1>1, Tuned, TypeCorrect, DatabaseCorrect, PTL DEF Spec, WholeDumpIsRestored

(* Work directories that differ. *)
OwnWorkDirs == \A p, q \in Runs : WorkDir[p] = WorkDir[q] => p = q

(* Before the first run there is nothing to find in a work directory. *)
LEMMA FileInvInit == Init => FileInv
  BY DEF Init, FileInv, OwnFile, Checking

(* The steps that leave the files, the tuning and every open file alone. *)
LEMMA FileQuietStep ==
  ASSUME FileInv, NEW r \in Runs, UNCHANGED <<files, reads>>,
         \A q \in Runs \ {r} : pc'[q] = pc[q], OwnFile(r)'
  PROVE  FileInv'
<1>1. ASSUME NEW q \in Runs \ {r} PROVE OwnFile(q)'
  <2>1. OwnFile(q) /\ pc'[q] = pc[q] /\ sqlAt' = sqlAt /\ sqlWhole' = sqlWhole /\ reads' = reads
    BY DEF FileInv, files
  <2>2. QED
    BY <2>1 DEF OwnFile
<1>2. QED
  BY <1>1 DEF FileInv

(* The steps of an extraction write in the run's own directory only. *)
LEMMA ExtractStep ==
  ASSUME OwnWorkDirs, TypeOK, FileInv, NEW r \in Runs, Unlink(r) \/ Create(r) \/ Write(r)
  PROVE  FileInv'
<1>1. \A q \in Runs \ {r} : /\ WorkDir[q] # WorkDir[r] /\ WorkDir[q] \in Dirs
                           /\ pc'[q] = pc[q]
  BY DEF OwnWorkDirs, TypeOK, Unlink, Create, Write, Goto
<1>2. UNCHANGED reads
  BY DEF Unlink, Create, Write, loading
<1>3. ASSUME NEW q \in Runs \ {r}
      PROVE  sqlAt'[WorkDir[q]] = sqlAt[WorkDir[q]] /\ sqlWhole'[WorkDir[q]] = sqlWhole[WorkDir[q]]
  <2>1. sqlAt'[WorkDir[q]] = sqlAt[WorkDir[q]]
    BY <1>1 DEF TypeOK, Unlink, Create, Write
  <2>2. sqlWhole'[WorkDir[q]] = sqlWhole[WorkDir[q]]
    BY <1>1, Zenon DEF TypeOK, Unlink, Create, Write
  <2>3. QED
    BY <2>1, <2>2
<1>4. ASSUME NEW q \in Runs \ {r} PROVE OwnFile(q)'
  <2>1. OwnFile(q)
    BY DEF FileInv
  <2>2. QED
    BY <1>1, <1>2, <1>3, <2>1 DEF OwnFile
<1>5. OwnFile(r)'
  <2>1. WorkDir[r] \in Dirs /\ OwnFile(r)
    BY DEF FileInv
  <2>2. CASE Unlink(r)
    <3>1. pc'[r] = "create"
      BY <2>2 DEF Unlink, Goto, TypeOK
    <3>2. QED
      BY <3>1 DEF OwnFile, Checking
  <2>3. CASE Create(r)
    <3>1. pc'[r] = "err" \/ (pc'[r] = "write" /\ sqlAt'[WorkDir[r]] = r)
      BY <2>1, <2>3 DEF Create, Goto, TypeOK
    <3>2. QED
      BY <3>1 DEF OwnFile, Checking
  <2>4. CASE Write(r)
    <3>1. sqlAt[WorkDir[r]] = r /\ sqlAt' = sqlAt
      BY <2>1, <2>4 DEF Write, OwnFile
    <3>2. sqlWhole'[WorkDir[r]] = TRUE
      BY <2>1, <2>4, <3>1, Zenon DEF Write, TypeOK
    <3>3. pc'[r] \in {"extracted", "check"}
      BY <2>4 DEF Write, Goto, TypeOK
    <3>4. QED
      BY <3>1, <3>2, <3>3 DEF OwnFile, Checking
  <2>5. QED
    BY <2>2, <2>3, <2>4
<1>6. QED
  BY <1>4, <1>5 DEF FileInv

(* Every step keeps the invariant of the work directories. *)
LEMMA FileStep ==
  ASSUME OwnWorkDirs, TypeOK, FileInv, [Next]_vars
  PROVE  FileInv'
<1> USE DEF Checking
<1>1. ASSUME NEW r \in Runs, RunStep(r) PROVE FileInv'
  <2>1. CASE Unlink(r) \/ Create(r) \/ Write(r)
    BY <2>1, ExtractStep
  <2>2. CASE OpenDump(r)
    <3>1. OwnFile(r) /\ pc[r] = "open"
      BY <2>2 DEF FileInv, OpenDump
    <3>2. Sql(r) = "whole"
      BY <3>1 DEF OwnFile, Sql
    <3>3. pc'[r] = "load" /\ reads'[r] = "whole" /\ UNCHANGED files
      BY <2>2, <3>2 DEF OpenDump, Goto, TypeOK
    <3>4. \A q \in Runs \ {r} : pc'[q] = pc[q] /\ reads'[q] = reads[q]
      BY <2>2 DEF OpenDump, Goto, TypeOK
    <3>5. ASSUME NEW q \in Runs PROVE OwnFile(q)'
      BY <3>1, <3>3, <3>4 DEF FileInv, OwnFile, files
    <3>6. QED
      BY <3>5 DEF FileInv
  <2>3. CASE ~(Unlink(r) \/ Create(r) \/ Write(r) \/ OpenDump(r))
    <3>1. UNCHANGED <<files, reads>>
      BY <1>1, <2>3 DEF RunStep, ProbeDatabase, ProbeTable, ProbeRows, GetDump, CheckDump,
         ApplyTuning, EmptyDatabaseExists, EmptyDatabaseCount, Execute, EndOfPartialFile,
         StopOnError, InterruptLoad, Fail, loading
    <3>2. OwnFile(r)
      BY DEF FileInv
    <3>3. OwnFile(r)'
      <4>1. CASE ProbeDatabase(r) \/ ProbeTable(r) \/ ProbeRows(r) \/ GetDump(r)
        BY <4>1 DEF ProbeDatabase, ProbeTable, ProbeRows, GetDump, NoArchive, Goto, TypeOK,
           OwnFile
      <4>2. CASE CheckDump(r) \/ EmptyDatabaseExists(r) \/ EmptyDatabaseCount(r)
        BY <3>1, <3>2, <4>2 DEF CheckDump, EmptyDatabaseExists, EmptyDatabaseCount,
           Goto, TypeOK, OwnFile, files
      <4>3. CASE ApplyTuning(r)
        BY <3>1, <3>2, <4>3 DEF ApplyTuning, Goto, TypeOK, OwnFile, files
      <4>4. CASE Execute(r) \/ EndOfPartialFile(r) \/ StopOnError(r) \/ InterruptLoad(r) \/ Fail(r)
        <5>1. pc'[r] \in {pc[r], "ok", "err", "dead"}
          BY <4>4 DEF Execute, EndOfPartialFile, StopOnError, InterruptLoad, Fail, PsqlEnds,
             Goto, TypeOK
        <5>2. QED
          BY <3>1, <3>2, <5>1 DEF OwnFile, files
      <4>5. QED
        BY <1>1, <2>3, <4>1, <4>2, <4>3, <4>4 DEF RunStep
    <3>4. QED
      BY <1>1, <3>1, <3>3, FileQuietStep, StepIsOwn
  <2>4. QED
    BY <2>1, <2>2, <2>3
<1>2. ASSUME NEW r \in Runs, Begin(r) PROVE FileInv'
  <2>1. pc'[r] \in {"probe_db", "get"} /\ UNCHANGED files
    BY <1>2 DEF Begin, Goto, TypeOK
  <2>2. \A q \in Runs \ {r} : pc'[q] = pc[q] /\ reads'[q] = reads[q]
    BY <1>2 DEF Begin, Goto, TypeOK
  <2>3. ASSUME NEW q \in Runs PROVE OwnFile(q)'
    BY <2>1, <2>2 DEF FileInv, OwnFile, files
  <2>4. QED
    BY <2>3 DEF FileInv
<1>3. ASSUME NEW r \in Runs, Disturbance(r) PROVE FileInv'
  <2>1. pc'[r] \in {pc[r], "err", "dead", "orphan"} /\ UNCHANGED <<files, reads>>
    BY <1>3 DEF Disturbance, Fault, Signal, Kill, PsqlEnds, Goto, TypeOK, loading
  <2>2. OwnFile(r)'
    BY <2>1 DEF FileInv, OwnFile, files
  <2>3. QED
    BY <1>3, <2>1, <2>2, FileQuietStep, StepIsOwn
<1>4. ASSUME Environment \/ UNCHANGED vars PROVE FileInv'
  <2>1. UNCHANGED <<files, reads, pc>>
    BY <1>4 DEF Environment, Outage, Recover, CreateDatabase, CreateForeign, CreateArchive,
       DropDatabase, OperatorAct, WriterAdds, loading, vars, files
  <2>2. QED
    BY <2>1 DEF FileInv, OwnFile, files
<1>5. QED
  BY <1>1, <1>2, <1>3, <1>4 DEF Next

(* When every run has a work directory of its own, a run that reports       *)
(* "Archive database provisioned" has restored the whole of its dump into a *)
(* database that holds nothing of another bootstrap, on a tuned server.     *)
THEOREM ProvisionsWhole ==
  ASSUME OwnWorkDirs
  PROVE  Spec => ProvisionedIsRestored
<1> DEFINE Restores == \A r \in Runs : pc[r] # "ok" /\ pc'[r] = "ok" => Restored(r)'
<1>1. TypeOK /\ FileInv /\ [Next]_vars => FileInv'
  BY FileStep
<1>2. TypeOK /\ DatabaseInv /\ TunedInv /\ FileInv /\ [Next]_vars => [Restores]_vars
  <2>1. ASSUME TypeOK, DatabaseInv, TunedInv, FileInv, [Next]_vars, NEW r \in Runs,
               pc[r] # "ok", pc'[r] = "ok"
        PROVE  Restored(r)'
    BY <2>1, LoadEnds, LastStatementRestores DEF EndOfPartialFile, FileInv, OwnFile
  <2>2. QED
    BY <2>1
<1>3. QED
  BY <1>1, <1>2, FileInvInit, Tuned, TypeCorrect, DatabaseCorrect, PTL DEF Spec, ProvisionedIsRestored
=============================================================================
