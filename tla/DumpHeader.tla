----------------------------- MODULE DumpHeader -----------------------------
(***************************************************************************)
(* Where a dump restores: restoreTarget, checkDump and the choice of the   *)
(* load in cmd/archive.go, over ScanDumpHeader and withoutCreateDatabase   *)
(* of internal/pg/dump.go. ArchiveRestore has the interleavings; here one  *)
(* run is taken as a function of the connection string, the provider's     *)
(* entry, the lines of the dump and what the server holds.                 *)
(*                                                                         *)
(* A line is a record: "create" is CREATE DATABASE (name as written,       *)
(* quoted or not, with its semicolon on the line or not), "connect",       *)
(* "restrict", "table" and "rows" (CREATE TABLE and COPY), and "other".    *)
(* Databases are sets of what they hold. A connection string stands for    *)
(* the database it names, "" for none.                                     *)
(***************************************************************************)
EXTENDS Naturals, Sequences, SequencesExt

CONSTANTS
  headerLines,  \* the lines that are scanned
  Fold          \* name as written -> the name in lower case

Refused  == "refused"
Holds(o) == <<"table", o>>
Rows(o)  == <<"rows", o>>

ASSUME NamesAssumption ==
  /\ headerLines \in Nat
  /\ Fold \in [DOMAIN Fold -> DOMAIN Fold]
  /\ {"", Refused} \cap DOMAIN Fold = {}

-----------------------------------------------------------------------------
(* pg.go: DatabaseOf and WithDatabase are the identity on such strings. *)
MaintenanceURI(uri, db) == IF uri # "" /\ uri # db THEN uri ELSE "postgres"

(* restoreTarget *)
RestoreTarget(database, uri) ==
  IF database # "" THEN [db |-> database, connect |-> MaintenanceURI(uri, database)]
  ELSE IF uri = "" THEN [db |-> Refused, connect |-> ""]
  ELSE [db |-> uri, connect |-> uri]

(* identifier *)
Identifier(line) == IF line.quoted THEN line.name ELSE Fold[line.name]

(* The database a line names. *)
Named(line) == IF line.kind = "create" THEN Identifier(line) ELSE line.name

EndsHeader(line) == line.kind \in {"table", "rows"}

(* Up to the first table, or as far as headerLines. *)
Header(dump) ==
  LET stop == SelectInSeq(dump, EndsHeader)
      last == IF stop = 0 THEN Len(dump) ELSE stop - 1
  IN SubSeq(dump, 1, IF last < headerLines THEN last ELSE headerLines)

NamedIn(lines) == {Named(line) : line \in {l \in ToSet(lines) : l.kind \in {"create", "connect"}}}

(* ScanDumpHeader: two names are an error. *)
ScanDumpHeader(dump) ==
  LET names == NamedIn(Header(dump))
  IN [database |-> IF names = {} THEN "" ELSE CHOOSE n \in names : TRUE,
      readable |-> \A n, m \in names : n = m,
      restrict |-> \E n \in DOMAIN Header(dump) : Header(dump)[n].kind = "restrict"]

(* Mutant: the name in the dump is not compared with the provider's. *)
CheckRestrictOnly(dump, database, psql) ==
  LET header == ScanDumpHeader(dump)
  IN header.readable /\ (header.restrict => psql # "old")

(* checkDump. A "new" psql understands \restrict; an "old" one does not, and *)
(* neither does the "unreadable", whose version cannot be read.              *)
CheckDump(dump, database, psql) ==
  LET header == ScanDumpHeader(dump)
  IN /\ header.readable
     /\ header.database = database
     /\ header.restrict => psql # "old"

(* Mutant: every line of the header that names the database is dropped. *)
WithoutItsDatabase(dump, db) ==
  SelectSeq(dump, LAMBDA line : line.kind \notin {"create", "connect"} \/ Named(line) # db)

(* withoutCreateDatabase: the first statement of the header that creates db *)
(* is left out, if it ends on its line; otherwise nothing is loaded.        *)
CreateLine(dump, db) ==
  SelectInSeq(Header(dump), LAMBDA line : line.kind = "create" /\ Named(line) = db)

Removable(dump, db) == CreateLine(dump, db) # 0 /\ dump[CreateLine(dump, db)].closed

WithoutCreateDatabase(dump, db) == RemoveAt(dump, CreateLine(dump, db))

-----------------------------------------------------------------------------
(* psql with ON_ERROR_STOP: a session over what the server holds. *)
Statement(s, line, psql) ==
  LET put(x) == [s EXCEPT !.dbs[s.at] = @ \cup {x}]
      stop   == [s EXCEPT !.failed = TRUE]
      create == Identifier(line)
  IN CASE s.failed -> s
       [] ~s.failed /\ line.kind = "other" -> s
       [] ~s.failed /\ line.kind = "restrict" -> IF psql = "new" THEN s ELSE [stop EXCEPT !.lost = TRUE]
       [] ~s.failed /\ line.kind = "create" ->
            IF create \in DOMAIN s.dbs THEN stop
            ELSE [s EXCEPT !.dbs = [d \in DOMAIN s.dbs \cup {create} |->
                                      IF d = create THEN {} ELSE s.dbs[d]]]
       [] ~s.failed /\ line.kind = "connect" ->
            IF line.name \in DOMAIN s.dbs THEN [s EXCEPT !.at = line.name] ELSE stop
       [] ~s.failed /\ line.kind = "table" ->
            IF Holds(line.name) \in s.dbs[s.at] THEN stop ELSE put(Holds(line.name))
       [] ~s.failed /\ line.kind = "rows" ->
            IF Holds(line.name) \in s.dbs[s.at] THEN put(Rows(line.name)) ELSE stop

(* The states of the session, from the first to the one after the last line. *)
Session(dbs, at, lines, psql) ==
  LET s[n \in 0 .. Len(lines)] ==
        IF n = 0 THEN [dbs |-> dbs, at |-> at, failed |-> at \notin DOMAIN dbs, lost |-> FALSE]
        ELSE Statement(s[n - 1], lines[n], psql)
  IN s

Psql(dbs, at, lines, psql) == Session(dbs, at, lines, psql)[Len(lines)]

(* runArchive from checkDump on: the dump is refused, or it is loaded, as   *)
(* it is or without its CREATE DATABASE. lost: psql stopped at \restrict.   *)
Restore(uri, database, dump, dbs, psql) ==
  LET target  == RestoreTarget(database, uri)
      refused == [dbs |-> dbs, at |-> Refused, failed |-> TRUE, lost |-> FALSE]
      inPlace == database # "" /\ target.db \in DOMAIN dbs /\ dbs[target.db] = {}
  IN IF \/ target.db = Refused \/ ~CheckDump(dump, database, psql)
        \/ inPlace /\ ~Removable(dump, target.db)
       THEN refused
       ELSE Psql(dbs, target.connect,
                 IF inPlace THEN WithoutCreateDatabase(dump, target.db) ELSE dump, psql)

-----------------------------------------------------------------------------
(* For the properties: what a line makes, and where pg_dump places the lines *)
(* that say where a dump restores, and \restrict: in the header, the first of *)
(* a database's a CREATE DATABASE, if there is one, and the last a \connect. *)
Kinds == {"create", "connect", "restrict", "table", "rows", "other"}

Made(line) == IF line.kind = "table" THEN Holds(line.name) ELSE Rows(line.name)

Objects(lines) == {Made(lines[n]) : n \in {m \in DOMAIN lines : EndsHeader(lines[m])}}

(* The dumps whose lines are named over a set of names. *)
Lines(Name) == Seq([kind : Kinds, name : Name, quoted : BOOLEAN, closed : BOOLEAN])

(* What a database of a server holds. *)
Held(dbs, db) == IF db \in DOMAIN dbs THEN dbs[db] ELSE {}

WellPlaced(dump) ==
  LET At(n, kind) == dump[n].kind = kind
  IN \A n \in DOMAIN dump :
       /\ At(n, "create") \/ At(n, "connect") \/ At(n, "restrict") => n <= Len(Header(dump))
       /\ At(n, "create") => \E m \in DOMAIN dump : n < m /\ At(m, "connect")
       /\ At(n, "connect") => \/ \E m \in DOMAIN dump : m < n /\ At(m, "create")
                              \/ \A m \in DOMAIN dump : ~At(m, "create")
=============================================================================
