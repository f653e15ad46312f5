------------------------------ MODULE Questions ------------------------------
(***************************************************************************)
(* The pure parts of the program, asked one question each: what the code   *)
(* computes is compared with what it is defined to compute. A question is  *)
(* a record; its "of" names the function, the rest are its arguments, of   *)
(* any size.                                                               *)
(***************************************************************************)
EXTENDS FiniteSets, DebianVersion, NameTemplate, DumpHeader, ProviderConfig

VARIABLES
  question,
  asked,     \* has it been asked?
  answer     \* what the code computes

vars == <<question, asked, answer>>

-----------------------------------------------------------------------------
AVersionPair(q) ==
  q.of = "version" /\ {q.left, q.right} \subseteq Seq(Characters)

(* A template that CheckTemplate accepts, with what is known of the fields. *)
APrefix(q) ==
  /\ q.of = "prefix" /\ q.kind \in DOMAIN allowedFields
  /\ q.tmpl \in Seq(Symbols) /\ CheckTemplate(q.tmpl, q.kind)
  /\ DOMAIN q.known \subseteq allowedFields[q.kind]
  /\ q.known \in [DOMAIN q.known -> Values]

ASearch(q) ==
  /\ q.of = "newest"
  /\ q.tmpl \in Seq(Symbols) /\ CheckTemplate(q.tmpl, "archive_dump")
  /\ q.days \in Seq(Symbols \ Braces) /\ q.days # <<>>
  /\ q.published \subseteq Seq(Symbols) /\ IsFiniteSet(q.published)

ARestore(q) ==
  /\ q.of = "restore"
  /\ {q.uri, q.database} \subseteq DOMAIN Fold \cup {""}
  /\ q.dump \in Lines(DOMAIN Fold)
  /\ q.dbs = [d \in DOMAIN q.dbs |-> q.dbs[d]]
  /\ q.psql \in {"new", "old", "unreadable"}

(* What an artifact is read from over the network, and whether one of it is *)
(* plain http to another host that nobody allowed.                          *)
ReadFrom(artifact) ==
  {url \in {artifact.at, artifact.index} :
     \/ artifact.backend \in {"http", "apt"} /\ url = artifact.at
     \/ artifact.backend = "http" /\ url = artifact.index /\ url # NoURL}

Open(artifact) ==
  ~artifact.insecure
  /\ \E url \in ReadFrom(artifact) : url.scheme = "http" /\ url.host # "loopback"

(* A user's file over the built-in defaults, which are valid: artifacts that *)
(* may have open URLs, and are right in all else.                            *)
AMerge(q) ==
  /\ q.of = "merge" /\ Validate(q.base) /\ q.over.version \in {0, 1}
  /\ "" \notin DOMAIN q.base.providers \cup DOMAIN q.over.providers
  /\ \A p \in DOMAIN q.over.providers : \A n \in DOMAIN q.over.providers[p] : \A kind \in AllKinds :
       LET artifact == q.over.providers[p][n][kind]
       IN artifact # None =>
            /\ FieldsChecked(artifact, kind)
            /\ \A url \in ReadFrom(artifact) : url.scheme \in {"http", "https"} /\ url.host # ""

(* The flag, the variable, the search paths, and the files there are. *)
ALoad(q) ==
  q.of = "load" /\ q.paths \in Seq(STRING)

IsQuestion(q) ==
  AVersionPair(q) \/ APrefix(q) \/ ASearch(q) \/ ARestore(q) \/ AMerge(q) \/ ALoad(q)

-----------------------------------------------------------------------------
Init == IsQuestion(question) /\ asked = FALSE /\ answer = ""

Ask(of, reply) ==
  /\ ~asked /\ question.of = of
  /\ asked' = TRUE /\ answer' = reply
  /\ UNCHANGED question

AskVersion == Ask("version", CompareVersions(question.left, question.right))
AskPrefix  == Ask("prefix", Prefix(question.tmpl, question.known))
AskNewest  == Ask("newest", NewestDump(question.tmpl, question.days, question.published))
AskRestore == Ask("restore", Restore(question.uri, question.database, question.dump,
                                     question.dbs, question.psql))
AskMerge   == Ask("merge", Merged(question.base, question.over))
AskLoad    == Ask("load", Load(FlagValue(question.typed, question.env), question.env,
                               question.paths, question.files))

Next == AskVersion \/ AskPrefix \/ AskNewest \/ AskRestore \/ AskMerge \/ AskLoad

Spec == Init /\ [][Next]_vars

Of(function) == asked /\ question.of = function

-----------------------------------------------------------------------------
(* version.go: "orders two Debian version strings the way dpkg does". The   *)
(* code walks two texts in step with an early return in four places; dpkg's *)
(* order compares their keys.                                               *)
ComparesLikeDpkg ==
  Of("version") /\ IsVersion(question.left) /\ IsVersion(question.right)
    => Sign(answer) = DpkgOrder(question.left, question.right)

(* Prefix gives "the longest fixed prefix of the name": what the names that *)
(* Render gives for all values of the other fields have in common, unless   *)
(* one is refused. A list by a shorter one returns more, by a longer one it *)
(* misses objects.                                                          *)
PrefixIsLongest ==
  Of("prefix") =>
    LET open  == allowedFields[question.kind] \ DOMAIN question.known
        names == {Render(question.tmpl, With(question.known, values)) : values \in [open -> SomeValues]}
    IN NoName \notin names => answer = LongestCommonPrefix(names)

(* newestDump: "the newest dump of the first day in days that has one", and *)
(* a name counts only if the template gives it. The definition asks for     *)
(* every day and hour whether its name is published.                        *)
NewestIsFound ==
  Of("newest") /\ <<"hour">> \in ToSet(Placeholders(question.tmpl)) =>
    LET Dump(n, hour) == Render(question.tmpl, HourField(question.days[n], hour))
        HasDump(n) == \E hour \in hours : Dump(n, hour) \in question.published
    IN \/ answer = NoName /\ \A n \in DOMAIN question.days : ~HasDump(n)
       \/ \E n \in DOMAIN question.days, hour \in hours :
            /\ answer = Dump(n, hour) /\ answer \in question.published
            /\ \A m \in 1 .. n - 1 : ~HasDump(m)
            /\ \A other \in hours : Later(other, hour) => Dump(n, other) \notin question.published

-----------------------------------------------------------------------------
(* checkDump "refuses a dump that restores into a database other than the   *)
(* one that was checked, and one that the installed psql cannot run":       *)
(* whatever the connection string and the provider's entry name, no other   *)
(* database of the server changes, a restore that succeeds puts all of the  *)
(* dump into the one that was checked, and psql does not stop at \restrict, *)
(* unless its version could not be read.                                    *)
RestoresIntoTarget ==
  Of("restore") /\ WellPlaced(question.dump) =>
    LET target == RestoreTarget(question.database, question.uri).db
    IN /\ DOMAIN answer.dbs \subseteq DOMAIN question.dbs \cup {target}
       /\ \A d \in DOMAIN answer.dbs \ {target} : answer.dbs[d] = question.dbs[d]
       /\ ~answer.failed => answer.dbs[target] = Held(question.dbs, target) \cup Objects(question.dump)
       /\ answer.lost => question.psql = "unreadable"

(* withoutCreateDatabase: "leaving the statement out lets the dump restore  *)
(* into it". The restore into an empty database that is there succeeds when *)
(* that on a server without it does, with the same result. (The server is   *)
(* never without "postgres", which the other connects to.)                  *)
FilterIsCreateInPlace ==
  Of("restore") /\ WellPlaced(question.dump) /\ question.database \notin {"", "postgres"}
  /\ question.database \in DOMAIN question.dbs /\ question.dbs[question.database] = {}
  /\ Removable(question.dump, question.database) =>
    LET without == [d \in DOMAIN question.dbs \ {question.database} |-> question.dbs[d]]
        created == Restore(question.uri, question.database, question.dump, without, question.psql)
    IN (created.failed /\ answer.failed) \/ created = answer

-----------------------------------------------------------------------------
(* merge: "An artifact present in over replaces the base one entirely", and *)
(* "everything the user did not mention keeps coming from the defaults":    *)
(* what Resolve gives for a provider, network and kind is what it gives in  *)
(* the user's file where that has an artifact, and else in the defaults.    *)
(* A file is refused exactly when the provider it makes the default is      *)
(* nowhere, or when an artifact of it has a URL, the index included, that   *)
(* is plain http to another host without saying "insecure".                 *)
MergeOverlays ==
  Of("merge") =>
    LET Given(config, x) == Resolve(config, x[1], x[2], x[3])
        NetworksOf(config) == UNION {DOMAIN config.providers[p] : p \in DOMAIN config.providers}
        Providers == DOMAIN question.base.providers \cup DOMAIN question.over.providers
        Places == Providers \X (NetworksOf(question.base) \cup NetworksOf(question.over)) \X AllKinds
        InFile == {x \in Places : Given(question.over, x) # None}
    IN /\ answer.accepted <=>
            /\ question.over.default \in {""} \cup DOMAIN question.base.providers
                                              \cup DOMAIN question.over.providers
            /\ \A x \in InFile : ~Open(Given(question.over, x))
       /\ answer.accepted => \A x \in Places :
            Given(answer.config, x) = Given(IF x \in InFile THEN question.over ELSE question.base, x)

(* A configuration file that is named, by the flag or by the variable, is   *)
(* read or the run fails: a misspelt path must not leave the endpoints to   *)
(* another file or to the defaults. The flag wins over the variable, and    *)
(* the first of the files nobody named is read only when no name was given. *)
NamedFileIsRead ==
  Of("load") =>
    LET named == IF question.typed \notin {None, ""} THEN question.typed ELSE question.env
        Unread(n) == question.paths[n] \notin question.files
    IN IF named # "" THEN answer = IF named \in question.files THEN named ELSE "error"
       ELSE \/ answer = "defaults" /\ \A n \in DOMAIN question.paths : Unread(n)
            \/ \E n \in DOMAIN question.paths :
                 answer = question.paths[n] /\ ~Unread(n) /\ \A m \in 1 .. n - 1 : Unread(m)
=============================================================================
