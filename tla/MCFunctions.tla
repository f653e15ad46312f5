----------------------------- MODULE MCFunctions -----------------------------
(* The questions that are asked of the pure parts, all of one kind and size. *)
EXTENDS Questions, FiniteSetsExt

CONSTANTS
  Alphabet, MaxLength, MaxTotal,  \* characters and lengths of versions
  MaxParts                        \* parts of a template

ASSUME BoundsAssumption ==
  /\ Alphabet \subseteq Characters
  /\ {MaxLength, MaxTotal, MaxParts} \subseteq Nat

MCLetters == {"a", "b"}
MCCode ==
  [c \in {"a", "b", "~", "-", ".", ":"} |->
     CASE c = "a" -> 97 [] c = "b"  -> 98 [] c = "~" -> 126
       [] c = "-" -> 45 [] c = "." -> 46  [] c = ":" -> 58]

MCSymbols == {"{", "}", "date", "hour", "x", "1", "2", "mon", "tue", "0000", "0130", "2460"}
MCHourOrder == [h \in {"0000", "0130"} |-> IF h = "0000" THEN 0 ELSE 90]

MCFold == [n \in {"archive", "Archive", "other", "t"} |-> IF n = "Archive" THEN "archive" ELSE n]

MCKinds == {"archive_dump", "daemon_config"}

-----------------------------------------------------------------------------
(* Pairs of versions, of at most MaxLength characters each. *)
Versions == UNION {[1 .. n -> Alphabet] : n \in 0 .. MaxLength}

SmallVersions ==
  \E v \in Versions : \E w \in {w \in Versions : Len(v) + Len(w) <= MaxTotal} :
    question = [of |-> "version", left |-> v, right |-> w]

(* Templates of at most MaxParts parts, some of them malformed, and what of *)
(* a dump's name is known.                                                  *)
Parts == {<<"{", "date", "}">>, <<"{", "hour", "}">>, <<"x">>, <<"{">>, <<"}">>}

Templates(n) == {FlattenSeq(parts) : parts \in UNION {[1 .. m -> Parts] : m \in 0 .. n}}

Accepted(n) == {t \in Templates(n) : CheckTemplate(t, "archive_dump")}

KnownFields == UNION {[known -> {<<"1">>}] : known \in SUBSET {"date", "hour"}}

SmallTemplates ==
  \E t \in Accepted(MaxParts), k \in KnownFields :
    question = [of |-> "prefix", kind |-> "archive_dump", tmpl |-> t, known |-> k]

(* Two days, and some of the names a publisher may have there: dumps of an *)
(* hour, what has no valid hour, and a sidecar.                            *)
DumpNames(t) == {Render(t, HourField(day, hour)) : day \in {"mon", "tue"}, hour \in {"0000", "0130", "2460"}}

ListedNames(t) == DumpNames(t) \cup {n \o <<"x">> : n \in DumpNames(t)}

SmallListings ==
  \E t \in Accepted(3), d \in {<<"tue", "mon">>, <<"mon">>} :
    \E k \in 0 .. 3 : \E s \in kSubset(k, ListedNames(t)) :
      question = [of |-> "newest", tmpl |-> t, days |-> d, published |-> s]

(* Dumps as pg_dump writes them, with and without --create, by hand with    *)
(* other names, and cut at headerLines; what the server holds.              *)
Line(kind)     == [kind |-> kind, name |-> "t", quoted |-> FALSE, closed |-> TRUE]
Create(n, q, c) == [kind |-> "create", name |-> n, quoted |-> q, closed |-> c]
Connect(n)     == [kind |-> "connect", name |-> n, quoted |-> FALSE, closed |-> TRUE]

Preambles == {<<>>, <<Line("restrict")>>, [n \in 1 .. headerLines |-> Line("other")]}
Names     == {"archive", "Archive", "other"}
Sections  ==
  {<<>>} \cup {<<Connect(n)>> : n \in Names}
  \cup {<<Create(n, q, c)>> \o between \o <<Connect(m)>> :
          n \in Names, q \in BOOLEAN, c \in BOOLEAN, m \in Names,
          between \in {<<>>, <<Line("other")>>}}
  \cup {<<Create("archive", FALSE, TRUE), Connect("archive"), Create(n, FALSE, TRUE), Connect(n)>> :
          n \in {"archive", "other"}}
Bodies == {<<Line("table"), Line("rows")>>, <<Line("table"), Line("restrict")>>}
Dumps  == {p \o s \o b : p \in Preambles, s \in Sections, b \in Bodies}

Servers ==
  LET base == [d \in {"postgres", "other"} |-> {}]
  IN {base} \cup {[d \in {"postgres", "other", "archive"} |-> IF d = "archive" THEN held ELSE {}] :
                    held \in {{}, {Holds("t")}, {Holds("u")}}}

SmallDumps ==
  \E u \in {"", "archive", "other"}, d \in {"", "archive"}, l \in Dumps, s \in Servers, v \in {"new", "old", "unreadable"} :
    question = [of |-> "restore", uri |-> u, database |-> d, dump |-> l, dbs |-> s, psql |-> v]

(* Two configurations over two networks: the defaults have one provider,   *)
(* the user's file has one artifact, which may be refused.                  *)
URL(scheme, host) == [scheme |-> scheme, host |-> host]

Artifact(backend, at, index, insecure) ==
  [backend |-> backend, at |-> at, index |-> index, insecure |-> insecure,
   checksum |-> "sidecar", database |-> ""]

Published == Artifact("gcs", URL("https", "bucket"), NoURL, FALSE)

Written ==
  {Artifact("http", at, index, insecure) :
     at \in {URL("https", "mirror"), URL("http", "mirror"), URL("http", "loopback")},
     index \in {NoURL, URL("https", "mirror"), URL("http", "mirror")}, insecure \in BOOLEAN}

Networks(artifact) ==
  UNION {[ns -> [AllKinds -> {None, artifact}]] : ns \in SUBSET {"mainnet", "devnet"}}

Config(version, default, providers) ==
  [version |-> version, default |-> default, providers |-> providers]

SmallFiles ==
  \E b \in Networks(Published), w \in Written, default \in {"", "q"}, ps \in {{}, {"p"}, {"q"}} :
    \E providers \in [ps -> Networks(w)] :
      question = [of |-> "merge", base |-> Config(1, "p", [p \in {"p"} |-> b]),
                  over |-> Config(0, default, providers)]

(* The flag, the variable, and which of four files there are. *)
SmallPaths ==
  \E t \in {None, "", "typed"}, e \in {"", "blank", "env"}, f \in SUBSET {"typed", "env", "home", "etc"} :
    question = [of |-> "load", typed |-> t, env |-> e, paths |-> <<"home", "etc">>, files |-> f]

-----------------------------------------------------------------------------
MCInit ==
  /\ SmallVersions \/ SmallTemplates \/ SmallListings \/ SmallDumps \/ SmallFiles \/ SmallPaths
  /\ Init

MCSpec == MCInit /\ [][Next]_vars
=============================================================================
