---------------------------- MODULE NameTemplate ----------------------------
(***************************************************************************)
(* Name templates (internal/provider/template.go), such as                 *)
(* "x-{date}_{hour}.tar.gz", and the search for the newest archive dump,   *)
(* which rests on them (newestDump of cmd/archive.go). Names and templates *)
(* are sequences of symbols; the name of a field is one symbol, and so is  *)
(* an hour. Values of fields have no braces: the commands check them.      *)
(***************************************************************************)
EXTENDS Integers, Sequences, SequencesExt

CONSTANTS
  Symbols,   \* what names and templates are made of
  hourOrder  \* each HHMM that validateHour takes -> its place in the day

LeftBrace == "{"

RightBrace == "}"

Braces == {LeftBrace, RightBrace}

ASSUME SymbolsAssumption ==
  /\ {"1", "2"} \subseteq Symbols /\ "no name" \notin Symbols
  /\ hourOrder \in [DOMAIN hourOrder -> Nat]
  /\ \A g, h \in DOMAIN hourOrder : hourOrder[g] = hourOrder[h] => g = h
  /\ DOMAIN hourOrder \subseteq Symbols \ (Braces \cup {""})

allowedFields ==
  [archive_dump |-> {"date", "hour"}, precomputed_blocks |-> {"height", "state_hash"},
   daemon_config |-> {"ref"}, genesis_config |-> {}]

NoName == <<"no name">>

(* placeholders: the names in braces, in order of first appearance. A name *)
(* goes up to the next closing brace. A closing brace outside of one is    *)
(* noticed only when no opening brace follows.                             *)
ScanSymbol(s, c) ==
  CASE s.inside /\ c = RightBrace ->
         [s EXCEPT !.inside = FALSE, !.empty = @ \/ s.name = <<>>,
                   !.names = IF Contains(@, s.name) THEN @ ELSE Append(@, s.name)]
    [] s.inside /\ c # RightBrace -> [s EXCEPT !.name = Append(@, c)]
    [] ~s.inside /\ c = LeftBrace -> [s EXCEPT !.inside = TRUE, !.name = <<>>, !.stray = FALSE]
    [] ~s.inside /\ c = RightBrace -> [s EXCEPT !.stray = TRUE]
    [] ~s.inside /\ c \notin Braces -> s

Scans(tmpl) ==
  LET s[n \in 0 .. Len(tmpl)] ==
        IF n = 0 THEN [inside |-> FALSE, name |-> <<>>, names |-> <<>>, empty |-> FALSE, stray |-> FALSE]
        ELSE ScanSymbol(s[n - 1], tmpl[n])
  IN s

Scan(tmpl) == Scans(tmpl)[Len(tmpl)]

WellFormed(tmpl) == LET s == Scan(tmpl) IN ~s.inside /\ ~s.empty /\ ~s.stray

Placeholders(tmpl) == Scan(tmpl).names

CheckTemplate(tmpl, kind) ==
  WellFormed(tmpl) /\ \A n \in ToSet(Placeholders(tmpl)) : \E f \in allowedFields[kind] : n = <<f>>

(* strings.ReplaceAll of "{field}": what becomes of each symbol. *)
Occurs(s, field, i) ==
  i \in 1 .. Len(s) - 2 /\ s[i] = LeftBrace /\ s[i + 1] = field /\ s[i + 2] = RightBrace

Pieces(s, field, value) ==
  [i \in 1 .. Len(s) |-> IF Occurs(s, field, i) THEN value
                         ELSE IF Occurs(s, field, i - 1) \/ Occurs(s, field, i - 2) THEN <<>>
                         ELSE <<s[i]>>]

ReplaceField(s, field, value) == FlattenSeq(Pieces(s, field, value))

(* One field after the other, in the order of the template; the result of *)
(* one replacement is what the next one works on.                         *)
Known(name, fields) == Len(name) = 1 /\ name[1] \in DOMAIN fields

Replacements(tmpl, names, fields) ==
  LET out[n \in 0 .. Len(names)] ==
        IF n = 0 THEN tmpl
        ELSE IF Known(names[n], fields)
          THEN ReplaceField(out[n - 1], names[n][1], fields[names[n][1]])
        ELSE out[n - 1]
  IN out

ReplaceFields(tmpl, fields) ==
  Replacements(tmpl, Placeholders(tmpl), fields)[Len(Placeholders(tmpl))]

(* checkName: no ".." segment and no symbol that ends a path. *)
CheckName(name) ==
  /\ \A i \in 1 .. Len(name) - 1 :
       ~ /\ name[i] = "." /\ name[i + 1] = "."
         /\ i = 1 \/ name[i - 1] = "/"
         /\ i + 1 = Len(name) \/ name[i + 2] = "/"
  /\ \A i \in DOMAIN name : name[i] \notin {"?", "#", "\\", "control"}

(* A placeholder without a value is an error. *)
Render(tmpl, fields) ==
  LET out == ReplaceFields(tmpl, fields)
  IN IF /\ WellFormed(tmpl)
        /\ \A n \in ToSet(Placeholders(tmpl)) : Known(n, fields)
        /\ CheckName(out)
     THEN out ELSE NoName

UpToBrace(s) == LET brace == SelectInSeq(s, LAMBDA c : c = LeftBrace)
                IN IF brace = 0 THEN s ELSE SubSeq(s, 1, brace - 1)

(* Mutant: the template is cut before its fields are replaced. *)
CutFirst(tmpl, fields) == ReplaceFields(UpToBrace(tmpl), fields)

(* Prefix, of a well-formed template. *)
Prefix(tmpl, fields) == UpToBrace(ReplaceFields(tmpl, fields))

-----------------------------------------------------------------------------
(* validateHour *)
hours == DOMAIN hourOrder

Later(hour, than) == than = "" \/ hourOrder[hour] > hourOrder[than]

(* src.List: the published names with a prefix, in some order. *)
List(published, prefix) == SetToSeq({n \in published : IsPrefix(prefix, n)})

HourField(day, hour) == [date |-> <<day>>, hour |-> <<hour>>]

(* Mutant: what has an hour where the prefix ends is a dump. *)
HasHour(tmpl, day, prefix, n) == Len(n) > Len(prefix) /\ n[Len(prefix) + 1] \in hours

(* A listed name is a dump when it is the template with the day and the *)
(* hour that follows the prefix.                                        *)
IsDump(tmpl, day, prefix, n) ==
  /\ Len(n) > Len(prefix) /\ n[Len(prefix) + 1] \in hours
  /\ Render(tmpl, HourField(day, n[Len(prefix) + 1])) = n

(* The best of one day, among the first names of the listing. *)
Better(best, n, tmpl, day, prefix) ==
  IF IsDump(tmpl, day, prefix, n) /\ Later(n[Len(prefix) + 1], best.hour)
    THEN [name |-> n, hour |-> n[Len(prefix) + 1]] ELSE best

Bests(tmpl, day, prefix, listed) ==
  LET best[n \in 0 .. Len(listed)] ==
        IF n = 0 THEN [name |-> NoName, hour |-> ""]
        ELSE Better(best[n - 1], listed[n], tmpl, day, prefix)
  IN best

BestOfDay(tmpl, day, published) ==
  LET prefix == Prefix(tmpl, [date |-> <<day>>])
      listed == List(published, prefix)
  IN Bests(tmpl, day, prefix, listed)[Len(listed)].name

(* newestDump: a template without {hour} means one dump a day, of the first *)
(* of the days; otherwise the first day that has a dump.                    *)
NewestDump(tmpl, days, published) ==
  IF <<"hour">> \notin ToSet(Placeholders(tmpl))
    THEN Render(tmpl, [date |-> <<days[1]>>])
    ELSE LET best  == [n \in DOMAIN days |-> BestOfDay(tmpl, days[n], published)]
             first == SelectInSeq(best, LAMBDA name : name # NoName)
         IN IF first = 0 THEN NoName ELSE best[first]

-----------------------------------------------------------------------------
(* For the properties: what a field may be, two different ones, and what is *)
(* known together with values of the other fields.                          *)
Values == Seq(Symbols \ Braces) \ {<<>>}

SomeValues == {<<"1">>, <<"2">>}

With(known, values) ==
  [f \in DOMAIN known \cup DOMAIN values |-> IF f \in DOMAIN known THEN known[f] ELSE values[f]]
=============================================================================
