--------------------------- MODULE QuestionProofs ---------------------------
(***************************************************************************)
(* What the pure parts answer, for arguments of any size: where a dump     *)
(* restores, and what the provider configuration is. (TextProofs has the   *)
(* versions and the names.) A session of psql is a function of the number  *)
(* of lines it has read; what holds of all of them is proved by induction  *)
(* on that number.                                                         *)
(***************************************************************************)
EXTENDS Questions, SequenceTheorems, WellFoundedInduction, TLAPS

(* A question is a legal one, and its answer is what the code computes. *)
Answered ==
  /\ IsQuestion(question)
  /\ asked =>
       /\ question.of = "version" => answer = CompareVersions(question.left, question.right)
       /\ question.of = "prefix" => answer = Prefix(question.tmpl, question.known)
       /\ question.of = "newest" =>
            answer = NewestDump(question.tmpl, question.days, question.published)
       /\ question.of = "restore" =>
            answer = Restore(question.uri, question.database, question.dump, question.dbs, question.psql)
       /\ question.of = "merge" => answer = Merged(question.base, question.over)
       /\ question.of = "load" =>
            answer = Load(FlagValue(question.typed, question.env), question.env,
                          question.paths, question.files)

LEMMA Answers == Spec => []Answered
<1>1. Init => Answered
  BY DEF Init, Answered
<1>2. Answered /\ [Next]_vars => Answered'
  <2> SUFFICES ASSUME Answered, [Next]_vars PROVE Answered'
    OBVIOUS
  <2>1. CASE AskVersion
    BY <2>1 DEF Answered, AskVersion, Ask
  <2>2. CASE AskPrefix
    BY <2>2 DEF Answered, AskPrefix, Ask
  <2>3. CASE AskNewest
    BY <2>3 DEF Answered, AskNewest, Ask
  <2>4. CASE AskRestore
    BY <2>4 DEF Answered, AskRestore, Ask
  <2>5. CASE AskMerge
    BY <2>5 DEF Answered, AskMerge, Ask
  <2>6. CASE AskLoad
    BY <2>6 DEF Answered, AskLoad, Ask
  <2>7. CASE UNCHANGED vars
    BY <2>7 DEF Answered, vars
  <2>8. QED
    BY <2>1, <2>2, <2>3, <2>4, <2>5, <2>6, <2>7 DEF Next
<1>3. QED
  BY <1>1, <1>2, PTL DEF Spec

(* The kinds of questions differ by what they are of. *)
LEMMA OfIs ==
  ASSUME Answered
  PROVE  /\ question.of = "version" => AVersionPair(question)
         /\ question.of = "prefix" => APrefix(question)
         /\ question.of = "newest" => ASearch(question)
         /\ question.of = "restore" => ARestore(question)
         /\ question.of = "merge" => AMerge(question)
         /\ question.of = "load" => ALoad(question)
BY DEF Answered, IsQuestion, AVersionPair, APrefix, ASearch, ARestore, AMerge, ALoad

(* Induction over the naturals, in the form that needs no predicate. *)
LEMMA NatsFromZero ==
  ASSUME NEW S, 0 \in S, \A n \in Nat : n \in S => n + 1 \in S
  PROVE  Nat \subseteq S
<1> SUFFICES ASSUME Nat \ S # {} PROVE FALSE
  OBVIOUS
<1>1. PICK n \in Nat \ S : \A m \in Nat \ S : <<m, n>> \notin OpToRel(<, Nat)
  BY WFMin, NatLessThanWellFounded
<1>2. \A m \in Nat \ S : ~(m < n)
  BY <1>1 DEF OpToRel
<1>3. n - 1 \in Nat /\ n - 1 \in S
  BY <1>2
<1>4. QED
  BY <1>3

(* A session is what its definition says: there is such a function. *)
LEMMA SessionIs ==
  ASSUME NEW dbs, NEW at, NEW lines, Len(lines) \in Nat, NEW psql
  PROVE  LET s == Session(dbs, at, lines, psql)
         IN  /\ s[0] = [dbs |-> dbs, at |-> at, failed |-> at \notin DOMAIN dbs, lost |-> FALSE]
             /\ \A n \in 1 .. Len(lines) : s[n] = Statement(s[n - 1], lines[n], psql)
<1> DEFINE first == [dbs |-> dbs, at |-> at, failed |-> at \notin DOMAIN dbs, lost |-> FALSE]
           After(x, n) == Statement(x, lines[n], psql)
           Upto(m, f) == f = [n \in 0 .. m |-> IF n = 0 THEN first ELSE After(f[n - 1], n)]
           have == {m \in Nat : \E f : Upto(m, f)}
<1> HIDE DEF first, After
<1>1. 0 \in have
  <2> DEFINE f == [n \in 0 .. 0 |-> first]
  <2>1. f = [n \in 0 .. 0 |-> IF n = 0 THEN first ELSE After(f[n - 1], n)]
    OBVIOUS
  <2>2. QED
    BY <2>1
<1>2. ASSUME NEW m \in Nat, m \in have PROVE m + 1 \in have
  <2>1. PICK f : Upto(m, f)
    BY <1>2
  <2> DEFINE g == [n \in 0 .. m + 1 |-> IF n = m + 1 THEN After(f[m], m + 1) ELSE f[n]]
  <2>2. \A n \in 0 .. m + 1 : g[n] = IF n = 0 THEN first ELSE After(g[n - 1], n)
    <3> SUFFICES ASSUME NEW n \in 0 .. m + 1 PROVE g[n] = IF n = 0 THEN first ELSE After(g[n - 1], n)
      OBVIOUS
    <3>1. CASE n = m + 1
      <4>1. g[n] = After(f[m], n) /\ g[n - 1] = f[m] /\ n # 0
        BY <3>1
      <4>2. QED
        BY <4>1
    <3>2. CASE n # m + 1
      <4>1. n \in 0 .. m /\ g[n] = f[n] /\ (n # 0 => g[n - 1] = f[n - 1])
        BY <3>2
      <4>2. f[n] = IF n = 0 THEN first ELSE After(f[n - 1], n)
        BY <2>1, <4>1
      <4>3. QED
        BY <4>1, <4>2
    <3>3. QED
      BY <3>1, <3>2
  <2>3. Upto(m + 1, g)
    <3>1. g = [n \in 0 .. m + 1 |-> g[n]]
      OBVIOUS
    <3> HIDE DEF g
    <3>2. QED
      BY <2>2, <3>1
  <2> HIDE DEF g, Upto
  <2>4. QED
    BY <2>3
<1>3. Len(lines) \in have
  <2> HIDE DEF have
  <2>1. QED
    BY <1>1, <1>2, NatsFromZero
<1>4. Upto(Len(lines), CHOOSE f : Upto(Len(lines), f))
  BY <1>3
<1>5. Upto(Len(lines), Session(dbs, at, lines, psql))
  BY <1>4 DEF Session, first, After
<1>6. QED
  <2> DEFINE s == Session(dbs, at, lines, psql)
  <2> HIDE DEF s
  <2>1. /\ s[0] = first
        /\ \A n \in 1 .. Len(lines) : s[n] = After(s[n - 1], n)
    BY <1>5 DEF s
  <2>2. QED
    BY <2>1 DEF s, first, After

-----------------------------------------------------------------------------
(* What is known of a load of lines that name one database, db. *)
Names(line) == line.kind \in {"create", "connect"}

LoadsInto(db, at, lines) ==
  /\ Len(lines) \in Nat /\ DOMAIN lines = 1 .. Len(lines)
  /\ \A n \in DOMAIN lines : lines[n].kind \in Kinds
  /\ \A n \in DOMAIN lines : Names(lines[n]) => Named(lines[n]) = db
  /\ \A n, m \in DOMAIN lines : Names(lines[n]) /\ EndsHeader(lines[m]) => n < m
  /\ at = db \/ \E n \in DOMAIN lines : lines[n].kind = "connect"

MadeBy(lines, n) == {Made(lines[m]) : m \in {k \in 1 .. n : EndsHeader(lines[k])}}

(* A state of the session after n lines. *)
Keeps(s, n, dbs, db, lines, psql) ==
  /\ DOMAIN s = {"dbs", "at", "failed", "lost"} /\ s.failed \in BOOLEAN
  /\ DOMAIN dbs \subseteq DOMAIN s.dbs /\ DOMAIN s.dbs \subseteq DOMAIN dbs \cup {db}
  /\ \A d \in DOMAIN s.dbs \ {db} : s.dbs[d] = dbs[d]
  /\ ~s.failed /\ db \in DOMAIN s.dbs => s.dbs[db] = Held(dbs, db) \cup MadeBy(lines, n)
  /\ \/ s.failed
     \/ s.at = db /\ db \in DOMAIN s.dbs
     \/ \E m \in DOMAIN lines : n < m /\ lines[m].kind = "connect"
  /\ s.lost => psql # "new" /\ \E m \in DOMAIN lines : lines[m].kind = "restrict"

(* What the lines make, one line more. *)
LEMMA MadeByNext ==
  ASSUME NEW lines, NEW n \in Nat
  PROVE  /\ EndsHeader(lines[n + 1]) => MadeBy(lines, n + 1) = MadeBy(lines, n) \cup {Made(lines[n + 1])}
         /\ ~EndsHeader(lines[n + 1]) => MadeBy(lines, n + 1) = MadeBy(lines, n)
<1>1. 1 .. n + 1 = (1 .. n) \cup {n + 1}
  OBVIOUS
<1>2. QED
  BY <1>1 DEF MadeBy

(* psql keeps this with every line. *)
LEMMA KeepsNext ==
  ASSUME NEW db, NEW at, NEW lines, LoadsInto(db, at, lines), NEW dbs, NEW psql,
         NEW n \in Nat, n < Len(lines), NEW s, Keeps(s, n, dbs, db, lines, psql),
         NEW line, line = lines[n + 1], NEW t, t = Statement(s, line, psql)
  PROVE  Keeps(t, n + 1, dbs, db, lines, psql)
<1>1. n + 1 \in DOMAIN lines /\ line.kind \in Kinds
  BY DEF LoadsInto
<1>later. line.kind # "connect" => \A m \in DOMAIN lines : n < m /\ lines[m].kind = "connect" => n + 1 < m
  BY DEF LoadsInto
<1>2. CASE s.failed
  <2>1. t = s
    BY <1>2 DEF Statement
  <2>2. QED
    BY <1>2, <2>1 DEF Keeps
<1>3. CASE ~s.failed /\ line.kind = "other"
  <2>1. t = s
    BY <1>3 DEF Statement
  <2>2. QED
    BY <1>1, <1>3, <2>1, MadeByNext DEF Keeps, EndsHeader
<1>4. CASE ~s.failed /\ line.kind = "restrict"
  <2>1. t = IF psql = "new" THEN s ELSE [[s EXCEPT !.failed = TRUE] EXCEPT !.lost = TRUE]
    BY <1>4 DEF Statement
  <2>2. /\ DOMAIN t = DOMAIN s /\ t.failed \in BOOLEAN /\ t.at = s.at /\ t.dbs = s.dbs
        /\ t.failed => psql # "new"
        /\ ~t.failed => t = s
    BY <1>4, <2>1 DEF Keeps
  <2>3. MadeBy(lines, n + 1) = MadeBy(lines, n)
    BY <1>4, MadeByNext DEF EndsHeader
  <2>4. t.lost => psql # "new" /\ \E m \in DOMAIN lines : lines[m].kind = "restrict"
    BY <1>1, <1>4, <2>1 DEF Keeps
  <2>5. \/ t.failed
        \/ t.at = db /\ db \in DOMAIN t.dbs
        \/ \E m \in DOMAIN lines : n + 1 < m /\ lines[m].kind = "connect"
    BY <1>4, <2>2, <1>later DEF Keeps
  <2>6. QED
    BY <1>4, <2>2, <2>3, <2>4, <2>5 DEF Keeps
<1>5. CASE ~s.failed /\ line.kind = "create"
  <2>1. Identifier(line) = db
    BY <1>1, <1>5 DEF LoadsInto, Names, Named
  <2>2. t = IF db \in DOMAIN s.dbs THEN [s EXCEPT !.failed = TRUE]
            ELSE [s EXCEPT !.dbs = [d \in DOMAIN s.dbs \cup {db} |-> IF d = db THEN {} ELSE s.dbs[d]]]
    BY <1>5, <2>1 DEF Statement
  <2>3. MadeBy(lines, n + 1) = {}
    BY <1>1, <1>5 DEF LoadsInto, Names, MadeBy
  <2>4. CASE db \in DOMAIN s.dbs
    BY <1>5, <2>2, <2>4 DEF Keeps
  <2>5. CASE db \notin DOMAIN s.dbs
    <3>1. /\ DOMAIN t = DOMAIN s /\ t.failed = s.failed /\ t.at = s.at /\ t.lost = s.lost
          /\ DOMAIN t.dbs = DOMAIN s.dbs \cup {db}
          /\ t.dbs[db] = {} /\ \A d \in DOMAIN s.dbs : t.dbs[d] = s.dbs[d]
      BY <2>2, <2>5 DEF Keeps
    <3>2. Held(dbs, db) = {}
      BY <2>5 DEF Keeps, Held
    <3>3. \E m \in DOMAIN lines : n + 1 < m /\ lines[m].kind = "connect"
      BY <1>5, <2>5, <1>later DEF Keeps
    <3>4. QED
      BY <2>3, <3>1, <3>2, <3>3, <2>5 DEF Keeps
  <2>6. QED
    BY <2>4, <2>5
<1>6. CASE ~s.failed /\ line.kind = "connect"
  <2>1. line.name = db
    BY <1>1, <1>6 DEF LoadsInto, Names, Named
  <2>2. t = IF db \in DOMAIN s.dbs THEN [s EXCEPT !.at = db] ELSE [s EXCEPT !.failed = TRUE]
    BY <1>6, <2>1 DEF Statement
  <2>3. MadeBy(lines, n + 1) = MadeBy(lines, n)
    BY <1>6, MadeByNext DEF EndsHeader
  <2>4. /\ DOMAIN t = DOMAIN s /\ t.failed \in BOOLEAN /\ t.dbs = s.dbs /\ t.lost = s.lost
        /\ ~t.failed => t.at = db /\ db \in DOMAIN s.dbs
    BY <1>6, <2>2 DEF Keeps
  <2>5. QED
    BY <1>6, <2>3, <2>4 DEF Keeps
<1>7. CASE ~s.failed /\ EndsHeader(line)
  <2>1. ~ \E m \in DOMAIN lines : n < m /\ lines[m].kind = "connect"
    BY <1>1, <1>7 DEF LoadsInto, Names, EndsHeader
  <2>2. s.at = db /\ db \in DOMAIN s.dbs
    BY <1>7, <2>1 DEF Keeps
  <2>3. \/ t = [s EXCEPT !.failed = TRUE]
        \/ t = [s EXCEPT !.dbs[db] = @ \cup {Made(line)}]
    <3>1. CASE line.kind = "table"
      BY <1>7, <2>2, <3>1 DEF Statement, Made
    <3>2. CASE line.kind = "rows"
      BY <1>7, <2>2, <3>2 DEF Statement, Made
    <3>3. QED
      BY <1>7, <3>1, <3>2 DEF EndsHeader
  <2>4. MadeBy(lines, n + 1) = MadeBy(lines, n) \cup {Made(line)}
    BY <1>7, MadeByNext
  <2>5. CASE t = [s EXCEPT !.failed = TRUE]
    BY <1>7, <2>5 DEF Keeps
  <2>6. CASE t = [s EXCEPT !.dbs[db] = @ \cup {Made(line)}]
    <3>1. /\ DOMAIN t = DOMAIN s /\ t.failed = s.failed /\ t.at = s.at /\ t.lost = s.lost
          /\ DOMAIN t.dbs = DOMAIN s.dbs
          /\ t.dbs[db] = s.dbs[db] \cup {Made(line)}
          /\ \A d \in DOMAIN s.dbs \ {db} : t.dbs[d] = s.dbs[d]
      BY <2>2, <2>6 DEF Keeps
    <3>2. t.dbs[db] = Held(dbs, db) \cup MadeBy(lines, n + 1)
      BY <1>7, <2>2, <2>4, <3>1 DEF Keeps
    <3>3. QED
      BY <1>7, <2>2, <3>1, <3>2 DEF Keeps
  <2>7. QED
    BY <2>3, <2>5, <2>6
<1>8. QED
  BY <1>1, <1>2, <1>3, <1>4, <1>5, <1>6, <1>7 DEF Kinds, EndsHeader

(* A load of such lines changes no database but db; one that succeeds leaves *)
(* in db what was there and all that the lines make.                         *)
LEMMA PsqlKeeps ==
  ASSUME NEW db, NEW at, NEW lines, LoadsInto(db, at, lines), NEW dbs, NEW psql
  PROVE  Keeps(Psql(dbs, at, lines, psql), Len(lines), dbs, db, lines, psql)
<1> DEFINE s == Session(dbs, at, lines, psql)
           kept == {n \in Nat : n <= Len(lines) => Keeps(s[n], n, dbs, db, lines, psql)}
<1>1. Len(lines) \in Nat
  BY DEF LoadsInto
<1>2. /\ s[0] = [dbs |-> dbs, at |-> at, failed |-> at \notin DOMAIN dbs, lost |-> FALSE]
      /\ \A n \in 1 .. Len(lines) : s[n] = Statement(s[n - 1], lines[n], psql)
  BY <1>1, SessionIs
<1> HIDE DEF s
<1>3. 0 \in kept
  <2>1. MadeBy(lines, 0) = {}
    BY DEF MadeBy
  <2>2. at = db \/ \E m \in DOMAIN lines : 0 < m /\ lines[m].kind = "connect"
    BY DEF LoadsInto
  <2>3. /\ DOMAIN s[0] = {"dbs", "at", "failed", "lost"} /\ s[0].failed \in BOOLEAN
        /\ s[0].dbs = dbs /\ s[0].at = at /\ ~s[0].lost
        /\ s[0].failed \/ at \in DOMAIN dbs
    <3> DEFINE gone == at \notin DOMAIN dbs
    <3>1. gone \in BOOLEAN /\ (gone \/ at \in DOMAIN dbs)
      OBVIOUS
    <3>2. s[0] = [dbs |-> dbs, at |-> at, failed |-> gone, lost |-> FALSE]
      BY <1>2
    <3> HIDE DEF gone
    <3>3. QED
      BY <3>1, <3>2
  <2>4. Keeps(s[0], 0, dbs, db, lines, psql)
    BY <2>1, <2>2, <2>3 DEF Keeps, Held
  <2>5. QED
    BY <2>4
<1>4. ASSUME NEW n \in Nat, n \in kept PROVE n + 1 \in kept
  <2> SUFFICES ASSUME n + 1 <= Len(lines) PROVE Keeps(s[n + 1], n + 1, dbs, db, lines, psql)
    OBVIOUS
  <2>1. n < Len(lines) /\ Keeps(s[n], n, dbs, db, lines, psql)
    BY <1>1, <1>4
  <2>2. s[n + 1] = Statement(s[n], lines[n + 1], psql)
    BY <1>1, <1>2
  <2>3. QED
    BY <2>1, <2>2, KeepsNext
<1>5. Len(lines) \in kept
  <2> HIDE DEF kept
  <2>1. QED
    BY <1>1, <1>3, <1>4, NatsFromZero
<1>6. QED
  BY <1>5 DEF Psql, s

-----------------------------------------------------------------------------
(* The first of some lines. *)
LEMMA LeastIs ==
  ASSUME NEW I, I \subseteq Nat, I # {}
  PROVE  Min(I) \in I /\ \A n \in I : Min(I) <= n
<1>1. PICK n \in I : \A m \in I : <<m, n>> \notin OpToRel(<, Nat)
  BY WFMin, NatLessThanWellFounded
<1>2. ASSUME NEW m \in I PROVE n <= m
  <2>1. m \in Nat /\ n \in Nat
    OBVIOUS
  <2>2. ~(m < n)
    BY <1>1, <2>1 DEF OpToRel
  <2>3. QED
    BY <2>1, <2>2
<1>3. \E x \in I : \A y \in I : x <= y
  BY <1>2
<1>4. QED
  BY <1>3 DEF Min

(* The lines of a dump, by number. *)
LEMMA LinesAre ==
  ASSUME NEW Name, Fold \in [Name -> Name], NEW dump \in Lines(Name)
  PROVE  /\ Len(dump) \in Nat /\ DOMAIN dump = 1 .. Len(dump)
         /\ \A n \in DOMAIN dump : dump[n].kind \in Kinds /\ Named(dump[n]) \in Name
<1>1. Len(dump) \in Nat /\ DOMAIN dump = 1 .. Len(dump)
  BY LenProperties DEF Lines
<1>2. \A n \in DOMAIN dump : dump[n] \in [kind : Kinds, name : Name, quoted : BOOLEAN, closed : BOOLEAN]
  BY <1>1, ElementOfSeq DEF Lines
<1>3. QED
  BY <1>1, <1>2 DEF Named, Identifier

(* ScanDumpHeader: what is scanned is a beginning of the dump without tables. *)
LEMMA HeaderIs ==
  ASSUME NEW Name, NEW dump \in Lines(Name), headerLines \in Nat
  PROVE  \E h \in 0 .. Len(dump) :
           /\ Len(Header(dump)) = h /\ DOMAIN Header(dump) = 1 .. h
           /\ \A n \in 1 .. h : Header(dump)[n] = dump[n] /\ ~EndsHeader(dump[n])
<1> DEFINE ends == {n \in 1 .. Len(dump) : EndsHeader(dump[n])}
           stop == SelectInSeq(dump, EndsHeader)
           last == IF stop = 0 THEN Len(dump) ELSE stop - 1
           h    == IF last < headerLines THEN last ELSE headerLines
<1>1. Len(dump) \in Nat
  BY DEF Lines
<1>2. stop = IF ends # {} THEN Min(ends) ELSE 0
  BY DEF SelectInSeq
<1>3. last \in 0 .. Len(dump) /\ \A n \in 1 .. last : n \notin ends
  <2>1. CASE ends = {}
    BY <1>1, <1>2, <2>1
  <2>2. CASE ends # {}
    <3> HIDE DEF ends
    <3>1. ends \subseteq 1 .. Len(dump) /\ ends \subseteq Nat
      BY <1>1 DEF ends
    <3>2. Min(ends) \in ends /\ \A n \in ends : Min(ends) <= n
      BY <2>2, <3>1, LeastIs
    <3>3. stop \in ends /\ \A n \in ends : stop <= n
      BY <1>2, <2>2, <3>2
    <3> HIDE DEF stop
    <3>4. last = stop - 1
      BY <3>1, <3>3
    <3>5. QED
      BY <1>1, <3>1, <3>3, <3>4
  <2>3. QED
    BY <2>1, <2>2
<1>4. h \in 0 .. Len(dump) /\ \A n \in 1 .. h : ~EndsHeader(dump[n])
  <2> HIDE DEF stop
  <2>1. QED
    BY <1>1, <1>3
<1>5. Header(dump) = SubSeq(dump, 1, h)
  BY DEF Header
<1> HIDE DEF h
<1>6. ASSUME NEW n \in 1 .. h
      PROVE  dump[n] \in [kind : Kinds, name : Name, quoted : BOOLEAN, closed : BOOLEAN]
  <2>1. n \in 1 .. Len(dump)
    BY <1>1, <1>4
  <2>2. QED
    BY <2>1, ElementOfSeq DEF Lines
<1>7. /\ SubSeq(dump, 1, h) \in Lines(Name) /\ Len(SubSeq(dump, 1, h)) = h
      /\ \A n \in 1 .. h : SubSeq(dump, 1, h)[n] = dump[n]
  BY <1>1, <1>4, <1>6, SubSeqProperties DEF Lines
<1>8. DOMAIN SubSeq(dump, 1, h) = 1 .. h
  BY <1>7, LenProperties DEF Lines
<1>9. QED
  BY <1>4, <1>5, <1>7, <1>8

(* The line that is left out is the first that creates db. *)
LEMMA CreateLineIs ==
  ASSUME NEW Name, NEW dump \in Lines(Name), headerLines \in Nat, NEW db, CreateLine(dump, db) # 0
  PROVE  LET n == CreateLine(dump, db)
         IN  /\ n \in 1 .. Len(dump) /\ dump[n].kind = "create" /\ Named(dump[n]) = db
             /\ \A m \in 1 .. n - 1 : dump[m].kind = "create" => Named(dump[m]) # db
<1> DEFINE header == Header(dump)
           creates == {n \in 1 .. Len(header) : header[n].kind = "create" /\ Named(header[n]) = db}
           c == CreateLine(dump, db)
<1>1. PICK h \in 0 .. Len(dump) : Len(header) = h /\ \A n \in 1 .. h : header[n] = dump[n]
  BY HeaderIs
<1>2. Len(dump) \in Nat /\ Len(header) = h /\ \A n \in 1 .. h : header[n] = dump[n]
  BY <1>1, LenProperties DEF Lines
<1>3. c = IF creates # {} THEN Min(creates) ELSE 0
  BY DEF CreateLine, SelectInSeq
<1> HIDE DEF header, c
<1>4. creates # {} /\ c = Min(creates)
  BY <1>3 DEF c
<1>5. creates \subseteq Nat
  BY <1>2
<1>6. c \in creates /\ \A n \in creates : c <= n
  <2> HIDE DEF creates
  <2>1. QED
    BY <1>4, <1>5, LeastIs
<1>7. ASSUME NEW m \in 1 .. c - 1, dump[m].kind = "create" PROVE Named(dump[m]) # db
  <2>1. m \in 1 .. Len(header) /\ m \notin creates
    BY <1>2, <1>6, <1>7
  <2>2. QED
    BY <1>2, <1>7, <2>1
<1>8. c \in 1 .. Len(dump) /\ dump[c] = header[c]
  BY <1>2, <1>6
<1>9. QED
  BY <1>6, <1>7, <1>8 DEF c

(* All lines but the one at c. *)
LEMMA RemoveAtIs ==
  ASSUME NEW S, NEW s \in Seq(S), NEW c \in 1 .. Len(s)
  PROVE  /\ RemoveAt(s, c) \in Seq(S) /\ Len(RemoveAt(s, c)) = Len(s) - 1
         /\ \A n \in 1 .. Len(s) - 1 : RemoveAt(s, c)[n] = IF n < c THEN s[n] ELSE s[n + 1]
<1> DEFINE before == SubSeq(s, 1, c - 1)
           after  == SubSeq(s, c + 1, Len(s))
<1>1. before \in Seq(S) /\ after \in Seq(S)
  OBVIOUS
<1>2. /\ Len(before) = c - 1 /\ \A n \in 1 .. c - 1 : before[n] = s[n]
      /\ Len(after) = Len(s) - c /\ \A n \in 1 .. Len(s) - c : after[n] = s[c + n]
  OBVIOUS
<1>3. RemoveAt(s, c) = before \o after
  BY DEF RemoveAt
<1> HIDE DEF before, after
<1>4. RemoveAt(s, c) \in Seq(S) /\ Len(RemoveAt(s, c)) = Len(s) - 1
  BY <1>1, <1>2, <1>3
<1>5. ASSUME NEW n \in 1 .. Len(s) - 1
      PROVE  RemoveAt(s, c)[n] = IF n < c THEN s[n] ELSE s[n + 1]
  <2>1. CASE n < c
    BY <1>1, <1>2, <1>3, <2>1
  <2>2. CASE ~(n < c)
    <3>1. n - (c - 1) \in 1 .. Len(s) - c /\ c + (n - (c - 1)) = n + 1
      BY <2>2
    <3>2. RemoveAt(s, c)[n] = after[n - (c - 1)]
      BY <1>1, <1>2, <1>3, <2>2
    <3>3. QED
      BY <1>2, <2>2, <3>1, <3>2
  <2>3. QED
    BY <2>1, <2>2
<1>6. QED
  BY <1>4, <1>5

-----------------------------------------------------------------------------
(* What is known of a dump that checkDump lets through. *)
LEMMA CheckedDump ==
  ASSUME NEW Name, Fold \in [Name -> Name], headerLines \in Nat,
         NEW dump \in Lines(Name), WellPlaced(dump), NEW database, NEW psql,
         CheckDump(dump, database, psql)
  PROVE  /\ \A n \in DOMAIN dump : Names(dump[n]) => Named(dump[n]) = database
         /\ \A n, m \in DOMAIN dump : Names(dump[n]) /\ EndsHeader(dump[m]) => n < m
         /\ database # "" => \E n \in DOMAIN dump : dump[n].kind = "connect"
         /\ \A n \in DOMAIN dump : dump[n].kind = "restrict" => psql # "old"
<1> DEFINE header == Header(dump)
           names  == NamedIn(header)
<1>1. Len(dump) \in Nat /\ DOMAIN dump = 1 .. Len(dump)
  BY LinesAre
<1>2. PICK h \in 0 .. Len(dump) :
        /\ Len(header) = h /\ DOMAIN header = 1 .. h
        /\ \A n \in 1 .. h : header[n] = dump[n] /\ ~EndsHeader(dump[n])
  BY HeaderIs
<1>3. \A n \in DOMAIN dump : dump[n].kind \in {"create", "connect", "restrict"} => n \in 1 .. h
  BY <1>1, <1>2 DEF WellPlaced
<1> HIDE DEF header
<1>4. /\ \A n \in 1 .. h : Names(dump[n]) => Named(dump[n]) \in names
      /\ names # {} => \E n \in 1 .. h : Names(dump[n])
  <2>1. ToSet(header) = {header[n] : n \in 1 .. h}
    BY <1>2 DEF ToSet
  <2>2. names = {Named(line) : line \in {l \in ToSet(header) : Names(l)}}
    BY DEF NamedIn, Names
  <2>3. QED
    BY <1>2, <2>1, <2>2
<1>5. /\ \A x, y \in names : x = y
      /\ database = IF names = {} THEN "" ELSE CHOOSE x \in names : TRUE
      /\ (\E n \in DOMAIN header : header[n].kind = "restrict") => psql # "old"
  BY DEF CheckDump, ScanDumpHeader, header
<1>6. (names = {} /\ database = "") \/ database \in names
  <2> HIDE DEF names
  <2>1. QED
    BY <1>5
<1>7. \A n \in DOMAIN dump : Names(dump[n]) => Named(dump[n]) = database
  <2> SUFFICES ASSUME NEW n \in DOMAIN dump, Names(dump[n]) PROVE Named(dump[n]) = database
    OBVIOUS
  <2>1. Named(dump[n]) \in names
    BY <1>3, <1>4 DEF Names
  <2> HIDE DEF names
  <2>2. QED
    BY <1>5, <1>6, <2>1
<1>8. ASSUME NEW n \in DOMAIN dump, NEW m \in DOMAIN dump, Names(dump[n]), EndsHeader(dump[m])
      PROVE  n < m
  <2>1. n \in 1 .. h /\ m \in 1 .. Len(dump) /\ m \notin 1 .. h
    BY <1>1, <1>2, <1>3, <1>8 DEF Names
  <2>2. QED
    BY <1>1, <2>1
<1>9. ASSUME database # "" PROVE \E n \in DOMAIN dump : dump[n].kind = "connect"
  <2>1. PICK n \in 1 .. h : Names(dump[n])
    BY <1>4, <1>5, <1>9
  <2>2. n \in DOMAIN dump
    BY <1>1, <1>2
  <2>3. QED
    BY <2>1, <2>2 DEF WellPlaced, Names
<1>10. \A n \in DOMAIN dump : dump[n].kind = "restrict" => psql # "old"
  BY <1>2, <1>3, <1>5
<1>11. QED
  BY <1>7, <1>8, <1>9, <1>10

(* The line that creates db can be left out of such a dump. *)
LEMMA WithoutCreate ==
  ASSUME NEW Name, Fold \in [Name -> Name], headerLines \in Nat,
         NEW dump \in Lines(Name), NEW db, NEW at, LoadsInto(db, at, dump), CreateLine(dump, db) # 0
  PROVE  LET lines == WithoutCreateDatabase(dump, db)
         IN  /\ LoadsInto(db, at, lines) /\ Objects(lines) = Objects(dump)
             /\ \A n \in DOMAIN lines : \E m \in DOMAIN dump : lines[n] = dump[m]
<1> DEFINE c == CreateLine(dump, db)
           lines == WithoutCreateDatabase(dump, db)
           from(n) == IF n < c THEN n ELSE n + 1
<1>1. Len(dump) \in Nat /\ DOMAIN dump = 1 .. Len(dump)
  BY LinesAre
<1>2. c \in 1 .. Len(dump) /\ dump[c].kind = "create"
  BY CreateLineIs
<1>3. /\ Len(lines) = Len(dump) - 1 /\ DOMAIN lines = 1 .. Len(dump) - 1
      /\ \A n \in 1 .. Len(dump) - 1 : lines[n] = dump[from(n)]
  <2>1. /\ lines \in Lines(Name) /\ Len(lines) = Len(dump) - 1
        /\ \A n \in 1 .. Len(dump) - 1 : lines[n] = IF n < c THEN dump[n] ELSE dump[n + 1]
    BY <1>2, RemoveAtIs DEF WithoutCreateDatabase, Lines
  <2>2. DOMAIN lines = 1 .. Len(lines)
    BY <2>1, LinesAre
  <2>3. QED
    BY <2>1, <2>2
<1> HIDE DEF lines, c
<1>4. /\ \A n \in DOMAIN lines : from(n) \in DOMAIN dump \ {c}
      /\ \A n, m \in DOMAIN lines : from(n) < from(m) => n < m
  BY <1>1, <1>2, <1>3
<1>5. ASSUME NEW m \in DOMAIN dump \ {c} PROVE \E n \in DOMAIN lines : from(n) = m
  <2>1. CASE m < c
    BY <1>1, <1>2, <1>3, <2>1
  <2>2. CASE ~(m < c)
    <3>1. m - 1 \in DOMAIN lines /\ from(m - 1) = m
      BY <1>1, <1>2, <1>3, <2>2
    <3>2. QED
      BY <3>1
  <2>3. QED
    BY <2>1, <2>2
<1> HIDE DEF from
<1>6. \A n \in DOMAIN lines : lines[n] = dump[from(n)]
  BY <1>3
<1>7. LoadsInto(db, at, lines)
  <2>1. Len(lines) \in Nat /\ DOMAIN lines = 1 .. Len(lines)
    BY <1>1, <1>2, <1>3
  <2>2. at = db \/ \E n \in DOMAIN lines : lines[n].kind = "connect"
    BY <1>2, <1>5, <1>6 DEF LoadsInto
  <2>3. \A n \in DOMAIN lines : lines[n].kind \in Kinds /\ (Names(lines[n]) => Named(lines[n]) = db)
    BY <1>4, <1>6 DEF LoadsInto
  <2>4. \A n, m \in DOMAIN lines : Names(lines[n]) /\ EndsHeader(lines[m]) => n < m
    BY <1>4, <1>6 DEF LoadsInto
  <2>5. QED
    BY <2>1, <2>2, <2>3, <2>4 DEF LoadsInto
<1>8. Objects(lines) = Objects(dump)
  <2>1. ~EndsHeader(dump[c])
    BY <1>2 DEF EndsHeader
  <2>2. Objects(lines) \subseteq Objects(dump)
    BY <1>4, <1>6 DEF Objects
  <2>3. Objects(dump) \subseteq Objects(lines)
    BY <1>5, <1>6, <2>1 DEF Objects
  <2>4. QED
    BY <2>2, <2>3
<1>9. QED
  BY <1>4, <1>6, <1>7, <1>8 DEF lines

-----------------------------------------------------------------------------
(* Only the target of a dump is written to, and a success is all of it. *)
IntoTarget(target, result, dbs, dump, psql) ==
  /\ DOMAIN dbs \subseteq DOMAIN result.dbs
  /\ DOMAIN result.dbs \subseteq DOMAIN dbs \cup {target}
  /\ \A d \in DOMAIN dbs \ {target} : result.dbs[d] = dbs[d]
  /\ ~result.failed => /\ target \in DOMAIN result.dbs
                       /\ result.dbs[target] = Held(dbs, target) \cup Objects(dump)
  /\ result.lost => psql = "unreadable"

(* This is what the states of a session come to. *)
LEMMA LoadIsIntoTarget ==
  ASSUME NEW db, NEW at, NEW lines, LoadsInto(db, at, lines), NEW dump, Objects(lines) = Objects(dump),
         NEW psql \in {"new", "old", "unreadable"},
         \A n \in DOMAIN lines : lines[n].kind = "restrict" => psql # "old",
         NEW dbs, NEW result, result = Psql(dbs, at, lines, psql)
  PROVE  IntoTarget(db, result, dbs, dump, psql)
<1>1. Keeps(result, Len(lines), dbs, db, lines, psql)
  BY PsqlKeeps
<1>2. DOMAIN lines = 1 .. Len(lines) /\ Len(lines) \in Nat
  BY DEF LoadsInto
<1>3. MadeBy(lines, Len(lines)) = Objects(dump)
  BY <1>2 DEF MadeBy, Objects
<1>4. ~ \E m \in DOMAIN lines : Len(lines) < m /\ lines[m].kind = "connect"
  BY <1>2
<1>5. QED
  BY <1>1, <1>3, <1>4 DEF Keeps, IntoTarget

(* A dump that was let through is loaded into the target, as it is ... *)
LEMMA CheckedLoads ==
  ASSUME NEW Name, "" \notin Name, Fold \in [Name -> Name], headerLines \in Nat,
         NEW dump \in Lines(Name), WellPlaced(dump), NEW uri, NEW database, NEW psql,
         CheckDump(dump, database, psql),
         NEW db, db = RestoreTarget(database, uri).db, db # Refused,
         NEW at, at = RestoreTarget(database, uri).connect
  PROVE  LoadsInto(db, at, dump)
<1>1. /\ \A n \in DOMAIN dump : Names(dump[n]) => Named(dump[n]) = database
      /\ \A n, m \in DOMAIN dump : Names(dump[n]) /\ EndsHeader(dump[m]) => n < m
      /\ database # "" => \E n \in DOMAIN dump : dump[n].kind = "connect"
  BY CheckedDump
<1>2. /\ Len(dump) \in Nat /\ DOMAIN dump = 1 .. Len(dump)
      /\ \A n \in DOMAIN dump : dump[n].kind \in Kinds /\ Named(dump[n]) \in Name
  BY LinesAre
<1>3. CASE database = ""
  <2>1. at = db
    BY <1>3 DEF RestoreTarget
  <2>2. ASSUME NEW n \in DOMAIN dump, Names(dump[n]) PROVE FALSE
    BY <1>1, <1>2, <1>3, <2>2
  <2>3. QED
    BY <1>2, <2>1, <2>2 DEF LoadsInto
<1>4. CASE database # ""
  <2>1. db = database
    BY <1>4 DEF RestoreTarget
  <2>2. QED
    BY <1>1, <1>2, <1>4, <2>1 DEF LoadsInto
<1>5. QED
  BY <1>3, <1>4

(* ... or without the line that creates the target. *)
LEMMA FilteredIsIntoTarget ==
  ASSUME NEW Name, Fold \in [Name -> Name], headerLines \in Nat, NEW dump \in Lines(Name),
         NEW db, NEW at, LoadsInto(db, at, dump), Removable(dump, db),
         NEW psql \in {"new", "old", "unreadable"},
         \A n \in DOMAIN dump : dump[n].kind = "restrict" => psql # "old", NEW dbs
  PROVE  IntoTarget(db, Psql(dbs, at, WithoutCreateDatabase(dump, db), psql), dbs, dump, psql)
<1> DEFINE lines == WithoutCreateDatabase(dump, db)
<1>1. CreateLine(dump, db) # 0
  BY DEF Removable
<1>2. /\ LoadsInto(db, at, lines) /\ Objects(lines) = Objects(dump)
      /\ \A n \in DOMAIN lines : \E m \in DOMAIN dump : lines[n] = dump[m]
  BY <1>1, WithoutCreate
<1> HIDE DEF lines
<1>3. \A n \in DOMAIN lines : lines[n].kind = "restrict" => psql # "old"
  BY <1>2
<1>4. IntoTarget(db, Psql(dbs, at, lines, psql), dbs, dump, psql)
  BY <1>2, <1>3, LoadIsIntoTarget
<1>5. QED
  BY <1>4 DEF lines

(* A dump that pg_dump could have written restores into the database that   *)
(* was checked, and into no other, whatever the connection string, the      *)
(* provider's entry, the names in the dump and the databases of the server: *)
(* every other database is left as it is, and a restore that succeeds       *)
(* leaves in the target what it held and all that the dump makes. psql does *)
(* not stop at \restrict unless its version could not be read.              *)
THEOREM RestoresOnlyIntoTarget ==
  ASSUME NEW Name, "" \notin Name, Fold \in [Name -> Name], headerLines \in Nat,
         NEW dump \in Lines(Name), WellPlaced(dump), NEW uri, NEW database, NEW dbs,
         NEW psql \in {"new", "old", "unreadable"}
  PROVE  IntoTarget(RestoreTarget(database, uri).db, Restore(uri, database, dump, dbs, psql), dbs, dump, psql)
<1> DEFINE db      == RestoreTarget(database, uri).db
           at      == RestoreTarget(database, uri).connect
           inPlace == database # "" /\ db \in DOMAIN dbs /\ dbs[db] = {}
           refused == [dbs |-> dbs, at |-> Refused, failed |-> TRUE, lost |-> FALSE]
           Into(result) == IntoTarget(db, result, dbs, dump, psql)
<1>1. \/ Restore(uri, database, dump, dbs, psql) = refused
      \/ /\ db # Refused /\ CheckDump(dump, database, psql) /\ ~inPlace
         /\ Restore(uri, database, dump, dbs, psql) = Psql(dbs, at, dump, psql)
      \/ /\ db # Refused /\ CheckDump(dump, database, psql) /\ Removable(dump, db)
         /\ Restore(uri, database, dump, dbs, psql) = Psql(dbs, at, WithoutCreateDatabase(dump, db), psql)
  BY DEF Restore
<1>2. Into(refused)
  BY DEF IntoTarget
<1> HIDE DEF db, at, inPlace, refused
<1>3. ASSUME db # Refused, CheckDump(dump, database, psql)
      PROVE  /\ LoadsInto(db, at, dump)
             /\ \A n \in DOMAIN dump : dump[n].kind = "restrict" => psql # "old"
  <2>1. LoadsInto(db, at, dump)
    BY <1>3, CheckedLoads DEF db, at
  <2>2. QED
    BY <1>3, <2>1, CheckedDump
<1>4. ASSUME db # Refused, CheckDump(dump, database, psql) PROVE Into(Psql(dbs, at, dump, psql))
  BY <1>3, <1>4, LoadIsIntoTarget
<1>5. ASSUME db # Refused, CheckDump(dump, database, psql), Removable(dump, db)
      PROVE  Into(Psql(dbs, at, WithoutCreateDatabase(dump, db), psql))
  BY <1>3, <1>5, FilteredIsIntoTarget
<1> HIDE DEF Into
<1>6. Into(Restore(uri, database, dump, dbs, psql))
  BY <1>1, <1>2, <1>4, <1>5
<1>7. QED
  BY <1>6 DEF Into, db

-----------------------------------------------------------------------------
(* The restore into an empty database that is there, beside the one that    *)
(* creates it: until CREATE DATABASE the two differ in that database only.  *)
Beside(dbs, db) == [d \in DOMAIN dbs \cup {db} |-> IF d = db THEN {} ELSE dbs[d]]

Alike(s, t, dbs, db) ==
  /\ DOMAIN s = {"dbs", "at", "failed", "lost"} /\ s.dbs = dbs
  /\ t = [s EXCEPT !.dbs = Beside(dbs, db)]

Same(s, t) == (s.failed /\ t.failed) \/ s = t

(* A session with other databases. *)
LEMMA OtherDatabases ==
  ASSUME NEW d, NEW e, NEW a, NEW f, NEW l, NEW s, s = [dbs |-> d, at |-> a, failed |-> f, lost |-> l]
  PROVE  [s EXCEPT !.dbs = e] = [dbs |-> e, at |-> a, failed |-> f, lost |-> l]
OBVIOUS

(* The two sessions begin alike ... *)
LEMMA AlikeFirst ==
  ASSUME NEW dbs, NEW db, NEW at, NEW gone, NEW lost,
         NEW s, s = [dbs |-> dbs, at |-> at, failed |-> gone, lost |-> lost]
  PROVE  Alike(s, [dbs |-> Beside(dbs, db), at |-> at, failed |-> gone, lost |-> lost], dbs, db)
BY OtherDatabases DEF Alike

(* ... stay so over lines that psql does nothing for ... *)
LEMMA AlikeNext ==
  ASSUME NEW dbs, NEW db, NEW s, NEW t, Alike(s, t, dbs, db),
         NEW line, line.kind \in {"other", "restrict"}, NEW psql
  PROVE  Alike(Statement(s, line, psql), Statement(t, line, psql), dbs, db)
<1>1. CASE s.failed
  <2>1. Statement(s, line, psql) = s /\ Statement(t, line, psql) = t
    BY <1>1 DEF Alike, Statement
  <2>2. QED
    BY <2>1
<1>2. CASE ~s.failed /\ line.kind = "other"
  <2>1. Statement(s, line, psql) = s /\ Statement(t, line, psql) = t
    BY <1>2 DEF Alike, Statement
  <2>2. QED
    BY <2>1
<1>3. CASE ~s.failed /\ line.kind = "restrict"
  <2>1. /\ Statement(s, line, psql) = IF psql = "new" THEN s ELSE [[s EXCEPT !.failed = TRUE] EXCEPT !.lost = TRUE]
        /\ Statement(t, line, psql) = IF psql = "new" THEN t ELSE [[t EXCEPT !.failed = TRUE] EXCEPT !.lost = TRUE]
    BY <1>3 DEF Alike, Statement
  <2>2. QED
    BY <2>1 DEF Alike
<1>4. QED
  BY <1>1, <1>2, <1>3

(* ... until the one creates the database that the other has: from there *)
(* on they are in the same state, unless both have failed ...             *)
LEMMA AlikeCreates ==
  ASSUME NEW dbs, NEW db, db \notin DOMAIN dbs, NEW s, NEW t, Alike(s, t, dbs, db),
         NEW line, line.kind = "create", Named(line) = db, NEW psql
  PROVE  Same(Statement(s, line, psql), t)
<1>1. CASE s.failed
  BY <1>1 DEF Alike, Statement, Same
<1>2. CASE ~s.failed
  <2>1. Statement(s, line, psql) = [s EXCEPT !.dbs = Beside(dbs, db)]
    BY <1>2 DEF Alike, Statement, Named, Beside
  <2>2. [s EXCEPT !.dbs = Beside(dbs, db)] = t
    BY DEF Alike
  <2>3. QED
    BY <2>1, <2>2 DEF Same
<1>3. QED
  BY <1>1, <1>2

(* ... and go on together. *)
LEMMA SameNext ==
  ASSUME NEW s, NEW t, Same(s, t), NEW line, NEW psql
  PROVE  Same(Statement(s, line, psql), Statement(t, line, psql))
BY DEF Same, Statement

(* Before the CREATE DATABASE of such a dump, there is nothing psql would run. *)
LEMMA BeforeCreate ==
  ASSUME NEW Name, Fold \in [Name -> Name], headerLines \in Nat,
         NEW dump \in Lines(Name), WellPlaced(dump), NEW db, NEW at, LoadsInto(db, at, dump),
         CreateLine(dump, db) # 0, NEW n \in 1 .. CreateLine(dump, db) - 1
  PROVE  dump[n].kind \in {"other", "restrict"}
<1> DEFINE c == CreateLine(dump, db)
<1>1. /\ c \in 1 .. Len(dump) /\ dump[c].kind = "create"
      /\ \A m \in 1 .. c - 1 : dump[m].kind = "create" => Named(dump[m]) # db
  BY CreateLineIs
<1>2. Len(dump) \in Nat /\ DOMAIN dump = 1 .. Len(dump)
  BY LinesAre
<1> HIDE DEF c
<1>3. n \in 1 .. c - 1
  BY DEF c
<1>4. n \in DOMAIN dump /\ c \in DOMAIN dump /\ n < c
  BY <1>1, <1>2, <1>3
<1>5. ASSUME NEW m \in DOMAIN dump, m < c, dump[m].kind = "create" PROVE FALSE
  <2>1. m \in 1 .. c - 1
    BY <1>1, <1>2, <1>5
  <2>2. Named(dump[m]) = db
    BY <1>5 DEF LoadsInto, Names
  <2>3. QED
    BY <1>1, <1>5, <2>1, <2>2
<1>6. dump[n].kind # "connect"
  <2> SUFFICES ASSUME dump[n].kind = "connect" PROVE FALSE
    OBVIOUS
  <2>1. PICK m \in DOMAIN dump : m < n /\ dump[m].kind = "create"
    BY <1>1, <1>4 DEF WellPlaced
  <2>2. m < c
    BY <1>2, <1>4, <2>1
  <2>3. QED
    BY <1>5, <2>1, <2>2
<1>7. ~EndsHeader(dump[n])
  <2> SUFFICES ASSUME EndsHeader(dump[n]) PROVE FALSE
    OBVIOUS
  <2>1. c < n
    BY <1>1, <1>4 DEF LoadsInto, Names
  <2>2. QED
    BY <1>2, <1>4, <2>1
<1>8. dump[n].kind \in Kinds /\ dump[n].kind # "create"
  BY <1>4, <1>5 DEF LoadsInto
<1>9. QED
  BY <1>6, <1>7, <1>8 DEF Kinds, EndsHeader

(* The load without the CREATE DATABASE is the load with it. *)
LEMMA FilteredLoad ==
  ASSUME NEW Name, Fold \in [Name -> Name], headerLines \in Nat,
         NEW dump \in Lines(Name), WellPlaced(dump), NEW db, NEW at, at # db, LoadsInto(db, at, dump),
         CreateLine(dump, db) # 0, NEW dbs, db \notin DOMAIN dbs, NEW psql
  PROVE  Same(Psql(dbs, at, dump, psql), Psql(Beside(dbs, db), at, WithoutCreateDatabase(dump, db), psql))
<1> DEFINE c == CreateLine(dump, db)
           lines == WithoutCreateDatabase(dump, db)
           s == Session(dbs, at, dump, psql)
           t == Session(Beside(dbs, db), at, lines, psql)
<1>1. /\ c \in 1 .. Len(dump) /\ dump[c].kind = "create" /\ Named(dump[c]) = db
      /\ Len(dump) \in Nat
      /\ Len(lines) = Len(dump) - 1
      /\ \A n \in 1 .. Len(dump) - 1 : lines[n] = IF n < c THEN dump[n] ELSE dump[n + 1]
  <2>1. Len(dump) \in Nat
    BY LinesAre
  <2>2. c \in 1 .. Len(dump) /\ dump[c].kind = "create" /\ Named(dump[c]) = db
    BY CreateLineIs
  <2> HIDE DEF c
  <2>3. /\ Len(RemoveAt(dump, c)) = Len(dump) - 1
        /\ \A n \in 1 .. Len(dump) - 1 : RemoveAt(dump, c)[n] = IF n < c THEN dump[n] ELSE dump[n + 1]
    BY <2>2, RemoveAtIs DEF Lines
  <2>4. lines = RemoveAt(dump, c)
    BY DEF WithoutCreateDatabase, c
  <2> HIDE DEF lines
  <2>5. QED
    BY <2>1, <2>2, <2>3, <2>4
<1>2. \A n \in 1 .. c - 1 : dump[n].kind \in {"other", "restrict"}
  BY BeforeCreate
<1>3. /\ s[0] = [dbs |-> dbs, at |-> at, failed |-> at \notin DOMAIN dbs, lost |-> FALSE]
      /\ \A n \in 1 .. Len(dump) : s[n] = Statement(s[n - 1], dump[n], psql)
  <2>1. Len(dump) \in Nat
    BY <1>1
  <2>2. QED
    BY <2>1, SessionIs
<1> HIDE DEF c, lines, s
<1>4. Len(lines) \in Nat
  BY <1>1
<1>5. /\ t[0] = [dbs |-> Beside(dbs, db), at |-> at, failed |-> at \notin DOMAIN Beside(dbs, db), lost |-> FALSE]
      /\ \A n \in 1 .. Len(lines) : t[n] = Statement(t[n - 1], lines[n], psql)
  BY <1>4, SessionIs
<1> HIDE DEF t
<1>6. Alike(s[0], t[0], dbs, db)
  <2> DEFINE gone == at \notin DOMAIN dbs
             lost == FALSE
  <2>1. (at \notin DOMAIN Beside(dbs, db)) = gone
    BY DEF Beside
  <2>2. s[0] = [dbs |-> dbs, at |-> at, failed |-> gone, lost |-> lost]
    BY <1>3
  <2>3. t[0] = [dbs |-> Beside(dbs, db), at |-> at, failed |-> gone, lost |-> lost]
    BY <1>5, <2>1
  <2> HIDE DEF gone, lost
  <2>4. QED
    BY <2>2, <2>3, AlikeFirst
<1>7. Alike(s[c - 1], t[c - 1], dbs, db)
  <2> DEFINE alike == {n \in Nat : n <= c - 1 => Alike(s[n], t[n], dbs, db)}
  <2>1. 0 \in alike
    BY <1>6
  <2>2. ASSUME NEW n \in Nat, n \in alike PROVE n + 1 \in alike
    <3> SUFFICES ASSUME n + 1 <= c - 1 PROVE Alike(s[n + 1], t[n + 1], dbs, db)
      OBVIOUS
    <3>1. n + 1 \in 1 .. c - 1 /\ n + 1 \in 1 .. Len(dump) - 1 /\ n + 1 \in 1 .. Len(dump)
      BY <1>1
    <3>2. Alike(s[n], t[n], dbs, db)
      BY <1>1, <2>2
    <3>3. s[n + 1] = Statement(s[n], dump[n + 1], psql) /\ t[n + 1] = Statement(t[n], dump[n + 1], psql)
      <4>1. lines[n + 1] = dump[n + 1] /\ (n + 1) - 1 = n /\ n + 1 \in 1 .. Len(lines)
        BY <1>1, <3>1
      <4>2. s[n + 1] = Statement(s[(n + 1) - 1], dump[n + 1], psql)
        BY <1>3, <3>1
      <4>3. t[n + 1] = Statement(t[(n + 1) - 1], lines[n + 1], psql)
        BY <1>5, <4>1
      <4>4. QED
        BY <4>1, <4>2, <4>3
    <3>4. QED
      BY <1>2, <3>1, <3>2, <3>3, AlikeNext
  <2>3. c - 1 \in alike
    <3> HIDE DEF alike
    <3>1. QED
      BY <1>1, <2>1, <2>2, NatsFromZero
  <2>4. QED
    BY <2>3
<1>8. Same(s[c], t[c - 1])
  <2>1. s[c] = Statement(s[c - 1], dump[c], psql)
    BY <1>1, <1>3
  <2>2. QED
    BY <1>1, <1>7, <2>1, AlikeCreates
<1>9. Same(s[Len(dump)], t[Len(dump) - 1])
  <2> DEFINE same == {k \in Nat : c + k <= Len(dump) => Same(s[c + k], t[c + k - 1])}
  <2>1. 0 \in same
    BY <1>1, <1>8
  <2>2. ASSUME NEW k \in Nat, k \in same PROVE k + 1 \in same
    <3> SUFFICES ASSUME c + (k + 1) <= Len(dump) PROVE Same(s[c + (k + 1)], t[c + (k + 1) - 1])
      OBVIOUS
    <3> DEFINE m == c + k
    <3>1. Same(s[m], t[m - 1])
      BY <1>1, <2>2
    <3>2. c \in Nat /\ c >= 1 /\ Len(dump) \in Nat
      BY <1>1
    <3>3. /\ m + 1 \in 1 .. Len(dump) /\ m \in 1 .. Len(dump) - 1 /\ ~(m < c) /\ m + 1 - 1 = m
          /\ c + (k + 1) = m + 1 /\ c + (k + 1) - 1 = m
      BY <3>2
    <3> HIDE DEF m
    <3>4. lines[m] = dump[m + 1] /\ m \in 1 .. Len(lines)
      BY <1>1, <3>3
    <3>5. s[m + 1] = Statement(s[m], dump[m + 1], psql)
      <4>1. s[m + 1] = Statement(s[m + 1 - 1], dump[m + 1], psql)
        BY <1>3, <3>3
      <4>2. QED
        BY <3>3, <4>1
    <3>6. t[m] = Statement(t[m - 1], dump[m + 1], psql)
      <4>1. t[m] = Statement(t[m - 1], lines[m], psql)
        BY <1>5, <3>4
      <4>2. QED
        BY <3>4, <4>1
    <3>7. Same(s[m + 1], t[m])
      BY <3>1, <3>5, <3>6, SameNext
    <3>8. QED
      BY <3>3, <3>7
  <2>3. Len(dump) - c \in same
    <3> HIDE DEF same
    <3>1. Len(dump) - c \in Nat
      BY <1>1
    <3>2. QED
      BY <2>1, <2>2, <3>1, NatsFromZero
  <2>4. c + (Len(dump) - c) = Len(dump)
    BY <1>1
  <2>5. QED
    BY <1>1, <2>3, <2>4
<1>10. QED
  BY <1>1, <1>9 DEF Psql, s, t, lines

(* "leaving the statement out lets the dump restore into it": the restore    *)
(* into an empty database that is there (withoutCreateDatabase) succeeds     *)
(* exactly when the restore of the same dump, on the same server without     *)
(* that database, does, and leaves the same server.                          *)
THEOREM FilteringIsCreating ==
  ASSUME NEW Name, "" \notin Name, Fold \in [Name -> Name], headerLines \in Nat,
         NEW dump \in Lines(Name), WellPlaced(dump), NEW uri,
         NEW db, db \notin {"", Refused, "postgres"}, Removable(dump, db),
         NEW dbs, db \notin DOMAIN dbs, NEW psql
  PROVE  Same(Restore(uri, db, dump, dbs, psql), Restore(uri, db, dump, Beside(dbs, db), psql))
<1> DEFINE at == MaintenanceURI(uri, db)
           refused(d) == [dbs |-> d, at |-> Refused, failed |-> TRUE, lost |-> FALSE]
<1>1. /\ RestoreTarget(db, uri) = [db |-> db, connect |-> at]
      /\ at # db
  BY DEF RestoreTarget, MaintenanceURI
<1>2. db \in DOMAIN Beside(dbs, db) /\ Beside(dbs, db)[db] = {}
  BY DEF Beside
<1>3. Restore(uri, db, dump, dbs, psql) =
        IF CheckDump(dump, db, psql) THEN Psql(dbs, at, dump, psql) ELSE refused(dbs)
  BY DEF Restore, RestoreTarget
<1>4. Restore(uri, db, dump, Beside(dbs, db), psql) =
        IF CheckDump(dump, db, psql) THEN Psql(Beside(dbs, db), at, WithoutCreateDatabase(dump, db), psql)
        ELSE refused(Beside(dbs, db))
  BY <1>2 DEF Restore, RestoreTarget
<1>5. CASE ~CheckDump(dump, db, psql)
  <2>1. Same(refused(dbs), refused(Beside(dbs, db)))
    BY DEF Same
  <2> HIDE DEF refused
  <2>2. QED
    BY <1>3, <1>4, <1>5, <2>1
<1>6. CASE CheckDump(dump, db, psql)
  <2>1. LoadsInto(db, at, dump)
    <3>1. db = RestoreTarget(db, uri).db /\ at = RestoreTarget(db, uri).connect
      BY DEF RestoreTarget
    <3> HIDE DEF at
    <3>2. QED
      BY <1>6, <3>1, CheckedLoads
  <2>2. CreateLine(dump, db) # 0
    BY DEF Removable
  <2> HIDE DEF at
  <2>3. Same(Psql(dbs, at, dump, psql), Psql(Beside(dbs, db), at, WithoutCreateDatabase(dump, db), psql))
    BY <1>1, <2>1, <2>2, FilteredLoad
  <2>4. QED
    BY <1>3, <1>4, <1>6, <2>3
<1>7. QED
  BY <1>5, <1>6

(* Whatever the run is asked to restore, and wherever: the answer of the     *)
(* code keeps to the database that was checked.                              *)
THEOREM RestoresIntoTargetOnly == Spec => []RestoresIntoTarget
<1>1. Answered => RestoresIntoTarget
  <2> SUFFICES ASSUME Answered, Of("restore"), WellPlaced(question.dump) PROVE RestoresIntoTarget
    BY DEF RestoresIntoTarget
  <2> DEFINE target == RestoreTarget(question.database, question.uri).db
  <2>1. /\ question.dump \in Lines(DOMAIN Fold) /\ question.psql \in {"new", "old", "unreadable"}
        /\ answer = Restore(question.uri, question.database, question.dump, question.dbs, question.psql)
    BY OfIs DEF Of, Answered, ARestore
  <2>2. "" \notin DOMAIN Fold /\ Fold \in [DOMAIN Fold -> DOMAIN Fold] /\ headerLines \in Nat
    BY NamesAssumption
  <2>3. IntoTarget(target, answer, question.dbs, question.dump, question.psql)
    BY <2>1, <2>2, RestoresOnlyIntoTarget
  <2>4. QED
    BY <2>3 DEF IntoTarget, RestoresIntoTarget
<1>2. QED
  BY <1>1, Answers, PTL

(* ... and that without the CREATE DATABASE, into an empty database that is  *)
(* there, is that with it.                                                   *)
THEOREM FilterCreatesInPlace == Spec => []FilterIsCreateInPlace
<1>1. Answered => FilterIsCreateInPlace
  <2> DEFINE db == question.database
             without == [d \in DOMAIN question.dbs \ {db} |-> question.dbs[d]]
  <2> SUFFICES ASSUME Answered, Of("restore"), WellPlaced(question.dump), db \notin {"", "postgres"},
                      db \in DOMAIN question.dbs, question.dbs[db] = {}, Removable(question.dump, db)
               PROVE  LET created == Restore(question.uri, db, question.dump, without, question.psql)
                      IN  (created.failed /\ answer.failed) \/ created = answer
    BY DEF FilterIsCreateInPlace
  <2>1. /\ question.dump \in Lines(DOMAIN Fold) /\ db \in DOMAIN Fold
        /\ question.dbs = [d \in DOMAIN question.dbs |-> question.dbs[d]]
        /\ answer = Restore(question.uri, db, question.dump, question.dbs, question.psql)
    BY OfIs DEF Of, Answered, ARestore
  <2>2. /\ "" \notin DOMAIN Fold /\ Fold \in [DOMAIN Fold -> DOMAIN Fold] /\ headerLines \in Nat
        /\ db # Refused
    BY <2>1, NamesAssumption
  <2>3. db \notin DOMAIN without /\ Beside(without, db) = question.dbs
    <3>1. DOMAIN without \cup {db} = DOMAIN question.dbs
      OBVIOUS
    <3>2. Beside(without, db) = [d \in DOMAIN question.dbs |-> question.dbs[d]]
      BY <3>1 DEF Beside
    <3>3. QED
      BY <2>1, <3>2
  <2> HIDE DEF without
  <2>4. Same(Restore(question.uri, db, question.dump, without, question.psql),
             Restore(question.uri, db, question.dump, Beside(without, db), question.psql))
    BY <2>1, <2>2, <2>3, FilteringIsCreating
  <2>5. QED
    BY <2>1, <2>3, <2>4 DEF Same
<1>2. QED
  BY <1>1, Answers, PTL

-----------------------------------------------------------------------------
(* What a configuration has for a provider, a network and a kind. *)
Has(config, p, n, kind) ==
  /\ p \in DOMAIN config.providers /\ n \in DOMAIN config.providers[p] /\ kind \in AllKinds
  /\ config.providers[p][n][kind] # None

AllValid(config) ==
  \A p, n, kind : Has(config, p, n, kind) => Valid(config.providers[p][n][kind], kind)

(* merge: what a command is given for a provider, a network and a kind is   *)
(* what the user's file has there, and else what the defaults have. Neither *)
(* a provider nor a network of the file hides what the defaults have beside *)
(* it.                                                                      *)
THEOREM MergeResolves ==
  ASSUME NEW base, NEW over, NEW provider, NEW network, NEW kind \in AllKinds, provider # ""
  PROVE  Resolve(Merge(base, over), provider, network, kind) =
           IF Resolve(over, provider, network, kind) # None
             THEN Resolve(over, provider, network, kind)
             ELSE Resolve(base, provider, network, kind)
  BY DEF Resolve, Merge, MergeProvider, MergeNetwork, Laid

(* What the merged configuration has is that of one of the two, and all of *)
(* the user's file is in it.                                               *)
LEMMA MergeHas ==
  ASSUME NEW base, NEW over, NEW p, NEW n, NEW kind
  PROVE  LET config == Merge(base, over)
         IN  /\ Has(over, p, n, kind) =>
                  /\ Has(config, p, n, kind)
                  /\ config.providers[p][n][kind] = over.providers[p][n][kind]
             /\ Has(config, p, n, kind) /\ ~Has(over, p, n, kind) =>
                  /\ Has(base, p, n, kind)
                  /\ config.providers[p][n][kind] = base.providers[p][n][kind]
  BY DEF Has, Merge, MergeProvider, MergeNetwork, Laid

(* Load accepts a user's file over valid defaults exactly when its version  *)
(* is one or not given, the provider it makes the default is somewhere, and *)
(* everything in it is valid by itself: no valid file becomes invalid by    *)
(* what it is laid over, and no default repairs an invalid one.             *)
THEOREM AcceptedExactly ==
  ASSUME NEW base, NEW over, Validate(base)
  PROVE  Merged(base, over).accepted <=>
           /\ over.version \in {0, 1}
           /\ over.default \in {""} \cup DOMAIN base.providers \cup DOMAIN over.providers
           /\ AllValid(over)
<1> DEFINE config == Merge(base, over)
<1>1. \A c : Validate(c) <=> /\ c.version = 1 /\ DOMAIN c.providers # {}
                             /\ c.default \in DOMAIN c.providers /\ AllValid(c)
  BY DEF Validate, AllValid, Has
<1>2. base.version = 1 /\ DOMAIN base.providers # {} /\ base.default \in DOMAIN base.providers
  BY <1>1
<1>3. /\ config.version = IF over.version # 0 THEN over.version ELSE base.version
      /\ config.default = IF over.default # "" THEN over.default ELSE base.default
      /\ DOMAIN config.providers = DOMAIN base.providers \cup DOMAIN over.providers
  BY DEF Merge, Laid
<1>4. AllValid(config) <=> AllValid(over)
  <2>1. AllValid(base)
    BY <1>1
  <2> HIDE DEF config
  <2>2. \A p, n, kind :
          /\ Has(over, p, n, kind) =>
               /\ Has(config, p, n, kind)
               /\ config.providers[p][n][kind] = over.providers[p][n][kind]
          /\ Has(config, p, n, kind) /\ ~Has(over, p, n, kind) =>
               /\ Has(base, p, n, kind)
               /\ config.providers[p][n][kind] = base.providers[p][n][kind]
    BY MergeHas DEF config
  <2>3. QED
    BY <2>1, <2>2 DEF AllValid
<1> HIDE DEF config
<1>5. Validate(config) <=> /\ config.version = 1 /\ DOMAIN config.providers # {}
                           /\ config.default \in DOMAIN config.providers /\ AllValid(config)
  BY <1>1
<1>6. QED
  BY <1>2, <1>3, <1>4, <1>5 DEF Merged, config

(* What a command is given out of an accepted configuration is not read over *)
(* plain http from another host, the object or its index, unless the         *)
(* artifact says "insecure" (Artifact.validate and CheckURL).                *)
THEOREM EndpointsAreChecked ==
  ASSUME NEW config, Validate(config), NEW provider, NEW network, NEW kind \in AllKinds
  PROVE  LET artifact == Resolve(config, provider, network, kind)
             Private(url) == url.scheme = "https" \/ url.host = "loopback"
         IN  /\ artifact # None /\ artifact.backend \in {"http", "apt"} =>
                  artifact.insecure \/ Private(artifact.at)
             /\ artifact # None /\ artifact.backend = "http" /\ artifact.index # NoURL =>
                  artifact.insecure \/ Private(artifact.index)
<1> DEFINE artifact == Resolve(config, provider, network, kind)
<1>1. ASSUME artifact # None PROVE URLsChecked(artifact)
  BY <1>1 DEF Resolve, Validate, Valid
<1> HIDE DEF artifact
<1>2. QED
  BY <1>1 DEF URLsChecked, CheckURL, artifact

(* An artifact that is right in all but its URLs is valid when none is open. *)
LEMMA ValidUnlessOpen ==
  ASSUME NEW artifact, NEW kind, FieldsChecked(artifact, kind),
         \A url \in ReadFrom(artifact) : url.scheme \in {"http", "https"} /\ url.host # ""
  PROVE  Valid(artifact, kind) <=> ~Open(artifact)
<1> DEFINE Legal(url) == url.scheme = "https" \/ artifact.insecure \/ url.host = "loopback"
<1>1. \A url \in ReadFrom(artifact) : CheckURL(url, artifact.insecure) <=> Legal(url)
  BY DEF CheckURL
<1>2. URLsChecked(artifact) <=> \A url \in ReadFrom(artifact) : CheckURL(url, artifact.insecure)
  BY DEF URLsChecked, ReadFrom
<1>3. Open(artifact) <=> \E url \in ReadFrom(artifact) : ~Legal(url)
  BY DEF Open
<1>4. QED
  BY <1>1, <1>2, <1>3 DEF Valid

(* merge and validate: what is accepted, and what a command then gets for    *)
(* each provider, network and kind.                                          *)
THEOREM MergesOverDefaults == Spec => []MergeOverlays
<1>1. Answered => MergeOverlays
  <2> DEFINE base == question.base
             over == question.over
             config == Merge(base, over)
             Given(c, x) == Resolve(c, x[1], x[2], x[3])
             NetworksOf(c) == UNION {DOMAIN c.providers[p] : p \in DOMAIN c.providers}
             Providers == DOMAIN base.providers \cup DOMAIN over.providers
             Places == Providers \X (NetworksOf(base) \cup NetworksOf(over)) \X AllKinds
             InFile == {x \in Places : Given(over, x) # None}
             DefaultThere == over.default \in {""} \cup DOMAIN base.providers \cup DOMAIN over.providers
  <2> SUFFICES ASSUME Answered, Of("merge")
               PROVE  /\ answer.accepted <=> DefaultThere /\ \A x \in InFile : ~Open(Given(over, x))
                      /\ answer.accepted => \A x \in Places :
                           Given(answer.config, x) = Given(IF x \in InFile THEN over ELSE base, x)
    BY DEF MergeOverlays
  <2>1. AMerge(question) /\ answer = Merged(base, over)
    BY OfIs DEF Of, Answered
  <2>2. Validate(base) /\ over.version \in {0, 1} /\ "" \notin Providers
    BY <2>1 DEF AMerge
  <2>3. answer.accepted <=> DefaultThere /\ AllValid(over)
    BY <2>1, <2>2, AcceptedExactly
  <2>4. answer.config = config
    BY <2>1 DEF Merged
  <2>5. \A p, n, kind : Has(over, p, n, kind) =>
          (Valid(over.providers[p][n][kind], kind) <=> ~Open(over.providers[p][n][kind]))
    <3> SUFFICES ASSUME NEW p, NEW n, NEW kind, Has(over, p, n, kind)
                 PROVE  Valid(over.providers[p][n][kind], kind) <=> ~Open(over.providers[p][n][kind])
      OBVIOUS
    <3> DEFINE artifact == over.providers[p][n][kind]
    <3>1. /\ FieldsChecked(artifact, kind)
          /\ \A url \in ReadFrom(artifact) : url.scheme \in {"http", "https"} /\ url.host # ""
      BY <2>1 DEF AMerge, Has
    <3> HIDE DEF artifact
    <3>2. Valid(artifact, kind) <=> ~Open(artifact)
      BY <3>1, ValidUnlessOpen
    <3>3. QED
      BY <3>2 DEF artifact
  <2>6. \A p, n, kind : Has(over, p, n, kind) =>
          <<p, n, kind>> \in InFile /\ Given(over, <<p, n, kind>>) = over.providers[p][n][kind]
    <3> SUFFICES ASSUME NEW p, NEW n, NEW kind, Has(over, p, n, kind)
                 PROVE  <<p, n, kind>> \in InFile /\ Given(over, <<p, n, kind>>) = over.providers[p][n][kind]
      OBVIOUS
    <3>1. /\ p \in DOMAIN over.providers /\ n \in DOMAIN over.providers[p] /\ kind \in AllKinds
          /\ over.providers[p][n][kind] # None
      BY DEF Has
    <3>2. <<p, n, kind>> \in Places
      BY <3>1
    <3>3. Resolve(over, p, n, kind) = over.providers[p][n][kind]
      BY <2>2, <3>1 DEF Resolve
    <3> HIDE DEF Places
    <3>4. QED
      BY <3>1, <3>2, <3>3
  <2>7. \A x \in InFile : /\ Has(over, x[1], x[2], x[3])
                         /\ Given(over, x) = over.providers[x[1]][x[2]][x[3]]
    BY <2>2 DEF Has, Resolve
  <2>8. \A x \in Places : Given(config, x) = Given(IF x \in InFile THEN over ELSE base, x)
    <3> SUFFICES ASSUME NEW x \in Places
                 PROVE  Given(config, x) = Given(IF x \in InFile THEN over ELSE base, x)
      OBVIOUS
    <3>1. x[1] # "" /\ x[3] \in AllKinds
      BY <2>2
    <3> DEFINE p == x[1]
               n == x[2]
               kind == x[3]
    <3>2. p # "" /\ kind \in AllKinds
      BY <3>1
    <3> HIDE DEF base, over, p, n, kind
    <3>3. Resolve(config, p, n, kind) =
            IF Resolve(over, p, n, kind) # None THEN Resolve(over, p, n, kind) ELSE Resolve(base, p, n, kind)
      BY <3>2 DEF Resolve, Merge, MergeProvider, MergeNetwork, Laid
    <3>4. Given(config, x) = IF Given(over, x) # None THEN Given(over, x) ELSE Given(base, x)
      BY <3>3 DEF p, n, kind
    <3>5. QED
      BY <3>4
  <2> HIDE DEF InFile, Given, Places, DefaultThere, config
  <2>9. AllValid(over) <=> \A x \in InFile : ~Open(Given(over, x))
    <3>1. ASSUME AllValid(over), NEW x \in InFile PROVE ~Open(Given(over, x))
      BY <2>5, <2>7, <3>1 DEF AllValid
    <3>2. ASSUME \A x \in InFile : ~Open(Given(over, x)) PROVE AllValid(over)
      <4> SUFFICES ASSUME NEW p, NEW n, NEW kind, Has(over, p, n, kind)
                   PROVE  Valid(over.providers[p][n][kind], kind)
        BY DEF AllValid
      <4>1. ~Open(Given(over, <<p, n, kind>>))
        BY <2>6, <3>2
      <4>2. ~Open(over.providers[p][n][kind])
        BY <2>6, <4>1
      <4>3. QED
        BY <2>5, <4>2
    <3>3. QED
      BY <3>1, <3>2
  <2>10. QED
    BY <2>3, <2>4, <2>8, <2>9
<1>2. QED
  BY <1>1, Answers, PTL

(* A file that is named is read or the run fails, whatever other files there *)
(* are; the flag wins over the variable (Load and applyEnvDefaults).         *)
THEOREM NamedFileWins ==
  ASSUME NEW typed, NEW env, NEW searchPaths, NEW files
  PROVE  LET file == Load(FlagValue(typed, env), env, searchPaths, files)
         IN  /\ typed \notin {None, ""} => file = IF typed \in files THEN typed ELSE "error"
             /\ typed \in {None, ""} /\ env # "" => file = IF env \in files THEN env ELSE "error"
  BY DEF Load, FlagValue, Blank

(* The place of the first name of a list that passes a test, 0 when none does. *)
LEMMA FirstIs ==
  ASSUME NEW len \in Nat, NEW I, I \subseteq 1 .. len,
         NEW first, first = IF I # {} THEN Min(I) ELSE 0
  PROVE  \/ first = 0 /\ I = {}
         \/ first \in I /\ \A n \in 1 .. first - 1 : n \notin I
<1>1. CASE I = {}
  BY <1>1
<1>2. CASE I # {}
  <2>1. first \in I /\ \A n \in I : first <= n
    <3>1. I \subseteq Nat
      OBVIOUS
    <3>2. QED
      BY <1>2, <3>1, LeastIs
  <2>2. \A n \in 1 .. first - 1 : n \notin I
    BY <2>1
  <2>3. QED
    BY <2>1, <2>2
<1>3. QED
  BY <1>1, <1>2

(* Load and applyEnvDefaults, with any search paths: which file is read.     *)
THEOREM NamedFilesAreRead == Spec => []NamedFileIsRead
<1>1. Answered => NamedFileIsRead
  <2> DEFINE paths == question.paths
             files == question.files
             I == {n \in 1 .. Len(paths) : paths[n] \in files}
             named == IF question.typed \notin {None, ""} THEN question.typed ELSE question.env
             flag == FlagValue(question.typed, question.env)
             there == SelectInSeq(paths, LAMBDA f : f \in files)
             Unread(n) == paths[n] \notin files
  <2> SUFFICES ASSUME Answered, Of("load")
               PROVE  IF named # "" THEN answer = IF named \in files THEN named ELSE "error"
                      ELSE \/ answer = "defaults" /\ \A n \in DOMAIN paths : Unread(n)
                           \/ \E n \in DOMAIN paths :
                                answer = paths[n] /\ ~Unread(n) /\ \A m \in 1 .. n - 1 : Unread(m)
    BY DEF NamedFileIsRead
  <2>1. paths \in Seq(STRING) /\ answer = Load(flag, question.env, paths, files)
    BY OfIs DEF Of, Answered, ALoad
  <2>2. (IF flag # "" THEN flag ELSE question.env) = named
    BY DEF FlagValue, Blank
  <2>3. answer = IF named # "" THEN IF named \in files THEN named ELSE "error"
                 ELSE IF there = 0 THEN "defaults" ELSE paths[there]
    BY <2>1, <2>2 DEF Load
  <2>4. there = IF I # {} THEN Min(I) ELSE 0
    BY DEF SelectInSeq
  <2>5. Len(paths) \in Nat /\ DOMAIN paths = 1 .. Len(paths)
    BY <2>1
  <2> HIDE DEF named, there
  <2>6. \/ there = 0 /\ I = {}
        \/ there \in I /\ \A n \in 1 .. there - 1 : n \notin I
    <3>1. I \subseteq 1 .. Len(paths)
      OBVIOUS
    <3> HIDE DEF I
    <3>2. QED
      BY <2>4, <2>5, <3>1, FirstIs
  <2>7. CASE there = 0 /\ I = {}
    BY <2>3, <2>5, <2>7
  <2>8. CASE there \in I /\ \A n \in 1 .. there - 1 : n \notin I
    <3>1. there \in DOMAIN paths /\ there # 0 /\ ~Unread(there)
      BY <2>5, <2>8
    <3>2. \A m \in 1 .. there - 1 : Unread(m)
      BY <2>5, <2>8
    <3> HIDE DEF I, Unread
    <3>3. QED
      BY <2>3, <3>1, <3>2
  <2>9. QED
    BY <2>6, <2>7, <2>8
<1>2. QED
  BY <1>1, Answers, PTL
=============================================================================
