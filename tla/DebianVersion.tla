---------------------------- MODULE DebianVersion ----------------------------
(***************************************************************************)
(* The order of Debian versions (internal/apt/version.go), by which        *)
(* daemon-config takes "the highest version". A version is a sequence of   *)
(* characters without blanks, whose epoch is small enough to fit an int.   *)
(* The second half is the definition the order is checked against, the     *)
(* one of deb-version(7), as a key compared lexicographically.             *)
(***************************************************************************)
EXTENDS Integers, Sequences, SequencesExt

CONSTANTS
  Letters,  \* a to z and A to Z
  Code      \* a character that is no digit -> its ASCII code

Digit == [c \in {"0", "1", "2", "3", "4", "5", "6", "7", "8", "9"} |->
            CASE c = "0" -> 0 [] c = "1" -> 1 [] c = "2" -> 2 [] c = "3" -> 3 [] c = "4" -> 4
              [] c = "5" -> 5 [] c = "6" -> 6 [] c = "7" -> 7 [] c = "8" -> 8 [] c = "9" -> 9]

IsDigit(c) == c \in DOMAIN Digit

Characters == (DOMAIN Digit) \cup (DOMAIN Code)

ASSUME CodeAssumption ==
  /\ Code \in [DOMAIN Code -> 1 .. 127]
  /\ Letters \subseteq DOMAIN Code \ {"~"}
  /\ \A c \in DOMAIN Code : ~IsDigit(c)

(* order, of a character that is no digit. *)
Weight(c) == IF c \in Letters THEN Code[c] ELSE IF c = "~" THEN -1 ELSE Code[c] + 256

(* at and order: the end of the text weighs what a digit weighs. *)
AtText(s) == s # <<>> /\ ~IsDigit(s[1])

Order(s) == IF AtText(s) THEN Weight(s[1]) ELSE 0

From(s, n) == SubSeq(s, n, Len(s))

(* The digits or zeros at the beginning, and what follows them. *)
RunLength(s, chars) == LET stop == SelectInSeq(s, LAMBDA c : c \notin chars)
                       IN IF stop = 0 THEN Len(s) ELSE stop - 1
Run(s, chars)      == SubSeq(s, 1, RunLength(s, chars))
AfterRun(s, chars) == From(s, RunLength(s, chars) + 1)

Digits == DOMAIN Digit

FirstDifference(x, y) ==
  LET differ == {n \in 1 .. Len(x) : n <= Len(y) /\ x[n] # y[n]}
  IN IF differ = {} THEN 0
     ELSE LET n == CHOOSE m \in differ : \A o \in differ : m <= o
          IN Digit[x[n]] - Digit[y[n]]

(* Mutant: numbers are compared as text. *)
TextOrder(x, y) == IF FirstDifference(x, y) # 0 THEN FirstDifference(x, y)
                   ELSE Len(x) - Len(y)

(* Two runs of digits without leading zeros: the longer is the larger. *)
NumberOrder(x, y) == IF Len(x) # Len(y) THEN Len(x) - Len(y)
                     ELSE FirstDifference(x, y)

(* compareFragment: what is left of the two texts, and the order once it is *)
(* known. A character of text is passed at a time, or a number.             *)
PassText(s) ==
  IF Order(s.left) # Order(s.right) THEN [s EXCEPT !.order = Order(s.left) - Order(s.right)]
  ELSE [s EXCEPT !.left = Tail(@), !.right = Tail(@)]

PassNumber(s) ==
  LET x == AfterRun(s.left, {"0"})
      y == AfterRun(s.right, {"0"})
  IN [left |-> AfterRun(x, Digits), right |-> AfterRun(y, Digits),
      order |-> NumberOrder(Run(x, Digits), Run(y, Digits))]

Pass(s) ==
  IF s.order # 0 \/ (s.left = <<>> /\ s.right = <<>>) THEN s
  ELSE IF AtText(s.left) \/ AtText(s.right) THEN PassText(s)
  ELSE PassNumber(s)

Passes(a, b) ==
  LET s[n \in 0 .. Len(a) + Len(b)] ==
        IF n = 0 THEN [left |-> a, right |-> b, order |-> 0] ELSE Pass(s[n - 1])
  IN s

CompareFragment(a, b) == Passes(a, b)[Len(a) + Len(b)].order

AllDigits(s) == s # <<>> /\ \A n \in DOMAIN s : IsDigit(s[n])

(* The number that ends at each character. *)
Numbers(s) ==
  LET v[n \in 0 .. Len(s)] == IF n = 0 THEN 0 ELSE IF IsDigit(s[n]) THEN 10 * v[n - 1] + Digit[s[n]] ELSE 0
  IN v

Value(digits) == Numbers(digits)[Len(digits)]

(* strconv.Atoi, which takes a sign. *)
IsInt(s) == AllDigits(s) \/ (s # <<>> /\ s[1] \in {"-", "+"} /\ AllDigits(Tail(s)))
Atoi(s) == IF s[1] = "-" THEN -Value(Tail(s)) ELSE IF s[1] = "+" THEN Value(Tail(s)) ELSE Value(s)

(* strings.Index and strings.LastIndex. *)
Colon(v)  == SelectInSeq(v, LAMBDA c : c = ":")
Hyphen(v) == SelectLastInSeq(v, LAMBDA c : c = "-")

(* splitVersion: a prefix that is no integer stays in the upstream version; *)
(* the revision follows the last hyphen.                                    *)
SplitVersion(v) ==
  LET before == SubSeq(v, 1, Colon(v) - 1)
      epoch  == Colon(v) # 0 /\ IsInt(before)
      text   == IF epoch THEN From(v, Colon(v) + 1) ELSE v
  IN [epoch    |-> IF epoch THEN Atoi(before) ELSE 0,
      upstream |-> IF Hyphen(text) = 0 THEN text ELSE SubSeq(text, 1, Hyphen(text) - 1),
      revision |-> IF Hyphen(text) = 0 THEN <<>> ELSE From(text, Hyphen(text) + 1)]

CompareVersions(a, b) ==
  LET v == SplitVersion(a)
      w == SplitVersion(b)
  IN IF v.epoch # w.epoch THEN IF v.epoch < w.epoch THEN -1 ELSE 1
     ELSE IF CompareFragment(v.upstream, w.upstream) # 0
       THEN CompareFragment(v.upstream, w.upstream)
     ELSE CompareFragment(v.revision, w.revision)

-----------------------------------------------------------------------------
(* What the order is defined to be, by deb-version(7). Characters are       *)
(* compared by ASCII value, "modified so that all the letters sort earlier  *)
(* than all the non-letters and so that a tilde sorts before anything, even *)
(* the end of a part", which has the rank 0.                                *)
Class(c) == CASE c = "~" -> -1 [] c \in Letters -> 0 [] OTHER -> 1
Rank(c)  == 128 * Class(c) + Code[c]

(* A fragment is text and numbers in turn. Its key has the ranks of the     *)
(* text, and for a number the 0 that ends a text and its value; it goes on  *)
(* in zeros.                                                                *)
KeyPart(s, n) ==
  IF ~IsDigit(s[n]) THEN <<Rank(s[n])>>
  ELSE IF n < Len(s) /\ IsDigit(s[n + 1]) THEN <<>>
  ELSE <<0, Numbers(s)[n]>>

Key(s) == FlattenSeq([n \in 1 .. Len(s) |-> KeyPart(s, n)])

At(key, n) == IF n \in DOMAIN key THEN key[n] ELSE 0

Sign(n) == IF n < 0 THEN -1 ELSE IF n > 0 THEN 1 ELSE 0

KeyOrder(k, l) ==
  LET differ == {n \in (DOMAIN k) \cup (DOMAIN l) : At(k, n) # At(l, n)}
  IN IF differ = {} THEN 0
     ELSE LET n == CHOOSE m \in differ : \A o \in differ : m <= o
          IN Sign(At(k, n) - At(l, n))

(* [epoch:]upstream[-revision] with an unsigned epoch. *)
IsVersion(v) == Colon(v) # 0 => AllDigits(SubSeq(v, 1, Colon(v) - 1))

Epoch(v)     == IF Colon(v) = 0 THEN 0 ELSE Value(SubSeq(v, 1, Colon(v) - 1))
Unepoched(v) == From(v, Colon(v) + 1)
Upstream(v)  == LET text == Unepoched(v)
                IN IF Hyphen(text) = 0 THEN text ELSE SubSeq(text, 1, Hyphen(text) - 1)
Revision(v)  == LET text == Unepoched(v)
                IN IF Hyphen(text) = 0 THEN <<>> ELSE From(text, Hyphen(text) + 1)

DpkgOrder(a, b) ==
  LET upstream == KeyOrder(Key(Upstream(a)), Key(Upstream(b)))
  IN IF Epoch(a) # Epoch(b) THEN Sign(Epoch(a) - Epoch(b))
     ELSE IF upstream # 0 THEN upstream
     ELSE KeyOrder(Key(Revision(a)), Key(Revision(b)))
=============================================================================
