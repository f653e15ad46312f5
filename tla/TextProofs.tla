----------------------------- MODULE TextProofs -----------------------------
(***************************************************************************)
(* Versions and names of any length: CompareVersions orders as dpkg does,  *)
(* Prefix and newestDump answer what they should of the names a template   *)
(* renders. What is computed character by character, or part by part, is a *)
(* recursive function over the positions, and what holds of all of its     *)
(* values is proved by induction on the position.                          *)
(***************************************************************************)
EXTENDS QuestionProofs, FiniteSetTheorems

(* There is a function that begins with first and goes on as R says. *)
Recurs(f, S, first, N, R) ==
  f \in [0 .. N -> S] /\ f[0] = first /\ \A n \in 1 .. N : f[n] = R[<<n, f[n - 1]>>]

(* A recursion over the positions of a sequence has a solution. *)
LEMMA RecursionIs ==
  ASSUME NEW S, NEW first \in S, NEW N \in Nat, NEW R \in [(1 .. N) \X S -> S]
  PROVE  \E f : Recurs(f, S, first, N, R)
<1> DEFINE Upto(m, f) == f \in [0 .. m -> S] /\ f[0] = first /\ \A n \in 1 .. m : f[n] = R[<<n, f[n - 1]>>]
           have == {m \in Nat : m <= N => \E f : Upto(m, f)}
<1>1. 0 \in have
  <2> DEFINE f == [n \in 0 .. 0 |-> first]
  <2>1. Upto(0, f)
    OBVIOUS
  <2>2. QED
    BY <2>1
<1>2. ASSUME NEW m \in Nat, m \in have PROVE m + 1 \in have
  <2> SUFFICES ASSUME m + 1 <= N PROVE \E f : Upto(m + 1, f)
    OBVIOUS
  <2>1. PICK f : Upto(m, f)
    BY <1>2
  <2>2. f[m] \in S /\ R[<<m + 1, f[m]>>] \in S
    BY <2>1
  <2> DEFINE g == [n \in 0 .. m + 1 |-> IF n = m + 1 THEN R[<<m + 1, f[m]>>] ELSE f[n]]
  <2>3. g \in [0 .. m + 1 -> S] /\ g[0] = first
    BY <2>1, <2>2
  <2>4. ASSUME NEW n \in 1 .. m + 1 PROVE g[n] = R[<<n, g[n - 1]>>]
    <3>1. CASE n = m + 1
      <4>1. g[n] = R[<<n, f[m]>>] /\ n - 1 = m /\ m \in 0 .. m + 1 /\ m # m + 1
        BY <3>1
      <4>2. g[n - 1] = f[m]
        BY <4>1
      <4>3. QED
        BY <4>1, <4>2
    <3>2. CASE n # m + 1
      <4>1. n \in 1 .. m /\ g[n] = f[n] /\ g[n - 1] = f[n - 1]
        BY <3>2
      <4>2. f[n] = R[<<n, f[n - 1]>>]
        BY <2>1, <4>1
      <4>3. QED
        BY <4>1, <4>2
    <3>3. QED
      BY <3>1, <3>2
  <2> HIDE DEF g
  <2>5. QED
    BY <2>3, <2>4
<1>3. N \in have
  <2> HIDE DEF have
  <2>1. QED
    BY <1>1, <1>2, NatsFromZero
<1>4. QED
  BY <1>3 DEF Recurs

-----------------------------------------------------------------------------
(* FlattenSeq, as a function of the number of sequences it has taken. *)
Flattens(f, seqs) ==
  /\ f[0] = <<>>
  /\ \A n \in 1 .. Len(seqs) : f[n] = f[n - 1] \o seqs[n]

(* FlattenSeq joins its parts one after the other, from the left. *)
LEMMA FlattenIs ==
  ASSUME NEW T, NEW seqs \in Seq(Seq(T))
  PROVE  \E f \in [0 .. Len(seqs) -> Seq(T)] : Flattens(f, seqs) /\ FlattenSeq(seqs) = f[Len(seqs)]
<1> DEFINE N == Len(seqs)
           R == [nx \in (1 .. N) \X Seq(T) |-> nx[2] \o seqs[nx[1]]]
           Is(f) == f = [i \in 1 .. N |-> IF i = 1 THEN seqs[i] ELSE f[i - 1] \o seqs[i]]
<1>1. N \in Nat /\ \A n \in 1 .. N : seqs[n] \in Seq(T)
  OBVIOUS
<1>2. R \in [(1 .. N) \X Seq(T) -> Seq(T)]
  BY <1>1
<1>3. PICK f \in [0 .. N -> Seq(T)] : f[0] = <<>> /\ \A n \in 1 .. N : f[n] = R[<<n, f[n - 1]>>]
  <2> DEFINE S == Seq(T)
             first == <<>>
  <2>1. first \in S
    OBVIOUS
  <2>2. N \in Nat /\ R \in [(1 .. N) \X S -> S]
    BY <1>1, <1>2
  <2> HIDE DEF R, N, S, first
  <2>3. PICK f : Recurs(f, S, first, N, R)
    BY <2>1, <2>2, RecursionIs
  <2>4. QED
    BY <2>3 DEF Recurs, S, first
<1>4. \A n \in 1 .. N : f[n] = f[n - 1] \o seqs[n]
  <2> SUFFICES ASSUME NEW n \in 1 .. N PROVE f[n] = f[n - 1] \o seqs[n]
    OBVIOUS
  <2> DEFINE k == n - 1
  <2>1. k \in 0 .. N
    BY <1>1
  <2>2. f[n] = R[<<n, f[k]>>]
    BY <1>3
  <2> HIDE DEF k
  <2>3. f[k] \in Seq(T)
    BY <1>3, <2>1
  <2>4. R[<<n, f[k]>>] = f[k] \o seqs[n]
    BY <2>3
  <2>5. QED
    BY <2>2, <2>4 DEF k
<1>5. Flattens(f, seqs)
  BY <1>3, <1>4 DEF Flattens
<1>6. CASE N = 0
  <2>1. FlattenSeq(seqs) = seqs /\ seqs = <<>>
    BY <1>6 DEF FlattenSeq
  <2>2. QED
    BY <1>3, <1>5, <1>6, <2>1
<1>7. CASE N # 0
  <2> DEFINE g == [i \in 1 .. N |-> f[i]]
  <2>1. \A i \in 1 .. N : g[i] = IF i = 1 THEN seqs[i] ELSE g[i - 1] \o seqs[i]
    <3> SUFFICES ASSUME NEW i \in 1 .. N PROVE g[i] = IF i = 1 THEN seqs[i] ELSE g[i - 1] \o seqs[i]
      OBVIOUS
    <3>1. CASE i = 1
      <4>1. f[1] = f[0] \o seqs[1]
        <5>1. 1 - 1 = 0 /\ 1 \in 1 .. N
          BY <3>1
        <5>2. f[1] = f[1 - 1] \o seqs[1]
          BY <1>4, <5>1
        <5>3. QED
          BY <5>1, <5>2
      <4>2. <<>> \o seqs[1] = seqs[1]
        <5>1. seqs[1] \in Seq(T)
          BY <1>1, <3>1
        <5>2. QED
          BY <5>1, ConcatEmptySeq
      <4>3. QED
        <5>1. f[1] = seqs[1]
          BY <1>3, <4>1, <4>2
        <5>2. g[1] = f[1]
          BY <3>1
        <5> HIDE DEF g
        <5>3. QED
          BY <3>1, <5>1, <5>2
    <3>2. CASE i # 1
      <4>1. f[i] = f[i - 1] \o seqs[i]
        BY <1>4
      <4>2. i - 1 \in 1 .. N
        BY <1>1, <3>2
      <4>3. QED
        BY <3>2, <4>1, <4>2
    <3>3. QED
      BY <3>1, <3>2
  <2>2. Is(g)
    <3>1. g = [i \in 1 .. N |-> g[i]]
      OBVIOUS
    <3> HIDE DEF g
    <3>2. QED
      BY <2>1, <3>1
  <2> HIDE DEF g, Is
  <2>3. Is(CHOOSE h : Is(h))
    BY <2>2
  <2> DEFINE h == CHOOSE h : Is(h)
  <2>4. FlattenSeq(seqs) = h[N]
    BY <1>7 DEF FlattenSeq, Is
  <2>5. \A i \in 1 .. N : h[i] = IF i = 1 THEN seqs[i] ELSE h[i - 1] \o seqs[i]
    <3> HIDE DEF h
    <3>1. Is(h)
      BY <2>3 DEF h
    <3>2. QED
      BY <3>1 DEF Is
  <2> HIDE DEF h
  <2> DEFINE same == {n \in Nat : n + 1 \in 1 .. N => h[n + 1] = g[n + 1]}
  <2>6. 0 \in same
    BY <2>1, <2>5
  <2>7. ASSUME NEW n \in Nat, n \in same PROVE n + 1 \in same
    <3> SUFFICES ASSUME (n + 1) + 1 \in 1 .. N PROVE h[(n + 1) + 1] = g[(n + 1) + 1]
      OBVIOUS
    <3> DEFINE i == (n + 1) + 1
    <3>1. i \in 1 .. N /\ i # 1 /\ i - 1 = n + 1 /\ n + 1 \in 1 .. N
      BY <1>1
    <3>2. h[i - 1] = g[i - 1]
      BY <2>7, <3>1
    <3> HIDE DEF i
    <3>3. h[i] = g[i]
      BY <2>1, <2>5, <3>1, <3>2
    <3>4. QED
      BY <3>3 DEF i
  <2>8. N - 1 \in same
    <3> HIDE DEF same
    <3>1. N - 1 \in Nat
      BY <1>1, <1>7
    <3>2. QED
      BY <2>6, <2>7, <3>1, NatsFromZero
  <2>9. (N - 1) + 1 = N /\ N \in 1 .. N
    BY <1>1, <1>7
  <2>10. h[N] = g[N]
    BY <2>8, <2>9
  <2>11. QED
    BY <1>5, <2>4, <2>9, <2>10 DEF g
<1>8. QED
  BY <1>6, <1>7

(* Such a function is given by its sequences. *)
LEMMA FlattensSame ==
  ASSUME NEW seqs, Len(seqs) \in Nat, NEW f, NEW g, Flattens(f, seqs), Flattens(g, seqs)
  PROVE  f[Len(seqs)] = g[Len(seqs)]
<1> DEFINE N == Len(seqs)
           same == {n \in Nat : n <= N => f[n] = g[n]}
<1>1. 0 \in same
  BY DEF Flattens
<1>2. ASSUME NEW n \in Nat, n \in same PROVE n + 1 \in same
  <2> SUFFICES ASSUME n + 1 <= N PROVE f[n + 1] = g[n + 1]
    OBVIOUS
  <2> DEFINE m == n + 1
  <2>1. m \in 1 .. N /\ m - 1 = n /\ f[n] = g[n]
    BY <1>2
  <2> HIDE DEF m
  <2>2. f[m] = f[m - 1] \o seqs[m] /\ g[m] = g[m - 1] \o seqs[m]
    BY <2>1 DEF Flattens
  <2>3. f[m] = g[m]
    BY <2>1, <2>2
  <2>4. QED
    BY <2>3 DEF m
<1>3. N \in same
  <2> HIDE DEF same
  <2>1. QED
    BY <1>1, <1>2, NatsFromZero
<1>4. QED
  BY <1>3

(* Concatenation is associative. *)
LEMMA Regroup ==
  ASSUME NEW T, NEW x \in Seq(T), NEW y \in Seq(T), NEW z \in Seq(T)
  PROVE  x \o (y \o z) = (x \o y) \o z
BY ConcatAssociative, SMTT(30)

(* Parts of parts: FlattenSeq distributes over concatenation. *)
LEMMA FlattenConcat ==
  ASSUME NEW T, NEW p \in Seq(Seq(T)), NEW q \in Seq(Seq(T))
  PROVE  /\ FlattenSeq(p) \in Seq(T)
         /\ FlattenSeq(p \o q) = FlattenSeq(p) \o FlattenSeq(q)
<1> DEFINE M == Len(p)
           N == Len(q)
           r == p \o q
<1>1. M \in Nat /\ N \in Nat /\ M \in 0 .. M /\ N \in 0 .. N
  OBVIOUS
<1>2. /\ r \in Seq(Seq(T)) /\ Len(r) = M + N
      /\ \A n \in 1 .. M : r[n] = p[n]
      /\ \A n \in M + 1 .. M + N : r[n] = q[n - M]
      /\ \A n \in 1 .. N : q[n] \in Seq(T)
  OBVIOUS
<1>3. PICK f \in [0 .. M -> Seq(T)] : Flattens(f, p) /\ FlattenSeq(p) = f[M]
  BY FlattenIs
<1>4. PICK g \in [0 .. N -> Seq(T)] : Flattens(g, q) /\ FlattenSeq(q) = g[N]
  BY FlattenIs
<1> HIDE DEF r
<1>5. PICK h : Flattens(h, r) /\ FlattenSeq(r) = h[Len(r)]
  BY <1>2, FlattenIs
<1> DEFINE k == [n \in 0 .. M + N |-> IF n <= M THEN f[n] ELSE f[M] \o g[n - M]]
<1> HIDE DEF M, N
<1>fM. f[M] \in Seq(T)
  BY <1>1, <1>3
<1>6. k[0] = <<>>
  BY <1>1, <1>3 DEF Flattens
<1>7. ASSUME NEW n \in 1 .. M + N PROVE k[n] = k[n - 1] \o r[n]
  <2>0. n \in 0 .. M + N /\ n - 1 \in 0 .. M + N
    BY <1>1
  <2>1. CASE n <= M
    <3>1. n \in 1 .. M /\ n - 1 <= M
      BY <1>1, <2>1
    <3>2. f[n] = f[n - 1] \o p[n]
      BY <1>3, <3>1 DEF Flattens, M
    <3>3. k[n] = f[n] /\ k[n - 1] = f[n - 1]
      BY <2>0, <2>1, <3>1
    <3> HIDE DEF k
    <3>4. QED
      BY <1>2, <3>1, <3>2, <3>3
  <2>2. CASE n > M
    <3> DEFINE m == n - M
    <3>1. m \in 1 .. N /\ n - 1 - M = m - 1 /\ n \in M + 1 .. M + N /\ ~(n <= M) /\ m - 1 \in 0 .. N /\ m \in 0 .. N
      BY <1>1, <2>2
    <3>2. k[n] = f[M] \o g[m]
      BY <2>0, <3>1
    <3>3. k[n - 1] = f[M] \o g[m - 1]
      <4>1. CASE n - 1 = M
        <5>1. k[n - 1] = f[M] /\ m = 1
          BY <1>1, <2>0, <4>1
        <5>2. g[m - 1] = <<>>
          BY <1>4, <5>1 DEF Flattens
        <5>3. f[M] \o <<>> = f[M]
          BY <1>fM, ConcatEmptySeq
        <5> HIDE DEF k, m
        <5>4. QED
          BY <5>1, <5>2, <5>3
      <4>2. CASE n - 1 # M
        <5>1. n - 1 \in 0 .. M + N /\ ~(n - 1 <= M)
          BY <1>1, <2>2, <4>2
        <5>2. k[n - 1] = f[M] \o g[n - 1 - M]
          BY <5>1
        <5> HIDE DEF k, m
        <5>3. QED
          BY <3>1, <5>2
      <4>3. QED
        BY <4>1, <4>2
    <3> HIDE DEF k
    <3>5. r[n] = q[m]
      BY <1>2, <3>1
    <3> HIDE DEF m
    <3>4. g[m] = g[m - 1] \o q[m]
      BY <1>4, <3>1 DEF Flattens, N
    <3>6. g[m - 1] \in Seq(T) /\ q[m] \in Seq(T)
      <4> DEFINE l == m - 1
      <4>1. l \in 0 .. N
        BY <3>1
      <4> HIDE DEF l
      <4>2. g[l] \in Seq(T)
        BY <1>4, <4>1
      <4>3. QED
        BY <1>2, <3>1, <4>2 DEF l
    <3>7. f[M] \o (g[m - 1] \o q[m]) = (f[M] \o g[m - 1]) \o q[m]
      <4> DEFINE x == f[M]
                 y == g[m - 1]
                 z == q[m]
      <4>1. x \in Seq(T) /\ y \in Seq(T) /\ z \in Seq(T)
        BY <1>fM, <3>6
      <4> HIDE DEF x, y, z
      <4>2. x \o (y \o z) = (x \o y) \o z
        BY <4>1, Regroup, SMTT(30)
      <4>3. QED
        BY <4>2 DEF x, y, z
    <3>8. QED
      BY <3>2, <3>3, <3>4, <3>5, <3>7
  <2>3. n <= M \/ n > M
    BY <1>1
  <2>4. QED
    BY <2>1, <2>2, <2>3
<1>8. k[M + N] = f[M] \o g[N]
  <2>1. CASE N = 0
    <3>1. M + N \in 0 .. M + N /\ M + N <= M /\ M + N = M
      BY <1>1, <2>1
    <3>2. k[M + N] = f[M]
      BY <3>1
    <3>3. g[N] = <<>>
      BY <1>4, <2>1 DEF Flattens
    <3>4. f[M] \o <<>> = f[M]
      BY <1>fM, ConcatEmptySeq
    <3> HIDE DEF k
    <3>5. QED
      BY <3>2, <3>3, <3>4
  <2>2. CASE N # 0
    <3>1. M + N \in 0 .. M + N /\ ~(M + N <= M) /\ (M + N) - M = N
      BY <1>1, <2>2
    <3>2. k[M + N] = f[M] \o g[(M + N) - M]
      BY <3>1
    <3> HIDE DEF k
    <3>3. QED
      BY <3>1, <3>2
  <2>3. QED
    BY <2>1, <2>2
<1> HIDE DEF k
<1>9. Flattens(k, r)
  BY <1>2, <1>6, <1>7 DEF Flattens
<1>10. k[Len(r)] = h[Len(r)]
  <2>1. Len(r) \in Nat
    BY <1>1, <1>2
  <2>2. QED
    BY <1>5, <1>9, <2>1, FlattensSame
<1>11. FlattenSeq(p) \in Seq(T)
  BY <1>3, <1>fM
<1>12. FlattenSeq(r) = FlattenSeq(p) \o FlattenSeq(q)
  BY <1>2, <1>3, <1>4, <1>5, <1>8, <1>10
<1>13. QED
  BY <1>11, <1>12 DEF r

(* No parts make nothing. *)
LEMMA FlattenEmpty == FlattenSeq(<<>>) = <<>>
BY DEF FlattenSeq

(* One part makes itself. *)
LEMMA FlattenOne ==
  ASSUME NEW T, NEW s \in Seq(T)
  PROVE  FlattenSeq(<<s>>) = s
<1> DEFINE p == <<s>>
<1>1. p \in Seq(Seq(T)) /\ Len(p) = 1 /\ p[1] = s
  OBVIOUS
<1> HIDE DEF p
<1>2. PICK f : Flattens(f, p) /\ FlattenSeq(p) = f[Len(p)]
  BY <1>1, FlattenIs
<1>3. f[0] = <<>> /\ f[1] = f[0] \o s
  <2>1. 1 \in 1 .. Len(p) /\ 1 - 1 = 0
    BY <1>1
  <2>2. f[1] = f[1 - 1] \o p[1]
    BY <1>2, <2>1 DEF Flattens
  <2>3. QED
    BY <1>1, <1>2, <2>1, <2>2 DEF Flattens
<1>4. <<>> \o s = s
  BY ConcatEmptySeq
<1>5. QED
  BY <1>1, <1>2, <1>3, <1>4 DEF p

-----------------------------------------------------------------------------
(* Versions. The digits, and the number they come to. *)
LEMMA DigitIs ==
  /\ Digit \in [Digits -> 0 .. 9] /\ Digit["0"] = 0
  /\ \A c, d \in Digits : Digit[c] = Digit[d] => c = d
  /\ \A c \in Digits : Digit[c] = 0 => c = "0"
  /\ "-" \notin Digits /\ "+" \notin Digits /\ ":" \notin Digits
<1>1. DOMAIN Digit = {"0", "1", "2", "3", "4", "5", "6", "7", "8", "9"}
  BY DEF Digit
<1>2. /\ Digit["0"] = 0 /\ Digit["1"] = 1 /\ Digit["2"] = 2 /\ Digit["3"] = 3 /\ Digit["4"] = 4
      /\ Digit["5"] = 5 /\ Digit["6"] = 6 /\ Digit["7"] = 7 /\ Digit["8"] = 8 /\ Digit["9"] = 9
  BY DEF Digit
<1>3. Digit = [c \in Digits |-> Digit[c]]
  BY DEF Digit, Digits
<1> HIDE DEF Digit
<1>4. QED
  BY <1>1, <1>2, <1>3 DEF Digits

(* What Numbers has at each place: the number of the digits that end there. *)
LEMMA NumbersAre ==
  ASSUME NEW s \in Seq(Characters)
  PROVE  /\ Numbers(s)[0] = 0
         /\ \A n \in 0 .. Len(s) : Numbers(s)[n] \in Nat
         /\ \A n \in 1 .. Len(s) :
              Numbers(s)[n] = IF IsDigit(s[n]) THEN 10 * Numbers(s)[n - 1] + Digit[s[n]] ELSE 0
<1> DEFINE N == Len(s)
           first == 0
           S == Nat
           R == [nx \in (1 .. N) \X Nat |-> IF IsDigit(s[nx[1]]) THEN 10 * nx[2] + Digit[s[nx[1]]] ELSE 0]
           Is(v) == v = [n \in 0 .. N |-> IF n = 0 THEN 0 ELSE IF IsDigit(s[n]) THEN 10 * v[n - 1] + Digit[s[n]] ELSE 0]
<1>1. N \in Nat /\ first \in S
  OBVIOUS
<1>2. R \in [(1 .. N) \X S -> S]
  <2>1. ASSUME NEW n \in 1 .. N, NEW x \in Nat, IsDigit(s[n]) PROVE 10 * x + Digit[s[n]] \in Nat
    <3>1. Digit[s[n]] \in Nat
      BY <2>1, DigitIs DEF IsDigit, Digits
    <3>2. QED
      BY <3>1
  <2>2. QED
    BY <2>1
<1>3. PICK f : Recurs(f, S, first, N, R)
  <2> HIDE DEF R, N, S, first
  <2>1. QED
    BY <1>1, <1>2, RecursionIs
<1>4. f \in [0 .. N -> Nat] /\ f[0] = 0 /\ \A n \in 1 .. N : f[n] = R[<<n, f[n - 1]>>]
  BY <1>3 DEF Recurs
<1>5. ASSUME NEW n \in 1 .. N
      PROVE  f[n] = IF IsDigit(s[n]) THEN 10 * f[n - 1] + Digit[s[n]] ELSE 0
  <2> DEFINE k == n - 1
  <2>1. k \in 0 .. N
    BY <1>1
  <2>2. f[n] = R[<<n, f[k]>>]
    BY <1>4
  <2> HIDE DEF k
  <2>3. f[k] \in Nat
    BY <1>4, <2>1
  <2>4. R[<<n, f[k]>>] = IF IsDigit(s[n]) THEN 10 * f[k] + Digit[s[n]] ELSE 0
    BY <2>3
  <2>5. QED
    BY <2>2, <2>4 DEF k
<1>6. Is(f)
  <2>1. ASSUME NEW n \in 0 .. N
        PROVE  f[n] = IF n = 0 THEN 0 ELSE IF IsDigit(s[n]) THEN 10 * f[n - 1] + Digit[s[n]] ELSE 0
    <3>1. CASE n = 0
      BY <1>4, <3>1
    <3>2. CASE n # 0
      <4>1. n \in 1 .. N
        BY <1>1, <3>2
      <4>2. QED
        BY <1>5, <3>2, <4>1
    <3>3. QED
      BY <3>1, <3>2
  <2>2. f = [n \in 0 .. N |-> f[n]]
    BY <1>4
  <2>3. QED
    BY <2>1, <2>2
<1> DEFINE v == CHOOSE v : Is(v)
<1>7. Is(v)
  <2> HIDE DEF Is
  <2>1. QED
    BY <1>6
<1>8. Numbers(s) = v
  BY DEF Numbers
<1> HIDE DEF v
<1>9. /\ v[0] = 0
      /\ \A n \in 1 .. N : v[n] = IF IsDigit(s[n]) THEN 10 * v[n - 1] + Digit[s[n]] ELSE 0
  <2>1. v[0] = 0
    BY <1>1, <1>7
  <2>2. ASSUME NEW n \in 1 .. N
        PROVE  v[n] = IF IsDigit(s[n]) THEN 10 * v[n - 1] + Digit[s[n]] ELSE 0
    <3>1. n \in 0 .. N /\ n # 0
      BY <1>1
    <3>2. QED
      BY <1>7, <3>1
  <2>3. QED
    BY <2>1, <2>2
<1> DEFINE nats == {n \in Nat : n \in 0 .. N => v[n] \in Nat}
<1>10. 0 \in nats
  BY <1>9
<1>11. ASSUME NEW n \in Nat, n \in nats PROVE n + 1 \in nats
  <2> DEFINE m == n + 1
  <2> SUFFICES ASSUME m \in 0 .. N PROVE v[m] \in Nat
    OBVIOUS
  <2>1. m \in 1 .. N /\ m - 1 = n /\ v[n] \in Nat
    BY <1>1, <1>11
  <2> HIDE DEF m
  <2>2. v[m] = IF IsDigit(s[m]) THEN 10 * v[n] + Digit[s[m]] ELSE 0
    BY <1>9, <2>1
  <2>3. IsDigit(s[m]) => Digit[s[m]] \in Nat
    BY DigitIs DEF IsDigit, Digits
  <2>4. QED
    BY <2>1, <2>2, <2>3
<1>12. Nat \subseteq nats
  <2> HIDE DEF nats
  <2>1. QED
    BY <1>10, <1>11, NatsFromZero
<1>13. QED
  BY <1>8, <1>9, <1>12

(* What the digits of a run count to, one after the other, are naturals. *)
LEMMA DigitsCount ==
  ASSUME NEW x \in Seq(Digits)
  PROVE  /\ x \in Seq(Characters) /\ Value(x) \in Nat
         /\ Numbers(x)[0] = 0
         /\ \A n \in 0 .. Len(x) : Numbers(x)[n] \in Nat
         /\ \A n \in 1 .. Len(x) : Numbers(x)[n] = 10 * Numbers(x)[n - 1] + Digit[x[n]]
<1>1. x \in Seq(Characters)
  BY DEF Characters, Digits
<1>2. /\ Numbers(x)[0] = 0
      /\ \A n \in 0 .. Len(x) : Numbers(x)[n] \in Nat
      /\ \A n \in 1 .. Len(x) :
           Numbers(x)[n] = IF IsDigit(x[n]) THEN 10 * Numbers(x)[n - 1] + Digit[x[n]] ELSE 0
  BY <1>1, NumbersAre
<1>3. \A n \in 1 .. Len(x) : IsDigit(x[n])
  BY DEF IsDigit, Digits
<1>4. Value(x) \in Nat
  BY <1>2 DEF Value
<1>5. QED
  BY <1>1, <1>2, <1>3, <1>4

(* Of two numbers the larger stays the larger with a digit more. *)
LEMMA OneMoreDigit ==
  ASSUME NEW p \in Nat, NEW q \in Nat, p > q, NEW c \in 0 .. 9, NEW d \in 0 .. 9
  PROVE  10 * p + c > 10 * q + d /\ 10 * p + c > 0
OBVIOUS

(* A number that is larger so far stays larger. *)
LEMMA StaysAhead ==
  ASSUME NEW x \in Seq(Digits), NEW y \in Seq(Digits), NEW k \in Nat, Len(x) = Len(y) + k,
         NEW i \in 0 .. Len(y), Numbers(x)[i + k] > Numbers(y)[i]
  PROVE  Value(x) > Value(y)
<1> DEFINE v == Numbers(x)
           w == Numbers(y)
           ahead == {n \in Nat : i + n <= Len(y) => v[i + n + k] > w[i + n]}
<1>1. /\ \A n \in 0 .. Len(x) : v[n] \in Nat
      /\ \A n \in 1 .. Len(x) : v[n] = 10 * v[n - 1] + Digit[x[n]]
  BY DigitsCount
<1>2. /\ \A n \in 0 .. Len(y) : w[n] \in Nat
      /\ \A n \in 1 .. Len(y) : w[n] = 10 * w[n - 1] + Digit[y[n]]
  BY DigitsCount
<1>3. Len(x) \in Nat /\ Len(y) \in Nat
  OBVIOUS
<1>v. Value(x) = v[Len(x)] /\ Value(y) = w[Len(y)]
  BY DEF Value
<1>i. v[i + k] > w[i]
  OBVIOUS
<1> HIDE DEF v, w
<1>4. 0 \in ahead
  BY <1>i
<1>5. ASSUME NEW n \in Nat, n \in ahead PROVE n + 1 \in ahead
  <2> DEFINE b == i + n + 1
             a == b + k
  <2> SUFFICES ASSUME b <= Len(y) PROVE v[a] > w[b]
    OBVIOUS
  <2>1. /\ b \in 1 .. Len(y) /\ a \in 1 .. Len(x) /\ b - 1 \in 0 .. Len(y) /\ a - 1 \in 0 .. Len(x)
        /\ b - 1 = i + n /\ a - 1 = i + n + k
    BY <1>3
  <2>2. v[a - 1] > w[b - 1]
    BY <1>5, <2>1
  <2> HIDE DEF a, b
  <2>3. v[a] = 10 * v[a - 1] + Digit[x[a]] /\ w[b] = 10 * w[b - 1] + Digit[y[b]]
    BY <1>1, <1>2, <2>1
  <2>4. x[a] \in Digits /\ y[b] \in Digits
    BY <2>1
  <2>5. Digit[x[a]] \in 0 .. 9 /\ Digit[y[b]] \in 0 .. 9
    BY <2>4, DigitIs
  <2>6. v[a - 1] \in Nat /\ w[b - 1] \in Nat
    BY <1>1, <1>2, <2>1
  <2>7. 10 * v[a - 1] + Digit[x[a]] > 10 * w[b - 1] + Digit[y[b]]
    BY <2>2, <2>5, <2>6, OneMoreDigit
  <2>8. QED
    BY <2>3, <2>7
<1>6. Len(y) - i \in ahead
  <2> HIDE DEF ahead
  <2>1. Len(y) - i \in Nat
    BY <1>3
  <2>2. QED
    BY <1>4, <1>5, <2>1, NatsFromZero
<1>7. i + (Len(y) - i) = Len(y) /\ i + (Len(y) - i) + k = Len(x)
  BY <1>3
<1>8. v[Len(x)] > w[Len(y)]
  BY <1>3, <1>6, <1>7
<1>9. QED
  BY <1>v, <1>8

(* No leading zero. *)
Plain(x) == x \in Seq(Digits) /\ (x # <<>> => x[1] # "0")

(* Without leading zeros, what the digits count to is never 0. *)
LEMMA PlainIsPositive ==
  ASSUME NEW x, Plain(x), NEW n \in 1 .. Len(x)
  PROVE  Numbers(x)[n] > 0
<1> DEFINE v == Numbers(x)
           positive == {m \in Nat : m + 1 \in 1 .. Len(x) => v[m + 1] > 0}
<1>1. x \in Seq(Digits) /\ Len(x) \in Nat /\ x[1] \in Digits /\ x[1] # "0"
  BY DEF Plain
<1>2. /\ v[0] = 0 /\ \A m \in 0 .. Len(x) : v[m] \in Nat
      /\ \A m \in 1 .. Len(x) : v[m] = 10 * v[m - 1] + Digit[x[m]]
  BY <1>1, DigitsCount
<1> HIDE DEF v
<1>3. 0 \in positive
  <2>1. v[1] = 10 * v[0] + Digit[x[1]]
    <3>1. 1 \in 1 .. Len(x) /\ 1 - 1 = 0
      BY <1>1
    <3>2. v[1] = 10 * v[1 - 1] + Digit[x[1]]
      BY <1>2, <3>1
    <3>3. QED
      BY <3>1, <3>2
  <2>2. Digit[x[1]] \in 1 .. 9
    <3>1. Digit[x[1]] \in 0 .. 9 /\ Digit[x[1]] # 0
      BY <1>1, DigitIs
    <3>2. QED
      BY <3>1
  <2>3. v[1] > 0
    BY <1>2, <2>1, <2>2
  <2>4. QED
    BY <2>3
<1>4. ASSUME NEW m \in Nat, m \in positive PROVE m + 1 \in positive
  <2> DEFINE a == (m + 1) + 1
  <2> SUFFICES ASSUME a \in 1 .. Len(x) PROVE v[a] > 0
    OBVIOUS
  <2>1. a - 1 = m + 1 /\ m + 1 \in 1 .. Len(x) /\ m + 1 \in 0 .. Len(x)
    BY <1>1
  <2>2. v[a - 1] > 0 /\ v[a - 1] \in Nat
    BY <1>2, <1>4, <2>1
  <2> HIDE DEF a
  <2>3. v[a] = 10 * v[a - 1] + Digit[x[a]] /\ x[a] \in Digits
    BY <1>1, <1>2
  <2>4. Digit[x[a]] \in 0 .. 9
    BY <2>3, DigitIs
  <2>5. 10 * v[a - 1] + Digit[x[a]] > 0
    <3>1. 0 \in Nat /\ 0 \in 0 .. 9
      OBVIOUS
    <3>2. QED
      BY <2>2, <2>4, <3>1, OneMoreDigit
  <2>6. QED
    BY <2>3, <2>5
<1>5. n - 1 \in positive
  <2> HIDE DEF positive
  <2>1. n - 1 \in Nat
    BY <1>1
  <2>2. QED
    BY <1>3, <1>4, <2>1, NatsFromZero
<1>6. (n - 1) + 1 = n
  BY <1>1
<1>7. QED
  BY <1>5, <1>6 DEF v

(* Of two such numbers the one with more digits is the larger. *)
LEMMA LongerIsLarger ==
  ASSUME NEW x, NEW y, Plain(x), Plain(y), Len(x) > Len(y)
  PROVE  Value(x) > Value(y)
<1>1. x \in Seq(Digits) /\ y \in Seq(Digits) /\ Len(x) \in Nat /\ Len(y) \in Nat
  BY DEF Plain
<1> DEFINE k == Len(x) - Len(y)
<1>2. k \in Nat /\ k \in 1 .. Len(x) /\ Len(x) = Len(y) + k /\ 0 \in 0 .. Len(y) /\ 0 + k = k
  BY <1>1
<1> HIDE DEF k
<1>3. Numbers(x)[k] > 0
  BY <1>2, PlainIsPositive
<1>4. Numbers(y)[0] = 0
  BY <1>1, DigitsCount
<1>5. Numbers(x)[0 + k] > Numbers(y)[0]
  BY <1>2, <1>3, <1>4
<1>6. QED
  BY <1>1, <1>2, <1>5, StaysAhead

(* Two texts that begin alike count alike so far. *)
LEMMA SameSoFar ==
  ASSUME NEW x \in Seq(Characters), NEW y \in Seq(Characters), NEW n \in 0 .. Len(x), n <= Len(y),
         \A m \in 1 .. n : x[m] = y[m]
  PROVE  Numbers(x)[n] = Numbers(y)[n]
<1> DEFINE v == Numbers(x)
           w == Numbers(y)
           same == {m \in Nat : m <= n => v[m] = w[m]}
<1>1. /\ v[0] = 0
      /\ \A m \in 1 .. Len(x) : v[m] = IF IsDigit(x[m]) THEN 10 * v[m - 1] + Digit[x[m]] ELSE 0
  BY NumbersAre
<1>2. /\ w[0] = 0
      /\ \A m \in 1 .. Len(y) : w[m] = IF IsDigit(y[m]) THEN 10 * w[m - 1] + Digit[y[m]] ELSE 0
  BY NumbersAre
<1> HIDE DEF v, w
<1>3. 0 \in same
  BY <1>1, <1>2
<1>4. ASSUME NEW m \in Nat, m \in same PROVE m + 1 \in same
  <2> DEFINE a == m + 1
  <2> SUFFICES ASSUME a <= n PROVE v[a] = w[a]
    OBVIOUS
  <2>1. a - 1 = m /\ a \in 1 .. n /\ a \in 1 .. Len(x) /\ a \in 1 .. Len(y) /\ v[m] = w[m]
    BY <1>4
  <2> HIDE DEF a
  <2>2. v[a - 1] = w[a - 1] /\ x[a] = y[a]
    BY <2>1
  <2>3. QED
    BY <1>1, <1>2, <2>1, <2>2
<1>5. n \in same
  <2> HIDE DEF same
  <2>1. QED
    BY <1>3, <1>4, NatsFromZero
<1>6. QED
  BY <1>5 DEF v, w

(* FirstDifference is 0, or the difference of two digits at the first place. *)
LEMMA FirstDifferenceIs ==
  ASSUME NEW x \in Seq(Digits), NEW y \in Seq(Digits), Len(x) = Len(y)
  PROVE  \/ FirstDifference(x, y) = 0 /\ x = y
         \/ \E n \in 1 .. Len(x) :
              /\ FirstDifference(x, y) = Digit[x[n]] - Digit[y[n]]
              /\ x[n] # y[n] /\ \A m \in 1 .. n - 1 : x[m] = y[m]
<1> DEFINE differ == {n \in 1 .. Len(x) : n <= Len(y) /\ x[n] # y[n]}
<1>1. Len(x) \in Nat
  OBVIOUS
<1>2. CASE differ = {}
  <2>1. \A n \in 1 .. Len(x) : x[n] = y[n]
    BY <1>1, <1>2
  <2>2. x = y
    BY <2>1, SeqEqual
  <2>3. QED
    BY <1>2, <2>2 DEF FirstDifference
<1>3. CASE differ # {}
  <2>1. differ \subseteq Nat
    BY <1>1
  <2> DEFINE n == CHOOSE m \in differ : \A o \in differ : m <= o
  <2>2. n \in differ /\ \A o \in differ : n <= o
    <3> HIDE DEF differ
    <3>1. Min(differ) \in differ /\ \A o \in differ : Min(differ) <= o
      BY <1>3, <2>1, LeastIs
    <3>2. QED
      BY <3>1
  <2>3. FirstDifference(x, y) = Digit[x[n]] - Digit[y[n]]
    BY <1>3 DEF FirstDifference
  <2> HIDE DEF n
  <2>4. \A m \in 1 .. n - 1 : x[m] = y[m]
    BY <1>1, <2>2
  <2>5. QED
    BY <2>2, <2>3, <2>4
<1>4. QED
  BY <1>2, <1>3

(* The first digit in which two numbers of one length differ decides. *)
LEMMA FirstDecides ==
  ASSUME NEW x \in Seq(Digits), NEW y \in Seq(Digits), Len(x) = Len(y), NEW n \in 1 .. Len(x),
         Digit[x[n]] > Digit[y[n]], \A m \in 1 .. n - 1 : x[m] = y[m]
  PROVE  Value(x) > Value(y)
<1> DEFINE k == n - 1
<1>1. Len(x) \in Nat /\ k \in 0 .. Len(x) /\ k <= Len(y) /\ \A m \in 1 .. k : x[m] = y[m]
  OBVIOUS
<1>2. x \in Seq(Characters) /\ y \in Seq(Characters)
  BY DigitsCount
<1>k. n - 1 = k
  OBVIOUS
<1> HIDE DEF k
<1>3. Numbers(x)[k] = Numbers(y)[k]
  BY <1>1, <1>2, SameSoFar
<1>4. Numbers(x)[k] \in Nat
  BY <1>1, DigitsCount
<1>5. Numbers(x)[n] = 10 * Numbers(x)[k] + Digit[x[n]]
  BY <1>k, DigitsCount
<1>6. Numbers(y)[n] = 10 * Numbers(y)[k] + Digit[y[n]]
  BY <1>k, DigitsCount
<1>7. Digit[x[n]] \in 0 .. 9 /\ Digit[y[n]] \in 0 .. 9
  <2>1. x[n] \in Digits /\ y[n] \in Digits
    OBVIOUS
  <2>2. QED
    BY <2>1, DigitIs
<1>8. Numbers(x)[n] > Numbers(y)[n]
  <2> DEFINE p == Numbers(x)[k]
             c == Digit[x[n]]
             d == Digit[y[n]]
  <2>1. p \in Nat /\ c \in Int /\ d \in Int /\ c > d
    BY <1>4, <1>7
  <2>2. Numbers(x)[n] = 10 * p + c /\ Numbers(y)[n] = 10 * p + d
    BY <1>3, <1>5, <1>6
  <2> HIDE DEF p, c, d
  <2>3. 10 * p + c > 10 * p + d
    BY <2>1
  <2>4. QED
    BY <2>2, <2>3
<1>9. 0 \in Nat /\ Len(x) = Len(y) + 0 /\ n \in 0 .. Len(y) /\ n + 0 = n
  BY <1>1
<1>10. Numbers(x)[n + 0] > Numbers(y)[n]
  BY <1>8, <1>9
<1>11. QED
  BY <1>9, <1>10, StaysAhead

(* NumberOrder is the order of the numbers, of any size. *)
LEMMA NumberOrderIs ==
  ASSUME NEW x, NEW y, Plain(x), Plain(y)
  PROVE  /\ NumberOrder(x, y) \in Int
         /\ Sign(NumberOrder(x, y)) = Sign(Value(x) - Value(y))
<1>1. x \in Seq(Digits) /\ y \in Seq(Digits) /\ Len(x) \in Nat /\ Len(y) \in Nat
  BY DEF Plain
<1>2. Value(x) \in Nat /\ Value(y) \in Nat
  BY <1>1, DigitsCount
<1>3. CASE Len(x) > Len(y)
  <2>1. Value(x) > Value(y)
    BY <1>3, LongerIsLarger
  <2>2. NumberOrder(x, y) = Len(x) - Len(y)
    BY <1>1, <1>3 DEF NumberOrder
  <2>3. QED
    BY <1>1, <1>2, <1>3, <2>1, <2>2 DEF Sign
<1>4. CASE Len(x) < Len(y)
  <2>1. Value(y) > Value(x)
    <3>1. Len(y) > Len(x)
      BY <1>1, <1>4
    <3>2. QED
      BY <3>1, LongerIsLarger
  <2>2. NumberOrder(x, y) = Len(x) - Len(y)
    BY <1>1, <1>4 DEF NumberOrder
  <2>3. QED
    BY <1>1, <1>2, <1>4, <2>1, <2>2 DEF Sign
<1>5. CASE Len(x) = Len(y)
  <2>1. NumberOrder(x, y) = FirstDifference(x, y)
    BY <1>5 DEF NumberOrder
  <2>2. CASE FirstDifference(x, y) = 0 /\ x = y
    BY <1>2, <2>1, <2>2 DEF Sign
  <2>3. ASSUME NEW n \in 1 .. Len(x), FirstDifference(x, y) = Digit[x[n]] - Digit[y[n]],
               x[n] # y[n], \A m \in 1 .. n - 1 : x[m] = y[m]
        PROVE  /\ NumberOrder(x, y) \in Int
               /\ Sign(NumberOrder(x, y)) = Sign(Value(x) - Value(y))
    <3> DEFINE c == Digit[x[n]]
               d == Digit[y[n]]
    <3>1. x[n] \in Digits /\ y[n] \in Digits
      BY <1>1, <1>5
    <3>2. c \in 0 .. 9 /\ d \in 0 .. 9 /\ c # d
      BY <2>3, <3>1, DigitIs
    <3>3. c > d => Value(x) > Value(y)
      BY <1>1, <1>5, <2>3, FirstDecides
    <3>4. d > c => Value(y) > Value(x)
      <4>1. Len(y) = Len(x) /\ n \in 1 .. Len(y) /\ \A m \in 1 .. n - 1 : y[m] = x[m]
        BY <1>5, <2>3
      <4>2. QED
        BY <1>1, <4>1, FirstDecides
    <3>5. NumberOrder(x, y) = c - d
      BY <2>1, <2>3
    <3> HIDE DEF c, d
    <3>6. QED
      BY <1>2, <3>2, <3>3, <3>4, <3>5 DEF Sign
  <2>4. QED
    BY <1>1, <1>5, <2>2, <2>3, FirstDifferenceIs
<1>6. QED
  BY <1>1, <1>3, <1>4, <1>5

(* Keys differ in a first place, or go on alike for ever. *)
LEMMA AtIs ==
  ASSUME NEW k \in Seq(Int), NEW n \in Nat
  PROVE  At(k, n) \in Int
BY DEF At

(* The order of two keys is decided at the first place where they differ. *)
LEMMA KeyOrderIs ==
  ASSUME NEW k \in Seq(Int), NEW l \in Seq(Int)
  PROVE  \/ KeyOrder(k, l) = 0 /\ \A n \in Nat \ {0} : At(k, n) = At(l, n)
         \/ \E n \in Nat \ {0} :
              /\ KeyOrder(k, l) = Sign(At(k, n) - At(l, n))
              /\ At(k, n) # At(l, n) /\ \A m \in 1 .. n - 1 : At(k, m) = At(l, m)
<1> DEFINE differ == {n \in (DOMAIN k) \cup (DOMAIN l) : At(k, n) # At(l, n)}
<1>1. DOMAIN k \subseteq Nat \ {0} /\ DOMAIN l \subseteq Nat \ {0}
  OBVIOUS
<1>2. ASSUME NEW n \in Nat, n \notin differ PROVE At(k, n) = At(l, n)
  <2>1. CASE n \in (DOMAIN k) \cup (DOMAIN l)
    BY <1>2, <2>1
  <2>2. CASE n \notin (DOMAIN k) \cup (DOMAIN l)
    BY <2>2 DEF At
  <2>3. QED
    BY <2>1, <2>2
<1>3. CASE differ = {}
  <2>1. KeyOrder(k, l) = 0
    BY <1>3 DEF KeyOrder
  <2>2. QED
    BY <1>2, <1>3, <2>1
<1>4. CASE differ # {}
  <2>1. differ \subseteq Nat
    BY <1>1
  <2> DEFINE n == CHOOSE m \in differ : \A o \in differ : m <= o
  <2>2. n \in differ /\ \A o \in differ : n <= o
    <3> HIDE DEF differ
    <3>1. Min(differ) \in differ /\ \A o \in differ : Min(differ) <= o
      BY <1>4, <2>1, LeastIs
    <3>2. QED
      BY <3>1
  <2>3. KeyOrder(k, l) = Sign(At(k, n) - At(l, n))
    BY <1>4 DEF KeyOrder
  <2> HIDE DEF n
  <2>4. n \in Nat \ {0} /\ At(k, n) # At(l, n)
    BY <1>1, <2>2
  <2> HIDE DEF differ
  <2>5. ASSUME NEW m \in 1 .. n - 1 PROVE At(k, m) = At(l, m)
    <3>1. m \in Nat /\ ~(n <= m)
      BY <2>4
    <3>2. m \notin differ
      BY <2>2, <3>1
    <3>3. QED
      BY <1>2, <3>1, <3>2
  <2>6. QED
    BY <2>3, <2>4, <2>5
<1>5. QED
  BY <1>3, <1>4

(* There is one such place only. *)
LEMMA FirstPlaceDecides ==
  ASSUME NEW k \in Seq(Int), NEW l \in Seq(Int), NEW n \in Nat \ {0},
         At(k, n) # At(l, n), \A m \in 1 .. n - 1 : At(k, m) = At(l, m)
  PROVE  KeyOrder(k, l) = Sign(At(k, n) - At(l, n))
<1>1. CASE \A m \in Nat \ {0} : At(k, m) = At(l, m)
  BY <1>1
<1>2. ASSUME NEW o \in Nat \ {0}, KeyOrder(k, l) = Sign(At(k, o) - At(l, o)),
             At(k, o) # At(l, o), \A m \in 1 .. o - 1 : At(k, m) = At(l, m)
      PROVE  KeyOrder(k, l) = Sign(At(k, n) - At(l, n))
  <2>1. ~(o \in 1 .. n - 1) /\ ~(n \in 1 .. o - 1)
    BY <1>2
  <2>2. o = n
    BY <2>1
  <2>3. QED
    BY <1>2, <2>2
<1>3. QED
  BY <1>1, <1>2, KeyOrderIs

(* Two keys that begin alike are in the order of what follows. *)
SamePlaces(k, l, d) == \A n \in 1 .. d : At(k, n) = At(l, n)

GoesOn(k, d, x) == \A n \in Nat \ {0} : At(k, n + d) = At(x, n)

(* What two keys begin with alike does not order them. *)
LEMMA BeginAlike ==
  ASSUME NEW k \in Seq(Int), NEW l \in Seq(Int), NEW x \in Seq(Int), NEW y \in Seq(Int), NEW d \in Nat,
         SamePlaces(k, l, d), GoesOn(k, d, x), GoesOn(l, d, y)
  PROVE  KeyOrder(k, l) = KeyOrder(x, y)
<1> USE DEF SamePlaces, GoesOn
<1>1. CASE KeyOrder(x, y) = 0 /\ \A n \in Nat \ {0} : At(x, n) = At(y, n)
  <2>1. ASSUME NEW n \in Nat \ {0} PROVE At(k, n) = At(l, n)
    <3>1. CASE n <= d
      BY <3>1
    <3>2. CASE ~(n <= d)
      <4> DEFINE m == n - d
      <4>1. m \in Nat \ {0} /\ m + d = n
        BY <3>2
      <4> HIDE DEF m
      <4>2. At(k, m + d) = At(l, m + d)
        BY <1>1, <4>1
      <4>3. QED
        BY <4>1, <4>2
    <3>3. QED
      BY <3>1, <3>2
  <2>2. KeyOrder(k, l) = 0
    BY <2>1, KeyOrderIs
  <2>3. QED
    BY <1>1, <2>2
<1>2. ASSUME NEW n \in Nat \ {0}, KeyOrder(x, y) = Sign(At(x, n) - At(y, n)),
             At(x, n) # At(y, n), \A m \in 1 .. n - 1 : At(x, m) = At(y, m)
      PROVE  KeyOrder(k, l) = KeyOrder(x, y)
  <2> DEFINE a == n + d
  <2>1. a \in Nat \ {0} /\ At(k, a) = At(x, n) /\ At(l, a) = At(y, n)
    OBVIOUS
  <2>2. ASSUME NEW m \in 1 .. a - 1 PROVE At(k, m) = At(l, m)
    <3>1. CASE m <= d
      <4>1. m \in 1 .. d
        BY <2>1, <3>1
      <4>2. QED
        BY <4>1
    <3>2. CASE ~(m <= d)
      <4> DEFINE o == m - d
      <4>1. o \in Nat \ {0} /\ o + d = m /\ o \in 1 .. n - 1
        BY <2>1, <3>2
      <4> HIDE DEF o
      <4>2. At(k, o + d) = At(l, o + d)
        BY <1>2, <4>1
      <4>3. QED
        BY <4>1, <4>2
    <3>3. QED
      BY <3>1, <3>2
  <2>3. At(k, a) # At(l, a)
    BY <1>2, <2>1
  <2> HIDE DEF a
  <2>4. KeyOrder(k, l) = Sign(At(k, a) - At(l, a))
    BY <2>1, <2>2, <2>3, FirstPlaceDecides
  <2>5. QED
    BY <1>2, <2>1, <2>4
<1>3. QED
  BY <1>1, <1>2, KeyOrderIs

(* The weight of a character is never 0, that of a digit or of the end. *)
LEMMA WeightIs ==
  ASSUME NEW c \in Characters, ~IsDigit(c)
  PROVE  Weight(c) \in Int \ {0}
<1>1. c \in DOMAIN Code
  BY DEF Characters, IsDigit
<1>2. Code[c] \in 1 .. 127
  BY <1>1, CodeAssumption
<1>3. QED
  BY <1>2 DEF Weight

(* Order is 0 exactly at a digit and at the end. *)
LEMMA OrderIs ==
  ASSUME NEW s \in Seq(Characters)
  PROVE  Order(s) \in Int /\ (AtText(s) <=> Order(s) # 0)
<1>1. CASE AtText(s)
  <2>1. s[1] \in Characters /\ ~IsDigit(s[1])
    BY <1>1 DEF AtText
  <2>2. Order(s) \in Int \ {0}
    BY <1>1, <2>1, WeightIs DEF Order
  <2>3. QED
    BY <1>1, <2>2
<1>2. CASE ~AtText(s)
  BY <1>2 DEF Order
<1>3. QED
  BY <1>1, <1>2

(* The rank of a character is never 0, that of the end of a text. *)
LEMMA RankIs ==
  ASSUME NEW c \in Characters, ~IsDigit(c)
  PROVE  /\ Rank(c) \in Int \ {0}
         /\ c = "~" => Rank(c) < 0
         /\ c \in Letters => Rank(c) = Code[c] /\ Rank(c) \in 1 .. 127
         /\ c # "~" /\ c \notin Letters => Rank(c) = 128 + Code[c] /\ Rank(c) > 128
<1>1. Code[c] \in 1 .. 127 /\ (c \in Letters => c # "~")
  BY CodeAssumption DEF Characters, IsDigit
<1>2. CASE c = "~"
  BY <1>1, <1>2 DEF Rank, Class
<1>3. CASE c \in Letters
  BY <1>1, <1>3 DEF Rank, Class
<1>4. CASE c # "~" /\ c \notin Letters
  BY <1>1, <1>4 DEF Rank, Class
<1>5. QED
  BY <1>1, <1>2, <1>3, <1>4

(* The weights of the code sort the characters, and the end of a text, as *)
(* the ranks do.                                                          *)
LEMMA WeightsAreRanks ==
  ASSUME NEW c \in Characters, ~IsDigit(c)
  PROVE  /\ Sign(Weight(c)) = Sign(Rank(c))
         /\ \A d \in Characters :
              ~IsDigit(d) => Sign(Weight(c) - Weight(d)) = Sign(Rank(c) - Rank(d))
<1>1. ASSUME NEW e \in Characters, ~IsDigit(e)
      PROVE  /\ Code[e] \in 1 .. 127 /\ (e \in Letters => e # "~")
             /\ e = "~" => Weight(e) = -1 /\ Rank(e) < 0
             /\ e \in Letters => Weight(e) = Code[e] /\ Rank(e) = Code[e]
             /\ e # "~" /\ e \notin Letters => Weight(e) = Code[e] + 256 /\ Rank(e) = 128 + Code[e]
             /\ Rank(e) \in Int
  BY <1>1, CodeAssumption, RankIs DEF Characters, IsDigit, Weight
<1>2. Sign(Weight(c)) = Sign(Rank(c))
  BY <1>1 DEF Sign
<1>3. ASSUME NEW d \in Characters, ~IsDigit(d)
      PROVE  Sign(Weight(c) - Weight(d)) = Sign(Rank(c) - Rank(d))
  <2>1. CASE c = "~" /\ d = "~"
    BY <1>1, <1>3, <2>1 DEF Sign
  <2>2. CASE c = "~" /\ d # "~"
    BY <1>1, <1>3, <2>2 DEF Sign
  <2>3. CASE c # "~" /\ d = "~"
    BY <1>1, <1>3, <2>3 DEF Sign
  <2>4. CASE c # "~" /\ d # "~"
    <3> DEFINE m == Code[c]
               n == Code[d]
    <3>1. /\ m \in 1 .. 127 /\ n \in 1 .. 127
          /\ Weight(c) = IF c \in Letters THEN m ELSE m + 256
          /\ Weight(d) = IF d \in Letters THEN n ELSE n + 256
          /\ Rank(c) = IF c \in Letters THEN m ELSE 128 + m
          /\ Rank(d) = IF d \in Letters THEN n ELSE 128 + n
      BY <1>1, <1>3, <2>4
    <3> HIDE DEF m, n
    <3>2. CASE c \in Letters <=> d \in Letters
      <4>1. Weight(c) - Weight(d) = m - n /\ Rank(c) - Rank(d) = m - n
        BY <3>1, <3>2
      <4>2. QED
        BY <4>1
    <3>3. CASE c \in Letters /\ d \notin Letters
      BY <3>1, <3>3 DEF Sign
    <3>4. CASE c \notin Letters /\ d \in Letters
      BY <3>1, <3>4 DEF Sign
    <3>5. QED
      BY <3>2, <3>3, <3>4
  <2>5. QED
    BY <2>1, <2>2, <2>3, <2>4
<1>4. QED
  BY <1>2, <1>3

(* What a key begins with. *)
TextRank(s) == IF AtText(s) THEN Rank(s[1]) ELSE 0

LEMMA OrdersAreRanks ==
  ASSUME NEW x \in Seq(Characters), NEW y \in Seq(Characters)
  PROVE  /\ TextRank(x) \in Int /\ TextRank(y) \in Int
         /\ Sign(Order(x) - Order(y)) = Sign(TextRank(x) - TextRank(y))
         /\ Order(x) = Order(y) <=> TextRank(x) = TextRank(y)
<1>1. ASSUME NEW s \in Seq(Characters), AtText(s)
      PROVE  /\ s[1] \in Characters /\ ~IsDigit(s[1])
             /\ Order(s) = Weight(s[1]) /\ Weight(s[1]) \in Int
             /\ TextRank(s) = Rank(s[1]) /\ Rank(s[1]) \in Int
  <2>1. s[1] \in Characters /\ ~IsDigit(s[1])
    BY <1>1 DEF AtText
  <2>2. QED
    BY <1>1, <2>1, WeightIs, RankIs DEF Order, TextRank
<1>2. ASSUME NEW s \in Seq(Characters), ~AtText(s) PROVE Order(s) = 0 /\ TextRank(s) = 0
  BY <1>2 DEF Order, TextRank
<1>3. /\ Order(x) \in Int /\ Order(y) \in Int
      /\ TextRank(x) \in Int /\ TextRank(y) \in Int
  BY <1>1, <1>2
<1>4. Sign(Order(x) - Order(y)) = Sign(TextRank(x) - TextRank(y))
  <2>1. CASE AtText(x) /\ AtText(y)
    BY <1>1, <2>1, WeightsAreRanks
  <2>2. CASE AtText(x) /\ ~AtText(y)
    <3>1. Order(x) - Order(y) = Weight(x[1]) /\ TextRank(x) - TextRank(y) = Rank(x[1])
      BY <1>1, <1>2, <2>2
    <3>2. QED
      BY <1>1, <2>2, <3>1, WeightsAreRanks
  <2>3. CASE ~AtText(x) /\ AtText(y)
    <3> DEFINE w == Weight(y[1])
               r == Rank(y[1])
    <3>1. Order(x) - Order(y) = -w /\ TextRank(x) - TextRank(y) = -r
      BY <1>1, <1>2, <2>3
    <3>2. w \in Int /\ r \in Int /\ Sign(w) = Sign(r)
      BY <1>1, <2>3, WeightsAreRanks
    <3> HIDE DEF w, r
    <3>3. Sign(-w) = Sign(-r)
      BY <3>2 DEF Sign
    <3>4. QED
      BY <3>1, <3>3
  <2>4. CASE ~AtText(x) /\ ~AtText(y)
    BY <1>2, <2>4
  <2>5. QED
    BY <2>1, <2>2, <2>3, <2>4
<1>5. Order(x) = Order(y) <=> TextRank(x) = TextRank(y)
  <2> DEFINE m == Order(x) - Order(y)
             n == TextRank(x) - TextRank(y)
  <2>1. m \in Int /\ n \in Int /\ (Order(x) = Order(y) <=> m = 0) /\ (TextRank(x) = TextRank(y) <=> n = 0)
    BY <1>3
  <2>2. Sign(m) = Sign(n)
    BY <1>4
  <2> HIDE DEF m, n
  <2>3. QED
    BY <2>1, <2>2 DEF Sign
<1>6. QED
  BY <1>3, <1>4, <1>5

(* The parts of a key. *)
Parts(s) == [n \in 1 .. Len(s) |-> KeyPart(s, n)]

(* The key of a text, in parts: one for each position. *)
LEMMA PartsAre ==
  ASSUME NEW s \in Seq(Characters)
  PROVE  Parts(s) \in Seq(Seq(Int)) /\ Len(Parts(s)) = Len(s) /\ Key(s) = FlattenSeq(Parts(s))
<1>1. ASSUME NEW n \in 1 .. Len(s) PROVE KeyPart(s, n) \in Seq(Int)
  <2>1. CASE ~IsDigit(s[n])
    <3>1. Rank(s[n]) \in Int
      BY <2>1, RankIs
    <3>2. KeyPart(s, n) = <<Rank(s[n])>>
      BY <2>1 DEF KeyPart
    <3>3. QED
      BY <3>1, <3>2
  <2>2. CASE IsDigit(s[n])
    <3>1. Numbers(s)[n] \in Nat
      <4>1. n \in 0 .. Len(s)
        OBVIOUS
      <4>2. QED
        BY <4>1, NumbersAre
    <3>2. KeyPart(s, n) \in {<<>>, <<0, Numbers(s)[n]>>}
      BY <2>2 DEF KeyPart
    <3>3. <<>> \in Seq(Int) /\ \A z \in Nat : <<0, z>> \in Seq(Int)
      OBVIOUS
    <3>4. QED
      BY <3>1, <3>2, <3>3
  <2>3. QED
    BY <2>1, <2>2
<1>2. Parts(s) \in [1 .. Len(s) -> Seq(Int)] /\ Len(s) \in Nat
  BY <1>1 DEF Parts
<1>3. Key(s) = FlattenSeq(Parts(s))
  BY DEF Key, Parts
<1>4. QED
  BY <1>2, <1>3

(* Positions of a concatenation. *)
LEMMA ConcatIs ==
  ASSUME NEW T, NEW p \in Seq(T), NEW q \in Seq(T)
  PROVE  /\ p \o q \in Seq(T) /\ Len(p \o q) = Len(p) + Len(q)
         /\ \A n \in 1 .. Len(p) : (p \o q)[n] = p[n]
         /\ \A n \in 1 .. Len(q) : (p \o q)[Len(p) + n] = q[n]
OBVIOUS

(* A key is a sequence of integers. *)
LEMMA KeyIs ==
  ASSUME NEW s \in Seq(Characters)
  PROVE  Key(s) \in Seq(Int)
<1>1. <<>> \in Seq(Seq(Int))
  OBVIOUS
<1>2. QED
  BY <1>1, PartsAre, FlattenConcat

(* The key of a text whose number does not go on after x. *)
LEMMA KeyJoins ==
  ASSUME NEW x \in Seq(Characters), NEW y \in Seq(Characters),
         ~(x # <<>> /\ y # <<>> /\ IsDigit(x[Len(x)]) /\ IsDigit(y[1]))
  PROVE  Key(x \o y) = Key(x) \o Key(y)
<1> DEFINE s == x \o y
           M == Len(x)
           N == Len(y)
           v == Numbers(s)
           w == Numbers(y)
<1>1. /\ s \in Seq(Characters) /\ Len(s) = M + N /\ M \in Nat /\ N \in Nat
      /\ \A n \in 1 .. M : s[n] = x[n]
      /\ \A n \in 1 .. N : s[M + n] = y[n]
  OBVIOUS
<1>s. s = x \o y
  OBVIOUS
<1> HIDE DEF s
<1>2. ASSUME NEW n \in 0 .. M PROVE v[n] = Numbers(x)[n]
  <2>1. n \in 0 .. Len(x) /\ n <= Len(s) /\ \A m \in 1 .. n : x[m] = s[m]
    BY <1>1
  <2>2. QED
    BY <1>1, <2>1, SameSoFar
<1>3. /\ v[0] = 0
      /\ \A n \in 1 .. Len(s) : v[n] = IF IsDigit(s[n]) THEN 10 * v[n - 1] + Digit[s[n]] ELSE 0
  BY <1>1, NumbersAre
<1>4. /\ w[0] = 0
      /\ \A n \in 1 .. N : w[n] = IF IsDigit(y[n]) THEN 10 * w[n - 1] + Digit[y[n]] ELSE 0
  BY NumbersAre
<1>p. M # 0 => x # <<>> /\ (~IsDigit(x[M]) => v[M] = 0)
  <2>1. ASSUME M # 0 PROVE M \in 1 .. Len(s) /\ s[M] = x[M] /\ x # <<>>
    BY <1>1, <2>1
  <2> HIDE DEF v
  <2>2. QED
    BY <1>3, <2>1
<1> HIDE DEF v, w
<1> DEFINE same == {n \in Nat : n + 1 <= N => v[M + (n + 1)] = w[n + 1]}
<1>5. 0 \in same
  <2> SUFFICES ASSUME 1 <= N PROVE v[M + 1] = w[1]
    OBVIOUS
  <2> DEFINE a == M + 1
  <2>1. a \in 1 .. Len(s) /\ 1 \in 1 .. N /\ a - 1 = M /\ 1 - 1 = 0 /\ s[a] = y[1] /\ y # <<>>
    BY <1>1
  <2> HIDE DEF a
  <2>2. v[a] = IF IsDigit(y[1]) THEN 10 * v[M] + Digit[y[1]] ELSE 0
    BY <1>3, <2>1
  <2>3. w[1] = IF IsDigit(y[1]) THEN 10 * w[0] + Digit[y[1]] ELSE 0
    BY <1>4, <2>1
  <2>4. IsDigit(y[1]) => v[M] = w[0]
    <3>1. CASE M = 0
      BY <1>3, <1>4, <3>1
    <3>2. CASE M # 0
      BY <1>4, <1>p, <2>1, <3>2
    <3>3. QED
      BY <3>1, <3>2
  <2>5. v[a] = w[1]
    BY <2>2, <2>3, <2>4
  <2>6. QED
    BY <2>5 DEF a
<1>6. ASSUME NEW n \in Nat, n \in same PROVE n + 1 \in same
  <2> DEFINE b == (n + 1) + 1
             a == M + b
  <2> SUFFICES ASSUME b <= N PROVE v[a] = w[b]
    OBVIOUS
  <2>1. /\ a \in 1 .. Len(s) /\ b \in 1 .. N /\ a - 1 = M + (n + 1) /\ b - 1 = n + 1 /\ s[a] = y[b]
        /\ v[M + (n + 1)] = w[n + 1]
    BY <1>1, <1>6
  <2>2. v[a - 1] = w[b - 1]
    BY <2>1
  <2> HIDE DEF a, b
  <2>3. QED
    BY <1>3, <1>4, <2>1, <2>2
<1>7. ASSUME NEW n \in 1 .. N PROVE v[M + n] = w[n]
  <2>1. n - 1 \in Nat /\ n - 1 + 1 = n
    BY <1>1
  <2>2. n - 1 \in same
    <3> HIDE DEF same
    <3>1. QED
      BY <1>5, <1>6, <2>1, NatsFromZero
  <2>3. QED
    BY <1>1, <2>1, <2>2
<1>8. ASSUME NEW n \in 1 .. M PROVE KeyPart(s, n) = KeyPart(x, n)
  <2>1. s[n] = x[n] /\ v[n] = Numbers(x)[n]
    BY <1>1, <1>2
  <2>2. IsDigit(x[n]) => (n < Len(s) /\ IsDigit(s[n + 1]) <=> n < M /\ IsDigit(x[n + 1]))
    <3>1. CASE n < M
      <4>1. n < Len(s) /\ s[n + 1] = x[n + 1]
        <5>1. n < Len(s) /\ n + 1 \in 1 .. M
          BY <1>1, <3>1
        <5>2. QED
          BY <1>1, <5>1
      <4>2. QED
        BY <3>1, <4>1
    <3>2. CASE ~(n < M)
      <4>1. n = M /\ x # <<>>
        BY <1>1, <3>2
      <4>2. CASE N = 0
        <5>1. ~(n < Len(s))
          BY <1>1, <4>1, <4>2
        <5>2. QED
          BY <3>2, <5>1
      <4>3. CASE N # 0
        <5>1. y # <<>> /\ s[n + 1] = y[1]
          BY <1>1, <4>1, <4>3
        <5>2. QED
          BY <3>2, <4>1, <5>1
      <4>4. QED
        BY <4>2, <4>3
    <3>3. QED
      BY <3>1, <3>2
  <2>3. QED
    BY <2>1, <2>2 DEF KeyPart, v
<1>9. ASSUME NEW n \in 1 .. N PROVE KeyPart(s, M + n) = KeyPart(y, n)
  <2>1. s[M + n] = y[n] /\ v[M + n] = w[n]
    BY <1>1, <1>7
  <2>2. M + n < Len(s) /\ IsDigit(s[(M + n) + 1]) <=> n < N /\ IsDigit(y[n + 1])
    <3>1. CASE n < N
      <4>1. M + n < Len(s) /\ (M + n) + 1 = M + (n + 1) /\ n + 1 \in 1 .. N
        BY <1>1, <3>1
      <4>2. s[(M + n) + 1] = y[n + 1]
        BY <1>1, <4>1
      <4>3. QED
        BY <3>1, <4>1, <4>2
    <3>2. CASE ~(n < N)
      <4>1. ~(M + n < Len(s))
        BY <1>1, <3>2
      <4>2. QED
        BY <3>2, <4>1
    <3>3. QED
      BY <3>1, <3>2
  <2>3. QED
    BY <2>1, <2>2 DEF KeyPart, v, w
<1>10. Parts(s) = Parts(x) \o Parts(y)
  <2> DEFINE p == Parts(x)
             q == Parts(y)
             r == Parts(s)
  <2>1. /\ p \in Seq(Seq(Int)) /\ Len(p) = M
        /\ q \in Seq(Seq(Int)) /\ Len(q) = N
        /\ r \in Seq(Seq(Int)) /\ Len(r) = M + N
    BY <1>1, PartsAre
  <2>2. \A n \in 1 .. M : r[n] = p[n]
    <3>1. \A n \in 1 .. M : n \in 1 .. Len(s) /\ n \in 1 .. Len(x)
      BY <1>1
    <3>2. QED
      BY <1>8, <3>1 DEF Parts
  <2>3. \A n \in 1 .. N : r[M + n] = q[n]
    <3>1. \A n \in 1 .. N : M + n \in 1 .. Len(s) /\ n \in 1 .. Len(y)
      BY <1>1
    <3>2. QED
      BY <1>9, <3>1 DEF Parts
  <2> HIDE DEF p, q, r
  <2>4. /\ p \o q \in Seq(Seq(Int)) /\ Len(p \o q) = M + N
        /\ \A n \in 1 .. M : (p \o q)[n] = p[n]
        /\ \A n \in 1 .. N : (p \o q)[M + n] = q[n]
    <3> DEFINE T == Seq(Int)
    <3>1. p \in Seq(T) /\ q \in Seq(T)
      BY <2>1
    <3> HIDE DEF M, N, T
    <3>2. /\ p \o q \in Seq(T) /\ Len(p \o q) = Len(p) + Len(q)
          /\ \A n \in 1 .. Len(p) : (p \o q)[n] = p[n]
          /\ \A n \in 1 .. Len(q) : (p \o q)[Len(p) + n] = q[n]
      BY <3>1, ConcatIs
    <3>3. QED
      BY <2>1, <3>2 DEF T
  <2>5. ASSUME NEW n \in 1 .. M + N PROVE r[n] = (p \o q)[n]
    <3>1. CASE n <= M
      <4>1. n \in 1 .. M
        BY <1>1, <3>1
      <4>2. (p \o q)[n] = p[n]
        BY <2>4, <4>1
      <4>3. QED
        BY <2>2, <4>1, <4>2
    <3>2. CASE ~(n <= M)
      <4> DEFINE m == n - M
      <4>1. m \in 1 .. N /\ M + m = n
        BY <1>1, <3>2
      <4> HIDE DEF m
      <4>2. (p \o q)[M + m] = q[m]
        BY <2>4, <4>1
      <4>3. r[M + m] = q[m]
        BY <2>3, <4>1
      <4>4. QED
        BY <4>1, <4>2, <4>3
    <3>3. QED
      BY <3>1, <3>2
  <2>6. r = p \o q
    BY <2>1, <2>4, <2>5, SeqEqual
  <2>7. QED
    BY <2>6 DEF p, q, r
<1>11. FlattenSeq(Parts(x) \o Parts(y)) = FlattenSeq(Parts(x)) \o FlattenSeq(Parts(y))
  <2>1. Parts(x) \in Seq(Seq(Int)) /\ Parts(y) \in Seq(Seq(Int))
    BY PartsAre
  <2>2. QED
    BY <2>1, FlattenConcat
<1>12. QED
  BY <1>1, <1>10, <1>11, PartsAre DEF s

(* The key of a character that is no digit is its rank. *)
LEMMA KeyOfText ==
  ASSUME NEW c \in Characters, ~IsDigit(c)
  PROVE  Key(<<c>>) = <<Rank(c)>>
<1> DEFINE s == <<c>>
<1>1. s \in Seq(Characters) /\ Len(s) = 1 /\ s[1] = c
  OBVIOUS
<1> HIDE DEF s
<1>2. Parts(s) = <<<<Rank(c)>>>>
  <2>1. KeyPart(s, 1) = <<Rank(c)>>
    BY <1>1 DEF KeyPart
  <2>2. Parts(s) = [n \in 1 .. 1 |-> KeyPart(s, n)]
    BY <1>1 DEF Parts
  <2> DEFINE w == <<Rank(c)>>
  <2>3. Parts(s) = [n \in 1 .. 1 |-> w]
    <3>1. \A n \in 1 .. 1 : n = 1
      OBVIOUS
    <3>2. QED
      BY <2>1, <2>2, <3>1
  <2> HIDE DEF w
  <2>4. [n \in 1 .. 1 |-> w] = <<w>>
    OBVIOUS
  <2>5. QED
    BY <2>3, <2>4 DEF w
<1>3. <<Rank(c)>> \in Seq(Int)
  <2>1. Rank(c) \in Int
    BY RankIs
  <2>2. QED
    BY <2>1
<1>4. Key(s) = <<Rank(c)>>
  BY <1>1, <1>2, <1>3, PartsAre, FlattenOne
<1>5. QED
  BY <1>4 DEF s

(* The key of a run of digits is 0, for the text before it, and its value. *)
LEMMA KeyOfNumber ==
  ASSUME NEW x \in Seq(Digits), x # <<>>
  PROVE  Key(x) = <<0, Value(x)>>
<1> DEFINE N == Len(x)
           last == <<0, Value(x)>>
           p == Parts(x)
           g == [n \in 0 .. N |-> IF n = N THEN last ELSE <<>>]
<1>1. N \in Nat \ {0} /\ x \in Seq(Characters) /\ Value(x) \in Nat
  BY DigitsCount
<1>2. last \in Seq(Int)
  <2>1. \A z \in Nat : <<0, z>> \in Seq(Int)
    OBVIOUS
  <2>2. QED
    BY <1>1, <2>1
<1>3. ASSUME NEW n \in 1 .. N PROVE p[n] = IF n = N THEN last ELSE <<>>
  <2>1. IsDigit(x[n]) /\ (n < N => IsDigit(x[n + 1]))
    <3>1. x[n] \in Digits
      OBVIOUS
    <3>2. ASSUME n < N PROVE x[n + 1] \in Digits
      <4>1. n + 1 \in 1 .. N
        BY <1>1, <3>2
      <4>2. QED
        BY <4>1
    <3>3. QED
      BY <3>1, <3>2 DEF IsDigit, Digits
  <2>2. p[n] = KeyPart(x, n)
    BY DEF Parts
  <2>3. n < N <=> n # N
    BY <1>1
  <2>4. QED
    BY <2>1, <2>2, <2>3 DEF KeyPart, Value
<1>4. p \in Seq(Seq(Int)) /\ Len(p) = N /\ Key(x) = FlattenSeq(p)
  BY <1>1, PartsAre
<1> HIDE DEF p
<1>5. PICK h : Flattens(h, p) /\ FlattenSeq(p) = h[Len(p)]
  BY <1>4, FlattenIs
<1> HIDE DEF last
<1>6. g[0] = <<>>
  BY <1>1
<1>7. ASSUME NEW n \in 1 .. N PROVE g[n] = g[n - 1] \o p[n]
  <2>1. n \in 0 .. N /\ n - 1 \in 0 .. N /\ n - 1 # N
    BY <1>1
  <2>2. g[n - 1] = <<>> /\ g[n] = p[n]
    BY <1>3, <2>1
  <2>3. p[n] \in Seq(Int)
    BY <1>4
  <2>4. <<>> \o p[n] = p[n]
    BY <2>3, ConcatEmptySeq
  <2> HIDE DEF g
  <2>5. QED
    BY <2>2, <2>4
<1>8. g[N] = last
  BY <1>1
<1> HIDE DEF g
<1>9. Flattens(g, p)
  BY <1>4, <1>6, <1>7 DEF Flattens
<1>10. h[Len(p)] = g[Len(p)]
  <2>1. Len(p) \in Nat
    BY <1>1, <1>4
  <2>2. QED
    BY <1>5, <1>9, <2>1, FlattensSame
<1>11. QED
  BY <1>4, <1>5, <1>8, <1>10 DEF last

(* Leading zeros do not count. *)
LEMMA ZerosCountNothing ==
  ASSUME NEW z \in Seq({"0"}), NEW d \in Seq(Digits)
  PROVE  z \o d \in Seq(Digits) /\ Value(z \o d) = Value(d)
<1> DEFINE x == z \o d
           M == Len(z)
           N == Len(d)
           v == Numbers(x)
           w == Numbers(d)
<1>1. "0" \in Digits
  BY DEF Digits, Digit
<1>2. z \in Seq(Digits) /\ M \in Nat /\ N \in Nat
  BY <1>1
<1>3. /\ x \in Seq(Digits) /\ Len(x) = M + N
      /\ \A n \in 1 .. M : x[n] = z[n]
      /\ \A n \in 1 .. N : x[M + n] = d[n]
  <2> HIDE DEF M, N
  <2>1. z \o d \in Seq(Digits) /\ Len(z \o d) = Len(z) + Len(d)
        /\ (\A n \in 1 .. Len(z) : (z \o d)[n] = z[n])
        /\ \A n \in 1 .. Len(d) : (z \o d)[Len(z) + n] = d[n]
    BY <1>2, ConcatIs
  <2>2. QED
    BY <2>1 DEF M, N
<1>x. x = z \o d
  OBVIOUS
<1>z. \A n \in 1 .. M : x[n] = "0"
  BY <1>3
<1> HIDE DEF x
<1>4. v[0] = 0 /\ \A n \in 1 .. M + N : v[n] = 10 * v[n - 1] + Digit[x[n]]
  BY <1>3, DigitsCount
<1>5. w[0] = 0 /\ \A n \in 1 .. N : w[n] = 10 * w[n - 1] + Digit[d[n]]
  BY DigitsCount
<1>6. Value(x) = v[M + N] /\ Value(d) = w[N]
  BY <1>3 DEF Value
<1> HIDE DEF v, w
<1> DEFINE zero == {n \in Nat : n <= M => v[n] = 0}
           same == {n \in Nat : n <= N => v[M + n] = w[n]}
<1>7. M \in zero
  <2>1. 0 \in zero
    BY <1>4
  <2>2. ASSUME NEW n \in Nat, n \in zero PROVE n + 1 \in zero
    <3> DEFINE a == n + 1
    <3> SUFFICES ASSUME a <= M PROVE v[a] = 0
      OBVIOUS
    <3>1. a - 1 = n /\ a \in 1 .. M /\ a \in 1 .. M + N /\ v[n] = 0
      BY <1>2, <2>2
    <3> HIDE DEF a
    <3>2. v[a] = 10 * v[n] + Digit[x[a]] /\ x[a] = "0"
      BY <1>4, <1>z, <3>1
    <3>3. QED
      BY <3>1, <3>2, DigitIs
  <2> HIDE DEF zero
  <2>3. QED
    BY <1>2, <2>1, <2>2, NatsFromZero
<1>8. N \in same
  <2>1. 0 \in same
    <3>1. v[M] = 0 /\ M + 0 = M
      BY <1>2, <1>7
    <3>2. v[M + 0] = w[0]
      BY <1>5, <3>1
    <3>3. QED
      BY <3>2
  <2>2. ASSUME NEW n \in Nat, n \in same PROVE n + 1 \in same
    <3> DEFINE b == n + 1
               a == M + b
    <3> SUFFICES ASSUME b <= N PROVE v[a] = w[b]
      OBVIOUS
    <3>1. b - 1 = n /\ a - 1 = M + n /\ b \in 1 .. N /\ a \in 1 .. M + N /\ v[M + n] = w[n] /\ x[a] = d[b]
      BY <1>2, <1>3, <2>2
    <3> HIDE DEF a, b
    <3>2. v[a] = 10 * v[M + n] + Digit[x[a]] /\ w[b] = 10 * w[n] + Digit[d[b]]
      BY <1>4, <1>5, <3>1
    <3>3. QED
      BY <3>1, <3>2
  <2> HIDE DEF same
  <2>3. QED
    BY <1>2, <2>1, <2>2, NatsFromZero
<1>9. v[M + N] = w[N]
  BY <1>2, <1>8
<1>10. QED
  BY <1>3, <1>6, <1>9 DEF x

(* A text is the run at its beginning and what follows. *)
LEMMA RunIs ==
  ASSUME NEW s \in Seq(Characters), NEW chars
  PROVE  /\ Run(s, chars) \in Seq(Characters) /\ AfterRun(s, chars) \in Seq(Characters)
         /\ s = Run(s, chars) \o AfterRun(s, chars)
         /\ Len(s) = Len(Run(s, chars)) + Len(AfterRun(s, chars))
         /\ Run(s, chars) \in Seq(chars)
         /\ AfterRun(s, chars) # <<>> => AfterRun(s, chars)[1] \notin chars
<1> DEFINE I == {i \in 1 .. Len(s) : s[i] \notin chars}
           stop == IF I # {} THEN Min(I) ELSE 0
           k == RunLength(s, chars)
           r == Run(s, chars)
           a == AfterRun(s, chars)
<1>1. Len(s) \in Nat /\ I \subseteq 1 .. Len(s)
  OBVIOUS
<1>2. k = IF stop = 0 THEN Len(s) ELSE stop - 1
  BY DEF RunLength, SelectInSeq
<1>3. \/ stop = 0 /\ I = {}
      \/ stop \in I /\ \A n \in 1 .. stop - 1 : n \notin I
  <2> HIDE DEF I, stop
  <2>1. stop = IF I # {} THEN Min(I) ELSE 0
    BY DEF stop
  <2>2. QED
    BY <1>1, <2>1, FirstIs
<1>4. /\ k \in 0 .. Len(s) /\ \A n \in 1 .. k : s[n] \in chars
      /\ k < Len(s) => s[k + 1] \notin chars
  <2>1. CASE stop = 0 /\ I = {}
    BY <1>1, <1>2, <2>1
  <2>2. CASE stop \in I /\ \A n \in 1 .. stop - 1 : n \notin I
    <3> HIDE DEF stop
    <3>1. stop \in 1 .. Len(s) /\ s[stop] \notin chars /\ stop # 0
      BY <2>2
    <3>2. k = stop - 1
      BY <1>2, <3>1
    <3>3. k \in 0 .. Len(s) /\ k + 1 = stop
      BY <1>1, <3>1, <3>2
    <3>4. ASSUME NEW n \in 1 .. k PROVE s[n] \in chars
      <4>1. n \in 1 .. stop - 1 /\ n \in 1 .. Len(s)
        BY <1>1, <3>1, <3>2
      <4>2. QED
        BY <2>2, <4>1
    <3>5. QED
      BY <3>1, <3>3, <3>4
  <2> HIDE DEF stop, I
  <2>3. QED
    BY <1>3, <2>1, <2>2
<1>5. r = SubSeq(s, 1, k) /\ a = SubSeq(s, k + 1, Len(s))
  BY DEF Run, AfterRun, From
<1> HIDE DEF k, r, a, stop, I
<1>6. /\ r \in Seq(Characters) /\ Len(r) = k /\ \A n \in 1 .. k : r[n] = s[n]
      /\ a \in Seq(Characters) /\ Len(a) = Len(s) - k /\ \A n \in 1 .. Len(s) - k : a[n] = s[k + n]
  <2>1. \A n \in 1 .. k : n \in 1 .. Len(s)
    BY <1>4
  <2>2. r \in Seq(Characters) /\ Len(r) = k /\ \A n \in 1 .. k : r[n] = s[n]
    BY <1>4, <1>5, <2>1
  <2>3. a \in Seq(Characters) /\ Len(a) = Len(s) - k /\ \A n \in 1 .. Len(s) - k : a[n] = s[k + n]
    BY <1>1, <1>4, <1>5
  <2>4. QED
    BY <2>2, <2>3
<1>7. s = r \o a
  <2>0. r \in Seq(Characters) /\ a \in Seq(Characters)
    BY <1>6
  <2>1. /\ r \o a \in Seq(Characters) /\ Len(r \o a) = Len(r) + Len(a)
        /\ \A n \in 1 .. Len(r) : (r \o a)[n] = r[n]
        /\ \A n \in 1 .. Len(a) : (r \o a)[Len(r) + n] = a[n]
    BY <2>0, ConcatIs
  <2>2. Len(r \o a) = Len(s)
    BY <1>1, <1>4, <1>6, <2>1
  <2>3. ASSUME NEW n \in 1 .. Len(s) PROVE s[n] = (r \o a)[n]
    <3>1. CASE n <= k
      <4>1. n \in 1 .. k
        BY <1>4, <3>1
      <4>2. QED
        BY <1>6, <2>1, <4>1
    <3>2. CASE ~(n <= k)
      <4> DEFINE m == n - k
      <4>1. m \in 1 .. Len(s) - k /\ k + m = n
        BY <1>1, <1>4, <3>2
      <4> HIDE DEF m
      <4>2. (r \o a)[k + m] = s[k + m]
        BY <1>6, <2>1, <4>1
      <4>3. QED
        BY <4>1, <4>2
    <3>3. QED
      BY <3>1, <3>2
  <2>4. QED
    BY <2>1, <2>2, <2>3, SeqEqual
<1>8. r \in Seq(chars)
  BY <1>4, <1>6
<1>9. a # <<>> => a[1] \notin chars
  <2> SUFFICES ASSUME a # <<>> PROVE a[1] \notin chars
    OBVIOUS
  <2>1. Len(a) # 0
    BY <1>6
  <2>2. k < Len(s) /\ 1 \in 1 .. Len(s) - k
    BY <1>1, <1>4, <1>6, <2>1
  <2>3. QED
    BY <1>4, <1>6, <2>2
<1>10. Len(s) = Len(r) + Len(a)
  BY <1>1, <1>4, <1>6
<1>11. QED
  BY <1>6, <1>7, <1>8, <1>9, <1>10 DEF r, a

(* What a key has after the places of its beginning. *)
LEMMA AfterPlaces ==
  ASSUME NEW p \in Seq(Int), NEW q \in Seq(Int)
  PROVE  /\ \A n \in 1 .. Len(p) : At(p \o q, n) = p[n]
         /\ \A n \in Nat \ {0} : At(p \o q, n + Len(p)) = At(q, n)
<1> DEFINE r == p \o q
<1>1. /\ r \in Seq(Int) /\ Len(r) = Len(p) + Len(q)
      /\ \A n \in 1 .. Len(p) : r[n] = p[n]
      /\ \A n \in 1 .. Len(q) : r[Len(p) + n] = q[n]
  BY ConcatIs
<1>2. Len(p) \in Nat /\ Len(q) \in Nat /\ DOMAIN r = 1 .. Len(p) + Len(q) /\ DOMAIN q = 1 .. Len(q)
  BY <1>1
<1> HIDE DEF r
<1>3. ASSUME NEW n \in 1 .. Len(p) PROVE At(r, n) = p[n]
  BY <1>1, <1>2 DEF At
<1>4. ASSUME NEW n \in Nat \ {0} PROVE At(r, n + Len(p)) = At(q, n)
  <2>1. n + Len(p) = Len(p) + n
    BY <1>2
  <2>2. Len(p) + n \in DOMAIN r <=> n \in DOMAIN q
    BY <1>2
  <2>3. n \in DOMAIN q => r[Len(p) + n] = q[n]
    BY <1>1, <1>2
  <2>4. QED
    BY <2>1, <2>2, <2>3 DEF At
<1>5. QED
  BY <1>3, <1>4 DEF r

(* The key of a text that begins with a character that is no digit. *)
LEMMA KeyAtText ==
  ASSUME NEW s \in Seq(Characters), AtText(s)
  PROVE  /\ Tail(s) \in Seq(Characters) /\ Len(Tail(s)) = Len(s) - 1
         /\ At(Key(s), 1) = TextRank(s)
         /\ GoesOn(Key(s), 1, Key(Tail(s)))
<1> DEFINE c == s[1]
           t == Tail(s)
<1>1. s # <<>> /\ c \in Characters /\ ~IsDigit(c)
  BY DEF AtText
<1>2. t \in Seq(Characters) /\ Len(t) = Len(s) - 1 /\ <<c>> \in Seq(Characters) /\ s = <<c>> \o t
  BY <1>1
<1>o. TextRank(s) = Rank(c)
  BY DEF TextRank
<1> HIDE DEF c, t
<1>3. Key(<<c>>) = <<Rank(c)>> /\ Rank(c) \in Int
  BY <1>1, KeyOfText, RankIs
<1>4. <<c>>[Len(<<c>>)] = c
  OBVIOUS
<1>5. Key(s) = <<Rank(c)>> \o Key(t)
  <2>1. Key(<<c>> \o t) = Key(<<c>>) \o Key(t)
    BY <1>1, <1>2, <1>4, KeyJoins
  <2>2. QED
    BY <1>2, <1>3, <2>1
<1> DEFINE p == <<Rank(c)>>
<1>6. p \in Seq(Int) /\ Len(p) = 1 /\ p[1] = Rank(c)
  BY <1>3
<1>7. Key(t) \in Seq(Int)
  BY <1>2, KeyIs
<1>8. Key(s) = p \o Key(t)
  BY <1>5
<1> HIDE DEF p
<1>9. /\ \A n \in 1 .. Len(p) : At(p \o Key(t), n) = p[n]
      /\ \A n \in Nat \ {0} : At(p \o Key(t), n + Len(p)) = At(Key(t), n)
  BY <1>6, <1>7, AfterPlaces
<1>10. QED
  BY <1>2, <1>6, <1>8, <1>9, <1>o DEF t, GoesOn

(* A number, without its leading zeros, and what follows it. *)
LEMMA KeyAtNumber ==
  ASSUME NEW s \in Seq(Characters), ~AtText(s)
  PROVE  LET x == AfterRun(s, {"0"})
             d == Run(x, Digits)
             r == AfterRun(x, Digits)
         IN  /\ Plain(d) /\ r \in Seq(Characters)
             /\ Len(r) <= Len(s) /\ (s # <<>> => Len(r) < Len(s))
             /\ At(Key(s), 1) = 0 /\ At(Key(s), 2) = Value(d)
             /\ GoesOn(Key(s), 2, Key(r))
<1> DEFINE z == Run(s, {"0"})
           x == AfterRun(s, {"0"})
           d == Run(x, Digits)
           r == AfterRun(x, Digits)
<1>1. /\ z \in Seq({"0"}) /\ x \in Seq(Characters) /\ s = z \o x /\ Len(s) = Len(z) + Len(x)
      /\ x # <<>> => x[1] \notin {"0"}
  BY RunIs
<1> HIDE DEF z, x
<1>2. /\ d \in Seq(Digits) /\ r \in Seq(Characters) /\ x = d \o r /\ Len(x) = Len(d) + Len(r)
      /\ r # <<>> => r[1] \notin Digits
  BY <1>1, RunIs
<1> HIDE DEF d, r
<1>3. Plain(d)
  <2> SUFFICES ASSUME d # <<>> PROVE d[1] # "0"
    BY <1>2 DEF Plain
  <2>1. 1 \in 1 .. Len(d)
    BY <1>2
  <2>2. x # <<>> /\ x[1] = d[1]
    BY <1>2, <2>1
  <2>3. QED
    BY <1>1, <2>2
<1> DEFINE b == z \o d
<1>4. b \in Seq(Digits) /\ Value(b) = Value(d)
  BY <1>1, <1>2, ZerosCountNothing
<1>5. s = b \o r /\ Len(b) = Len(z) + Len(d)
  <2>1. z \in Seq(Characters) /\ d \in Seq(Characters)
    <3>1. "0" \in Characters /\ Digits \subseteq Characters
      BY DEF Characters, Digits, Digit
    <3>2. QED
      BY <1>1, <1>2, <3>1
  <2>2. z \o (d \o r) = (z \o d) \o r
    BY <1>2, <2>1, Regroup, SMTT(30)
  <2>3. QED
    BY <1>1, <1>2, <2>1, <2>2
<1>6. Len(s) = Len(b) + Len(r) /\ Len(b) \in Nat /\ Len(r) \in Nat
  <2>1. Len(z) \in Nat /\ Len(d) \in Nat /\ Len(r) \in Nat
    BY <1>1, <1>2
  <2>2. QED
    BY <1>1, <1>2, <1>5, <2>1
<1> HIDE DEF b
<1>7. CASE b = <<>>
  <2>1. s = r
    <3>1. <<>> \o r = r
      BY <1>2, ConcatEmptySeq
    <3>2. QED
      BY <1>5, <1>7, <3>1
  <2>2. s = <<>>
    <3> SUFFICES ASSUME s # <<>> PROVE FALSE
      OBVIOUS
    <3>1. s[1] \notin Digits
      BY <1>2, <2>1
    <3>2. QED
      BY <3>1 DEF AtText, IsDigit, Digits
  <2>3. Key(s) = <<>> /\ Key(r) = <<>>
    <3>1. Parts(<<>>) = <<>>
      BY DEF Parts
    <3>2. Key(<<>>) = <<>>
      <4>1. <<>> \in Seq(Characters)
        OBVIOUS
      <4>2. QED
        BY <3>1, <4>1, PartsAre, FlattenEmpty
    <3>3. QED
      BY <2>1, <2>2, <3>2
  <2>4. At(<<>>, 1) = 0 /\ At(<<>>, 2) = 0 /\ GoesOn(<<>>, 2, <<>>)
    BY DEF At, GoesOn
  <2>5. Value(d) = 0
    <3>1. Len(b) = 0
      BY <1>7
    <3>2. Value(b) = Numbers(b)[0]
      BY <3>1 DEF Value
    <3>3. Numbers(b)[0] = 0
      BY <1>4, DigitsCount
    <3>4. QED
      BY <1>4, <3>2, <3>3
  <2>6. Len(r) <= Len(s)
    BY <1>6
  <2>7. QED
    BY <1>2, <1>3, <2>2, <2>3, <2>4, <2>5, <2>6 DEF x, d, r
<1>8. CASE b # <<>>
  <2> DEFINE p == <<0, Value(b)>>
  <2>1. Key(b) = p
    BY <1>4, <1>8, KeyOfNumber
  <2>2. p \in Seq(Int) /\ Len(p) = 2 /\ p[1] = 0 /\ p[2] = Value(b)
    <3>1. Value(b) \in Nat
      BY <1>4, DigitsCount
    <3> DEFINE w == Value(b)
    <3> HIDE DEF w
    <3>2. w \in Nat => <<0, w>> \in Seq(Int) /\ Len(<<0, w>>) = 2
      OBVIOUS
    <3>3. QED
      BY <3>1, <3>2 DEF w
  <2>3. Key(s) = p \o Key(r)
    <3>1. b \in Seq(Characters)
      BY <1>4, DigitsCount
    <3>2. r # <<>> => ~IsDigit(r[1])
      BY <1>2 DEF IsDigit, Digits
    <3>3. Key(b \o r) = Key(b) \o Key(r)
      BY <1>2, <3>1, <3>2, KeyJoins
    <3>4. QED
      BY <1>5, <2>1, <3>3
  <2>4. Key(r) \in Seq(Int)
    BY <1>2, KeyIs
  <2> HIDE DEF p
  <2>5. /\ \A n \in 1 .. Len(p) : At(p \o Key(r), n) = p[n]
        /\ \A n \in Nat \ {0} : At(p \o Key(r), n + Len(p)) = At(Key(r), n)
    BY <2>2, <2>4, AfterPlaces
  <2>6. At(Key(s), 1) = 0 /\ At(Key(s), 2) = Value(d)
    <3>1. 1 \in 1 .. Len(p) /\ 2 \in 1 .. Len(p)
      BY <2>2
    <3>2. QED
      BY <1>4, <2>2, <2>3, <2>5, <3>1
  <2>7. GoesOn(Key(s), 2, Key(r))
    BY <2>2, <2>3, <2>5 DEF GoesOn
  <2>8. Len(r) < Len(s)
    <3>1. Len(b) # 0
      BY <1>4, <1>8
    <3>2. QED
      BY <1>6, <3>1
  <2>9. Len(r) <= Len(s)
    BY <1>6
  <2>10. QED
    BY <1>2, <1>3, <2>6, <2>7, <2>8, <2>9 DEF x, d, r
<1>9. QED
  BY <1>7, <1>8

(* What is left of two texts, and how their keys compare. *)
Remainders == [left : Seq(Characters), right : Seq(Characters), order : Int]

KeysOf(s) == KeyOrder(Key(s.left), Key(s.right))

Left(s) == Len(s.left) + Len(s.right)

(* How much is left of the two texts. *)
LEMMA LeftIs ==
  ASSUME NEW s \in Remainders
  PROVE  Left(s) \in Nat
<1> DEFINE x == s.left
           y == s.right
<1>1. x \in Seq(Characters) /\ y \in Seq(Characters) /\ Left(s) = Len(x) + Len(y)
  BY DEF Remainders, Left
<1> HIDE DEF x, y
<1>2. Len(x) \in Nat /\ Len(y) \in Nat
  BY <1>1
<1>3. QED
  BY <1>1, <1>2

Passed(s, t) ==
  \/ t.order = 0 /\ KeysOf(t) = KeysOf(s) /\ Left(t) < Left(s)
  \/ t.order # 0 /\ Sign(t.order) = KeysOf(s)

(* A pass over a character that is no digit, on one of the two sides. *)
LEMMA PassTextIs ==
  ASSUME NEW s \in Remainders, s.order = 0, AtText(s.left) \/ AtText(s.right)
  PROVE  PassText(s) \in Remainders /\ Passed(s, PassText(s))
<1> DEFINE x == s.left
           y == s.right
           k == Key(x)
           l == Key(y)
<1>1. x \in Seq(Characters) /\ y \in Seq(Characters) /\ k \in Seq(Int) /\ l \in Seq(Int)
  BY KeyIs DEF Remainders
<1>2. /\ Order(x) \in Int /\ Order(y) \in Int
      /\ (AtText(x) <=> Order(x) # 0) /\ (AtText(y) <=> Order(y) # 0)
  BY <1>1, OrderIs
<1>r. /\ TextRank(x) \in Int /\ TextRank(y) \in Int
      /\ Sign(Order(x) - Order(y)) = Sign(TextRank(x) - TextRank(y))
      /\ Order(x) = Order(y) <=> TextRank(x) = TextRank(y)
  BY <1>1, OrdersAreRanks
<1>3. At(k, 1) = TextRank(x)
  <2>1. CASE AtText(x)
    BY <1>1, <2>1, KeyAtText
  <2>2. CASE ~AtText(x)
    BY <1>1, <2>2, KeyAtNumber DEF TextRank
  <2>3. QED
    BY <2>1, <2>2
<1>4. At(l, 1) = TextRank(y)
  <2>1. CASE AtText(y)
    BY <1>1, <2>1, KeyAtText
  <2>2. CASE ~AtText(y)
    BY <1>1, <2>2, KeyAtNumber DEF TextRank
  <2>3. QED
    BY <2>1, <2>2
<1>5. CASE Order(x) # Order(y)
  <2> DEFINE t == PassText(s)
  <2>1. t = [s EXCEPT !.order = Order(x) - Order(y)]
    BY <1>5 DEF PassText
  <2>2. t \in Remainders /\ t.order = Order(x) - Order(y)
    BY <1>2, <2>1 DEF Remainders
  <2>3. KeyOrder(k, l) = Sign(At(k, 1) - At(l, 1))
    <3>1. 1 \in Nat \ {0} /\ At(k, 1) # At(l, 1) /\ \A m \in 1 .. 1 - 1 : At(k, m) = At(l, m)
      BY <1>r, <1>3, <1>4, <1>5
    <3> HIDE DEF k, l
    <3>2. QED
      BY <1>1, <3>1, FirstPlaceDecides
  <2>4. t.order # 0
    BY <1>2, <1>5, <2>2
  <2> HIDE DEF t
  <2>5. QED
    BY <1>r, <1>3, <1>4, <2>2, <2>3, <2>4 DEF Passed, KeysOf, t
<1>6. CASE Order(x) = Order(y)
  <2> DEFINE t == PassText(s)
             u == Tail(x)
             w == Tail(y)
  <2>1. AtText(x) /\ AtText(y)
    BY <1>2, <1>6
  <2>2. /\ u \in Seq(Characters) /\ Len(u) = Len(x) - 1
        /\ GoesOn(k, 1, Key(u))
    BY <1>1, <2>1, KeyAtText
  <2>3. /\ w \in Seq(Characters) /\ Len(w) = Len(y) - 1
        /\ GoesOn(l, 1, Key(w))
    BY <1>1, <2>1, KeyAtText
  <2>4. t = [s EXCEPT !.left = u, !.right = w]
    BY <1>6 DEF PassText
  <2>5. t \in Remainders /\ t.left = u /\ t.right = w /\ t.order = 0
    BY <2>2, <2>3, <2>4 DEF Remainders
  <2>6. Key(u) \in Seq(Int) /\ Key(w) \in Seq(Int)
    BY <2>2, <2>3, KeyIs
  <2>7. KeyOrder(k, l) = KeyOrder(Key(u), Key(w))
    <3>1. 1 \in Nat /\ SamePlaces(k, l, 1)
      <4>1. \A n \in 1 .. 1 : n = 1
        OBVIOUS
      <4>2. QED
        BY <1>r, <1>3, <1>4, <1>6, <4>1 DEF SamePlaces
    <3> HIDE DEF k, l, u, w
    <3>2. QED
      BY <1>1, <2>2, <2>3, <2>6, <3>1, BeginAlike
  <2>8. Left(t) < Left(s)
    <3>1. Len(x) \in Nat /\ Len(y) \in Nat
      BY <1>1
    <3>2. Left(s) = Len(x) + Len(y) /\ Left(t) = Len(u) + Len(w)
      BY <2>5 DEF Left
    <3>3. Len(u) = Len(x) - 1 /\ Len(w) = Len(y) - 1
      BY <2>2, <2>3
    <3> HIDE DEF x, y, u, w, t
    <3>4. QED
      BY <3>1, <3>2, <3>3
  <2> HIDE DEF t, u, w, k, l
  <2>9. KeysOf(t) = KeysOf(s)
    BY <2>5, <2>7 DEF KeysOf, k, l
  <2>10. QED
    BY <2>5, <2>8, <2>9 DEF Passed, t
<1>7. QED
  BY <1>5, <1>6

(* A pass over two runs of digits. *)
LEMMA PassNumberIs ==
  ASSUME NEW s \in Remainders, s.order = 0, ~AtText(s.left), ~AtText(s.right),
         ~(s.left = <<>> /\ s.right = <<>>)
  PROVE  PassNumber(s) \in Remainders /\ Passed(s, PassNumber(s))
<1> DEFINE x == s.left
           y == s.right
           k == Key(x)
           l == Key(y)
           a == AfterRun(x, {"0"})
           b == AfterRun(y, {"0"})
           c == Run(a, Digits)
           d == Run(b, Digits)
           u == AfterRun(a, Digits)
           w == AfterRun(b, Digits)
           t == PassNumber(s)
<1>1. x \in Seq(Characters) /\ y \in Seq(Characters) /\ k \in Seq(Int) /\ l \in Seq(Int)
  BY KeyIs DEF Remainders
<1>2. /\ Plain(c) /\ u \in Seq(Characters) /\ Len(u) <= Len(x) /\ (x # <<>> => Len(u) < Len(x))
      /\ At(k, 1) = 0 /\ At(k, 2) = Value(c) /\ GoesOn(k, 2, Key(u))
  BY <1>1, KeyAtNumber
<1>3. /\ Plain(d) /\ w \in Seq(Characters) /\ Len(w) <= Len(y) /\ (y # <<>> => Len(w) < Len(y))
      /\ At(l, 1) = 0 /\ At(l, 2) = Value(d) /\ GoesOn(l, 2, Key(w))
  BY <1>1, KeyAtNumber
<1>4. t = [left |-> u, right |-> w, order |-> NumberOrder(c, d)]
  BY DEF PassNumber
<1>x. x = s.left /\ y = s.right
  OBVIOUS
<1>k. KeysOf(s) = KeyOrder(k, l)
  BY DEF KeysOf
<1>n. ~(x = <<>> /\ y = <<>>)
  OBVIOUS
<1>t. t = PassNumber(s)
  OBVIOUS
<1> HIDE DEF a, b, c, d, u, w, k, l, t, x, y
<1>5. NumberOrder(c, d) \in Int /\ Sign(NumberOrder(c, d)) = Sign(Value(c) - Value(d))
  BY <1>2, <1>3, NumberOrderIs
<1>6. t \in Remainders /\ t.left = u /\ t.right = w /\ t.order = NumberOrder(c, d)
  BY <1>2, <1>3, <1>4, <1>5 DEF Remainders
<1>7. Value(c) \in Nat /\ Value(d) \in Nat
  <2>1. c \in Seq(Digits) /\ d \in Seq(Digits)
    BY <1>2, <1>3 DEF Plain
  <2>2. QED
    BY <2>1, DigitsCount
<1>8. t.order = 0 <=> Value(c) = Value(d)
  <2> DEFINE o == t.order
             e == Value(c)
             f == Value(d)
  <2>1. o \in Int /\ e \in Nat /\ f \in Nat /\ Sign(o) = Sign(e - f)
    BY <1>5, <1>6, <1>7
  <2> HIDE DEF o, e, f
  <2>2. o = 0 <=> e = f
    BY <2>1 DEF Sign
  <2>3. QED
    BY <2>2 DEF o, e, f
<1>9. CASE Value(c) # Value(d)
  <2>1. KeyOrder(k, l) = Sign(At(k, 2) - At(l, 2))
    <3>1. 2 \in Nat \ {0} /\ At(k, 2) # At(l, 2)
      BY <1>2, <1>3, <1>9
    <3>2. \A m \in 1 .. 2 - 1 : At(k, m) = At(l, m)
      <4>1. \A m \in 1 .. 2 - 1 : m = 1
        OBVIOUS
      <4>2. QED
        BY <1>2, <1>3, <4>1
    <3>3. QED
      BY <1>1, <3>1, <3>2, FirstPlaceDecides
  <2>2. QED
    BY <1>2, <1>3, <1>5, <1>6, <1>8, <1>9, <1>k, <1>t, <2>1 DEF Passed
<1>10. CASE Value(c) = Value(d)
  <2>1. Key(u) \in Seq(Int) /\ Key(w) \in Seq(Int)
    BY <1>2, <1>3, KeyIs
  <2>2. KeyOrder(k, l) = KeyOrder(Key(u), Key(w))
    <3>1. 2 \in Nat /\ SamePlaces(k, l, 2)
      <4>1. \A n \in 1 .. 2 : n = 1 \/ n = 2
        OBVIOUS
      <4>2. QED
        BY <1>2, <1>3, <1>10, <4>1 DEF SamePlaces
    <3>2. QED
      BY <1>1, <1>2, <1>3, <2>1, <3>1, BeginAlike
  <2>3. Left(t) < Left(s)
    <3>1. x \in Seq(Characters) /\ y \in Seq(Characters) /\ u \in Seq(Characters) /\ w \in Seq(Characters)
      BY <1>1, <1>2, <1>3
    <3>2. Len(x) \in Nat /\ Len(y) \in Nat /\ Len(u) \in Nat /\ Len(w) \in Nat
      BY <3>1
    <3>3. Left(s) = Len(x) + Len(y) /\ Left(t) = Len(u) + Len(w)
      BY <1>6, <1>x DEF Left
    <3>4. /\ Len(u) <= Len(x) /\ Len(w) <= Len(y)
          /\ Len(u) < Len(x) \/ Len(w) < Len(y)
      BY <1>2, <1>3, <1>n
    <3>5. QED
      BY <3>2, <3>3, <3>4
  <2>4. KeysOf(t) = KeysOf(s)
    BY <1>6, <1>k, <2>2 DEF KeysOf
  <2>5. QED
    BY <1>6, <1>8, <1>10, <1>t, <2>3, <2>4 DEF Passed
<1>11. QED
  BY <1>9, <1>10

(* Every pass keeps the order of the keys of what is left, or decides it. *)
LEMMA PassIs ==
  ASSUME NEW s \in Remainders
  PROVE  /\ Pass(s) \in Remainders
         /\ IF s.order # 0 \/ (s.left = <<>> /\ s.right = <<>>) THEN Pass(s) = s ELSE Passed(s, Pass(s))
<1>1. CASE s.order # 0 \/ (s.left = <<>> /\ s.right = <<>>)
  BY <1>1 DEF Pass
<1>2. CASE ~(s.order # 0 \/ (s.left = <<>> /\ s.right = <<>>)) /\ (AtText(s.left) \/ AtText(s.right))
  BY <1>2, PassTextIs DEF Pass
<1>3. CASE ~(s.order # 0 \/ (s.left = <<>> /\ s.right = <<>>)) /\ ~(AtText(s.left) \/ AtText(s.right))
  BY <1>3, PassNumberIs DEF Pass
<1>4. QED
  BY <1>1, <1>2, <1>3

(* The walk through two texts: unless it is over, it has at most as many    *)
(* characters left as passes.                                               *)
LEMMA CompareIs ==
  ASSUME NEW a \in Seq(Characters), NEW b \in Seq(Characters)
  PROVE  CompareFragment(a, b) \in Int /\ Sign(CompareFragment(a, b)) = KeyOrder(Key(a), Key(b))
<1> DEFINE N == Len(a) + Len(b)
           first == [left |-> a, right |-> b, order |-> 0]
           S == Remainders
           R == [nx \in (1 .. N) \X S |-> Pass(nx[2])]
           Is(v) == v = [n \in 0 .. N |-> IF n = 0 THEN first ELSE Pass(v[n - 1])]
<1>1. N \in Nat /\ first \in S
  BY DEF Remainders
<1>2. R \in [(1 .. N) \X S -> S]
  BY PassIs
<1>3. PICK f : Recurs(f, S, first, N, R)
  <2> HIDE DEF R, N, S, first
  <2>1. QED
    BY <1>1, <1>2, RecursionIs
<1>4. f \in [0 .. N -> S] /\ f[0] = first /\ \A n \in 1 .. N : f[n] = R[<<n, f[n - 1]>>]
  BY <1>3 DEF Recurs
<1> HIDE DEF S, first
<1>5. ASSUME NEW n \in 1 .. N PROVE f[n] = Pass(f[n - 1])
  <2> DEFINE k == n - 1
  <2>1. k \in 0 .. N
    BY <1>1
  <2>2. f[n] = R[<<n, f[k]>>]
    BY <1>4
  <2> HIDE DEF k
  <2>3. f[k] \in S
    BY <1>4, <2>1
  <2>4. R[<<n, f[k]>>] = Pass(f[k])
    BY <2>3
  <2>5. QED
    BY <2>2, <2>4 DEF k
<1>6. Is(f)
  <2>1. ASSUME NEW n \in 0 .. N PROVE f[n] = IF n = 0 THEN first ELSE Pass(f[n - 1])
    <3>1. n # 0 => n \in 1 .. N
      BY <1>1
    <3>2. QED
      BY <1>4, <1>5, <3>1
  <2>2. f = [n \in 0 .. N |-> f[n]]
    BY <1>4
  <2>3. QED
    BY <2>1, <2>2
<1> DEFINE v == CHOOSE v : Is(v)
<1>7. Is(v)
  <2> HIDE DEF Is
  <2>1. QED
    BY <1>6
<1>8. CompareFragment(a, b) = v[N].order
  BY DEF CompareFragment, Passes, first
<1> HIDE DEF v
<1>9. v[0] = first /\ \A n \in 1 .. N : v[n] = Pass(v[n - 1])
  <2>1. v[0] = first
    BY <1>1, <1>7
  <2>2. ASSUME NEW n \in 1 .. N PROVE v[n] = Pass(v[n - 1])
    <3>1. n \in 0 .. N /\ n # 0
      BY <1>1
    <3>2. QED
      BY <1>7, <3>1
  <2>3. QED
    BY <2>1, <2>2
<1> DEFINE keys == KeyOrder(Key(a), Key(b))
           Fine(s, n) == /\ s \in Remainders
                         /\ s.order = 0 => /\ KeysOf(s) = keys
                                           /\ (s.left = <<>> /\ s.right = <<>>) \/ Left(s) + n <= N
                         /\ s.order # 0 => Sign(s.order) = keys
           fine == {n \in Nat : n <= N => Fine(v[n], n)}
<1>10. 0 \in fine
  <2>1. first.left = a /\ first.right = b /\ first.order = 0
    BY DEF first
  <2>2. Fine(first, 0)
    BY <1>1, <2>1 DEF KeysOf, Left, S
  <2> HIDE DEF Fine
  <2>3. QED
    BY <1>9, <2>2
<1>11. ASSUME NEW n \in Nat, n \in fine PROVE n + 1 \in fine
  <2> DEFINE m == n + 1
  <2> SUFFICES ASSUME m <= N PROVE Fine(v[m], m)
    OBVIOUS
  <2>1. m \in 1 .. N /\ m - 1 = n /\ Fine(v[n], n) /\ m = n + 1 /\ m \in Nat
    BY <1>1, <1>11
  <2> HIDE DEF m
  <2>2. v[m] = Pass(v[n])
    BY <1>9, <2>1
  <2> DEFINE s == v[n]
             t == Pass(s)
  <2>3. s \in Remainders
    BY <2>1
  <2>4. /\ t \in Remainders
        /\ IF s.order # 0 \/ (s.left = <<>> /\ s.right = <<>>) THEN t = s ELSE Passed(s, t)
    BY <2>3, PassIs
  <2>5. Left(s) \in Nat /\ Left(t) \in Nat
    BY <2>3, <2>4, LeftIs
  <2>s. Fine(s, n)
    BY <2>1
  <2> SUFFICES Fine(t, m)
    BY <2>2
  <2> HIDE DEF s, t, keys, N
  <2>6. CASE s.order # 0 \/ (s.left = <<>> /\ s.right = <<>>)
    BY <2>1, <2>4, <2>5, <2>6, <2>s
  <2>7. CASE ~(s.order # 0 \/ (s.left = <<>> /\ s.right = <<>>))
    <3>1. Passed(s, t) /\ s.order = 0 /\ KeysOf(s) = keys /\ Left(s) + n <= N
      BY <2>4, <2>7, <2>s
    <3>2. CASE t.order = 0 /\ KeysOf(t) = KeysOf(s) /\ Left(t) < Left(s)
      <4>1. Left(t) + m <= N
        BY <1>1, <2>1, <2>5, <3>1, <3>2
      <4>2. QED
        BY <2>4, <3>1, <3>2, <4>1
    <3>3. CASE t.order # 0 /\ Sign(t.order) = KeysOf(s)
      BY <2>4, <3>1, <3>3
    <3>4. QED
      BY <3>1, <3>2, <3>3 DEF Passed
  <2> HIDE DEF Fine
  <2>8. QED
    BY <2>6, <2>7
<1>12. Fine(v[N], N)
  <2> HIDE DEF Fine
  <2>1. N \in fine
    <3> HIDE DEF fine
    <3>1. QED
      BY <1>1, <1>10, <1>11, NatsFromZero
  <2>2. QED
    BY <1>1, <2>1
<1> DEFINE e == v[N]
<1>13. e \in Remainders /\ e.order \in Int /\ e.left \in Seq(Characters) /\ e.right \in Seq(Characters)
  BY <1>12 DEF Remainders
<1>14. CASE e.order # 0
  BY <1>8, <1>12, <1>13, <1>14
<1>15. CASE e.order = 0
  <2>1. e.left = <<>> /\ e.right = <<>>
    <3> SUFFICES ASSUME Left(e) + N <= N PROVE e.left = <<>> /\ e.right = <<>>
      BY <1>12, <1>15
    <3> DEFINE x == e.left
               y == e.right
    <3>1. Left(e) = Len(x) + Len(y) /\ x \in Seq(Characters) /\ y \in Seq(Characters)
      BY <1>13 DEF Left
    <3> HIDE DEF x, y
    <3>2. Len(x) = 0 /\ Len(y) = 0
      BY <1>1, <3>1
    <3>3. x = <<>> /\ y = <<>>
      BY <3>1, <3>2
    <3>4. QED
      BY <3>3 DEF x, y
  <2>2. KeysOf(e) = 0
    <3> DEFINE k == Key(<<>>)
    <3>1. KeysOf(e) = KeyOrder(k, k)
      BY <2>1 DEF KeysOf
    <3> HIDE DEF k
    <3>2. KeyOrder(k, k) = 0
      BY DEF KeyOrder
    <3>3. QED
      BY <3>1, <3>2
  <2>3. keys = 0
    BY <1>12, <1>15, <2>2
  <2>4. QED
    BY <1>8, <1>13, <1>15, <2>3 DEF Sign
<1>16. QED
  BY <1>14, <1>15

(* Places of a colon and a hyphen. *)
LEMMA ColonIs ==
  ASSUME NEW v \in Seq(Characters)
  PROVE  Colon(v) \in 0 .. Len(v)
<1> DEFINE I == {i \in 1 .. Len(v) : v[i] = ":"}
           first == IF I # {} THEN Min(I) ELSE 0
<1>1. Len(v) \in Nat /\ I \subseteq 1 .. Len(v)
  OBVIOUS
<1>2. Colon(v) = first
  BY DEF Colon, SelectInSeq
<1>3. first = 0 \/ first \in I
  <2> HIDE DEF I, first
  <2>1. first = IF I # {} THEN Min(I) ELSE 0
    BY DEF first
  <2>2. QED
    BY <1>1, <2>1, FirstIs
<1> HIDE DEF first
<1>4. QED
  BY <1>1, <1>2, <1>3

(* The last hyphen of a version. *)
LEMMA HyphenIs ==
  ASSUME NEW v \in Seq(Characters)
  PROVE  Hyphen(v) \in 0 .. Len(v)
<1> DEFINE N == Len(v)
           I == {i \in 1 .. N : v[i] = "-"}
           J == {N - i : i \in I}
           last == IF I # {} THEN Max(I) ELSE 0
<1>1. N \in Nat /\ I \subseteq 1 .. N
  OBVIOUS
<1>2. Hyphen(v) = last
  BY DEF Hyphen, SelectLastInSeq
<1>3. CASE I = {}
  BY <1>1, <1>2, <1>3
<1>4. CASE I # {}
  <2>1. J \subseteq Nat /\ J # {}
    BY <1>1, <1>4
  <2>2. PICK j \in J : \A o \in J : j <= o
    <3> HIDE DEF J
    <3>1. Min(J) \in J /\ \A o \in J : Min(J) <= o
      BY <2>1, LeastIs
    <3>2. QED
      BY <3>1
  <2>3. PICK i \in I : j = N - i
    BY <2>2
  <2>4. ASSUME NEW o \in I PROVE i >= o
    <3>1. j <= N - o
      BY <2>2
    <3>2. QED
      BY <1>1, <2>3, <3>1
  <2> HIDE DEF I
  <2>5. Max(I) \in I
    BY <2>3, <2>4 DEF Max
  <2>6. QED
    BY <1>1, <1>2, <1>4, <2>5
<1>5. QED
  BY <1>3, <1>4

(* The end of a text is a text. *)
LEMMA FromIs ==
  ASSUME NEW v \in Seq(Characters), NEW n \in 1 .. Len(v) + 1
  PROVE  From(v, n) \in Seq(Characters)
<1>1. Len(v) \in Nat /\ \A i \in n .. Len(v) : v[i] \in Characters
  OBVIOUS
<1>2. QED
  BY <1>1, SubSeqProperties DEF From

(* A version is split into parts whose order is known. *)
LEMMA SplitIs ==
  ASSUME NEW v \in Seq(Characters), IsVersion(v)
  PROVE  /\ SplitVersion(v) = [epoch |-> Epoch(v), upstream |-> Upstream(v), revision |-> Revision(v)]
         /\ Epoch(v) \in Nat /\ Upstream(v) \in Seq(Characters) /\ Revision(v) \in Seq(Characters)
<1> DEFINE before == SubSeq(v, 1, Colon(v) - 1)
           epoch == Colon(v) # 0 /\ IsInt(before)
           text == IF epoch THEN From(v, Colon(v) + 1) ELSE v
<1>1. Colon(v) \in 0 .. Len(v) /\ Len(v) \in Nat
  BY ColonIs
<1>2. epoch = (Colon(v) # 0)
  BY DEF IsVersion, IsInt
<1>3. Colon(v) # 0 => before # <<>> /\ before \in Seq(Digits)
  <2> SUFFICES ASSUME Colon(v) # 0 PROVE before # <<>> /\ before \in Seq(Digits)
    OBVIOUS
  <2>1. before # <<>> /\ \A n \in DOMAIN before : IsDigit(before[n])
    BY DEF IsVersion, AllDigits
  <2>2. before \in Seq(Characters)
    BY <1>1
  <2> HIDE DEF before
  <2>3. Len(before) \in Nat /\ before \in [1 .. Len(before) -> Digits]
    BY <2>1, <2>2 DEF IsDigit, Digits
  <2>4. QED
    BY <2>1, <2>3
<1>4. Colon(v) # 0 => Atoi(before) = Value(before) /\ Value(before) \in Nat
  <2> SUFFICES ASSUME Colon(v) # 0 PROVE Atoi(before) = Value(before) /\ Value(before) \in Nat
    OBVIOUS
  <2> HIDE DEF before
  <2>1. before[1] \in Digits
    BY <1>3
  <2>2. before[1] \notin {"-", "+"}
    BY <2>1, DigitIs
  <2>3. QED
    BY <1>3, <2>2, DigitsCount DEF Atoi
<1>5. Epoch(v) = IF epoch THEN Atoi(before) ELSE 0
  BY <1>2, <1>4 DEF Epoch
<1>6. Epoch(v) \in Nat
  BY <1>2, <1>4, <1>5
<1>7. text = Unepoched(v) /\ text \in Seq(Characters)
  <2>1. CASE epoch
    <3>1. Colon(v) + 1 \in 1 .. Len(v) + 1
      BY <1>1
    <3>2. From(v, Colon(v) + 1) \in Seq(Characters)
      BY <3>1, FromIs
    <3>3. QED
      BY <2>1, <3>2 DEF Unepoched
  <2>2. CASE ~epoch
    <3>1. Colon(v) + 1 = 1
      BY <1>2, <2>2
    <3>2. SubSeq(v, 1, Len(v)) = v
      BY SubSeqFull
    <3>3. QED
      BY <2>2, <3>1, <3>2 DEF Unepoched, From
  <2>3. QED
    BY <2>1, <2>2
<1>8. SplitVersion(v) =
        [epoch    |-> IF epoch THEN Atoi(before) ELSE 0,
         upstream |-> IF Hyphen(text) = 0 THEN text ELSE SubSeq(text, 1, Hyphen(text) - 1),
         revision |-> IF Hyphen(text) = 0 THEN <<>> ELSE From(text, Hyphen(text) + 1)]
  BY DEF SplitVersion
<1> HIDE DEF text, epoch, before
<1>9. /\ Upstream(v) = IF Hyphen(text) = 0 THEN text ELSE SubSeq(text, 1, Hyphen(text) - 1)
      /\ Revision(v) = IF Hyphen(text) = 0 THEN <<>> ELSE From(text, Hyphen(text) + 1)
  BY <1>7 DEF Upstream, Revision
<1>10. Hyphen(text) \in 0 .. Len(text) /\ Len(text) \in Nat
  BY <1>7, HyphenIs
<1>11. Upstream(v) \in Seq(Characters)
  <2> DEFINE h == Hyphen(text) - 1
  <2>1. h \in Int /\ \A i \in 1 .. h : i \in 1 .. Len(text)
    BY <1>10
  <2>2. \A i \in 1 .. h : text[i] \in Characters
    BY <1>7, <2>1
  <2> HIDE DEF h
  <2>3. SubSeq(text, 1, h) \in Seq(Characters)
    BY <2>1, <2>2, SubSeqProperties
  <2>4. QED
    BY <1>7, <1>9, <2>3 DEF h
<1>12. Revision(v) \in Seq(Characters)
  <2>1. Hyphen(text) + 1 \in 1 .. Len(text) + 1
    BY <1>10
  <2>2. From(text, Hyphen(text) + 1) \in Seq(Characters)
    BY <1>7, <2>1, FromIs
  <2>3. <<>> \in Seq(Characters)
    OBVIOUS
  <2>4. QED
    BY <1>9, <2>2, <2>3
<1>13. QED
  BY <1>5, <1>6, <1>8, <1>9, <1>11, <1>12

(* The early returns of CompareVersions are the order of dpkg. *)
LEMMA VersionsCompare ==
  ASSUME NEW a \in Seq(Characters), NEW b \in Seq(Characters), IsVersion(a), IsVersion(b)
  PROVE  Sign(CompareVersions(a, b)) = DpkgOrder(a, b)
<1>1. /\ SplitVersion(a) = [epoch |-> Epoch(a), upstream |-> Upstream(a), revision |-> Revision(a)]
      /\ Epoch(a) \in Nat /\ Upstream(a) \in Seq(Characters) /\ Revision(a) \in Seq(Characters)
  BY SplitIs
<1>2. /\ SplitVersion(b) = [epoch |-> Epoch(b), upstream |-> Upstream(b), revision |-> Revision(b)]
      /\ Epoch(b) \in Nat /\ Upstream(b) \in Seq(Characters) /\ Revision(b) \in Seq(Characters)
  BY SplitIs
<1> DEFINE c == CompareFragment(Upstream(a), Upstream(b))
           d == CompareFragment(Revision(a), Revision(b))
           k == KeyOrder(Key(Upstream(a)), Key(Upstream(b)))
           l == KeyOrder(Key(Revision(a)), Key(Revision(b)))
           e == Epoch(a)
           f == Epoch(b)
<1>3. CompareVersions(a, b) = IF e # f THEN IF e < f THEN -1 ELSE 1 ELSE IF c # 0 THEN c ELSE d
  BY <1>1, <1>2 DEF CompareVersions
<1>4. DpkgOrder(a, b) = IF e # f THEN Sign(e - f) ELSE IF k # 0 THEN k ELSE l
  BY DEF DpkgOrder
<1>5. c \in Int /\ Sign(c) = k /\ d \in Int /\ Sign(d) = l
  BY <1>1, <1>2, CompareIs
<1>6. e \in Nat /\ f \in Nat
  BY <1>1, <1>2
<1> HIDE DEF c, d, k, l, e, f
<1>7. CASE e # f
  BY <1>3, <1>4, <1>6, <1>7 DEF Sign
<1>8. CASE e = f
  BY <1>3, <1>4, <1>5, <1>8 DEF Sign
<1>9. QED
  BY <1>7, <1>8

(* ComparesLikeDpkg, for versions of any length, any characters, and        *)
(* numbers of any size.                                                     *)
THEOREM OrdersLikeDpkg == Spec => []ComparesLikeDpkg
<1>1. Answered => ComparesLikeDpkg
  <2> SUFFICES ASSUME Answered, Of("version"), IsVersion(question.left), IsVersion(question.right)
               PROVE  Sign(answer) = DpkgOrder(question.left, question.right)
    BY DEF ComparesLikeDpkg
  <2> DEFINE a == question.left
             b == question.right
  <2>1. a \in Seq(Characters) /\ b \in Seq(Characters)
    BY OfIs DEF Of, AVersionPair
  <2>2. answer = CompareVersions(a, b)
    BY DEF Of, Answered
  <2>3. IsVersion(a) /\ IsVersion(b)
    OBVIOUS
  <2> HIDE DEF a, b
  <2>4. Sign(answer) = DpkgOrder(a, b)
    BY <2>1, <2>2, <2>3, VersionsCompare
  <2>5. QED
    BY <2>4 DEF a, b
<1>2. QED
  BY <1>1, Answers, PTL

-----------------------------------------------------------------------------
(* What "the highest version" rests on: the order is one. How a and c       *)
(* compare follows from how each compares with b.                           *)
Composes(ab, bc, ac) ==
  ab <= 0 /\ bc <= 0 => ac <= 0 /\ (ac = 0 => ab = 0 /\ bc = 0)

Then(first, second) == IF first # 0 THEN first ELSE second

(* Two orders, one after the other, compose when each does. *)
LEMMA ThenComposes ==
  ASSUME NEW o \in Int, NEW p \in Int, NEW q \in Int, NEW x \in Int, NEW y \in Int, NEW z \in Int,
         Composes(o, p, q), Composes(x, y, z)
  PROVE  Composes(Then(o, x), Then(p, y), Then(q, z))
BY DEF Composes, Then

(* Two integers that add up to 0 are opposites. *)
LEMMA Opposite ==
  ASSUME NEW z \in Int, NEW w \in Int, z + w = 0
  PROVE  w = -z
OBVIOUS

(* The order of keys is antisymmetric and transitive. *)
LEMMA KeysCompose ==
  ASSUME NEW k \in Seq(Int), NEW l \in Seq(Int), NEW m \in Seq(Int)
  PROVE  /\ KeyOrder(k, l) \in Int /\ KeyOrder(l, k) = -KeyOrder(k, l)
         /\ Composes(KeyOrder(k, l), KeyOrder(l, m), KeyOrder(k, m))
<1> DEFINE o == KeyOrder(k, l)
           p == KeyOrder(l, m)
           q == KeyOrder(k, m)
<1>t. \A n \in Nat : At(k, n) \in Int /\ At(l, n) \in Int /\ At(m, n) \in Int
  BY AtIs
<1>1. \/ o = 0 /\ \A n \in Nat \ {0} : At(k, n) = At(l, n)
      \/ \E n \in Nat \ {0} : /\ o = Sign(At(k, n) - At(l, n))
                              /\ At(k, n) # At(l, n) /\ \A i \in 1 .. n - 1 : At(k, i) = At(l, i)
  BY KeyOrderIs
<1>2. \/ p = 0 /\ \A n \in Nat \ {0} : At(l, n) = At(m, n)
      \/ \E n \in Nat \ {0} : /\ p = Sign(At(l, n) - At(m, n))
                              /\ At(l, n) # At(m, n) /\ \A i \in 1 .. n - 1 : At(l, i) = At(m, i)
  BY KeyOrderIs
<1>3. \/ q = 0 /\ \A n \in Nat \ {0} : At(k, n) = At(m, n)
      \/ \E n \in Nat \ {0} : /\ q = Sign(At(k, n) - At(m, n))
                              /\ At(k, n) # At(m, n) /\ \A i \in 1 .. n - 1 : At(k, i) = At(m, i)
  BY KeyOrderIs
<1>4. o \in Int /\ KeyOrder(l, k) = -o
  <2>1. CASE o = 0 /\ \A n \in Nat \ {0} : At(k, n) = At(l, n)
    <3>1. KeyOrder(l, k) = 0
      BY <2>1, KeyOrderIs
    <3>2. o = 0
      BY <2>1
    <3>3. o \in Int /\ KeyOrder(l, k) \in Int /\ o + KeyOrder(l, k) = 0
      BY <3>1, <3>2
    <3> HIDE DEF o
    <3>4. QED
      BY <3>3, Opposite
  <2>2. ASSUME NEW n \in Nat \ {0}, o = Sign(At(k, n) - At(l, n)), At(k, n) # At(l, n),
               \A i \in 1 .. n - 1 : At(k, i) = At(l, i)
        PROVE  o \in Int /\ KeyOrder(l, k) = -o
    <3>1. KeyOrder(l, k) = Sign(At(l, n) - At(k, n))
      BY <2>2, FirstPlaceDecides
    <3> DEFINE a == At(k, n)
               b == At(l, n)
    <3>2. a \in Int /\ b \in Int /\ o = Sign(a - b) /\ KeyOrder(l, k) = Sign(b - a)
      BY <1>t, <2>2, <3>1
    <3> HIDE DEF a, b, o
    <3>3. QED
      BY <3>2 DEF Sign
  <2>3. QED
    BY <1>1, <2>1, <2>2
<1> HIDE DEF o, p, q
<1>5. ASSUME NEW n \in Nat \ {0}, At(k, n) < At(m, n), \A i \in 1 .. n - 1 : At(k, i) = At(m, i)
      PROVE  q \in Int /\ q < 0
  <2>1. At(k, n) # At(m, n)
    BY <1>t, <1>5
  <2>2. q = Sign(At(k, n) - At(m, n))
    BY <1>5, <2>1, FirstPlaceDecides DEF q
  <2> DEFINE a == At(k, n)
             b == At(m, n)
  <2>3. a \in Int /\ b \in Int /\ a < b /\ q = Sign(a - b)
    BY <1>t, <1>5, <2>2
  <2> HIDE DEF a, b
  <2>4. QED
    BY <2>3 DEF Sign
<1>6. ASSUME NEW x \in Int, NEW y \in Int, x # y, Sign(x - y) <= 0 PROVE x < y
  BY <1>6 DEF Sign
<1>7. Composes(o, p, q)
  <2> SUFFICES ASSUME o <= 0, p <= 0 PROVE q <= 0 /\ (q = 0 => o = 0 /\ p = 0)
    BY DEF Composes
  <2>1. CASE /\ o = 0 /\ \A n \in Nat \ {0} : At(k, n) = At(l, n)
             /\ p = 0 /\ \A n \in Nat \ {0} : At(l, n) = At(m, n)
    <3>1. \A n \in Nat \ {0} : At(k, n) = At(m, n)
      BY <2>1
    <3>2. q = 0
      BY <1>3, <3>1
    <3>3. QED
      BY <2>1, <3>2
  <2>2. CASE o = 0 /\ \A n \in Nat \ {0} : At(k, n) = At(l, n)
    <3>1. CASE p = 0 /\ \A n \in Nat \ {0} : At(l, n) = At(m, n)
      BY <2>1, <2>2, <3>1
    <3>2. ASSUME NEW n \in Nat \ {0}, p = Sign(At(l, n) - At(m, n)), At(l, n) # At(m, n),
                 \A i \in 1 .. n - 1 : At(l, i) = At(m, i)
          PROVE  q \in Int /\ q < 0
      <4>1. At(l, n) < At(m, n)
        BY <1>t, <1>6, <3>2
      <4>2. At(k, n) < At(m, n) /\ \A i \in 1 .. n - 1 : At(k, i) = At(m, i)
        BY <2>2, <3>2, <4>1
      <4>3. QED
        BY <1>5, <4>2
    <3>3. QED
      BY <1>2, <3>1, <3>2
  <2>3. ASSUME NEW n \in Nat \ {0}, o = Sign(At(k, n) - At(l, n)), At(k, n) # At(l, n),
               \A i \in 1 .. n - 1 : At(k, i) = At(l, i)
        PROVE  q \in Int /\ q < 0
    <3>1. At(k, n) < At(l, n)
      BY <1>t, <1>6, <2>3
    <3>2. CASE p = 0 /\ \A i \in Nat \ {0} : At(l, i) = At(m, i)
      <4>1. At(k, n) < At(m, n) /\ \A i \in 1 .. n - 1 : At(k, i) = At(m, i)
        BY <2>3, <3>1, <3>2
      <4>2. QED
        BY <1>5, <4>1
    <3>3. ASSUME NEW j \in Nat \ {0}, p = Sign(At(l, j) - At(m, j)), At(l, j) # At(m, j),
                 \A i \in 1 .. j - 1 : At(l, i) = At(m, i)
          PROVE  q \in Int /\ q < 0
      <4>1. At(l, j) < At(m, j)
        BY <1>t, <1>6, <3>3
      <4>2. CASE n < j
        <5>1. n \in 1 .. j - 1 /\ \A i \in 1 .. n - 1 : i \in 1 .. j - 1
          BY <4>2
        <5>2. At(k, n) < At(m, n) /\ \A i \in 1 .. n - 1 : At(k, i) = At(m, i)
          BY <2>3, <3>1, <3>3, <5>1
        <5>3. QED
          BY <1>5, <5>2
      <4>3. CASE j < n
        <5>1. j \in 1 .. n - 1 /\ \A i \in 1 .. j - 1 : i \in 1 .. n - 1
          BY <4>3
        <5>2. At(k, j) < At(m, j) /\ \A i \in 1 .. j - 1 : At(k, i) = At(m, i)
          BY <2>3, <3>3, <4>1, <5>1
        <5>3. QED
          BY <1>5, <5>2
      <4>4. CASE j = n
        <5>1. At(k, n) < At(m, n)
          BY <1>t, <3>1, <4>1, <4>4
        <5>2. \A i \in 1 .. n - 1 : At(k, i) = At(m, i)
          BY <2>3, <3>3, <4>4
        <5>3. QED
          BY <1>5, <5>1, <5>2
      <4>5. QED
        BY <4>2, <4>3, <4>4
    <3>4. QED
      BY <1>2, <3>2, <3>3
  <2>4. QED
    BY <1>1, <2>2, <2>3
<1>8. QED
  BY <1>4, <1>7 DEF o, p, q

(* So is the order of versions: epoch, upstream version, revision. *)
LEMMA DpkgComposes ==
  ASSUME NEW a \in Seq(Characters), NEW b \in Seq(Characters), NEW c \in Seq(Characters),
         IsVersion(a), IsVersion(b), IsVersion(c)
  PROVE  /\ DpkgOrder(a, b) \in Int /\ DpkgOrder(b, a) = -DpkgOrder(a, b)
         /\ Composes(DpkgOrder(a, b), DpkgOrder(b, c), DpkgOrder(a, c))
<1> DEFINE E(v, w) == Sign(Epoch(v) - Epoch(w))
           U(v, w) == KeyOrder(Key(Upstream(v)), Key(Upstream(w)))
           D(v, w) == KeyOrder(Key(Revision(v)), Key(Revision(w)))
           V == {a, b, c}
<1>1. \A v \in V : /\ Epoch(v) \in Nat
                   /\ Key(Upstream(v)) \in Seq(Int) /\ Key(Revision(v)) \in Seq(Int)
  BY SplitIs, KeyIs
<1>2. ASSUME NEW v \in V, NEW w \in V PROVE DpkgOrder(v, w) = Then(E(v, w), Then(U(v, w), D(v, w)))
  <2>1. Epoch(v) \in Nat /\ Epoch(w) \in Nat
    BY <1>1
  <2> DEFINE e == Epoch(v)
             f == Epoch(w)
  <2> HIDE DEF e, f
  <2>2. e \in Nat /\ f \in Nat => (e # f <=> Sign(e - f) # 0)
    BY DEF Sign
  <2>3. Epoch(v) # Epoch(w) <=> E(v, w) # 0
    BY <2>1, <2>2 DEF e, f
  <2> HIDE DEF E
  <2>4. DpkgOrder(v, w) = IF Epoch(v) # Epoch(w) THEN E(v, w) ELSE IF U(v, w) # 0 THEN U(v, w) ELSE D(v, w)
    BY DEF DpkgOrder, E
  <2> HIDE DEF U, D
  <2>5. QED
    BY <2>3, <2>4 DEF Then
<1>3. ASSUME NEW u \in V, NEW v \in V, NEW w \in V
      PROVE  E(u, v) \in Int /\ E(v, u) = -E(u, v) /\ Composes(E(u, v), E(v, w), E(u, w))
  <2> DEFINE e == Epoch(u)
             f == Epoch(v)
             g == Epoch(w)
  <2>1. e \in Nat /\ f \in Nat /\ g \in Nat
    BY <1>1
  <2> HIDE DEF e, f, g
  <2>2. /\ Sign(e - f) \in Int /\ Sign(f - e) = -Sign(e - f)
        /\ Composes(Sign(e - f), Sign(f - g), Sign(e - g))
    BY <2>1 DEF Sign, Composes
  <2>3. QED
    BY <2>2 DEF e, f, g
<1>4. ASSUME NEW u \in V, NEW v \in V, NEW w \in V
      PROVE  U(u, v) \in Int /\ U(v, u) = -U(u, v) /\ Composes(U(u, v), U(v, w), U(u, w))
  BY <1>1, KeysCompose
<1>5. ASSUME NEW u \in V, NEW v \in V, NEW w \in V
      PROVE  D(u, v) \in Int /\ D(v, u) = -D(u, v) /\ Composes(D(u, v), D(v, w), D(u, w))
  BY <1>1, KeysCompose
<1> HIDE DEF E, U, D
<1>6. a \in V /\ b \in V /\ c \in V
  OBVIOUS
<1> HIDE DEF V
<1>7. /\ E(a, b) \in Int /\ E(b, c) \in Int /\ E(a, c) \in Int /\ E(b, a) = -E(a, b)
      /\ U(a, b) \in Int /\ U(b, c) \in Int /\ U(a, c) \in Int /\ U(b, a) = -U(a, b)
      /\ D(a, b) \in Int /\ D(b, c) \in Int /\ D(a, c) \in Int /\ D(b, a) = -D(a, b)
  BY <1>3, <1>4, <1>5, <1>6
<1>8. /\ Composes(E(a, b), E(b, c), E(a, c))
      /\ Composes(U(a, b), U(b, c), U(a, c))
      /\ Composes(D(a, b), D(b, c), D(a, c))
  BY <1>3, <1>4, <1>5, <1>6
<1>9. /\ Then(U(a, b), D(a, b)) \in Int /\ Then(U(b, c), D(b, c)) \in Int /\ Then(U(a, c), D(a, c)) \in Int
      /\ Composes(Then(U(a, b), D(a, b)), Then(U(b, c), D(b, c)), Then(U(a, c), D(a, c)))
  <2>1. Composes(Then(U(a, b), D(a, b)), Then(U(b, c), D(b, c)), Then(U(a, c), D(a, c)))
    BY <1>7, <1>8, ThenComposes
  <2>2. QED
    BY <1>7, <2>1 DEF Then
<1>10. Composes(DpkgOrder(a, b), DpkgOrder(b, c), DpkgOrder(a, c))
  <2>1. Composes(Then(E(a, b), Then(U(a, b), D(a, b))), Then(E(b, c), Then(U(b, c), D(b, c))),
                 Then(E(a, c), Then(U(a, c), D(a, c))))
    BY <1>7, <1>8, <1>9, ThenComposes
  <2>2. QED
    BY <1>2, <1>6, <2>1
<1>11. DpkgOrder(a, b) \in Int /\ DpkgOrder(b, a) = -DpkgOrder(a, b)
  <2>1. /\ DpkgOrder(a, b) = Then(E(a, b), Then(U(a, b), D(a, b)))
        /\ DpkgOrder(b, a) = Then(E(b, a), Then(U(b, a), D(b, a)))
    BY <1>2, <1>6
  <2>2. QED
    BY <1>7, <2>1, SMTT(30) DEF Then
<1>12. QED
  BY <1>10, <1>11

(* CompareVersions, called with two versions either way round and with a    *)
(* third, never contradicts itself: Resolve's choice does not depend on the *)
(* order in which the indexes name the versions.                            *)
THEOREM VersionsAreOrdered ==
  ASSUME NEW a \in Seq(Characters), NEW b \in Seq(Characters), NEW c \in Seq(Characters),
         IsVersion(a), IsVersion(b), IsVersion(c)
  PROVE  /\ Sign(CompareVersions(a, b)) = -Sign(CompareVersions(b, a))
         /\ Sign(CompareVersions(a, b)) <= 0 /\ Sign(CompareVersions(b, c)) <= 0
              => Sign(CompareVersions(a, c)) <= 0
<1> DEFINE o == DpkgOrder(a, b)
           p == DpkgOrder(b, c)
           q == DpkgOrder(a, c)
<1>1. /\ o \in Int /\ DpkgOrder(b, a) = -o /\ Composes(o, p, q)
  BY DpkgComposes
<1>2. /\ Sign(CompareVersions(a, b)) = o /\ Sign(CompareVersions(b, a)) = DpkgOrder(b, a)
      /\ Sign(CompareVersions(b, c)) = p /\ Sign(CompareVersions(a, c)) = q
  BY VersionsCompare
<1> HIDE DEF o, p, q
<1>3. QED
  BY <1>1, <1>2 DEF Composes

-----------------------------------------------------------------------------
(* Names. What the scan of a template has seen so far. *)
ScanStates ==
  [inside : BOOLEAN, name : Seq(Symbols), names : Seq(Seq(Symbols)), empty : BOOLEAN, stray : BOOLEAN]

(* The braces are two. (The provers have no strings that are braces.) *)
LEMMA BracesAre == LeftBrace # RightBrace /\ Braces = {LeftBrace, RightBrace}
BY DEF LeftBrace, RightBrace, Braces

(* What is appended to a sequence is in it. *)
LEMMA ToSetIs ==
  ASSUME NEW S, NEW s \in Seq(S), NEW x \in S
  PROVE  /\ Append(s, x) \in Seq(S) /\ ToSet(Append(s, x)) = ToSet(s) \cup {x}
         /\ Contains(s, x) <=> x \in ToSet(s)
<1> DEFINE t == Append(s, x)
<1>1. /\ t \in Seq(S) /\ Len(t) = Len(s) + 1 /\ Len(s) \in Nat
      /\ t[Len(s) + 1] = x /\ \A n \in 1 .. Len(s) : t[n] = s[n]
  OBVIOUS
<1>2. DOMAIN t = 1 .. Len(s) + 1 /\ DOMAIN s = 1 .. Len(s)
  BY <1>1
<1> HIDE DEF t
<1>3. ToSet(t) \subseteq ToSet(s) \cup {x}
  BY <1>1, <1>2 DEF ToSet
<1>4. ToSet(s) \cup {x} \subseteq ToSet(t)
  <2>1. Len(s) + 1 \in DOMAIN t /\ \A n \in DOMAIN s : n \in DOMAIN t
    BY <1>1, <1>2
  <2>2. QED
    BY <1>1, <1>2, <2>1 DEF ToSet
<1>5. Contains(s, x) <=> x \in ToSet(s)
  BY <1>2 DEF Contains, ToSet
<1>6. QED
  BY <1>1, <1>3, <1>4, <1>5 DEF t

(* A scan stays among its states. *)
LEMMA ScanSymbolIs ==
  ASSUME NEW s \in ScanStates, NEW c \in Symbols
  PROVE  LET t == ScanSymbol(s, c)
         IN  /\ t \in ScanStates
             /\ s.inside /\ c = RightBrace =>
                  /\ ~t.inside /\ ToSet(t.names) = ToSet(s.names) \cup {s.name}
                  /\ ~t.empty => ~s.empty
             /\ s.inside /\ c # RightBrace =>
                  t.inside /\ t.name = Append(s.name, c) /\ t.names = s.names /\ t.empty = s.empty
             /\ ~s.inside /\ c = LeftBrace =>
                  t.inside /\ t.name = <<>> /\ t.names = s.names /\ t.empty = s.empty
             /\ ~s.inside /\ c # LeftBrace => ~t.inside /\ t.names = s.names /\ t.empty = s.empty
<1> DEFINE t == ScanSymbol(s, c)
<1>1. /\ s.inside \in BOOLEAN /\ s.name \in Seq(Symbols) /\ s.names \in Seq(Seq(Symbols))
      /\ s.empty \in BOOLEAN /\ s.stray \in BOOLEAN
  BY DEF ScanStates
<1>2. CASE s.inside /\ c = RightBrace
  <2> DEFINE names == IF Contains(s.names, s.name) THEN s.names ELSE Append(s.names, s.name)
             empty == s.empty \/ s.name = <<>>
  <2>1. t = [s EXCEPT !.inside = FALSE, !.empty = empty, !.names = names]
    BY <1>2 DEF ScanSymbol
  <2>2. names \in Seq(Seq(Symbols)) /\ ToSet(names) = ToSet(s.names) \cup {s.name}
    BY <1>1, ToSetIs
  <2>3. empty \in BOOLEAN /\ (~empty => ~s.empty)
    OBVIOUS
  <2> HIDE DEF names, empty
  <2>4. t \in ScanStates /\ t.inside = FALSE /\ t.names = names /\ t.empty = empty
    BY <1>1, <2>1, <2>2, <2>3 DEF ScanStates
  <2>5. QED
    BY <1>2, <2>2, <2>3, <2>4
<1>3. CASE s.inside /\ c # RightBrace
  <2>1. t = [s EXCEPT !.name = Append(@, c)]
    BY <1>3 DEF ScanSymbol
  <2>2. Append(s.name, c) \in Seq(Symbols)
    BY <1>1
  <2>3. /\ t \in ScanStates /\ t.inside = s.inside /\ t.name = Append(s.name, c) /\ t.names = s.names
        /\ t.empty = s.empty
    BY <1>1, <2>1, <2>2 DEF ScanStates
  <2>4. QED
    BY <1>3, <2>3
<1>4. CASE ~s.inside /\ c = LeftBrace
  <2>1. t = [s EXCEPT !.inside = TRUE, !.name = <<>>, !.stray = FALSE]
    BY <1>4, BracesAre DEF ScanSymbol
  <2>2. TRUE \in BOOLEAN /\ FALSE \in BOOLEAN /\ <<>> \in Seq(Symbols)
    OBVIOUS
  <2>3. t \in ScanStates
    BY <1>1, <2>1, <2>2 DEF ScanStates
  <2>4. t.inside = TRUE /\ t.name = <<>> /\ t.names = s.names /\ t.empty = s.empty
    BY <2>1 DEF ScanStates
  <2>5. QED
    BY <1>4, <2>3, <2>4
<1>5. CASE ~s.inside /\ c = RightBrace
  <2>1. t = [s EXCEPT !.stray = TRUE]
    BY <1>5, BracesAre DEF ScanSymbol
  <2>2. t \in ScanStates /\ t.inside = s.inside /\ t.names = s.names /\ t.empty = s.empty
    BY <1>1, <2>1 DEF ScanStates
  <2>3. QED
    BY <1>5, <2>2, BracesAre
<1>6. CASE ~s.inside /\ c \notin Braces
  <2>1. t = s
    BY <1>6, BracesAre DEF ScanSymbol
  <2>2. QED
    BY <1>6, <2>1, BracesAre
<1>7. QED
  BY <1>1, <1>2, <1>3, <1>4, <1>5, <1>6, BracesAre

(* A scan is what its definition says, at every position. *)
LEMMA ScansAre ==
  ASSUME NEW tmpl \in Seq(Symbols)
  PROVE  LET v == Scans(tmpl)
         IN  /\ v \in [0 .. Len(tmpl) -> ScanStates]
             /\ v[0] = [inside |-> FALSE, name |-> <<>>, names |-> <<>>, empty |-> FALSE, stray |-> FALSE]
             /\ \A n \in 1 .. Len(tmpl) : v[n] = ScanSymbol(v[n - 1], tmpl[n])
<1> DEFINE N == Len(tmpl)
           first == [inside |-> FALSE, name |-> <<>>, names |-> <<>>, empty |-> FALSE, stray |-> FALSE]
           S == ScanStates
           R == [nx \in (1 .. N) \X S |-> ScanSymbol(nx[2], tmpl[nx[1]])]
           Is(v) == v = [n \in 0 .. N |-> IF n = 0 THEN first ELSE ScanSymbol(v[n - 1], tmpl[n])]
<1>1. N \in Nat /\ first \in S
  BY DEF ScanStates
<1>2. R \in [(1 .. N) \X S -> S]
  <2>1. ASSUME NEW n \in 1 .. N, NEW x \in S PROVE ScanSymbol(x, tmpl[n]) \in S
    <3>1. tmpl[n] \in Symbols
      OBVIOUS
    <3>2. QED
      BY <3>1, ScanSymbolIs
  <2>2. QED
    BY <2>1
<1>3. PICK f : Recurs(f, S, first, N, R)
  <2> HIDE DEF R, N, S, first
  <2>1. QED
    BY <1>1, <1>2, RecursionIs
<1>4. f \in [0 .. N -> S] /\ f[0] = first /\ \A n \in 1 .. N : f[n] = R[<<n, f[n - 1]>>]
  BY <1>3 DEF Recurs
<1> HIDE DEF S, first
<1>5. ASSUME NEW n \in 1 .. N PROVE f[n] = ScanSymbol(f[n - 1], tmpl[n])
  <2> DEFINE k == n - 1
  <2>1. k \in 0 .. N
    BY <1>1
  <2>2. f[n] = R[<<n, f[k]>>]
    BY <1>4
  <2> HIDE DEF k
  <2>3. f[k] \in S
    BY <1>4, <2>1
  <2>4. R[<<n, f[k]>>] = ScanSymbol(f[k], tmpl[n])
    BY <2>3
  <2>5. QED
    BY <2>2, <2>4 DEF k
<1>6. Is(f)
  <2>1. ASSUME NEW n \in 0 .. N PROVE f[n] = IF n = 0 THEN first ELSE ScanSymbol(f[n - 1], tmpl[n])
    <3>1. n # 0 => n \in 1 .. N
      BY <1>1
    <3>2. QED
      BY <1>4, <1>5, <3>1
  <2>2. f = [n \in 0 .. N |-> f[n]]
    BY <1>4
  <2>3. QED
    BY <2>1, <2>2
<1> DEFINE v == CHOOSE v : Is(v)
<1>7. Is(v)
  <2> HIDE DEF Is
  <2>1. QED
    BY <1>6
<1>8. Scans(tmpl) = v
  BY DEF Scans, first
<1> HIDE DEF v
<1>9. v[0] = first /\ \A n \in 1 .. N : v[n] = ScanSymbol(v[n - 1], tmpl[n])
  <2>1. v[0] = first
    BY <1>1, <1>7
  <2>2. ASSUME NEW n \in 1 .. N PROVE v[n] = ScanSymbol(v[n - 1], tmpl[n])
    <3>1. n \in 0 .. N /\ n # 0
      BY <1>1
    <3>2. QED
      BY <1>7, <3>1
  <2>3. QED
    BY <2>1, <2>2
<1>10. v \in [0 .. N -> S]
  <2> DEFINE typed == {n \in Nat : n <= N => v[n] \in S}
  <2>1. 0 \in typed
    BY <1>1, <1>9
  <2>2. ASSUME NEW n \in Nat, n \in typed PROVE n + 1 \in typed
    <3> SUFFICES ASSUME n + 1 <= N PROVE v[n + 1] \in S
      OBVIOUS
    <3> DEFINE k == n + 1
    <3>1. k \in 1 .. N /\ k - 1 = n /\ v[n] \in S
      BY <1>1, <2>2
    <3>2. v[k] = ScanSymbol(v[n], tmpl[k]) /\ tmpl[k] \in Symbols
      BY <1>9, <3>1
    <3> HIDE DEF k
    <3>3. v[k] \in S
      <4> DEFINE x == v[n]
      <4>1. x \in ScanStates /\ v[k] = ScanSymbol(x, tmpl[k])
        BY <3>1, <3>2 DEF S
      <4> HIDE DEF x
      <4>2. QED
        BY <3>2, <4>1, ScanSymbolIs DEF S
    <3>4. QED
      BY <3>3 DEF k
  <2>3. Nat \subseteq typed
    <3> HIDE DEF typed
    <3>1. QED
      BY <2>1, <2>2, NatsFromZero
  <2>4. ASSUME NEW n \in 0 .. N PROVE v[n] \in S
    BY <1>1, <2>3
  <2>5. v = [n \in 0 .. N |-> v[n]]
    BY <1>7
  <2>6. QED
    BY <2>4, <2>5
<1>11. QED
  BY <1>8, <1>9, <1>10 DEF S, first

(* Every opening brace begins the placeholder of a field. *)
Clean(s, G) ==
  \A i \in 1 .. Len(s) : s[i] = LeftBrace => i + 2 <= Len(s) /\ s[i + 1] \in G /\ s[i + 2] = RightBrace

Accepts(s, F) == ~s.empty /\ \A nm \in ToSet(s.names) : \E f \in F : nm = <<f>>

(* An opening brace that was seen began a placeholder that was noted, or is  *)
(* where the scan is; and what was noted was seen.                           *)
Opened(s, tmpl, n) ==
  s.inside => /\ Len(s.name) < n /\ tmpl[n - Len(s.name)] = LeftBrace
              /\ \A j \in 1 .. Len(s.name) : s.name[j] = tmpl[n - Len(s.name) + j]

Noted(s, tmpl, n) ==
  \A i \in 1 .. n : tmpl[i] = LeftBrace =>
    \/ i + 2 <= n /\ <<tmpl[i + 1]>> \in ToSet(s.names) /\ tmpl[i + 2] = RightBrace
    \/ s.inside /\ n <= i + Len(s.name)

Occurred(s, tmpl, n) ==
  \A nm \in ToSet(s.names) : \E i \in 1 .. n - 2 : tmpl[i] = LeftBrace /\ nm = <<tmpl[i + 1]>>

Seen(s, tmpl, n) == Opened(s, tmpl, n) /\ Noted(s, tmpl, n) /\ Occurred(s, tmpl, n)

(* What has been seen of the template, one symbol later. *)
LEMMA SeenNext ==
  ASSUME NEW tmpl \in Seq(Symbols), NEW n \in Nat, n + 1 <= Len(tmpl), NEW s \in ScanStates, Seen(s, tmpl, n),
         NEW F, F \cap Braces = {}, Accepts(ScanSymbol(s, tmpl[n + 1]), F)
  PROVE  Seen(ScanSymbol(s, tmpl[n + 1]), tmpl, n + 1)
<1> DEFINE k == n + 1
           c == tmpl[k]
           t == ScanSymbol(s, c)
           L == Len(s.name)
<1>1. k \in 1 .. Len(tmpl) /\ k \in Nat /\ k - 1 = n /\ c \in Symbols
  OBVIOUS
<1>2. /\ t \in ScanStates
      /\ s.inside /\ c = RightBrace =>
           /\ ~t.inside /\ ToSet(t.names) = ToSet(s.names) \cup {s.name}
           /\ ~t.empty => ~s.empty
      /\ s.inside /\ c # RightBrace =>
           t.inside /\ t.name = Append(s.name, c) /\ t.names = s.names /\ t.empty = s.empty
      /\ ~s.inside /\ c = LeftBrace =>
           t.inside /\ t.name = <<>> /\ t.names = s.names /\ t.empty = s.empty
      /\ ~s.inside /\ c # LeftBrace => ~t.inside /\ t.names = s.names /\ t.empty = s.empty
  BY <1>1, ScanSymbolIs
<1>3. s.name \in Seq(Symbols) /\ L \in Nat
  BY DEF ScanStates
<1>4. Accepts(t, F)
  OBVIOUS
<1>5. SUFFICES Seen(t, tmpl, k)
  OBVIOUS
<1> HIDE DEF t, k
<1>6. CASE s.inside /\ c = RightBrace
  <2>1. ~t.inside /\ ToSet(t.names) = ToSet(s.names) \cup {s.name}
    BY <1>2, <1>6
  <2>2. PICK f \in F : s.name = <<f>>
    BY <1>4, <2>1 DEF Accepts
  <2>3. L = 1 /\ s.name[1] = f /\ f # LeftBrace
    BY <2>2 DEF Braces
  <2>4. 1 < n /\ tmpl[n - 1] = LeftBrace /\ tmpl[n] = f
    <3> DEFINE nm == s.name
    <3>1. Len(nm) < n /\ tmpl[n - Len(nm)] = LeftBrace /\ \A j \in 1 .. Len(nm) : nm[j] = tmpl[n - Len(nm) + j]
      BY <1>6 DEF Seen, Opened
    <3>2. Len(nm) = 1 /\ nm[1] = f
      BY <2>3
    <3> HIDE DEF nm
    <3>3. 1 \in 1 .. Len(nm) /\ n - 1 + 1 = n
      BY <3>2
    <3>4. QED
      BY <3>1, <3>2, <3>3
  <2>5. Opened(t, tmpl, k)
    BY <2>1 DEF Opened
  <2>6. Noted(t, tmpl, k)
    <3> SUFFICES ASSUME NEW i \in 1 .. k, tmpl[i] = LeftBrace
                 PROVE  i + 2 <= k /\ <<tmpl[i + 1]>> \in ToSet(t.names) /\ tmpl[i + 2] = RightBrace
      BY DEF Noted
    <3>1. i # k /\ i \in 1 .. n
      BY <1>1, <1>6, BracesAre
    <3>2. CASE i + 2 <= n /\ <<tmpl[i + 1]>> \in ToSet(s.names) /\ tmpl[i + 2] = RightBrace
      BY <1>1, <2>1, <3>2 DEF k
    <3>3. CASE n <= i + L
      <4>1. i = n \/ i = n - 1
        BY <2>3, <3>1, <3>3
      <4>2. i = n - 1
        BY <2>3, <2>4, <4>1
      <4>3. i + 1 = n /\ i + 2 = k
        BY <4>2 DEF k
      <4>4. <<tmpl[i + 1]>> = s.name
        BY <2>2, <2>4, <4>3
      <4>5. QED
        BY <1>1, <1>6, <2>1, <4>3, <4>4
    <3>4. QED
      BY <3>1, <3>2, <3>3 DEF Seen, Noted
  <2>7. Occurred(t, tmpl, k)
    <3> SUFFICES ASSUME NEW nm \in ToSet(s.names) \cup {s.name}
                 PROVE  \E i \in 1 .. k - 2 : tmpl[i] = LeftBrace /\ nm = <<tmpl[i + 1]>>
      BY <2>1 DEF Occurred
    <3>1. CASE nm \in ToSet(s.names)
      <4>1. PICK i \in 1 .. n - 2 : tmpl[i] = LeftBrace /\ nm = <<tmpl[i + 1]>>
        BY <3>1 DEF Seen, Occurred
      <4>2. i \in 1 .. k - 2
        BY <1>1
      <4>3. QED
        BY <4>1, <4>2
    <3>2. CASE nm = s.name
      <4> DEFINE i == n - 1
      <4>1. i \in 1 .. k - 2 /\ i + 1 = n /\ tmpl[i] = LeftBrace
        BY <1>1, <2>4
      <4>2. nm = <<tmpl[i + 1]>>
        BY <2>2, <2>4, <3>2, <4>1
      <4> HIDE DEF i
      <4>3. QED
        BY <4>1, <4>2
    <3>3. QED
      BY <3>1, <3>2
  <2>8. QED
    BY <2>5, <2>6, <2>7 DEF Seen
<1>7. CASE s.inside /\ c # RightBrace
  <2>1. t.inside /\ t.name = Append(s.name, c) /\ t.names = s.names
    BY <1>2, <1>7
  <2>2. Len(t.name) = L + 1 /\ t.name[L + 1] = c /\ \A j \in 1 .. L : t.name[j] = s.name[j]
    <3> DEFINE nm == s.name
    <3>1. nm \in Seq(Symbols)
      BY <1>3
    <3> HIDE DEF nm
    <3>2. /\ Len(Append(nm, c)) = Len(nm) + 1 /\ Append(nm, c)[Len(nm) + 1] = c
          /\ \A j \in 1 .. Len(nm) : Append(nm, c)[j] = nm[j]
      BY <1>1, <3>1
    <3>3. QED
      BY <2>1, <3>2 DEF nm
  <2>3. /\ L < n /\ tmpl[n - L] = LeftBrace /\ \A j \in 1 .. L : s.name[j] = tmpl[n - L + j]
    BY <1>7 DEF Seen, Opened
  <2>4. Opened(t, tmpl, k)
    <3> DEFINE M == L + 1
    <3>1. k - M = n - L /\ M < k
      BY <1>3, <2>3 DEF k
    <3>2. ASSUME NEW j \in 1 .. M PROVE t.name[j] = tmpl[n - L + j]
      <4>1. CASE j = M
        <5> HIDE DEF L
        <5>1. n - L + j = k
          BY <1>3, <4>1 DEF k
        <5>2. QED
          BY <2>2, <4>1, <5>1
      <4>2. CASE j # M
        <5>1. j \in 1 .. L
          BY <1>3, <4>2
        <5>2. QED
          BY <2>2, <2>3, <5>1
      <4>3. QED
        BY <4>1, <4>2
    <3> HIDE DEF L
    <3>3. QED
      BY <2>2, <2>3, <3>1, <3>2 DEF Opened
  <2>5. Noted(t, tmpl, k)
    <3> SUFFICES ASSUME NEW i \in 1 .. k, tmpl[i] = LeftBrace
                 PROVE  \/ i + 2 <= k /\ <<tmpl[i + 1]>> \in ToSet(t.names) /\ tmpl[i + 2] = RightBrace
                        \/ t.inside /\ k <= i + Len(t.name)
      BY DEF Noted
    <3>1. CASE i = k
      BY <1>3, <2>1, <2>2, <3>1
    <3>2. CASE i # k
      <4>1. i \in 1 .. n
        BY <1>1, <3>2
      <4>2. CASE i + 2 <= n /\ <<tmpl[i + 1]>> \in ToSet(s.names) /\ tmpl[i + 2] = RightBrace
        BY <1>1, <2>1, <4>2
      <4>3. CASE n <= i + L
        <5>1. k <= i + (L + 1)
          BY <1>1, <1>3, <4>3
        <5>2. QED
          BY <2>1, <2>2, <5>1
      <4>4. QED
        BY <4>1, <4>2, <4>3 DEF Seen, Noted
    <3>3. QED
      BY <3>1, <3>2
  <2>6. Occurred(t, tmpl, k)
    BY <1>1, <2>1 DEF Seen, Occurred
  <2>7. QED
    BY <2>4, <2>5, <2>6 DEF Seen
<1>8. CASE ~s.inside /\ c = LeftBrace
  <2>1. t.inside /\ t.name = <<>> /\ t.names = s.names /\ Len(t.name) = 0
    BY <1>2, <1>8
  <2>2. Opened(t, tmpl, k)
    <3>1. k - Len(t.name) = k /\ Len(t.name) < k /\ 1 .. Len(t.name) = {}
      BY <1>1, <2>1
    <3>2. QED
      BY <1>8, <3>1 DEF Opened
  <2>3. Noted(t, tmpl, k)
    <3> SUFFICES ASSUME NEW i \in 1 .. k, tmpl[i] = LeftBrace
                 PROVE  \/ i + 2 <= k /\ <<tmpl[i + 1]>> \in ToSet(t.names) /\ tmpl[i + 2] = RightBrace
                        \/ t.inside /\ k <= i + Len(t.name)
      BY DEF Noted
    <3>1. CASE i = k
      BY <2>1, <3>1
    <3>2. CASE i # k
      <4>1. i \in 1 .. n
        BY <1>1, <3>2
      <4>2. i + 2 <= n /\ <<tmpl[i + 1]>> \in ToSet(s.names) /\ tmpl[i + 2] = RightBrace
        BY <1>8, <4>1 DEF Seen, Noted
      <4>3. QED
        BY <1>1, <2>1, <4>2
    <3>3. QED
      BY <3>1, <3>2
  <2>4. Occurred(t, tmpl, k)
    BY <1>1, <2>1 DEF Seen, Occurred
  <2>5. QED
    BY <2>2, <2>3, <2>4 DEF Seen
<1>9. CASE ~s.inside /\ c # LeftBrace
  <2>1. ~t.inside /\ t.names = s.names
    BY <1>2, <1>9
  <2>2. Noted(t, tmpl, k)
    <3> SUFFICES ASSUME NEW i \in 1 .. k, tmpl[i] = LeftBrace
                 PROVE  i + 2 <= k /\ <<tmpl[i + 1]>> \in ToSet(t.names) /\ tmpl[i + 2] = RightBrace
      BY DEF Noted
    <3>1. i \in 1 .. n
      BY <1>1, <1>9
    <3>2. i + 2 <= n /\ <<tmpl[i + 1]>> \in ToSet(s.names) /\ tmpl[i + 2] = RightBrace
      BY <1>9, <3>1 DEF Seen, Noted
    <3>3. QED
      BY <1>1, <2>1, <3>2
  <2>3. Occurred(t, tmpl, k)
    BY <1>1, <2>1 DEF Seen, Occurred
  <2>4. QED
    BY <2>1, <2>2, <2>3 DEF Seen, Opened
<1>10. QED
  BY <1>6, <1>7, <1>8, <1>9

(* No field is named like a brace. *)
LEMMA FieldsAreNames ==
  ASSUME NEW kind \in DOMAIN allowedFields
  PROVE  allowedFields[kind] \cap Braces = {}
<1>1. /\ DOMAIN allowedFields = {"archive_dump", "precomputed_blocks", "daemon_config", "genesis_config"}
      /\ allowedFields["archive_dump"] = {"date", "hour"}
      /\ allowedFields["precomputed_blocks"] = {"height", "state_hash"}
      /\ allowedFields["daemon_config"] = {"ref"} /\ allowedFields["genesis_config"] = {}
  BY DEF allowedFields
<1>2. \A f \in {"date", "hour", "height", "state_hash", "ref"} : f \notin Braces
  BY DEF Braces, LeftBrace, RightBrace
<1> HIDE DEF allowedFields
<1>3. QED
  BY <1>1, <1>2

(* A template that is accepted has placeholders for fields and no other     *)
(* opening braces; and the fields are those that it has placeholders for.   *)
FieldsIn(tmpl, kind) == {f \in allowedFields[kind] : <<f>> \in ToSet(Placeholders(tmpl))}

(* In an accepted template every opening brace begins a whole placeholder. *)
LEMMA CheckedTemplate ==
  ASSUME NEW tmpl \in Seq(Symbols), NEW kind \in DOMAIN allowedFields, CheckTemplate(tmpl, kind)
  PROVE  /\ Placeholders(tmpl) \in Seq(Seq(Symbols))
         /\ Clean(tmpl, FieldsIn(tmpl, kind)) /\ FieldsIn(tmpl, kind) \cap Braces = {}
         /\ \A f \in FieldsIn(tmpl, kind) :
              \E i \in 1 .. Len(tmpl) - 2 : tmpl[i] = LeftBrace /\ tmpl[i + 1] = f
<1> DEFINE names == Placeholders(tmpl)
           G == FieldsIn(tmpl, kind)
           N == Len(tmpl)
           v == Scans(tmpl)
           F == allowedFields[kind]
           scanned == {n \in Nat : n <= N => (Accepts(v[n], F) => Seen(v[n], tmpl, n))}
<1>1. /\ v \in [0 .. N -> ScanStates] /\ N \in Nat
      /\ v[0] = [inside |-> FALSE, name |-> <<>>, names |-> <<>>, empty |-> FALSE, stray |-> FALSE]
      /\ \A n \in 1 .. N : v[n] = ScanSymbol(v[n - 1], tmpl[n])
  BY ScansAre
<1>2. F \cap Braces = {}
  BY FieldsAreNames
<1> HIDE DEF v, F, names, G
<1>3. 0 \in scanned
  <2> DEFINE s == v[0]
  <2>1. ~s.inside /\ s.names = <<>>
    BY <1>1
  <2>2. ToSet(s.names) = {}
    BY <2>1 DEF ToSet
  <2> HIDE DEF s
  <2>3. Seen(s, tmpl, 0)
    BY <2>1, <2>2 DEF Seen, Opened, Noted, Occurred
  <2>4. QED
    BY <2>3 DEF s
<1>4. ASSUME NEW n \in Nat, n \in scanned PROVE n + 1 \in scanned
  <2> DEFINE s == v[n]
             c == tmpl[n + 1]
             t == ScanSymbol(s, c)
  <2> SUFFICES ASSUME n + 1 <= N, Accepts(v[n + 1], F) PROVE Seen(v[n + 1], tmpl, n + 1)
    OBVIOUS
  <2>1. n + 1 \in 1 .. N /\ n + 1 - 1 = n /\ n \in 0 .. N /\ c \in Symbols
    BY <1>1
  <2>2. v[n + 1] = t /\ s \in ScanStates
    BY <1>1, <2>1
  <2>3. (~t.empty => ~s.empty) /\ ToSet(s.names) \subseteq ToSet(t.names)
    <3> HIDE DEF s, t, c
    <3>1. CASE s.inside /\ c = RightBrace
      <4>1. ToSet(t.names) = ToSet(s.names) \cup {s.name} /\ (~t.empty => ~s.empty)
        BY <2>1, <2>2, <3>1, ScanSymbolIs DEF t
      <4>2. QED
        BY <4>1
    <3>2. CASE s.inside /\ c # RightBrace
      <4>1. t.names = s.names /\ t.empty = s.empty
        BY <2>1, <2>2, <3>2, ScanSymbolIs DEF t
      <4>2. QED
        BY <4>1
    <3>3. CASE ~s.inside
      <4>1. t.names = s.names /\ t.empty = s.empty
        BY <2>1, <2>2, <3>3, ScanSymbolIs DEF t
      <4>2. QED
        BY <4>1
    <3>4. QED
      BY <3>1, <3>2, <3>3
  <2>4. Accepts(t, F)
    BY <2>2
  <2>5. Accepts(s, F)
    <3> HIDE DEF s, t
    <3>1. QED
      BY <2>3, <2>4 DEF Accepts
  <2>6. Seen(s, tmpl, n)
    BY <1>4, <2>1, <2>5
  <2>7. Seen(t, tmpl, n + 1)
    <3> HIDE DEF s
    <3>1. QED
      BY <1>2, <2>2, <2>4, <2>6, SeenNext
  <2>8. QED
    BY <2>2, <2>7
<1>5. Nat \subseteq scanned
  <2> HIDE DEF scanned
  <2>1. QED
    BY <1>3, <1>4, NatsFromZero
<1> DEFINE s == v[N]
<1>6. s = Scan(tmpl) /\ s \in ScanStates
  BY <1>1 DEF Scan, v
<1>7. Accepts(s, F) => Seen(s, tmpl, N)
  BY <1>1, <1>5
<1> HIDE DEF s
<1>8. names = s.names /\ names \in Seq(Seq(Symbols))
  BY <1>6 DEF Placeholders, ScanStates, names
<1>9. ~s.inside /\ ~s.empty /\ \A nm \in ToSet(names) : \E f \in F : nm = <<f>>
  BY <1>6 DEF CheckTemplate, WellFormed, F, names
<1>10. Seen(s, tmpl, N)
  BY <1>7, <1>8, <1>9 DEF Accepts
<1>11. \A nm \in ToSet(names) : \E f \in G : nm = <<f>>
  BY <1>9 DEF F, G, FieldsIn, names
<1>12. Clean(tmpl, G)
  <2> SUFFICES ASSUME NEW i \in 1 .. N, tmpl[i] = LeftBrace
               PROVE  i + 2 <= N /\ tmpl[i + 1] \in G /\ tmpl[i + 2] = RightBrace
    BY DEF Clean
  <2>1. i + 2 <= N /\ <<tmpl[i + 1]>> \in ToSet(names) /\ tmpl[i + 2] = RightBrace
    BY <1>8, <1>9, <1>10 DEF Seen, Noted
  <2>2. PICK f \in G : <<tmpl[i + 1]>> = <<f>>
    BY <1>11, <2>1
  <2>3. tmpl[i + 1] = f
    BY <2>2
  <2>4. QED
    BY <2>1, <2>3
<1>13. ASSUME NEW f \in G PROVE \E i \in 1 .. N - 2 : tmpl[i] = LeftBrace /\ tmpl[i + 1] = f
  <2>1. PICK i \in 1 .. N - 2 : tmpl[i] = LeftBrace /\ <<f>> = <<tmpl[i + 1]>>
    BY <1>8, <1>10 DEF Seen, Occurred, G, FieldsIn, names
  <2>2. tmpl[i + 1] = f
    BY <2>1
  <2>3. QED
    BY <2>1, <2>2
<1>14. G \cap Braces = {}
  BY <1>2 DEF F, G, FieldsIn
<1>15. QED
  BY <1>8, <1>12, <1>13, <1>14 DEF G, names

(* What becomes of each symbol when a field gets its value. *)
Piece(s, f, v, i) ==
  IF Occurs(s, f, i) THEN v
  ELSE IF Occurs(s, f, i - 1) \/ Occurs(s, f, i - 2) THEN <<>>
  ELSE <<s[i]>>

(* Replacing a field takes each position for itself, given two more. *)
LEMMA PiecesAre ==
  ASSUME NEW s \in Seq(Symbols), NEW f, NEW v \in Seq(Symbols)
  PROVE  /\ Pieces(s, f, v) \in Seq(Seq(Symbols)) /\ Len(Pieces(s, f, v)) = Len(s)
         /\ \A i \in 1 .. Len(s) : Pieces(s, f, v)[i] = Piece(s, f, v, i)
         /\ ReplaceField(s, f, v) \in Seq(Symbols)
<1>1. ASSUME NEW i \in 1 .. Len(s) PROVE Piece(s, f, v, i) \in Seq(Symbols)
  <2>1. <<>> \in Seq(Symbols) /\ <<s[i]>> \in Seq(Symbols)
    OBVIOUS
  <2>2. Piece(s, f, v, i) \in {v, <<>>, <<s[i]>>}
    BY DEF Piece
  <2>3. QED
    BY <2>1, <2>2
<1>2. Pieces(s, f, v) = [i \in 1 .. Len(s) |-> Piece(s, f, v, i)] /\ Len(s) \in Nat
  BY DEF Pieces, Piece
<1>3. /\ Pieces(s, f, v) \in Seq(Seq(Symbols)) /\ Len(Pieces(s, f, v)) = Len(s)
      /\ \A i \in 1 .. Len(s) : Pieces(s, f, v)[i] = Piece(s, f, v, i)
  BY <1>1, <1>2
<1>4. ReplaceField(s, f, v) \in Seq(Symbols)
  <2> DEFINE p == Pieces(s, f, v)
  <2>1. p \in Seq(Seq(Symbols)) /\ <<>> \in Seq(Seq(Symbols))
    BY <1>3
  <2>2. ReplaceField(s, f, v) = FlattenSeq(p)
    BY DEF ReplaceField
  <2> HIDE DEF p
  <2>3. QED
    BY <2>1, <2>2, FlattenConcat
<1>5. QED
  BY <1>3, <1>4

(* No placeholder begins in a clean text and ends after it. *)
LEMMA OccursJoins ==
  ASSUME NEW x \in Seq(Symbols), NEW y \in Seq(Symbols), NEW G, Clean(x, G), NEW f
  PROVE  /\ \A i \in Int : i <= Len(x) => (Occurs(x \o y, f, i) <=> Occurs(x, f, i))
         /\ \A j \in Nat : Occurs(x \o y, f, Len(x) + (j - 1)) <=> Occurs(y, f, j - 1)
<1> DEFINE s == x \o y
           M == Len(x)
           N == Len(y)
<1>1. /\ Len(s) = M + N /\ M \in Nat /\ N \in Nat
      /\ \A n \in 1 .. M : s[n] = x[n]
      /\ \A n \in 1 .. N : s[M + n] = y[n]
  OBVIOUS
<1> HIDE DEF s
<1>2. ASSUME NEW i \in 1 .. M, s[i] = LeftBrace
      PROVE  i + 2 <= M
  BY <1>1, <1>2 DEF Clean
<1>3. ASSUME NEW i \in Int, i <= M
      PROVE  Occurs(s, f, i) <=> Occurs(x, f, i)
  <2>1. ASSUME Occurs(s, f, i) PROVE Occurs(x, f, i)
    <3>1. i \in 1 .. M /\ s[i] = LeftBrace
      BY <1>1, <1>3, <2>1 DEF Occurs
    <3>2. i + 2 <= M
      BY <1>2, <3>1
    <3>3. i \in 1 .. M - 2 /\ i + 1 \in 1 .. M /\ i + 2 \in 1 .. M
      BY <1>1, <3>1, <3>2
    <3>4. s[i] = x[i] /\ s[i + 1] = x[i + 1] /\ s[i + 2] = x[i + 2]
      BY <1>1, <3>1, <3>3
    <3>5. QED
      BY <2>1, <3>3, <3>4 DEF Occurs
  <2>2. ASSUME Occurs(x, f, i) PROVE Occurs(s, f, i)
    <3>1. i \in 1 .. M - 2
      BY <2>2 DEF Occurs
    <3>2. i \in 1 .. M /\ i + 1 \in 1 .. M /\ i + 2 \in 1 .. M /\ i \in 1 .. Len(s) - 2
      BY <1>1, <3>1
    <3>3. s[i] = x[i] /\ s[i + 1] = x[i + 1] /\ s[i + 2] = x[i + 2]
      BY <1>1, <3>2
    <3>4. QED
      BY <2>2, <3>2, <3>3 DEF Occurs
  <2>3. QED
    BY <2>1, <2>2
<1>4. ASSUME NEW j \in Nat
      PROVE  Occurs(s, f, M + (j - 1)) <=> Occurs(y, f, j - 1)
  <2> DEFINE i == M + (j - 1)
  <2>1. CASE j \in {0, 1}
    <3>1. ~Occurs(y, f, j - 1)
      BY <1>1, <2>1 DEF Occurs
    <3>2. ~Occurs(s, f, i)
      <4> SUFFICES ASSUME Occurs(s, f, i) PROVE FALSE
        OBVIOUS
      <4>1. i \in 1 .. M
        BY <1>1, <2>1 DEF Occurs
      <4>2. s[i] = LeftBrace
        BY DEF Occurs
      <4>3. i + 2 <= M
        <5> HIDE DEF i
        <5>1. QED
          BY <1>2, <4>1, <4>2
      <4>4. QED
        BY <1>1, <2>1, <4>3
    <3>3. QED
      BY <3>1, <3>2
  <2>2. CASE j \notin {0, 1}
    <3> DEFINE k == j - 1
    <3>1. k \in Nat /\ 1 <= k /\ i = M + k
      BY <2>2
    <3> HIDE DEF i, k
    <3>2. i \in 1 .. Len(s) - 2 <=> k \in 1 .. N - 2
      BY <1>1, <3>1
    <3>3. ASSUME k \in 1 .. N - 2
          PROVE  s[i] = y[k] /\ s[i + 1] = y[k + 1] /\ s[i + 2] = y[k + 2]
      <4>1. /\ i = M + k /\ i + 1 = M + (k + 1) /\ i + 2 = M + (k + 2)
            /\ k \in 1 .. N /\ k + 1 \in 1 .. N /\ k + 2 \in 1 .. N
        BY <1>1, <3>1, <3>3
      <4>2. s[M + k] = y[k] /\ s[M + (k + 1)] = y[k + 1] /\ s[M + (k + 2)] = y[k + 2]
        BY <1>1, <4>1
      <4>3. QED
        BY <4>1, <4>2
    <3>4. Occurs(s, f, i) <=> Occurs(y, f, k)
      BY <3>2, <3>3 DEF Occurs
    <3>5. QED
      BY <3>4 DEF i, k
  <2>3. QED
    BY <2>1, <2>2
<1>5. QED
  BY <1>3, <1>4 DEF s

(* A replacement distributes, if the first text has whole placeholders only. *)
LEMMA ReplaceJoins ==
  ASSUME NEW x \in Seq(Symbols), NEW y \in Seq(Symbols), NEW G, Clean(x, G), NEW f, NEW v \in Seq(Symbols)
  PROVE  ReplaceField(x \o y, f, v) = ReplaceField(x, f, v) \o ReplaceField(y, f, v)
<1> DEFINE s == x \o y
           M == Len(x)
           N == Len(y)
           p == Pieces(x, f, v)
           q == Pieces(y, f, v)
           r == Pieces(s, f, v)
<1>1. /\ s \in Seq(Symbols) /\ Len(s) = M + N /\ M \in Nat /\ N \in Nat
      /\ \A n \in 1 .. M : s[n] = x[n]
      /\ \A n \in 1 .. N : s[M + n] = y[n]
  OBVIOUS
<1>2. /\ \A i \in Int : i <= M => (Occurs(s, f, i) <=> Occurs(x, f, i))
      /\ \A j \in Nat : Occurs(s, f, M + (j - 1)) <=> Occurs(y, f, j - 1)
  BY OccursJoins
<1> HIDE DEF s
<1>3. /\ p \in Seq(Seq(Symbols)) /\ Len(p) = M /\ \A i \in 1 .. M : p[i] = Piece(x, f, v, i)
      /\ q \in Seq(Seq(Symbols)) /\ Len(q) = N /\ \A i \in 1 .. N : q[i] = Piece(y, f, v, i)
      /\ r \in Seq(Seq(Symbols)) /\ Len(r) = M + N /\ \A i \in 1 .. M + N : r[i] = Piece(s, f, v, i)
  BY <1>1, PiecesAre
<1> HIDE DEF p, q, r
<1>4. ASSUME NEW i \in 1 .. M PROVE r[i] = p[i]
  <2>1. i \in 1 .. M + N /\ s[i] = x[i] /\ i \in Int /\ i - 1 \in Int /\ i - 2 \in Int
        /\ i <= M /\ i - 1 <= M /\ i - 2 <= M
    BY <1>1
  <2>2. /\ Occurs(s, f, i) <=> Occurs(x, f, i)
        /\ Occurs(s, f, i - 1) <=> Occurs(x, f, i - 1)
        /\ Occurs(s, f, i - 2) <=> Occurs(x, f, i - 2)
    BY <1>2, <2>1
  <2>3. Piece(s, f, v, i) = Piece(x, f, v, i)
    BY <2>1, <2>2 DEF Piece
  <2>4. QED
    BY <1>3, <2>1, <2>3
<1>5. ASSUME NEW i \in 1 .. N PROVE r[M + i] = q[i]
  <2> DEFINE k == M + i
  <2>1. k \in 1 .. M + N /\ s[k] = y[i]
    BY <1>1
  <2>2. /\ k = M + (i + 1 - 1) /\ i = i + 1 - 1 /\ k - 1 = M + (i - 1) /\ k - 2 = M + (i - 1 - 1) /\ i - 2 = i - 1 - 1
        /\ i + 1 \in Nat /\ i \in Nat /\ i - 1 \in Nat
    BY <1>1
  <2> HIDE DEF k
  <2>3. /\ Occurs(s, f, k) <=> Occurs(y, f, i)
        /\ Occurs(s, f, k - 1) <=> Occurs(y, f, i - 1)
        /\ Occurs(s, f, k - 2) <=> Occurs(y, f, i - 2)
    <3>1. Occurs(s, f, M + (i + 1 - 1)) <=> Occurs(y, f, i + 1 - 1)
      <4> DEFINE j == i + 1
      <4>1. j \in Nat
        OBVIOUS
      <4> HIDE DEF j
      <4>2. Occurs(s, f, M + (j - 1)) <=> Occurs(y, f, j - 1)
        BY <1>2, <4>1
      <4>3. QED
        BY <4>2 DEF j
    <3>2. Occurs(s, f, M + (i - 1)) <=> Occurs(y, f, i - 1)
      BY <1>2, <2>2
    <3>3. Occurs(s, f, M + (i - 1 - 1)) <=> Occurs(y, f, i - 1 - 1)
      BY <1>2, <2>2
    <3>4. QED
      BY <2>2, <3>1, <3>2, <3>3
  <2>4. Piece(s, f, v, k) = Piece(y, f, v, i)
    BY <2>1, <2>3 DEF Piece
  <2>5. r[k] = q[i]
    BY <1>3, <2>1, <2>4
  <2>6. QED
    BY <2>5 DEF k
<1>6. r = p \o q
  <2> DEFINE t == p \o q
  <2>1. /\ t \in Seq(Seq(Symbols)) /\ Len(t) = M + N
        /\ \A n \in 1 .. M : t[n] = p[n]
        /\ \A n \in 1 .. N : t[M + n] = q[n]
    <3>1. p \in Seq(Seq(Symbols)) /\ q \in Seq(Seq(Symbols))
      BY <1>3
    <3>2. /\ t \in Seq(Seq(Symbols)) /\ Len(t) = Len(p) + Len(q)
          /\ \A n \in 1 .. Len(p) : t[n] = p[n]
          /\ \A n \in 1 .. Len(q) : t[Len(p) + n] = q[n]
      BY <3>1, ConcatIs
    <3>3. QED
      BY <1>3, <3>2
  <2> HIDE DEF t
  <2>2. ASSUME NEW n \in 1 .. M + N PROVE r[n] = t[n]
    <3>1. CASE n <= M
      <4>1. n \in 1 .. M
        BY <1>1, <3>1
      <4>2. QED
        BY <1>4, <2>1, <4>1
    <3>2. CASE ~(n <= M)
      <4> DEFINE m == n - M
      <4>1. m \in 1 .. N /\ n = M + m
        BY <1>1, <3>2
      <4> HIDE DEF m
      <4>2. QED
        BY <1>5, <2>1, <4>1
    <3>3. QED
      BY <3>1, <3>2
  <2>3. r = t
    BY <1>3, <2>1, <2>2, SeqEqual
  <2>4. QED
    BY <2>3 DEF t
<1>7. FlattenSeq(r) = FlattenSeq(p) \o FlattenSeq(q)
  BY <1>3, <1>6, FlattenConcat
<1>8. QED
  BY <1>7 DEF ReplaceField, p, q, r, s

(* A clean text is made of symbols and placeholders. *)
FieldIn(f) == <<LeftBrace, f, RightBrace>>

Token(t, G) ==
  \/ \E c \in Symbols \ {LeftBrace} : t = <<c>>
  \/ \E f \in G : t = FieldIn(f) /\ t \in Seq(Symbols)

Cuts(x, y, s, k) ==
  /\ s = x \o y /\ Len(x) = k /\ Len(y) = Len(s) - k
  /\ \A n \in 1 .. k : x[n] = s[n]
  /\ \A n \in 1 .. Len(s) - k : y[n] = s[k + n]

(* A text can be cut at any place. *)
LEMMA CutIs ==
  ASSUME NEW T, NEW s \in Seq(T), NEW k \in 0 .. Len(s)
  PROVE  \E x, y \in Seq(T) : Cuts(x, y, s, k)
<1> DEFINE x == SubSeq(s, 1, k)
           y == SubSeq(s, k + 1, Len(s))
           r == x \o y
<1>1. /\ x \in Seq(T) /\ Len(x) = k /\ \A n \in 1 .. k : x[n] = s[n]
      /\ Len(s) \in Nat
  OBVIOUS
<1>2. y \in Seq(T) /\ Len(y) = Len(s) - k /\ \A n \in 1 .. Len(s) - k : y[n] = s[k + n]
  OBVIOUS
<1> HIDE DEF x, y
<1>3. /\ r \in Seq(T) /\ Len(r) = Len(x) + Len(y)
      /\ \A n \in 1 .. Len(x) : r[n] = x[n]
      /\ \A n \in 1 .. Len(y) : r[Len(x) + n] = y[n]
  BY <1>1, <1>2, ConcatIs
<1> HIDE DEF r
<1>4. ASSUME NEW n \in 1 .. Len(s) PROVE s[n] = r[n]
  <2>1. CASE n <= k
    <3>1. n \in 1 .. k
      BY <1>1, <2>1
    <3>2. QED
      BY <1>1, <1>3, <3>1
  <2>2. CASE ~(n <= k)
    <3> DEFINE m == n - k
    <3>1. m \in 1 .. Len(s) - k /\ n = k + m
      BY <1>1, <2>2
    <3> HIDE DEF m
    <3>2. QED
      BY <1>1, <1>2, <1>3, <3>1
  <2>3. QED
    BY <2>1, <2>2
<1>5. s = r
  BY <1>1, <1>2, <1>3, <1>4, SeqEqual
<1>6. QED
  BY <1>1, <1>2, <1>5 DEF r, Cuts

(* The end of a text with whole placeholders has whole placeholders. *)
LEMMA CleanEnds ==
  ASSUME NEW s \in Seq(Symbols), NEW G, Clean(s, G), NEW k \in 0 .. Len(s),
         NEW u \in Seq(Symbols), Len(u) = Len(s) - k, \A n \in 1 .. Len(s) - k : u[n] = s[k + n]
  PROVE  Clean(u, G)
<1> SUFFICES ASSUME NEW i \in 1 .. Len(u), u[i] = LeftBrace
             PROVE  i + 2 <= Len(u) /\ u[i + 1] \in G /\ u[i + 2] = RightBrace
  BY DEF Clean
<1> DEFINE j == k + i
<1>1. j \in 1 .. Len(s) /\ s[j] = LeftBrace
  OBVIOUS
<1> HIDE DEF j
<1>2. j + 2 <= Len(s) /\ s[j + 1] \in G /\ s[j + 2] = RightBrace
  BY <1>1 DEF Clean
<1>3. j + 1 = k + (i + 1) /\ j + 2 = k + (i + 2) /\ i + 1 \in 1 .. Len(s) - k /\ i + 2 \in 1 .. Len(s) - k
  BY <1>2 DEF j
<1>4. u[i + 1] = s[k + (i + 1)] /\ u[i + 2] = s[k + (i + 2)]
  BY <1>3
<1>5. i + 2 <= Len(u)
  BY <1>2 DEF j
<1>6. QED
  BY <1>2, <1>3, <1>4, <1>5, SMTT(30)

(* A text with whole placeholders begins with a symbol, or with one of them. *)
LEMMA FirstToken ==
  ASSUME NEW s \in Seq(Symbols), NEW G, Clean(s, G), s # <<>>
  PROVE  \E t, u \in Seq(Symbols) : s = t \o u /\ Token(t, G) /\ Clean(u, G) /\ Len(u) < Len(s)
<1> DEFINE N == Len(s)
<1>1. N \in Nat /\ 1 <= N /\ s[1] \in Symbols
  OBVIOUS
<1>2. CASE s[1] # LeftBrace
  <2>1. PICK t, u \in Seq(Symbols) :
          /\ s = t \o u /\ Len(t) = 1 /\ Len(u) = Len(s) - 1
          /\ \A n \in 1 .. 1 : t[n] = s[n]
          /\ \A n \in 1 .. Len(s) - 1 : u[n] = s[1 + n]
    <3> DEFINE k == 1
    <3>1. k \in 0 .. Len(s)
      BY <1>1
    <3> HIDE DEF k
    <3>2. \E t, u \in Seq(Symbols) : Cuts(t, u, s, k)
      BY <3>1, CutIs
    <3>3. QED
      BY <3>2 DEF k, Cuts
  <2>2. Clean(u, G)
    <3>1. 1 \in 0 .. Len(s)
      BY <1>1
    <3>2. QED
      BY <2>1, <3>1, CleanEnds
  <2>3. t = <<s[1]>>
    BY <2>1
  <2>4. Token(t, G)
    BY <1>1, <1>2, <2>3 DEF Token
  <2>5. QED
    BY <1>1, <2>1, <2>2, <2>4
<1>3. CASE s[1] = LeftBrace
  <2>1. 3 <= N /\ s[2] \in G /\ s[3] = RightBrace
    BY <1>1, <1>3 DEF Clean
  <2>2. PICK t, u \in Seq(Symbols) :
          /\ s = t \o u /\ Len(t) = 3 /\ Len(u) = Len(s) - 3
          /\ \A n \in 1 .. 3 : t[n] = s[n]
          /\ \A n \in 1 .. Len(s) - 3 : u[n] = s[3 + n]
    <3> DEFINE k == 3
    <3>1. k \in 0 .. Len(s)
      BY <1>1, <2>1
    <3> HIDE DEF k
    <3>2. \E t, u \in Seq(Symbols) : Cuts(t, u, s, k)
      BY <3>1, CutIs
    <3>3. QED
      BY <3>2 DEF k, Cuts
  <2>3. Clean(u, G)
    <3>1. 3 \in 0 .. Len(s)
      BY <1>1, <2>1
    <3>2. QED
      BY <2>2, <3>1, CleanEnds
  <2>4. t = <<s[1], s[2], s[3]>>
    BY <2>2
  <2>5. Token(t, G)
    BY <1>3, <2>1, <2>4 DEF Token, FieldIn
  <2>6. QED
    BY <1>1, <2>2, <2>3, <2>5
<1>4. QED
  BY <1>2, <1>3

(* Induction over the tokens of clean texts. *)
LEMMA TokensMake ==
  ASSUME NEW G, NEW S, <<>> \in S,
         \A t, u \in Seq(Symbols) : Token(t, G) /\ Clean(u, G) /\ u \in S => t \o u \in S,
         NEW s \in Seq(Symbols), Clean(s, G)
  PROVE  s \in S
<1> DEFINE made == {n \in Nat : \A u \in Seq(Symbols) : Len(u) <= n /\ Clean(u, G) => u \in S}
<1>1. 0 \in made
  <2>1. \A u \in Seq(Symbols) : Len(u) <= 0 => u = <<>>
    OBVIOUS
  <2>2. QED
    BY <2>1
<1>2. ASSUME NEW n \in Nat, n \in made PROVE n + 1 \in made
  <2> SUFFICES ASSUME NEW v \in Seq(Symbols), Len(v) <= n + 1, Clean(v, G) PROVE v \in S
    OBVIOUS
  <2>1. CASE v = <<>>
    BY <2>1
  <2>2. CASE v # <<>>
    <3>1. PICK t, u \in Seq(Symbols) : v = t \o u /\ Token(t, G) /\ Clean(u, G) /\ Len(u) < Len(v)
      BY <2>2, FirstToken
    <3>2. Len(u) <= n
      BY <3>1
    <3>3. u \in S
      BY <1>2, <3>1, <3>2
    <3>4. QED
      BY <3>1, <3>3
  <2>3. QED
    BY <2>1, <2>2
<1>3. Nat \subseteq made
  <2> HIDE DEF made
  <2>1. QED
    BY <1>1, <1>2, NatsFromZero
<1>4. Len(s) \in made
  BY <1>3
<1>5. QED
  BY <1>4

(* Two texts with whole placeholders make one. *)
LEMMA CleanJoins ==
  ASSUME NEW x \in Seq(Symbols), NEW y \in Seq(Symbols), NEW G, Clean(x, G), Clean(y, G)
  PROVE  Clean(x \o y, G)
<1> DEFINE s == x \o y
           M == Len(x)
           N == Len(y)
<1>1. /\ Len(s) = M + N /\ M \in Nat /\ N \in Nat
      /\ \A n \in 1 .. M : s[n] = x[n]
      /\ \A n \in 1 .. N : s[M + n] = y[n]
  OBVIOUS
<1> HIDE DEF s
<1> SUFFICES ASSUME NEW i \in 1 .. M + N, s[i] = LeftBrace
             PROVE  i + 2 <= M + N /\ s[i + 1] \in G /\ s[i + 2] = RightBrace
  BY <1>1 DEF Clean, s
<1>2. CASE i <= M
  <2>1. i \in 1 .. M
    BY <1>1, <1>2
  <2>2. i + 2 <= M /\ x[i + 1] \in G /\ x[i + 2] = RightBrace
    BY <1>1, <2>1 DEF Clean
  <2>3. i + 1 \in 1 .. M /\ i + 2 \in 1 .. M
    BY <1>1, <2>1, <2>2
  <2>4. QED
    BY <1>1, <2>2, <2>3
<1>3. CASE ~(i <= M)
  <2> DEFINE m == i - M
  <2>1. m \in 1 .. N /\ i = M + m
    BY <1>1, <1>3
  <2> HIDE DEF m
  <2>2. m + 2 <= N /\ y[m + 1] \in G /\ y[m + 2] = RightBrace
    BY <1>1, <2>1 DEF Clean
  <2>3. i + 1 = M + (m + 1) /\ i + 2 = M + (m + 2) /\ m + 1 \in 1 .. N /\ m + 2 \in 1 .. N
    <3>1. M \in Nat /\ N \in Nat /\ m \in Nat /\ 1 <= m /\ m + 2 <= N /\ i = M + m
      BY <1>1, <2>1, <2>2
    <3>2. QED
      BY <3>1
  <2>4. s[M + (m + 1)] = y[m + 1] /\ s[M + (m + 2)] = y[m + 2]
    BY <1>1, <2>3
  <2>5. QED
    BY <1>1, <2>1, <2>2, <2>3, <2>4
<1>4. QED
  BY <1>1, <1>2, <1>3

(* A text without braces has whole placeholders, as it has none. *)
LEMMA PlainIsClean ==
  ASSUME NEW v \in Seq(Symbols \ Braces), NEW G
  PROVE  v \in Seq(Symbols) /\ Clean(v, G)
<1>1. \A i \in 1 .. Len(v) : v[i] # LeftBrace
  BY BracesAre
<1>2. v \in Seq(Symbols)
  OBVIOUS
<1>3. QED
  BY <1>1, <1>2 DEF Clean

(* A symbol or a placeholder is such a text. *)
LEMMA TokenIsClean ==
  ASSUME NEW t \in Seq(Symbols), NEW G, G \cap Braces = {}, Token(t, G)
  PROVE  Clean(t, G)
<1>1. ASSUME NEW c \in Symbols \ {LeftBrace}, t = <<c>> PROVE Clean(t, G)
  <2>1. Len(t) = 1 /\ t[1] # LeftBrace
    BY <1>1
  <2>2. QED
    BY <2>1 DEF Clean
<1>2. ASSUME NEW f \in G, t = FieldIn(f) PROVE Clean(t, G)
  <2>1. Len(t) = 3 /\ t[1] = LeftBrace /\ t[2] = f /\ t[3] = RightBrace
    BY <1>2 DEF FieldIn
  <2>2. f # LeftBrace /\ RightBrace # LeftBrace
    BY BracesAre
  <2>3. QED
    BY <2>1, <2>2 DEF Clean
<1>3. QED
  BY <1>1, <1>2 DEF Token

(* Nothing to replace in nothing, *)
LEMMA ReplaceEmpty ==
  ASSUME NEW f, NEW v \in Seq(Symbols)
  PROVE  ReplaceField(<<>>, f, v) = <<>>
<1> DEFINE s == <<>>
           p == Pieces(s, f, v)
<1>1. s \in Seq(Symbols) /\ Len(s) = 0
  OBVIOUS
<1> HIDE DEF s
<1>2. p \in Seq(Seq(Symbols)) /\ Len(p) = 0
  BY <1>1, PiecesAre
<1> HIDE DEF p
<1>3. p = <<>>
  BY <1>2
<1>4. ReplaceField(s, f, v) = <<>>
  BY <1>3, FlattenEmpty DEF ReplaceField, p
<1>5. QED
  BY <1>4 DEF s

(* nor in one symbol. *)
LEMMA ReplaceInSymbol ==
  ASSUME NEW c \in Symbols, NEW f, NEW v \in Seq(Symbols)
  PROVE  ReplaceField(<<c>>, f, v) = <<c>>
<1> DEFINE s == <<c>>
           p == Pieces(s, f, v)
<1>1. s \in Seq(Symbols) /\ Len(s) = 1 /\ s[1] = c
  OBVIOUS
<1> HIDE DEF s
<1>2. \A i \in Int : ~Occurs(s, f, i)
  BY <1>1 DEF Occurs
<1>3. p \in Seq(Seq(Symbols)) /\ Len(p) = 1 /\ p[1] = Piece(s, f, v, 1)
  BY <1>1, PiecesAre
<1>4. Piece(s, f, v, 1) = s
  BY <1>1, <1>2 DEF Piece, s
<1> HIDE DEF p
<1>5. p = <<s>>
  BY <1>3, <1>4
<1>6. FlattenSeq(<<s>>) = s
  BY <1>1, FlattenOne
<1>7. ReplaceField(s, f, v) = s
  BY <1>5, <1>6 DEF ReplaceField, p
<1>8. QED
  BY <1>7 DEF s

IsThree(p, a, b, c) ==
  /\ p \in Seq(Seq(Symbols)) /\ Len(p) = 3 /\ p[1] = a /\ p[2] = b /\ p[3] = c
  /\ a \in Seq(Symbols) /\ b \in Seq(Symbols) /\ c \in Seq(Symbols)

(* Three parts, joined. *)
LEMMA FlattenThree ==
  ASSUME NEW a, NEW b, NEW c, NEW p, IsThree(p, a, b, c)
  PROVE  FlattenSeq(p) = (a \o b) \o c
<1>0. /\ p \in Seq(Seq(Symbols)) /\ Len(p) = 3 /\ p[1] = a /\ p[2] = b /\ p[3] = c
      /\ a \in Seq(Symbols)
  BY DEF IsThree
<1>1. PICK f : Flattens(f, p) /\ FlattenSeq(p) = f[Len(p)]
  BY <1>0, FlattenIs
<1>2. f[0] = <<>> /\ \A n \in 1 .. 3 : f[n] = f[n - 1] \o p[n]
  BY <1>0, <1>1 DEF Flattens
<1>3. 1 \in 1 .. 3 /\ 2 \in 1 .. 3 /\ 3 \in 1 .. 3 /\ 1 - 1 = 0 /\ 2 - 1 = 1 /\ 3 - 1 = 2
  OBVIOUS
<1>4. f[1] = f[0] \o p[1]
  BY <1>2, <1>3
<1>5. f[2] = f[1] \o p[2]
  BY <1>2, <1>3
<1>6. f[3] = f[2] \o p[3]
  BY <1>2, <1>3
<1>7. <<>> \o a = a
  BY <1>0, ConcatEmptySeq
<1>8. f[1] = a
  BY <1>0, <1>2, <1>4, <1>7
<1>9. f[2] = a \o b
  BY <1>0, <1>5, <1>8
<1>10. f[3] = (a \o b) \o c
  BY <1>0, <1>6, <1>9
<1>11. QED
  BY <1>0, <1>1, <1>10

(* A placeholder becomes its value, or stays as it is. *)
LEMMA ReplaceInField ==
  ASSUME NEW g, FieldIn(g) \in Seq(Symbols), NEW f, NEW v \in Seq(Symbols)
  PROVE  ReplaceField(FieldIn(g), f, v) = IF g = f THEN v ELSE FieldIn(g)
<1> DEFINE s == FieldIn(g)
           p == Pieces(s, f, v)
<1>1. /\ s \in Seq(Symbols) /\ Len(s) = 3
      /\ s[1] = LeftBrace /\ s[2] = g /\ s[3] = RightBrace
  BY DEF FieldIn
<1>2. s = <<s[1], s[2], s[3]>> /\ s[1] \in Symbols /\ s[2] \in Symbols /\ s[3] \in Symbols
  <2>1. s = <<s[1], s[2], s[3]>>
    BY DEF FieldIn
  <2>2. 1 \in 1 .. Len(s) /\ 2 \in 1 .. Len(s) /\ 3 \in 1 .. Len(s)
    BY <1>1
  <2> HIDE DEF s
  <2>3. s \in Seq(Symbols)
    BY <1>1
  <2>4. s[1] \in Symbols /\ s[2] \in Symbols /\ s[3] \in Symbols
    BY <2>2, <2>3, ElementOfSeq
  <2>5. QED
    BY <2>1, <2>4
<1> HIDE DEF s
<1>3. (Occurs(s, f, 1) <=> g = f) /\ \A i \in Int : i # 1 => ~Occurs(s, f, i)
  <2>1. 1 .. Len(s) - 2 = {1}
    <3>1. 3 - 2 = 1 /\ 1 .. 1 = {1}
      OBVIOUS
    <3>2. QED
      BY <1>1, <3>1
  <2>2. 1 + 1 = 2 /\ 1 + 2 = 3
    OBVIOUS
  <2>3. QED
    BY <1>1, <2>1, <2>2 DEF Occurs
<1>4. /\ p \in Seq(Seq(Symbols)) /\ Len(p) = 3
      /\ p[1] = Piece(s, f, v, 1) /\ p[2] = Piece(s, f, v, 2) /\ p[3] = Piece(s, f, v, 3)
  <2>1. 1 \in 1 .. Len(s) /\ 2 \in 1 .. Len(s) /\ 3 \in 1 .. Len(s)
    BY <1>1
  <2>2. QED
    BY <1>1, <2>1, PiecesAre
<1> HIDE DEF p
<1>5. 1 - 1 = 0 /\ 1 - 2 \in Int /\ 1 - 2 # 1 /\ 2 - 1 = 1 /\ 2 - 2 = 0 /\ 3 - 1 = 2 /\ 3 - 2 = 1
  OBVIOUS
<1>6. ~Occurs(s, f, 0) /\ ~Occurs(s, f, 1 - 2) /\ ~Occurs(s, f, 2) /\ ~Occurs(s, f, 3)
  BY <1>3, <1>5
<1>7. CASE g = f
  <2>1. p[1] = v /\ p[2] = <<>> /\ p[3] = <<>>
    <3>1. Piece(s, f, v, 1) = v
      BY <1>3, <1>7 DEF Piece
    <3>2. Piece(s, f, v, 2) = <<>>
      BY <1>3, <1>5, <1>6, <1>7 DEF Piece
    <3>3. Piece(s, f, v, 3) = <<>>
      BY <1>3, <1>5, <1>6, <1>7 DEF Piece
    <3>4. QED
      BY <1>4, <3>1, <3>2, <3>3
  <2>2. <<>> \in Seq(Symbols)
    OBVIOUS
  <2>t. IsThree(p, v, <<>>, <<>>)
    BY <1>4, <2>1, <2>2 DEF IsThree
  <2>3. FlattenSeq(p) = (v \o <<>>) \o <<>>
    BY <2>t, FlattenThree
  <2>4. v \o <<>> = v
    BY ConcatEmptySeq
  <2>5. FlattenSeq(p) = v
    BY <2>3, <2>4
  <2>6. ReplaceField(s, f, v) = v
    BY <2>5 DEF ReplaceField, p
  <2>7. QED
    BY <1>7, <2>6 DEF s
<1>8. CASE g # f
  <2>1. PICK a, b, c \in Seq(Symbols) : a = <<s[1]>> /\ b = <<s[2]>> /\ c = <<s[3]>>
    <3>1. <<s[1]>> \in Seq(Symbols) /\ <<s[2]>> \in Seq(Symbols) /\ <<s[3]>> \in Seq(Symbols)
      BY <1>2
    <3>2. QED
      BY <3>1, Zenon
  <2>2. p[1] = a /\ p[2] = b /\ p[3] = c
    <3>1. Piece(s, f, v, 1) = a
      BY <1>3, <1>5, <1>6, <1>8, <2>1 DEF Piece
    <3>2. Piece(s, f, v, 2) = b
      BY <1>3, <1>5, <1>6, <1>8, <2>1 DEF Piece
    <3>3. Piece(s, f, v, 3) = c
      BY <1>3, <1>5, <1>6, <1>8, <2>1 DEF Piece
    <3>4. QED
      BY <1>4, <3>1, <3>2, <3>3
  <2>3. (a \o b) \o c = s
    BY <1>2, <2>1
  <2>4. FlattenSeq(p) = (a \o b) \o c
    <3>1. IsThree(p, a, b, c)
      BY <1>4, <2>2 DEF IsThree
    <3>2. QED
      BY <3>1, FlattenThree
  <2>5. ReplaceField(s, f, v) = s
    BY <2>3, <2>4 DEF ReplaceField, p
  <2>6. QED
    BY <1>8, <2>5 DEF s
<1>9. QED
  BY <1>7, <1>8

(* Values have no braces, so replacing keeps placeholders whole. *)
LEMMA ReplaceKeepsClean ==
  ASSUME NEW G, G \cap Braces = {}, NEW s \in Seq(Symbols), Clean(s, G),
         NEW f, NEW v \in Seq(Symbols \ Braces)
  PROVE  ReplaceField(s, f, v) \in Seq(Symbols) /\ Clean(ReplaceField(s, f, v), G)
<1>1. v \in Seq(Symbols) /\ Clean(v, G)
  BY PlainIsClean
<1> DEFINE S == {u \in Seq(Symbols) : Clean(ReplaceField(u, f, v), G)}
<1>2. <<>> \in S
  <2>1. <<>> \in Seq(Symbols) /\ Clean(<<>>, G)
    BY DEF Clean
  <2>2. QED
    BY <1>1, <2>1, ReplaceEmpty
<1>3. ASSUME NEW t \in Seq(Symbols), NEW u \in Seq(Symbols), Token(t, G), Clean(u, G), u \in S
      PROVE  t \o u \in S
  <2>1. Clean(t, G) /\ t \o u \in Seq(Symbols)
    BY <1>3, TokenIsClean
  <2> DEFINE x == ReplaceField(t, f, v)
             y == ReplaceField(u, f, v)
  <2>2. x \in {t, v}
    <3>1. ASSUME NEW c \in Symbols, t = <<c>> PROVE x = t
      BY <1>1, <3>1, ReplaceInSymbol
    <3>2. ASSUME NEW g, t = FieldIn(g) PROVE x \in {t, v}
      BY <1>1, <3>2, ReplaceInField
    <3>3. QED
      BY <1>3, <3>1, <3>2 DEF Token
  <2>3. x \in Seq(Symbols) /\ y \in Seq(Symbols)
    BY <1>1, PiecesAre
  <2>4. ReplaceField(t \o u, f, v) = x \o y
    <3>1. Clean(t, G) /\ v \in Seq(Symbols)
      BY <1>1, <2>1
    <3>2. ReplaceField(t \o u, f, v) = ReplaceField(t, f, v) \o ReplaceField(u, f, v)
      BY <3>1, ReplaceJoins, SMTT(30)
    <3>3. QED
      BY <3>2
  <2>5. Clean(x, G) /\ Clean(y, G)
    BY <1>1, <1>3, <2>1, <2>2
  <2> HIDE DEF x, y
  <2>6. Clean(x \o y, G)
    BY <2>3, <2>5, CleanJoins
  <2>7. QED
    BY <2>1, <2>4, <2>6
<1> HIDE DEF S
<1>4. s \in S
  BY <1>2, <1>3, TokensMake
<1>5. QED
  BY <1>1, <1>4, PiecesAre DEF S

(* A text without braces stays as it is. *)
LEMMA ReplaceNothing ==
  ASSUME NEW s \in Seq(Symbols \ Braces), NEW f, NEW v \in Seq(Symbols)
  PROVE  ReplaceField(s, f, v) = s
<1> DEFINE S == {u \in Seq(Symbols) : ReplaceField(u, f, v) = u}
<1>1. s \in Seq(Symbols) /\ Clean(s, {})
  BY PlainIsClean
<1>2. <<>> \in S
  BY ReplaceEmpty
<1>3. ASSUME NEW t \in Seq(Symbols), NEW u \in Seq(Symbols), Token(t, {}), Clean(u, {}), u \in S
      PROVE  t \o u \in S
  <2>1. PICK c \in Symbols \ {LeftBrace} : t = <<c>>
    BY <1>3 DEF Token
  <2>2. ReplaceField(t, f, v) = t
    BY <2>1, ReplaceInSymbol
  <2>3. Clean(t, {})
    BY <1>3, TokenIsClean
  <2>4. ReplaceField(t \o u, f, v) = ReplaceField(t, f, v) \o ReplaceField(u, f, v)
    BY <2>3, ReplaceJoins
  <2>5. QED
    BY <1>3, <2>2, <2>4
<1> HIDE DEF S
<1>4. s \in S
  BY <1>1, <1>2, <1>3, TokensMake
<1>5. QED
  BY <1>4 DEF S

(* What one name of the list does, and all of them. *)
Bare(G) == G \cap Braces = {}

PlainFields(fields) == \A f \in DOMAIN fields : fields[f] \in Seq(Symbols \ Braces)

Replaced(s, name, fields) ==
  IF Known(name, fields) THEN ReplaceField(s, name[1], fields[name[1]]) ELSE s

Filled(s, names, fields) == Replacements(s, names, fields)[Len(names)]

(* One name of the list, by the same two facts. *)
LEMMA ReplacedIs ==
  ASSUME NEW s \in Seq(Symbols), NEW name, NEW fields, PlainFields(fields)
  PROVE  /\ Replaced(s, name, fields) \in Seq(Symbols)
         /\ \A G : G \cap Braces = {} /\ Clean(s, G) => Clean(Replaced(s, name, fields), G)
<1>1. CASE Known(name, fields)
  <2> DEFINE f == name[1]
             v == fields[f]
  <2>1. v \in Seq(Symbols \ Braces)
    BY <1>1 DEF Known, PlainFields
  <2>2. Replaced(s, name, fields) = ReplaceField(s, f, v)
    BY <1>1 DEF Replaced
  <2> HIDE DEF f, v
  <2>3. v \in Seq(Symbols)
    BY <2>1, PlainIsClean
  <2>4. ReplaceField(s, f, v) \in Seq(Symbols)
    BY <2>3, PiecesAre
  <2>5. \A G : G \cap Braces = {} /\ Clean(s, G) => Clean(ReplaceField(s, f, v), G)
    BY <2>1, ReplaceKeepsClean
  <2>6. QED
    BY <2>2, <2>4, <2>5
<1>2. CASE ~Known(name, fields)
  BY <1>2 DEF Replaced
<1>3. QED
  BY <1>1, <1>2

(* One name of the list distributes. *)
LEMMA ReplacedJoins ==
  ASSUME NEW x \in Seq(Symbols), NEW y \in Seq(Symbols), NEW G, Clean(x, G),
         NEW name, NEW fields, PlainFields(fields)
  PROVE  Replaced(x \o y, name, fields) = Replaced(x, name, fields) \o Replaced(y, name, fields)
<1>1. CASE Known(name, fields)
  <2> DEFINE f == name[1]
             v == fields[f]
  <2>1. v \in Seq(Symbols \ Braces)
    BY <1>1 DEF Known, PlainFields
  <2>2. \A s : Replaced(s, name, fields) = ReplaceField(s, f, v)
    BY <1>1 DEF Replaced
  <2> HIDE DEF f, v
  <2>3. v \in Seq(Symbols)
    BY <2>1, PlainIsClean
  <2>4. ReplaceField(x \o y, f, v) = ReplaceField(x, f, v) \o ReplaceField(y, f, v)
    BY <2>3, ReplaceJoins
  <2> DEFINE s == x \o y
  <2>5. Replaced(s, name, fields) = ReplaceField(s, f, v)
    <3> HIDE DEF s
    <3>1. QED
      BY <2>2
  <2>6. Replaced(x, name, fields) = ReplaceField(x, f, v) /\ Replaced(y, name, fields) = ReplaceField(y, f, v)
    BY <2>2
  <2>7. QED
    BY <2>4, <2>5, <2>6
<1>2. CASE ~Known(name, fields)
  BY <1>2 DEF Replaced
<1>3. QED
  BY <1>1, <1>2

(* The loop over the names is what its definition says, at every name. *)
LEMMA ReplacementsAre ==
  ASSUME NEW tmpl \in Seq(Symbols), NEW names \in Seq(Seq(Symbols)), NEW fields, PlainFields(fields)
  PROVE  LET v == Replacements(tmpl, names, fields)
         IN  /\ v \in [0 .. Len(names) -> Seq(Symbols)] /\ v[0] = tmpl
             /\ \A n \in 1 .. Len(names) : v[n] = Replaced(v[n - 1], names[n], fields)
<1> DEFINE N == Len(names)
           S == Seq(Symbols)
           R == [nx \in (1 .. N) \X S |-> Replaced(nx[2], names[nx[1]], fields)]
           Is(v) == v = [n \in 0 .. N |-> IF n = 0 THEN tmpl ELSE Replaced(v[n - 1], names[n], fields)]
<1>1. N \in Nat /\ tmpl \in S
  OBVIOUS
<1>2. R \in [(1 .. N) \X S -> S]
  BY ReplacedIs
<1>3. PICK f : Recurs(f, S, tmpl, N, R)
  <2> HIDE DEF R, N, S
  <2>1. QED
    BY <1>1, <1>2, RecursionIs
<1>4. f \in [0 .. N -> S] /\ f[0] = tmpl /\ \A n \in 1 .. N : f[n] = R[<<n, f[n - 1]>>]
  BY <1>3 DEF Recurs
<1> HIDE DEF S
<1>5. ASSUME NEW n \in 1 .. N PROVE f[n] = Replaced(f[n - 1], names[n], fields)
  <2> DEFINE k == n - 1
  <2>1. k \in 0 .. N
    BY <1>1
  <2>2. f[n] = R[<<n, f[k]>>]
    BY <1>4
  <2> HIDE DEF k
  <2>3. f[k] \in S
    BY <1>4, <2>1
  <2>4. R[<<n, f[k]>>] = Replaced(f[k], names[n], fields)
    BY <2>3
  <2>5. QED
    BY <2>2, <2>4 DEF k
<1>6. Is(f)
  <2>1. ASSUME NEW n \in 0 .. N PROVE f[n] = IF n = 0 THEN tmpl ELSE Replaced(f[n - 1], names[n], fields)
    <3>1. n # 0 => n \in 1 .. N
      BY <1>1
    <3>2. QED
      BY <1>4, <1>5, <3>1
  <2>2. f = [n \in 0 .. N |-> f[n]]
    BY <1>4
  <2>3. QED
    BY <2>1, <2>2
<1> DEFINE v == CHOOSE v : Is(v)
<1>7. Is(v)
  <2> HIDE DEF Is
  <2>1. QED
    BY <1>6
<1>8. Replacements(tmpl, names, fields) = v
  BY DEF Replacements, Replaced
<1> HIDE DEF v
<1>9. v[0] = tmpl /\ \A n \in 1 .. N : v[n] = Replaced(v[n - 1], names[n], fields)
  <2>1. v[0] = tmpl
    BY <1>1, <1>7
  <2>2. ASSUME NEW n \in 1 .. N PROVE v[n] = Replaced(v[n - 1], names[n], fields)
    <3>1. n \in 0 .. N /\ n # 0
      BY <1>1
    <3>2. QED
      BY <1>7, <3>1
  <2>3. QED
    BY <2>1, <2>2
<1>10. v \in [0 .. N -> S]
  <2> DEFINE typed == {n \in Nat : n <= N => v[n] \in S}
  <2>1. 0 \in typed
    BY <1>1, <1>9
  <2>2. ASSUME NEW n \in Nat, n \in typed PROVE n + 1 \in typed
    <3> SUFFICES ASSUME n + 1 <= N PROVE v[n + 1] \in S
      OBVIOUS
    <3> DEFINE k == n + 1
    <3>1. k \in 1 .. N /\ k - 1 = n /\ v[n] \in S
      BY <1>1, <2>2
    <3>2. v[k] = Replaced(v[n], names[k], fields)
      BY <1>9, <3>1
    <3> HIDE DEF k
    <3>3. v[k] \in S
      BY <3>1, <3>2, ReplacedIs DEF S
    <3>4. QED
      BY <3>3 DEF k
  <2>3. Nat \subseteq typed
    <3> HIDE DEF typed
    <3>1. QED
      BY <2>1, <2>2, NatsFromZero
  <2>4. ASSUME NEW n \in 0 .. N PROVE v[n] \in S
    BY <1>1, <2>3
  <2>5. v = [n \in 0 .. N |-> v[n]]
    BY <1>7
  <2>6. QED
    BY <2>4, <2>5
<1>11. QED
  BY <1>8, <1>9, <1>10 DEF S

(* What is filled in is a text. *)
LEMMA FilledIs ==
  ASSUME NEW s \in Seq(Symbols), NEW names \in Seq(Seq(Symbols)), NEW fields, PlainFields(fields)
  PROVE  Filled(s, names, fields) \in Seq(Symbols)
<1> DEFINE v == Replacements(s, names, fields)
<1>1. v \in [0 .. Len(names) -> Seq(Symbols)]
  BY ReplacementsAre
<1> HIDE DEF v
<1>2. Len(names) \in 0 .. Len(names)
  OBVIOUS
<1>3. v[Len(names)] \in Seq(Symbols)
  BY <1>1, <1>2
<1>4. QED
  BY <1>3 DEF Filled, v

(* All the names distribute, so that a template can be filled in by parts. *)
LEMMA FilledJoins ==
  ASSUME NEW x \in Seq(Symbols), NEW y \in Seq(Symbols), NEW G, Bare(G), Clean(x, G),
         NEW names \in Seq(Seq(Symbols)), NEW fields, PlainFields(fields)
  PROVE  Filled(x \o y, names, fields) = Filled(x, names, fields) \o Filled(y, names, fields)
<1> DEFINE s == x \o y
           a == Replacements(x, names, fields)
           b == Replacements(y, names, fields)
           c == Replacements(s, names, fields)
           N == Len(names)
           Splits(n) == c[n] = a[n] \o b[n] /\ Clean(a[n], G)
           joined == {n \in Nat : n <= N => Splits(n)}
<1>1. s \in Seq(Symbols) /\ N \in Nat
  OBVIOUS
<1> HIDE DEF s
<1>2. /\ a \in [0 .. N -> Seq(Symbols)] /\ a[0] = x /\ \A n \in 1 .. N : a[n] = Replaced(a[n - 1], names[n], fields)
      /\ b \in [0 .. N -> Seq(Symbols)] /\ b[0] = y /\ \A n \in 1 .. N : b[n] = Replaced(b[n - 1], names[n], fields)
      /\ c \in [0 .. N -> Seq(Symbols)] /\ c[0] = s /\ \A n \in 1 .. N : c[n] = Replaced(c[n - 1], names[n], fields)
  BY <1>1, ReplacementsAre
<1> HIDE DEF a, b, c
<1> HIDE DEF Splits
<1>3. 0 \in joined
  BY <1>2 DEF s, Splits
<1>4. ASSUME NEW n \in Nat, n \in joined PROVE n + 1 \in joined
  <2> SUFFICES ASSUME n + 1 <= N PROVE Splits(n + 1)
    OBVIOUS
  <2> DEFINE k == n + 1
             p == a[n]
             q == b[n]
             nm == names[k]
  <2>0. k \in 1 .. N /\ k - 1 = n /\ n \in 0 .. N /\ Splits(n)
    BY <1>1, <1>4
  <2>1. k \in 1 .. N /\ k - 1 = n /\ n \in 0 .. N /\ c[n] = p \o q /\ Clean(p, G)
    BY <2>0 DEF Splits
  <2>2. p \in Seq(Symbols) /\ q \in Seq(Symbols)
    BY <1>2, <2>1
  <2>3. /\ a[k] = Replaced(p, nm, fields) /\ b[k] = Replaced(q, nm, fields)
        /\ c[k] = Replaced(p \o q, nm, fields)
    BY <1>2, <2>1
  <2> HIDE DEF k, p, q, nm
  <2>4. Replaced(p \o q, nm, fields) = Replaced(p, nm, fields) \o Replaced(q, nm, fields)
    <3>1. p \in Seq(Symbols)
      BY <2>2
    <3>2. q \in Seq(Symbols)
      BY <2>2
    <3>3. Clean(p, G)
      BY <2>1
    <3>4. PlainFields(fields)
      OBVIOUS
    <3>5. QED
      BY <3>1, <3>2, <3>3, <3>4, ReplacedJoins, SMTT(30)
  <2>5. Clean(Replaced(p, nm, fields), G)
    BY <2>1, <2>2, ReplacedIs DEF Bare
  <2>6. c[k] = a[k] \o b[k] /\ Clean(a[k], G)
    BY <2>3, <2>4, <2>5
  <2>7. QED
    BY <2>6 DEF k, Splits
<1>5. Nat \subseteq joined
  <2> HIDE DEF joined
  <2>1. QED
    BY <1>3, <1>4, NatsFromZero
<1>6. Splits(N)
  BY <1>1, <1>5
<1>7. QED
  BY <1>6 DEF Filled, Splits, a, b, c, s

(* What no name of the list changes stays as it is. *)
LEMMA FilledSame ==
  ASSUME NEW s \in Seq(Symbols), NEW names \in Seq(Seq(Symbols)), NEW fields, PlainFields(fields),
         \A n \in 1 .. Len(names) : Replaced(s, names[n], fields) = s
  PROVE  Filled(s, names, fields) = s
<1> DEFINE a == Replacements(s, names, fields)
           N == Len(names)
           same == {n \in Nat : n <= N => a[n] = s}
<1>1. a[0] = s /\ N \in Nat /\ \A n \in 1 .. N : a[n] = Replaced(a[n - 1], names[n], fields)
  BY ReplacementsAre
<1> HIDE DEF a
<1>2. 0 \in same
  BY <1>1
<1>3. ASSUME NEW n \in Nat, n \in same PROVE n + 1 \in same
  <2> SUFFICES ASSUME n + 1 <= N PROVE a[n + 1] = s
    OBVIOUS
  <2> DEFINE k == n + 1
  <2>1. k \in 1 .. N /\ k - 1 = n /\ a[n] = s
    BY <1>1, <1>3
  <2> HIDE DEF k
  <2>2. a[k] = s
    BY <1>1, <2>1
  <2>3. QED
    BY <2>2 DEF k
<1>4. Nat \subseteq same
  <2> HIDE DEF same
  <2>1. QED
    BY <1>2, <1>3, NatsFromZero
<1>5. a[N] = s
  BY <1>1, <1>4
<1>6. QED
  BY <1>5 DEF Filled, a

(* A symbol is filled in as it is. *)
LEMMA FilledSymbol ==
  ASSUME NEW names \in Seq(Seq(Symbols)), NEW fields, PlainFields(fields)
  PROVE  /\ Filled(<<>>, names, fields) = <<>>
         /\ \A c \in Symbols : Filled(<<c>>, names, fields) = <<c>>
<1>1. ASSUME NEW s \in Seq(Symbols), s = <<>> \/ \E c \in Symbols : s = <<c>>,
             NEW name
      PROVE  Replaced(s, name, fields) = s
  <2>1. CASE Known(name, fields)
    <3> DEFINE f == name[1]
               v == fields[f]
    <3>1. v \in Seq(Symbols \ Braces)
      BY <2>1 DEF Known, PlainFields
    <3>2. Replaced(s, name, fields) = ReplaceField(s, f, v)
      BY <2>1 DEF Replaced
    <3> HIDE DEF f, v
    <3>3. v \in Seq(Symbols)
      BY <3>1, PlainIsClean
    <3>4. ReplaceField(s, f, v) = s
      BY <1>1, <3>3, ReplaceEmpty, ReplaceInSymbol
    <3>5. QED
      BY <3>2, <3>4
  <2>2. CASE ~Known(name, fields)
    BY <2>2 DEF Replaced
  <2>3. QED
    BY <2>1, <2>2
<1>2. ASSUME NEW s \in Seq(Symbols), s = <<>> \/ \E c \in Symbols : s = <<c>>
      PROVE  Filled(s, names, fields) = s
  <2>1. \A n \in 1 .. Len(names) : Replaced(s, names[n], fields) = s
    BY <1>1, <1>2
  <2>2. QED
    BY <2>1, FilledSame
<1>3. <<>> \in Seq(Symbols) /\ \A c \in Symbols : <<c>> \in Seq(Symbols)
  OBVIOUS
<1>4. QED
  BY <1>2, <1>3

(* A placeholder becomes the value of its field, if that is known. *)
LEMMA FilledField ==
  ASSUME NEW names \in Seq(Seq(Symbols)), NEW fields, PlainFields(fields),
         NEW g, FieldIn(g) \in Seq(Symbols)
  PROVE  /\ g \notin DOMAIN fields => Filled(FieldIn(g), names, fields) = FieldIn(g)
         /\ g \in DOMAIN fields /\ <<g>> \in ToSet(names) => Filled(FieldIn(g), names, fields) = fields[g]
<1> DEFINE s == FieldIn(g)
<1>1. s \in Seq(Symbols)
  OBVIOUS
<1>2. ASSUME NEW name, name[1] # g PROVE Replaced(s, name, fields) = s
  <2>1. CASE Known(name, fields)
    <3> DEFINE f == name[1]
               v == fields[f]
    <3>1. v \in Seq(Symbols \ Braces) /\ f # g
      BY <1>2, <2>1 DEF Known, PlainFields
    <3>2. Replaced(s, name, fields) = ReplaceField(s, f, v)
      BY <2>1 DEF Replaced
    <3> HIDE DEF f, v
    <3>3. v \in Seq(Symbols)
      BY <3>1, PlainIsClean
    <3>4. ReplaceField(s, f, v) = s
      BY <3>1, <3>3, ReplaceInField
    <3>5. QED
      BY <3>2, <3>4
  <2>2. CASE ~Known(name, fields)
    BY <2>2 DEF Replaced
  <2>3. QED
    BY <2>1, <2>2
<1>3. ASSUME g \notin DOMAIN fields PROVE Filled(s, names, fields) = s
  <2>1. ASSUME NEW n \in 1 .. Len(names) PROVE Replaced(s, names[n], fields) = s
    <3>1. CASE names[n][1] = g
      <4>1. ~Known(names[n], fields)
        BY <1>3, <3>1 DEF Known
      <4>2. QED
        BY <4>1 DEF Replaced
    <3>2. CASE names[n][1] # g
      <4> DEFINE name == names[n]
      <4> HIDE DEF name
      <4>1. name[1] # g
        BY <3>2 DEF name
      <4>2. Replaced(s, name, fields) = s
        BY <1>2, <4>1
      <4>3. QED
        BY <4>2 DEF name
    <3>3. QED
      BY <3>1, <3>2
  <2> HIDE DEF s
  <2>2. QED
    BY <1>1, <2>1, FilledSame
<1>4. ASSUME g \in DOMAIN fields, <<g>> \in ToSet(names) PROVE Filled(s, names, fields) = fields[g]
  <2> DEFINE v == fields[g]
             a == Replacements(s, names, fields)
             N == Len(names)
             Upto(n) == \/ a[n] = v
                        \/ a[n] = s /\ \A m \in 1 .. n : names[m] # <<g>>
             done == {n \in Nat : n <= N => Upto(n)}
  <2>1. v \in Seq(Symbols \ Braces)
    BY <1>4 DEF PlainFields
  <2>2. a[0] = s /\ N \in Nat /\ \A n \in 1 .. N : a[n] = Replaced(a[n - 1], names[n], fields)
    <3> HIDE DEF s
    <3>1. QED
      BY <1>1, ReplacementsAre
  <2> HIDE DEF a
  <2>3. ASSUME NEW name PROVE Replaced(v, name, fields) = v
    <3>1. CASE Known(name, fields)
      <4> DEFINE f == name[1]
                 w == fields[f]
      <4>1. w \in Seq(Symbols \ Braces)
        BY <3>1 DEF Known, PlainFields
      <4>2. Replaced(v, name, fields) = ReplaceField(v, f, w)
        BY <3>1 DEF Replaced
      <4> HIDE DEF f, w, v
      <4>3. w \in Seq(Symbols)
        BY <4>1, PlainIsClean
      <4>4. ReplaceField(v, f, w) = v
        BY <2>1, <4>3, ReplaceNothing
      <4>5. QED
        BY <4>2, <4>4
    <3>2. CASE ~Known(name, fields)
      BY <3>2 DEF Replaced
    <3>3. QED
      BY <3>1, <3>2
  <2>4. Replaced(s, <<g>>, fields) = v
    <3>1. Known(<<g>>, fields)
      <4>1. Len(<<g>>) = 1 /\ <<g>>[1] = g
        OBVIOUS
      <4>2. QED
        BY <1>4, <4>1 DEF Known
    <3>2. Replaced(s, <<g>>, fields) = ReplaceField(s, g, v)
      BY <3>1 DEF Replaced
    <3>3. v \in Seq(Symbols)
      BY <2>1, PlainIsClean
    <3> HIDE DEF v
    <3>4. ReplaceField(s, g, v) = v
      BY <3>3, ReplaceInField
    <3>5. QED
      BY <3>2, <3>4
  <2> HIDE DEF v, s
  <2>5. 0 \in done
    BY <2>2
  <2>6. ASSUME NEW n \in Nat, n \in done PROVE n + 1 \in done
    <3> SUFFICES ASSUME n + 1 <= N PROVE Upto(n + 1)
      OBVIOUS
    <3> DEFINE k == n + 1
               name == names[k]
    <3>0. Upto(n)
      <4> HIDE DEF Upto
      <4>1. QED
        BY <2>2, <2>6
    <3>1. k \in 1 .. N /\ k - 1 = n /\ \A m \in 1 .. k : m = k \/ m \in 1 .. n
      BY <2>2
    <3>2. a[k] = Replaced(a[n], name, fields)
      BY <2>2, <3>1
    <3>3. name \in Seq(Symbols)
      BY <3>1
    <3> HIDE DEF k, name
    <3>4. CASE a[n] = v
      <4>1. a[k] = v
        BY <2>3, <3>2, <3>4
      <4>2. QED
        BY <4>1 DEF k
    <3>5. CASE a[n] = s /\ \A m \in 1 .. n : names[m] # <<g>>
      <4>1. CASE name = <<g>>
        <5>1. a[k] = v
          BY <2>4, <3>2, <3>5, <4>1
        <5>2. QED
          BY <5>1 DEF k
      <4>2. CASE name # <<g>> /\ name[1] # g
        <5>1. a[k] = s
          BY <1>2, <3>2, <3>5, <4>2 DEF s
        <5>2. \A m \in 1 .. k : names[m] # <<g>>
          BY <3>1, <3>5, <4>2 DEF name
        <5>3. QED
          BY <5>1, <5>2 DEF k
      <4>3. CASE name # <<g>> /\ name[1] = g
        <5>1. Len(name) # 1
          BY <3>3, <4>3
        <5>2. Replaced(s, name, fields) = s
          BY <5>1 DEF Replaced, Known
        <5>3. a[k] = s
          BY <3>2, <3>5, <5>2
        <5>4. \A m \in 1 .. k : names[m] # <<g>>
          BY <3>1, <3>5, <4>3 DEF name
        <5>5. QED
          BY <5>3, <5>4 DEF k
      <4>4. QED
        BY <4>1, <4>2, <4>3
    <3>6. QED
      BY <3>0, <3>4, <3>5
  <2>7. Nat \subseteq done
    <3> HIDE DEF done
    <3>1. QED
      BY <2>5, <2>6, NatsFromZero
  <2>8. Upto(N)
    BY <2>2, <2>7
  <2>9. \E m \in 1 .. N : names[m] = <<g>>
    <3>1. DOMAIN names = 1 .. N
      OBVIOUS
    <3>2. QED
      BY <1>4, <3>1 DEF ToSet
  <2>10. a[N] = v
    BY <2>8, <2>9
  <2>11. QED
    BY <2>10 DEF Filled, a, v
<1>5. QED
  BY <1>3, <1>4

(* What a text comes to when some fields are known, and what it comes to   *)
(* when all are, in each of some ways W: both begin alike, up to the first *)
(* placeholder of an open field, where the one has a brace.                *)
NoBrace(p) == \A i \in 1 .. Len(p) : p[i] # LeftBrace

Ends(s, names, known, W, p) ==
  Filled(s, names, known) = p /\ \A w \in W : Filled(s, names, w) = p

Breaks(s, names, known, W, p, f) ==
  /\ \E u \in Seq(Symbols) : Filled(s, names, known) = p \o (<<LeftBrace>> \o u)
  /\ \A w \in W : \E u \in Seq(Symbols) : Filled(s, names, w) = p \o (w[f] \o u)

Agree(s, names, known, W, O, G) ==
  \E p \in Seq(Symbols) :
    /\ NoBrace(p)
    /\ \/ Clean(s, G \ O) /\ Ends(s, names, known, W, p)
       \/ \E f \in O : Breaks(s, names, known, W, p, f)

(* Each way says what is known, and the open fields. *)
Ways(W, known, O) ==
  /\ PlainFields(known) /\ O \cap DOMAIN known = {}
  /\ \A w \in W : /\ PlainFields(w) /\ DOMAIN w = DOMAIN known \cup O
                  /\ \A f \in DOMAIN known : w[f] = known[f]

(* Two texts without an opening brace make one. *)
LEMMA NoBraceJoins ==
  ASSUME NEW x \in Seq(Symbols), NEW y \in Seq(Symbols), NoBrace(x), NoBrace(y)
  PROVE  NoBrace(x \o y)
<1>1. Clean(x, {}) /\ Clean(y, {})
  BY DEF Clean, NoBrace
<1>2. Clean(x \o y, {})
  BY <1>1, CleanJoins
<1>3. QED
  BY <1>2 DEF Clean, NoBrace

Associates(x, y, z) == x \o (y \o z) = (x \o y) \o z

(* Concatenation of symbols is associative. *)
LEMMA JoinsOver ==
  ASSUME NEW x \in Seq(Symbols), NEW y \in Seq(Symbols), NEW z \in Seq(Symbols)
  PROVE  Associates(x, y, z)
BY Regroup, SMTT(30) DEF Associates

(* A part that is the same in every way leaves the rest to agree. *)
LEMMA AgreeSame ==
  ASSUME NEW G, Bare(G), NEW names \in Seq(Seq(Symbols)), NEW known, NEW O, NEW W, Ways(W, known, O),
         NEW t \in Seq(Symbols), NEW u \in Seq(Symbols), Clean(t, G \ O), Agree(u, names, known, W, O, G),
         NEW x \in Seq(Symbols), NoBrace(x), Ends(t, names, known, W, x)
  PROVE  Agree(t \o u, names, known, W, O, G)
<1>1. PlainFields(known) /\ \A w \in W : PlainFields(w)
  BY DEF Ways
<1>2. Filled(t, names, known) = x /\ \A w \in W : Filled(t, names, w) = x
  BY DEF Ends
<1> DEFINE s == t \o u
           H == G \ O
<1>h. Clean(t, H) /\ Bare(H)
  BY DEF Bare
<1> HIDE DEF H
<1>3. Filled(s, names, known) = x \o Filled(u, names, known)
  <2>1. Filled(s, names, known) = Filled(t, names, known) \o Filled(u, names, known)
    BY <1>1, <1>h, FilledJoins
  <2>2. QED
    BY <1>2, <2>1
<1>4. ASSUME NEW w \in W PROVE Filled(s, names, w) = x \o Filled(u, names, w)
  <2>1. PlainFields(w)
    BY <1>1
  <2>2. Filled(s, names, w) = Filled(t, names, w) \o Filled(u, names, w)
    BY <1>1, <1>h, <2>1, FilledJoins
  <2>3. QED
    BY <1>2, <2>2
<1>5. PICK p \in Seq(Symbols) :
        /\ NoBrace(p)
        /\ \/ Clean(u, G \ O) /\ Ends(u, names, known, W, p)
           \/ \E f \in O : Breaks(u, names, known, W, p, f)
  BY DEF Agree
<1> DEFINE q == x \o p
<1>6. q \in Seq(Symbols) /\ NoBrace(q)
  BY <1>5, NoBraceJoins
<1>7. CASE Clean(u, G \ O) /\ Ends(u, names, known, W, p)
  <2>1. Clean(s, G \ O)
    BY <1>7, CleanJoins
  <2>2. Ends(s, names, known, W, q)
    <3> HIDE DEF s
    <3>1. QED
      BY <1>3, <1>4, <1>7 DEF Ends
  <2> HIDE DEF s, q
  <2>3. Agree(s, names, known, W, O, G)
    BY <1>6, <2>1, <2>2 DEF Agree
  <2>4. QED
    BY <2>3 DEF s
<1>8. ASSUME NEW f \in O, Breaks(u, names, known, W, p, f) PROVE Agree(s, names, known, W, O, G)
  <2>1. PICK e \in Seq(Symbols) : Filled(u, names, known) = p \o (<<LeftBrace>> \o e)
    BY <1>8 DEF Breaks
  <2>2. LeftBrace \in Symbols
    <3> DEFINE y == Filled(u, names, known)
               z == p \o (<<LeftBrace>> \o e)
    <3>1. y \in Seq(Symbols)
      BY <1>1, FilledIs
    <3>2. z[Len(p) + 1] = LeftBrace /\ Len(p) + 1 \in 1 .. Len(z)
      OBVIOUS
    <3> HIDE DEF y, z
    <3>3. y = z
      BY <2>1 DEF y, z
    <3>4. QED
      BY <3>1, <3>2, <3>3
  <2>3. Filled(s, names, known) = q \o (<<LeftBrace>> \o e)
    <3>1. <<LeftBrace>> \o e \in Seq(Symbols)
      BY <2>2
    <3> DEFINE z == <<LeftBrace>> \o e
    <3> HIDE DEF z
    <3>2. z \in Seq(Symbols)
      BY <3>1 DEF z
    <3>3. x \o (p \o z) = (x \o p) \o z
      <4>1. Associates(x, p, z)
        BY <3>2, JoinsOver
      <4>2. QED
        BY <4>1 DEF Associates
    <3>4. Filled(s, names, known) = x \o (p \o z)
      BY <1>3, <2>1 DEF z
    <3>5. QED
      BY <3>3, <3>4 DEF z
  <2>4. ASSUME NEW w \in W PROVE \E r \in Seq(Symbols) : Filled(s, names, w) = q \o (w[f] \o r)
    <3>1. PICK r \in Seq(Symbols) : Filled(u, names, w) = p \o (w[f] \o r)
      BY <1>8 DEF Breaks
    <3>2. w[f] \in Seq(Symbols)
      <4>1. f \in DOMAIN w
        BY DEF Ways
      <4>2. w[f] \in Seq(Symbols \ Braces)
        BY <1>1, <4>1 DEF PlainFields
      <4>3. QED
        BY <4>2, PlainIsClean
    <3> DEFINE z == w[f] \o r
    <3>3. z \in Seq(Symbols)
      BY <3>2
    <3>4. Filled(s, names, w) = x \o (p \o z)
      BY <1>4, <3>1
    <3> HIDE DEF z
    <3>5. x \o (p \o z) = (x \o p) \o z
      <4>1. Associates(x, p, z)
        BY <3>3, JoinsOver
      <4>2. QED
        BY <4>1 DEF Associates
    <3>6. QED
      BY <3>4, <3>5 DEF z
  <2> HIDE DEF s, q
  <2>5. Breaks(s, names, known, W, q, f)
    BY <2>1, <2>3, <2>4 DEF Breaks
  <2>6. QED
    BY <1>6, <2>5 DEF Agree
<1>9. QED
  BY <1>5, <1>7, <1>8

(* At the placeholder of an open field the names part. *)
LEMMA AgreeOpen ==
  ASSUME NEW G, Bare(G), NEW names \in Seq(Seq(Symbols)), NEW known, NEW O, NEW W, Ways(W, known, O),
         NEW g \in G \cap O, <<g>> \in ToSet(names), FieldIn(g) \in Seq(Symbols), NEW u \in Seq(Symbols)
  PROVE  Agree(FieldIn(g) \o u, names, known, W, O, G)
<1> DEFINE t == FieldIn(g)
           s == t \o u
<1>1. t \in Seq(Symbols) /\ Clean(t, G)
  <2>1. Token(t, G)
    BY DEF Token
  <2>2. QED
    BY <2>1, TokenIsClean DEF Bare
<1>2. PlainFields(known) /\ g \notin DOMAIN known
  BY DEF Ways
<1>3. ASSUME NEW w \in W PROVE PlainFields(w) /\ g \in DOMAIN w
  BY DEF Ways
<1>4. Filled(t, names, known) = t
  BY <1>2, FilledField
<1>5. ASSUME NEW w \in W PROVE Filled(t, names, w) = w[g] /\ w[g] \in Seq(Symbols)
  <2>1. Filled(t, names, w) = w[g]
    BY <1>3, FilledField
  <2>2. w[g] \in Seq(Symbols \ Braces)
    BY <1>3 DEF PlainFields
  <2>3. QED
    BY <2>1, <2>2, PlainIsClean
<1>6. t = <<LeftBrace>> \o <<g, RightBrace>> /\ LeftBrace \in Symbols /\ g \in Symbols /\ RightBrace \in Symbols
  <2>1. t = <<LeftBrace, g, RightBrace>>
    BY DEF FieldIn
  <2>2. <<LeftBrace, g, RightBrace>> = <<LeftBrace>> \o <<g, RightBrace>>
    OBVIOUS
  <2>3. Len(t) = 3 /\ t[1] = LeftBrace /\ t[2] = g /\ t[3] = RightBrace
    BY <2>1
  <2>4. 1 \in 1 .. Len(t) /\ 2 \in 1 .. Len(t) /\ 3 \in 1 .. Len(t)
    BY <2>3
  <2>5. t[1] \in Symbols /\ t[2] \in Symbols /\ t[3] \in Symbols
    <3> HIDE DEF t
    <3>1. t \in Seq(Symbols)
      BY <1>1
    <3>2. QED
      BY <2>4, <3>1, ElementOfSeq
  <2>6. QED
    BY <2>1, <2>2, <2>3, <2>5
<1> HIDE DEF t
<1>7. \E e \in Seq(Symbols) : Filled(s, names, known) = <<>> \o (<<LeftBrace>> \o e)
  <2> DEFINE a == <<LeftBrace>>
             b == <<g, RightBrace>>
             x == Filled(u, names, known)
             e == b \o x
  <2>1. Filled(s, names, known) = t \o x
    <3>1. Filled(t \o u, names, known) = Filled(t, names, known) \o Filled(u, names, known)
      BY <1>1, <1>2, FilledJoins
    <3>2. QED
      BY <1>4, <3>1
  <2>2. a \in Seq(Symbols) /\ b \in Seq(Symbols) /\ t = a \o b
    BY <1>6
  <2>3. x \in Seq(Symbols)
    BY <1>2, FilledIs
  <2> HIDE DEF a, b, x
  <2>4. e \in Seq(Symbols)
    BY <2>2, <2>3
  <2>5. a \o (b \o x) = (a \o b) \o x
    <3>1. Associates(a, b, x)
      BY <2>2, <2>3, JoinsOver
    <3>2. QED
      BY <3>1 DEF Associates
  <2>6. Filled(s, names, known) = a \o e
    BY <2>1, <2>2, <2>5
  <2>7. a \o e \in Seq(Symbols)
    BY <2>2, <2>4
  <2> HIDE DEF e
  <2>8. <<>> \o (a \o e) = a \o e
    BY <2>7, ConcatEmptySeq
  <2>9. Filled(s, names, known) = <<>> \o (a \o e)
    BY <2>6, <2>8
  <2>10. QED
    BY <2>4, <2>9 DEF a
<1>8. ASSUME NEW w \in W PROVE \E e \in Seq(Symbols) : Filled(s, names, w) = <<>> \o (w[g] \o e)
  <2> DEFINE x == Filled(u, names, w)
             y == w[g]
  <2>1. Filled(t \o u, names, w) = Filled(t, names, w) \o Filled(u, names, w)
    BY <1>1, <1>3, FilledJoins
  <2>2. Filled(s, names, w) = y \o x
    BY <1>5, <2>1
  <2>3. x \in Seq(Symbols)
    BY <1>3, FilledIs
  <2>4. y \in Seq(Symbols)
    BY <1>5
  <2> HIDE DEF x, y
  <2>5. y \o x \in Seq(Symbols)
    BY <2>3, <2>4
  <2>6. <<>> \o (y \o x) = y \o x
    BY <2>5, ConcatEmptySeq
  <2>7. QED
    BY <2>2, <2>3, <2>6 DEF y
<1>9. <<>> \in Seq(Symbols) /\ NoBrace(<<>>)
  BY DEF NoBrace
<1>10. Breaks(s, names, known, W, <<>>, g)
  <2> HIDE DEF s
  <2>1. QED
    BY <1>7, <1>8 DEF Breaks
<1>11. Agree(s, names, known, W, O, G)
  <2> DEFINE p == <<>>
  <2> HIDE DEF s, p
  <2>1. p \in Seq(Symbols) /\ NoBrace(p) /\ Breaks(s, names, known, W, p, g)
    BY <1>9, <1>10 DEF p
  <2>2. QED
    BY <2>1 DEF Agree
<1>12. QED
  BY <1>11 DEF t

(* Every text with whole placeholders agrees, from its end to its beginning. *)
LEMMA AgreeAll ==
  ASSUME NEW G, Bare(G), NEW names \in Seq(Seq(Symbols)), NEW known, NEW O, NEW W, Ways(W, known, O),
         G \subseteq DOMAIN known \cup O, \A g \in G : <<g>> \in ToSet(names),
         NEW s \in Seq(Symbols), Clean(s, G)
  PROVE  Agree(s, names, known, W, O, G)
<1>1. PlainFields(known) /\ \A w \in W : PlainFields(w)
  BY DEF Ways
<1> DEFINE S == {u \in Seq(Symbols) : Agree(u, names, known, W, O, G)}
           H == G \ O
<1>h. H \cap Braces = {}
  BY DEF Bare
<1>2. <<>> \in S
  <2> DEFINE p == <<>>
  <2>1. p \in Seq(Symbols) /\ NoBrace(p) /\ Clean(p, H)
    BY DEF NoBrace, Clean
  <2>2. Ends(p, names, known, W, p)
    BY <1>1, FilledSymbol DEF Ends
  <2> HIDE DEF p
  <2>3. Agree(p, names, known, W, O, G)
    BY <2>1, <2>2 DEF Agree
  <2>4. QED
    BY <2>1, <2>3 DEF p
<1>3. ASSUME NEW t \in Seq(Symbols), NEW u \in Seq(Symbols), Token(t, G), Clean(u, G), u \in S
      PROVE  t \o u \in S
  <2>0. t \o u \in Seq(Symbols) /\ Agree(u, names, known, W, O, G)
    BY <1>3
  <2>1. ASSUME NEW c \in Symbols \ {LeftBrace}, t = <<c>> PROVE Agree(t \o u, names, known, W, O, G)
    <3>1. Token(t, H)
      BY <2>1 DEF Token
    <3>2. Clean(t, G \ O)
      BY <1>h, <3>1, TokenIsClean
    <3>3. Ends(t, names, known, W, t)
      BY <1>1, <2>1, FilledSymbol DEF Ends
    <3>4. NoBrace(t)
      <4>1. Len(t) = 1 /\ t[1] # LeftBrace
        BY <2>1
      <4>2. QED
        BY <4>1 DEF NoBrace
    <3>5. QED
      BY <2>0, <3>2, <3>3, <3>4, AgreeSame DEF Bare
  <2>2. ASSUME NEW g \in G, t = FieldIn(g), g \notin O PROVE Agree(t \o u, names, known, W, O, G)
    <3>1. Token(t, H)
      BY <2>2 DEF Token
    <3>2. Clean(t, G \ O)
      BY <1>h, <3>1, TokenIsClean
    <3>3. g \in DOMAIN known /\ <<g>> \in ToSet(names)
      BY <2>2
    <3>4. known[g] \in Seq(Symbols \ Braces)
      BY <1>1, <3>3 DEF PlainFields
    <3>5. known[g] \in Seq(Symbols) /\ Clean(known[g], {})
      BY <3>4, PlainIsClean
    <3>6. NoBrace(known[g])
      BY <3>5 DEF NoBrace, Clean
    <3>7. Filled(t, names, known) = known[g]
      BY <1>1, <2>2, <3>3, FilledField
    <3>8. ASSUME NEW w \in W PROVE Filled(t, names, w) = known[g]
      <4>1. g \in DOMAIN w /\ w[g] = known[g]
        BY <3>3 DEF Ways
      <4>2. Filled(t, names, w) = w[g]
        BY <1>1, <2>2, <3>3, <4>1, FilledField
      <4>3. QED
        BY <4>1, <4>2
    <3>9. Ends(t, names, known, W, known[g])
      BY <3>7, <3>8 DEF Ends
    <3>10. QED
      BY <2>0, <3>2, <3>5, <3>6, <3>9, AgreeSame
  <2>3. ASSUME NEW g \in G, t = FieldIn(g), g \in O PROVE Agree(t \o u, names, known, W, O, G)
    BY <2>3, AgreeOpen
  <2>4. Agree(t \o u, names, known, W, O, G)
    BY <1>3, <2>1, <2>2, <2>3 DEF Token
  <2>5. QED
    BY <2>0, <2>4
<1> HIDE DEF S
<1>4. s \in S
  BY <1>2, <1>3, TokensMake
<1>5. QED
  BY <1>4 DEF S

(* The cut is at the first opening brace. *)
LEMMA UpToBraceIs ==
  ASSUME NEW p \in Seq(Symbols), NoBrace(p)
  PROVE  /\ UpToBrace(p) = p
         /\ \A u \in Seq(Symbols) : UpToBrace(p \o (<<LeftBrace>> \o u)) = p
<1>1. Len(p) \in Nat
  OBVIOUS
<1>2. UpToBrace(p) = p
  <2> DEFINE I == {i \in 1 .. Len(p) : p[i] = LeftBrace}
             brace == IF I # {} THEN Min(I) ELSE 0
  <2>1. UpToBrace(p) = IF brace = 0 THEN p ELSE SubSeq(p, 1, brace - 1)
    BY DEF UpToBrace, SelectInSeq
  <2>2. I = {}
    BY DEF NoBrace
  <2>3. QED
    BY <2>1, <2>2
<1>3. ASSUME NEW u \in Seq(Symbols) PROVE UpToBrace(p \o (<<LeftBrace>> \o u)) = p
  <2> DEFINE s == p \o (<<LeftBrace>> \o u)
             k == Len(p) + 1
             I == {i \in 1 .. Len(s) : s[i] = LeftBrace}
             brace == IF I # {} THEN Min(I) ELSE 0
  <2>1. UpToBrace(s) = IF brace = 0 THEN s ELSE SubSeq(s, 1, brace - 1)
    BY DEF UpToBrace, SelectInSeq
  <2>2. /\ Len(s) \in Nat /\ k <= Len(s) /\ s[k] = LeftBrace
        /\ \A i \in 1 .. Len(p) : s[i] = p[i]
        /\ SubSeq(s, 1, Len(p)) = p
    OBVIOUS
  <2> HIDE DEF s
  <2>3. k \in I
    BY <1>1, <2>2
  <2>4. brace \in I /\ \A n \in 1 .. brace - 1 : n \notin I
    <3> DEFINE len == Len(s)
    <3>1. I \subseteq 1 .. len /\ len \in Nat
      BY <2>2
    <3> HIDE DEF I
    <3>2. brace = IF I # {} THEN Min(I) ELSE 0
      OBVIOUS
    <3> HIDE DEF brace, len
    <3>3. QED
      BY <2>3, <3>1, <3>2, FirstIs
  <2> HIDE DEF brace
  <2>5. brace \in 1 .. Len(s) /\ s[brace] = LeftBrace
    BY <2>4
  <2>6. brace = k
    <3>1. ~(k < brace)
      BY <1>1, <2>3, <2>4, <2>5
    <3>2. ~(brace < k)
      BY <1>1, <2>2, <2>5 DEF NoBrace
    <3>3. QED
      BY <1>1, <2>5, <3>1, <3>2
  <2>7. UpToBrace(s) = p
    <3>1. k # 0 /\ k - 1 = Len(p)
      BY <1>1
    <3>2. QED
      BY <2>1, <2>2, <2>6, <3>1
  <2>8. QED
    BY <2>7 DEF s
<1>4. QED
  BY <1>2, <1>3

(* IsPrefix, by positions. *)
LEMMA PrefixIs ==
  ASSUME NEW T, NEW p \in Seq(T), NEW t \in Seq(T)
  PROVE  IsPrefix(p, t) <=> Len(p) <= Len(t) /\ \A i \in 1 .. Len(p) : p[i] = t[i]
<1> DEFINE n == Len(p)
           x == SubSeq(p, 1, n)
           y == SubSeq(t, 1, n)
<1>1. n \in Nat /\ Len(t) \in Nat
  OBVIOUS
<1>2. x = p
  OBVIOUS
<1>3. ASSUME n <= Len(t)
      PROVE  y \in Seq(T) /\ Len(y) = n /\ \A i \in 1 .. n : y[i] = t[i]
  BY <1>3
<1> HIDE DEF x, y
<1>4. ASSUME n <= Len(t), \A i \in 1 .. n : p[i] = t[i] PROVE p = y
  BY <1>1, <1>3, <1>4, SeqEqual
<1>5. ASSUME n <= Len(t), p = y PROVE \A i \in 1 .. n : p[i] = t[i]
  BY <1>3, <1>5
<1>6. IsPrefix(p, t) <=> n <= Len(t) /\ x = y
  BY DEF IsPrefix, x, y
<1>7. QED
  BY <1>2, <1>4, <1>5, <1>6

(* A common prefix that no other is longer than is the longest. *)
LEMMA LongestIs ==
  ASSUME NEW S, S \subseteq Seq(Symbols), S # {}, NEW p \in Seq(Symbols),
         \A t \in S : IsPrefix(p, t),
         \A q \in Seq(Symbols) : (\A t \in S : IsPrefix(q, t)) => Len(q) <= Len(p)
  PROVE  LongestCommonPrefix(S) = p
<1> DEFINE C == CommonPrefixes(S)
           Longest(q) == q \in C /\ \A other \in C : Len(other) <= Len(q)
<1>1. \A q \in C : q \in Seq(Symbols) /\ \A t \in S : IsPrefix(q, t)
  <2>1. ASSUME NEW t \in S, NEW l \in 0 .. Len(t) PROVE SubSeq(t, 1, l) \in Seq(Symbols)
    <3>1. t \in Seq(Symbols)
      OBVIOUS
    <3>2. QED
      BY <3>1
  <2>2. \A q \in C : (\A t \in S : IsPrefix(q, t)) /\ \E t \in S : \E l \in 0 .. Len(t) : q = SubSeq(t, 1, l)
    BY DEF CommonPrefixes, Prefixes
  <2> HIDE DEF C
  <2>3. QED
    BY <2>1, <2>2
<1>2. p \in C
  <2>1. PICK t \in S : TRUE
    OBVIOUS
  <2>2. t \in Seq(Symbols) /\ IsPrefix(p, t)
    BY <2>1
  <2>3. Len(p) \in 0 .. Len(t) /\ p = SubSeq(t, 1, Len(p))
    <3>1. Len(p) <= Len(t) /\ SubSeq(p, 1, Len(p)) = SubSeq(t, 1, Len(p))
      BY <2>2 DEF IsPrefix
    <3>2. SubSeq(p, 1, Len(p)) = p /\ Len(p) \in Nat /\ Len(t) \in Nat
      BY <2>2
    <3>3. QED
      BY <3>1, <3>2
  <2>4. p \in Prefixes(t)
    <3> DEFINE l == Len(p)
    <3>1. l \in 0 .. Len(t) /\ p = SubSeq(t, 1, l)
      BY <2>3
    <3> HIDE DEF l
    <3>2. QED
      BY <3>1, Zenon DEF Prefixes
  <2>5. p \in UNION {Prefixes(seq) : seq \in S}
    BY <2>1, <2>4, Zenon
  <2>6. QED
    BY <2>5, Zenon DEF CommonPrefixes
<1>3. Longest(p)
  <2> HIDE DEF C
  <2>1. QED
    BY <1>1, <1>2
<1> DEFINE r == CHOOSE q : Longest(q)
<1>4. LongestCommonPrefix(S) = r
  BY DEF LongestCommonPrefix
<1>5. Longest(r)
  <2> HIDE DEF Longest
  <2>1. QED
    BY <1>3
<1> HIDE DEF r, C
<1>6. r \in Seq(Symbols) /\ Len(r) = Len(p)
  <2>1. r \in Seq(Symbols) /\ Len(r) <= Len(p) /\ Len(p) <= Len(r)
    BY <1>1, <1>2, <1>3, <1>5
  <2>2. QED
    BY <2>1
<1>7. PICK t \in S : IsPrefix(r, t) /\ IsPrefix(p, t) /\ t \in Seq(Symbols)
  BY <1>1, <1>5
<1>8. \A i \in 1 .. Len(p) : r[i] = p[i]
  <2>1. \A i \in 1 .. Len(p) : p[i] = t[i]
    BY <1>7, PrefixIs
  <2>2. \A i \in 1 .. Len(r) : r[i] = t[i]
    BY <1>6, <1>7, PrefixIs
  <2>3. QED
    BY <1>6, <2>1, <2>2
<1>9. r = p
  BY <1>6, <1>8, SeqEqual
<1>10. QED
  BY <1>4, <1>9

CheckedAs(tmpl, known, W, O) ==
  \E G : /\ G \cap O = {f \in O : <<f>> \in ToSet(Placeholders(tmpl))}
         /\ \A f \in G : \E i \in 1 .. Len(tmpl) - 2 : tmpl[i] = LeftBrace /\ tmpl[i + 1] = f
         /\ Clean(tmpl, G) /\ Placeholders(tmpl) \in Seq(Seq(Symbols))
         /\ Agree(tmpl, Placeholders(tmpl), known, W, O, G)

(* An accepted template, with what is known and some ways to know the rest. *)
LEMMA CheckedAgrees ==
  ASSUME NEW tmpl \in Seq(Symbols), NEW kind \in DOMAIN allowedFields, CheckTemplate(tmpl, kind),
         NEW known, NEW O, O = allowedFields[kind] \ DOMAIN known, NEW W, Ways(W, known, O)
  PROVE  CheckedAs(tmpl, known, W, O)
<1> DEFINE names == Placeholders(tmpl)
           G == FieldsIn(tmpl, kind)
<1>1. /\ names \in Seq(Seq(Symbols))
      /\ Clean(tmpl, G) /\ G \cap Braces = {}
      /\ \A f \in G : \E i \in 1 .. Len(tmpl) - 2 : tmpl[i] = LeftBrace /\ tmpl[i + 1] = f
  BY CheckedTemplate
<1>2. G \subseteq DOMAIN known \cup O /\ \A f \in G : <<f>> \in ToSet(names)
  BY DEF FieldsIn
<1>3. G \cap O = {f \in O : <<f>> \in ToSet(names)}
  BY DEF FieldsIn
<1> HIDE DEF G, names
<1>4. Bare(G)
  BY <1>1 DEF Bare
<1>5. Agree(tmpl, names, known, W, O, G)
  BY <1>1, <1>2, <1>4, AgreeAll
<1>6. QED
  BY <1>1, <1>3, <1>5 DEF names, CheckedAs

(* A name that is rendered is the template, filled. *)
LEMMA RenderIs ==
  ASSUME NEW tmpl, NEW fields
  PROVE  Render(tmpl, fields) \in {NoName, Filled(tmpl, Placeholders(tmpl), fields)}
BY DEF Render, ReplaceFields, Filled

(* What all names have, and no more. *)
LEMMA LongestOfAll ==
  ASSUME NEW names \in Seq(Seq(Symbols)), NEW tmpl \in Seq(Symbols), NEW known, NEW W, NEW O, NEW G,
         Ways(W, known, O), Agree(tmpl, names, known, W, O, G),
         W # {},
         \A f \in O : \E v, w \in W : v[f] = <<"1">> /\ w[f] = <<"2">>
  PROVE  UpToBrace(Filled(tmpl, names, known)) = LongestCommonPrefix({Filled(tmpl, names, w) : w \in W})
<1> DEFINE N(w) == Filled(tmpl, names, w)
           S == {N(w) : w \in W}
<1>1. S \subseteq Seq(Symbols) /\ S # {}
  BY FilledIs DEF Ways
<1>2. PICK p \in Seq(Symbols) :
        /\ NoBrace(p)
        /\ \/ Ends(tmpl, names, known, W, p)
           \/ \E f \in O : Breaks(tmpl, names, known, W, p, f)
  BY DEF Agree
<1>3. CASE Ends(tmpl, names, known, W, p)
  <2>1. N(known) = p /\ S = {p}
    BY <1>3 DEF Ends
  <2>2. UpToBrace(N(known)) = p
    BY <1>2, <2>1, UpToBraceIs
  <2>3. \A q \in Seq(Symbols) : IsPrefix(q, p) => Len(q) <= Len(p)
    BY PrefixIs
  <2>4. IsPrefix(p, p)
    BY PrefixIs
  <2> HIDE DEF S
  <2>5. LongestCommonPrefix(S) = p
    BY <1>1, <2>1, <2>3, <2>4, LongestIs
  <2>6. QED
    BY <2>2, <2>5 DEF S
<1>4. ASSUME NEW f \in O, Breaks(tmpl, names, known, W, p, f)
      PROVE  UpToBrace(N(known)) = LongestCommonPrefix(S)
  <2>1. UpToBrace(N(known)) = p
    <3>1. PICK u \in Seq(Symbols) : N(known) = p \o (<<LeftBrace>> \o u)
      BY <1>4 DEF Breaks
    <3>2. QED
      BY <1>2, <3>1, UpToBraceIs
  <2>2. ASSUME NEW w \in W
        PROVE  \E u \in Seq(Symbols) : N(w) = p \o (w[f] \o u) /\ w[f] \in Seq(Symbols)
    <3>1. PlainFields(w) /\ f \in DOMAIN w
      BY DEF Ways
    <3>2. w[f] \in Seq(Symbols \ Braces)
      BY <3>1 DEF PlainFields
    <3>3. w[f] \in Seq(Symbols)
      BY <3>2, PlainIsClean
    <3>4. QED
      BY <1>4, <3>3 DEF Breaks
  <2>3. ASSUME NEW w \in W PROVE IsPrefix(p, N(w))
    <3>1. PICK u \in Seq(Symbols) : N(w) = p \o (w[f] \o u) /\ w[f] \in Seq(Symbols)
      BY <2>2
    <3> DEFINE z == w[f] \o u
               t == p \o z
    <3>2. z \in Seq(Symbols)
      BY <3>1
    <3> HIDE DEF z
    <3>3. t \in Seq(Symbols) /\ Len(p) <= Len(t) /\ \A i \in 1 .. Len(p) : p[i] = t[i]
      BY <3>2
    <3> HIDE DEF t
    <3>4. IsPrefix(p, t)
      BY <3>3, PrefixIs
    <3>5. QED
      BY <3>1, <3>4 DEF t, z
  <2>4. ASSUME NEW w \in W, NEW c, w[f] = <<c>>, NEW q \in Seq(Symbols), Len(p) < Len(q), IsPrefix(q, N(w))
        PROVE  q[Len(p) + 1] = c
    <3>1. PICK u \in Seq(Symbols) : N(w) = p \o (w[f] \o u) /\ w[f] \in Seq(Symbols)
      BY <2>2
    <3> DEFINE t == p \o (<<c>> \o u)
    <3>2. <<c>> \in Seq(Symbols) /\ N(w) = t
      BY <2>4, <3>1
    <3>3. t \in Seq(Symbols) /\ t[Len(p) + 1] = c
      BY <3>2
    <3> HIDE DEF t
    <3>4. \A i \in 1 .. Len(q) : q[i] = t[i]
      BY <2>4, <3>2, <3>3, PrefixIs
    <3>5. Len(p) + 1 \in 1 .. Len(q)
      BY <2>4
    <3>6. QED
      BY <3>3, <3>4, <3>5
  <2>5. PICK v, w \in W : v[f] = <<"1">> /\ w[f] = <<"2">>
    OBVIOUS
  <2>6. ASSUME NEW q \in Seq(Symbols), \A t \in S : IsPrefix(q, t) PROVE Len(q) <= Len(p)
    <3>1. IsPrefix(q, N(v)) /\ IsPrefix(q, N(w))
      BY <2>6
    <3>2. CASE Len(p) < Len(q)
      <4>1. q[Len(p) + 1] = "1" /\ q[Len(p) + 1] = "2"
        BY <2>4, <2>5, <3>1, <3>2
      <4>2. QED
        BY <4>1
    <3>3. QED
      BY <3>2
  <2>7. \A t \in S : IsPrefix(p, t)
    BY <2>3
  <2> HIDE DEF S
  <2>8. LongestCommonPrefix(S) = p
    BY <1>1, <2>6, <2>7, LongestIs
  <2>9. QED
    BY <2>1, <2>8
<1>5. QED
  BY <1>2, <1>3, <1>4

(* PrefixIsLongest, for every template that CheckTemplate accepts, of any    *)
(* length, with placeholders in any order and number, and any values of what *)
(* is known.                                                                 *)
THEOREM PrefixesAreLongest == Spec => []PrefixIsLongest
<1>1. Answered => PrefixIsLongest
  <2> DEFINE tmpl == question.tmpl
             known == question.known
             kind == question.kind
             open == allowedFields[kind] \ DOMAIN known
             V == [open -> SomeValues]
             W == {With(known, values) : values \in V}
             names == {Render(tmpl, With(known, values)) : values \in V}
             list == Placeholders(tmpl)
  <2> SUFFICES ASSUME Answered, Of("prefix"), NoName \notin names
               PROVE  answer = LongestCommonPrefix(names)
    BY DEF PrefixIsLongest
  <2>1. APrefix(question) /\ answer = Prefix(tmpl, known)
    BY OfIs DEF Of, Answered
  <2>2. /\ kind \in DOMAIN allowedFields /\ tmpl \in Seq(Symbols) /\ CheckTemplate(tmpl, kind)
        /\ DOMAIN known \subseteq allowedFields[kind] /\ \A f \in DOMAIN known : known[f] \in Values
    BY <2>1 DEF APrefix
  <2>3. answer = UpToBrace(Filled(tmpl, list, known))
    BY <2>1 DEF Prefix, ReplaceFields, Filled
  <2>4. names = {Filled(tmpl, list, w) : w \in W}
    <3>1. \A w : Render(tmpl, w) \in {NoName, Filled(tmpl, list, w)}
      BY RenderIs
    <3> HIDE DEF tmpl, known, V, list
    <3>2. QED
      BY <3>1
  <2>5. PlainFields(known) /\ open \cap DOMAIN known = {}
    BY <2>2 DEF PlainFields, Values
  <2>6. \A v \in SomeValues : v \in Seq(Symbols \ Braces)
    <3>1. "1" \notin Braces /\ "2" \notin Braces
      BY DEF Braces, LeftBrace, RightBrace
    <3>2. "1" \in Symbols \ Braces /\ "2" \in Symbols \ Braces
      BY <3>1, SymbolsAssumption
    <3>3. \A c \in Symbols \ Braces : <<c>> \in Seq(Symbols \ Braces)
      OBVIOUS
    <3>4. QED
      BY <3>2, <3>3 DEF SomeValues
  <2>7. ASSUME NEW values \in V
        PROVE  LET w == With(known, values)
               IN  /\ PlainFields(w) /\ DOMAIN w = DOMAIN known \cup open
                   /\ \A f \in DOMAIN known : w[f] = known[f]
                   /\ \A f \in open : w[f] = values[f]
    <3> DEFINE w == With(known, values)
    <3> HIDE DEF known, open
    <3>1. DOMAIN values = open /\ \A f \in open : values[f] \in SomeValues
      OBVIOUS
    <3>2. w = [f \in DOMAIN known \cup open |-> IF f \in DOMAIN known THEN known[f] ELSE values[f]]
      BY <3>1 DEF With
    <3> HIDE DEF w
    <3>3. /\ DOMAIN w = DOMAIN known \cup open
          /\ \A f \in DOMAIN known : w[f] = known[f]
          /\ \A f \in open : w[f] = values[f]
      BY <2>5, <3>2
    <3>4. PlainFields(w)
      BY <2>5, <2>6, <3>1, <3>3 DEF PlainFields
    <3>5. QED
      BY <3>3, <3>4 DEF w
  <2>8. Ways(W, known, open)
    <3> HIDE DEF known, open, V
    <3>1. QED
      BY <2>5, <2>7 DEF Ways
  <2>9. PICK G : Agree(tmpl, list, known, W, open, G) /\ list \in Seq(Seq(Symbols))
    <3> HIDE DEF tmpl, kind, known, W
    <3>1. open = allowedFields[kind] \ DOMAIN known
      OBVIOUS
    <3> HIDE DEF open
    <3>2. /\ tmpl \in Seq(Symbols) /\ kind \in DOMAIN allowedFields /\ CheckTemplate(tmpl, kind)
          /\ Ways(W, known, open)
      BY <2>2, <2>8
    <3>3. CheckedAs(tmpl, known, W, open)
      BY <3>1, <3>2, CheckedAgrees
    <3>4. QED
      BY <3>3 DEF CheckedAs
  <2>10. ASSUME NEW c, c \in {"1", "2"} PROVE \E w \in W : \A f \in open : w[f] = <<c>>
    <3> DEFINE values == [f \in open |-> <<c>>]
    <3>1. values \in V
      BY <2>10 DEF SomeValues
    <3>2. \A f \in open : values[f] = <<c>>
      OBVIOUS
    <3>3. With(known, values) \in W
      BY <3>1
    <3> HIDE DEF values, open, known, V, W
    <3>4. \A f \in open : With(known, values)[f] = <<c>>
      BY <2>7, <3>1, <3>2
    <3>5. QED
      BY <3>3, <3>4
  <2> HIDE DEF W, open, known, tmpl, list, V
  <2>11. W # {} /\ \A f \in open : \E v, w \in W : v[f] = <<"1">> /\ w[f] = <<"2">>
    BY <2>10
  <2>12. UpToBrace(Filled(tmpl, list, known)) = LongestCommonPrefix({Filled(tmpl, list, w) : w \in W})
    BY <2>2, <2>8, <2>9, <2>11, LongestOfAll
  <2>13. QED
    BY <2>3, <2>4, <2>12
<1>2. QED
  BY <1>1, Answers, PTL

(* What SetToSeq gives has the elements of the set, all of them. *)
LEMMA SetToSeqIs ==
  ASSUME NEW S, IsFiniteSet(S)
  PROVE  SetToSeq(S) \in Seq(S) /\ \A x \in S : \E i \in 1 .. Len(SetToSeq(S)) : SetToSeq(S)[i] = x
<1> DEFINE N == Cardinality(S)
           I == 1 .. N
           l == SetToSeq(S)
<1>1. N \in Nat /\ ExistsBijection(I, S)
  BY FS_CardinalityType
<1>2. PICK b \in Bijection(I, S) : TRUE
  BY <1>1 DEF ExistsBijection
<1>3. b \in [I -> S] /\ IsInjective(b)
  BY <1>2 DEF Bijection, Injection, IsInjective
<1>4. l \in [I -> S] /\ IsInjective(l)
  BY <1>3 DEF SetToSeq
<1>5. IsFiniteSet(I) /\ Cardinality(I) = N
  BY <1>1, FS_Interval
<1> HIDE DEF l
<1>6. l \in Injection(I, S)
  BY <1>4 DEF Injection, IsInjective
<1> HIDE DEF I
<1>7. l \in Surjection(I, S)
  BY <1>5, <1>6, FS_Injection
<1>8. \A x \in S : \E i \in I : l[i] = x
  BY <1>7 DEF Surjection
<1>9. l \in Seq(S) /\ Len(l) = N
  BY <1>1, <1>4 DEF I
<1>10. QED
  BY <1>8, <1>9 DEF I, l

(* The hour follows the prefix of the day in the name of every dump. *)
LEMMA HourFollows ==
  ASSUME NEW tmpl \in Seq(Symbols), CheckTemplate(tmpl, "archive_dump"),
         <<"hour">> \in ToSet(Placeholders(tmpl)), NEW day \in Symbols \ Braces
  PROVE  LET p == Prefix(tmpl, [date |-> <<day>>])
         IN  /\ p \in Seq(Symbols)
             /\ \A hour \in hours :
                  LET n == Render(tmpl, HourField(day, hour))
                  IN n # NoName => /\ n \in Seq(Symbols) /\ IsPrefix(p, n)
                                   /\ Len(n) > Len(p) /\ n[Len(p) + 1] = hour
<1> DEFINE known == [date |-> <<day>>]
           kind == "archive_dump"
           O == {"hour"}
           W == {HourField(day, hour) : hour \in hours}
           list == Placeholders(tmpl)
<1>1. kind \in DOMAIN allowedFields /\ O = allowedFields[kind] \ DOMAIN known
  BY DEF allowedFields
<1>2. \A c \in Symbols \ Braces : <<c>> \in Seq(Symbols \ Braces)
  OBVIOUS
<1>3. PlainFields(known) /\ O \cap DOMAIN known = {}
  <2>1. DOMAIN known = {"date"} /\ known["date"] = <<day>>
    OBVIOUS
  <2>2. O \cap DOMAIN known = {}
    BY <2>1
  <2> HIDE DEF known
  <2>3. PlainFields(known)
    BY <1>2, <2>1 DEF PlainFields
  <2>4. QED
    BY <2>2, <2>3
<1>4. ASSUME NEW hour \in hours
      PROVE  /\ PlainFields(HourField(day, hour)) /\ DOMAIN HourField(day, hour) = DOMAIN known \cup O
             /\ \A f \in DOMAIN known : HourField(day, hour)[f] = known[f]
             /\ HourField(day, hour)["hour"] = <<hour>> /\ hour \in Symbols
  <2>1. hour \in Symbols \ Braces
    BY SymbolsAssumption DEF hours
  <2>2. /\ DOMAIN HourField(day, hour) = {"date", "hour"} /\ HourField(day, hour)["date"] = <<day>>
        /\ HourField(day, hour)["hour"] = <<hour>>
    BY DEF HourField
  <2>3. PlainFields(HourField(day, hour))
    BY <1>2, <2>1, <2>2 DEF PlainFields
  <2>4. QED
    BY <2>1, <2>2, <2>3
<1>5. Ways(W, known, O)
  BY <1>3, <1>4 DEF Ways
<1> HIDE DEF W, O, known, kind
<1>6. PICK G : /\ G \cap O = {f \in O : <<f>> \in ToSet(Placeholders(tmpl))}
               /\ \A f \in G : \E i \in 1 .. Len(tmpl) - 2 : tmpl[i] = LeftBrace /\ tmpl[i + 1] = f
               /\ Placeholders(tmpl) \in Seq(Seq(Symbols))
               /\ Agree(tmpl, Placeholders(tmpl), known, W, O, G)
  <2>1. kind \in DOMAIN allowedFields /\ CheckTemplate(tmpl, kind)
    BY <1>1 DEF kind
  <2>2. CheckedAs(tmpl, known, W, O)
    BY <1>1, <1>5, <2>1, CheckedAgrees
  <2>3. QED
    BY <2>2 DEF CheckedAs
<1>7. "hour" \in G
  BY <1>6 DEF O
<1>8. ~Clean(tmpl, G \ O)
  <2>1. PICK i \in 1 .. Len(tmpl) - 2 : tmpl[i] = LeftBrace /\ tmpl[i + 1] = "hour"
    BY <1>6, <1>7
  <2>2. i \in 1 .. Len(tmpl)
    OBVIOUS
  <2>3. QED
    BY <2>1, <2>2 DEF Clean, O
<1>9. PICK p \in Seq(Symbols) : NoBrace(p) /\ Breaks(tmpl, list, known, W, p, "hour")
  BY <1>6, <1>8 DEF Agree, O
<1>10. Prefix(tmpl, known) = p
  <2>1. PICK u \in Seq(Symbols) : Filled(tmpl, list, known) = p \o (<<LeftBrace>> \o u)
    BY <1>9 DEF Breaks
  <2>2. UpToBrace(Filled(tmpl, list, known)) = p
    BY <1>9, <2>1, UpToBraceIs
  <2>3. QED
    BY <2>2 DEF Prefix, ReplaceFields, Filled
<1>11. ASSUME NEW hour \in hours, Render(tmpl, HourField(day, hour)) # NoName
       PROVE  LET n == Render(tmpl, HourField(day, hour))
              IN n \in Seq(Symbols) /\ IsPrefix(p, n) /\ Len(n) > Len(p) /\ n[Len(p) + 1] = hour
  <2> DEFINE w == HourField(day, hour)
             n == Render(tmpl, w)
  <2>1. n = Filled(tmpl, list, w)
    BY <1>11, RenderIs
  <2>2. w \in W /\ w["hour"] = <<hour>> /\ hour \in Symbols
    BY <1>4 DEF W
  <2> HIDE DEF n, w
  <2>3. PICK u \in Seq(Symbols) : Filled(tmpl, list, w) = p \o (<<hour>> \o u)
    BY <1>9, <2>2 DEF Breaks
  <2> DEFINE t == p \o (<<hour>> \o u)
  <2>4. <<hour>> \in Seq(Symbols)
    BY <2>2
  <2>5. /\ t \in Seq(Symbols) /\ Len(t) > Len(p) /\ t[Len(p) + 1] = hour
        /\ \A i \in 1 .. Len(p) : p[i] = t[i]
    BY <2>4
  <2> HIDE DEF t
  <2>6. IsPrefix(p, t)
    BY <2>5, PrefixIs
  <2>7. n = t
    BY <2>1, <2>3 DEF t
  <2>8. QED
    BY <2>5, <2>6, <2>7 DEF n, w
<1>12. QED
  BY <1>10, <1>11 DEF known

(* A dump of the listing is a name that the template gives for an hour, and  *)
(* the hour is the one that follows the prefix.                              *)
HourIn(prefix, n) == n[Len(prefix) + 1]

Dump(tmpl, day, hour) == Render(tmpl, HourField(day, hour))

(* IsDump takes the names of the dumps of a day, and nothing else. *)
LEMMA DumpsAre ==
  ASSUME NEW tmpl \in Seq(Symbols), CheckTemplate(tmpl, "archive_dump"),
         <<"hour">> \in ToSet(Placeholders(tmpl)), NEW day \in Symbols \ Braces,
         NEW p, p = Prefix(tmpl, [date |-> <<day>>])
  PROVE  /\ \A n : IsDump(tmpl, day, p, n) => HourIn(p, n) \in hours /\ n = Dump(tmpl, day, HourIn(p, n))
         /\ \A hour \in hours : Dump(tmpl, day, hour) # NoName =>
              /\ IsDump(tmpl, day, p, Dump(tmpl, day, hour)) /\ HourIn(p, Dump(tmpl, day, hour)) = hour
              /\ IsPrefix(p, Dump(tmpl, day, hour))
<1>1. \A n : IsDump(tmpl, day, p, n) => HourIn(p, n) \in hours /\ n = Dump(tmpl, day, HourIn(p, n))
  BY DEF IsDump, HourIn, Dump
<1>2. ASSUME NEW hour \in hours, Dump(tmpl, day, hour) # NoName
      PROVE  /\ IsDump(tmpl, day, p, Dump(tmpl, day, hour)) /\ HourIn(p, Dump(tmpl, day, hour)) = hour
             /\ IsPrefix(p, Dump(tmpl, day, hour))
  <2> DEFINE n == Dump(tmpl, day, hour)
  <2>1. IsPrefix(p, n) /\ Len(n) > Len(p) /\ n[Len(p) + 1] = hour
    BY <1>2, HourFollows DEF Dump
  <2>2. Render(tmpl, HourField(day, hour)) = n
    BY DEF Dump
  <2> HIDE DEF n
  <2>3. IsDump(tmpl, day, p, n) /\ HourIn(p, n) = hour
    BY <2>1, <2>2 DEF IsDump, HourIn
  <2>4. QED
    BY <2>1, <2>3 DEF n
<1>3. QED
  BY <1>1, <1>2

Walks(v, tmpl, day, p, listed) ==
  /\ v[0] = [name |-> NoName, hour |-> ""]
  /\ \A n \in 1 .. Len(listed) : v[n] = Better(v[n - 1], listed[n], tmpl, day, p)

(* The walk over the listing is what its definition says, at every name. *)
LEMMA BestsAre ==
  ASSUME NEW tmpl, NEW day, NEW p, NEW listed \in Seq(Seq(Symbols))
  PROVE  Walks(Bests(tmpl, day, p, listed), tmpl, day, p, listed)
<1>0. \A n \in 1 .. Len(listed) : listed[n] \in Seq(Symbols)
  OBVIOUS
<1> DEFINE N == Len(listed)
           first == [name |-> NoName, hour |-> ""]
           S == [name : Seq(Symbols) \cup {NoName}, hour : hours \cup {""}]
           R == [nx \in (1 .. N) \X S |-> Better(nx[2], listed[nx[1]], tmpl, day, p)]
           Is(v) == v = [n \in 0 .. N |-> IF n = 0 THEN first ELSE Better(v[n - 1], listed[n], tmpl, day, p)]
<1>1. N \in Nat /\ first \in S
  OBVIOUS
<1>2. R \in [(1 .. N) \X S -> S]
  <2>1. ASSUME NEW n \in 1 .. N, NEW x \in S PROVE Better(x, listed[n], tmpl, day, p) \in S
    <3>1. listed[n] \in Seq(Symbols)
      BY <1>0
    <3>2. QED
      BY <3>1 DEF Better, IsDump
  <2>2. QED
    BY <2>1
<1>3. PICK f : Recurs(f, S, first, N, R)
  <2> HIDE DEF R, N, S, first
  <2>1. QED
    BY <1>1, <1>2, RecursionIs
<1> HIDE DEF first, S
<1>4. f \in [0 .. N -> S] /\ f[0] = first /\ \A n \in 1 .. N : f[n] = R[<<n, f[n - 1]>>]
  BY <1>3 DEF Recurs
<1>5. ASSUME NEW n \in 1 .. N PROVE f[n] = Better(f[n - 1], listed[n], tmpl, day, p)
  <2> DEFINE k == n - 1
  <2>1. k \in 0 .. N
    BY <1>1
  <2>2. f[n] = R[<<n, f[k]>>]
    BY <1>4
  <2> HIDE DEF k
  <2>3. f[k] \in S
    BY <1>4, <2>1
  <2>4. R[<<n, f[k]>>] = Better(f[k], listed[n], tmpl, day, p)
    BY <2>3
  <2>5. QED
    BY <2>2, <2>4 DEF k
<1>6. Is(f)
  <2>1. ASSUME NEW n \in 0 .. N
        PROVE  f[n] = IF n = 0 THEN first ELSE Better(f[n - 1], listed[n], tmpl, day, p)
    <3>1. n # 0 => n \in 1 .. N
      BY <1>1
    <3>2. QED
      BY <1>4, <1>5, <3>1
  <2>2. f = [n \in 0 .. N |-> f[n]]
    BY <1>4
  <2>3. QED
    BY <2>1, <2>2
<1> DEFINE v == CHOOSE v : Is(v)
<1>7. Is(v)
  <2> HIDE DEF Is
  <2>1. QED
    BY <1>6
<1>8. Bests(tmpl, day, p, listed) = v
  BY DEF Bests, first
<1> HIDE DEF v
<1>9. v[0] = first
  BY <1>1, <1>7
<1>10. ASSUME NEW n \in 1 .. N PROVE v[n] = Better(v[n - 1], listed[n], tmpl, day, p)
  <2>1. n \in 0 .. N /\ n # 0
    BY <1>1
  <2>2. QED
    BY <1>7, <2>1
<1>11. QED
  BY <1>8, <1>9, <1>10 DEF first, Walks

(* What the walk over the listing has found, after m names. *)
Newest(b, tmpl, day, p, listed, m) ==
  \/ /\ b.name = NoName /\ b.hour = ""
     /\ \A i \in 1 .. m : ~IsDump(tmpl, day, p, listed[i])
  \/ \E i \in 1 .. m :
       /\ IsDump(tmpl, day, p, listed[i]) /\ b.name = listed[i] /\ b.hour = HourIn(p, listed[i])
       /\ \A j \in 1 .. m : IsDump(tmpl, day, p, listed[j]) => ~Later(HourIn(p, listed[j]), b.hour)

(* Later is an order of the hours; every hour is later than none. *)
LEMMA LaterIs ==
  /\ \A g \in hours : Later(g, "") /\ ~Later(g, g) /\ g # ""
  /\ \A f, g, h \in hours : Later(g, f) /\ ~Later(h, f) => ~Later(h, g)
<1>1. hourOrder \in [hours -> Nat] /\ hours \subseteq Symbols \ (Braces \cup {""})
  BY SymbolsAssumption DEF hours
<1>2. ASSUME NEW g \in hours PROVE hourOrder[g] \in Nat /\ g # ""
  BY <1>1
<1>3. ASSUME NEW g \in hours, NEW h \in hours
      PROVE  Later(g, h) <=> hourOrder[g] > hourOrder[h]
  BY <1>2 DEF Later
<1>4. ASSUME NEW g \in hours PROVE Later(g, "") /\ ~Later(g, g) /\ g # ""
  <2>1. Later(g, "")
    BY DEF Later
  <2> DEFINE n == hourOrder[g]
  <2>2. n \in Nat /\ (Later(g, g) <=> n > n)
    BY <1>2, <1>3
  <2> HIDE DEF n
  <2>3. ~Later(g, g)
    BY <2>2
  <2>4. QED
    BY <1>2, <2>1, <2>3
<1>5. ASSUME NEW f \in hours, NEW g \in hours, NEW h \in hours, Later(g, f), ~Later(h, f)
      PROVE  ~Later(h, g)
  <2> DEFINE k == hourOrder[f]
             m == hourOrder[g]
             n == hourOrder[h]
  <2>1. k \in Nat /\ m \in Nat /\ n \in Nat /\ m > k /\ ~(n > k) /\ (Later(h, g) <=> n > m)
    BY <1>2, <1>3, <1>5
  <2> HIDE DEF k, m, n
  <2>2. QED
    BY <2>1
<1>6. QED
  BY <1>4, <1>5

(* One more name of the listing. *)
LEMMA BetterIsNewest ==
  ASSUME NEW tmpl, NEW day, NEW p, NEW listed, NEW m \in Nat, NEW b,
         \A n : IsDump(tmpl, day, p, n) => HourIn(p, n) \in hours,
         Newest(b, tmpl, day, p, listed, m)
  PROVE  Newest(Better(b, listed[m + 1], tmpl, day, p), tmpl, day, p, listed, m + 1)
<1> DEFINE D(n) == IsDump(tmpl, day, p, n)
           H(n) == HourIn(p, n)
           x == listed[m + 1]
           k == m + 1
<1>1. Better(b, x, tmpl, day, p) = IF D(x) /\ Later(H(x), b.hour) THEN [name |-> x, hour |-> H(x)] ELSE b
  BY DEF Better, HourIn
<1>3. \A i \in 1 .. k : i \in 1 .. m \/ i = k
  OBVIOUS
<1>4. k \in 1 .. k /\ \A i \in 1 .. m : i \in 1 .. k
  OBVIOUS
<1>5. x = listed[k]
  OBVIOUS
<1> HIDE DEF k, x
<1> SUFFICES Newest(Better(b, x, tmpl, day, p), tmpl, day, p, listed, k)
  BY DEF k, x
<1>6. CASE D(x) /\ Later(H(x), b.hour)
  <2> DEFINE c == [name |-> x, hour |-> H(x)]
  <2>1. Better(b, x, tmpl, day, p) = c /\ c.name = x /\ c.hour = H(x)
    BY <1>1, <1>6
  <2>2. H(x) \in hours
    BY <1>6
  <2>3. ~Later(H(x), H(x))
    BY <2>2, LaterIs
  <2>4. ASSUME NEW j \in 1 .. m, D(listed[j]) PROVE ~Later(H(listed[j]), H(x))
    <3>1. H(listed[j]) \in hours
      BY <2>4
    <3>2. ~Later(H(listed[j]), b.hour) /\ b.hour \in hours
      BY <2>4 DEF Newest
    <3>3. QED
      BY <1>6, <2>2, <3>1, <3>2, LaterIs
  <2> HIDE DEF c
  <2>5. Newest(c, tmpl, day, p, listed, k)
    BY <1>3, <1>4, <1>5, <1>6, <2>1, <2>3, <2>4 DEF Newest
  <2>6. QED
    BY <2>1, <2>5
<1>7. CASE ~(D(x) /\ Later(H(x), b.hour))
  <2>1. Better(b, x, tmpl, day, p) = b
    BY <1>1, <1>7
  <2>2. CASE b.name = NoName /\ b.hour = "" /\ \A i \in 1 .. m : ~D(listed[i])
    <3>1. ~D(x)
      BY <1>7, <2>2 DEF Later
    <3>2. Newest(b, tmpl, day, p, listed, k)
      BY <1>3, <1>5, <2>2, <3>1 DEF Newest
    <3>3. QED
      BY <2>1, <3>2
  <2>3. ASSUME NEW i \in 1 .. m, D(listed[i]), b.name = listed[i], b.hour = H(listed[i]),
               \A j \in 1 .. m : D(listed[j]) => ~Later(H(listed[j]), b.hour)
        PROVE  Newest(b, tmpl, day, p, listed, k)
    <3>1. i \in 1 .. k
      BY <1>4
    <3>2. \A j \in 1 .. k : D(listed[j]) => ~Later(H(listed[j]), b.hour)
      BY <1>3, <1>5, <1>7, <2>3
    <3>3. QED
      BY <2>3, <3>1, <3>2 DEF Newest
  <2>4. QED
    BY <2>1, <2>2, <2>3 DEF Newest
<1>8. QED
  BY <1>6, <1>7

(* The best of one day is the latest dump of it that is published. *)
LatestOf(name, tmpl, day, published) ==
  \/ name = NoName /\ \A hour \in hours : Dump(tmpl, day, hour) \notin published
  \/ \E hour \in hours :
       /\ name = Dump(tmpl, day, hour) /\ name \in published
       /\ \A other \in hours : Later(other, hour) => Dump(tmpl, day, other) \notin published

(* No name is not a name. *)
LEMMA NoNameIs == NoName \notin Seq(Symbols)
<1>1. Len(NoName) = 1 /\ NoName[1] = "no name"
  BY DEF NoName
<1>2. \A x \in Seq(Symbols) : Len(x) = 1 => x[1] \in Symbols
  OBVIOUS
<1>3. QED
  BY <1>1, <1>2, SymbolsAssumption

(* All names that matter are listed, so the best of the listing is the latest dump. *)
LEMMA BestIsLatest ==
  ASSUME NEW tmpl \in Seq(Symbols), CheckTemplate(tmpl, "archive_dump"),
         <<"hour">> \in ToSet(Placeholders(tmpl)), NEW day \in Symbols \ Braces,
         NEW published, published \subseteq Seq(Symbols), IsFiniteSet(published)
  PROVE  LatestOf(BestOfDay(tmpl, day, published), tmpl, day, published)
<1> DEFINE p == Prefix(tmpl, [date |-> <<day>>])
           S == {n \in published : IsPrefix(p, n)}
           listed == List(published, p)
           best == Bests(tmpl, day, p, listed)
           N == Len(listed)
           D(n) == IsDump(tmpl, day, p, n)
           H(n) == HourIn(p, n)
           name == best[N].name
<1>1. /\ \A n : D(n) => H(n) \in hours /\ n = Dump(tmpl, day, H(n))
      /\ \A hour \in hours : Dump(tmpl, day, hour) # NoName =>
           /\ D(Dump(tmpl, day, hour)) /\ H(Dump(tmpl, day, hour)) = hour
           /\ IsPrefix(p, Dump(tmpl, day, hour))
  <2> HIDE DEF p
  <2>1. p = Prefix(tmpl, [date |-> <<day>>])
    BY DEF p
  <2>2. QED
    BY <2>1, DumpsAre
<1>2. BestOfDay(tmpl, day, published) = name
  BY DEF BestOfDay
<1> HIDE DEF p
<1>3. IsFiniteSet(S)
  <2>1. S \in SUBSET published
    OBVIOUS
  <2> HIDE DEF S
  <2>2. QED
    BY <2>1, FS_Subset
<1>4. listed = SetToSeq(S)
  BY DEF List
<1>5. listed \in Seq(S) /\ \A x \in S : \E i \in 1 .. N : listed[i] = x
  <2> HIDE DEF S, listed
  <2>1. QED
    BY <1>3, <1>4, SetToSeqIs
<1> HIDE DEF listed
<1>6. N \in Nat /\ \A i \in 1 .. N : listed[i] \in published
  <2>1. N \in Nat /\ \A i \in 1 .. N : listed[i] \in S
    <3> HIDE DEF S
    <3>1. QED
      BY <1>5
  <2>2. QED
    BY <2>1
<1>7. listed \in Seq(Seq(Symbols))
  <2>1. S \subseteq Seq(Symbols)
    OBVIOUS
  <2> HIDE DEF S
  <2>2. QED
    BY <1>5, <2>1
<1>8. /\ best[0] = [name |-> NoName, hour |-> ""]
      /\ \A n \in 1 .. N : best[n] = Better(best[n - 1], listed[n], tmpl, day, p)
  <2>1. Walks(best, tmpl, day, p, listed)
    BY <1>7, BestsAre
  <2> HIDE DEF best
  <2>2. QED
    BY <2>1 DEF Walks
<1> HIDE DEF best
<1> DEFINE done == {m \in Nat : m <= N => Newest(best[m], tmpl, day, p, listed, m)}
<1>9. 0 \in done
  <2> DEFINE b == best[0]
  <2>0. b = [name |-> NoName, hour |-> ""]
    BY <1>8
  <2> HIDE DEF b
  <2>1. b.name = NoName /\ b.hour = ""
    BY <2>0
  <2>2. \A i \in 1 .. 0 : FALSE
    OBVIOUS
  <2>3. Newest(best[0], tmpl, day, p, listed, 0)
    BY <2>1, <2>2 DEF Newest, b
  <2>4. QED
    BY <2>3
<1>10. ASSUME NEW m \in Nat, m \in done PROVE m + 1 \in done
  <2> SUFFICES ASSUME m + 1 <= N PROVE Newest(best[m + 1], tmpl, day, p, listed, m + 1)
    OBVIOUS
  <2>1. Newest(best[m], tmpl, day, p, listed, m)
    BY <1>6, <1>10
  <2>2. best[m + 1] = Better(best[m], listed[m + 1], tmpl, day, p)
    <3> DEFINE k == m + 1
    <3>1. k \in 1 .. N /\ k - 1 = m
      BY <1>6
    <3> HIDE DEF k
    <3>2. best[k] = Better(best[m], listed[k], tmpl, day, p)
      BY <1>8, <3>1
    <3>3. QED
      BY <3>2 DEF k
  <2>3. \A n : IsDump(tmpl, day, p, n) => HourIn(p, n) \in hours
    BY <1>1
  <2>4. QED
    BY <2>1, <2>2, <2>3, BetterIsNewest
<1>11. Newest(best[N], tmpl, day, p, listed, N)
  <2>1. Nat \subseteq done
    <3> HIDE DEF done
    <3>1. QED
      BY <1>9, <1>10, NatsFromZero
  <2>2. QED
    BY <1>6, <2>1
<1>12. ASSUME NEW hour \in hours, Dump(tmpl, day, hour) \in published
       PROVE  \E i \in 1 .. N : listed[i] = Dump(tmpl, day, hour) /\ D(listed[i]) /\ H(listed[i]) = hour
  <2> DEFINE n == Dump(tmpl, day, hour)
  <2>1. n # NoName
    BY <1>12, NoNameIs
  <2>2. D(n) /\ H(n) = hour /\ IsPrefix(p, n)
    BY <1>1, <2>1
  <2> HIDE DEF n
  <2>3. n \in S
    BY <1>12, <2>2 DEF n
  <2>4. PICK i \in 1 .. N : listed[i] = n
    BY <1>5, <2>3
  <2>5. QED
    BY <2>2, <2>4 DEF n
<1> HIDE DEF S, N
<1>13. CASE /\ best[N].name = NoName /\ best[N].hour = ""
            /\ \A i \in 1 .. N : ~D(listed[i])
  BY <1>2, <1>12, <1>13 DEF LatestOf
<1>14. ASSUME NEW i \in 1 .. N, D(listed[i]), best[N].name = listed[i], best[N].hour = H(listed[i]),
              \A j \in 1 .. N : D(listed[j]) => ~Later(H(listed[j]), best[N].hour)
       PROVE  LatestOf(name, tmpl, day, published)
  <2> DEFINE hour == H(listed[i])
  <2>1. hour \in hours /\ name = Dump(tmpl, day, hour)
    BY <1>1, <1>14
  <2>2. name \in published
    BY <1>6, <1>14 DEF N
  <2>3. \A other \in hours : Later(other, hour) => Dump(tmpl, day, other) \notin published
    BY <1>12, <1>14
  <2> HIDE DEF hour, name
  <2>4. QED
    BY <2>1, <2>2, <2>3 DEF LatestOf
<1>15. QED
  BY <1>2, <1>11, <1>13, <1>14 DEF Newest

(* NewestIsFound, for every accepted template with {hour}, any days and any  *)
(* finite set of published names.                                            *)
THEOREM NewestDumpIsFound == Spec => []NewestIsFound
<1>1. Answered => NewestIsFound
  <2> DEFINE tmpl == question.tmpl
             days == question.days
             published == question.published
             HasDump(n) == \E hour \in hours : Dump(tmpl, days[n], hour) \in published
             Found(n, hour) ==
               /\ answer = Dump(tmpl, days[n], hour) /\ answer \in published
               /\ \A m \in 1 .. n - 1 : ~HasDump(m)
               /\ \A other \in hours : Later(other, hour) => Dump(tmpl, days[n], other) \notin published
  <2> SUFFICES ASSUME Answered, Of("newest"), <<"hour">> \in ToSet(Placeholders(tmpl))
               PROVE  \/ answer = NoName /\ \A n \in DOMAIN days : ~HasDump(n)
                      \/ \E n \in DOMAIN days, hour \in hours : Found(n, hour)
    BY DEF NewestIsFound, Dump
  <2>1. ASearch(question) /\ answer = NewestDump(tmpl, days, published)
    BY OfIs DEF Of, Answered
  <2>2. /\ tmpl \in Seq(Symbols) /\ CheckTemplate(tmpl, "archive_dump")
        /\ days \in Seq(Symbols \ Braces)
        /\ published \subseteq Seq(Symbols) /\ IsFiniteSet(published)
    BY <2>1 DEF ASearch
  <2> DEFINE len == Len(days)
             best == [n \in DOMAIN days |-> BestOfDay(tmpl, days[n], published)]
             I == {n \in 1 .. Len(best) : best[n] # NoName}
             first == SelectInSeq(best, LAMBDA name : name # NoName)
  <2> HIDE DEF tmpl, days, published
  <2>3. answer = IF first = 0 THEN NoName ELSE best[first]
    BY <2>1 DEF NewestDump
  <2>4. first = IF I # {} THEN Min(I) ELSE 0
    BY DEF SelectInSeq
  <2>5. len \in Nat /\ DOMAIN days = 1 .. len /\ \A n \in 1 .. len : days[n] \in Symbols \ Braces
    BY <2>2
  <2>6. Len(best) = len
    BY <2>5
  <2>7. \A n \in 1 .. len : best[n] = BestOfDay(tmpl, days[n], published)
    BY <2>5
  <2> HIDE DEF len, best, first
  <2>8. I \subseteq 1 .. len
    BY <2>6
  <2>9. ASSUME NEW n \in 1 .. len PROVE LatestOf(best[n], tmpl, days[n], published)
    BY <2>2, <2>5, <2>7, BestIsLatest
  <2>10. ASSUME NEW n \in 1 .. len, n \notin I PROVE ~HasDump(n)
    <3>1. best[n] = NoName
      BY <2>6, <2>10
    <3>2. NoName \notin published
      BY <2>2, NoNameIs
    <3>3. LatestOf(NoName, tmpl, days[n], published)
      BY <2>9, <3>1
    <3>4. QED
      BY <3>2, <3>3 DEF LatestOf
  <2>11. \/ first = 0 /\ I = {}
         \/ first \in I /\ \A n \in 1 .. first - 1 : n \notin I
    <3> HIDE DEF I
    <3>1. QED
      BY <2>4, <2>5, <2>8, FirstIs
  <2>12. CASE first = 0 /\ I = {}
    BY <2>3, <2>5, <2>10, <2>12
  <2>13. CASE first \in I /\ \A n \in 1 .. first - 1 : n \notin I
    <3>1. first \in 1 .. len /\ first # 0 /\ best[first] # NoName
      BY <2>8, <2>13
    <3>2. answer = best[first]
      BY <2>3, <3>1
    <3>3. PICK hour \in hours :
            /\ answer = Dump(tmpl, days[first], hour) /\ answer \in published
            /\ \A other \in hours : Later(other, hour) => Dump(tmpl, days[first], other) \notin published
      BY <2>9, <3>1, <3>2 DEF LatestOf
    <3>4. \A m \in 1 .. first - 1 : m \in 1 .. len
      BY <2>5, <3>1
    <3>5. \A m \in 1 .. first - 1 : ~HasDump(m)
      BY <2>10, <2>13, <3>4
    <3>6. Found(first, hour)
      BY <3>3, <3>5
    <3>7. QED
      BY <2>5, <3>1, <3>6
  <2>14. QED
    BY <2>11, <2>12, <2>13
<1>2. QED
  BY <1>1, Answers, PTL
=============================================================================
