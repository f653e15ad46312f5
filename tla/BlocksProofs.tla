---------------------------- MODULE BlocksProofs ----------------------------
(* Proofs about Blocks, for any width of an int, cap, threshold and names. *)
EXTENDS Blocks, FiniteSetTheorems, TLAPS

USE NumbersAssumption, NamesAssumption

(***************************************************************************)
(* The inductive invariant.                                                *)
(***************************************************************************)
(* The walk so far: as many heights as the blocks found and the misses      *)
(* since the last one account for, and of what was published when the run   *)
(* began, every block that it has passed, none of them among the misses.    *)
Walking ==
  pc = "walk" =>
    /\ start + misses <= h /\ count < Cap
    /\ openEnded  => misses < Threshold /\ h - start <= count * Threshold + misses
    /\ ~openEnded => misses = 0 /\ h <= end + 1 /\ end - start < Cap
    /\ \A n \in before : IsBlock(n) /\ start <= n.height /\ n.height < h =>
         n \in wanted /\ n.height < h - misses

(* Nothing is taken back by the publisher; where the height comes first in a *)
(* name, a listing is of one height.                                         *)
Recorded ==
  /\ before \subseteq published
  /\ wanted = {} => count = 0
  /\ template = "height_first" => FetchesOnlyTheRange

(* What the walk has come to when it is over. *)
Discovered ==
  pc \in {"coverage", "fetch", "ok"} =>
    /\ count <= Cap
    /\ \A n \in before : IsBlock(n) /\ InRange(n) /\ ~BehindGap(n) => n \in wanted

(* What is not left to fetch is on disk. *)
Fetching ==
  /\ pc \in {"coverage", "fetch", "ok"} => wanted \subseteq left \cup files
  /\ pc \in {"fetch", "ok"} /\ ~openEnded => wanted # {}
  /\ pc = "ok" => left = {}

Inv == TypeOK /\ Walking /\ Recorded /\ Discovered /\ Fetching

-----------------------------------------------------------------------------
(* There are finitely many names, so a listing has a length. *)
LEMMA NamesFinite == IsFiniteSet(Names)
<1> DEFINE pairs == Heights \X (Hashes \cup {Other})
           name == [p \in pairs |-> [height |-> p[1], hash |-> p[2]]]
<1>1. IsFiniteSet(Heights)
  BY FS_Interval DEF Heights
<1>2. IsFiniteSet(Hashes \cup {Other})
  BY FS_AddElement, Zenon
<1>3. IsFiniteSet(pairs)
  BY <1>1, <1>2, FS_Product
<1>4. name \in Surjection(pairs, Names)
  <2>1. ASSUME NEW n \in Names PROVE \E p \in pairs : name[p] = n
    <3>1. <<n.height, n.hash>> \in pairs /\ name[<<n.height, n.hash>>] = n
      BY DEF Names
    <3>2. QED
      BY <3>1
  <2>2. name \in [pairs -> Names]
    BY DEF Names
  <2> HIDE DEF name, pairs
  <2>3. QED
    BY <2>1, <2>2 DEF Surjection
<1> HIDE DEF name, pairs
<1>5. QED
  BY <1>3, <1>4, FS_Surjection

(* The blocks that a listing at a height returns. *)
FoundAt(height) == {n \in Listed(height) : IsBlock(n)}

(* A listing is a finite set of published names. *)
LEMMA FoundIsFinite ==
  ASSUME published \subseteq Names, NEW height
  PROVE  /\ FoundAt(height) \subseteq Names
         /\ Cardinality(FoundAt(height)) \in Nat
         /\ Cardinality(FoundAt(height)) = 0 <=> FoundAt(height) = {}
<1>1. FoundAt(height) \subseteq Names
  BY DEF FoundAt, Listed
<1>2. IsFiniteSet(FoundAt(height))
  BY <1>1, NamesFinite, FS_Subset
<1>3. QED
  BY <1>1, <1>2, FS_CardinalityType, FS_EmptySet

(* Products of what is less are less. *)
LEMMA Product ==
  ASSUME NEW a \in Nat, NEW b \in Nat, NEW t \in Nat, a <= b
  PROVE  a * t \in Nat /\ b * t \in Nat /\ a * t <= b * t
<1>1. (b - a) * t >= 0 /\ b * t = a * t + (b - a) * t
  OBVIOUS
<1>2. QED
  BY <1>1

LEMMA ProductOfNext ==
  ASSUME NEW a \in Nat, NEW t \in Nat
  PROVE  (a + 1) * t = a * t + t
  OBVIOUS

-----------------------------------------------------------------------------
(* One iteration of the walk. *)
LEMMA ListHeightStep == ASSUME Inv, ListHeight PROVE Inv'
<1> DEFINE found == FoundAt(h)
           listed == Cardinality(found)
<1> USE DEF Inv
<1>1. /\ pc = "walk" /\ (openEnded \/ h <= end)
      /\ wanted' = wanted \cup found /\ count' = count + listed /\ misses' = Misses(found)
      /\ UNCHANGED <<published, template, files, start, end, begun, before>>
  BY DEF ListHeight, FoundAt, PastEnd, TypeOK, Heights, openEnded
<1>2. /\ IF openEnded /\ misses' >= Threshold THEN EndWalk(wanted \cup found)
         ELSE IF OverCap(count') THEN pc' = "capped" /\ UNCHANGED <<h, left>>
         ELSE IF LastHeight      THEN EndWalk(wanted \cup found)
         ELSE h' = Successor(h) /\ UNCHANGED <<pc, left>>
  BY DEF ListHeight, FoundAt
<1>3. found \subseteq Names /\ listed \in Nat /\ (listed = 0 <=> found = {})
  BY FoundIsFinite DEF TypeOK
<1>4. /\ start \in Heights /\ h \in Nat /\ h <= MaxInt /\ start \in Nat /\ misses \in Nat /\ count \in Nat
      /\ end \in Heights \cup {Open} /\ (~openEnded => end \in Nat)
      /\ wanted \subseteq Names /\ before \subseteq Names
      /\ start + misses <= h /\ count < Cap
  BY <1>1 DEF TypeOK, Walking, Heights, openEnded
<1>5. \A n \in before : IsBlock(n) /\ n.height = h => n \in found
  BY DEF Recorded, FoundAt, Listed
<1>6. \A n \in before : n.height \in Nat /\ n.height <= MaxInt
  BY <1>4 DEF Names, Heights
<1>7. openEnded' = openEnded /\ \A n : InRange(n)' = InRange(n) /\ BehindGap(n)' = BehindGap(n)
  BY <1>1 DEF openEnded, InRange, BehindGap
<1>8. /\ openEnded /\ found = {} => misses' = misses + 1
      /\ openEnded /\ found # {} => misses' = 0
      /\ ~openEnded => misses' = misses
      /\ misses' \in Nat /\ count' \in Nat
  BY <1>1, <1>3, <1>4 DEF Misses
<1> HIDE DEF found, listed
<1>9. Recorded'
  <2>1. template = "height_first" => \A n \in found : InRange(n)
    BY <1>1, <1>4 DEF found, FoundAt, Listed, InRange
  <2>2. wanted' = {} => count' = 0
    BY <1>1, <1>3, <1>4 DEF Recorded
  <2>3. QED
    BY <1>1, <1>7, <2>1, <2>2 DEF Recorded, FetchesOnlyTheRange
<1>10. \A n \in before : IsBlock(n) /\ start <= n.height /\ n.height <= h => n \in wanted'
  <2> SUFFICES ASSUME NEW n \in before, IsBlock(n), start <= n.height, n.height <= h
               PROVE  n \in wanted'
    OBVIOUS
  <2>1. CASE n.height = h
    BY <1>1, <1>5, <2>1
  <2>2. CASE n.height < h
    BY <1>1, <2>2 DEF Walking
  <2>3. QED
    BY <1>4, <1>6, <2>1, <2>2
<1>11. ASSUME pc' \in {"fetch", "coverage"}, h' = h, left' = wanted',
             ~openEnded => pc' = "coverage", count' < Cap,
             \A n \in before : IsBlock(n) /\ InRange(n) /\ ~BehindGap(n) => n.height <= h
       PROVE  Inv'
  <2>1. TypeOK'
    BY <1>1, <1>3, <1>4, <1>8, <1>11 DEF TypeOK, Active
  <2>2. Walking'
    BY <1>11 DEF Walking
  <2>3. Discovered'
    BY <1>1, <1>4, <1>7, <1>8, <1>10, <1>11 DEF Discovered, InRange
  <2>4. Fetching'
    BY <1>7, <1>11 DEF Fetching
  <2>5. QED
    BY <1>9, <2>1, <2>2, <2>3, <2>4
<1>12. CASE openEnded /\ misses' >= Threshold
  <2>1. pc' = "fetch" /\ h' = h /\ left' = wanted'
    BY <1>1, <1>2, <1>12 DEF EndWalk
  <2>2. found = {} /\ misses' = misses + 1 /\ count' < Cap
    BY <1>1, <1>3, <1>4, <1>8, <1>12
  <2>3. ASSUME NEW n \in before, IsBlock(n), InRange(n), n.height > h PROVE BehindGap(n)
    <3> DEFINE low == h + 1 - Threshold
    <3>1. low \in start .. n.height - Threshold
      BY <1>4, <1>6, <1>12, <2>2, <2>3
    <3>2. ASSUME NEW b \in before, IsBlock(b) PROVE b.height \notin low .. low + Threshold - 1
      <4>1. b.height # h
        BY <1>5, <2>2, <3>2
      <4>2. start <= b.height /\ b.height < h => b.height < h - misses
        BY <1>1, <3>2 DEF Walking
      <4>3. QED
        BY <1>4, <1>6, <1>12, <2>2, <4>1, <4>2
    <3> HIDE DEF low
    <3>3. QED
      BY <1>12, <3>1, <3>2 DEF BehindGap
  <2>4. \A n \in before : IsBlock(n) /\ InRange(n) /\ ~BehindGap(n) => n.height <= h
    BY <1>4, <1>6, <2>3
  <2>5. QED
    BY <1>11, <1>12, <2>1, <2>2, <2>4
<1>13. CASE ~(openEnded /\ misses' >= Threshold) /\ OverCap(count')
  <2>1. pc' = "capped" /\ UNCHANGED <<h, left>>
    BY <1>2, <1>13
  <2>2. TypeOK'
    BY <1>1, <1>3, <1>4, <1>8, <2>1 DEF TypeOK, Ended
  <2>3. QED
    BY <1>9, <2>1, <2>2 DEF Walking, Discovered, Fetching
<1>14. CASE ~(openEnded /\ misses' >= Threshold) /\ ~OverCap(count') /\ LastHeight
  <2>1. pc' \in {"fetch", "coverage"} /\ h' = h /\ left' = wanted' /\ (~openEnded => pc' = "coverage")
    BY <1>1, <1>2, <1>14 DEF EndWalk
  <2>2. count' < Cap
    BY <1>8, <1>14 DEF OverCap
  <2>3. \A n \in before : n.height <= h
    BY <1>6, <1>14 DEF LastHeight
  <2>4. QED
    BY <1>11, <2>1, <2>2, <2>3
<1>15. CASE ~(openEnded /\ misses' >= Threshold) /\ ~OverCap(count') /\ ~LastHeight
  <2>1. h' = h + 1 /\ h' <= MaxInt /\ pc' = "walk" /\ left' = left
    BY <1>1, <1>2, <1>4, <1>15 DEF LastHeight, Successor
  <2>2. TypeOK'
    BY <1>1, <1>3, <1>4, <1>8, <2>1 DEF TypeOK, Heights
  <2>3. count' < Cap /\ start' + misses' <= h'
    BY <1>1, <1>4, <1>8, <1>15, <2>1 DEF OverCap
  <2>4. ASSUME openEnded PROVE misses' < Threshold /\ h' - start <= count' * Threshold + misses'
    <3>1. misses' < Threshold
      BY <1>8, <1>15, <2>4
    <3>2. h - start <= count * Threshold + misses /\ misses < Threshold
      BY <1>1, <2>4 DEF Walking
    <3>3. CASE found = {}
      <4>1. count' = count /\ misses' = misses + 1
        BY <1>1, <1>3, <1>4, <1>8, <2>4, <3>3
      <4> DEFINE heights == count * Threshold
      <4>2. heights \in Nat /\ h - start <= heights + misses
        BY <1>4, <3>2
      <4>3. count' * Threshold = heights
        BY <4>1
      <4> HIDE DEF heights
      <4>4. h' - start <= heights + misses'
        BY <1>4, <2>1, <4>1, <4>2
      <4>5. QED
        BY <3>1, <4>3, <4>4
    <3>4. CASE found # {}
      <4>1. count + 1 <= count' /\ misses' = 0
        BY <1>1, <1>3, <1>4, <1>8, <2>4, <3>4
      <4>2. (count + 1) * Threshold <= count' * Threshold /\ count' * Threshold \in Nat
        <5>1. count + 1 \in Nat /\ count' \in Nat /\ Threshold \in Nat
          BY <1>4, <1>8
        <5>2. QED
          BY <4>1, <5>1, Product, Zenon
      <4>3. (count + 1) * Threshold = count * Threshold + Threshold /\ count * Threshold \in Nat
        BY <1>4, ProductOfNext
      <4>4. QED
        BY <1>4, <2>1, <3>1, <3>2, <4>1, <4>2, <4>3
    <3>5. QED
      BY <3>3, <3>4
  <2>5. ASSUME ~openEnded PROVE misses' = 0 /\ h' <= end + 1 /\ end - start < Cap
    BY <1>1, <1>4, <1>8, <2>1, <2>5 DEF Walking
  <2>6. ASSUME NEW n \in before, IsBlock(n), start <= n.height, n.height < h'
        PROVE  n \in wanted' /\ n.height < h' - misses'
    <3>1. n.height <= h
      BY <1>4, <1>6, <2>1, <2>6
    <3>2. n \in wanted'
      BY <1>10, <2>6, <3>1
    <3>3. CASE n.height = h
      <4>1. misses' = 0
        BY <1>1, <1>5, <1>8, <2>6, <3>3 DEF Walking
      <4>2. QED
        BY <1>4, <2>1, <3>2, <3>3, <4>1
    <3>4. CASE n.height < h
      <4>1. n.height < h - misses
        BY <1>1, <2>6, <3>4 DEF Walking
      <4>2. misses' <= misses + 1
        BY <1>4, <1>8
      <4>3. QED
        BY <1>4, <1>6, <1>8, <2>1, <3>2, <4>1, <4>2
    <3>5. QED
      BY <1>4, <1>6, <3>1, <3>3, <3>4
  <2>7. Walking'
    BY <1>1, <1>7, <2>3, <2>4, <2>5, <2>6 DEF Walking
  <2>8. Discovered' /\ Fetching'
    BY <2>1 DEF Discovered, Fetching
  <2>9. QED
    BY <1>9, <2>2, <2>7, <2>8
<1>16. QED
  BY <1>12, <1>13, <1>14, <1>15

(* The other steps of a run. *)
LEMMA BeginStep ==
  ASSUME Inv, NEW low \in Inputs, NEW high \in Inputs \cup {Open}, Begin(low, high)
  PROVE  Inv'
<1> USE DEF Inv
<1>1. /\ misses' = 0 /\ wanted' = {} /\ count' = 0 /\ left' = {} /\ before' = published
      /\ begun' = begun + 1 /\ UNCHANGED <<published, template, files>>
  BY DEF Begin
<1>2. Recorded'
  BY <1>1 DEF Recorded, FetchesOnlyTheRange
<1>3. CASE AcceptsRange(low, high)
  <2>1. pc' = "walk" /\ start' = low /\ end' = high /\ h' = low
    BY <1>3 DEF Begin
  <2>2. /\ low \in Nat /\ low <= MaxInt
        /\ high # Open => high \in Nat /\ high <= MaxInt /\ low <= high /\ high - low < Cap
    BY <1>3 DEF AcceptsRange, ParsesHeight, maxHeight, Inputs
  <2>3. TypeOK'
    BY <1>1, <2>1, <2>2 DEF TypeOK, Heights, Active
  <2>4. 0 * Threshold = 0 /\ low - low = 0
    BY <2>2
  <2>5. openEnded' <=> high = Open
    BY <2>1 DEF openEnded
  <2>6. \A n \in published : n.height \in Nat
    BY DEF TypeOK, Names, Heights
  <2>7. Walking'
    BY <1>1, <2>1, <2>2, <2>4, <2>5, <2>6 DEF Walking
  <2>8. QED
    BY <1>2, <2>1, <2>3, <2>7 DEF Discovered, Fetching
<1>4. CASE ~AcceptsRange(low, high)
  <2>1. pc' = "err" /\ UNCHANGED <<start, end, h>>
    BY <1>4 DEF Begin
  <2>2. TypeOK'
    BY <1>1, <2>1 DEF TypeOK, Ended
  <2>3. QED
    BY <1>2, <2>1, <2>2 DEF Walking, Discovered, Fetching
<1>5. QED
  BY <1>3, <1>4

LEMMA EndOfRangeStep == ASSUME Inv, EndOfRange PROVE Inv'
<1> USE DEF Inv
<1>1. /\ pc = "walk" /\ ~openEnded /\ h > end /\ pc' = "coverage" /\ left' = wanted /\ h' = h
      /\ UNCHANGED <<published, template, files, start, end, misses, wanted, count, begun, before>>
  BY DEF EndOfRange, PastEnd, EndWalk
<1>2. openEnded' = openEnded /\ \A n : InRange(n)' = InRange(n) /\ BehindGap(n)' = BehindGap(n)
  BY <1>1 DEF openEnded, InRange, BehindGap
<1>3. TypeOK'
  BY <1>1 DEF TypeOK, Active
<1>4. end \in Nat /\ h \in Nat /\ count \in Nat /\ \A n \in before : n.height \in Nat
  BY <1>1 DEF TypeOK, Names, Heights, openEnded
<1>5. Discovered'
  BY <1>1, <1>2, <1>4 DEF Walking, Discovered, InRange
<1>6. QED
  BY <1>1, <1>2, <1>3, <1>5 DEF Walking, Recorded, FetchesOnlyTheRange, Fetching

LEMMA LaterStep ==
  ASSUME Inv, CheckCoverage \/ (\E n \in left : GetBlock(n)) \/ EndFetch \/ Fault
  PROVE  Inv'
<1> USE DEF Inv
<1>1. UNCHANGED <<published, template, start, end, h, misses, wanted, count, begun, before>>
  BY DEF CheckCoverage, GetBlock, EndFetch, Fault
<1>2. openEnded' = openEnded /\ \A n : InRange(n)' = InRange(n) /\ BehindGap(n)' = BehindGap(n)
  BY <1>1 DEF openEnded, InRange, BehindGap
<1>3. TypeOK' /\ Recorded'
  BY <1>1, <1>2 DEF CheckCoverage, GetBlock, EndFetch, Fault, TypeOK, Active, Ended,
     Recorded, FetchesOnlyTheRange
<1>4. pc' # "walk" /\ (pc' \in {"fetch", "ok"} => pc \in {"coverage", "fetch"})
  BY DEF CheckCoverage, GetBlock, EndFetch, Fault
<1>5. Walking' /\ Discovered'
  BY <1>1, <1>2, <1>4 DEF CheckCoverage, GetBlock, EndFetch, Fault, Walking, Discovered
<1>6. Fetching'
  <2>1. CASE CheckCoverage
    <3>1. pc = "coverage" /\ UNCHANGED <<left, files>> /\ (pc' = "fetch" => count # 0) /\ pc' # "ok"
      BY <2>1 DEF CheckCoverage
    <3>2. QED
      BY <1>1, <1>2, <3>1 DEF Fetching, Recorded
  <2>2. ASSUME NEW n \in left, GetBlock(n) PROVE Fetching'
    BY <1>1, <1>2, <2>2 DEF GetBlock, Fetching
  <2>3. CASE EndFetch
    BY <1>1, <1>2, <2>3 DEF EndFetch, Fetching
  <2>4. CASE Fault
    BY <2>4 DEF Fault, Fetching
  <2>5. QED
    BY <2>1, <2>2, <2>3, <2>4
<1>7. QED
  BY <1>3, <1>5, <1>6

(* The publisher goes on. *)
LEMMA PublishStep == ASSUME Inv, NEW n \in Names, Publish(n) PROVE Inv'
<1> USE DEF Inv
<1>1. /\ published' = published \cup {n}
      /\ UNCHANGED <<template, files, pc, start, end, h, misses, wanted, count, left, begun, before>>
  BY DEF Publish
<1>2. openEnded' = openEnded /\ \A b : InRange(b)' = InRange(b) /\ BehindGap(b)' = BehindGap(b)
  BY <1>1 DEF openEnded, InRange, BehindGap
<1>3. TypeOK' /\ Recorded'
  BY <1>1, <1>2 DEF TypeOK, Recorded, FetchesOnlyTheRange
<1>4. Walking' /\ Discovered' /\ Fetching'
  BY <1>1, <1>2 DEF Walking, Discovered, Fetching
<1>5. QED
  BY <1>3, <1>4

-----------------------------------------------------------------------------
(* The inductive invariant holds in every state. *)
THEOREM Invariance == Spec => []Inv
<1>1. Init => Inv
  <2> SUFFICES ASSUME Init PROVE Inv
    OBVIOUS
  <2>1. TypeOK
    BY DEF Init, TypeOK, Heights, Active, Ended
  <2>2. Walking /\ Recorded /\ Discovered /\ Fetching
    BY DEF Init, Walking, Recorded, FetchesOnlyTheRange, Discovered, Fetching
  <2>3. QED
    BY <2>1, <2>2 DEF Inv
<1>2. Inv /\ [Next]_vars => Inv'
  <2> SUFFICES ASSUME Inv, [Next]_vars PROVE Inv'
    OBVIOUS
  <2>1. CASE UNCHANGED vars
    BY <2>1 DEF vars, Inv, TypeOK, Walking, Recorded, FetchesOnlyTheRange, Discovered, Fetching,
       openEnded, InRange, BehindGap
  <2>2. ASSUME NEW n \in Names, GetBlock(n) PROVE n \in left
    BY <2>2 DEF GetBlock
  <2>3. QED
    BY <2>1, <2>2, ListHeightStep, BeginStep, EndOfRangeStep, LaterStep, PublishStep DEF Next
<1>3. QED
  BY <1>1, <1>2, PTL DEF Spec

(* Type correctness: in particular the heights that a run asks for are     *)
(* never negative, up to the largest int (the loop of discoverBlocks).     *)
THEOREM TypeCorrect == Spec => []TypeOK
<1>1. Inv => TypeOK
  BY DEF Inv
<1>2. QED
  BY <1>1, Invariance, PTL

(* A run that succeeds has on disk every block of its range that was       *)
(* published when it began and is not behind a gap (discoverBlocks and     *)
(* downloadBlocks), for either order of a name.                            *)
THEOREM RangeIsFetched == Spec => []FetchesTheRange
<1>1. Inv => FetchesTheRange
  BY DEF Inv, Discovered, Fetching, FetchesTheRange
<1>2. QED
  BY <1>1, Invariance, PTL

(* Where names begin with the height, nothing outside the range is fetched. *)
THEOREM OnlyRangeIsFetched == Spec => [](template = "height_first" => FetchesOnlyTheRange)
<1>1. Inv => (template = "height_first" => FetchesOnlyTheRange)
  BY DEF Inv, Recorded
<1>2. QED
  BY <1>1, Invariance, PTL

(* No run fetches more than maxBlocksPerInvocation blocks. *)
THEOREM FetchBounded == Spec => []FetchIsBounded
<1>1. Inv => FetchIsBounded
  BY DEF Inv, Discovered, FetchIsBounded
<1>2. QED
  BY <1>1, Invariance, PTL

(* The cap and the miss threshold bound the heights of one walk, of either *)
(* kind of range, while the publisher goes on.                             *)
THEOREM WalkBounded == Spec => []WalkIsBounded
<1>1. Inv => WalkIsBounded
  <2> SUFFICES ASSUME Inv, pc = "walk" PROVE h - start <= Cap * Threshold
    BY DEF WalkIsBounded
  <2>1. /\ start \in Nat /\ h \in Nat /\ count \in Nat /\ misses \in Nat /\ count < Cap
        /\ ~openEnded => end \in Nat
    BY DEF Inv, Walking, TypeOK, Heights, openEnded
  <2>2. CASE openEnded
    <3>1. misses < Threshold /\ h - start <= count * Threshold + misses
      BY <2>2 DEF Inv, Walking
    <3>2. count + 1 \in Nat /\ count + 1 <= Cap
      BY <2>1
    <3>3. (count + 1) * Threshold <= Cap * Threshold /\ Cap * Threshold \in Nat
      BY <3>2, Product
    <3>4. (count + 1) * Threshold = count * Threshold + Threshold /\ count * Threshold \in Nat
      BY <2>1, ProductOfNext
    <3>5. QED
      BY <2>1, <3>1, <3>3, <3>4
  <2>3. CASE ~openEnded
    <3>1. h <= end + 1 /\ end - start < Cap
      BY <2>3 DEF Inv, Walking
    <3>2. Cap * 1 <= Cap * Threshold
      OBVIOUS
    <3>3. QED
      BY <2>1, <2>3, <3>1, <3>2
  <2>4. QED
    BY <2>2, <2>3
<1>2. QED
  BY <1>1, Invariance, PTL

(* A run over a closed range that has found nothing does not succeed *)
(* (checkCoverage).                                                  *)
THEOREM EmptyFails == Spec => []EmptyRangeFails
<1>1. Inv => EmptyRangeFails
  BY DEF Inv, Fetching, EmptyRangeFails
<1>2. QED
  BY <1>1, Invariance, PTL
=============================================================================
