------------------------- MODULE DaemonConfigProofs -------------------------
(* Proofs about DaemonConfig, for any packages, versions, layouts and runs. *)
EXTENDS DaemonConfig, FiniteSetTheorems, TLAPS

(* There are two architectures. *)
LEMMA Architectures ==
  /\ Len(architectures) = 2 /\ DOMAIN architectures = {1, 2}
  /\ architectures[1] = "all" /\ architectures[2] = "amd64"
  BY DEF architectures

(* A finite set of numbers that is not empty has a maximum: the sets of what *)
(* is not below an element are finite, and a least of them is that of the    *)
(* maximum.                                                                  *)
LEMMA MaximumExists ==
  ASSUME NEW S, IsFiniteSet(S), S # {}, S \subseteq Nat
  PROVE  Maximum(S) \in S /\ \A n \in S : n <= Maximum(S)
<1> DEFINE above == [x \in S |-> {y \in S : x <= y}]
           sets == {above[x] : x \in S}
           order == StrictSubsetOrdering(S)
<1>1. \A x, y \in S : y \in above[x] <=> x <= y
  OBVIOUS
<1>2. \A x \in S : above[x] \subseteq S
  OBVIOUS
<1> HIDE DEF above
<1>3. FiniteSubsetsOf(S) = SUBSET S
  BY FS_FiniteSubsetsOfFinite
<1>4. sets \subseteq FiniteSubsetsOf(S) /\ sets # {}
  <2>1. sets \subseteq SUBSET S
    BY <1>2
  <2>2. PICK x \in S : TRUE
    OBVIOUS
  <2>3. above[x] \in sets
    OBVIOUS
  <2> HIDE DEF sets
  <2>4. QED
    BY <1>3, <2>1, <2>3
<1>5. \E u \in sets : \A v \in sets : <<v, u>> \notin order
  <2>1. IsWellFoundedOn(order, FiniteSubsetsOf(S))
    BY FS_StrictSubsetOrderingWellFounded
  <2> HIDE DEF order, sets
  <2>2. QED
    BY <1>4, <2>1, WFMin
<1>6. PICK x \in S : \A z \in S : <<above[z], above[x]>> \notin order
  <2> HIDE DEF order
  <2>1. QED
    BY <1>5
<1>7. ASSUME NEW z \in S, x < z PROVE FALSE
  <2>1. \A y \in S : z <= y => x <= y
    BY <1>7
  <2>2. above[z] \subseteq above[x]
    BY <1>1, <1>2, <2>1
  <2>3. x \in above[x] /\ x \notin above[z]
    BY <1>1, <1>7
  <2>4. <<above[z], above[x]>> \in order
    BY <1>2, <2>2, <2>3 DEF StrictSubsetOrdering
  <2>5. QED
    BY <1>6, <2>4
<1>8. \A z \in S : z <= x
  BY <1>7
<1>9. QED
  BY <1>8 DEF Maximum

USE PackagesAssumption, LayoutsAssumption

(* What is found when the entries of one more architecture are read. *)
LEMMA FoundGrows ==
  ASSUME candidates \in Seq(SUBSET Packages), NEW s \in SUBSET Packages,
         candidates' = Append(candidates, s)
  PROVE  Found' = Found \cup s
<1>1. /\ DOMAIN candidates' = 1 .. Len(candidates) + 1
      /\ \A n \in DOMAIN candidates : candidates'[n] = candidates[n]
      /\ candidates'[Len(candidates) + 1] = s
      /\ DOMAIN candidates = 1 .. Len(candidates) /\ Len(candidates) \in Nat
  OBVIOUS
<1>2. Range(candidates') = Range(candidates) \cup {s}
  <2>1. \A n \in DOMAIN candidates' : n \in DOMAIN candidates \/ n = Len(candidates) + 1
    BY <1>1
  <2>2. QED
    BY <1>1, <2>1 DEF Range
<1>3. QED
  BY <1>2 DEF Found

(* Only packages are found. *)
LEMMA FoundPackages ==
  ASSUME candidates \in Seq(SUBSET Packages)
  PROVE  Found \subseteq Packages
  BY DEF Found, Range

(* The first candidate of a version that was found is an entry of it. *)
LEMMA FirstOfFinds ==
  ASSUME candidates \in Seq(SUBSET Packages), Len(candidates) <= Len(architectures),
         NEW version, \E p \in Found : VersionOf[p] = version
  PROVE  FirstOf(version) \in Found /\ VersionOf[FirstOf(version)] = version
<1> DEFINE listing(n) == {p \in candidates[n] : VersionOf[p] = version}
           isFirst(n) == listing(n) # {} /\ \A m \in 1 .. n - 1 : listing(m) = {}
           first == CHOOSE n \in DOMAIN candidates : isFirst(n)
<1>1. \E n \in DOMAIN candidates : listing(n) # {}
  BY DEF Found, Range
<1>2. DOMAIN candidates = 1 .. Len(candidates) /\ Len(candidates) \in Nat /\ Len(candidates) <= 2
  BY Architectures
<1>3. \E n \in DOMAIN candidates : isFirst(n)
  <2> HIDE DEF listing
  <2>1. CASE 1 \in DOMAIN candidates /\ listing(1) # {}
    BY <2>1
  <2>2. CASE ~(1 \in DOMAIN candidates /\ listing(1) # {})
    <3>1. 1 \in DOMAIN candidates /\ listing(1) = {} /\ 2 \in DOMAIN candidates /\ listing(2) # {}
      BY <1>1, <1>2, <2>2
    <3>2. \A m \in 1 .. 2 - 1 : m = 1
      OBVIOUS
    <3>3. QED
      BY <3>1, <3>2
  <2>3. QED
    BY <2>1, <2>2
<1>4. first \in DOMAIN candidates /\ listing(first) # {}
  <2> HIDE DEF listing
  <2>1. QED
    BY <1>3
<1>5. FirstOf(version) = CHOOSE p \in listing(first) : TRUE
  BY DEF FirstOf
<1> HIDE DEF first
<1>6. FirstOf(version) \in listing(first)
  BY <1>4, <1>5
<1>7. QED
  BY <1>4, <1>6 DEF Found, Range

(* A set of versions is finite. *)
LEMMA VersionsFinite == IsFiniteSet(Versions) /\ Versions \subseteq Nat
<1>1. VersionOf \in Surjection(Packages, Versions)
  BY DEF Surjection, Versions, Range
<1>2. IsFiniteSet(Versions)
  BY <1>1, FS_Surjection
<1>3. QED
  BY <1>2 DEF Versions, Range

(* The entry of the highest version is one that was found. *)
LEMMA HighestFinds ==
  ASSUME candidates \in Seq(SUBSET Packages), Len(candidates) <= Len(architectures), Found # {}
  PROVE  Highest \in Found /\ \A p \in Found : VersionOf[p] <= VersionOf[Highest]
<1> DEFINE versions == {VersionOf[p] : p \in Found}
<1>1. versions \subseteq Versions /\ versions # {}
  BY FoundPackages DEF Versions, Range
<1>2. IsFiniteSet(versions) /\ versions \subseteq Nat
  BY <1>1, VersionsFinite, FS_Subset
<1>3. Maximum(versions) \in versions /\ \A n \in versions : n <= Maximum(versions)
  <2> HIDE DEF versions
  <2>1. QED
    BY <1>1, <1>2, MaximumExists
<1>4. Highest \in Found /\ VersionOf[Highest] = Maximum(versions)
  BY <1>3, FirstOfFinds DEF Highest
<1>5. QED
  BY <1>3, <1>4

-----------------------------------------------------------------------------
(***************************************************************************)
(* The inductive invariant.                                                *)
(***************************************************************************)
(* The entries read so far are those of architectures before this one, and *)
(* a file is being written only while the package is copied.               *)
Reading ==
  /\ pc = "index" => Len(candidates) < arch
  /\ pc # "copy" => writing = None

Types == TypeOK /\ Reading

(* From the download on, the entry is one with a digest. *)
EntryHasDigest == pc \in {"verify", "extract", "copy"} => pkg \notin Undigested

(* While the package is copied, what is not left to copy is there. *)
CopiedSoFar == pc = "copy" => \A f \in Carries[pkg] \ left : out[f] = pkg

(* Indexes that a run which meets no failure reads, and has still to read. *)
Preferred(x) == x[2] = "gz" \/ <<x[1], "gz">> \notin DOMAIN index

Unread(x) ==
  \E n \in DOMAIN architectures :
    /\ x[1] = architectures[n]
    /\ n > arch \/ (n = arch /\ (form = "gz" \/ x[2] = form))

ListsFloor(s) == \E p \in s : VersionOf[p] = floor

FloorAhead == \E x \in DOMAIN index : Preferred(x) /\ Unread(x) /\ ListsFloor(index[x])

(* The highest version that was to be found when the run began has been     *)
(* found or, as the publisher lists no version out of an index, is still    *)
(* ahead; and the entry picked does not fall behind it.                     *)
FloorIsFound ==
  /\ pc \in {"index", "choose"} /\ ~missed /\ floor # 0 =>
       ListsFloor(Found) \/ (pc = "index" /\ FloorAhead)
  /\ pc \in {"open", "verify", "extract", "copy", "ok"} /\ pin = None /\ ~missed =>
       VersionOf[pkg] >= floor

Inv == Types /\ EntryHasDigest /\ CopiedSoFar /\ FloorIsFound

-----------------------------------------------------------------------------
(* The highest version to be found is one of the repository's, or 0. *)
LEMMA FloorType ==
  ASSUME Types
  PROVE  /\ Maximum(Findable \cup {0}) \in Findable \cup {0}
         /\ Findable \subseteq Versions
<1>1. Findable \subseteq Versions
  <2> DEFINE entries == UNION {index[x] : x \in {y \in DOMAIN index :
                                 y[2] = "gz" \/ <<y[1], "gz">> \notin DOMAIN index}}
  <2>1. entries \subseteq Packages
    <3>1. \A x \in DOMAIN index : index[x] \subseteq Packages
      BY DEF Types, TypeOK
    <3>2. QED
      BY <3>1
  <2>2. Findable = {VersionOf[p] : p \in entries}
    BY DEF Findable
  <2> HIDE DEF entries
  <2>3. QED
    BY <2>1, <2>2 DEF Versions, Range
<1>2. IsFiniteSet(Findable)
  BY <1>1, VersionsFinite, FS_Subset
<1>3. IsFiniteSet(Findable \cup {0})
  BY <1>2, FS_AddElement, Zenon
<1>4. Findable \cup {0} \subseteq Nat
  BY <1>1, VersionsFinite
<1>5. QED
  BY <1>1, <1>3, <1>4, MaximumExists

(* What the publisher does. *)
LEMMA PublishTypes == Types /\ Publish => Types'
<1> SUFFICES ASSUME Types, Publish PROVE Types'
  OBVIOUS
<1>1. UNCHANGED <<out, pc, arch, form, choice, copying, observed>>
  BY DEF Publish, Upload, List
<1>2. Found' = Found
  BY <1>1 DEF Found, choice
<1>3. /\ pool' \in [Versions -> Packages \cup {NoFile}] /\ published' \in 0 .. MaxPublish
      /\ index' \in [DOMAIN index -> SUBSET Packages]
  <2>1. ASSUME NEW p \in Packages, Upload(p)
        PROVE  /\ pool' \in [Versions -> Packages \cup {NoFile}] /\ published' \in 0 .. MaxPublish
               /\ index' = index
    <3>1. pool' = [pool EXCEPT ![VersionOf[p]] = p] /\ VersionOf[p] \in Versions
      BY <2>1 DEF Upload, Versions, Range
    <3>2. published' \in 0 .. MaxPublish /\ index' = index
      BY <2>1 DEF Upload, Types, TypeOK
    <3>3. QED
      BY <3>1, <3>2 DEF Types, TypeOK
  <2>2. ASSUME NEW p \in Packages, NEW x \in DOMAIN index, List(x, p)
        PROVE  /\ pool' = pool /\ published' \in 0 .. MaxPublish
               /\ index' \in [DOMAIN index -> SUBSET Packages]
    BY <2>2 DEF List, Types, TypeOK
  <2>3. QED
    BY <2>1, <2>2 DEF Publish, Types, TypeOK
<1>4. QED
  BY <1>1, <1>2, <1>3 DEF Types, TypeOK, Reading, choice, copying, observed

(* A step of a run leaves the repository alone. *)
LEMMA RunTypes == Types /\ Run => Types'
<1> SUFFICES ASSUME Types, Run PROVE Types'
  OBVIOUS
<1> USE DEF Types, TypeOK, Reading, Active, Ended, repository, choice, copying, observed
<1>1. ASSUME NEW version \in Versions \cup {None}, Begin(version) PROVE Types'
  <2>1. floor' \in Versions \cup {0}
    BY <1>1, FloorType DEF Begin
  <2>2. <<>> \in Seq(SUBSET Packages) /\ Len(<<>>) = 0
    OBVIOUS
  <2>3. begun' \in 0 .. MaxBegin
    BY <1>1 DEF Begin
  <2>4. /\ pc' = "index" /\ pin' = version /\ arch' = 1 /\ form' = "gz" /\ candidates' = <<>>
        /\ left' = {} /\ writing' = None /\ missed' = FALSE
        /\ UNCHANGED <<repository, out>>
    BY <1>1 DEF Begin
  <2>5. QED
    <3>1. /\ arch' \in DOMAIN architectures /\ form' \in Forms /\ pin' \in Versions \cup {None}
          /\ candidates' \in Seq(SUBSET Packages) /\ Len(candidates') = 0
      BY <2>2, <2>4, Architectures DEF Forms
    <3>2. Reading'
      BY <2>4, <3>1
    <3>3. /\ pool' \in [Versions -> Packages \cup {NoFile}]
          /\ index' \in [DOMAIN index' -> SUBSET Packages] /\ DOMAIN index' \in Layouts
          /\ out' \in [Files -> Packages \cup {NoFile, Partial}]
          /\ published' \in 0 .. MaxPublish
      BY <2>4
    <3>4. left' \subseteq Files /\ writing' \in left' \cup {None} /\ missed' \in BOOLEAN
      BY <2>4
    <3>5. Len(candidates') <= Len(architectures)
      BY <3>1, Architectures
    <3>6. QED
      BY <2>1, <2>3, <2>4, <3>1, <3>2, <3>3, <3>4, <3>5
<1>2. CASE ReadIndex
  <2>1. index[here] \in SUBSET Packages
    BY <1>2 DEF ReadIndex
  <2>2. /\ candidates' \in Seq(SUBSET Packages) /\ Len(candidates') = Len(candidates) + 1
        /\ Len(candidates) \in Nat
    BY <1>2, <2>1 DEF ReadIndex
  <2>3. CASE arch < Len(architectures)
    BY <1>2, <2>2, <2>3, Architectures DEF ReadIndex, NextArchitecture, Forms
  <2>4. CASE ~(arch < Len(architectures))
    BY <1>2, <2>2, <2>4, Architectures DEF ReadIndex, NextArchitecture
  <2>5. QED
    BY <2>3, <2>4
<1>3. CASE IndexRefused \/ IndexUnreachable
  <2>1. /\ pc = "index" /\ missed' \in BOOLEAN
        /\ UNCHANGED <<repository, out, choice, copying, begun, floor>>
    BY <1>3 DEF IndexRefused, IndexUnreachable
  <2>2. Found' = Found
    BY <2>1 DEF Found
  <2>3. /\ arch' \in DOMAIN architectures /\ form' \in Forms
        /\ pc' \in {"index", "choose"} /\ (pc' = "index" => arch' >= arch)
    BY <1>3, Architectures DEF IndexRefused, IndexUnreachable, NextArchitecture, Forms
  <2>4. QED
    BY <2>1, <2>2, <2>3, Architectures
<1>4. CASE Choose
  <2>1. /\ pc = "choose" /\ Found' = Found
        /\ UNCHANGED <<repository, out, arch, form, pin, candidates, copying, observed>>
    BY <1>4 DEF Choose, Found
  <2>2. CASE NotFound
    BY <1>4, <2>1, <2>2 DEF Choose
  <2>3. CASE ~NotFound
    <3>1. PICK p \in Found : pin = None \/ VersionOf[p] = pin
      BY <2>3 DEF NotFound
    <3>2. pkg' = (IF pin = None THEN Highest ELSE FirstOf(pin)) /\ pc' = "open"
      BY <1>4, <2>3 DEF Choose
    <3>3. pkg' \in Found /\ (pin # None => VersionOf[pkg'] = pin)
      <4>1. CASE pin = None
        BY <3>1, <3>2, <4>1, HighestFinds
      <4>2. CASE pin # None
        BY <3>1, <3>2, <4>2, FirstOfFinds
      <4>3. QED
        BY <4>1, <4>2
    <3>4. QED
      BY <2>1, <3>2, <3>3
  <2>4. QED
    BY <2>2, <2>3
<1>5. CASE OpenPackage \/ Verify
  <2>1. Found' = Found
    BY <1>5 DEF OpenPackage, Verify, Found
  <2>2. QED
    BY <1>5, <2>1 DEF OpenPackage, Verify
<1>6. CASE Extract
  <2>1. Found' = Found
    BY <1>6 DEF Extract, Found
  <2>2. held = pkg /\ pkg \in Packages
    BY <1>6, FoundPackages DEF Extract
  <2>3. Carries[held] \subseteq Files
    BY <2>2 DEF Files, Range
  <2>4. QED
    BY <1>6, <2>1, <2>3 DEF Extract
<1>7. ASSUME NEW f \in left, CopyCreate(f) PROVE Types'
  <2>1. Found' = Found
    BY <1>7 DEF CopyCreate, Found
  <2>2. out' \in [Files -> Packages \cup {NoFile, Partial}]
    BY <1>7 DEF CopyCreate
  <2>3. QED
    BY <1>7, <2>1, <2>2 DEF CopyCreate
<1>8. CASE CopyEnd
  <2>1. Found' = Found
    BY <1>8 DEF CopyEnd, Found
  <2>2. held \in Packages
    BY <1>8, FoundPackages DEF CopyEnd
  <2>3. out' \in [Files -> Packages \cup {NoFile, Partial}]
    BY <1>8, <2>2 DEF CopyEnd
  <2>4. QED
    BY <1>8, <2>1, <2>3 DEF CopyEnd
<1>9. CASE Failure \/ Kill
  <2>1. Found' = Found
    BY <1>9 DEF Failure, Kill, Found
  <2>2. QED
    BY <1>9, <2>1 DEF Failure, Kill
<1>10. QED
  BY <1>1, <1>2, <1>3, <1>4, <1>5, <1>6, <1>7, <1>8, <1>9 DEF Run

LEMMA TypesStep == Types /\ [Next]_vars => Types'
<1>1. ASSUME Types, UNCHANGED vars PROVE Types'
  BY <1>1 DEF vars, Types, TypeOK, Reading, Found, repository, choice, copying, observed
<1>2. QED
  BY <1>1, PublishTypes, RunTypes DEF Next

LEMMA TypesInit == Init => Types
<1> SUFFICES ASSUME Init PROVE Types
  OBVIOUS
<1>1. PICK served \in Layouts : index = [x \in served |-> {}]
  BY DEF Init
<1>2. index \in [DOMAIN index -> SUBSET Packages] /\ DOMAIN index \in Layouts
  BY <1>1
<1>3. <<>> \in Seq(SUBSET Packages) /\ Len(<<>>) = 0
  OBVIOUS
<1>4. /\ pool \in [Versions -> Packages \cup {NoFile}]
      /\ out \in [Files -> Packages \cup {NoFile, Partial}]
      /\ published \in 0 .. MaxPublish /\ begun \in 0 .. MaxBegin
  BY DEF Init
<1>5. arch \in DOMAIN architectures /\ Len(candidates) <= Len(architectures)
  BY <1>3, Architectures DEF Init
<1>6. QED
  BY <1>2, <1>3, <1>4, <1>5 DEF Init, Types, TypeOK, Reading, Active, Ended, Forms

(* What a step of the publisher, or none, leaves alone. *)
LEMMA OutsideStep ==
  ASSUME Publish \/ UNCHANGED vars
  PROVE  UNCHANGED <<out, pc, arch, form, pin, candidates, pkg, held, left, writing, missed, floor>>
  BY DEF Publish, Upload, List, vars, choice, copying, observed

(* An entry without a digest is refused before anything is downloaded. *)
LEMMA DigestStep == EntryHasDigest /\ [Next]_vars => EntryHasDigest'
<1> SUFFICES ASSUME EntryHasDigest, [Next]_vars PROVE EntryHasDigest'
  OBVIOUS
<1>1. CASE Run
  BY <1>1 DEF EntryHasDigest, Run, Begin, ReadIndex, IndexRefused, IndexUnreachable,
     NextArchitecture, Choose, OpenPackage, Verify, Extract, CopyCreate, CopyEnd, Failure, Kill,
     choice, copying
<1>2. CASE Publish \/ UNCHANGED vars
  BY <1>2, OutsideStep DEF EntryHasDigest
<1>3. QED
  BY <1>1, <1>2 DEF Next

(* A file that is copied is whole when it is struck off the list. *)
LEMMA CopiedStep == Types /\ CopiedSoFar /\ [Next]_vars => CopiedSoFar'
<1> SUFFICES ASSUME Types, CopiedSoFar, [Next]_vars PROVE CopiedSoFar'
  OBVIOUS
<1>1. CASE Extract
  BY <1>1 DEF Extract, CopiedSoFar, Types, TypeOK, choice
<1>2. ASSUME NEW f \in left, CopyCreate(f) PROVE CopiedSoFar'
  BY <1>2 DEF CopyCreate, CopiedSoFar, Types, TypeOK, choice
<1>3. CASE CopyEnd
  BY <1>3 DEF CopyEnd, CopiedSoFar, Types, TypeOK, choice
<1>4. ASSUME NEW version \in Versions \cup {None}, Begin(version) PROVE pc' # "copy"
  BY <1>4 DEF Begin
<1>5. CASE ReadIndex \/ IndexRefused \/ IndexUnreachable \/ Choose \/ OpenPackage \/ Verify
  <2>1. pc' # "copy"
    BY <1>5 DEF ReadIndex, IndexRefused, IndexUnreachable, NextArchitecture, Choose, OpenPackage, Verify
  <2>2. QED
    BY <2>1 DEF CopiedSoFar
<1>6. CASE Failure \/ Kill
  BY <1>6 DEF Failure, Kill, CopiedSoFar
<1>7. CASE Publish \/ UNCHANGED vars
  BY <1>7, OutsideStep DEF CopiedSoFar
<1>8. QED
  BY <1>1, <1>2, <1>3, <1>4, <1>5, <1>6, <1>7 DEF CopiedSoFar, Next, Run

-----------------------------------------------------------------------------
(* The publisher lists no version out of an index. *)
LEMMA VersionsStayListed ==
  ASSUME Types, Publish
  PROVE  /\ DOMAIN index' = DOMAIN index
         /\ \A x \in DOMAIN index : \A p \in index[x] : \E q \in index'[x] : VersionOf[q] = VersionOf[p]
<1>1. ASSUME NEW p \in Packages, Upload(p) PROVE index' = index
  BY <1>1 DEF Upload
<1>2. ASSUME NEW p \in Packages, NEW y \in DOMAIN index, List(y, p)
      PROVE  /\ DOMAIN index' = DOMAIN index
             /\ \A x \in DOMAIN index : \A q \in index[x] : \E s \in index'[x] : VersionOf[s] = VersionOf[q]
  <2>1. index' = [index EXCEPT ![y] = {q \in @ : VersionOf[q] # VersionOf[p]} \cup {p}]
    BY <1>2 DEF List
  <2>2. /\ \A x \in DOMAIN index : x # y => index'[x] = index[x]
        /\ index'[y] = {q \in index[y] : VersionOf[q] # VersionOf[p]} \cup {p}
        /\ DOMAIN index' = DOMAIN index
    BY <2>1
  <2>3. QED
    BY <2>2
<1>3. QED
  BY <1>1, <1>2 DEF Publish

(* The floor stays in reach of the walk over the indexes. *)
LEMMA FloorStep == Inv /\ [Next]_vars => FloorIsFound'
<1> SUFFICES ASSUME Inv, [Next]_vars PROVE FloorIsFound'
  OBVIOUS
<1> USE DEF Inv
<1>0. Types /\ Types'
  BY TypesStep
<1>1. ASSUME NEW version \in Versions \cup {None}, Begin(version) PROVE FloorIsFound'
  <2>1. /\ pc' = "index" /\ arch' = 1 /\ form' = "gz" /\ index' = index
        /\ floor' = Maximum(Findable \cup {0})
    BY <1>1 DEF Begin, repository
  <2>2. ASSUME floor' # 0 PROVE FloorAhead'
    <3>1. floor' \in Findable
      BY <1>0, <2>1, <2>2, FloorType
    <3>2. PICK x \in DOMAIN index : /\ x[2] = "gz" \/ <<x[1], "gz">> \notin DOMAIN index
                                    /\ \E p \in index[x] : VersionOf[p] = floor'
      BY <3>1 DEF Findable
    <3>3. x \in Range(architectures) \X Forms
      BY <1>0 DEF Types, TypeOK
    <3>4. \E n \in DOMAIN architectures : x[1] = architectures[n]
      BY <3>3 DEF Range
    <3>5. \E n \in DOMAIN architectures : x[1] = architectures[n] /\ (n > 1 \/ n = 1)
      BY <3>4, Architectures
    <3>6. Unread(x)' /\ Preferred(x)' /\ ListsFloor(index[x])'
      BY <2>1, <3>2, <3>5 DEF Unread, Preferred, ListsFloor
    <3>7. QED
      BY <2>1, <3>6 DEF FloorAhead
  <2>3. QED
    BY <2>1, <2>2 DEF FloorIsFound
<1>2. CASE ReadIndex
  <2>1. /\ pc = "index" /\ here \in DOMAIN index /\ index[here] \in SUBSET Packages
        /\ candidates' = Append(candidates, index[here]) /\ NextArchitecture
        /\ UNCHANGED <<index, missed, floor, pin, pkg>>
    BY <1>0, <1>2 DEF ReadIndex, Types, TypeOK, repository, observed
  <2>2. Found' = Found \cup index[here]
    BY <1>0, <2>1, FoundGrows DEF Types, TypeOK
  <2>3. pc' \in {"index", "choose"}
    BY <2>1 DEF NextArchitecture
  <2>4. ASSUME ~missed', floor' # 0
        PROVE  ListsFloor(Found)' \/ (pc' = "index" /\ FloorAhead')
    <3>1. CASE ListsFloor(Found)
      BY <2>1, <2>2, <3>1 DEF ListsFloor
    <3>2. CASE FloorAhead
      <4>1. PICK x \in DOMAIN index : Preferred(x) /\ Unread(x) /\ ListsFloor(index[x])
        BY <3>2 DEF FloorAhead
      <4>2. CASE x = here
        BY <2>1, <2>2, <4>1, <4>2 DEF ListsFloor
      <4>3. CASE x # here
        <5>1. x = <<x[1], x[2]>> /\ x[2] \in Forms
          BY <1>0 DEF Types, TypeOK
        <5>2. x[1] # architectures[arch] \/ x[2] # form
          BY <4>3, <5>1 DEF here
        <5>3. \E n \in DOMAIN architectures : x[1] = architectures[n] /\ n > arch
          BY <2>1, <4>1, <5>1, <5>2 DEF Unread, Preferred, here, Forms
        <5>4. arch < Len(architectures) /\ arch' = arch + 1 /\ form' = "gz" /\ pc' = "index"
          BY <1>0, <2>1, <5>3, Architectures DEF NextArchitecture, Types, TypeOK
        <5>5. \E n \in DOMAIN architectures : x[1] = architectures[n] /\ (n > arch' \/ n = arch')
          BY <1>0, <5>3, <5>4, Architectures DEF Types, TypeOK
        <5>6. Unread(x)' /\ Preferred(x)' /\ ListsFloor(index[x])'
          BY <2>1, <4>1, <5>4, <5>5 DEF Unread, Preferred, ListsFloor
        <5>7. QED
          BY <2>1, <5>4, <5>6 DEF FloorAhead
      <4>4. QED
        BY <4>2, <4>3
    <3>3. QED
      BY <2>1, <2>4, <3>1, <3>2 DEF FloorIsFound
  <2>5. QED
    BY <2>3, <2>4 DEF FloorIsFound
<1>3. CASE IndexRefused \/ IndexUnreachable
  <2>1. pc = "index" /\ UNCHANGED <<index, candidates, pin, pkg, floor>>
    BY <1>3 DEF IndexRefused, IndexUnreachable, repository, choice
  <2>2. Found' = Found
    BY <2>1 DEF Found
  <2>3. pc' \in {"index", "choose"}
    BY <1>3 DEF IndexRefused, IndexUnreachable, NextArchitecture
  <2>4. ASSUME ~missed', floor' # 0
        PROVE  ListsFloor(Found)' \/ (pc' = "index" /\ FloorAhead')
    <3>1. ~missed
      BY <1>3, <2>4 DEF IndexRefused, IndexUnreachable
    <3>2. CASE ListsFloor(Found)
      BY <2>1, <2>2, <3>2 DEF ListsFloor
    <3>3. CASE FloorAhead
      <4>1. PICK x \in DOMAIN index : Preferred(x) /\ Unread(x) /\ ListsFloor(index[x])
        BY <3>3 DEF FloorAhead
      <4>2. x = <<x[1], x[2]>> /\ x[2] \in Forms
        BY <1>0 DEF Types, TypeOK
      <4>3. PICK n \in DOMAIN architectures :
              x[1] = architectures[n] /\ (n > arch \/ (n = arch /\ (form = "gz" \/ x[2] = form)))
        BY <4>1 DEF Unread
      <4>4. CASE IndexRefused /\ form = "gz"
        <5>1. form' = "plain" /\ arch' = arch /\ pc' = "index" /\ here \notin DOMAIN index
          BY <2>1, <2>4, <4>4 DEF IndexRefused
        <5>2. n = arch => x[2] = "plain"
          BY <4>2, <4>3, <4>4, <5>1 DEF here, Forms
        <5>3. Unread(x)' /\ Preferred(x)' /\ ListsFloor(index[x])'
          BY <2>1, <4>1, <4>3, <5>1, <5>2 DEF Unread, Preferred, ListsFloor
        <5>4. QED
          BY <2>1, <5>1, <5>3 DEF FloorAhead
      <4>5. CASE ~(IndexRefused /\ form = "gz")
        <5>1. NextArchitecture
          BY <1>3, <4>5 DEF IndexRefused, IndexUnreachable
        <5>2. n # arch
          <6> SUFFICES ASSUME n = arch PROVE FALSE
            OBVIOUS
          <6>1. CASE IndexRefused
            <7>1. form # "gz" /\ x[2] = form
              BY <1>0, <4>3, <4>5, <6>1, Architectures DEF Types, TypeOK
            <7>2. x = here
              BY <4>2, <4>3, <7>1 DEF here
            <7>3. QED
              BY <2>4, <6>1, <7>2 DEF IndexRefused
          <6>2. CASE IndexUnreachable
            BY <2>4, <4>3, <6>2 DEF IndexUnreachable
          <6>3. QED
            BY <1>3, <6>1, <6>2
        <5>3. arch < Len(architectures) /\ arch' = arch + 1 /\ form' = "gz" /\ pc' = "index" /\ n >= arch'
          BY <1>0, <2>1, <4>3, <5>1, <5>2, Architectures DEF NextArchitecture, Types, TypeOK
        <5>4. n > arch' \/ n = arch'
          BY <1>0, <5>3, Architectures DEF Types, TypeOK
        <5>5. Unread(x)' /\ Preferred(x)' /\ ListsFloor(index[x])'
          BY <2>1, <4>1, <4>3, <5>3, <5>4 DEF Unread, Preferred, ListsFloor
        <5>6. QED
          BY <2>1, <5>3, <5>5 DEF FloorAhead
      <4>6. QED
        BY <4>4, <4>5
    <3>4. QED
      BY <2>1, <2>4, <3>1, <3>2, <3>3 DEF FloorIsFound
  <2>5. QED
    BY <2>3, <2>4 DEF FloorIsFound
<1>4. CASE Choose
  <2>1. pc = "choose" /\ UNCHANGED <<pin, missed, floor>>
    BY <1>4 DEF Choose, observed
  <2>2. CASE NotFound
    BY <1>4, <2>1, <2>2 DEF Choose, FloorIsFound
  <2>3. CASE ~NotFound
    <3>1. pc' = "open" /\ pkg' = (IF pin = None THEN Highest ELSE FirstOf(pin)) /\ Found # {}
      BY <1>4, <2>3 DEF Choose, NotFound
    <3>2. ASSUME pin = None, ~missed PROVE VersionOf[pkg'] >= floor
      <4>1. pkg' \in Found /\ \A p \in Found : VersionOf[p] <= VersionOf[pkg']
        BY <1>0, <3>1, <3>2, HighestFinds DEF Types, TypeOK
      <4>2. VersionOf[pkg'] \in Nat
        BY <1>0, <4>1, FoundPackages DEF Types, TypeOK
      <4>3. CASE floor = 0
        BY <4>2, <4>3
      <4>4. CASE floor # 0
        <5>1. ListsFloor(Found)
          BY <2>1, <3>2, <4>4 DEF FloorIsFound
        <5>2. floor \in Nat
          BY <1>0, VersionsFinite DEF Types, TypeOK
        <5>3. QED
          BY <4>1, <4>2, <5>1, <5>2 DEF ListsFloor
      <4>5. QED
        BY <4>3, <4>4
    <3>3. QED
      BY <2>1, <3>1, <3>2 DEF FloorIsFound
  <2>4. QED
    BY <2>2, <2>3
<1>5. ASSUME OpenPackage \/ Verify \/ Extract \/ (\E f \in left : CopyCreate(f)) \/ CopyEnd
             \/ Failure \/ Kill
      PROVE  FloorIsFound'
  <2>1. /\ UNCHANGED <<pin, pkg, missed, floor>> /\ pc' \notin {"index", "choose"}
        /\ pc' \in {"open", "verify", "extract", "copy", "ok"} => pc \in {"open", "verify", "extract", "copy"}
    BY <1>5 DEF OpenPackage, Verify, Extract, CopyCreate, CopyEnd, Failure, Kill, choice, observed
  <2>2. QED
    BY <2>1 DEF FloorIsFound
<1>6. CASE Publish
  <2>1. UNCHANGED <<pc, arch, form, pin, candidates, pkg, missed, floor>>
    BY <1>6, OutsideStep
  <2>2. Found' = Found
    BY <2>1 DEF Found
  <2>3. FloorAhead => FloorAhead'
    <3> SUFFICES ASSUME NEW x \in DOMAIN index, Preferred(x), Unread(x), ListsFloor(index[x])
                 PROVE  FloorAhead'
      BY DEF FloorAhead
    <3>1. x \in DOMAIN index' /\ Preferred(x)' /\ Unread(x)'
      BY <1>0, <1>6, <2>1, VersionsStayListed DEF Preferred, Unread
    <3>2. \E q \in index'[x] : VersionOf[q] = floor'
      BY <1>0, <1>6, <2>1, VersionsStayListed DEF ListsFloor
    <3>3. QED
      BY <3>1, <3>2 DEF FloorAhead, ListsFloor
  <2>4. QED
    BY <2>1, <2>2, <2>3 DEF FloorIsFound, ListsFloor
<1>7. CASE UNCHANGED vars
  BY <1>7 DEF vars, FloorIsFound, FloorAhead, ListsFloor, Preferred, Unread, Found,
     repository, choice, observed
<1>8. QED
  BY <1>1, <1>2, <1>3, <1>4, <1>5, <1>6, <1>7 DEF Next, Run

-----------------------------------------------------------------------------
(* The inductive invariant holds in every state. *)
THEOREM Invariance == Spec => []Inv
<1>1. Init => Inv
  <2>1. ASSUME Init PROVE EntryHasDigest /\ CopiedSoFar /\ FloorIsFound
    BY <2>1 DEF Init, EntryHasDigest, CopiedSoFar, FloorIsFound
  <2>2. QED
    BY <2>1, TypesInit DEF Inv
<1>2. Inv /\ [Next]_vars => Inv'
  BY TypesStep, DigestStep, CopiedStep, FloorStep DEF Inv
<1>3. QED
  BY <1>1, <1>2, PTL DEF Spec

(* Type correctness: from Download on there is an entry, found in an index  *)
(* and of the version asked for, and from Extract on the package is the one *)
(* of the entry.                                                            *)
THEOREM TypeCorrect == Spec => []TypeOK
<1>1. Inv => TypeOK
  BY DEF Inv, Types
<1>2. QED
  BY <1>1, Invariance, PTL

(* The highest version is chosen by a run that could read every index: it  *)
(* does not fall behind what they listed when it began, while the publisher *)
(* goes on (apt.Resolve).                                                  *)
THEOREM ChoosesHighest == Spec => []HighestUnlessMissed
<1>1. Inv => HighestUnlessMissed
  BY DEF Inv, FloorIsFound, HighestUnlessMissed
<1>2. QED
  BY <1>1, Invariance, PTL

(* A run that reports success has every configuration file of the package *)
(* whole in --out, whatever runs before it left there (copyConfigFiles).  *)
THEOREM ProvisionsWhole == Spec => ProvisionedIsWhole
<1>1. ASSUME Inv, [Next]_vars, pc # "ok", pc' = "ok"
      PROVE  \A f \in Carries[pkg] : out'[f] = pkg
  <2>1. CopyEnd
    BY <1>1, OutsideStep DEF Next, Run, Begin, ReadIndex, IndexRefused, IndexUnreachable,
       NextArchitecture, Choose, OpenPackage, Verify, Extract, CopyCreate, Failure, Kill, Active
  <2>2. /\ pc = "copy" /\ held = pkg /\ out \in [Files -> Packages \cup {NoFile, Partial}]
        /\ writing \in Files /\ left' = {}
    BY <1>1, <2>1 DEF CopyEnd, Inv, Types, TypeOK
  <2>3. \A f \in Carries[pkg] \ left : out[f] = pkg
    BY <1>1, <2>2 DEF Inv, CopiedSoFar
  <2>4. pkg \in Packages
    BY <1>1, <2>2, FoundPackages DEF Inv, Types, TypeOK
  <2>5. Carries[pkg] \subseteq Files
    BY <2>4 DEF Files, Range
  <2>6. out' = [out EXCEPT ![writing] = pkg] /\ left \subseteq {writing}
    BY <2>1, <2>2 DEF CopyEnd
  <2>7. QED
    BY <2>2, <2>3, <2>5, <2>6
<1>2. Inv /\ [Next]_vars => [pc # "ok" /\ pc' = "ok" => \A f \in Carries[pkg] : out'[f] = pkg]_vars
  BY <1>1
<1>3. QED
  BY <1>2, Invariance, PTL DEF Spec, ProvisionedIsWhole

(* A file of --out changes only to be truncated or to get its bytes from a *)
(* package that an index of this run lists with its digest (apt.Download). *)
THEOREM WritesVerifiedBytes == Spec => OnlyVerifiedBytes
<1>1. ASSUME Inv, [Next]_vars, NEW f \in Files, out'[f] # out[f], out'[f] # Partial
      PROVE  out'[f] \in Found \ Undigested
  <2>1. out \in [Files -> Packages \cup {NoFile, Partial}]
    BY <1>1 DEF Inv, Types, TypeOK
  <2>2. ASSUME NEW g \in left, CopyCreate(g) PROVE FALSE
    BY <1>1, <2>1, <2>2 DEF CopyCreate
  <2>3. CopyEnd
    BY <1>1, <2>2, OutsideStep DEF Next, Run, Begin, ReadIndex, IndexRefused, IndexUnreachable,
       NextArchitecture, Choose, OpenPackage, Verify, Extract, Failure, Kill
  <2>4. pc = "copy" /\ out' = [out EXCEPT ![writing] = held]
    BY <2>3 DEF CopyEnd, Inv, Types, Reading
  <2>5. held = pkg /\ pkg \in Found \ Undigested
    BY <1>1, <2>4 DEF Inv, Types, TypeOK, EntryHasDigest
  <2>6. QED
    BY <1>1, <2>1, <2>4, <2>5
<1>2. Inv /\ [Next]_vars =>
        [\A f \in Files : out'[f] # out[f] /\ out'[f] # Partial => out'[f] \in Found \ Undigested]_vars
  BY <1>1
<1>3. QED
  BY <1>2, Invariance, PTL DEF Spec, OnlyVerifiedBytes
=============================================================================
