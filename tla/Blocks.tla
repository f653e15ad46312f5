------------------------------- MODULE Blocks -------------------------------
(***************************************************************************)
(* "mina-provision blocks" (cmd/blocks.go): a walk over the heights of     *)
(* --range that lists the names published at each, and then a download of  *)
(* every block found, while the publisher goes on publishing.              *)
(*                                                                         *)
(* A name is a height and a state hash; Other stands for the hash part of  *)
(* a name that does not end in ".json". The numbers are a Go int's, of a   *)
(* width that is a parameter.                                              *)
(***************************************************************************)
EXTENDS Integers, FiniteSets

CONSTANTS
  MaxInt,     \* math.MaxInt
  Cap,        \* maxBlocksPerInvocation
  Threshold,  \* openEndedMissThreshold
  Hashes,     \* state hashes
  Other,      \* not a block
  Open,       \* the end of a range "N-"
  Templates,  \* the order of {height} and {state_hash} in the name template
  MaxNames,   \* bound: names published
  MaxBegin    \* bound: runs

ASSUME NumbersAssumption ==
  /\ MaxInt \in Nat /\ Cap \in Nat \ {0} /\ Threshold \in Nat \ {0}
  /\ MaxNames \in Nat /\ MaxBegin \in Nat

ASSUME NamesAssumption ==
  /\ IsFiniteSet(Hashes) /\ Other \notin Hashes /\ Open \notin Int
  /\ Templates \subseteq {"height_first", "hash_first"}

Heights == 0 .. MaxInt
Names   == [height : Heights, hash : Hashes \cup {Other}]

VARIABLES
  published,  \* the names the publisher serves
  template,   \* the artifact's name template
  files,      \* blocks in the output directory
  pc,         \* where the run is
  start, end, \* its range
  h,          \* the height it is at
  misses,     \* consecutiveMisses
  wanted,     \* blocks it has found
  count,      \* len(wanted), which counts a name as often as it was listed
  left,       \* blocks it has still to fetch
  begun,      \* counter of the bound
  before      \* observation: what was published when the run began

vars == <<published, template, files, pc, start, end, h, misses, wanted, count,
          left, begun, before>>

Active == {"walk", "coverage", "fetch"}
Ended  == {"idle", "ok", "capped", "err"}

openEnded == end = Open

IsBlock(n) == n.hash # Other

Init ==
  /\ published \in {s \in SUBSET Names : Cardinality(s) < MaxNames}
  /\ template \in Templates
  /\ files = {}
  /\ pc = "idle"
  /\ start = 0 /\ end = 0 /\ h = 0 /\ misses = 0
  /\ wanted = {} /\ count = 0 /\ left = {}
  /\ begun = 0
  /\ before = {}

-----------------------------------------------------------------------------
Publish(n) ==
  /\ n \notin published /\ Cardinality(published) < MaxNames
  /\ published' = published \cup {n}
  /\ UNCHANGED <<template, files, pc, start, end, h, misses, wanted, count, left,
                 begun, before>>

(* parseHeight and parseRange; "N" is read as "N-N". *)
maxHeight == MaxInt - 1
ParsesHeight(n) == n \in 0 .. maxHeight

AcceptsRange(low, high) ==
  /\ ParsesHeight(low)
  /\ high # Open => /\ ParsesHeight(high) /\ low <= high
                    /\ high - low < Cap

(* runBlocks up to the walk; a range that is not accepted makes no request. *)
Begin(low, high) ==
  /\ pc \in Ended
  /\ begun < MaxBegin
  /\ begun' = begun + 1
  /\ IF AcceptsRange(low, high)
       THEN /\ pc' = "walk"
            /\ start' = low /\ end' = high /\ h' = low
       ELSE pc' = "err" /\ UNCHANGED <<start, end, h>>
  /\ misses' = 0 /\ wanted' = {} /\ count' = 0 /\ left' = {}
  /\ before' = published
  /\ UNCHANGED <<published, template, files>>

(* provider.Prefix and Source.List: a template that puts the hash first has *)
(* no fixed prefix, whatever the height. In "height_first" a literal that   *)
(* is no digit follows {height}, as in the default; where another field     *)
(* does, which CheckTemplate accepts too, the prefix of 500 is one of 5000. *)
Listed(height) ==
  {n \in published : template = "height_first" => n.height = height}

(* h++ on an int. *)
Successor(n) == IF n = MaxInt THEN -MaxInt - 1 ELSE n + 1

AfterEnd == ~openEnded /\ h > end + 1  \* mutant: the end is not inclusive

(* The loop condition fails. *)
PastEnd == ~openEnded /\ h > end

EndWalk(names) ==
  pc' = (IF openEnded THEN "fetch" ELSE "coverage") /\ left' = names /\ UNCHANGED h

MissesKept(found) == IF openEnded /\ found = {} THEN misses + 1 ELSE misses  \* mutant: no reset

(* Consecutive heights with no block, counted for an open-ended range. *)
Misses(found) == IF openEnded /\ found # {} THEN 0
                 ELSE IF openEnded THEN misses + 1 ELSE misses

(* Mutants: the cap is checked for one kind of range only. *)
CapsOpen(n)   == openEnded /\ n >= Cap
CapsClosed(n) == ~openEnded /\ n >= Cap

OverCap(n) == n >= Cap

LastHeightUnchecked == FALSE  \* mutant: h++ wraps

LastHeight == h = MaxInt

(* One iteration of discoverBlocks: the names of a height are listed, and the *)
(* walk ends on the miss threshold, on the cap or before h++ would wrap.      *)
ListHeight ==
  /\ pc = "walk"
  /\ ~PastEnd
  /\ LET found == {n \in Listed(h) : IsBlock(n)} IN
       /\ wanted' = wanted \cup found
       /\ count' = count + Cardinality(found)
       /\ misses' = Misses(found)
       /\ IF openEnded /\ misses' >= Threshold THEN EndWalk(wanted \cup found)
          ELSE IF OverCap(count') THEN pc' = "capped" /\ UNCHANGED <<h, left>>
          ELSE IF LastHeight      THEN EndWalk(wanted \cup found)
          ELSE h' = Successor(h) /\ UNCHANGED <<pc, left>>
  /\ UNCHANGED <<published, template, files, start, end, begun, before>>

EndOfRange ==
  /\ pc = "walk"
  /\ PastEnd
  /\ EndWalk(wanted)
  /\ UNCHANGED <<published, template, files, start, end, misses, wanted, count, begun, before>>

(* Mutant: no block at all is a warning too. *)
CoverageWarns ==
  /\ pc = "coverage"
  /\ pc' = "fetch"
  /\ UNCHANGED <<published, template, files, start, end, h, misses, wanted, count, left,
                 begun, before>>

(* checkCoverage: missing heights are a warning, no block at all an error. *)
CheckCoverage ==
  /\ pc = "coverage"
  /\ pc' = IF count = 0 THEN "err" ELSE "fetch"
  /\ UNCHANGED <<published, template, files, start, end, h, misses, wanted, count, left,
                 begun, before>>

(* src.Get on the next block of downloadBlocks (module Fetch). *)
GetBlock(n) ==
  /\ pc = "fetch"
  /\ n \in left
  /\ files' = files \cup {n}
  /\ left' = left \ {n}
  /\ UNCHANGED <<published, template, pc, start, end, h, misses, wanted, count, begun, before>>

EndFetch ==
  /\ pc = "fetch"
  /\ left = {}
  /\ pc' = "ok"
  /\ UNCHANGED <<published, template, files, start, end, h, misses, wanted, count, left,
                 begun, before>>

(* A list or a get fails, the context is done, or the process is killed. *)
Fault ==
  /\ pc \in {"walk", "fetch"}
  /\ pc' = "err"
  /\ UNCHANGED <<published, template, files, start, end, h, misses, wanted, count, left,
                 begun, before>>

-----------------------------------------------------------------------------
(* Numbers of a command line: up to one more than an int holds. *)
Inputs == 0 .. MaxInt + 1

Next ==
  \/ \E n \in Names : Publish(n) \/ GetBlock(n)
  \/ \E low \in Inputs, high \in Inputs \cup {Open} : Begin(low, high)
  \/ ListHeight \/ EndOfRange \/ CheckCoverage \/ EndFetch \/ Fault

Spec == Init /\ [][Next]_vars

-----------------------------------------------------------------------------
(* The types of the variables; the heights a run asks for are never negative. *)
TypeOK ==
  /\ published \subseteq Names
  /\ template \in Templates
  /\ files \subseteq Names
  /\ pc \in Active \cup Ended
  /\ start \in Heights /\ end \in Heights \cup {Open} /\ h \in Heights
  /\ misses \in Nat /\ count \in Nat /\ begun \in Nat
  /\ wanted \subseteq Names /\ left \subseteq Names
  /\ before \subseteq Names

InRange(n) == start <= n.height /\ (openEnded \/ n.height <= end)

(* An open-ended range does not reach a block behind Threshold consecutive *)
(* heights with no block.                                                  *)
BehindGap(n) ==
  openEnded /\ \E low \in start .. n.height - Threshold :
                 \A b \in before : IsBlock(b) => b.height \notin low .. low + Threshold - 1

(* A run that succeeds has on disk every block of its range that was         *)
(* published when it began, up to the chain tip for an open-ended range, and *)
(* whatever was published meanwhile and fetched by earlier runs.             *)
FetchesTheRange ==
  pc = "ok" => {n \in before : IsBlock(n) /\ InRange(n) /\ ~BehindGap(n)} \subseteq files

(* README: "--range 500000: the blocks at height 500000", "whatever order the *)
(* template puts them in": nothing else is fetched.                           *)
FetchesOnlyTheRange == \A n \in wanted : InRange(n)

(* README: "A single run fetches at most 50000 blocks", also when a height *)
(* has many.                                                               *)
FetchIsBounded == pc \in {"coverage", "fetch", "ok"} => count <= Cap

(* However sparse the chain and however fast it grows, the cap and the miss *)
(* threshold bound the heights, and so the requests, of one walk.           *)
WalkIsBounded == pc = "walk" => h - start <= Cap * Threshold

(* "fetched 0 with a zero exit status would hide" a wrong range. *)
EmptyRangeFails == pc = "ok" /\ ~openEnded => wanted \cap files # {}
=============================================================================
