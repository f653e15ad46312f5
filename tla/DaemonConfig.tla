---------------------------- MODULE DaemonConfig ----------------------------
(***************************************************************************)
(* "mina-provision daemon-config" with a Debian repository (cmd/config.go, *)
(* internal/apt): it reads the indexes of the architectures, picks an      *)
(* entry, downloads the package, compares it with the digest of the entry  *)
(* and copies the configuration files out of it, while the publisher of    *)
(* the repository goes on. It is run again and again on one --out.         *)
(*                                                                         *)
(* A package stands for its bytes, so an entry of an index is the package  *)
(* it was made for. Versions are numbers: DebianVersion has their order. A *)
(* file keeps its own name wherever it is in the package.                  *)
(***************************************************************************)
EXTENDS Integers, Sequences, FiniteSets, Functions

CONSTANTS
  Packages,   \* builds of the package
  VersionOf,  \* the version of each; a version can be built again
  Carries,    \* the configuration files in each
  Undigested, \* those that an index lists without a SHA256
  Layouts,    \* sets of <<architecture, form>>: the indexes a repository has
  None, NoFile, Partial,
  MaxPublish, \* bound: operations of the publisher
  MaxBegin    \* bound: runs

architectures == <<"all", "amd64">>
Forms == {"gz", "plain"}

ASSUME PackagesAssumption ==
  /\ IsFiniteSet(Packages)
  /\ VersionOf \in [Packages -> Nat] /\ DOMAIN Carries = Packages
  /\ Undigested \subseteq Packages
  /\ {None, NoFile, Partial} \cap Packages = {} /\ NoFile # Partial
  /\ None \notin Nat

ASSUME LayoutsAssumption ==
  /\ \A served \in Layouts : served \subseteq Range(architectures) \X Forms
  /\ MaxPublish \in Nat /\ MaxBegin \in Nat

Versions == Range(VersionOf)
Files    == UNION Range(Carries)

VARIABLES
  pool,        \* version -> the package the repository serves
  index,       \* <<architecture, form>> -> the entries it lists
  out,         \* the --out directory: file -> the package it came from
  pc,          \* where the run is
  pin,         \* its --version
  arch, form,  \* the index it is about to read
  candidates,  \* entries found, by architecture in the order tried
  pkg,         \* the entry picked
  held,        \* the package downloaded
  left,        \* files still to copy
  writing,     \* the file being copied
  published, begun, \* counters of the bounds
  missed,      \* observation: an index that is there was passed over
  floor        \* observation: the highest version to be found when the run began

repository == <<pool, index, published>>
choice     == <<pin, candidates, pkg>>
copying    == <<held, left, writing>>
observed   == <<begun, missed, floor>>

vars == <<repository, out, pc, arch, form, choice, copying, observed>>

Active == {"index", "choose", "open", "verify", "extract", "copy"}
Ended  == {"idle", "ok", "err", "killed"}

Maximum(s) == CHOOSE m \in s : \A n \in s : n <= m

Init ==
  /\ \E served \in Layouts : index = [x \in served |-> {}]
  /\ pool = [v \in Versions |-> NoFile]
  /\ out = [f \in Files |-> NoFile]
  /\ pc = "idle" /\ pin = None
  /\ arch = 1 /\ form = "gz" /\ candidates = <<>> /\ pkg = None
  /\ held = None /\ left = {} /\ writing = None
  /\ published = 0 /\ begun = 0
  /\ missed = FALSE /\ floor = 0

-----------------------------------------------------------------------------
(* The publisher puts a package in the pool and then lists it in one index  *)
(* after the other, over the entry of an earlier build; it withdraws none.  *)
Upload(p) ==
  /\ published < MaxPublish
  /\ pool[VersionOf[p]] # p
  /\ pool' = [pool EXCEPT ![VersionOf[p]] = p]
  /\ published' = published + 1
  /\ UNCHANGED <<index, out, pc, arch, form, choice, copying, observed>>

List(x, p) ==
  /\ published < MaxPublish
  /\ pool[VersionOf[p]] = p /\ p \notin index[x]
  /\ index' = [index EXCEPT ![x] = {q \in @ : VersionOf[q] # VersionOf[p]} \cup {p}]
  /\ published' = published + 1
  /\ UNCHANGED <<pool, out, pc, arch, form, choice, copying, observed>>

-----------------------------------------------------------------------------
(* The versions that reading the preferred form of every index would find. *)
Findable ==
  {VersionOf[p] : p \in UNION {index[x] : x \in {y \in DOMAIN index :
                                 y[2] = "gz" \/ <<y[1], "gz">> \notin DOMAIN index}}}

(* runConfig and configFromPackage up to apt.Resolve. *)
Begin(version) ==
  /\ pc \in Ended /\ begun < MaxBegin
  /\ pc' = "index" /\ pin' = version
  /\ arch' = 1 /\ form' = "gz"
  /\ candidates' = <<>> /\ pkg' = None
  /\ held' = None /\ left' = {} /\ writing' = None
  /\ begun' = begun + 1
  /\ missed' = FALSE
  /\ floor' = Maximum(Findable \cup {0})
  /\ UNCHANGED <<repository, out>>

here == <<architectures[arch], form>>

(* The loop of Resolve goes on with the next architecture. *)
NextArchitecture ==
  IF arch < Len(architectures) THEN arch' = arch + 1 /\ form' = "gz" /\ pc' = pc
                               ELSE pc' = "choose" /\ UNCHANGED <<arch, form>>

(* fetchIndex and parsePackages. *)
ReadIndex ==
  /\ pc = "index" /\ here \in DOMAIN index
  /\ candidates' = Append(candidates, index[here])
  /\ NextArchitecture
  /\ UNCHANGED <<repository, out, pin, pkg, copying, observed>>

(* fetchIndex: a response that is not 200, because the index is not there   *)
(* or because the server fails; the next form is tried, if there is one.    *)
IndexRefused ==
  /\ pc = "index"
  /\ IF form = "gz" THEN form' = "plain" /\ UNCHANGED <<arch, pc>>
                    ELSE NextArchitecture
  /\ missed' = (missed \/ here \in DOMAIN index)
  /\ UNCHANGED <<repository, out, choice, copying, begun, floor>>

(* fetchIndex returns an error: the request failed, or what came is not     *)
(* gzip. Resolve logs it and goes on; the plain form is not tried.          *)
IndexUnreachable ==
  /\ pc = "index"
  /\ NextArchitecture
  /\ missed' = (missed \/ \E x \in DOMAIN index : x[1] = architectures[arch])
  /\ UNCHANGED <<repository, out, choice, copying, begun, floor>>

Found == UNION Range(candidates)

(* The first candidate of a version. *)
FirstOf(version) ==
  LET listing(n) == {p \in candidates[n] : VersionOf[p] = version}
      first == CHOOSE n \in DOMAIN candidates :
                 listing(n) # {} /\ \A m \in 1 .. n - 1 : listing(m) = {}
  IN CHOOSE p \in listing(first) : TRUE

(* Mutant: the last architecture that lists anything is believed. *)
HighestOfLast ==
  LET last == CHOOSE n \in DOMAIN candidates : candidates[n] # {} /\
                \A m \in n + 1 .. Len(candidates) : candidates[m] = {}
  IN FirstOf(Maximum({VersionOf[p] : p \in candidates[last]}))

Highest == FirstOf(Maximum({VersionOf[p] : p \in Found}))

(* Resolve: nothing found, or not the version that was asked for. *)
NotFound == \A p \in Found : pin # None /\ VersionOf[p] # pin

(* Mutant: the pinned version is not looked for before it is taken. *)
ChooseAnyway ==
  /\ pc = "choose"
  /\ pkg' = (IF NotFound THEN None ELSE IF pin = None THEN Highest ELSE FirstOf(pin))
  /\ pc' = "open"
  /\ UNCHANGED <<repository, out, arch, form, pin, candidates, copying, observed>>

(* Resolve after its loop. *)
Choose ==
  /\ pc = "choose"
  /\ IF NotFound
       THEN pc' = "err" /\ UNCHANGED pkg
       ELSE pkg' = (IF pin = None THEN Highest ELSE FirstOf(pin)) /\ pc' = "open"
  /\ UNCHANGED <<repository, out, arch, form, pin, candidates, copying, observed>>

(* Download: an entry without a digest is refused; the package is what the *)
(* pool has by now.                                                        *)
OpenPackage ==
  /\ pc = "open"
  /\ IF pkg \in Undigested \/ pool[VersionOf[pkg]] = NoFile
       THEN pc' = "err" /\ UNCHANGED held
       ELSE held' = pool[VersionOf[pkg]] /\ pc' = "verify"
  /\ UNCHANGED <<repository, out, arch, form, choice, left, writing, observed>>

(* Mutant: only the size is compared, and the builds have one size. *)
VerifySize ==
  /\ pc = "verify"
  /\ pc' = "extract"
  /\ UNCHANGED <<repository, out, arch, form, choice, copying, observed>>

(* Download: the size and the digest of the entry. *)
Verify ==
  /\ pc = "verify"
  /\ pc' = IF held = pkg THEN "extract" ELSE "err"
  /\ UNCHANGED <<repository, out, arch, form, choice, copying, observed>>

(* ExtractData, and what copyConfigFiles keeps of it; a package without a *)
(* configuration file is an error.                                        *)
Extract ==
  /\ pc = "extract"
  /\ left' = Carries[held]
  /\ pc' = IF left' = {} THEN "err" ELSE "copy"
  /\ UNCHANGED <<repository, out, arch, form, choice, held, writing, observed>>

(* copyFile: os.Create truncates the file of an earlier run. *)
CopyCreate(f) ==
  /\ pc = "copy" /\ writing = None /\ f \in left
  /\ out' = [out EXCEPT ![f] = Partial]
  /\ writing' = f
  /\ UNCHANGED <<repository, pc, arch, form, choice, held, left, observed>>

CopyEnd ==
  /\ pc = "copy" /\ writing # None
  /\ out' = [out EXCEPT ![writing] = held]
  /\ left' = left \ {writing}
  /\ writing' = None
  /\ pc' = IF left' = {} THEN "ok" ELSE pc
  /\ UNCHANGED <<repository, arch, form, choice, held, observed>>

(* Mutant: a copy that fails is passed over. *)
FailureGoesOn ==
  /\ pc \in Active
  /\ IF writing # None
       THEN left' = left \ {writing} /\ writing' = None
            /\ pc' = IF left' = {} THEN "ok" ELSE pc
       ELSE pc' = "err" /\ UNCHANGED <<left, writing>>
  /\ UNCHANGED <<repository, out, arch, form, choice, held, observed>>

(* Any step fails: parsePackages on a body that breaks off, the transfer,  *)
(* the archive, the disk. An unfinished file stays as it is.               *)
Failure ==
  /\ pc \in Active
  /\ pc' = "err" /\ writing' = None
  /\ UNCHANGED <<repository, out, arch, form, choice, held, left, observed>>

Kill ==
  /\ pc \in Active
  /\ pc' = "killed" /\ writing' = None
  /\ UNCHANGED <<repository, out, arch, form, choice, held, left, observed>>

-----------------------------------------------------------------------------
Publish == \E p \in Packages : Upload(p) \/ \E x \in DOMAIN index : List(x, p)

Run ==
  \/ \E version \in Versions \cup {None} : Begin(version)
  \/ ReadIndex \/ IndexRefused \/ IndexUnreachable \/ Choose
  \/ OpenPackage \/ Verify \/ Extract
  \/ \E f \in left : CopyCreate(f)
  \/ CopyEnd
  \/ Failure \/ Kill

Next == Publish \/ Run

Spec == Init /\ [][Next]_vars

-----------------------------------------------------------------------------
(* The types, and what is known at each place: from Download on there is an *)
(* entry, found in an index and of the version asked for, and from Extract  *)
(* on the package is the one of the entry.                                  *)
TypeOK ==
  /\ pool \in [Versions -> Packages \cup {NoFile}]
  /\ index \in [DOMAIN index -> SUBSET Packages] /\ DOMAIN index \in Layouts
  /\ out \in [Files -> Packages \cup {NoFile, Partial}]
  /\ pc \in Active \cup Ended
  /\ pin \in Versions \cup {None}
  /\ arch \in DOMAIN architectures /\ form \in Forms
  /\ candidates \in Seq(SUBSET Packages) /\ Len(candidates) <= Len(architectures)
  /\ pc \in {"open", "verify", "extract", "copy", "ok"} =>
       /\ pkg \in Found
       /\ pin # None => VersionOf[pkg] = pin
  /\ pc \in {"extract", "copy", "ok"} => held = pkg
  /\ left \subseteq Files /\ writing \in left \cup {None}
  /\ published \in 0 .. MaxPublish /\ begun \in 0 .. MaxBegin
  /\ missed \in BOOLEAN /\ floor \in Versions \cup {0}

(* "Provisioned %s %s into %s": every configuration file of the package is  *)
(* there and whole, whatever earlier runs that failed or were killed left   *)
(* of theirs.                                                               *)
ProvisionedIsWhole ==
  [][pc # "ok" /\ pc' = "ok" => \A f \in Carries[pkg] : out'[f] = pkg]_vars

(* "The SHA256 published in the index is always checked": a file changes    *)
(* only to be truncated or to get its bytes from a package whose digest an  *)
(* index gave this run, though the pool may be ahead of the indexes.        *)
OnlyVerifiedBytes ==
  [][\A f \in Files : out'[f] # out[f] /\ out'[f] # Partial =>
        out'[f] \in Found \ Undigested]_vars

(* README: "With no --version, the highest version is chosen" ... A run     *)
(* that could read every index does not fall behind what they listed when   *)
(* it began, in whichever of them that was.                                 *)
HighestUnlessMissed ==
  pc = "ok" /\ pin = None /\ ~missed => VersionOf[pkg] >= floor

(* ... and the README says it of every run that succeeds. *)
HighestChosen == pc = "ok" /\ pin = None => VersionOf[pkg] >= floor
=============================================================================
