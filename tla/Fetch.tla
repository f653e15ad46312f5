------------------------------- MODULE Fetch -------------------------------
(***************************************************************************)
(* Source.Get of internal/source: concurrent runs of mina-provision, each  *)
(* fetching the one object of an artifact to the one path dst they share,  *)
(* while the publisher regenerates the object and its ".sha256" sidecar.   *)
(* The content goes to a temporary file beside dst (internal/atomicfile),  *)
(* is verified there and renamed into place.                               *)
(*                                                                         *)
(* A content is a version the publisher published, or one of three damaged *)
(* ones: Partial (a prefix), Corrupt (the size of the object, other        *)
(* bytes), Torn (a file that was rewritten in place while it was copied).  *)
(* SHA-256 and CRC32C identify a content: a collision is not modelled.     *)
(***************************************************************************)
EXTENDS Naturals

CONSTANTS
  Runs,        \* processes of mina-provision
  Versions,    \* contents the publisher publishes under the object's name
  Partial, Corrupt, Torn,  \* damaged contents
  NoFile,      \* no file at a path
  NoVersion,   \* no object, no sidecar, nothing read yet
  Artifacts,   \* <<its backend, does it say "checksum: sidecar"?>>
  MaxPublish,  \* bound: writes of the publisher
  MaxBegin,    \* bound: calls of Get
  MaxCrash     \* bound: power losses of the host

Damaged  == {Partial, Corrupt, Torn}
Contents == Versions \cup Damaged

ASSUME DistinctContents ==
  /\ Partial # Corrupt /\ Partial # Torn /\ Corrupt # Torn
  /\ Versions \cap Damaged = {}
  /\ NoVersion \notin Contents

ASSUME ArtifactsAssumption == Artifacts \subseteq {"gcs", "http", "file"} \X BOOLEAN

ASSUME BoundsAssumption == MaxPublish \in Nat /\ MaxBegin \in Nat /\ MaxCrash \in Nat

File == [content: Contents, synced: BOOLEAN]

ASSUME NoFileAssumption == NoFile \notin File

VARIABLES
  backend,    \* where the publisher serves the object
  checked,    \* the artifact says "checksum: sidecar"
  object,     \* what the publisher serves under the object's name
  sidecar,    \* the content whose digest "<name>.sha256" holds
  dst,        \* the file at the destination
  dstDisk,    \* the file the destination names after a power loss
  pc,         \* where each run is in its Get
  tmp,        \* each run's temporary file ".<base>.part-*"
  reading,    \* the version each run's open transfer delivers
  want,       \* the checksum each run holds: of the object or of the sidecar
  cancelled,  \* the run's context is done (SIGINT, SIGTERM)
  published, begun, crashes  \* counters of the bounds

(* Observations, which no action of a run depends on. *)
VARIABLES
  accepted,   \* the content a run placed or accepted at dst
  offered,    \* the versions served while the run's Get was under way
  vouched     \* the versions the sidecar named while it was under way

publisherVars == <<backend, checked, object, sidecar, published>>
locals        == <<reading, want, cancelled>>
boundVars     == <<begun, crashes>>
observed      == <<accepted, offered, vouched>>
vars == <<backend, checked, object, sidecar, dst, dstDisk, pc, tmp, reading, want, cancelled,
          published, begun, crashes, accepted, offered, vouched>>

BeforeTemp == {"stat", "compare", "vouch_dst", "hash_dst", "create"}
WithTemp   == {"open", "copy", "vouch", "hash", "ctx", "sync", "close", "rename", "cleanup"}
Active     == BeforeTemp \cup WithTemp \cup {"placed"}
Ended      == {"idle", "ok", "err", "dead"}

(* getVerified is past the check of the context, the last reason of its own *)
(* not to place the file.                                                   *)
Committed == {"sync", "close", "rename", "placed"}

Init ==
  /\ \E a \in Artifacts : backend = a[1] /\ checked = a[2]
  /\ object \in Versions
  /\ sidecar \in {NoVersion} \cup (IF checked THEN {object} ELSE {})
  /\ dst \in {NoFile} \cup [content: Contents \ {Torn}, synced: {TRUE}]
  /\ dstDisk = dst
  /\ pc = [r \in Runs |-> "idle"]
  /\ tmp = [r \in Runs |-> NoFile]
  /\ reading = [r \in Runs |-> NoVersion]
  /\ want = [r \in Runs |-> NoVersion]
  /\ cancelled = [r \in Runs |-> FALSE]
  /\ published = 0 /\ begun = 0 /\ crashes = 0
  /\ accepted = [r \in Runs |-> NoVersion]
  /\ offered = [r \in Runs |-> {}]
  /\ vouched = [r \in Runs |-> {}]

Goto(r, label) == pc' = [pc EXCEPT ![r] = label]

(* The checksum, or the open transfer, that a run is done with. *)
Drop(local, r) == local' = [local EXCEPT ![r] = NoVersion]

(***************************************************************************)
(* The publisher: the object and its sidecar are two objects, written one  *)
(* after the other, in either order. A sidecar nobody reads is left out.   *)
(***************************************************************************)
PublishObject(v) ==
  /\ published < MaxPublish
  /\ object # v /\ object' = v
  /\ published' = published + 1
  /\ offered' = [r \in Runs |-> IF pc[r] \in Active THEN offered[r] \cup {v} ELSE offered[r]]
  /\ UNCHANGED <<backend, checked, sidecar, dst, dstDisk, pc, tmp, locals,
                 boundVars, accepted, vouched>>

PublishSidecar(v) ==
  /\ checked /\ published < MaxPublish
  /\ sidecar # v /\ sidecar' = v
  /\ published' = published + 1
  /\ vouched' = [r \in Runs |-> IF pc[r] \in Active THEN vouched[r] \cup {v} ELSE vouched[r]]
  /\ UNCHANGED <<backend, checked, object, dst, dstDisk, pc, tmp, locals,
                 boundVars, accepted, offered>>

-----------------------------------------------------------------------------
(* Get is called by a new process, or for the same path by a process whose *)
(* last Get succeeded and whose context may be done by now.                *)
Begin(r) ==
  /\ pc[r] \in Ended
  /\ begun < MaxBegin
  /\ begun' = begun + 1
  /\ Goto(r, IF backend = "gcs" THEN "stat" ELSE "create")
  /\ tmp' = [tmp EXCEPT ![r] = NoFile]
  /\ \E c \in {FALSE, cancelled[r] /\ pc[r] = "ok"} :
       cancelled' = [cancelled EXCEPT ![r] = c]
  /\ accepted' = [accepted EXCEPT ![r] = NoVersion]
  /\ offered' = [offered EXCEPT ![r] = {object}]
  /\ vouched' = [vouched EXCEPT ![r] = {sidecar} \ {NoVersion}]
  /\ UNCHANGED <<publisherVars, dst, dstDisk, reading, want, crashes>>

(* A request made on a context that is done fails. The file backend makes *)
(* none: it reads a directory and takes no context.                       *)
CanRequest(r) == cancelled[r] => backend = "file"

(* GCSObjectMatches: a dst that does not exist costs no request. *)
Stat(r) ==
  /\ pc[r] = "stat"
  /\ IF dst = NoFile
       THEN Goto(r, "create") /\ UNCHANGED want
       ELSE /\ CanRequest(r)
            /\ want' = [want EXCEPT ![r] = object]
            /\ Goto(r, "compare")
  /\ UNCHANGED <<publisherVars, dst, dstDisk, tmp, reading, cancelled, boundVars, observed>>

(* The size first, then the CRC32C over the whole file. Only a partial file *)
(* has another size than the object.                                        *)
SameSize(content) == content # Partial
FileMatchesBySize(content, attrs) == SameSize(content)  \* mutant: no CRC32C
FileMatches(content, attrs) == SameSize(content) /\ content = attrs

(* A file that matches is left in place; it is accepted as it is when no *)
(* sidecar is configured.                                                *)
Compare(r) ==
  /\ pc[r] = "compare"
  /\ dst # NoFile
  /\ IF FileMatches(dst.content, want[r])
       THEN IF checked
              THEN Goto(r, "vouch_dst") /\ UNCHANGED accepted
              ELSE Goto(r, "ok") /\ accepted' = [accepted EXCEPT ![r] = dst.content]
       ELSE Goto(r, "create") /\ UNCHANGED accepted
  /\ Drop(want, r)
  /\ UNCHANGED <<publisherVars, dst, dstDisk, tmp, reading, cancelled,
                 boundVars, offered, vouched>>

(* verifySidecar, its request: over dst when dst matched, over the *)
(* temporary file after a transfer.                                *)
ReadSidecar(r) ==
  /\ pc[r] \in {"vouch_dst", "vouch"}
  /\ sidecar # NoVersion
  /\ CanRequest(r)
  /\ want' = [want EXCEPT ![r] = sidecar]
  /\ Goto(r, IF pc[r] = "vouch" THEN "hash" ELSE "hash_dst")
  /\ UNCHANGED <<publisherVars, dst, dstDisk, tmp, reading, cancelled, boundVars, observed>>

(* verifySidecar, its digest of dst. *)
HashDst(r) ==
  /\ pc[r] = "hash_dst"
  /\ dst # NoFile
  /\ IF dst.content = want[r]
       THEN Goto(r, "ok") /\ accepted' = [accepted EXCEPT ![r] = dst.content]
       ELSE Goto(r, "err") /\ UNCHANGED accepted
  /\ Drop(want, r)
  /\ UNCHANGED <<publisherVars, dst, dstDisk, tmp, reading, cancelled,
                 boundVars, offered, vouched>>

-----------------------------------------------------------------------------
(* Mutant: the destination itself is opened for writing. *)
CreateInPlace(r) ==
  /\ pc[r] = "create"
  /\ tmp' = [tmp EXCEPT ![r] = [content |-> Partial, synced |-> FALSE]]
  /\ dst' = [content |-> Partial, synced |-> FALSE]
  /\ Goto(r, "open")
  /\ UNCHANGED <<publisherVars, dstDisk, locals, boundVars, observed>>

(* atomicfile.Write: os.CreateTemp and Chmod. *)
CreateTemp(r) ==
  /\ pc[r] = "create"
  /\ tmp' = [tmp EXCEPT ![r] = [content |-> Partial, synced |-> FALSE]]
  /\ Goto(r, "open")
  /\ UNCHANGED <<publisherVars, dst, dstDisk, locals, boundVars, observed>>

(* Mutant: the body is read without a look at the response. *)
OpenUnchecked(r) ==
  /\ pc[r] = "open"
  /\ Goto(r, "copy")
  /\ UNCHANGED <<publisherVars, dst, dstDisk, tmp, locals, boundVars, observed>>

(* getRaw, its response: one version of the object is being delivered. *)
OpenObject(r) ==
  /\ pc[r] = "open"
  /\ CanRequest(r)
  /\ reading' = [reading EXCEPT ![r] = object]
  /\ Goto(r, "copy")
  /\ UNCHANGED <<publisherVars, dst, dstDisk, tmp, want, cancelled, boundVars, observed>>

(* What a copy that ends without an error has delivered. The GCS client and *)
(* HTTP's framing report a short transfer; nothing reports that a staged    *)
(* file was rewritten in place during the copy.                             *)
Delivered(r) ==
  {reading[r]} \cup (IF backend = "file" /\ object # reading[r] THEN {Torn} ELSE {})

(* getRaw, the end of its io.Copy. The last byte may arrive before a *)
(* cancellation is seen, so the context is not consulted.            *)
CopyEnds(r) ==
  /\ pc[r] = "copy"
  /\ \E c \in Delivered(r) : tmp' = [tmp EXCEPT ![r] = [content |-> c, synced |-> FALSE]]
  /\ Goto(r, IF checked THEN "vouch" ELSE "ctx")
  /\ Drop(reading, r)
  /\ UNCHANGED <<publisherVars, dst, dstDisk, want, cancelled, boundVars, observed>>

(* verifySidecar, its digest of the temporary file. *)
HashTemp(r) ==
  /\ pc[r] = "hash"
  /\ Goto(r, IF tmp[r].content = want[r] THEN "ctx" ELSE "cleanup")
  /\ Drop(want, r)
  /\ UNCHANGED <<publisherVars, dst, dstDisk, tmp, reading, cancelled, boundVars, observed>>

(* Mutant: fill ends with "return nil". *)
ContextUnchecked(r) ==
  /\ pc[r] = "ctx"
  /\ Goto(r, "sync")
  /\ UNCHANGED <<publisherVars, dst, dstDisk, tmp, locals, boundVars, observed>>

(* "return ctx.Err()", the end of fill. *)
CheckContext(r) ==
  /\ pc[r] = "ctx"
  /\ Goto(r, IF cancelled[r] THEN "cleanup" ELSE "sync")
  /\ UNCHANGED <<publisherVars, dst, dstDisk, tmp, locals, boundVars, observed>>

(* Mutant: no f.Sync. *)
SyncLeftOut(r) ==
  /\ pc[r] = "sync"
  /\ Goto(r, "close")
  /\ UNCHANGED <<publisherVars, dst, dstDisk, tmp, locals, boundVars, observed>>

Sync(r) ==
  /\ pc[r] = "sync"
  /\ tmp' = [tmp EXCEPT ![r].synced = TRUE]
  /\ Goto(r, "close")
  /\ UNCHANGED <<publisherVars, dst, dstDisk, locals, boundVars, observed>>

Close(r) ==
  /\ pc[r] = "close"
  /\ Goto(r, "rename")
  /\ UNCHANGED <<publisherVars, dst, dstDisk, tmp, locals, boundVars, observed>>

Rename(r) ==
  /\ pc[r] = "rename"
  /\ dst' = tmp[r]
  /\ tmp' = [tmp EXCEPT ![r] = NoFile]
  /\ accepted' = [accepted EXCEPT ![r] = tmp[r].content]
  /\ Goto(r, "placed")
  /\ UNCHANGED <<publisherVars, dstDisk, locals, boundVars, offered, vouched>>

(* The deferred function of Write: the temporary file is removed. *)
Cleanup(r) ==
  /\ pc[r] = "cleanup"
  /\ tmp' = [tmp EXCEPT ![r] = NoFile]
  /\ Goto(r, "err")
  /\ UNCHANGED <<publisherVars, dst, dstDisk, locals, boundVars, observed>>

Return(r) ==
  /\ pc[r] = "placed"
  /\ Goto(r, "ok")
  /\ UNCHANGED <<publisherVars, dst, dstDisk, tmp, locals, boundVars, observed>>

-----------------------------------------------------------------------------
(* Mutants: a Close that fails leaves the file; a missing sidecar passes. *)
ErrorReturnAtClose(r) ==
  /\ Goto(r, IF pc[r] \in WithTemp \ {"close"} THEN "cleanup" ELSE "err")
  /\ Drop(reading, r) /\ Drop(want, r)
ErrorReturnSilent(r) ==
  /\ Goto(r, IF pc[r] = "vouch" THEN "ctx" ELSE IF pc[r] \in WithTemp THEN "cleanup" ELSE "err")
  /\ Drop(reading, r) /\ Drop(want, r)

(* The error return of the step a run is at: it removes the temporary file *)
(* when there is one.                                                      *)
ErrorReturn(r) ==
  /\ Goto(r, IF pc[r] \in WithTemp THEN "cleanup" ELSE "err")
  /\ Drop(reading, r) /\ Drop(want, r)

(* Steps that make a request or a system call, either of which can fail. *)
CanFail == (BeforeTemp \cup WithTemp) \ {"ctx", "cleanup"}

(* The network, the disk or the file system fails the current step. *)
Fault(r) ==
  /\ pc[r] \in CanFail
  /\ ErrorReturn(r)
  /\ UNCHANGED <<publisherVars, dst, dstDisk, tmp, cancelled, boundVars, observed>>

(* Mutant: the requests are not made on the context. *)
RefusedWithoutContext(r) ==
  \/ pc[r] \in {"vouch_dst", "vouch"} /\ sidecar = NoVersion
  \/ pc[r] \in {"compare", "hash_dst"} /\ dst = NoFile

(* The errors the program itself raises or sees in finite time: no sidecar, *)
(* no file where there was one, a request on a context that is done, a      *)
(* transfer interrupted by it, the idle timer of the http client.           *)
Refused(r) ==
  \/ pc[r] \in {"vouch_dst", "vouch"} /\ sidecar = NoVersion
  \/ pc[r] \in {"compare", "hash_dst"} /\ dst = NoFile
  \/ pc[r] = "stat" /\ dst # NoFile /\ ~CanRequest(r)
  \/ pc[r] \in {"vouch_dst", "vouch", "open", "copy"} /\ ~CanRequest(r)

Refuse(r) ==
  /\ Refused(r)
  /\ ErrorReturn(r)
  /\ UNCHANGED <<publisherVars, dst, dstDisk, tmp, cancelled, boundVars, observed>>

(* A body read and the wait for the response headers are limited; the client *)
(* of the gcs backend has no such limit. HttpGet has the timers.             *)
IdleTimeout(r) ==
  /\ backend = "http"
  /\ pc[r] \in {"open", "copy", "vouch"}
  /\ ErrorReturn(r)
  /\ UNCHANGED <<publisherVars, dst, dstDisk, tmp, cancelled, boundVars, observed>>

(* SIGINT or SIGTERM: the context of the command is done. *)
Cancel(r) ==
  /\ pc[r] \in Active
  /\ ~cancelled[r]
  /\ cancelled' = [cancelled EXCEPT ![r] = TRUE]
  /\ UNCHANGED <<publisherVars, dst, dstDisk, pc, tmp, reading, want, boundVars, observed>>

(* The process is killed: no deferred function runs. Nobody reads what it *)
(* leaves of its temporary file, which is not tracked any further.        *)
Kill(r) ==
  /\ pc[r] \in Active
  /\ Goto(r, "dead")
  /\ tmp' = [tmp EXCEPT ![r] = NoFile]
  /\ Drop(reading, r) /\ Drop(want, r)
  /\ cancelled' = [cancelled EXCEPT ![r] = FALSE]
  /\ UNCHANGED <<publisherVars, dst, dstDisk, boundVars, observed>>

(* The file system writes the directory back, on its own schedule: Write *)
(* does not sync the directory.                                          *)
WriteBack ==
  /\ dstDisk # dst
  /\ dstDisk' = dst
  /\ UNCHANGED <<publisherVars, dst, pc, tmp, locals, boundVars, observed>>

AfterPowerLoss(file) ==
  IF file = NoFile \/ file.synced THEN {file}
  ELSE {[content |-> c, synced |-> TRUE] : c \in {file.content, Torn}}

(* The host loses power: every run is gone, the destination is what the disk *)
(* has, and data that was not synced may be lost.                            *)
PowerLoss ==
  LET Lost(local, none) == [r \in Runs |-> IF pc[r] \in Active THEN none ELSE local[r]]
  IN /\ crashes < MaxCrash
     /\ crashes' = crashes + 1
     /\ pc' = Lost(pc, "dead") /\ tmp' = Lost(tmp, NoFile)
     /\ reading' = Lost(reading, NoVersion) /\ want' = Lost(want, NoVersion)
     /\ cancelled' = Lost(cancelled, FALSE)
     /\ dst' \in AfterPowerLoss(dstDisk)
     /\ dstDisk' = dst'
     /\ UNCHANGED <<publisherVars, begun, observed>>

-----------------------------------------------------------------------------
(* Steps the program takes without waiting for anybody. *)
LocalStep(r) ==
  \/ Compare(r) \/ HashDst(r) \/ CreateTemp(r) \/ HashTemp(r) \/ CheckContext(r)
  \/ Sync(r) \/ Close(r) \/ Rename(r) \/ Cleanup(r) \/ Return(r)
  \/ Refuse(r) \/ IdleTimeout(r)
  \/ Stat(r) /\ dst = NoFile

(* Steps that wait for the publisher. *)
TransferStep(r) ==
  \/ Stat(r) /\ dst # NoFile
  \/ ReadSidecar(r) \/ OpenObject(r) \/ CopyEnds(r)

Environment ==
  \/ \E v \in Versions : PublishObject(v) \/ PublishSidecar(v)
  \/ \E r \in Runs : Fault(r) \/ Cancel(r) \/ Kill(r)
  \/ WriteBack \/ PowerLoss

Next ==
  \/ \E r \in Runs : Begin(r) \/ LocalStep(r) \/ TransferStep(r)
  \/ Environment

Spec == Init /\ [][Next]_vars

(* The program is scheduled; the publisher may never answer. *)
FairSpec == Spec /\ \A r \in Runs : WF_vars(LocalStep(r))

-----------------------------------------------------------------------------
(* The types of the variables. *)
TypeOK ==
  /\ <<backend, checked>> \in Artifacts
  /\ object \in Versions
  /\ sidecar \in Versions \cup {NoVersion}
  /\ dst \in File \cup {NoFile}
  /\ dstDisk \in File \cup {NoFile}
  /\ pc \in [Runs -> Active \cup Ended]
  /\ tmp \in [Runs -> File \cup {NoFile}]
  /\ reading \in [Runs -> Versions \cup {NoVersion}]
  /\ want \in [Runs -> Versions \cup {NoVersion}]
  /\ cancelled \in [Runs -> BOOLEAN]
  /\ published \in Nat /\ begun \in Nat /\ crashes \in Nat
  /\ accepted \in [Runs -> Contents \cup {NoVersion}]
  /\ offered \in [Runs -> SUBSET Versions]
  /\ vouched \in [Runs -> SUBSET Versions]

(* Nothing checks a staged directory's file against a rewrite in place when *)
(* the artifact configures no sidecar: only then may a Get place a Torn.    *)
Unchecked == backend = "file" /\ ~checked
Placeable == Versions \cup {c \in {Torn} : Unchecked}

(* atomicfile: "a reader sees the old file or the new one, never a part of   *)
(* either". Whatever the runs, the publisher and the power do, a file that   *)
(* newly appears at dst is a whole published content; after a power loss dst *)
(* may also go back to the file the disk had.                                *)
OnlyWholeFilesAppear ==
  [][dst' \notin {dst, dstDisk} => dst' # NoFile /\ dst'.content \in Placeable]_vars

(* A Get that succeeds leaves or finds at dst a content that was published   *)
(* under the object's name while the Get ran, not one of an earlier run. A   *)
(* dst that was accepted on its sidecar alone is covered by SuccessIsVouched *)
(* only: another run may replace dst between the CRC32C and the digest.      *)
SuccessIsCurrent ==
  \A r \in Runs :
    \/ pc[r] = "placed"
    \/ pc[r] = "ok" /\ ~(backend = "gcs" /\ checked)
    => \/ accepted[r] \in offered[r]
       \/ Unchecked /\ accepted[r] = Torn

(* With a sidecar configured, a Get succeeds only on a content whose digest *)
(* the publisher's sidecar held at some moment of that same Get: "a missing *)
(* sidecar is a failure rather than a silent pass" (verifySidecar).         *)
SuccessIsVouched ==
  \A r \in Runs : checked /\ pc[r] \in {"placed", "ok"} => accepted[r] \in vouched[r]

(* A Get that returned, with or without an error, left no temporary file in *)
(* the directory of dst; only a killed process does.                        *)
NoTempLeft ==
  \A r \in Runs : pc[r] \in {"placed", "ok", "err"} => tmp[r] = NoFile

(* getVerified: a run whose context is done when the transfer and its        *)
(* verification end does not go on to place the file, "even when the last    *)
(* byte arrived before the cancellation was seen".                           *)
CancelledDoesNotCommit ==
  [][\A r \in Runs : cancelled[r] /\ pc[r] \notin Committed => pc'[r] \notin Committed]_vars

(* Over http every Get returns, also when the publisher stops sending: the *)
(* timers of the http client end a stalled request.                        *)
GetReturns == \A r \in Runs : backend = "http" /\ pc[r] \in Active ~> pc[r] \in Ended

(* Also from a bucket, where no timer runs, a Get returns once it is cancelled. *)
CancelledGetReturns ==
  \A r \in Runs : pc[r] \in Active /\ cancelled[r] ~> pc[r] \in Ended

-----------------------------------------------------------------------------
ContentAt(file) == IF file = NoFile THEN NoFile ELSE file.content

Promise == INSTANCE AtomicGet WITH
  good <- Placeable,
  file <- ContentAt(dst),
  durable <- ContentAt(dstDisk),
  call <- [r \in Runs |-> IF pc[r] \in Ended \cup {"placed"} THEN pc[r] ELSE "running"]

(* Fetch implements the contract of Source.Get ("On any error, dst is left *)
(* as it was"): every step is a step of AtomicGet or changes nothing there. *)
ImplementsGet == Promise!Spec
=============================================================================
