# A verification of mina-provision

TLA+ models of `mina-provision`, the TLC runs that check them on small
instances, and proofs that TLAPS checks. `mina-provision` fetches the artifacts
a Mina node operator needs (archive database dumps, precomputed blocks, daemon
and genesis configurations) and puts them in place: in PostgreSQL or on disk.

A single run is a sequential program. What is hard about it is everything it
shares with others: the destination path with other runs, the bucket with a
publisher that regenerates its objects, the database with a second bootstrap,
an archive writer and an operator, and all of it with its own earlier runs that
were interrupted at any point. The models put these together.

    tlc -workers 2 -config ArchiveRace.cfg MCArchive.tla     # one run
    tlapm ArchiveProofs.tla                                  # one module's proofs

`TextProofs` is the largest proof and takes some minutes; the others take less.

## Inventory

| Component | State it keeps | Operations | What must hold |
|---|---|---|---|
| `internal/source`, `atomicfile`, `download` | the destination, a temporary file beside it | `Get`, `List` | a reader sees an old or a new whole file; success means current and verified content; an error changes nothing |
| `internal/httpclient` | the chain of redirects and the timers of a request | redirect check, round trip, body reads | a stalled request ends, a slow one does not; https is not left |
| `cmd/archive.go`, `internal/pg` | the target database, server settings, the extracted dump | probe, fetch, extract, tune, load | an archive is never loaded over; success means the whole dump; one loader |
| `internal/extract` | a directory | `TarGz`, `TarGzReader` | files are replaced, nothing outside is touched |
| `cmd/blocks.go` | the output directory | parse, walk, cover, fetch | all of the range, nothing else, within bounds |
| `internal/apt`, `cmd/config.go` | the output directory | `Resolve`, `Download`, `ExtractData`, copy | verified bytes of the right version, whole |
| `internal/provider` | the provider table | load, merge, check, render | the file the user named is the one that counts; a replaced entry is replaced whole; a prefix finds every name |
| `internal/pg/dump.go` | - | header scan, filter | a dump restores into the database that was checked, and no other |
| `cmd/genesis_config.go` | one file | one `Get`, report | as `source` |
| `cmd/replayer_input.go` | one file | rewrite | - |
| `cmd/root.go` | the context of the run | signals | a signalled run stops and fails |
| `release.yml`, `clear-s3-lock.sh` | the lock of the apt bucket | upload attempts, age check, conditional delete | clearing a lock makes no second writer; a dead lock does not block for ever |
| packaging, images, CI | - | build | - |

They interact by calls: each command resolves an artifact in the provider
table, and then calls `source.New(...).Get` / `List` or the apt client. The
archive command runs `psql` as a child process. The other interaction is through
shared state: the destination paths, `--work-dir`, `--out` and the target
database, none of which is locked. The lock of the apt bucket is shared by
upload jobs of this and of other packages.

The hard behaviours are listed with their lines in `PROJECT.json` under
`hazards`: checks whose answer is used after the state may have changed (the
CRC32C of a bucket object, the emptiness of a database, the entry of an index),
two objects published one after the other (object and sidecar, pool and
index), interruption between two commits or two renames, a power loss between a
write and its write-back, timers and cancellation against a last byte, a timer
whose function runs after the timer was stopped, a lock that two uploads take at a time or
whose ETag they share, and counters at a bound.

## Modules

| Module | Models | Lines of code it stands for |
|---|---|---|
| `Fetch` | concurrent `Source.Get` of one artifact | `source.go`, `gcs.go`, `http.go`, `file.go`, `atomicfile.go`, `download.go` |
| `AtomicGet` | the contract of `Source.Get`, abstract | `source.go:23-27` |
| `HttpClient` | redirects, the wait for headers, the idle timer of a body | `httpclient.go` |
| `HttpGet` | `Fetch` on top of `HttpClient` | `http.go`, `root.go` |
| `ArchiveRestore` | the archive command | `archive.go`, `pg.go`, `dump.go`, `extract.go` |
| `TargetDatabase` | what users of the target database rely on, abstract | - |
| `Blocks` | the blocks command | `blocks.go` |
| `DaemonConfig` | the daemon-config command with a package | `config.go`, `repo.go`, `deb.go` |
| `DebianVersion` | the order of versions | `version.go` |
| `NameTemplate` | name templates, the search for the newest dump | `template.go`, `archive.go` |
| `DumpHeader` | where a dump restores, as a function | `dump.go`, `archive.go`, `pg.go` |
| `ProviderConfig` | choice, merge and check of configurations | `provider.go`, `root.go` |
| `UploadLock` | upload jobs and the stale lock | `clear-s3-lock.sh`, `release.yml` |
| `Questions` | `DebianVersion`, `NameTemplate`, `DumpHeader` and `ProviderConfig`, asked one question each | as theirs |
| `FetchProofs`, `HttpProofs`, `ArchiveProofs`, `BlocksProofs`, `DaemonConfigProofs`, `UploadLockProofs` | theorems about the behaviours of the module they are named after (`HttpProofs`: `HttpGet`) | - |
| `QuestionProofs` | theorems about `Questions`: dumps and configurations | - |
| `TextProofs` | theorems about `Questions`: versions and names | - |
| `MC...` | small sets and symmetry for TLC | - |

`PROJECT.json`, under `map`, gives the lines of every definition. Operators
whose comment says *Mutant* are deliberate faults, each the body of one
definition with a plausible bug: putting one in the place of that definition
must make TLC report the property it is paired with.

### Fetch and AtomicGet

One variable per thing that outlives a step: what the publisher serves
(`object`, `sidecar`), the destination as readers see it (`dst`) and as the disk
has it (`dstDisk`), and per run the place in the code (`pc`), its temporary
file, the transfer that is open, the checksum it holds and whether its context is
done. Each `pc` is a point between two system calls or requests, so the steps of
two runs, the publisher and a power loss interleave wherever the code lets
them: `Stat`, `Compare`, `ReadSidecar`, `HashDst` are `gcsSource.Get` before it
downloads, `CreateTemp` to `Rename` are `atomicfile.Write`, with `OpenObject`,
`CopyEnds`, `ReadSidecar`, `HashTemp` and `CheckContext` the `fill` it calls.
`ErrorReturn` is every error return, `Cleanup` the deferred removal.

A content is a model value. SHA-256 and CRC32C identify it (a collision is not
modelled), the size does not; `Partial`, `Corrupt` and `Torn` are what a bad
transfer, a bad disk and a rewrite in place during a copy produce. Hashing a file
is one step. A rename is atomic; it reaches the disk in a separate step
(`WriteBack`), and data that was not synced may be lost with the power. Of two
renames the last one wins, which the code accepts.

`AtomicGet` is the promise of the interface (*"On any error, dst is left as it
was"*) as a state machine of a destination and some callers. `ImplementsGet`
says that `Fetch` implements it. The map sends an active run to "running", the
destination to its content.

### HttpClient, HttpGet

`HttpClient` is the client under one caller per request: `conn[c]` has the chain
of redirects, whether a Read of the body is under way and how long it has waited,
the timer with what is left of it, and `context.Cause`. Go's `AfterFunc` starts its
function in a goroutine, so a timer is served in two steps (`Fire`,
`TimerFunction`), and `Stop` withdraws only the first: the function may run after
the Read has returned, while the caller writes to its disk, or under the next
Read. Time is a `Tick`; a timer that is due may be served late. `stalled` is an
observation: one Read has waited for the whole limit.

`HttpGet` composes it with `Fetch`: an `OpenObject` over http is the answer to a
request of the client (`Answer`), the end of a copy is the Read that reported the
end of the body (`EndOfBody`), and the abstract `IdleTimeout` of `Fetch` happens
only when the client gave the request up (`GiveUp`). The other backends take the
steps of `Fetch` as they are. `ImplementsFairFetch` says that the composition
implements `Fetch` with its fairness: what `Fetch` assumes of a stalled request
is what the timers bring about. The run has one Get at a time, as requests of
different runs share nothing in the client, and no power loss.

### ArchiveRestore, TargetDatabase

The target database is `dbExists`, `foreign` (objects of something else),
`schema` (who made the archive's tables), `blocks` and `rest` (whose rows). A
dump is five statements that commit one by one, the grain at which a load can be
interrupted and at which two loads interleave. A run is `pc`, its mode, the next
`statement` of its load, whether its `psql` is connected and what `psql` has
open. `Execute` is one statement: it is accepted or not (`Accepted`), and
commits its `Effect`. `Kill` is SIGKILL of the tool, after which its `psql` goes on
(`"orphan"`): one that reads a file to its end, one that is fed through a pipe
with what the pipe holds, and a `Fault` is where that runs out. `Signal` is SIGINT
or SIGTERM, at any time, also between the end of `psql` and the exit of the tool; a
signalled load stops at once or commits the statement on its way and stops
(`InterruptLoad`). The operator creates and drops the database and puts objects or an
archive in it, the writer adds blocks (in an archive of its own with all that belongs
to them), the server crashes and recovers.

`seen` and `kept` are observations: no action depends on them. `kept` is what
the database held when a run began and still holds, so that the protection
properties speak of the archive an operator has and not of one that appears
while the run is under way, which the code does not promise anything about.

`TargetDatabase` is the view of a user of the database: created, claimed by one
loader, filled in the order of the dump, finished; dropped as a whole; or the writer's own,
which is never half there. It is implemented with `owner <- schema`.

### Blocks

A walk over heights and a fetch of what it found, with the publisher adding
names at any time. A template has the height or the state hash first; in those with the
height first a literal that is no digit comes after it, as in the defaults. The numbers are those of a Go `int` of a width that is a
parameter, so that the largest heights and the wrap of `h++` are inside the
instance; the cap of 50000 and the miss threshold are parameters too. `count`
is `len(wanted)`. `checkCoverage` and the walk's three exits are disjuncts of their own.
A download is one step, as `Fetch` has its steps.

### DaemonConfig, DebianVersion

A package stands for its bytes, so an index entry is the package it was made
for, the pool is a package per version, and the digest check is equality of the
two. The publisher uploads, rebuilds a version under its name, and lists
packages in one index after the other; it withdraws nothing. The run reads the
index of each architecture, in the gzip form or the plain one
(`ReadIndex`, `IndexRefused`, `IndexUnreachable` are the three outcomes of
`fetchIndex`), picks an entry, downloads, verifies, extracts and copies
file by file; `os.Create` truncates what is there, so a copy is two steps.
`missed` and `floor` are observations.

`DebianVersion` has `CompareVersions`, `splitVersion`, `compareFragment` and
`order` as operators, over characters with their ASCII codes, and beside them the
definition of deb-version(7) as a key that is compared lexicographically. The loop of
`compareFragment` is a function of the number of passes it has made. The two halves have
little in common: the code compares runs of digits by length and then digit by digit, the
key by their value; the code sorts characters by `order`, the key by their class (tilde,
letters, the others) and then their ASCII code (`Rank`), as the manual page has it. That the
two sort alike is `WeightsAreRanks`.

### NameTemplate, DumpHeader, ProviderConfig

These are functions, and so are their modules, and `DebianVersion`. `Questions` asks each
of them one question per behaviour, with arguments of any size (`IsQuestion`: versions and
templates of any length, any finite listing, any dump, server and configuration), and
compares the answer with a definition that has another form. `MCFunctions` says which of
these questions TLC asks: `MCSpec` begins with the small ones, and every one of them is
asked to be a question by `Init`.

`NameTemplate` has templates as sequences of symbols; `placeholders` is a function of how
many of them the scan has seen, and `strings.ReplaceAll` says for each symbol what becomes
of it. `PrefixIsLongest` compares `Prefix` with the longest common prefix of all
names that `Render` gives; `NewestIsFound` compares the search through listings with
the question, for each day and hour, whether its name is published.

`DumpHeader` has one run of the archive command from `checkDump` on, as a function of
the connection string, the provider's entry, the lines of the dump, the server's
databases and the version of `psql`. A dump is a sequence of lines of six kinds;
a session of `psql` with ON_ERROR_STOP is a function
of how many of them it has read. The dumps are those of pg_dump, with
and without `--create`, and others in which CREATE DATABASE and `\connect` disagree
in name, case or quotes, come after `headerLines`, or come twice. The properties
speak of the ones in which the lines that name a database are in the header, in the
order pg_dump writes them (`WellPlaced`).

`ProviderConfig` has `merge` at its three levels, `validate`, `Resolve`, and the choice
of the file from the flag, the variable and the search paths. A URL is its scheme and
what is known of its host. `MergeOverlays` compares what a command gets from the merged
table with what it gets from the user's file alone, and else from the defaults, and says
exactly which files are refused.

### UploadLock

The upload step of `release.yml` with its attempts and back-off, and
`clear-s3-lock.sh` between two of them, for several jobs. A job fails, dies with the
lock held and goes on with its next attempt, or is killed with its runner. The script
has three steps (`Examine`, `CompareAge`, `Delete`), with any time between them. Time is
in ages and countdowns rather than a clock: the age of the lock, of the lock a script has
examined, and what is left of a back-off; ages end at the first value that is
old by every clock, so time is not bounded. The script compares S3's `LastModified` with
the clock of its runner; `Skew` is how far they are apart. An upload lasts as long as it
likes, also beyond the threshold.

deb-s3 is external, and as clear-s3-lock.sh:9-12 describes it: an upload that sees no
lockfile (`SeeNoLock`) "writes dists/<codename>/lockfile.lock" (`StoreLock`, the variable
`stored`), "then copies it to dists/<codename>/lockfile" (`CopyLock`), and only the second
object blocks an upload. Another job may do the same between any two of these steps, copy
its lock over one that is in use, or have its own body copied by the other. So the lock does
not give one writer, and the repository does not say it does: "Two jobs uploading at once
contend for that lock and can drop each other's entries" (release.yml:127-129, and
docs/releasing.md:210-212), which is why the jobs of one release run one at a time
(`max-parallel: 1`). Those of other releases and packages do not wait for them, so the
model has all of them at once.

`lapses` is an observation of how a running upload has lost its lock: `"contended"`, another
job copied its lock over it; `"late"`, it went on until its lock was old by the clock of a
script; `"mistaken"`, a script that had examined an older lock deleted the one in use, as the
two have the same body (clear-s3-lock.sh:20-22). `OneWriter` is that two jobs write at a time
only after one of these: that the age check and the conditional delete, on a lock that may
have been released, taken again or replaced since it was examined, add no fourth way. TLC
reaches each of the three, and `"mistaken"` needs only one host: the retry of an attempt
that failed takes a lock with the same body.

## Runs

All are bounded: runs of the tool, operations of the publisher and the
operator, and crashes are counted, and the counters are named `Max...`. When they
are used up the system really stops, as it does when nobody starts a run any
more, so `CHECK_DEADLOCK` is `FALSE`; that a run under way does not get stuck is
what the liveness properties say.

| Run | Instance | Shows |
|---|---|---|
| `Fetch` | 2 runs, 2 versions, 2 publications, 2 calls, 1 power loss; all backends, with and without a sidecar | `SuccessIsCurrent`, `SuccessIsVouched`, `NoTempLeft`, `ImplementsGet`, `OnlyWholeFilesAppear`, `CancelledDoesNotCommit`, `TypeOK` |
| `HttpGet` | 1 run with 2 calls, http and bucket, with a sidecar; 3 requests of a chain, 2 Reads with data, 1 tick for headers and 2 for a Read; fairness | `GetReturns`, `CancelledGetReturns`, `ImplementsFairFetch`, `IdleReadWaited`, `HttpsIsKept`, `GetTypeOK` |
| `ArchiveRace` | 2 bootstraps past their probes (`--if-present=import`) in one work directory, 1 crash, 1 act of the operator, dumps with and without CREATE DATABASE | `WholeDumpIsRestored`, `ImplementsTarget`, `TypeOK` |
| `ArchiveReruns` | 1 bootstrap with its own directory, 3 runs, all modes, 1 crash, 2 acts, fairness | `ProvisionedIsRestored`, `ArchiveIsProtected`, `NonEmptyIsLeftAlone`, `InterruptedIsNotProvisioned`, `RunEnds` |
| `Blocks` | heights to 5, 2 hashes, 3 names, cap 2, threshold 2, 2 runs, every range | `FetchesTheRange`, `FetchesOnlyTheRange`, `FetchIsBounded`, `WalkIsBounded`, `EmptyRangeFails`, `TypeOK` |
| `DaemonConfig` | 5 builds of 3 versions, 3 repository layouts, 5 publications, 2 runs, pinned or not | `HighestUnlessMissed`, `ProvisionedIsWhole`, `OnlyVerifiedBytes`, `TypeOK` |
| `Functions` | pairs of versions of at most 4 characters each and 6 together; templates of 4 parts; listings of at most 3 names over 2 days and 3 hours; 468 dumps, 4 servers, 6 targets, 3 versions of `psql`; two configurations of 2 providers, 2 networks, 2 kinds, and 18 artifacts; every choice of flag, variable and 4 files | `ComparesLikeDpkg`, `PrefixIsLongest`, `NewestIsFound`, `RestoresIntoTarget`, `FilterIsCreateInPlace`, `MergeOverlays`, `NamedFileIsRead` |
| `UploadLock` | 2 jobs of 2 attempts, 2 bodies, threshold 2, skew of 1, uploads of any length, 1 request that fails; fairness | `OneWriter`, `StaleLockIsCleared` |

Why the bounds are enough. Two runs are what a race on a destination or a
database needs: a third meets the same steps as the second. Two publications are
an object and its sidecar in either order; two calls let a run accept what
another, or an earlier one, placed. In `ArchiveReruns`, three runs are an
interrupted load, a run that meets its remains, and one that meets the end of
both. `ArchiveRace` has no probes: a run whose probe found no archive goes on
like one that makes none, so what it checks of the loads covers both. The shared
directory adds to what runs with directories of their own can do, and takes nothing
from it. In `Blocks`, a cap and a threshold of 2 are both reached, together and one
without the other, with heights left over; and 3 names fill a height with more
than one block. In `DaemonConfig`, five publications are two uploads with a
listing in each of two indexes and a rebuild. In `HttpGet`, a limit of 2 ticks for a Read
lets one Read take a part of the limit and the next one meet a timer that is due, and two
Reads with data are the least a late timer function can run between. In `Functions`, a
header of 4 lines is exceeded by the long preamble and by no dump of pg_dump's form; four
parts make a template in which a placeholder is repeated, follows another, or is broken. In
`UploadLock`, two jobs of two attempts are four locks, of which any may be left behind by one
attempt, examined by the check after it, and replaced by another in between; the threshold
exceeds the skew, so that a lock is young, in doubt and old in turn. Symmetry is used where runs,
versions or hashes are interchangeable, and never with liveness.

### Disagreements between the documents and the code

Four runs check a sentence of the documentation that the code does not keep. TLC
shows a behaviour for each.

- `ArchiveSchemaOnly` (`SchemaWithoutRowsIsFilled`): pg.go:355-356 calls an
  archive schema with no rows "a database waiting to be filled". The run goes on
  and stops at CREATE DATABASE, after it changed the server's settings.
- `ArchiveSkipsPartial` (`SkippedOverArchive`): `--if-present=skip` takes the
  rows that an interrupted load left for an archive, says so, and exits zero. TLC's
  behaviour is a load that stops after the COPY of the blocks, and the run that follows.
- `BlocksHashFirst` (`FetchesOnlyTheRange`): a name template with
  `{state_hash}` before `{height}` is supported by the matcher and its tests, but
  gives every height an empty listing prefix; one height fetches all.
- `DaemonConfigHighest` (`HighestChosen`): an index that cannot be read is
  passed over like one that does not exist, so the version installed need not
  be the highest.

Smaller observations, which are not runs:

- A signal during the extraction does not make a run with `--skip-pg` fail; the extraction
  is complete.
- A range that has exactly 50000 blocks is refused, while README.md:193 says at most 50000.
- Two bootstraps that share `--work-dir`, by default the current directory, may load each
  other's half-written dump and report success: TLC shows `ProvisionedIsRestored` violated in
  the instance of `ArchiveRace`. This is the reason for the condition in
  `WholeDumpIsRestored`, and for the assumption of `ProvisionsWhole` below.
- `checkRedirect` counts the requests of the chain, so nine redirects are followed and the
  tenth is refused; docs/providers.md:235 says 10.
- A closing brace with no opening one is refused only when no placeholder follows it:
  `a}b{date}` passes `CheckTemplate`, although template.go:124-126 says unbalanced braces are
  rejected.
- What a dump says after its first table, or after `headerLines` lines, is not looked at: a
  second `\connect` there would restore elsewhere, and a `\restrict` there would meet an old
  `psql`. So would a CREATE DATABASE without a `\connect`, or after it. pg_dump writes none of
  these; `WellPlaced` leaves them out.
- A blank `MINA_PROVISION_CONFIG` is unset for the flag (`applyEnvDefaults`) and the name of
  a file for `Load`, which then fails.
- clear-s3-lock.sh:14-15 leaves a young lock alone because removing it "would let two writers
  rewrite the same index at once", as if the lock excluded that; by release.yml:127-129 and the
  steps that clear-s3-lock.sh:9-12 lists, two uploads at once can both have it. This is why
  `OneWriter` has a condition, and names it.
- A name template in which another field directly follows `{height}` passes `CheckTemplate`; the
  listing prefix of height 500 is then also one of 5000, and a state hash that begins with a
  digit could be read as more of the height. No default has this form, and `Blocks` does not.
- A job whose own attempt died with the lock held cannot clear it: its checks come at most
  180 seconds of back-off later, below the threshold, unless deb-s3 waits longer.

### Fairness

`FairSpec` of `Fetch` and `ArchiveRestore` is weak fairness of the steps of each
run: the operating system schedules the process and `psql`, and a server that is up carries
out what it is asked. It is not fairness of the publisher: the steps that wait for an answer
(`TransferStep` of `Fetch`) are not fair, and neither is `GetDump` of `ArchiveRestore` before
a signal (`Waiting`), so `RunEnds` says that a run ends or waits for the publisher. What ends a Get over http is the timer of the http client
(`IdleTimeout`, a local step), and over a bucket only a cancellation, which is what
`GetReturns` and `CancelledGetReturns` say. `HttpGet` does not take this for granted: its
fairness is that of the run, of the goroutine of the timer and of the clock
(`GetStep`, `TimerStep`, `EndOfBody`, `Tick`), never of an answer, a redirect or a piece of
data, and that the fairness of `Fetch` follows is what `ImplementsFairFetch` checks. In
`UploadLock`, jobs and time go on (`Step`, `Tick`); that a request of the script is answered
is not assumed: the failures are counted, and `StaleLockIsCleared` asks for more checks to
come than failures left. In `ArchiveRestore` a step that needs the
server has an alternative when it is away (`Unreachable`: the deadline of
`queryRetry`, or the end of a connection), so no fairness of `Recover` is
needed. Signals, kills, crashes and the operator are never fair.

## Proofs

Eight modules hold theorems. They are about every number of runs, jobs, names,
packages, heights and servers, and every bound, where TLC has a small instance of each.
Every invariant below was an invariant of a TLC run before it was proved. "By" names
the parts of the invariant, the theorems or the assumptions that carry a theorem.

| Module | Theorem | States | By |
|---|---|---|---|
| `FetchProofs` | `Invariance` | `Inv` | |
| | `TypeCorrect`, `SucceedsOnCurrent`, `SucceedsOnVouched` | `TypeOK`, `SuccessIsCurrent`, `SuccessIsVouched` | parts of `Inv` |
| | `LeavesNoTemp` | `NoTempLeft` | `HasTemp` |
| | `AppearWhole` | `OnlyWholeFilesAppear` | `Fetched`, `Durable` |
| | `CancelledStays` | `CancelledDoesNotCommit` | `TypeOK` |
| | `FetchImplementsGet` | `ImplementsGet` | `Fetched`, `Durable`, `TypeOK` |
| `HttpProofs` | `GetImplementsFetch` | `GetSpec => Spec` | each step of `HttpGet` |
| | `ClientInvariance` | `ClientInv` | |
| | `GetTypeCorrect` | `GetTypeOK` | `ClientInv`, `GetImplementsFetch` |
| | `IdleMeansWaited` | `IdleReadWaited` | `TimerInv` |
| | `NeverLeavesHttps` | `HttpsIsKept` | `ChainInv` |
| | `GetKeepsPromise` | `ImplementsGet` | `GetImplementsFetch`, `FetchImplementsGet` |
| `ArchiveProofs` | `TypeCorrect`, `DatabaseCorrect` | `TypeOK`, `DatabaseInv` | |
| | `RestoreImplementsTarget` | `ImplementsTarget` | `DatabaseCorrect` |
| | `ProtectsArchives`, `LeavesObjectsAlone` | `ArchiveIsProtected`, `NonEmptyIsLeftAlone` | `KeptInv`, `DatabaseCorrect` |
| | `InterruptedFails` | `InterruptedIsNotProvisioned` | `TypeCorrect` |
| | `WholeDumpRestores` | `WholeDumpIsRestored` | `DatabaseCorrect`, `TunedInv` |
| | `ProvisionsWhole` | `ProvisionedIsRestored`, from `OwnWorkDirs` | the same, `FileInv` |
| `BlocksProofs` | `Invariance`, `TypeCorrect` | `Inv`, `TypeOK` | |
| | `RangeIsFetched`, `OnlyRangeIsFetched` | `FetchesTheRange`, `FetchesOnlyTheRange` | `Discovered`, `Fetching`; `Recorded` |
| | `FetchBounded`, `WalkBounded` | `FetchIsBounded`, `WalkIsBounded` | `Discovered`; `Walking` |
| | `EmptyFails` | `EmptyRangeFails` | `Fetching` |
| `DaemonConfigProofs` | `Invariance`, `TypeCorrect` | `Inv`, `TypeOK` | |
| | `ChoosesHighest` | `HighestUnlessMissed` | `FloorIsFound` |
| | `ProvisionsWhole` | `ProvisionedIsWhole` | `CopiedSoFar` |
| | `WritesVerifiedBytes` | `OnlyVerifiedBytes` | `EntryHasDigest` |
| `UploadLockProofs` | `Invariance` | `Inv` | `LockAssumption` (types only) |
| | `WritesAlone` | `OneWriter`, with uploads of any length | `HoldsLock` |
| `QuestionProofs` | `RestoresIntoTargetOnly` | `RestoresIntoTarget` | `RestoresOnlyIntoTarget` |
| | `FilterCreatesInPlace` | `FilterIsCreateInPlace` | `FilteringIsCreating` |
| | `MergesOverDefaults` | `MergeOverlays` | `MergeResolves`, `AcceptedExactly` |
| | `NamedFilesAreRead` | `NamedFileIsRead` | `FirstIs` |
| | `RestoresOnlyIntoTarget`, `FilteringIsCreating` | `DumpHeader` as a function | `NatsFromZero` |
| | `MergeResolves`, `AcceptedExactly`, `EndpointsAreChecked`, `NamedFileWins` | `ProviderConfig` as functions | |
| `TextProofs` | `OrdersLikeDpkg` | `ComparesLikeDpkg` | `WeightsAreRanks`, `KeyJoins`, `NumberOrderIs`, `PassIs` |
| | `VersionsAreOrdered` | the order is antisymmetric and transitive | `KeyOrderIs`, `VersionsCompare` |
| | `PrefixesAreLongest` | `PrefixIsLongest` | `CheckedTemplate`, `FilledJoins`, `AgreeAll` |
| | `NewestDumpIsFound` | `NewestIsFound` | the same, `BetterIsNewest` |

All theorems of the last two modules but those about functions are of `Spec` of
`Questions`, in the form `Spec => []...`: `Answers` says that what is asked is a question and
that the answer is what the code computes, and the rest is about the functions.

### The invariants, and why they are needed

Few of the properties are inductive. Most say something of the end of a run, and what
makes them true is what each place of the code has in its hands.

*Fetch.* `Inv` is `TypeOK`, `RunInv` of each run, `Durable` of the destination (what is
there was synced before it was renamed, so a power loss cannot spoil it), and the two
success properties. `RunInv` says, at each `pc`: whether there is a temporary file
(`HasTemp`); that the places which compare checksums are reached only where the
artifact asks for it (`Plan`); that what is published now is among what was published
during the call (`Observed`); that an open transfer or a checksum in hand was served
during the call (`Read`); and that the temporary file is such a content, after the
checks also a vouched one, and synced before it is renamed (`Fetched`). No run can
break another's `RunInv`: they share the destination only, about which `RunInv` says
nothing. The refinement has one lemma per kind of step: a
step of a run moves its own call only, what `Rename` places is a content that Get may place
(`Fetched`), and a power loss brings back what the disk had, undamaged (`Durable`).

*HttpGet.* Every step of the composition is a step of `Fetch` or leaves its variables
alone, so `GetSpec => Spec`, and every safety theorem of `Fetch` holds of it.
`TimerInv` is what makes the two-step timer harmless: an armed timer belongs to the Read
under way, and what is left of it and what the Read has waited make up the limit, so a
timer that runs out, and a function that runs late, both find a Read that has waited for
all of it. `ChainInv` says that the chain is within `maxRedirects` and that no `http`
comes after an `https` in it.

*ArchiveRestore.* That a run at its last statement will have restored the whole dump
depends on what its earlier statements met. `DatabaseInv` says what a load knows, in
three parts: `Shape`, what the database can look like whatever happened (no tables
without a database, no rows without tables, rows only of the owner of the tables and the
writer); `Ticket`, that a load with a live connection to the target that is past a
statement has that statement's effect in the database (a drop of the database ends the
connection, so the ticket is lost together with the effect); and `Fresh`, that a run that
has not begun to load is not connected and is at its first statement. A run begins again
only after its former `psql` has ended: a tool that is started anew while an old `psql`
is still there is another element of `Runs`. From `Ticket`, every accepted statement is a
step of `TargetDatabase`, which is the refinement. `TunedInv` says that the server is
tuned before a load. `FileInv` says that a run whose directory is its own finds the file
it wrote, whole; this is the one place where `OwnWorkDirs` (different runs, different
directories) is used. `KeptInv` relates the observation `kept` to the database.

*Blocks.* `Walking` relates the numbers of the walk: the misses are the heights just
passed, `start + misses <= h`, and an open-ended walk has made at most `Threshold`
steps per block it counted, which bounds it; and every block of the range
published since the beginning is recorded, below the misses. `Discovered` is what that
comes to when the walk is over (a block that was passed over lies behind a gap of
`Threshold` heights, or the range has an end), `Fetching` that what is not left to fetch
is on disk. `Recorded` has the listing prefix: it holds nothing but the height's names
only when the height comes first in the template, and so `OnlyRangeIsFetched` is about
those templates. For the others the run `BlocksHashFirst` refutes it.

*DaemonConfig.* `FloorIsFound` is the invariant of the choice: as long as no index was
missed, the highest version that was listed when the run began has been found already,
or is in an index that the loop over architectures and forms has yet to read, in the
form it will read. `CopiedSoFar` and `EntryHasDigest` say what the copy has done and what
the download has checked.

*UploadLock.* `HoldsLock`: as long as no lock has lapsed, a job that writes holds the lock, under
the id of the attempt it is in; so two that write would hold the same one. What could break it is
a `CopyLock` of another job, which is the contention that `lapses` records, or a `Delete`. For
that, `Examined`: the copy a script has of a lock ages with the lock, and a script about to
delete has seen one that is too old by its clock. So what it deletes is the lock it examined,
which is old, or another with the same body: `"late"` or `"mistaken"`, if its upload is running.
`IdsArePast`: no lock is taken twice under one id, so that an examined lock with the id of the
present one is that lock. No step needs a bound on the length of an upload or the skew.

*DumpHeader.* `RestoresOnlyIntoTarget` is about dumps of every length
and every set of names, servers and connection strings, of which the dump is only required
to be `WellPlaced`: every other database stays as it was, and a restore that succeeds leaves
in the target what it held and all that the dump makes. `IntoTarget` has the claim: what
the session is connected to is the target before any table or row is made.
`FilteringIsCreating` compares two sessions over lists of lines that are one line apart:
alike up to the CREATE DATABASE, and the same one line later. Both go through the lines one
by one; `NatsFromZero` is that induction, stated over sets and proved from the least
counterexample.

*ProviderConfig.* `MergeResolves` and `AcceptedExactly` are the two halves of
`MergeOverlays` for any two configurations; the second needs the defaults to be valid and
to have a default provider, which is what `Load` embeds. `EndpointsAreChecked` says that
nothing unchecked comes out of an accepted configuration.

*DebianVersion.* Versions of any length, with numbers of any size; an epoch must fit an int
(the code takes a larger one for a part of the upstream version). Four facts carry
`OrdersLikeDpkg`. The weights of the code sort the characters, and the end of a text, as the
ranks of the manual page do, although the numbers are others (`WeightsAreRanks`). Runs of digits without leading zeros are ordered by length and then by
the first digit that differs, which is the order of their values (`NumberOrderIs`: what is
ahead after some digits stays ahead, `StaysAhead`). The key of a text is the key of its
beginning and that of the rest, if it is not cut within a number (`KeyJoins`). And the order
of two keys is decided at the first place where they differ (`KeyOrderIs`). So each pass of
the loop either decides the order, and the keys differ first where it does, or takes what is
equal from both, and the keys of what is left are ordered as before (`PassIs`). After n
passes that decided nothing there are at most as many characters left as passes, so the loop
is over within `Len(left) + Len(right)` of them (`CompareIs`). `VersionsAreOrdered` is what
the numbers of `DaemonConfig` stand for: a highest version is one, whatever the order of the
indexes.

*NameTemplate.* `Seen` is the invariant of the scan: as long as it has met no error that it
reports, every opening brace seen so far begins a whole placeholder, whose name is in the
list, or is the one the scan is in. Hence the placeholders of an accepted template are whole
(`Clean`), which is all that is kept of `CheckTemplate`. Replacing a field looks at three
symbols at a time, so it distributes over a concatenation of such texts, as values have no
braces (`ReplaceJoins`, `ReplaceKeepsClean`), and so does the loop over all names
(`FilledJoins`). A template can then be filled in token by token, from its end: `Agree` says
that what it comes to with some fields known, and in each way to know all of them, begin
alike, up to the first placeholder of an open field, where the one has a brace and the others
the value. `PrefixesAreLongest` takes two values that differ; `NewestDumpIsFound` takes the
hours, so that a name of a day has its hour right after the prefix (`HourFollows`), and so
`IsDump` accepts the names of the dumps and nothing else. The walk over a listing then keeps
the latest of those it has met (`Newest`), in whatever order they are listed.

### Assumptions

Those of the modules, under `ASSUME`, which TLC evaluates for its instances:
contents, files, owners and `NoFile` are different things (`DistinctContents`,
`NoFileAssumption`, `OwnersAssumption`, `PackagesAssumption`); the
state hashes and the packages are finitely many, as a listing and an index are; the flags,
layouts and bounds have their types; the limits of the client are not 0, nor is the cap or
the threshold. `CodeAssumption` has the characters of versions: those that are no digits have
ASCII codes, so that neither weights nor ranks are ever 0, and the tilde is no letter.
`SymbolsAssumption` has those of names: two that are no braces, hours that are symbols and no
braces and that have different places in the day.
`NamesAssumption`: database names fold to names, and the empty string is not one.
None of them speaks of the world: `LockAssumption` too gives the types of numbers. What a
theorem asks of the world stands in its statement (`OwnWorkDirs`, `WellPlaced`, `IsVersion`).

### What the proofs changed

- With `maxRedirects = 0` the type invariant of `HttpGet` is false: a first answer
  that is a redirect makes a chain of one before it is refused. The constant
  is 10 in the code; `ClientAssumption` now excludes 0.
- That all of `wanted` is on disk or still to be fetched is not inductive if it is said
  of the fetch alone: it must hold already where `checkCoverage` is about to run.
- Two arms of the height of a listing overlapped; they are a chain of IFs now, in the
  order of the code.
- As a control, without the comparison of the dump's database with the target in
  `CheckDump`, the proof of `RestoresOnlyIntoTarget` fails, at `CheckedDump`.
- `merge` and the session of `psql` were written with `@@` and a fold; `Laid` and `Session`
  are the same functions in a form the provers can expand. The loops of `compareFragment`,
  `placeholders`, `Render` and `newestDump` were recursive operators or folds, and are
  functions of the number of passes now (`Passes`, `Scans`, `Replacements`, `Bests`).
- The questions were those of TLC. They have a module of their own now, without a bound, so
  that one property is both checked and proved.
- The two braces have names (`LeftBrace`, `RightBrace`), as the provers cannot read them in a
  string.

### What is only model-checked

- Liveness: `RunEnds`, `GetReturns`, `CancelledGetReturns`, `StaleLockIsCleared`, and
  `ImplementsFairFetch`, whose safety part is `GetImplementsFetch`. Fairness and ENABLED
  are out of the prover's reach.
- The four disagreements above, which are counterexamples.

## Not modelled

- Texts: logging, progress, the report of `genesis-config`, the JSON of
  `replayer-input`, the validation of `--date`, `--range` syntax and `--ref`.
- The format of archives and indexes (tar, ar, gzip, Packages, YAML): a file that does
  not parse is an error return. The entry names, size limit and symlink rules of
  `extract` are checks of data.
- The escaping of names and URIs, and passwords, in `pg.go` and `dump.go`.
- `replayer-input`: a sequential rewrite of one JSON file.
- Two `daemon-config` runs at a time on one `--out`: files of two packages may mix, and
  nothing promises otherwise.
- What deb-s3 does between seeing no lock and writing one beyond what clear-s3-lock.sh says of
  it (it may look at the lock again, which would only narrow the contention), the index files it
  rewrites, and the jobs' other steps: building, signing, the check of the listing, the CDN.
- Packaging, images, CI.
- ALTER SYSTEM is one step, which is applied before CREATE DATABASE can fail: a run
  that stops there leaves the settings changed.

## Plan

Order of work, with what is done:

1. `Fetch`, `AtomicGet` - done. Everything else rests on a Get.
2. `ArchiveRestore`, `TargetDatabase`, `ArchiveProofs` - done.
3. `Blocks` - done.
4. `DaemonConfig`, `DebianVersion` - done.
5. `HttpClient`, `HttpGet` - done.
6. `NameTemplate`, `DumpHeader`, `ProviderConfig` - done.
7. `UploadLock` - done.
8. `FetchProofs`, and the refinement of `AtomicGet` - done.
9. `UploadLockProofs` - done.
10. `HttpProofs`, and the refinement of `Fetch` - done.
11. `BlocksProofs` - done.
12. `DaemonConfigProofs` - done.
13. `Questions`, `QuestionProofs` - done.
14. `TextProofs` - done. Every invariant and every action property of the runs that pass is a
    theorem now, and so is the safety part of the refinements.
15. The configuration of two `daemon-config` runs on one `--out`, and a daemon that reads
    while one is written: what can still be said of a file then.
16. The lock and the index files of deb-s3 in full, if its source is ever vendored: which entries
    two uploads that contend for the lock can lose.
