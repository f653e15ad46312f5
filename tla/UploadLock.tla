----------------------------- MODULE UploadLock -----------------------------
(***************************************************************************)
(* The lock of a distribution in the apt bucket: the upload step of        *)
(* .github/workflows/release.yml with its attempts, and                    *)
(* .github/scripts/clear-s3-lock.sh, which it runs between two of them.    *)
(* Jobs of several releases, and of other packages, share the bucket.      *)
(*                                                                         *)
(* deb-s3 is external, as those files describe it: an upload that sees no  *)
(* lockfile "writes dists/<codename>/lockfile.lock, then copies it to      *)
(* dists/<codename>/lockfile", and deletes the lockfile at its end. These  *)
(* are steps of their own, so two uploads can both take the lock. An       *)
(* upload lasts as long as it likes.                                       *)
(*                                                                         *)
(* There is no clock, there are ages and timers, which a Tick moves. The   *)
(* script compares the clock of S3 with its own: Skew is what they differ. *)
(***************************************************************************)
EXTENDS Integers, FiniteSets

CONSTANTS
  Jobs, Bodies,          \* upload jobs; "<user>@<host>", the body of a lock
  Attempts,              \* of a job
  STALE_AFTER_SECONDS, Skew,
  MaxErrors              \* requests of the script that fail

ASSUME LockAssumption ==
  /\ {STALE_AFTER_SECONDS, Skew, MaxErrors} \subseteq Nat
  /\ Attempts \in Nat \ {0}

VARIABLES
  lock,      \* the lockfile of the codename
  stored,    \* the body of its lockfile.lock
  job,
  errors,    \* that the script has still to meet
  lapses     \* observation: how a running upload has lost its lock

vars == <<lock, stored, job, errors, lapses>>

(* The id is the upload that took a lock, for the properties. *)
NoLock == [id |-> <<>>]
Held   == lock # NoLock

(* Ages are counted up to the first one that is old by every clock. *)
Old        == STALE_AFTER_SECONDS + Skew + 1
Older(age) == IF age < Old THEN age + 1 ELSE age
Aged(copy) == [copy EXCEPT !.age = Older(@)]

NoHead == [etag |-> "", age |-> 0, id |-> <<>>]

Init ==
  /\ \E body \in [Jobs -> Bodies] :
       job = [j \in Jobs |-> [at |-> "new", body |-> body[j], attempt |-> 0, left |-> 0, head |-> NoHead]]
  /\ lock = NoLock /\ stored \in Bodies /\ errors \in 0 .. MaxErrors /\ lapses = {}

At(j, place) == job[j].at = place

Move(j, place) == job' = [job EXCEPT ![j].at = place]

(* An upload is running: the attempt that an id names still writes. *)
Running(id) == At(id[1], "writes") /\ job[id[1]].attempt = id[2]

(* for attempt in 1 2 3 4 5: the first, or after the back-off. *)
Attempt(j) ==
  /\ At(j, "new") \/ (At(j, "asleep") /\ job[j].left = 0)
  /\ job' = [job EXCEPT ![j].at = "waits", ![j].attempt = @ + 1]
  /\ UNCHANGED <<lock, stored, errors, lapses>>

-----------------------------------------------------------------------------
(* deb-s3 upload --lock: no lockfile is seen. *)
SeeNoLock(j) ==
  /\ At(j, "waits") /\ ~Held /\ Move(j, "stores")
  /\ UNCHANGED <<lock, stored, errors, lapses>>

StoreLock(j) ==
  /\ At(j, "stores") /\ Move(j, "copies")
  /\ stored' = job[j].body
  /\ UNCHANGED <<lock, errors, lapses>>

(* The copy has the body that is stored by now, and replaces a lockfile that *)
(* another upload has copied meanwhile.                                      *)
CopyLock(j) ==
  /\ At(j, "copies") /\ Move(j, "writes")
  /\ lock' = [etag |-> stored, age |-> 0, id |-> <<j, job[j].attempt>>]
  /\ lapses' = lapses \cup (IF Held /\ Running(lock.id) THEN {"contended"} ELSE {})
  /\ UNCHANGED <<stored, errors>>

Published(j) ==
  /\ At(j, "writes") /\ Move(j, "published")
  /\ lock' = NoLock
  /\ UNCHANGED <<stored, errors, lapses>>

(* Mutant: the last two attempts have no check between them. *)
ChecksAfterButOne(attempt) == attempt < Attempts - 1

(* if [ "$attempt" -lt 5 ] *)
ChecksAfter(attempt) == attempt < Attempts

(* The end of an attempt that failed. *)
Failed(j) == Move(j, IF job[j].attempt = Attempts THEN "failed"
                     ELSE IF ChecksAfter(job[j].attempt) THEN "examines" ELSE "asleep")

(* deb-s3 gives up waiting, fails and unlocks, or dies with the lock held. *)
GiveUp(j) ==
  /\ At(j, "waits") /\ Held /\ Failed(j)
  /\ UNCHANGED <<lock, stored, errors, lapses>>

UploadFails(j) ==
  /\ job[j].at \in {"stores", "copies", "writes"} /\ Failed(j)
  /\ lock' = lock \/ (At(j, "writes") /\ lock' = NoLock)
  /\ UNCHANGED <<stored, errors, lapses>>

-----------------------------------------------------------------------------
(* clear-s3-lock.sh; its exit status is not used. sleep $((attempt * 30)), *)
(* in units of 30 seconds.                                                 *)
Sleep(j) == job' = [job EXCEPT ![j].at = "asleep", ![j].left = job[j].attempt, ![j].head = NoHead]

(* head-object, with a lock, without one (404), or with an error. *)
Examine(j) ==
  /\ At(j, "examines")
  /\ IF Held THEN job' = [job EXCEPT ![j].at = "compares", ![j].head = lock] ELSE Sleep(j)
  /\ UNCHANGED <<lock, stored, errors, lapses>>

(* A request that fails ends the script, and so the check. *)
RequestFails(j) ==
  /\ At(j, "examines") \/ At(j, "deletes")
  /\ errors > 0 /\ errors' = errors - 1
  /\ Sleep(j)
  /\ UNCHANGED <<lock, stored, lapses>>

(* "$age" -le "$STALE_AFTER_SECONDS", on the clock of the runner. *)
CompareAge(j) ==
  /\ At(j, "compares")
  /\ \E skew \in -Skew .. Skew :
       IF job[j].head.age + skew <= STALE_AFTER_SECONDS THEN Sleep(j) ELSE Move(j, "deletes")
  /\ UNCHANGED <<lock, stored, errors, lapses>>

(* Mutant: delete-object without a condition. *)
MatchesAny(head) == TRUE

(* --if-match "$etag" *)
Matches(head) == Held => lock.etag = head.etag

(* What the script's comment says it cannot tell: a running upload is held *)
(* for dead, as its lock is old, or for an older one, as the bodies agree. *)
Lapse(head) ==
  IF ~(Held /\ Running(lock.id) /\ lock.etag = head.etag) THEN {}
  ELSE IF lock.id # head.id THEN {"mistaken"}
  ELSE IF lock.age + Skew > STALE_AFTER_SECONDS THEN {"late"} ELSE {}

(* Deleted, gone already (NoSuchKey), or replaced (PreconditionFailed). *)
Delete(j) ==
  /\ At(j, "deletes") /\ Sleep(j)
  /\ lock' = IF Matches(job[j].head) THEN NoLock ELSE lock
  /\ lapses' = lapses \cup Lapse(job[j].head)
  /\ UNCHANGED <<stored, errors>>

-----------------------------------------------------------------------------
(* The runner goes away: what it holds stays. *)
Kill(j) ==
  /\ ~At(j, "published") /\ ~At(j, "failed") /\ ~At(j, "killed")
  /\ Move(j, "killed")
  /\ UNCHANGED <<lock, stored, errors, lapses>>

Tick ==
  /\ lock' = IF Held THEN Aged(lock) ELSE lock
  /\ job' = [j \in Jobs |->
       [job[j] EXCEPT !.left = IF @ > 0 THEN @ - 1 ELSE 0,
                      !.head = IF @ # NoHead THEN Aged(@) ELSE @]]
  /\ UNCHANGED <<stored, errors, lapses>>

Step(j) ==
  \/ Attempt(j)
  \/ SeeNoLock(j)
  \/ StoreLock(j)
  \/ CopyLock(j)
  \/ Published(j)
  \/ GiveUp(j)
  \/ UploadFails(j)
  \/ Examine(j)
  \/ CompareAge(j)
  \/ Delete(j)
  \/ RequestFails(j)

Next == (\E j \in Jobs : Step(j) \/ Kill(j)) \/ Tick

(* A job goes on, and time does. *)
Spec == Init /\ [][Next]_vars /\ (\A j \in Jobs : WF_vars(Step(j))) /\ WF_vars(Tick)

-----------------------------------------------------------------------------
(* "removing [a young lock] would let two writers rewrite the same index":   *)
(* two uploads write at a time only after one of three lapses, whoever       *)
(* examines and deletes whose lock in between. "Two jobs uploading at once   *)
(* contend for that lock and can drop each other's entries" (release.yml):   *)
(* one copied its lock over that of the other. The script took away the lock *)
(* of an upload that goes on for longer than the threshold, or one with the  *)
(* body of the lock it had examined.                                         *)
OneWriter == lapses = {} => Cardinality({j \in Jobs : At(j, "writes")}) <= 1

(* "A process that dies ... leaves the lock behind, and every later upload  *)
(* to that distribution blocks on it": a lock that is old by every clock    *)
(* and whose upload is over does not outlast a job that has a check to come *)
(* whose requests are answered.                                             *)
StaleLockIsCleared ==
  \A id \in Jobs \X (1 .. Attempts), j \in Jobs :
    (/\ lock.id = id /\ ~Running(id) /\ lock.age = Old
     /\ At(j, "waits") /\ Attempts - job[j].attempt > errors)
      ~> (lock.id # id \/ At(j, "killed"))
=============================================================================
