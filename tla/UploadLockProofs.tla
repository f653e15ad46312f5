--------------------------- MODULE UploadLockProofs --------------------------
(* Proofs about UploadLock, for any jobs, attempts, thresholds and clocks. *)
EXTENDS UploadLock, Sequences, FiniteSetTheorems, TLAPS

(* The numbers of the lock. *)
LEMMA Numbers ==
  /\ STALE_AFTER_SECONDS \in Nat /\ Skew \in Nat /\ MaxErrors \in Nat
  /\ Attempts \in Nat /\ Attempts > 0
  BY LockAssumption

USE Numbers

(***************************************************************************)
(* The types. A lock is known by the attempt that took it, and a job makes *)
(* no more than Attempts of them.                                          *)
(***************************************************************************)
Lock   == [etag : Bodies, age : 0 .. Old, id : Jobs \X (1 .. Attempts)]
Heads  == Lock \cup {NoHead}
Trying == {"waits", "stores", "copies", "writes"}
Lapses == {"contended", "late", "mistaken"}
Between == {"examines", "compares", "deletes", "asleep"}
Over   == {"published", "failed", "killed"}

Job == [at : {"new"} \cup Trying \cup Between \cup Over, body : Bodies,
        attempt : 0 .. Attempts, left : Nat, head : Heads]

Types ==
  /\ lock \in Lock \cup {NoLock}
  /\ job \in [Jobs -> Job]
  /\ stored \in Bodies /\ errors \in Nat /\ lapses \subseteq Lapses
  /\ \A j \in Jobs :
       /\ At(j, "new") => job[j].attempt = 0
       /\ job[j].at \in Trying => job[j].attempt > 0
       /\ job[j].at \in Between => job[j].attempt < Attempts
       /\ job[j].at \in {"compares", "deletes"} => job[j].head # NoHead

(***************************************************************************)
(* No lock is taken twice under one id: an id that is held or was examined *)
(* is of an attempt that has begun, and of an earlier one while its job    *)
(* has not taken the lock.                                                 *)
(***************************************************************************)
Past(id) ==
  /\ id[2] <= job[id[1]].attempt
  /\ job[id[1]].at \in Trying \ {"writes"} => id[2] < job[id[1]].attempt

IdsArePast ==
  /\ Held => Past(lock.id)
  /\ \A j \in Jobs : job[j].head # NoHead => Past(job[j].head.id)

(* The lock that a job examined has aged with the copy the job has of it. *)
Examined(j) ==
  /\ job[j].head # NoHead /\ Held /\ lock.id = job[j].head.id
       => lock.age = job[j].head.age
  /\ At(j, "deletes") => job[j].head.age + Skew > STALE_AFTER_SECONDS

(* A job that writes holds the lock, as long as no lock lapsed. *)
HoldsLock(j) ==
  At(j, "writes") /\ lapses = {} => Held /\ lock.id = <<j, job[j].attempt>>

Inv ==
  /\ Types
  /\ IdsArePast
  /\ \A j \in Jobs : Examined(j) /\ HoldsLock(j)

-----------------------------------------------------------------------------
(* No lock is told from a lock by its id. *)
LEMMA NoneIsNoLock == NoLock \notin Lock /\ NoHead \notin Lock
<1>1. ASSUME NEW l \in Lock PROVE l.id # <<>>
  <2>1. l.id \in Jobs \X (1 .. Attempts)
    BY DEF Lock
  <2>2. QED
    BY <2>1
<1>2. QED
  BY <1>1 DEF NoLock, NoHead

(* Ages stay within their bounds, and move until they are old. *)
LEMMA OlderType ==
  ASSUME NEW age \in 0 .. Old
  PROVE  /\ Older(age) \in 0 .. Old /\ Older(age) >= age
         /\ age < Old => Older(age) = age + 1
  BY DEF Older, Old

(* The initial states satisfy the invariant. *)
LEMMA InvInit == Init => Inv
<1> SUFFICES ASSUME Init PROVE Inv
  OBVIOUS
<1>1. PICK body \in [Jobs -> Bodies] :
        job = [j \in Jobs |-> [at |-> "new", body |-> body[j], attempt |-> 0, left |-> 0, head |-> NoHead]]
  BY DEF Init
<1>2. ASSUME NEW j \in Jobs
      PROVE  job[j].at = "new" /\ job[j].attempt = 0 /\ job[j].head = NoHead
  <2>1. job[j] = [at |-> "new", body |-> body[j], attempt |-> 0, left |-> 0, head |-> NoHead]
    BY <1>1
  <2>2. QED
    BY <2>1
<1>3. job \in [Jobs -> Job]
  BY <1>1 DEF Job, Heads
<1>4. Types
  <2>1. lock = NoLock /\ stored \in Bodies /\ errors \in Nat /\ lapses = {}
    BY DEF Init
  <2>2. QED
    BY <1>2, <1>3, <2>1 DEF Types, At, Trying, Between
<1>5. ~Held /\ \A j \in Jobs : At(j, "new") /\ job[j].head = NoHead
  BY <1>2 DEF Init, Held, At
<1>6. IdsArePast /\ \A j \in Jobs : Examined(j) /\ HoldsLock(j)
  BY <1>5 DEF IdsArePast, Examined, HoldsLock, At
<1>7. QED
  BY <1>4, <1>6 DEF Inv

(* What a job is after the script has ended and its back-off begins. *)
LEMMA Sleeps ==
  ASSUME Types, NEW j \in Jobs, Sleep(j), job[j].at \in Between
  PROVE  /\ job' \in [Jobs -> Job]
         /\ \A i \in Jobs : i # j => job'[i] = job[i]
         /\ job'[j].at = "asleep" /\ job'[j].attempt = job[j].attempt /\ job'[j].head = NoHead
<1>1. job[j] \in Job /\ job[j].attempt \in Nat
  BY DEF Types, Job
<1> DEFINE after == [job[j] EXCEPT !.at = "asleep", !.left = job[j].attempt, !.head = NoHead]
<1>2. job' = [job EXCEPT ![j] = after]
  BY DEF Sleep
<1>3. after \in Job
  BY <1>1 DEF Job, Heads, Between
<1>4. after.at = "asleep" /\ after.attempt = job[j].attempt /\ after.head = NoHead
  BY <1>1 DEF Job
<1> HIDE DEF after
<1>5. QED
  BY <1>2, <1>3, <1>4 DEF Types

(* The steps of a job keep the types. *)
LEMMA TypesStep ==
  ASSUME Types, NEW j \in Jobs, Step(j) \/ Kill(j)
  PROVE  Types'
<1> USE DEF Types, Job, Heads, Trying, Between, Over, At, Move, Sleep, Held
<1>1. CASE Attempt(j) BY <1>1 DEF Attempt
<1>2. CASE CopyLock(j)
  <2>1. lock' \in Lock
    BY <1>2 DEF CopyLock, Lock, Old
  <2>2. job' \in [Jobs -> Job]
    BY <1>2 DEF CopyLock
  <2>3. lapses' \subseteq Lapses
    BY <1>2 DEF CopyLock, Lapses
  <2>4. QED
    BY <1>2, <2>1, <2>2, <2>3 DEF CopyLock
<1>3. CASE Published(j) BY <1>3 DEF Published
<1>4. CASE GiveUp(j) BY <1>4 DEF GiveUp, Failed, ChecksAfter
<1>5. CASE UploadFails(j) BY <1>5 DEF UploadFails, Failed, ChecksAfter
<1>6. CASE Examine(j) BY <1>6, NoneIsNoLock DEF Examine
<1>7. CASE CompareAge(j) BY <1>7 DEF CompareAge
<1>8. CASE Delete(j)
  <2>1. lapses' \subseteq Lapses
    BY <1>8 DEF Delete, Lapse, Lapses
  <2>2. lock' \in {lock, NoLock}
    BY <1>8 DEF Delete
  <2>3. QED
    BY <1>8, <2>1, <2>2, Sleeps DEF Delete
<1>9. CASE RequestFails(j)
  <2>1. errors' \in Nat
    BY <1>9 DEF RequestFails
  <2>2. QED
    BY <1>9, <2>1, Sleeps DEF RequestFails
<1>10. CASE Kill(j) BY <1>10 DEF Kill
<1>11. CASE SeeNoLock(j) BY <1>11 DEF SeeNoLock
<1>12. CASE StoreLock(j) BY <1>12 DEF StoreLock
<1>13. QED
  BY <1>1, <1>2, <1>3, <1>4, <1>5, <1>6, <1>7, <1>8, <1>9, <1>10, <1>11, <1>12 DEF Step

(* What a step of a job leaves of every job and of the lock. *)
LEMMA Moves ==
  ASSUME Types, NEW j \in Jobs, Step(j) \/ Kill(j)
  PROVE  /\ \A i \in Jobs : i # j => job'[i] = job[i]
         /\ \/ job'[j].attempt > job[j].attempt
            \/ /\ job'[j].attempt = job[j].attempt
               /\ job'[j].at \in Trying \ {"writes"} => job[j].at \in Trying \ {"writes"}
         /\ \/ job'[j].head \in {job[j].head, NoHead}
            \/ Held /\ lock' = lock /\ job'[j].head = lock
         /\ At(j, "writes")' => CopyLock(j)
         /\ At(j, "deletes")' => CompareAge(j)
         /\ lock' \in {lock, NoLock} \/ CopyLock(j)
         /\ lapses \subseteq lapses'
<1> USE DEF Types, Job, Trying, Between, Over, At, Move
<1>1. CASE Attempt(j) BY <1>1 DEF Attempt
<1>2. CASE CopyLock(j) BY <1>2 DEF CopyLock
<1>3. CASE Published(j) BY <1>3 DEF Published
<1>4. CASE GiveUp(j) BY <1>4 DEF GiveUp, Failed
<1>5. CASE UploadFails(j) BY <1>5 DEF UploadFails, Failed
<1>6. CASE Examine(j) BY <1>6, Sleeps DEF Examine
<1>7. CASE CompareAge(j) BY <1>7, Sleeps DEF CompareAge
<1>8. CASE Delete(j) BY <1>8, Sleeps DEF Delete
<1>9. CASE RequestFails(j) BY <1>9, Sleeps DEF RequestFails
<1>10. CASE Kill(j) BY <1>10 DEF Kill
<1>11. CASE SeeNoLock(j) BY <1>11 DEF SeeNoLock
<1>12. CASE StoreLock(j) BY <1>12 DEF StoreLock
<1>13. QED
  BY <1>1, <1>2, <1>3, <1>4, <1>5, <1>6, <1>7, <1>8, <1>9, <1>10, <1>11, <1>12 DEF Step

(* The id of a lock, and of a copy of one, is that of an attempt. *)
LEMMA Ids ==
  ASSUME Types
  PROVE  /\ Held => lock \in Lock /\ lock.id \in Jobs \X (1 .. Attempts)
         /\ \A j \in Jobs : job[j].head # NoHead =>
              job[j].head \in Lock /\ job[j].head.id \in Jobs \X (1 .. Attempts)
  BY DEF Types, Held, Job, Heads, Lock

(* The ids of locks stay those of attempts that have begun. *)
LEMMA IdsArePastStep ==
  ASSUME Types, Types', IdsArePast, NEW j \in Jobs, Step(j) \/ Kill(j)
  PROVE  IdsArePast'
<1>1. ASSUME NEW id \in Jobs \X (1 .. Attempts), Past(id) PROVE Past(id)'
  <2>1. PICK i \in Jobs, n \in 1 .. Attempts : id = <<i, n>>
    OBVIOUS
  <2>2. job[i].attempt \in Nat /\ job'[i].attempt \in Nat
    BY DEF Types, Job
  <2>3. QED
    BY <1>1, <2>1, <2>2, Moves DEF Past, At
<1>2. ASSUME Held' PROVE Past(lock.id)'
  <2>1. CASE CopyLock(j)
    <3>1. lock'.id = <<j, job[j].attempt>>
      BY <2>1 DEF CopyLock
    <3>2. job'[j].at = "writes" /\ job'[j].attempt = job[j].attempt /\ job[j].attempt \in Nat
      BY <2>1 DEF CopyLock, Move, Types, Job
    <3>3. QED
      BY <3>1, <3>2 DEF Past, At
  <2>2. CASE lock' = lock
    BY <1>1, <1>2, <2>2, Ids DEF IdsArePast, Held
  <2>3. QED
    BY <1>2, <2>1, <2>2, Moves DEF Held
<1>3. ASSUME NEW i \in Jobs, job'[i].head # NoHead PROVE Past(job[i].head.id)'
  <2>1. CASE job'[i].head = job[i].head
    BY <1>1, <1>3, <2>1, Ids DEF IdsArePast, Past, At
  <2>2. CASE Held /\ job'[i].head = lock
    BY <1>1, <2>2, Ids DEF IdsArePast, Past, At
  <2>3. QED
    BY <1>3, <2>1, <2>2, Moves
<1>4. QED
  BY <1>2, <1>3 DEF IdsArePast

(* The copies of the lock keep its age, and what a job is about to delete *)
(* is old enough by its own clock.                                        *)
LEMMA ExaminedStep ==
  ASSUME Types, Types', IdsArePast, NEW j \in Jobs, Step(j) \/ Kill(j),
         NEW i \in Jobs, Examined(i)
  PROVE  Examined(i)'
<1>1. ASSUME job'[i].head # NoHead, Held', lock'.id = job'[i].head.id
      PROVE  lock'.age = job'[i].head.age
  <2>1. CASE CopyLock(j)
    <3>1. lock'.id = <<j, job[j].attempt>> /\ At(j, "copies")
      BY <2>1 DEF CopyLock
    <3>2. job'[i].head = job[i].head
      BY <2>1 DEF CopyLock, Move, Types, Job
    <3>3. Past(<<j, job[j].attempt>>)
      BY <1>1, <3>1, <3>2 DEF IdsArePast
    <3>4. job[j].attempt \in Nat
      BY DEF Types, Job
    <3>5. QED
      BY <3>1, <3>3, <3>4 DEF Past, At, Trying
  <2>2. CASE lock' = lock
    <3>1. CASE job'[i].head = job[i].head
      BY <1>1, <2>2, <3>1 DEF Examined, Held
    <3>2. CASE job'[i].head = lock
      BY <2>2, <3>2
    <3>3. QED
      BY <1>1, <3>1, <3>2, Moves
  <2>3. QED
    BY <1>1, <2>1, <2>2, Moves DEF Held
<1>2. ASSUME At(i, "deletes")' PROVE job'[i].head.age + Skew > STALE_AFTER_SECONDS
  <2>1. CASE i # j
    BY <1>2, <2>1, Moves DEF Examined, At
  <2>2. CASE i = j
    <3>1. CompareAge(j)
      BY <1>2, <2>2, Moves
    <3>2. job[j].head \in Lock /\ job[j].head.age \in Nat
      BY <3>1, Ids DEF CompareAge, Types, At, Lock
    <3>3. PICK skew \in -Skew .. Skew :
            IF job[j].head.age + skew <= STALE_AFTER_SECONDS THEN Sleep(j) ELSE Move(j, "deletes")
      BY <3>1 DEF CompareAge
    <3>4. ~(job[j].head.age + skew <= STALE_AFTER_SECONDS)
      <4>1. Sleep(j) => ~At(j, "deletes")'
        BY <3>1, Sleeps DEF CompareAge, At, Between
      <4>2. QED
        BY <1>2, <2>2, <3>3, <4>1
    <3>5. job'[j].head = job[j].head
      BY <3>3, <3>4 DEF Move, Types, Job
    <3>6. QED
      BY <2>2, <3>2, <3>4, <3>5
  <2>3. QED
    BY <2>1, <2>2
<1>3. QED
  BY <1>1, <1>2 DEF Examined

(* Nobody takes or removes the lock of another job that writes: a copy over *)
(* its lock is a lapse, the end of an upload is that of the holder, and what *)
(* the script deletes is a lapse too, as it is old or another lock.          *)
LEMMA HoldsLockStep ==
  ASSUME Inv, Types', NEW j \in Jobs, Step(j) \/ Kill(j), NEW i \in Jobs
  PROVE  HoldsLock(i)'
<1> SUFFICES ASSUME At(i, "writes")', lapses' = {}
             PROVE  Held' /\ lock'.id = <<i, job'[i].attempt>>
  BY DEF HoldsLock
<1>1. Types /\ HoldsLock(i) /\ HoldsLock(j) /\ Examined(j)
  BY DEF Inv
<1>2. CASE i = j
  <2>1. CopyLock(j)
    BY <1>1, <1>2, Moves
  <2>2. lock' = [etag |-> stored, age |-> 0, id |-> <<j, job[j].attempt>>]
    BY <2>1 DEF CopyLock
  <2>3. job'[j].attempt = job[j].attempt
    BY <1>1, <2>1 DEF CopyLock, Move, Types, Job
  <2>4. Held'
    BY <2>2, NoneIsNoLock DEF Held, NoLock
  <2>5. QED
    BY <1>2, <2>2, <2>3, <2>4
<1>3. CASE i # j
  <2>1. job'[i] = job[i] /\ lapses = {} /\ At(i, "writes")
    BY <1>1, <1>3, Moves DEF At
  <2>2. Held /\ lock.id = <<i, job[i].attempt>>
    BY <1>1, <2>1 DEF HoldsLock
  <2>3. Running(lock.id)
    BY <2>1, <2>2 DEF Running
  <2>4. ~At(j, "writes") /\ ~CopyLock(j)
    <3>1. ~At(j, "writes")
      BY <1>1, <1>3, <2>1, <2>2 DEF HoldsLock
    <3>2. ~CopyLock(j)
      BY <2>2, <2>3 DEF CopyLock
    <3>3. QED
      BY <3>1, <3>2
  <2>5. ASSUME Delete(j) PROVE lock' = lock
    <3>1. job[j].head # NoHead /\ job[j].head.age + Skew > STALE_AFTER_SECONDS
      BY <1>1, <2>5 DEF Delete, Examined, Types, At
    <3>2. lock.id = job[j].head.id => lock.age + Skew > STALE_AFTER_SECONDS
      BY <1>1, <2>2, <3>1 DEF Examined
    <3>3. lock.etag # job[j].head.etag
      BY <2>2, <2>3, <2>5, <3>2 DEF Delete, Lapse
    <3>4. QED
      BY <2>2, <2>5, <3>3 DEF Delete, Matches
  <2>6. lock' = lock
    BY <2>2, <2>4, <2>5 DEF Step, Attempt, SeeNoLock, StoreLock, Published, GiveUp, UploadFails,
       Examine, CompareAge, RequestFails, Kill, At
  <2>7. QED
    BY <2>1, <2>2, <2>6 DEF Held
<1>4. QED
  BY <1>2, <1>3

-----------------------------------------------------------------------------
(* What a tick leaves of a job and of the lock. *)
LEMMA Ticks ==
  ASSUME Types, Tick
  PROVE  /\ job' \in [Jobs -> Job]
         /\ \A j \in Jobs :
              /\ job'[j].at = job[j].at /\ job'[j].attempt = job[j].attempt
              /\ job[j].left > 0 => job'[j].left = job[j].left - 1
              /\ job[j].head = NoHead => job'[j].head = NoHead
              /\ job[j].head # NoHead =>
                   /\ job'[j].head # NoHead /\ job'[j].head.id = job[j].head.id
                   /\ job'[j].head.age = Older(job[j].head.age)
         /\ lock' \in Lock \cup {NoLock}
         /\ ~Held => ~Held'
         /\ Held => Held' /\ lock'.id = lock.id /\ lock'.age = Older(lock.age)
<1>1. ASSUME NEW l \in Lock
      PROVE  Aged(l) \in Lock /\ Aged(l).id = l.id /\ Aged(l).age = Older(l.age)
  BY OlderType DEF Lock, Aged
<1>2. /\ lock' \in Lock \cup {NoLock}
      /\ ~Held => ~Held'
      /\ Held => Held' /\ lock'.id = lock.id /\ lock'.age = Older(lock.age)
  BY <1>1, NoneIsNoLock DEF Types, Tick, Held
<1> DEFINE Less(n) == IF n > 0 THEN n - 1 ELSE 0
           Copy(h) == IF h # NoHead THEN Aged(h) ELSE h
<1>3. ASSUME NEW j \in Jobs
      PROVE  /\ Copy(job[j].head) \in Heads
             /\ job[j].head = NoHead => Copy(job[j].head) = NoHead
             /\ job[j].head # NoHead =>
                   /\ Copy(job[j].head) # NoHead /\ Copy(job[j].head).id = job[j].head.id
                   /\ Copy(job[j].head).age = Older(job[j].head.age)
  BY <1>1, NoneIsNoLock, Ids DEF Heads
<1>4. ASSUME NEW j \in Jobs PROVE job[j] \in Job /\ Less(job[j].left) \in Nat
  BY DEF Types, Job
<1>5. job' = [j \in Jobs |-> [job[j] EXCEPT !.left = Less(@), !.head = Copy(@)]]
  BY DEF Tick
<1> HIDE DEF Less, Copy
<1>6. ASSUME NEW j \in Jobs
      PROVE  /\ job'[j] \in Job
             /\ job'[j].at = job[j].at /\ job'[j].attempt = job[j].attempt
             /\ job'[j].left = Less(job[j].left) /\ job'[j].head = Copy(job[j].head)
  BY <1>3, <1>4, <1>5 DEF Job
<1>7. job' \in [Jobs -> Job]
  BY <1>5, <1>6, Zenon
<1>8. QED
  BY <1>2, <1>3, <1>6, <1>7 DEF Less

(* A tick keeps the invariant: the lock and its copies age together. *)
LEMMA InvTick == Inv /\ Tick => Inv'
<1> SUFFICES ASSUME Inv, Tick PROVE Inv'
  OBVIOUS
<1>1. Types /\ IdsArePast /\ UNCHANGED <<stored, errors, lapses>>
  BY DEF Inv, Tick
<1>2. Types'
  BY <1>1, Ticks DEF Types, At
<1>3. IdsArePast'
  <2>1. ASSUME NEW id \in Jobs \X (1 .. Attempts), Past(id) PROVE Past(id)'
    BY <1>1, <2>1, Ticks DEF Past, At
  <2>2. QED
    BY <1>1, <2>1, Ticks, Ids DEF IdsArePast, Past, At
<1>4. ASSUME NEW j \in Jobs PROVE Examined(j)'
  <2>1. Examined(j)
    BY DEF Inv
  <2>2. ASSUME At(j, "deletes")' PROVE job'[j].head.age + Skew > STALE_AFTER_SECONDS
    <3>1. /\ job[j].head # NoHead /\ job[j].head.age \in 0 .. Old
          /\ job[j].head.age + Skew > STALE_AFTER_SECONDS
      BY <1>1, <2>1, <2>2, Ticks, Ids DEF Types, Examined, At, Lock
    <3>2. QED
      BY <1>1, <3>1, Ticks, OlderType DEF Old
  <2>3. QED
    BY <1>1, <2>1, <2>2, Ticks DEF Examined
<1>5. ASSUME NEW j \in Jobs PROVE HoldsLock(j)'
  BY <1>1, Ticks DEF Inv, HoldsLock, At
<1>6. QED
  BY <1>2, <1>3, <1>4, <1>5 DEF Inv

(* The inductive invariant holds in every state. *)
THEOREM Invariance == Spec => []Inv
<1>1. ASSUME Inv, NEW j \in Jobs, Step(j) \/ Kill(j) PROVE Inv'
  <2>1. Types /\ IdsArePast /\ Types'
    BY <1>1, TypesStep DEF Inv
  <2>2. QED
    BY <1>1, <2>1, IdsArePastStep, ExaminedStep, HoldsLockStep DEF Inv
<1>2. ASSUME Inv, UNCHANGED vars PROVE Inv'
  BY <1>2 DEF vars, Inv, Types, IdsArePast, Past, Examined, HoldsLock, At, Held
<1>3. Inv /\ [Next]_vars => Inv'
  BY <1>1, <1>2, InvTick DEF Next
<1>4. QED
  BY <1>3, InvInit, PTL DEF Spec

(* Two uploads write at a time only after one of three lapses: one copied    *)
(* its lock over the lock of the other, or the script deleted the lock of an *)
(* upload that goes on for longer than the threshold, or one with the body   *)
(* of the lock it had examined. For any jobs, bodies, attempts, thresholds   *)
(* and clocks, and uploads of any length.                                    *)
THEOREM WritesAlone == Spec => []OneWriter
<1>1. ASSUME Inv PROVE OneWriter
  <2> DEFINE Writers == {j \in Jobs : At(j, "writes")}
  <2> SUFFICES ASSUME lapses = {} PROVE Cardinality(Writers) <= 1
    BY DEF OneWriter
  <2>1. ASSUME NEW i \in Writers, NEW j \in Writers PROVE i = j
    BY <1>1 DEF Inv, HoldsLock
  <2> HIDE DEF Writers
  <2>2. CASE Writers = {}
    BY <2>2, FS_EmptySet
  <2>3. CASE \E i \in Writers : Writers = {i}
    BY <2>3, FS_Singleton
  <2>4. QED
    BY <2>1, <2>2, <2>3
<1>2. QED
  BY <1>1, Invariance, PTL
=============================================================================
