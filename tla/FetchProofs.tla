----------------------------- MODULE FetchProofs ----------------------------
(* Proofs about Fetch, for any set of runs, any versions and any bounds. *)
EXTENDS Fetch, TLAPS

USE DistinctContents, ArtifactsAssumption, BoundsAssumption, NoFileAssumption

(***************************************************************************)
(* The inductive invariant. A run has a temporary file exactly while it is *)
(* at one of the steps that work on it; what it reads was served, or named *)
(* by the sidecar, during this Get; what it has verified and is about to   *)
(* place is current, vouched for and, once it is synced, durable. A file   *)
(* gets to the destination by Rename only, so the destination is durable.  *)
(***************************************************************************)
HasTemp(r) == pc[r] \in WithTemp <=> tmp[r] # NoFile

Plan(r) ==
  /\ pc[r] \in {"stat", "compare", "vouch_dst", "hash_dst"} => backend = "gcs"
  /\ pc[r] \in {"vouch_dst", "hash_dst", "vouch", "hash"} => checked

Observed(r) ==
  pc[r] \in Active => object \in offered[r] /\ sidecar \in vouched[r] \cup {NoVersion}

Read(r) ==
  /\ pc[r] = "copy" => reading[r] \in offered[r]
  /\ pc[r] = "compare" => want[r] \in offered[r]
  /\ pc[r] \in {"hash", "hash_dst"} => want[r] \in vouched[r]

Current(r, content) == content \in offered[r] \/ (Unchecked /\ content = Torn)

Fetched(r) ==
  /\ pc[r] \in {"vouch", "hash"} =>
       tmp[r].content \in offered[r] \/ (backend = "file" /\ tmp[r].content = Torn)
  /\ pc[r] \in {"ctx", "sync", "close", "rename"} =>
       Current(r, tmp[r].content) /\ (checked => tmp[r].content \in vouched[r])
  /\ pc[r] \in {"close", "rename"} => tmp[r].synced

RunInv(r) == HasTemp(r) /\ Plan(r) /\ Observed(r) /\ Read(r) /\ Fetched(r)

Durable(file) == file # NoFile => file.synced

Inv ==
  /\ TypeOK
  /\ \A r \in Runs : RunInv(r)
  /\ Durable(dst) /\ Durable(dstDisk)
  /\ SuccessIsCurrent /\ SuccessIsVouched

-----------------------------------------------------------------------------
(* A file that a run has created is a file, and there. *)
LEMMA FileExists ==
  ASSUME NEW c \in Contents, NEW b \in BOOLEAN
  PROVE  /\ [content |-> c, synced |-> b] \in File
         /\ [content |-> c, synced |-> b] # NoFile
<1>1. [content |-> c, synced |-> b] \in File
  BY DEF File
<1>2. QED
  BY <1>1

(* The initial states satisfy the invariant. *)
LEMMA InvInit == Init => Inv
<1> SUFFICES ASSUME Init PROVE Inv
  OBVIOUS
<1>1. <<backend, checked>> \in Artifacts
  BY DEF Init
<1>2. dst \in File \cup {NoFile} /\ dstDisk \in File \cup {NoFile}
  BY DEF Init, File
<1>3. object \in Versions /\ sidecar \in Versions \cup {NoVersion}
  BY DEF Init
<1>4. TypeOK
  BY <1>1, <1>2, <1>3 DEF Init, TypeOK, Ended
<1>5. ASSUME NEW r \in Runs PROVE RunInv(r)
  BY DEF Init, RunInv, HasTemp, Plan, Observed, Read, Fetched, Active, BeforeTemp, WithTemp
<1>6. Durable(dst) /\ Durable(dstDisk)
  BY DEF Init, Durable
<1>7. SuccessIsCurrent /\ SuccessIsVouched
  BY DEF Init, SuccessIsCurrent, SuccessIsVouched
<1>8. QED
  BY <1>4, <1>5, <1>6, <1>7 DEF Inv

(* The steps of a run keep the types. *)
LEMMA TypeOKRun ==
  ASSUME Inv, NEW r \in Runs, LocalStep(r) \/ TransferStep(r)
  PROVE  TypeOK'
<1> USE DEF TypeOK, Active, Ended, BeforeTemp, WithTemp, File, Contents, Damaged,
        Goto, Drop, publisherVars, locals, boundVars, observed
<1> TypeOK /\ HasTemp(r) /\ Read(r)
  BY DEF Inv, RunInv
<1>1. CASE Compare(r) BY <1>1 DEF Compare
<1>2. CASE HashDst(r) BY <1>2 DEF HashDst
<1>3. CASE CreateTemp(r) BY <1>3 DEF CreateTemp
<1>4. CASE HashTemp(r) BY <1>4 DEF HashTemp
<1>5. CASE CheckContext(r) BY <1>5 DEF CheckContext
<1>6. CASE Sync(r) BY <1>6 DEF Sync, HasTemp
<1>7. CASE Close(r) BY <1>7 DEF Close
<1>8. CASE Rename(r) BY <1>8 DEF Rename, HasTemp
<1>9. CASE Cleanup(r) BY <1>9 DEF Cleanup
<1>10. CASE Return(r) BY <1>10 DEF Return
<1>11. CASE Refuse(r) BY <1>11 DEF Refuse, ErrorReturn
<1>12. CASE IdleTimeout(r) BY <1>12 DEF IdleTimeout, ErrorReturn
<1>13. CASE Stat(r) BY <1>13 DEF Stat
<1>14. CASE ReadSidecar(r) BY <1>14 DEF ReadSidecar
<1>15. CASE OpenObject(r) BY <1>15 DEF OpenObject
<1>16. CASE CopyEnds(r) BY <1>16 DEF CopyEnds, Delivered, Read
<1>17. QED
  BY <1>1, <1>2, <1>3, <1>4, <1>5, <1>6, <1>7, <1>8, <1>9, <1>10, <1>11, <1>12,
     <1>13, <1>14, <1>15, <1>16 DEF LocalStep, TransferStep

(* The steps of a run keep what is known of every run. *)
LEMMA RunInvRun ==
  ASSUME Inv, NEW r \in Runs, LocalStep(r) \/ TransferStep(r), NEW q \in Runs
  PROVE  RunInv(q)'
<1> DEFINE Same(x) == /\ pc'[x] = pc[x] /\ tmp'[x] = tmp[x]
                      /\ reading'[x] = reading[x] /\ want'[x] = want[x]
<1> USE DEF Goto, Drop, publisherVars, locals, boundVars, observed
<1>1. /\ TypeOK /\ RunInv(r) /\ RunInv(q)
      /\ backend \in {"gcs", "http", "file"}
  BY DEF Inv, TypeOK
<1>2. UNCHANGED <<backend, checked, object, sidecar, offered, vouched>>
  BY DEF LocalStep, TransferStep, Compare, HashDst, CreateTemp, HashTemp, CheckContext, Sync,
     Close, Rename, Cleanup, Return, Refuse, IdleTimeout, Stat, ReadSidecar, OpenObject, CopyEnds
<1>3. CASE q # r
  <2>1. Same(q)
    BY <1>1, <1>3 DEF LocalStep, TransferStep, Compare, HashDst, CreateTemp, HashTemp, CheckContext,
       Sync, Close, Rename, Cleanup, Return, Refuse, IdleTimeout, ErrorReturn, Stat, ReadSidecar,
       OpenObject, CopyEnds, TypeOK
  <2>2. QED
    BY <1>1, <1>2, <2>1 DEF RunInv, HasTemp, Plan, Observed, Read, Fetched, Current, Unchecked
<1>4. CASE q = r
  <2> USE DEF TypeOK, RunInv, HasTemp, Plan, Observed, Read, Fetched, Current, Unchecked,
          Active, Ended, BeforeTemp, WithTemp
  <2>1. CASE Compare(r) BY <1>1, <1>2, <1>4, <2>1 DEF Compare
  <2>2. CASE HashDst(r) BY <1>1, <1>2, <1>4, <2>2 DEF HashDst
  <2>3. CASE CreateTemp(r) BY <1>1, <1>2, <1>4, <2>3, FileExists DEF CreateTemp, Contents, Damaged
  <2>4. CASE HashTemp(r) BY <1>1, <1>2, <1>4, <2>4 DEF HashTemp, Damaged
  <2>5. CASE CheckContext(r) BY <1>1, <1>2, <1>4, <2>5 DEF CheckContext
  <2>6. CASE Sync(r)
    <3>1. tmp[r] \in File /\ tmp'[r] = [tmp[r] EXCEPT !.synced = TRUE]
      BY <1>1, <2>6 DEF Sync
    <3>2. tmp'[r] \in File /\ tmp'[r].content = tmp[r].content /\ tmp'[r].synced
      BY <3>1 DEF File
    <3>3. tmp'[r] # NoFile
      BY <3>2
    <3>4. pc[r] = "sync" /\ pc'[r] = "close"
      BY <1>1, <2>6 DEF Sync
    <3>5. QED
      BY <1>1, <1>2, <1>4, <3>2, <3>3, <3>4
  <2>7. CASE Close(r) BY <1>1, <1>2, <1>4, <2>7 DEF Close
  <2>8. CASE Rename(r) BY <1>1, <1>2, <1>4, <2>8 DEF Rename
  <2>9. CASE Cleanup(r) BY <1>1, <1>2, <1>4, <2>9 DEF Cleanup
  <2>10. CASE Return(r) BY <1>1, <1>2, <1>4, <2>10 DEF Return
  <2>11. CASE Refuse(r) BY <1>1, <1>2, <1>4, <2>11 DEF Refuse, Refused, ErrorReturn
  <2>12. CASE IdleTimeout(r) BY <1>1, <1>2, <1>4, <2>12 DEF IdleTimeout, ErrorReturn
  <2>13. CASE Stat(r) BY <1>1, <1>2, <1>4, <2>13 DEF Stat
  <2>14. CASE ReadSidecar(r) BY <1>1, <1>2, <1>4, <2>14 DEF ReadSidecar
  <2>15. CASE OpenObject(r) BY <1>1, <1>2, <1>4, <2>15 DEF OpenObject
  <2>16. CASE CopyEnds(r)
    <3>1. PICK c \in Delivered(r) : tmp' = [tmp EXCEPT ![r] = [content |-> c, synced |-> FALSE]]
      BY <2>16 DEF CopyEnds
    <3>2. c \in offered[r] \/ (backend = "file" /\ c = Torn)
      BY <1>1, <2>16, <3>1 DEF CopyEnds, Delivered
    <3>3. c \in Contents
      BY <1>1, <3>2 DEF Contents, Damaged
    <3>4. tmp'[r] # NoFile /\ tmp'[r].content = c
      BY <1>1, <3>1, <3>3, FileExists
    <3>5. QED
      BY <1>1, <1>2, <1>4, <2>16, <3>2, <3>4 DEF CopyEnds
  <2>17. QED
    BY <2>1, <2>2, <2>3, <2>4, <2>5, <2>6, <2>7, <2>8, <2>9, <2>10, <2>11, <2>12,
       <2>13, <2>14, <2>15, <2>16 DEF LocalStep, TransferStep
<1>5. QED
  BY <1>3, <1>4

(* A Get that has just succeeded did so on what it had read and verified. *)
LEMMA SuccessRun ==
  ASSUME Inv, NEW r \in Runs, LocalStep(r) \/ TransferStep(r)
  PROVE  SuccessIsCurrent' /\ SuccessIsVouched'
<1> USE DEF Goto, Drop, publisherVars, locals, boundVars, observed
<1>1. /\ TypeOK /\ RunInv(r)
      /\ SuccessIsCurrent /\ SuccessIsVouched
  BY DEF Inv
<1>2. UNCHANGED <<backend, checked, offered, vouched>>
  BY DEF LocalStep, TransferStep, Compare, HashDst, CreateTemp, HashTemp, CheckContext, Sync,
     Close, Rename, Cleanup, Return, Refuse, IdleTimeout, Stat, ReadSidecar, OpenObject, CopyEnds
<1> DEFINE Right(x) ==
      pc[x] \in {"placed", "ok"} =>
        /\ ~(pc[x] = "ok" /\ backend = "gcs" /\ checked) => Current(x, accepted[x])
        /\ checked => accepted[x] \in vouched[x]
<1>3. \A q \in Runs : Right(q)
  BY <1>1 DEF SuccessIsCurrent, SuccessIsVouched, Current
<1>4. ASSUME NEW q \in Runs, q # r PROVE Right(q)'
  <2>1. pc'[q] = pc[q] /\ accepted'[q] = accepted[q]
    BY <1>1, <1>4 DEF LocalStep, TransferStep, Compare, HashDst, CreateTemp, HashTemp, CheckContext,
       Sync, Close, Rename, Cleanup, Return, Refuse, IdleTimeout, ErrorReturn, Stat, ReadSidecar,
       OpenObject, CopyEnds, TypeOK
  <2>2. QED
    BY <1>2, <1>3, <2>1 DEF Current, Unchecked
<1>5. Right(r)'
  <2>1. CASE Rename(r)
    BY <1>1, <1>2, <2>1 DEF Rename, TypeOK, RunInv, Fetched, Current, Unchecked
  <2>2. CASE Compare(r)
    BY <1>1, <1>2, <2>2 DEF Compare, FileMatches, TypeOK, RunInv, Read, Current, Unchecked
  <2>3. CASE HashDst(r)
    BY <1>1, <1>2, <2>3 DEF HashDst, TypeOK, RunInv, Plan, Read, Current, Unchecked
  <2>4. CASE Return(r)
    BY <1>1, <1>2, <1>3, <2>4 DEF Return, TypeOK, Current, Unchecked
  <2>5. CASE ~Rename(r) /\ ~Compare(r) /\ ~HashDst(r) /\ ~Return(r)
    <3>1. pc'[r] \notin {"placed", "ok"}
      BY <1>1, <2>5 DEF LocalStep, TransferStep, CreateTemp, HashTemp, CheckContext, Sync, Close,
         Cleanup, Refuse, IdleTimeout, ErrorReturn, Stat, ReadSidecar, OpenObject, CopyEnds, TypeOK
    <3>2. QED
      BY <3>1
  <2>6. QED
    BY <2>1, <2>2, <2>3, <2>4, <2>5
<1>6. \A q \in Runs : Right(q)'
  BY <1>4, <1>5
<1>7. QED
  BY <1>6 DEF SuccessIsCurrent, SuccessIsVouched, Current

(* The only step of a run that changes the destination is Rename. *)
LEMMA DestinationRun ==
  ASSUME Inv, NEW r \in Runs, LocalStep(r) \/ TransferStep(r)
  PROVE  /\ dstDisk' = dstDisk
         /\ dst' = dst \/ Rename(r)
BY DEF LocalStep, TransferStep, Compare, HashDst, CreateTemp, HashTemp, CheckContext, Sync,
   Close, Rename, Cleanup, Return, Refuse, IdleTimeout, Stat, ReadSidecar, OpenObject, CopyEnds

(* The steps of a run keep the invariant: what it renames is synced. *)
LEMMA InvRun ==
  ASSUME Inv, NEW r \in Runs, LocalStep(r) \/ TransferStep(r)
  PROVE  Inv'
<1>1. Durable(dst)'
  <2>1. CASE Rename(r)
    BY <2>1 DEF Rename, Inv, RunInv, Fetched, Durable
  <2>2. CASE dst' = dst
    BY <2>2 DEF Inv, Durable
  <2>3. QED
    BY <2>1, <2>2, DestinationRun
<1>2. Durable(dstDisk)'
  BY DestinationRun DEF Inv, Durable
<1>3. QED
  BY <1>1, <1>2, TypeOKRun, RunInvRun, SuccessRun DEF Inv

-----------------------------------------------------------------------------
(* A new Get keeps the invariant: what is served when it begins is current. *)
LEMMA InvBegin ==
  ASSUME Inv, NEW r \in Runs, Begin(r)
  PROVE  Inv'
<1> USE DEF Goto, publisherVars
<1>1. TypeOK /\ SuccessIsCurrent /\ SuccessIsVouched
  BY DEF Inv
<1>2. TypeOK'
  <2>1. cancelled' \in [Runs -> BOOLEAN]
    BY <1>1 DEF Begin, TypeOK
  <2>2. pc' \in [Runs -> Active \cup Ended]
    BY <1>1 DEF Begin, TypeOK, Active, BeforeTemp
  <2>3. /\ tmp' \in [Runs -> File \cup {NoFile}]
        /\ accepted' \in [Runs -> Contents \cup {NoVersion}]
        /\ offered' \in [Runs -> SUBSET Versions]
        /\ vouched' \in [Runs -> SUBSET Versions]
        /\ begun' \in Nat
    BY <1>1 DEF Begin, TypeOK
  <2>4. QED
    BY <1>1, <2>1, <2>2, <2>3 DEF Begin, TypeOK
<1>3. ASSUME NEW q \in Runs PROVE RunInv(q)'
  <2>1. RunInv(q)
    BY DEF Inv
  <2>2. CASE q = r
    BY <1>1, <2>2 DEF Begin, TypeOK, RunInv, HasTemp, Plan, Observed, Read, Fetched, Active,
       BeforeTemp, WithTemp
  <2>3. CASE q # r
    BY <1>1, <2>1, <2>3 DEF Begin, TypeOK, RunInv, HasTemp, Plan, Observed, Read, Fetched,
       Current, Unchecked
  <2>4. QED
    BY <2>2, <2>3
<1>4. Durable(dst)' /\ Durable(dstDisk)'
  BY DEF Begin, Inv, Durable
<1>5. SuccessIsCurrent' /\ SuccessIsVouched'
  BY <1>1 DEF Begin, TypeOK, SuccessIsCurrent, SuccessIsVouched, Unchecked
<1>6. QED
  BY <1>2, <1>3, <1>4, <1>5 DEF Inv

(* The publisher keeps the invariant: what it writes is observed by the Gets *)
(* that are under way, and what they have read stays observed.               *)
LEMMA InvPublish ==
  ASSUME Inv, NEW v \in Versions, PublishObject(v) \/ PublishSidecar(v)
  PROVE  Inv'
<1> USE DEF PublishObject, PublishSidecar, locals, boundVars
<1>1. TypeOK /\ SuccessIsCurrent /\ SuccessIsVouched
  BY DEF Inv
<1>2. TypeOK'
  BY <1>1 DEF TypeOK
<1>3. /\ UNCHANGED <<backend, checked, dst, dstDisk, pc, tmp, reading, want, accepted>>
      /\ \A q \in Runs : offered[q] \subseteq offered'[q] /\ vouched[q] \subseteq vouched'[q]
  BY <1>1 DEF TypeOK
<1>4. ASSUME NEW q \in Runs PROVE RunInv(q)'
  <2>1. RunInv(q)
    BY DEF Inv
  <2>2. Observed(q)'
    BY <1>1, <2>1 DEF TypeOK, RunInv, Observed
  <2>3. QED
    BY <1>1, <1>3, <2>1, <2>2 DEF TypeOK, RunInv, HasTemp, Plan, Read, Fetched, Current, Unchecked
<1>5. Durable(dst)' /\ Durable(dstDisk)'
  BY <1>3 DEF Inv, Durable
<1>6. SuccessIsCurrent' /\ SuccessIsVouched'
  BY <1>1, <1>3 DEF SuccessIsCurrent, SuccessIsVouched, Unchecked
<1>7. QED
  BY <1>2, <1>4, <1>5, <1>6 DEF Inv

(* A fault, a signal and a kill keep the invariant: they end a run or leave *)
(* it where it is.                                                          *)
LEMMA InvDisturbed ==
  ASSUME Inv, NEW r \in Runs, Fault(r) \/ Cancel(r) \/ Kill(r)
  PROVE  Inv'
<1> USE DEF Fault, Cancel, Kill, ErrorReturn, Goto, Drop, publisherVars, boundVars, observed
<1>1. TypeOK /\ SuccessIsCurrent /\ SuccessIsVouched
  BY DEF Inv
<1>2. UNCHANGED <<backend, checked, object, sidecar, dst, dstDisk, published, begun, crashes,
                  accepted, offered, vouched>>
  OBVIOUS
<1>3. TypeOK'
  BY <1>1 DEF TypeOK, Active, Ended, BeforeTemp, WithTemp
<1>4. ASSUME NEW q \in Runs PROVE RunInv(q)'
  <2>1. RunInv(q)
    BY DEF Inv
  <2>2. CASE pc'[q] = pc[q] /\ tmp'[q] = tmp[q] /\ reading'[q] = reading[q] /\ want'[q] = want[q]
    BY <1>2, <2>1, <2>2 DEF RunInv, HasTemp, Plan, Observed, Read, Fetched, Current, Unchecked
  <2>3. CASE q = r /\ (Fault(r) \/ Kill(r))
    BY <1>1, <1>2, <2>1, <2>3 DEF TypeOK, RunInv, HasTemp, Plan, Observed, Read, Fetched,
       Active, BeforeTemp, WithTemp, CanFail
  <2>4. QED
    BY <1>1, <2>2, <2>3 DEF TypeOK
<1>5. Durable(dst)' /\ Durable(dstDisk)'
  BY <1>2 DEF Inv, Durable
<1>6. \A q \in Runs : pc'[q] \in {"placed", "ok"} => pc'[q] = pc[q]
  BY <1>1 DEF TypeOK
<1>7. SuccessIsCurrent' /\ SuccessIsVouched'
  BY <1>1, <1>2, <1>6 DEF SuccessIsCurrent, SuccessIsVouched, Unchecked
<1>8. QED
  BY <1>3, <1>4, <1>5, <1>7 DEF Inv

(* A power loss keeps the invariant: a durable destination comes back as *)
(* the disk has it.                                                      *)
LEMMA InvPowerLoss == Inv /\ PowerLoss => Inv' /\ dst' = dstDisk
<1> SUFFICES ASSUME Inv, PowerLoss PROVE Inv' /\ dst' = dstDisk
  OBVIOUS
<1> USE DEF publisherVars, observed
<1>1. TypeOK /\ SuccessIsCurrent /\ SuccessIsVouched
  BY DEF Inv
<1>2. dst' = dstDisk /\ dstDisk' = dstDisk
  <2>1. dst' \in AfterPowerLoss(dstDisk) /\ dstDisk' = dst'
    BY Zenon DEF PowerLoss
  <2>2. dstDisk = NoFile \/ dstDisk.synced
    BY Zenon DEF Inv, Durable
  <2>3. AfterPowerLoss(dstDisk) = {dstDisk}
    BY <2>2, Zenon DEF AfterPowerLoss
  <2>4. QED
    BY <2>1, <2>3
<1>3. TypeOK'
  <2>1. pc' \in [Runs -> Active \cup Ended] /\ tmp' \in [Runs -> File \cup {NoFile}]
    BY <1>1 DEF PowerLoss, TypeOK, Ended
  <2>2. /\ reading' \in [Runs -> Versions \cup {NoVersion}]
        /\ want' \in [Runs -> Versions \cup {NoVersion}]
    BY <1>1 DEF PowerLoss, TypeOK
  <2>3. cancelled' \in [Runs -> BOOLEAN]
    BY <1>1 DEF PowerLoss, TypeOK
  <2>4. crashes' \in Nat
    BY <1>1 DEF PowerLoss, TypeOK
  <2>5. UNCHANGED <<backend, checked, object, sidecar, published, begun, accepted, offered, vouched>>
    BY DEF PowerLoss
  <2>6. QED
    BY <1>1, <1>2, <2>1, <2>2, <2>3, <2>4, <2>5 DEF TypeOK
<1>4. ASSUME NEW q \in Runs PROVE RunInv(q)'
  <2>1. RunInv(q)
    BY DEF Inv
  <2>2. UNCHANGED <<backend, checked, object, sidecar, offered, vouched>>
    BY DEF PowerLoss
  <2>3. CASE pc[q] \in Active
    BY <1>1, <2>1, <2>2, <2>3 DEF PowerLoss, TypeOK, RunInv, HasTemp, Plan, Observed, Read, Fetched,
       Active, BeforeTemp, WithTemp
  <2>4. CASE pc[q] \notin Active
    BY <1>1, <2>1, <2>2, <2>4 DEF PowerLoss, TypeOK, RunInv, HasTemp, Plan, Observed, Read, Fetched,
       Current, Unchecked
  <2>5. QED
    BY <2>3, <2>4
<1>5. Durable(dst)' /\ Durable(dstDisk)'
  BY <1>2 DEF Inv, Durable
<1>6. \A q \in Runs : pc'[q] \in {"placed", "ok"} => pc'[q] = pc[q]
  BY <1>1 DEF PowerLoss, TypeOK
<1>7. SuccessIsCurrent' /\ SuccessIsVouched'
  BY <1>1, <1>6 DEF PowerLoss, SuccessIsCurrent, SuccessIsVouched, Unchecked
<1>8. QED
  BY <1>2, <1>3, <1>4, <1>5, <1>7 DEF Inv

(* The directory reaching the disk keeps the invariant, and so does a step *)
(* that changes nothing.                                                   *)
LEMMA InvWriteBack == Inv /\ (WriteBack \/ UNCHANGED vars) => Inv'
<1> SUFFICES ASSUME Inv, WriteBack \/ UNCHANGED vars PROVE Inv'
  OBVIOUS
<1>1. UNCHANGED <<backend, checked, object, sidecar, dst, pc, tmp, reading, want, cancelled,
                  published, begun, crashes, accepted, offered, vouched>>
      /\ dstDisk' \in {dst, dstDisk}
  BY DEF WriteBack, publisherVars, locals, boundVars, observed, vars
<1>2. TypeOK'
  BY <1>1 DEF Inv, TypeOK
<1>3. ASSUME NEW q \in Runs PROVE RunInv(q)'
  BY <1>1 DEF Inv, RunInv, HasTemp, Plan, Observed, Read, Fetched, Current, Unchecked
<1>4. Durable(dst)' /\ Durable(dstDisk)'
  BY <1>1 DEF Inv, Durable
<1>5. SuccessIsCurrent' /\ SuccessIsVouched'
  BY <1>1 DEF Inv, SuccessIsCurrent, SuccessIsVouched, Unchecked
<1>6. QED
  BY <1>2, <1>3, <1>4, <1>5 DEF Inv

(* The inductive invariant holds in every state. *)
THEOREM Invariance == Spec => []Inv
<1>1. Inv /\ [Next]_vars => Inv'
  BY InvRun, InvBegin, InvPublish, InvDisturbed, InvPowerLoss, InvWriteBack DEF Next, Environment
<1>2. QED
  BY <1>1, InvInit, PTL DEF Spec

(* Type correctness of Fetch. *)
THEOREM TypeCorrect == Spec => []TypeOK
<1>1. Inv => TypeOK
  BY DEF Inv
<1>2. QED
  BY <1>1, Invariance, PTL

(* A Get that succeeds does so on a content that was published under the *)
(* object's name while it ran.                                           *)
THEOREM SucceedsOnCurrent == Spec => []SuccessIsCurrent
<1>1. Inv => SuccessIsCurrent
  BY DEF Inv
<1>2. QED
  BY <1>1, Invariance, PTL

(* With a sidecar configured, a Get succeeds only on a content whose digest *)
(* the sidecar held while it ran.                                           *)
THEOREM SucceedsOnVouched == Spec => []SuccessIsVouched
<1>1. Inv => SuccessIsVouched
  BY DEF Inv
<1>2. QED
  BY <1>1, Invariance, PTL

(* A Get that returned left no temporary file behind. *)
THEOREM LeavesNoTemp == Spec => []NoTempLeft
<1>1. Inv => NoTempLeft
  BY DEF Inv, RunInv, HasTemp, WithTemp, NoTempLeft
<1>2. QED
  BY <1>1, Invariance, PTL

-----------------------------------------------------------------------------
(* What a run places is a content that Get may place. *)
LEMMA PlacesPlaceable ==
  ASSUME Inv, NEW r \in Runs, Rename(r)
  PROVE  dst' # NoFile /\ dst'.content \in Placeable
<1>1. tmp[r] # NoFile /\ Current(r, tmp[r].content) /\ offered[r] \subseteq Versions
  BY DEF Rename, Inv, RunInv, HasTemp, Fetched, WithTemp, TypeOK
<1>2. dst' = tmp[r]
  BY DEF Rename
<1>3. QED
  BY <1>1, <1>2 DEF Current, Placeable

(* Whatever the runs, the publisher and the power do, a file that newly *)
(* appears at the destination is a whole published content.             *)
THEOREM AppearWhole == Spec => OnlyWholeFilesAppear
<1>1. ASSUME Inv, Next PROVE dst' \in {dst, dstDisk} \/ \E r \in Runs : Rename(r)
  <2>1. ASSUME NEW r \in Runs, Begin(r) \/ Fault(r) \/ Cancel(r) \/ Kill(r) PROVE dst' = dst
    BY <2>1 DEF Begin, Fault, Cancel, Kill
  <2>2. ASSUME NEW v \in Versions, PublishObject(v) \/ PublishSidecar(v) PROVE dst' = dst
    BY <2>2 DEF PublishObject, PublishSidecar
  <2>3. CASE WriteBack
    BY <2>3 DEF WriteBack
  <2>4. QED
    BY <1>1, <2>1, <2>2, <2>3, DestinationRun, InvPowerLoss DEF Next, Environment
<1>2. Inv /\ [Next]_vars => [dst' \notin {dst, dstDisk} => dst' # NoFile /\ dst'.content \in Placeable]_vars
  BY <1>1, PlacesPlaceable
<1>3. QED
  BY <1>2, Invariance, PTL DEF Spec, OnlyWholeFilesAppear

(* A run whose context is done when its transfer ends does not go on to *)
(* place the file.                                                      *)
LEMMA CancelledStep ==
  ASSUME Inv, Next, NEW q \in Runs, cancelled[q], pc[q] \notin Committed
  PROVE  pc'[q] \notin Committed
<1> USE DEF Goto, Committed
<1>1. TypeOK
  BY DEF Inv
<1>2. ASSUME NEW r \in Runs, LocalStep(r) \/ TransferStep(r) PROVE pc'[q] \notin Committed
  <2>1. CASE q # r
    <3>1. pc'[q] = pc[q]
      BY <1>1, <1>2, <2>1 DEF LocalStep, TransferStep, Compare, HashDst, CreateTemp, HashTemp,
         CheckContext, Sync, Close, Rename, Cleanup, Return, Refuse, IdleTimeout, ErrorReturn,
         Stat, ReadSidecar, OpenObject, CopyEnds, TypeOK
    <3>2. QED
      BY <3>1
  <2>2. CASE q = r
    BY <1>1, <1>2, <2>2 DEF LocalStep, TransferStep, Compare, HashDst, CreateTemp, HashTemp,
       CheckContext, Sync, Close, Rename, Cleanup, Return, Refuse, IdleTimeout, ErrorReturn,
       Stat, ReadSidecar, OpenObject, CopyEnds, TypeOK
  <2>3. QED
    BY <2>1, <2>2
<1>3. ASSUME NEW r \in Runs, Begin(r) \/ Fault(r) \/ Cancel(r) \/ Kill(r)
      PROVE  pc'[q] \notin Committed
  BY <1>1, <1>3 DEF Begin, Fault, Cancel, Kill, ErrorReturn, TypeOK
<1>4. ASSUME NEW v \in Versions, PublishObject(v) \/ PublishSidecar(v)
      PROVE  pc'[q] \notin Committed
  BY <1>4 DEF PublishObject, PublishSidecar
<1>5. CASE WriteBack
  BY <1>5 DEF WriteBack
<1>6. CASE PowerLoss
  BY <1>1, <1>6 DEF PowerLoss, TypeOK
<1>7. QED
  BY <1>2, <1>3, <1>4, <1>5, <1>6 DEF Next, Environment

(* getVerified ends with "return ctx.Err()": no step takes a run whose *)
(* context is done into the steps that place the file.                 *)
THEOREM CancelledStays == Spec => CancelledDoesNotCommit
<1>1. Inv /\ [Next]_vars =>
        [\A r \in Runs : cancelled[r] /\ pc[r] \notin Committed => pc'[r] \notin Committed]_vars
  BY CancelledStep
<1>2. QED
  BY <1>1, Invariance, PTL DEF Spec, CancelledDoesNotCommit

-----------------------------------------------------------------------------
(***************************************************************************)
(* The refinement of AtomicGet: only Rename, a match that is accepted and  *)
(* the environment are visible there, besides the beginning and the end of *)
(* each call.                                                              *)
(***************************************************************************)
Phase(place) == IF place \in Ended \cup {"placed"} THEN place ELSE "running"

(* The initial states of Fetch are those of AtomicGet. *)
LEMMA PromiseInit == Init => Promise!Init
<1> SUFFICES ASSUME Init PROVE Promise!Init
  OBVIOUS
<1>1. ContentAt(dst) \in Contents \cup {NoFile}
  BY DEF Init, ContentAt
<1>2. Placeable \subseteq Contents
  BY DEF Placeable, Contents, Damaged
<1>3. QED
  BY <1>1, <1>2 DEF Init, Promise!Init, Ended

(* A step of one run moves its own call only. *)
LEMMA PromiseCall ==
  ASSUME TypeOK, NEW r \in Runs, NEW label, Goto(r, label), NEW from, NEW to,
         Phase(pc[r]) \in from, Phase(label) = to
  PROVE  Promise!Call(r, from, to)
  BY DEF Goto, Phase, TypeOK, Promise!Call

(* Every step of a run is a step of AtomicGet or changes nothing there. *)
LEMMA PromiseRun ==
  ASSUME Inv, NEW r \in Runs, LocalStep(r) \/ TransferStep(r)
  PROVE  [Promise!Next]_Promise!vars
<1>1. TypeOK /\ RunInv(r)
  BY DEF Inv
<1>2. UNCHANGED <<backend, checked, dstDisk>>
  BY DEF LocalStep, TransferStep, Compare, HashDst, CreateTemp, HashTemp, CheckContext, Sync,
     Close, Rename, Cleanup, Return, Refuse, IdleTimeout, Stat, ReadSidecar, OpenObject, CopyEnds,
     publisherVars
<1>3. UNCHANGED Placeable /\ UNCHANGED ContentAt(dstDisk)
  BY <1>2 DEF Placeable, Unchecked, ContentAt
<1> USE DEF Ended, Active, BeforeTemp, WithTemp
<1>4. CASE Rename(r)
  <2>1. ContentAt(dst)' \in Placeable
    BY <1>4, PlacesPlaceable DEF ContentAt
  <2>2. Promise!Call(r, {"running"}, "placed")
    BY <1>1, <1>4, PromiseCall DEF Rename, Phase
  <2>3. QED
    BY <1>3, <2>1, <2>2 DEF Promise!Next, Promise!Place
<1>5. ASSUME Goto(r, "ok"), pc[r] \in {"compare", "hash_dst"}, dst # NoFile, dst.content = want[r],
             UNCHANGED dst
      PROVE  Promise!Next
  <2>1. ContentAt(dst) \in Placeable
    BY <1>1, <1>5 DEF TypeOK, RunInv, Read, ContentAt, Placeable
  <2>2. Promise!Call(r, {"running"}, "ok")
    BY <1>1, <1>5, PromiseCall DEF Phase
  <2>3. UNCHANGED ContentAt(dst)
    BY <1>5 DEF ContentAt
  <2>4. QED
    BY <1>3, <2>1, <2>2, <2>3 DEF Promise!Next, Promise!Accept
<1>6. ASSUME Goto(r, "ok"), pc[r] = "placed", UNCHANGED dst
      PROVE  Promise!Next
  <2>1. Promise!Call(r, {"placed"}, "ok")
    BY <1>1, <1>6, PromiseCall DEF Phase
  <2>2. UNCHANGED ContentAt(dst)
    BY <1>6 DEF ContentAt
  <2>3. QED
    BY <1>3, <2>1, <2>2 DEF Promise!Next, Promise!Return
<1>7. ASSUME Goto(r, "err"), pc[r] \in BeforeTemp \cup WithTemp, UNCHANGED dst
      PROVE  Promise!Next
  <2>1. Promise!Call(r, {"running"}, "err")
    BY <1>1, <1>7, PromiseCall DEF Phase
  <2>2. UNCHANGED ContentAt(dst)
    BY <1>7 DEF ContentAt
  <2>3. QED
    BY <1>3, <2>1, <2>2 DEF Promise!Next, Promise!Fail
<1>8. ASSUME NEW label \in BeforeTemp \cup WithTemp, Goto(r, label),
             pc[r] \in BeforeTemp \cup WithTemp, UNCHANGED dst
      PROVE  UNCHANGED Promise!vars
  <2>1. \A q \in Runs : Phase(pc'[q]) = Phase(pc[q])
    BY <1>1, <1>8 DEF TypeOK, Goto, Phase
  <2>2. QED
    BY <1>3, <1>8, <2>1 DEF Promise!vars, Phase, ContentAt
<1>9. CASE Compare(r)
  BY <1>5, <1>8, <1>9 DEF Compare, FileMatches
<1>10. CASE HashDst(r)
  BY <1>5, <1>7, <1>10 DEF HashDst
<1>11. CASE Return(r)
  BY <1>6, <1>11 DEF Return
<1>12. CASE Refuse(r) \/ IdleTimeout(r)
  BY <1>7, <1>8, <1>12 DEF Refuse, Refused, IdleTimeout, ErrorReturn
<1>13. CASE Cleanup(r)
  BY <1>7, <1>13 DEF Cleanup
<1>14. CASE CreateTemp(r) \/ HashTemp(r) \/ CheckContext(r) \/ Sync(r) \/ Close(r)
  BY <1>8, <1>14 DEF CreateTemp, HashTemp, CheckContext, Sync, Close
<1>15. CASE TransferStep(r) \/ Stat(r)
  BY <1>8, <1>15 DEF TransferStep, Stat, ReadSidecar, OpenObject, CopyEnds
<1>16. QED
  BY <1>4, <1>9, <1>10, <1>11, <1>12, <1>13, <1>14, <1>15 DEF LocalStep

(* The beginning of a Get, a fault, a signal and a kill are steps of *)
(* AtomicGet or change nothing there.                                *)
LEMMA PromiseDisturbed ==
  ASSUME Inv, NEW r \in Runs, Begin(r) \/ Fault(r) \/ Cancel(r) \/ Kill(r)
  PROVE  [Promise!Next]_Promise!vars
<1>1. TypeOK
  BY DEF Inv
<1>2. UNCHANGED <<backend, checked, dst, dstDisk>>
  BY DEF Begin, Fault, Cancel, Kill, publisherVars
<1>3. UNCHANGED Placeable /\ UNCHANGED ContentAt(dst) /\ UNCHANGED ContentAt(dstDisk)
  BY <1>2 DEF Placeable, Unchecked, ContentAt
<1> USE DEF Ended, Active, BeforeTemp, WithTemp
<1>4. CASE Begin(r)
  <2>1. PICK label \in {"stat", "create"} : Goto(r, label)
    BY <1>4 DEF Begin
  <2>2. Promise!Call(r, Promise!Ended, "running")
    BY <1>1, <1>4, <2>1, PromiseCall DEF Begin, Phase, Promise!Ended
  <2>3. QED
    BY <1>3, <2>2 DEF Promise!Next, Promise!Start
<1>5. CASE Kill(r)
  <2>1. Promise!Call(r, {"running", "placed"}, "dead")
    BY <1>1, <1>5, PromiseCall DEF Kill, Phase
  <2>2. QED
    BY <1>3, <2>1 DEF Promise!Next, Promise!Die
<1>6. CASE Fault(r) /\ Goto(r, "err")
  <2>1. Promise!Call(r, {"running"}, "err")
    BY <1>1, <1>6, PromiseCall DEF Fault, CanFail, Phase
  <2>2. QED
    BY <1>3, <2>1 DEF Promise!Next, Promise!Fail
<1>7. CASE Cancel(r) \/ (Fault(r) /\ Goto(r, "cleanup"))
  <2>1. \A q \in Runs : Phase(pc'[q]) = Phase(pc[q])
    BY <1>1, <1>7 DEF TypeOK, Cancel, Fault, CanFail, Goto, Phase
  <2>2. QED
    BY <1>3, <2>1 DEF Promise!vars, Phase
<1>8. QED
  BY <1>4, <1>5, <1>6, <1>7 DEF Fault, ErrorReturn

(* Nor does the environment do what AtomicGet does not know. *)
LEMMA PromiseEnvironment ==
  ASSUME Inv, (\E v \in Versions : PublishObject(v) \/ PublishSidecar(v)) \/ WriteBack \/ PowerLoss
  PROVE  [Promise!Next]_Promise!vars
<1>1. TypeOK
  BY DEF Inv
<1>2. UNCHANGED <<backend, checked>>
  BY DEF PublishObject, PublishSidecar, WriteBack, PowerLoss, publisherVars
<1>3. UNCHANGED Placeable
  BY <1>2 DEF Placeable, Unchecked
<1>4. ASSUME NEW v \in Versions, PublishObject(v) \/ PublishSidecar(v)
      PROVE  UNCHANGED Promise!vars
  BY <1>3, <1>4 DEF PublishObject, PublishSidecar, Promise!vars, ContentAt
<1>5. CASE WriteBack
  BY <1>3, <1>5 DEF WriteBack, Promise!Next, Promise!Flush, ContentAt
<1>6. CASE PowerLoss
  <2>1. dst' = dstDisk /\ dstDisk' = dstDisk
    BY <1>6, InvPowerLoss DEF PowerLoss
  <2>2. ContentAt(dst)' = ContentAt(dstDisk) /\ UNCHANGED ContentAt(dstDisk)
    BY <2>1 DEF ContentAt
  <2>3. \A q \in Runs : Phase(pc'[q]) = IF Phase(pc[q]) \in Ended THEN Phase(pc[q]) ELSE "dead"
    BY <1>1, <1>6 DEF PowerLoss, TypeOK, Phase, Active, Ended, BeforeTemp, WithTemp
  <2>4. Promise!PowerLoss
    BY <2>2, <2>3 DEF Promise!PowerLoss, Promise!Ended, Phase, Ended
  <2>5. QED
    BY <1>3, <2>4 DEF Promise!Next
<1>7. QED
  BY <1>4, <1>5, <1>6

(* Fetch implements AtomicGet, for any runs, versions and artifacts: the *)
(* destination changes in single steps, to whole contents, by calls that *)
(* then succeed unless they die, and a call that fails has placed none.  *)
THEOREM FetchImplementsGet == Spec => ImplementsGet
<1>1. Inv /\ [Next]_vars => [Promise!Next]_Promise!vars
  <2>1. ASSUME UNCHANGED vars PROVE UNCHANGED Promise!vars
    BY <2>1 DEF vars, Promise!vars, Placeable, Unchecked, ContentAt
  <2>2. QED
    BY <2>1, PromiseRun, PromiseDisturbed, PromiseEnvironment DEF Next, Environment
<1>2. QED
  BY <1>1, PromiseInit, Invariance, PTL DEF Spec, ImplementsGet, Promise!Spec
=============================================================================
