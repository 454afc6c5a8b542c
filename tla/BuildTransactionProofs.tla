------------------------ MODULE BuildTransactionProofs ------------------------
(***************************************************************************)
(* What TLAPS proves of BuildTransaction, for every set of processes,      *)
(* blobs and selections and every bound: who builds and what is there, the *)
(* refinement of BuildRetention, what a success leaves behind, and how     *)
(* long an uncommitted blob stays.                                         *)
(***************************************************************************)
EXTENDS BuildTransaction, TLAPS

-----------------------------------------------------------------------------
(* Types, and that a stage that uses a local variable has assigned it. *)

HasTarget == {"maintainUnmark", "download", "published", "mark", "gcUnmark"}
HasSnap   == {"fill", "publish", "docker", "running", "cleanup"}

LocalsAssigned ==
    \A p \in Process :
        /\ pc[p] \in HasTarget => target[p] \in Blob
        /\ pc[p] \in HasSnap => snap[p] \in SnapName

TypeInv == TypeOK /\ LocalsAssigned

(* The initial values have their types. *)
LEMMA InitType == Init => TypeInv
  BY DEF Init, TypeInv, TypeOK, LocalsAssigned, HasTarget, HasSnap, Resting,
         NoMarker

(* Taking the lock or being refused it keeps the types. *)
LEMMA StartType ==
  ASSUME TypeInv, NEW p \in Process, Start(p)
  PROVE  TypeInv'
<1> USE ConstantsAssumption
        DEF TypeInv, TypeOK, Resting, Stages, locals, sharedVars, storeVars,
            liveVars, snapVars, productVars, ghostVars, envVars,
            LocalsAssigned, HasTarget, HasSnap, NoMarker, BadMarker
<1>1. CASE Acquire(p)
  BY <1>1 DEF Acquire
<1>2. CASE RejectCompeting(p)
  BY <1>2 DEF RejectCompeting
<1>. QED  BY <1>1, <1>2 DEF Start

(* Recovery and maintenance keep the types. *)
LEMMA MaintainType ==
  ASSUME TypeInv, NEW p \in Process, Maintain(p)
  PROVE  TypeInv'
<1> USE ConstantsAssumption
        DEF TypeInv, TypeOK, Resting, Stages, locals, sharedVars, storeVars,
            liveVars, snapVars, productVars, ghostVars, envVars,
            LocalsAssigned, HasTarget, HasSnap, NoMarker, BadMarker
<1>1. CASE RecoverSnapshot(p)
  BY <1>1 DEF RecoverSnapshot
<1>2. CASE RejectManifest(p)
  BY <1>2 DEF RejectManifest, EndAs
<1>3. CASE BeginMaintenance(p)
  BY <1>3 DEF BeginMaintenance, Go
<1>4. CASE MaintainLive(p)
  BY <1>4 DEF MaintainLive, DropMarker, Done, Loop
<1>5. CASE MaintainKeep(p)
  BY <1>5 DEF MaintainKeep, Done, Loop
<1>6. CASE MaintainCollect(p)
  BY <1>6 DEF MaintainCollect, UnlinkBlob, WorkOn, Go
<1>7. CASE MaintainUnmark(p)
  BY <1>7 DEF MaintainUnmark, DropMarker, Done, Loop, Go
<1>8. CASE EndMaintenance(p)
  BY <1>8 DEF EndMaintenance, Loop, Go
<1>. QED  BY <1>1, <1>2, <1>3, <1>4, <1>5, <1>6, <1>7, <1>8 DEF Maintain

(* Materialization keeps the types. *)
LEMMA MaterializeType ==
  ASSUME TypeInv, NEW p \in Process, Materialize(p)
  PROVE  TypeInv'
<1> USE ConstantsAssumption
        DEF TypeInv, TypeOK, Resting, Stages, locals, sharedVars, storeVars,
            liveVars, snapVars, productVars, ghostVars, envVars,
            LocalsAssigned, HasTarget, HasSnap, NoMarker, BadMarker
<1>1. CASE Hit(p)
  BY <1>1 DEF Hit, Done, Loop
<1>2. CASE RejectCorrupt(p)
  BY <1>2 DEF RejectCorrupt, EndAs
<1>3. CASE Miss(p)
  BY <1>3 DEF Miss, WorkOn, Go
<1>4. CASE PublishBlob(p)
  BY <1>4 DEF PublishBlob, Go
<1>5. CASE VerifyPublished(p)
  BY <1>5 DEF VerifyPublished, Go
<1>6. CASE RejectPublished(p)
  BY <1>6 DEF RejectPublished, UnlinkBlob, EndAs
<1>7. CASE MarkUncommitted(p)
  BY <1>7 DEF MarkUncommitted, Done, Loop, Go
<1>8. CASE EndMaterialization(p)
  BY <1>8 DEF EndMaterialization, Go
<1>9. CASE MaterializePi(p)
  BY <1>9 DEF MaterializePi, Go
<1>. QED  BY <1>1, <1>2, <1>3, <1>4, <1>5, <1>6, <1>7, <1>8, <1>9 DEF
             Materialize

(* Snapshot, projection and Docker keep the types. *)
LEMMA BuildImageType ==
  ASSUME TypeInv, NEW p \in Process, BuildImage(p)
  PROVE  TypeInv'
<1> USE ConstantsAssumption
        DEF TypeInv, TypeOK, Resting, Stages, locals, sharedVars, storeVars,
            liveVars, snapVars, productVars, ghostVars, envVars,
            LocalsAssigned, HasTarget, HasSnap, NoMarker, BadMarker
<1>1. CASE CreateSnapshot(p)
  BY <1>1 DEF CreateSnapshot, Go
<1>2. CASE FillSnapshot(p)
  BY <1>2 DEF FillSnapshot, Done, Loop
<1>3. CASE RejectPayload(p)
  BY <1>3 DEF RejectPayload, Go
<1>4. CASE SealSnapshot(p)
  BY <1>4 DEF SealSnapshot, Go
<1>5. CASE PublishProjection(p)
  BY <1>5 DEF PublishProjection, Go
<1>6. CASE RunDocker(p)
  BY <1>6 DEF RunDocker, Go
<1>7. CASE DockerSucceeds(p)
  BY <1>7 DEF DockerSucceeds, Go
<1>8. CASE DockerFails(p)
  BY <1>8 DEF DockerFails, Go
<1>9. CASE CleanupAfterSuccess(p)
  BY <1>9 DEF CleanupAfterSuccess, RemoveSnapshot, Go
<1>10. CASE CleanupAfterFailure(p)
  BY <1>10 DEF CleanupAfterFailure, RemoveSnapshot, EndAs
<1>. QED  BY <1>1, <1>2, <1>3, <1>4, <1>5, <1>6, <1>7, <1>8, <1>9, <1>10 DEF
             BuildImage

(* The commit keeps the types. *)
LEMMA CommitBuildType ==
  ASSUME TypeInv, NEW p \in Process, CommitBuild(p)
  PROVE  TypeInv'
<1> USE ConstantsAssumption
        DEF TypeInv, TypeOK, Resting, Stages, locals, sharedVars, storeVars,
            liveVars, snapVars, productVars, ghostVars, envVars,
            LocalsAssigned, HasTarget, HasSnap, NoMarker, BadMarker
<1>1. CASE CommitVerify(p)
  BY <1>1 DEF CommitVerify, Go
<1>2. CASE RejectVerify(p)
  BY <1>2 DEF RejectVerify, EndAs
<1>3. CASE CommitManifest(p)
  BY <1>3 DEF CommitManifest, Loop, Go
<1>4. CASE CommitUnmark(p)
  BY <1>4 DEF CommitUnmark, DropMarker, Done, Loop
<1>5. CASE BeginGc(p)
  BY <1>5 DEF BeginGc, Loop, Go
<1>6. CASE GcBlob(p)
  BY <1>6 DEF GcBlob, UnlinkBlob, WorkOn, Go
<1>7. CASE GcUnmark(p)
  BY <1>7 DEF GcUnmark, DropMarker, Done, Loop, Go
<1>8. CASE Succeed(p)
  BY <1>8 DEF Succeed, EndAs
<1>. QED  BY <1>1, <1>2, <1>3, <1>4, <1>5, <1>6, <1>7, <1>8 DEF CommitBuild

(* An error or interrupt keeps the types. *)
LEMMA BreakType ==
  ASSUME TypeInv, NEW p \in Process, Break(p)
  PROVE  TypeInv'
<1> USE ConstantsAssumption
        DEF TypeInv, TypeOK, Resting, Stages, locals, sharedVars, storeVars,
            liveVars, snapVars, productVars, ghostVars, envVars,
            LocalsAssigned, HasTarget, HasSnap, NoMarker, BadMarker
<1>1. CASE DownloadFails(p)
  BY <1>1 DEF DownloadFails, EndAs
<1>2. CASE MarkFails(p)
  BY <1>2 DEF MarkFails, EndAs
<1>3. CASE AbandonSnapshot(p)
  BY <1>3 DEF AbandonSnapshot
<1>4. CASE CleanupFails(p)
  BY <1>4 DEF CleanupFails, EndAs
<1>5. CASE Fail(p)
  BY <1>5 DEF Fail, EndAs
<1>. QED  BY <1>1, <1>2, <1>3, <1>4, <1>5 DEF Break

(* A crash, outside damage or the clock keeps the types. *)
LEMMA EnvironmentType ==
  ASSUME TypeInv, Environment
  PROVE  TypeInv'
<1> USE ConstantsAssumption
        DEF TypeInv, TypeOK, Resting, Stages, locals, sharedVars, storeVars,
            liveVars, snapVars, productVars, ghostVars, envVars,
            LocalsAssigned, HasTarget, HasSnap, NoMarker, BadMarker
<1>1. ASSUME NEW p \in Process, Crash(p) PROVE TypeInv'
  BY <1>1 DEF Crash, EndAs
<1>2. ASSUME NEW s \in SnapName, OrphanExits(s) PROVE TypeInv'
  BY <1>2 DEF OrphanExits
<1>3. ASSUME NEW x \in Blob, DamageBlob(x) PROVE TypeInv'
  BY <1>3 DEF DamageBlob
<1>4. ASSUME NEW x \in Blob, DamageMarker(x) PROVE TypeInv'
  BY <1>4 DEF DamageMarker
<1>5. CASE DamageManifest
  <2>1. manifestOk' \in BOOLEAN
    BY <1>5, Zenon DEF DamageManifest
  <2>2. /\ faults' \in Nat
        /\ UNCHANGED <<lock, pc, locals, storeVars, manifest, snapVars,
                       productVars, ghostVars, clock>>
    BY <1>5 DEF DamageManifest
  <2>. QED  BY <2>1, <2>2
<1>6. CASE Tick
  BY <1>6 DEF Tick
<1>. QED  BY <1>1, <1>2, <1>3, <1>4, <1>5, <1>6 DEF Environment

(* Every step keeps the types. *)
LEMMA StepType == TypeInv /\ [Next]_vars => TypeInv'
<1> SUFFICES ASSUME TypeInv, [Next]_vars PROVE TypeInv'
  OBVIOUS
<1>1. CASE UNCHANGED vars
  BY <1>1 DEF vars, TypeInv, TypeOK, LocalsAssigned, locals, sharedVars,
     storeVars, liveVars, snapVars, productVars, ghostVars,
         envVars
<1>2. ASSUME NEW p \in Process, Start(p) \/ Proceed(p) \/ Break(p)
      PROVE  TypeInv'
  BY <1>2, StartType, MaintainType, MaterializeType, BuildImageType,
     CommitBuildType, BreakType DEF Proceed
<1>3. CASE Environment
  BY <1>3, EnvironmentType
<1>. QED  BY <1>1, <1>2, <1>3 DEF Next

-----------------------------------------------------------------------------
(* The inductive invariant. *)

CommitStages == {"verify", "replace", "unmark", "gc", "gcUnmark"}

(* A build has no snapshot before it creates its own and after it removed  *)
(* it; a sealed snapshot, the projection and the image agree with the      *)
(* selection; and only a built selection reaches the commit.               *)
SnapshotInv ==
    /\ OneSnapshot
    /\ \A p \in Process :
        /\ pc[p] \in Stages \ (HasSnap \cup {"recover"}) => snaps = {}
        /\ pc[p] \in HasSnap => snaps = {snap[p]}
        /\ pc[p] = "fill" => payload[snap[p]] \cup todo[p] = sel[p]
        /\ pc[p] \in {"publish", "docker", "running"} =>
               payload[snap[p]] = sel[p]
        /\ pc[p] \in {"docker", "running"} => effective = sel[p]
        /\ pc[p] \in CommitStages => built[p]
        /\ built[p] => /\ pc[p] \in CommitStages \cup {"cleanup"}
                       /\ image = sel[p]
                       /\ effective = sel[p]

(* What a build may unlink is not live, or was damaged before: a target it *)
(* downloads was missing, and what it supersedes it does not select.       *)
RetentionInv ==
    /\ CommittedBlobsPresent
    /\ \A p \in Process :
        /\ pc[p] \in {"download", "published", "mark"} =>
               target[p] \notin manifest \/ target[p] \in damaged
        /\ pc[p] = "replace" =>
               \A x \in sel[p] : blob[x] = "valid" \/ x \in damaged
        /\ pc[p] = "replace" => superseded[p] \cap sel[p] = {}
        /\ pc[p] \in {"unmark", "gc", "gcUnmark"} =>
               superseded[p] \cap manifest = {}
        /\ pc[p] \in {"gc", "gcUnmark"} => todo[p] \subseteq superseded[p]

Inv == TypeInv /\ SingleActiveBuild /\ SnapshotInv /\ RetentionInv

-----------------------------------------------------------------------------
(* Mutual exclusion, by the lock. *)

(* Taking the lock or being refused it keeps builds exclusive. *)
LEMMA StartOwner ==
  ASSUME TypeInv, SingleActiveBuild, NEW p \in Process, Start(p)
  PROVE  SingleActiveBuild'
<1> USE ConstantsAssumption
        DEF TypeInv, TypeOK, Resting, Stages, locals, sharedVars, storeVars,
            liveVars, snapVars, productVars, ghostVars, envVars,
            LocalsAssigned, HasTarget, HasSnap,
            SingleActiveBuild
<1>1. CASE Acquire(p)
  BY <1>1 DEF Acquire
<1>2. CASE RejectCompeting(p)
  BY <1>2 DEF RejectCompeting
<1>. QED  BY <1>1, <1>2 DEF Start

(* Recovery and maintenance keep builds exclusive. *)
LEMMA MaintainOwner ==
  ASSUME TypeInv, SingleActiveBuild, NEW p \in Process, Maintain(p)
  PROVE  SingleActiveBuild'
<1> USE ConstantsAssumption
        DEF TypeInv, TypeOK, Resting, Stages, locals, sharedVars, storeVars,
            liveVars, snapVars, productVars, ghostVars, envVars,
            LocalsAssigned, HasTarget, HasSnap,
            SingleActiveBuild
<1>1. CASE RecoverSnapshot(p)
  BY <1>1 DEF RecoverSnapshot
<1>2. CASE RejectManifest(p)
  BY <1>2 DEF RejectManifest, EndAs
<1>3. CASE BeginMaintenance(p)
  BY <1>3 DEF BeginMaintenance, Go
<1>4. CASE MaintainLive(p)
  BY <1>4 DEF MaintainLive, DropMarker, Done, Loop
<1>5. CASE MaintainKeep(p)
  BY <1>5 DEF MaintainKeep, Done, Loop
<1>6. CASE MaintainCollect(p)
  BY <1>6 DEF MaintainCollect, UnlinkBlob, WorkOn, Go
<1>7. CASE MaintainUnmark(p)
  BY <1>7 DEF MaintainUnmark, DropMarker, Done, Loop, Go
<1>8. CASE EndMaintenance(p)
  BY <1>8 DEF EndMaintenance, Loop, Go
<1>. QED  BY <1>1, <1>2, <1>3, <1>4, <1>5, <1>6, <1>7, <1>8 DEF Maintain

(* Materialization keeps builds exclusive. *)
LEMMA MaterializeOwner ==
  ASSUME TypeInv, SingleActiveBuild, NEW p \in Process, Materialize(p)
  PROVE  SingleActiveBuild'
<1> USE ConstantsAssumption
        DEF TypeInv, TypeOK, Resting, Stages, locals, sharedVars, storeVars,
            liveVars, snapVars, productVars, ghostVars, envVars,
            LocalsAssigned, HasTarget, HasSnap,
            SingleActiveBuild
<1>1. CASE Hit(p)
  BY <1>1 DEF Hit, Done, Loop
<1>2. CASE RejectCorrupt(p)
  BY <1>2 DEF RejectCorrupt, EndAs
<1>3. CASE Miss(p)
  BY <1>3 DEF Miss, WorkOn, Go
<1>4. CASE PublishBlob(p)
  BY <1>4 DEF PublishBlob, Go
<1>5. CASE VerifyPublished(p)
  BY <1>5 DEF VerifyPublished, Go
<1>6. CASE RejectPublished(p)
  BY <1>6 DEF RejectPublished, UnlinkBlob, EndAs
<1>7. CASE MarkUncommitted(p)
  BY <1>7 DEF MarkUncommitted, Done, Loop, Go
<1>8. CASE EndMaterialization(p)
  BY <1>8 DEF EndMaterialization, Go
<1>9. CASE MaterializePi(p)
  BY <1>9 DEF MaterializePi, Go
<1>. QED  BY <1>1, <1>2, <1>3, <1>4, <1>5, <1>6, <1>7, <1>8, <1>9 DEF
             Materialize

(* Snapshot, projection and Docker keep builds exclusive. *)
LEMMA BuildImageOwner ==
  ASSUME TypeInv, SingleActiveBuild, NEW p \in Process, BuildImage(p)
  PROVE  SingleActiveBuild'
<1> USE ConstantsAssumption
        DEF TypeInv, TypeOK, Resting, Stages, locals, sharedVars, storeVars,
            liveVars, snapVars, productVars, ghostVars, envVars,
            LocalsAssigned, HasTarget, HasSnap,
            SingleActiveBuild
<1>1. CASE CreateSnapshot(p)
  BY <1>1 DEF CreateSnapshot, Go
<1>2. CASE FillSnapshot(p)
  BY <1>2 DEF FillSnapshot, Done, Loop
<1>3. CASE RejectPayload(p)
  BY <1>3 DEF RejectPayload, Go
<1>4. CASE SealSnapshot(p)
  BY <1>4 DEF SealSnapshot, Go
<1>5. CASE PublishProjection(p)
  BY <1>5 DEF PublishProjection, Go
<1>6. CASE RunDocker(p)
  BY <1>6 DEF RunDocker, Go
<1>7. CASE DockerSucceeds(p)
  BY <1>7 DEF DockerSucceeds, Go
<1>8. CASE DockerFails(p)
  BY <1>8 DEF DockerFails, Go
<1>9. CASE CleanupAfterSuccess(p)
  BY <1>9 DEF CleanupAfterSuccess, RemoveSnapshot, Go
<1>10. CASE CleanupAfterFailure(p)
  BY <1>10 DEF CleanupAfterFailure, RemoveSnapshot, EndAs
<1>. QED  BY <1>1, <1>2, <1>3, <1>4, <1>5, <1>6, <1>7, <1>8, <1>9, <1>10 DEF
             BuildImage

(* The commit keeps builds exclusive. *)
LEMMA CommitBuildOwner ==
  ASSUME TypeInv, SingleActiveBuild, NEW p \in Process, CommitBuild(p)
  PROVE  SingleActiveBuild'
<1> USE ConstantsAssumption
        DEF TypeInv, TypeOK, Resting, Stages, locals, sharedVars, storeVars,
            liveVars, snapVars, productVars, ghostVars, envVars,
            LocalsAssigned, HasTarget, HasSnap,
            SingleActiveBuild
<1>1. CASE CommitVerify(p)
  BY <1>1 DEF CommitVerify, Go
<1>2. CASE RejectVerify(p)
  BY <1>2 DEF RejectVerify, EndAs
<1>3. CASE CommitManifest(p)
  BY <1>3 DEF CommitManifest, Loop, Go
<1>4. CASE CommitUnmark(p)
  BY <1>4 DEF CommitUnmark, DropMarker, Done, Loop
<1>5. CASE BeginGc(p)
  BY <1>5 DEF BeginGc, Loop, Go
<1>6. CASE GcBlob(p)
  BY <1>6 DEF GcBlob, UnlinkBlob, WorkOn, Go
<1>7. CASE GcUnmark(p)
  BY <1>7 DEF GcUnmark, DropMarker, Done, Loop, Go
<1>8. CASE Succeed(p)
  BY <1>8 DEF Succeed, EndAs
<1>. QED  BY <1>1, <1>2, <1>3, <1>4, <1>5, <1>6, <1>7, <1>8 DEF CommitBuild

(* An error or interrupt keeps builds exclusive. *)
LEMMA BreakOwner ==
  ASSUME TypeInv, SingleActiveBuild, NEW p \in Process, Break(p)
  PROVE  SingleActiveBuild'
<1> USE ConstantsAssumption
        DEF TypeInv, TypeOK, Resting, Stages, locals, sharedVars, storeVars,
            liveVars, snapVars, productVars, ghostVars, envVars,
            LocalsAssigned, HasTarget, HasSnap,
            SingleActiveBuild
<1>1. CASE DownloadFails(p)
  BY <1>1 DEF DownloadFails, EndAs
<1>2. CASE MarkFails(p)
  BY <1>2 DEF MarkFails, EndAs
<1>3. CASE AbandonSnapshot(p)
  BY <1>3 DEF AbandonSnapshot
<1>4. CASE CleanupFails(p)
  BY <1>4 DEF CleanupFails, EndAs
<1>5. CASE Fail(p)
  BY <1>5 DEF Fail, EndAs
<1>. QED  BY <1>1, <1>2, <1>3, <1>4, <1>5 DEF Break

(* A crash, outside damage or the clock keeps builds exclusive. *)
LEMMA EnvironmentOwner ==
  ASSUME TypeInv, SingleActiveBuild, Environment
  PROVE  SingleActiveBuild'
<1> USE ConstantsAssumption
        DEF TypeInv, TypeOK, Resting, Stages, locals, sharedVars, storeVars,
            liveVars, snapVars, productVars, ghostVars, envVars,
            LocalsAssigned, HasTarget, HasSnap,
            SingleActiveBuild
<1>1. ASSUME NEW p \in Process, Crash(p) PROVE SingleActiveBuild'
  BY <1>1 DEF Crash, EndAs
<1>2. ASSUME NEW s \in SnapName, OrphanExits(s) PROVE SingleActiveBuild'
  BY <1>2 DEF OrphanExits
<1>3. ASSUME NEW x \in Blob, DamageBlob(x) PROVE SingleActiveBuild'
  BY <1>3 DEF DamageBlob
<1>4. ASSUME NEW x \in Blob, DamageMarker(x) PROVE SingleActiveBuild'
  BY <1>4 DEF DamageMarker
<1>5. CASE DamageManifest
  BY <1>5 DEF DamageManifest
<1>6. CASE Tick
  BY <1>6 DEF Tick
<1>. QED  BY <1>1, <1>2, <1>3, <1>4, <1>5, <1>6 DEF Environment

(* Every step keeps builds exclusive. *)
LEMMA StepOwner ==
  TypeInv /\ SingleActiveBuild /\ [Next]_vars => SingleActiveBuild'
<1> SUFFICES ASSUME TypeInv, SingleActiveBuild, [Next]_vars
             PROVE  SingleActiveBuild'
  OBVIOUS
<1>1. CASE UNCHANGED vars
  BY <1>1 DEF vars, SingleActiveBuild, locals, sharedVars, storeVars, liveVars,
     snapVars, productVars, ghostVars,
         envVars
<1>2. ASSUME NEW p \in Process, Start(p) \/ Proceed(p) \/ Break(p)
      PROVE  SingleActiveBuild'
  BY <1>2, StartOwner, MaintainOwner, MaterializeOwner, BuildImageOwner,
     CommitBuildOwner, BreakOwner DEF Proceed
<1>3. CASE Environment
  BY <1>3, EnvironmentOwner
<1>. QED  BY <1>1, <1>2, <1>3 DEF Next

-----------------------------------------------------------------------------
(* The snapshot, the projection and the image of the build. *)

(* Taking the lock or being refused it keeps SnapshotInv. *)
LEMMA StartSnapshot ==
  ASSUME TypeInv, SingleActiveBuild, SnapshotInv, NEW p \in Process, Start(p)
  PROVE  SnapshotInv'
<1> USE ConstantsAssumption
        DEF TypeInv, TypeOK, Resting, Stages, locals, sharedVars, storeVars,
            liveVars, snapVars, productVars, ghostVars, envVars,
            LocalsAssigned, HasTarget, HasSnap,
            SingleActiveBuild, SnapshotInv, OneSnapshot, CommitStages
<1>1. CASE Acquire(p)
  BY <1>1 DEF Acquire
<1>2. CASE RejectCompeting(p)
  BY <1>2 DEF RejectCompeting
<1>. QED  BY <1>1, <1>2 DEF Start

(* Recovery and maintenance keep SnapshotInv. *)
LEMMA MaintainSnapshot ==
  ASSUME TypeInv, SingleActiveBuild, SnapshotInv, NEW p \in Process,
  Maintain(p)
  PROVE  SnapshotInv'
<1> USE ConstantsAssumption
        DEF TypeInv, TypeOK, Resting, Stages, locals, sharedVars, storeVars,
            liveVars, snapVars, productVars, ghostVars, envVars,
            LocalsAssigned, HasTarget, HasSnap,
            SingleActiveBuild, SnapshotInv, OneSnapshot, CommitStages
<1>1. CASE RecoverSnapshot(p)
  BY <1>1 DEF RecoverSnapshot
<1>2. CASE RejectManifest(p)
  BY <1>2 DEF RejectManifest, EndAs
<1>3. CASE BeginMaintenance(p)
  BY <1>3 DEF BeginMaintenance, Go
<1>4. CASE MaintainLive(p)
  BY <1>4 DEF MaintainLive, DropMarker, Done, Loop
<1>5. CASE MaintainKeep(p)
  BY <1>5 DEF MaintainKeep, Done, Loop
<1>6. CASE MaintainCollect(p)
  BY <1>6 DEF MaintainCollect, UnlinkBlob, WorkOn, Go
<1>7. CASE MaintainUnmark(p)
  BY <1>7 DEF MaintainUnmark, DropMarker, Done, Loop, Go
<1>8. CASE EndMaintenance(p)
  BY <1>8 DEF EndMaintenance, Loop, Go
<1>. QED  BY <1>1, <1>2, <1>3, <1>4, <1>5, <1>6, <1>7, <1>8 DEF Maintain

(* Materialization keeps SnapshotInv. *)
LEMMA MaterializeSnapshot ==
  ASSUME TypeInv, SingleActiveBuild, SnapshotInv, NEW p \in Process,
  Materialize(p)
  PROVE  SnapshotInv'
<1> USE ConstantsAssumption
        DEF TypeInv, TypeOK, Resting, Stages, locals, sharedVars, storeVars,
            liveVars, snapVars, productVars, ghostVars, envVars,
            LocalsAssigned, HasTarget, HasSnap,
            SingleActiveBuild, SnapshotInv, OneSnapshot, CommitStages
<1>1. CASE Hit(p)
  BY <1>1 DEF Hit, Done, Loop
<1>2. CASE RejectCorrupt(p)
  BY <1>2 DEF RejectCorrupt, EndAs
<1>3. CASE Miss(p)
  BY <1>3 DEF Miss, WorkOn, Go
<1>4. CASE PublishBlob(p)
  BY <1>4 DEF PublishBlob, Go
<1>5. CASE VerifyPublished(p)
  BY <1>5 DEF VerifyPublished, Go
<1>6. CASE RejectPublished(p)
  BY <1>6 DEF RejectPublished, UnlinkBlob, EndAs
<1>7. CASE MarkUncommitted(p)
  BY <1>7 DEF MarkUncommitted, Done, Loop, Go
<1>8. CASE EndMaterialization(p)
  BY <1>8 DEF EndMaterialization, Go
<1>9. CASE MaterializePi(p)
  BY <1>9 DEF MaterializePi, Go
<1>. QED  BY <1>1, <1>2, <1>3, <1>4, <1>5, <1>6, <1>7, <1>8, <1>9 DEF
             Materialize

(* Snapshot, projection and Docker keep SnapshotInv. *)
LEMMA BuildImageSnapshot ==
  ASSUME TypeInv, SingleActiveBuild, SnapshotInv, NEW p \in Process,
  BuildImage(p)
  PROVE  SnapshotInv'
<1> USE ConstantsAssumption
        DEF TypeInv, TypeOK, Resting, Stages, locals, sharedVars, storeVars,
            liveVars, snapVars, productVars, ghostVars, envVars,
            LocalsAssigned, HasTarget, HasSnap,
            SingleActiveBuild, SnapshotInv, OneSnapshot, CommitStages
<1>1. CASE CreateSnapshot(p)
  BY <1>1 DEF CreateSnapshot, Go
<1>2. CASE FillSnapshot(p)
  BY <1>2 DEF FillSnapshot, Done, Loop
<1>3. CASE RejectPayload(p)
  BY <1>3 DEF RejectPayload, Go
<1>4. CASE SealSnapshot(p)
  <2>1. payload[snap[p]] \cup {} = sel[p]
    BY <1>4 DEF SealSnapshot, Go
  <2>2. payload[snap[p]] = sel[p]
    BY <2>1
  <2>. QED  BY <1>4, <2>2 DEF SealSnapshot, Go
<1>5. CASE PublishProjection(p)
  BY <1>5 DEF PublishProjection, Go
<1>6. CASE RunDocker(p)
  BY <1>6 DEF RunDocker, Go
<1>7. CASE DockerSucceeds(p)
  BY <1>7 DEF DockerSucceeds, Go
<1>8. CASE DockerFails(p)
  BY <1>8 DEF DockerFails, Go
<1>9. CASE CleanupAfterSuccess(p)
  BY <1>9 DEF CleanupAfterSuccess, RemoveSnapshot, Go
<1>10. CASE CleanupAfterFailure(p)
  BY <1>10 DEF CleanupAfterFailure, RemoveSnapshot, EndAs
<1>. QED  BY <1>1, <1>2, <1>3, <1>4, <1>5, <1>6, <1>7, <1>8, <1>9, <1>10 DEF
             BuildImage

(* The commit keeps SnapshotInv. *)
LEMMA CommitBuildSnapshot ==
  ASSUME TypeInv, SingleActiveBuild, SnapshotInv, NEW p \in Process,
  CommitBuild(p)
  PROVE  SnapshotInv'
<1> USE ConstantsAssumption
        DEF TypeInv, TypeOK, Resting, Stages, locals, sharedVars, storeVars,
            liveVars, snapVars, productVars, ghostVars, envVars,
            LocalsAssigned, HasTarget, HasSnap,
            SingleActiveBuild, SnapshotInv, OneSnapshot, CommitStages
<1>1. CASE CommitVerify(p)
  BY <1>1 DEF CommitVerify, Go
<1>2. CASE RejectVerify(p)
  BY <1>2 DEF RejectVerify, EndAs
<1>3. CASE CommitManifest(p)
  BY <1>3 DEF CommitManifest, Loop, Go
<1>4. CASE CommitUnmark(p)
  BY <1>4 DEF CommitUnmark, DropMarker, Done, Loop
<1>5. CASE BeginGc(p)
  BY <1>5 DEF BeginGc, Loop, Go
<1>6. CASE GcBlob(p)
  BY <1>6 DEF GcBlob, UnlinkBlob, WorkOn, Go
<1>7. CASE GcUnmark(p)
  BY <1>7 DEF GcUnmark, DropMarker, Done, Loop, Go
<1>8. CASE Succeed(p)
  BY <1>8 DEF Succeed, EndAs
<1>. QED  BY <1>1, <1>2, <1>3, <1>4, <1>5, <1>6, <1>7, <1>8 DEF CommitBuild

(* An error or interrupt keeps SnapshotInv. *)
LEMMA BreakSnapshot ==
  ASSUME TypeInv, SingleActiveBuild, SnapshotInv, NEW p \in Process, Break(p)
  PROVE  SnapshotInv'
<1> USE ConstantsAssumption
        DEF TypeInv, TypeOK, Resting, Stages, locals, sharedVars, storeVars,
            liveVars, snapVars, productVars, ghostVars, envVars,
            LocalsAssigned, HasTarget, HasSnap,
            SingleActiveBuild, SnapshotInv, OneSnapshot, CommitStages
<1>1. CASE DownloadFails(p)
  BY <1>1 DEF DownloadFails, EndAs
<1>2. CASE MarkFails(p)
  BY <1>2 DEF MarkFails, EndAs
<1>3. CASE AbandonSnapshot(p)
  BY <1>3 DEF AbandonSnapshot
<1>4. CASE CleanupFails(p)
  BY <1>4 DEF CleanupFails, EndAs
<1>5. CASE Fail(p)
  BY <1>5 DEF Fail, EndAs
<1>. QED  BY <1>1, <1>2, <1>3, <1>4, <1>5 DEF Break

(* A crash, outside damage or the clock keeps SnapshotInv. *)
LEMMA EnvironmentSnapshot ==
  ASSUME TypeInv, SingleActiveBuild, SnapshotInv, Environment
  PROVE  SnapshotInv'
<1> USE ConstantsAssumption
        DEF TypeInv, TypeOK, Resting, Stages, locals, sharedVars, storeVars,
            liveVars, snapVars, productVars, ghostVars, envVars,
            LocalsAssigned, HasTarget, HasSnap,
            SingleActiveBuild, SnapshotInv, OneSnapshot, CommitStages
<1>1. ASSUME NEW p \in Process, Crash(p) PROVE SnapshotInv'
  BY <1>1 DEF Crash, EndAs
<1>2. ASSUME NEW s \in SnapName, OrphanExits(s) PROVE SnapshotInv'
  BY <1>2 DEF OrphanExits
<1>3. ASSUME NEW x \in Blob, DamageBlob(x) PROVE SnapshotInv'
  BY <1>3 DEF DamageBlob
<1>4. ASSUME NEW x \in Blob, DamageMarker(x) PROVE SnapshotInv'
  BY <1>4 DEF DamageMarker
<1>5. CASE DamageManifest
  BY <1>5 DEF DamageManifest
<1>6. CASE Tick
  BY <1>6 DEF Tick
<1>. QED  BY <1>1, <1>2, <1>3, <1>4, <1>5, <1>6 DEF Environment

(* Every step keeps SnapshotInv. *)
LEMMA StepSnapshot ==
  TypeInv /\ SingleActiveBuild /\ SnapshotInv /\ [Next]_vars => SnapshotInv'
<1> SUFFICES ASSUME TypeInv, SingleActiveBuild, SnapshotInv, [Next]_vars
             PROVE  SnapshotInv'
  OBVIOUS
<1>1. CASE UNCHANGED vars
  BY <1>1 DEF vars, SnapshotInv, OneSnapshot,
         locals, sharedVars, storeVars, liveVars, snapVars, productVars,
         ghostVars,
         envVars
<1>2. ASSUME NEW p \in Process, Start(p) \/ Proceed(p) \/ Break(p)
      PROVE  SnapshotInv'
  BY <1>2, StartSnapshot, MaintainSnapshot, MaterializeSnapshot,
     BuildImageSnapshot, CommitBuildSnapshot, BreakSnapshot DEF Proceed
<1>3. CASE Environment
  BY <1>3, EnvironmentSnapshot
<1>. QED  BY <1>1, <1>2, <1>3 DEF Next

-----------------------------------------------------------------------------
(* Retention. *)

(* Taking the lock or being refused it keeps RetentionInv. *)
LEMMA StartRetention ==
  ASSUME TypeInv, SingleActiveBuild, SnapshotInv, RetentionInv, NEW p \in
  Process, Start(p)
  PROVE  RetentionInv'
<1> USE ConstantsAssumption
        DEF TypeInv, TypeOK, Resting, Stages, locals, sharedVars, storeVars,
            liveVars, snapVars, productVars, ghostVars, envVars,
            LocalsAssigned, HasTarget, HasSnap,
            SingleActiveBuild, SnapshotInv, RetentionInv,
            CommittedBlobsPresent, CommitStages, NoMarker, BadMarker
<1>1. CASE Acquire(p)
  BY <1>1 DEF Acquire
<1>2. CASE RejectCompeting(p)
  BY <1>2 DEF RejectCompeting
<1>. QED  BY <1>1, <1>2 DEF Start

(* Recovery and maintenance keep RetentionInv. *)
LEMMA MaintainRetention ==
  ASSUME TypeInv, SingleActiveBuild, SnapshotInv, RetentionInv, NEW p \in
  Process, Maintain(p)
  PROVE  RetentionInv'
<1> USE ConstantsAssumption
        DEF TypeInv, TypeOK, Resting, Stages, locals, sharedVars, storeVars,
            liveVars, snapVars, productVars, ghostVars, envVars,
            LocalsAssigned, HasTarget, HasSnap,
            SingleActiveBuild, SnapshotInv, RetentionInv,
            CommittedBlobsPresent, CommitStages, NoMarker, BadMarker
<1>1. CASE RecoverSnapshot(p)
  BY <1>1 DEF RecoverSnapshot
<1>2. CASE RejectManifest(p)
  BY <1>2 DEF RejectManifest, EndAs
<1>3. CASE BeginMaintenance(p)
  BY <1>3 DEF BeginMaintenance, Go
<1>4. CASE MaintainLive(p)
  BY <1>4 DEF MaintainLive, DropMarker, Done, Loop
<1>5. CASE MaintainKeep(p)
  BY <1>5 DEF MaintainKeep, Done, Loop
<1>6. CASE MaintainCollect(p)
  BY <1>6 DEF MaintainCollect, UnlinkBlob, WorkOn, Go
<1>7. CASE MaintainUnmark(p)
  BY <1>7 DEF MaintainUnmark, DropMarker, Done, Loop, Go
<1>8. CASE EndMaintenance(p)
  BY <1>8 DEF EndMaintenance, Loop, Go
<1>. QED  BY <1>1, <1>2, <1>3, <1>4, <1>5, <1>6, <1>7, <1>8 DEF Maintain

(* Materialization keeps RetentionInv. *)
LEMMA MaterializeRetention ==
  ASSUME TypeInv, SingleActiveBuild, SnapshotInv, RetentionInv, NEW p \in
  Process, Materialize(p)
  PROVE  RetentionInv'
<1> USE ConstantsAssumption
        DEF TypeInv, TypeOK, Resting, Stages, locals, sharedVars, storeVars,
            liveVars, snapVars, productVars, ghostVars, envVars,
            LocalsAssigned, HasTarget, HasSnap,
            SingleActiveBuild, SnapshotInv, RetentionInv,
            CommittedBlobsPresent, CommitStages, NoMarker, BadMarker
<1>1. CASE Hit(p)
  BY <1>1 DEF Hit, Done, Loop
<1>2. CASE RejectCorrupt(p)
  BY <1>2 DEF RejectCorrupt, EndAs
<1>3. CASE Miss(p)
  BY <1>3 DEF Miss, WorkOn, Go
<1>4. CASE PublishBlob(p)
  BY <1>4 DEF PublishBlob, Go
<1>5. CASE VerifyPublished(p)
  BY <1>5 DEF VerifyPublished, Go
<1>6. CASE RejectPublished(p)
  BY <1>6 DEF RejectPublished, UnlinkBlob, EndAs
<1>7. CASE MarkUncommitted(p)
  BY <1>7 DEF MarkUncommitted, Done, Loop, Go
<1>8. CASE EndMaterialization(p)
  BY <1>8 DEF EndMaterialization, Go
<1>9. CASE MaterializePi(p)
  BY <1>9 DEF MaterializePi, Go
<1>. QED  BY <1>1, <1>2, <1>3, <1>4, <1>5, <1>6, <1>7, <1>8, <1>9 DEF
             Materialize

(* Snapshot, projection and Docker keep RetentionInv. *)
LEMMA BuildImageRetention ==
  ASSUME TypeInv, SingleActiveBuild, SnapshotInv, RetentionInv, NEW p \in
  Process, BuildImage(p)
  PROVE  RetentionInv'
<1> USE ConstantsAssumption
        DEF TypeInv, TypeOK, Resting, Stages, locals, sharedVars, storeVars,
            liveVars, snapVars, productVars, ghostVars, envVars,
            LocalsAssigned, HasTarget, HasSnap,
            SingleActiveBuild, SnapshotInv, RetentionInv,
            CommittedBlobsPresent, CommitStages, NoMarker, BadMarker
<1>1. CASE CreateSnapshot(p)
  BY <1>1 DEF CreateSnapshot, Go
<1>2. CASE FillSnapshot(p)
  BY <1>2 DEF FillSnapshot, Done, Loop
<1>3. CASE RejectPayload(p)
  BY <1>3 DEF RejectPayload, Go
<1>4. CASE SealSnapshot(p)
  BY <1>4 DEF SealSnapshot, Go
<1>5. CASE PublishProjection(p)
  BY <1>5 DEF PublishProjection, Go
<1>6. CASE RunDocker(p)
  BY <1>6 DEF RunDocker, Go
<1>7. CASE DockerSucceeds(p)
  BY <1>7 DEF DockerSucceeds, Go
<1>8. CASE DockerFails(p)
  BY <1>8 DEF DockerFails, Go
<1>9. CASE CleanupAfterSuccess(p)
  BY <1>9 DEF CleanupAfterSuccess, RemoveSnapshot, Go
<1>10. CASE CleanupAfterFailure(p)
  BY <1>10 DEF CleanupAfterFailure, RemoveSnapshot, EndAs
<1>. QED  BY <1>1, <1>2, <1>3, <1>4, <1>5, <1>6, <1>7, <1>8, <1>9, <1>10 DEF
             BuildImage

(* The commit keeps RetentionInv. *)
LEMMA CommitBuildRetention ==
  ASSUME TypeInv, SingleActiveBuild, SnapshotInv, RetentionInv, NEW p \in
  Process, CommitBuild(p)
  PROVE  RetentionInv'
<1> USE ConstantsAssumption
        DEF TypeInv, TypeOK, Resting, Stages, locals, sharedVars, storeVars,
            liveVars, snapVars, productVars, ghostVars, envVars,
            LocalsAssigned, HasTarget, HasSnap,
            SingleActiveBuild, SnapshotInv, RetentionInv,
            CommittedBlobsPresent, CommitStages, NoMarker, BadMarker
<1>1. CASE CommitVerify(p)
  BY <1>1 DEF CommitVerify, Go
<1>2. CASE RejectVerify(p)
  BY <1>2 DEF RejectVerify, EndAs
<1>3. CASE CommitManifest(p)
  BY <1>3 DEF CommitManifest, Loop, Go
<1>4. CASE CommitUnmark(p)
  BY <1>4 DEF CommitUnmark, DropMarker, Done, Loop
<1>5. CASE BeginGc(p)
  BY <1>5 DEF BeginGc, Loop, Go
<1>6. CASE GcBlob(p)
  BY <1>6 DEF GcBlob, UnlinkBlob, WorkOn, Go
<1>7. CASE GcUnmark(p)
  BY <1>7 DEF GcUnmark, DropMarker, Done, Loop, Go
<1>8. CASE Succeed(p)
  BY <1>8 DEF Succeed, EndAs
<1>. QED  BY <1>1, <1>2, <1>3, <1>4, <1>5, <1>6, <1>7, <1>8 DEF CommitBuild

(* An error or interrupt keeps RetentionInv. *)
LEMMA BreakRetention ==
  ASSUME TypeInv, SingleActiveBuild, SnapshotInv, RetentionInv, NEW p \in
  Process, Break(p)
  PROVE  RetentionInv'
<1> USE ConstantsAssumption
        DEF TypeInv, TypeOK, Resting, Stages, locals, sharedVars, storeVars,
            liveVars, snapVars, productVars, ghostVars, envVars,
            LocalsAssigned, HasTarget, HasSnap,
            SingleActiveBuild, SnapshotInv, RetentionInv,
            CommittedBlobsPresent, CommitStages, NoMarker, BadMarker
<1>1. CASE DownloadFails(p)
  BY <1>1 DEF DownloadFails, EndAs
<1>2. CASE MarkFails(p)
  BY <1>2 DEF MarkFails, EndAs
<1>3. CASE AbandonSnapshot(p)
  BY <1>3 DEF AbandonSnapshot
<1>4. CASE CleanupFails(p)
  BY <1>4 DEF CleanupFails, EndAs
<1>5. CASE Fail(p)
  BY <1>5 DEF Fail, EndAs
<1>. QED  BY <1>1, <1>2, <1>3, <1>4, <1>5 DEF Break

(* A crash, outside damage or the clock keeps RetentionInv. *)
LEMMA EnvironmentRetention ==
  ASSUME TypeInv, SingleActiveBuild, SnapshotInv, RetentionInv, Environment
  PROVE  RetentionInv'
<1> USE ConstantsAssumption
        DEF TypeInv, TypeOK, Resting, Stages, locals, sharedVars, storeVars,
            liveVars, snapVars, productVars, ghostVars, envVars,
            LocalsAssigned, HasTarget, HasSnap,
            SingleActiveBuild, SnapshotInv, RetentionInv,
            CommittedBlobsPresent, CommitStages, NoMarker, BadMarker
<1>1. ASSUME NEW p \in Process, Crash(p) PROVE RetentionInv'
  BY <1>1 DEF Crash, EndAs
<1>2. ASSUME NEW s \in SnapName, OrphanExits(s) PROVE RetentionInv'
  BY <1>2 DEF OrphanExits
<1>3. ASSUME NEW x \in Blob, DamageBlob(x) PROVE RetentionInv'
  BY <1>3 DEF DamageBlob
<1>4. ASSUME NEW x \in Blob, DamageMarker(x) PROVE RetentionInv'
  BY <1>4 DEF DamageMarker
<1>5. CASE DamageManifest
  BY <1>5 DEF DamageManifest
<1>6. CASE Tick
  BY <1>6 DEF Tick
<1>. QED  BY <1>1, <1>2, <1>3, <1>4, <1>5, <1>6 DEF Environment

(* Every step keeps RetentionInv. *)
LEMMA StepRetention ==
  TypeInv /\ SingleActiveBuild /\ SnapshotInv /\ RetentionInv /\ [Next]_vars
    => RetentionInv'
<1> SUFFICES ASSUME TypeInv, SingleActiveBuild, SnapshotInv, RetentionInv,
                    [Next]_vars
             PROVE  RetentionInv'
  OBVIOUS
<1>1. CASE UNCHANGED vars
  BY <1>1 DEF vars, RetentionInv,
         CommittedBlobsPresent, locals, sharedVars, storeVars, liveVars,
         snapVars, productVars, ghostVars,
         envVars
<1>2. ASSUME NEW p \in Process, Start(p) \/ Proceed(p) \/ Break(p)
      PROVE  RetentionInv'
  BY <1>2, StartRetention, MaintainRetention, MaterializeRetention,
     BuildImageRetention, CommitBuildRetention, BreakRetention DEF Proceed
<1>3. CASE Environment
  BY <1>3, EnvironmentRetention
<1>. QED  BY <1>1, <1>2, <1>3 DEF Next

-----------------------------------------------------------------------------
(* The inductive invariant holds initially. *)
LEMMA InitInv == Init => Inv
  BY InitType, ConstantsAssumption
     DEF Init, Inv, SingleActiveBuild, SnapshotInv, OneSnapshot, RetentionInv,
         CommittedBlobsPresent, Resting, Stages, HasSnap, CommitStages

(* Every step keeps the inductive invariant. *)
LEMMA StepInv == Inv /\ [Next]_vars => Inv'
  BY StepType, StepOwner, StepSnapshot, StepRetention DEF Inv

(* The inductive invariant holds in every reachable state. *)
LEMMA Invariance == Spec => []Inv
  BY InitInv, StepInv, PTL DEF Spec

-----------------------------------------------------------------------------
(* The theorems. *)

(* Every variable keeps its type, in every behaviour of the transaction. *)
THEOREM TypeCorrect == Spec => []TypeOK
<1>1. Inv => TypeOK
  BY DEF Inv, TypeInv
<1>. QED  BY <1>1, Invariance, PTL

(* A process is inside a build exactly while it holds the project's lock. *)
THEOREM BuildsExclusive == Spec => []SingleActiveBuild
<1>1. Inv => SingleActiveBuild
  BY DEF Inv
<1>. QED  BY <1>1, Invariance, PTL

(* No step of any build, crash or recovery takes a live blob away. *)
THEOREM CommittedRetained == Spec => []CommittedBlobsPresent
<1>1. Inv => CommittedBlobsPresent
  BY DEF Inv, RetentionInv
<1>. QED  BY <1>1, Invariance, PTL

(* Docker reads a complete snapshot of the selection that stays in place. *)
THEOREM SnapshotStable == Spec => []DockerReadsSelection
<1>1. Inv => DockerReadsSelection
  BY DEF Inv, SnapshotInv, DockerReadsSelection, HasSnap
<1>. QED  BY <1>1, Invariance, PTL

(* There is never more than one snapshot directory. *)
THEOREM SnapshotsDoNotPileUp == Spec => []OneSnapshot
<1>1. Inv => OneSnapshot
  BY DEF Inv, SnapshotInv
<1>. QED  BY <1>1, Invariance, PTL

-----------------------------------------------------------------------------
(* The transaction implements the retention promise of BuildRetention, and *)
(* commits only what Docker has built.                                     *)

(* A step the retention promise does not see. *)
Unseen == UNCHANGED <<manifest, blob, image, damaged>>

(* Such a step is a stuttering step of the promise. *)
LEMMA UnseenStutters == Unseen => UNCHANGED Retention!vars
  BY DEF Unseen, Retention!vars

(* Taking the lock or being refused it is unseen. *)
LEMMA StartUnseen ==
  ASSUME NEW p \in Process, Start(p)
  PROVE  Unseen
  BY DEF Start, Acquire, RejectCompeting, Unseen, sharedVars, storeVars,
         liveVars, productVars, ghostVars

(* Maintenance collects blobs that are not live. *)
LEMMA MaintainRefines ==
  ASSUME Inv, NEW p \in Process, Maintain(p)
  PROVE  Unseen \/ \E x \in Blob : Retention!Collect(x)
<1> USE DEF Unseen, sharedVars, storeVars, liveVars, productVars, ghostVars
<1>1. CASE MaintainCollect(p)
  <2>1. PICK x \in Blob : x \notin manifest /\ UnlinkBlob(x)
    BY <1>1 DEF MaintainCollect, Inv, TypeInv, TypeOK
  <2>2. UNCHANGED <<manifest, image, damaged>>
    BY <1>1 DEF MaintainCollect
  <2>3. {y \in Blob : blob'[y] = "valid"}
          = {y \in Blob : blob[y] = "valid"} \ {x}
    BY <2>1 DEF UnlinkBlob, Inv, TypeInv, TypeOK
  <2>4. Retention!Collect(x)
    BY <2>1, <2>2, <2>3 DEF Retention!Collect
  <2>. QED  BY <2>4
<1>2. CASE \/ RecoverSnapshot(p) \/ RejectManifest(p) \/ BeginMaintenance(p)
           \/ MaintainLive(p) \/ MaintainKeep(p) \/ MaintainUnmark(p)
           \/ EndMaintenance(p)
  BY <1>2 DEF RecoverSnapshot, RejectManifest, BeginMaintenance, MaintainLive,
              MaintainKeep, MaintainUnmark, EndMaintenance
<1>. QED  BY <1>1, <1>2 DEF Maintain

(* A process that may unlink its target: nobody's live blob goes by it. *)
LEMMA UnlinkRefines ==
  ASSUME Inv, NEW x \in Blob, UnlinkBlob(x),
         x \notin manifest \/ x \in damaged,
         UNCHANGED <<manifest, image, damaged>>
  PROVE  \E y \in Blob : Retention!Collect(y) \/ Retention!Lose(y)
<1>1. {y \in Blob : blob'[y] = "valid"}
        = {y \in Blob : blob[y] = "valid"} \ {x}
  BY DEF UnlinkBlob, Inv, TypeInv, TypeOK
<1>2. CASE x \notin manifest
  BY <1>1, <1>2 DEF Retention!Collect
<1>3. CASE x \in damaged
  <2>1. damaged' = damaged \cup {x}
    BY <1>3
  <2>2. Retention!Lose(x)
    BY <1>1, <2>1 DEF Retention!Lose
  <2>. QED  BY <2>2
<1>. QED  BY <1>2, <1>3

(* Materialization fetches, or takes back what it fetched. *)
LEMMA MaterializeRefines ==
  ASSUME Inv, NEW p \in Process, Materialize(p)
  PROVE  \/ Unseen
         \/ \E x \in Blob : \/ Retention!Fetch(x) \/ Retention!Collect(x)
                            \/ Retention!Lose(x)
<1> USE DEF Unseen, sharedVars, storeVars, liveVars, productVars, ghostVars
<1>1. CASE PublishBlob(p)
  <2>1. PICK x \in Blob : x = target[p]
    BY <1>1 DEF PublishBlob, Go, Inv, TypeInv, LocalsAssigned, HasTarget
  <2>2. {y \in Blob : blob'[y] = "valid"}
          = {y \in Blob : blob[y] = "valid"} \cup {x}
    BY <1>1, <2>1 DEF PublishBlob, Inv, TypeInv, TypeOK
  <2>3. Retention!Fetch(x)
    BY <1>1, <2>2 DEF PublishBlob, Retention!Fetch
  <2>. QED  BY <2>3
<1>2. CASE RejectPublished(p)
  <2>1. PICK x \in Blob : x = target[p]
    BY <1>2 DEF RejectPublished, Inv, TypeInv, LocalsAssigned, HasTarget
  <2>2. x \notin manifest \/ x \in damaged
    BY <1>2, <2>1 DEF RejectPublished, Inv, RetentionInv
  <2>3. UnlinkBlob(x) /\ UNCHANGED <<manifest, image, damaged>>
    BY <1>2, <2>1 DEF RejectPublished, UnlinkBlob
  <2>. QED  BY <2>1, <2>2, <2>3, UnlinkRefines
<1>3. CASE \/ Hit(p) \/ RejectCorrupt(p) \/ Miss(p) \/ VerifyPublished(p)
           \/ MarkUncommitted(p) \/ EndMaterialization(p) \/ MaterializePi(p)
  BY <1>3 DEF Hit, RejectCorrupt, Miss, VerifyPublished, MarkUncommitted,
              EndMaterialization, MaterializePi
<1>. QED  BY <1>1, <1>2, <1>3 DEF Materialize

(* Docker builds; the steps around it are unseen. *)
LEMMA BuildImageRefines ==
  ASSUME Inv, NEW p \in Process, BuildImage(p)
  PROVE  Unseen \/ \E S \in SUBSET Blob : Retention!Build(S)
<1> USE DEF Unseen, sharedVars, storeVars, liveVars, productVars, ghostVars
<1>1. CASE DockerSucceeds(p)
  <2>1. PICK S \in SUBSET Blob : S = payload[snap[p]]
    BY <1>1 DEF DockerSucceeds, Go, Inv, TypeInv, TypeOK, LocalsAssigned,
                HasSnap
  <2>2. Retention!Build(S)
    BY <1>1, <2>1 DEF DockerSucceeds, Retention!Build
  <2>. QED  BY <2>2
<1>2. CASE \/ CreateSnapshot(p) \/ FillSnapshot(p) \/ RejectPayload(p)
           \/ SealSnapshot(p) \/ PublishProjection(p) \/ RunDocker(p)
           \/ DockerFails(p) \/ CleanupAfterSuccess(p)
           \/ CleanupAfterFailure(p)
  BY <1>2 DEF CreateSnapshot, FillSnapshot, RejectPayload, SealSnapshot,
              PublishProjection, RunDocker, DockerFails, CleanupAfterSuccess,
              CleanupAfterFailure
<1>. QED  BY <1>1, <1>2 DEF BuildImage

(* The commit replaces the live set, then collects. *)
LEMMA CommitRefines ==
  ASSUME Inv, NEW p \in Process, CommitBuild(p)
  PROVE  \/ Unseen
         \/ \E x \in Blob : Retention!Collect(x) \/ Retention!Lose(x)
         \/ Retention!Commit
<1> USE DEF Unseen, sharedVars, storeVars, liveVars, productVars, ghostVars
<1>1. CASE CommitManifest(p)
  <2>1. image = sel[p] /\ manifest' = sel[p]
    BY <1>1 DEF CommitManifest, Go, Inv, SnapshotInv, CommitStages
  <2>2. \A x \in sel[p] : blob[x] = "valid" \/ x \in damaged
    BY <1>1 DEF CommitManifest, Go, Inv, RetentionInv
  <2>3. image \subseteq {x \in Blob : blob[x] = "valid"} \cup damaged
    BY <2>1, <2>2 DEF Inv, TypeInv, TypeOK
  <2>4. UNCHANGED <<blob, image, damaged>>
    BY <1>1 DEF CommitManifest
  <2>5. Retention!Commit
    BY <2>1, <2>3, <2>4 DEF Retention!Commit
  <2>. QED  BY <2>5
<1>2. CASE GcBlob(p)
  <2>1. PICK x \in todo[p] : UnlinkBlob(x)
    BY <1>2 DEF GcBlob
  <2>2. x \in Blob /\ x \notin manifest
    BY <1>2, <2>1 DEF GcBlob, Go, Inv, RetentionInv, TypeInv, TypeOK
  <2>3. UNCHANGED <<manifest, image, damaged>>
    BY <1>2 DEF GcBlob
  <2>. QED  BY <2>1, <2>2, <2>3, UnlinkRefines
<1>3. CASE \/ CommitVerify(p) \/ RejectVerify(p) \/ CommitUnmark(p)
           \/ BeginGc(p) \/ GcUnmark(p) \/ Succeed(p)
  BY <1>3 DEF CommitVerify, RejectVerify, CommitUnmark, BeginGc, GcUnmark,
              Succeed
<1>. QED  BY <1>1, <1>2, <1>3 DEF CommitBuild

(* An error or interrupt may take back what was just fetched. *)
LEMMA BreakRefines ==
  ASSUME Inv, NEW p \in Process, Break(p)
  PROVE  Unseen \/ \E x \in Blob : Retention!Collect(x) \/ Retention!Lose(x)
<1> USE DEF Unseen, sharedVars, storeVars, liveVars, productVars, ghostVars
<1>1. CASE MarkFails(p)
  <2>1. PICK x \in Blob : x = target[p]
    BY <1>1 DEF MarkFails, Inv, TypeInv, LocalsAssigned, HasTarget
  <2>2. x \notin manifest \/ x \in damaged
    BY <1>1, <2>1 DEF MarkFails, Inv, RetentionInv
  <2>3. blob' = blob \/ UnlinkBlob(x)
    BY <1>1, <2>1 DEF MarkFails, UnlinkBlob
  <2>4. UNCHANGED <<manifest, image, damaged>>
    BY <1>1 DEF MarkFails
  <2>5. CASE UnlinkBlob(x)
    BY <2>2, <2>4, <2>5, UnlinkRefines
  <2>. QED  BY <2>3, <2>4, <2>5
<1>2. CASE DownloadFails(p) \/ AbandonSnapshot(p) \/ CleanupFails(p) \/ Fail(p)
  BY <1>2 DEF DownloadFails, AbandonSnapshot, CleanupFails, Fail
<1>. QED  BY <1>1, <1>2 DEF Break

(* Outside damage loses blobs; crashes and time lose nothing. *)
LEMMA EnvironmentRefines ==
  ASSUME Inv, Environment
  PROVE  Unseen \/ \E x \in Blob : Retention!Lose(x)
<1> USE DEF Unseen, sharedVars, storeVars, liveVars, productVars, ghostVars
<1>1. ASSUME NEW x \in Blob, DamageBlob(x)
      PROVE  Retention!Lose(x)
  <2>1. {y \in Blob : blob'[y] = "valid"}
          = {y \in Blob : blob[y] = "valid"} \ {x}
    BY <1>1 DEF DamageBlob, Inv, TypeInv, TypeOK
  <2>. QED  BY <1>1, <2>1 DEF DamageBlob, Retention!Lose
<1>2. ASSUME NEW x \in Blob, DamageMarker(x) PROVE Unseen
  BY <1>2 DEF DamageMarker
<1>3. ASSUME NEW p \in Process, Crash(p) PROVE Unseen
  BY <1>3 DEF Crash
<1>4. ASSUME NEW s \in SnapName, OrphanExits(s) PROVE Unseen
  BY <1>4 DEF OrphanExits
<1>5. CASE DamageManifest \/ Tick
  BY <1>5 DEF DamageManifest, Tick
<1>. QED  BY <1>1, <1>2, <1>3, <1>4, <1>5 DEF Environment

(* The transaction starts where the promise starts. *)
LEMMA InitRefines == Init => Retention!Init
  BY DEF Init, Retention!Init

(* Every step maps to a step of the promise or to a stutter. *)
LEMMA StepRefines == Inv /\ [Next]_vars => [Retention!Next]_(Retention!vars)
<1> SUFFICES ASSUME Inv, [Next]_vars
             PROVE  Retention!Next \/ Unseen
  BY UnseenStutters
<1>1. CASE UNCHANGED vars
  BY <1>1 DEF vars, Unseen, sharedVars, storeVars, liveVars, productVars,
              ghostVars
<1>2. ASSUME NEW p \in Process, Start(p) \/ Proceed(p) \/ Break(p)
      PROVE  Retention!Next \/ Unseen
  BY <1>2, StartUnseen, MaintainRefines, MaterializeRefines,
     BuildImageRefines, CommitRefines, BreakRefines DEF Proceed, Retention!Next
<1>3. CASE Environment
  BY <1>3, EnvironmentRefines DEF Retention!Next
<1>. QED  BY <1>1, <1>2, <1>3 DEF Next

(* The transaction keeps the retention promise: whatever processes, crashes *)
(* and damage do, an observer of the live set, the reusable blobs and the   *)
(* image sees only steps the promise allows.                                *)
THEOREM RetentionRefined == Spec => ImplementsRetention
  BY InitRefines, StepRefines, Invariance, PTL
     DEF Spec, ImplementsRetention, Retention!Spec

-----------------------------------------------------------------------------

(* Only CommitManifest changes the live set, and then to the image. *)
LEMMA CommitsImage ==
  ASSUME Inv, [Next]_vars, manifest' # manifest
  PROVE  manifest' = image /\ manifest' = effective /\ snaps = {}
<1> USE DEF sharedVars, storeVars, liveVars, productVars, ghostVars
<1>1. PICK p \in Process : CommitManifest(p)
  <2>1. ~ UNCHANGED vars
    BY DEF vars
  <2>2. ASSUME Environment PROVE UNCHANGED manifest
    BY <2>2 DEF Environment, Crash, OrphanExits, DamageBlob, DamageMarker,
                DamageManifest, Tick
  <2>3. ASSUME NEW p \in Process,
               \/ Start(p) \/ Maintain(p) \/ Materialize(p)
               \/ BuildImage(p) \/ Break(p)
        PROVE  UNCHANGED manifest
    <3>1. CASE Start(p) \/ Break(p)
      BY <3>1, StartUnseen, BreakRefines
         DEF Unseen, Retention!Collect, Retention!Lose
    <3>2. CASE Maintain(p)
      BY <3>2, MaintainRefines DEF Unseen, Retention!Collect
    <3>3. CASE Materialize(p)
      BY <3>3, MaterializeRefines
         DEF Unseen, Retention!Fetch, Retention!Collect, Retention!Lose
    <3>4. CASE BuildImage(p)
      BY <3>4, BuildImageRefines DEF Unseen, Retention!Build
    <3>. QED  BY <2>3, <3>1, <3>2, <3>3, <3>4
  <2>4. ASSUME NEW p \in Process, CommitBuild(p), ~CommitManifest(p)
        PROVE  UNCHANGED manifest
    BY <2>4 DEF CommitBuild, CommitVerify, RejectVerify, CommitUnmark,
                BeginGc, GcBlob, GcUnmark, Succeed
  <2>. QED  BY <2>1, <2>2, <2>3, <2>4 DEF Next, Proceed
<1>2. pc[p] = "replace" /\ manifest' = sel[p]
  BY <1>1 DEF CommitManifest, Go
<1>. QED  BY <1>2 DEF Inv, SnapshotInv, CommitStages, HasSnap, Stages

(* The live set only ever becomes the artifact set of the image Docker has  *)
(* just built from the published projection, after the snapshot is removed. *)
THEOREM ImageBeforeCommit == Spec => CommitFollowsImage
<1>1. Inv /\ [Next]_vars =>
        [manifest' # manifest =>
            manifest' = image /\ manifest' = effective /\ snaps = {}]_vars
  BY CommitsImage
<1>. QED  BY <1>1, Invariance, PTL DEF Spec, CommitFollowsImage

-----------------------------------------------------------------------------
(* What a successful build leaves behind.                                  *)

(* The commit proceeds: the manifest is the selection, the markers of what *)
(* the loop has dealt with are gone, then the superseded blobs.            *)
CleanInv ==
    \A p \in Process :
        /\ pc[p] \in {"unmark", "gc", "gcUnmark"} => manifest = sel[p]
        /\ pc[p] = "unmark" => \A x \in sel[p] \ todo[p] : marker[x] = NoMarker
        /\ pc[p] \in {"gc", "gcUnmark"} =>
               /\ \A x \in sel[p] : marker[x] = NoMarker
               /\ \A x \in superseded[p] \ todo[p] : blob[x] = "absent"
        /\ pc[p] = "gcUnmark" => blob[target[p]] = "absent"

(* Taking the lock or being refused it keeps CleanInv. *)
LEMMA StartClean ==
  ASSUME Inv, CleanInv, NEW p \in Process, Start(p)
  PROVE  CleanInv'
<1> USE ConstantsAssumption
        DEF Inv, TypeInv, TypeOK, Resting, Stages, locals, sharedVars, storeVars, liveVars,
            snapVars, productVars, ghostVars, envVars, LocalsAssigned, HasTarget,
            SingleActiveBuild, CleanInv, NoMarker, BadMarker
<1>1. CASE Acquire(p)
  BY <1>1 DEF Acquire
<1>2. CASE RejectCompeting(p)
  BY <1>2 DEF RejectCompeting
<1>. QED
  BY <1>1, <1>2 DEF Start

(* Recovery and maintenance keep CleanInv. *)
LEMMA MaintainClean ==
  ASSUME Inv, CleanInv, NEW p \in Process, Maintain(p)
  PROVE  CleanInv'
<1> USE ConstantsAssumption
        DEF Inv, TypeInv, TypeOK, Resting, Stages, locals, sharedVars, storeVars, liveVars,
            snapVars, productVars, ghostVars, envVars, LocalsAssigned, HasTarget,
            SingleActiveBuild, CleanInv, NoMarker, BadMarker
<1>1. CASE RecoverSnapshot(p)
  BY <1>1 DEF RecoverSnapshot
<1>2. CASE RejectManifest(p)
  BY <1>2 DEF RejectManifest, EndAs
<1>3. CASE BeginMaintenance(p)
  BY <1>3 DEF BeginMaintenance, Go
<1>4. CASE MaintainLive(p)
  BY <1>4 DEF MaintainLive, DropMarker, Done, Loop
<1>5. CASE MaintainKeep(p)
  BY <1>5 DEF MaintainKeep, Collectable, Done, Loop
<1>6. CASE MaintainCollect(p)
  BY <1>6 DEF MaintainCollect, UnlinkBlob, WorkOn, Go
<1>7. CASE MaintainUnmark(p)
  BY <1>7 DEF MaintainUnmark, DropMarker, Done, Loop, Go
<1>8. CASE EndMaintenance(p)
  BY <1>8 DEF EndMaintenance, Loop, Go
<1>. QED
  BY <1>1, <1>2, <1>3, <1>4, <1>5, <1>6, <1>7, <1>8 DEF Maintain

(* Materialization keeps CleanInv. *)
LEMMA MaterializeClean ==
  ASSUME Inv, CleanInv, NEW p \in Process, Materialize(p)
  PROVE  CleanInv'
<1> USE ConstantsAssumption
        DEF Inv, TypeInv, TypeOK, Resting, Stages, locals, sharedVars, storeVars, liveVars,
            snapVars, productVars, ghostVars, envVars, LocalsAssigned, HasTarget,
            SingleActiveBuild, CleanInv, NoMarker, BadMarker
<1>1. CASE Hit(p)
  BY <1>1 DEF Hit, Done, Loop
<1>2. CASE RejectCorrupt(p)
  BY <1>2 DEF RejectCorrupt, EndAs
<1>3. CASE Miss(p)
  BY <1>3 DEF Miss, WorkOn, Go
<1>4. CASE PublishBlob(p)
  BY <1>4 DEF PublishBlob, Go
<1>5. CASE VerifyPublished(p)
  BY <1>5 DEF VerifyPublished, Go
<1>6. CASE RejectPublished(p)
  BY <1>6 DEF RejectPublished, UnlinkBlob, EndAs
<1>7. CASE MarkUncommitted(p)
  BY <1>7 DEF MarkUncommitted, Done, Loop, Go
<1>8. CASE EndMaterialization(p)
  BY <1>8 DEF EndMaterialization, Go
<1>9. CASE MaterializePi(p)
  BY <1>9 DEF MaterializePi, Go
<1>. QED
  BY <1>1, <1>2, <1>3, <1>4, <1>5, <1>6, <1>7, <1>8, <1>9 DEF Materialize

(* Snapshot, projection and Docker keep CleanInv. *)
LEMMA BuildImageClean ==
  ASSUME Inv, CleanInv, NEW p \in Process, BuildImage(p)
  PROVE  CleanInv'
<1> USE ConstantsAssumption
        DEF Inv, TypeInv, TypeOK, Resting, Stages, locals, sharedVars, storeVars, liveVars,
            snapVars, productVars, ghostVars, envVars, LocalsAssigned, HasTarget,
            SingleActiveBuild, CleanInv, NoMarker, BadMarker
<1>1. CASE CreateSnapshot(p)
  BY <1>1 DEF CreateSnapshot, Go
<1>2. CASE FillSnapshot(p)
  BY <1>2 DEF FillSnapshot, Done, Loop
<1>3. CASE RejectPayload(p)
  BY <1>3 DEF RejectPayload, Go
<1>4. CASE SealSnapshot(p)
  BY <1>4 DEF SealSnapshot, Go
<1>5. CASE PublishProjection(p)
  BY <1>5 DEF PublishProjection, Go
<1>6. CASE RunDocker(p)
  BY <1>6 DEF RunDocker, Go
<1>7. CASE DockerSucceeds(p)
  BY <1>7 DEF DockerSucceeds, Go
<1>8. CASE DockerFails(p)
  BY <1>8 DEF DockerFails, Go
<1>9. CASE CleanupAfterSuccess(p)
  BY <1>9 DEF CleanupAfterSuccess, RemoveSnapshot, Go
<1>10. CASE CleanupAfterFailure(p)
  BY <1>10 DEF CleanupAfterFailure, RemoveSnapshot, EndAs
<1>. QED
  BY <1>1, <1>2, <1>3, <1>4, <1>5, <1>6, <1>7, <1>8, <1>9, <1>10 DEF
     BuildImage

(* The commit keeps CleanInv. *)
LEMMA CommitBuildClean ==
  ASSUME Inv, CleanInv, NEW p \in Process, CommitBuild(p)
  PROVE  CleanInv'
<1> USE ConstantsAssumption
        DEF Inv, TypeInv, TypeOK, Resting, Stages, locals, sharedVars, storeVars, liveVars,
            snapVars, productVars, ghostVars, envVars, LocalsAssigned, HasTarget,
            SingleActiveBuild, CleanInv, NoMarker, BadMarker
<1>1. CASE CommitVerify(p)
  BY <1>1 DEF CommitVerify, Go
<1>2. CASE RejectVerify(p)
  BY <1>2 DEF RejectVerify, EndAs
<1>3. CASE CommitManifest(p)
  BY <1>3 DEF CommitManifest, Loop, Go
<1>4. CASE CommitUnmark(p)
  BY <1>4 DEF CommitUnmark, DropMarker, Done, Loop
<1>5. CASE BeginGc(p)
  BY <1>5 DEF BeginGc, Loop, Go
<1>6. CASE GcBlob(p)
  BY <1>6 DEF GcBlob, UnlinkBlob, WorkOn, Go
<1>7. CASE GcUnmark(p)
  BY <1>7 DEF GcUnmark, DropMarker, Done, Loop, Go
<1>8. CASE Succeed(p)
  BY <1>8 DEF Succeed, EndAs
<1>. QED
  BY <1>1, <1>2, <1>3, <1>4, <1>5, <1>6, <1>7, <1>8 DEF CommitBuild

(* An error or interrupt keeps CleanInv. *)
LEMMA BreakClean ==
  ASSUME Inv, CleanInv, NEW p \in Process, Break(p)
  PROVE  CleanInv'
<1> USE ConstantsAssumption
        DEF Inv, TypeInv, TypeOK, Resting, Stages, locals, sharedVars, storeVars, liveVars,
            snapVars, productVars, ghostVars, envVars, LocalsAssigned, HasTarget,
            SingleActiveBuild, CleanInv, NoMarker, BadMarker
<1>1. CASE DownloadFails(p)
  BY <1>1 DEF DownloadFails, EndAs
<1>2. CASE MarkFails(p)
  BY <1>2 DEF MarkFails, EndAs
<1>3. CASE AbandonSnapshot(p)
  BY <1>3 DEF AbandonSnapshot
<1>4. CASE CleanupFails(p)
  BY <1>4 DEF CleanupFails, EndAs
<1>5. CASE Fail(p)
  BY <1>5 DEF Fail, EndAs
<1>. QED
  BY <1>1, <1>2, <1>3, <1>4, <1>5 DEF Break

(* A crash, outside damage or the clock keeps CleanInv. *)
LEMMA EnvironmentClean ==
  ASSUME Inv, CleanInv, Environment
  PROVE  CleanInv'
<1> USE ConstantsAssumption
        DEF Inv, TypeInv, TypeOK, Resting, Stages, locals, sharedVars, storeVars, liveVars,
            snapVars, productVars, ghostVars, envVars, LocalsAssigned, HasTarget,
            SingleActiveBuild, CleanInv, NoMarker, BadMarker
<1>1. ASSUME NEW p \in Process, Crash(p) PROVE CleanInv'
  BY <1>1 DEF Crash, EndAs
<1>2. ASSUME NEW s \in SnapName, OrphanExits(s) PROVE CleanInv'
  BY <1>2 DEF OrphanExits
<1>3. ASSUME NEW b \in Blob, DamageBlob(b) PROVE CleanInv'
  BY <1>3 DEF DamageBlob
<1>4. ASSUME NEW b \in Blob, DamageMarker(b) PROVE CleanInv'
  BY <1>4 DEF DamageMarker
<1>5. CASE DamageManifest
  BY <1>5 DEF DamageManifest
<1>6. CASE Tick
  BY <1>6 DEF Tick
<1>. QED  BY <1>1, <1>2, <1>3, <1>4, <1>5, <1>6 DEF Environment

(* Every step keeps CleanInv. *)
LEMMA StepClean == Inv /\ CleanInv /\ [Next]_vars => CleanInv'
<1> SUFFICES ASSUME Inv, CleanInv, [Next]_vars PROVE CleanInv'
  OBVIOUS
<1>1. CASE UNCHANGED vars
  BY <1>1 DEF vars, CleanInv, NoMarker, BadMarker, locals, sharedVars, storeVars, liveVars,
     snapVars, productVars, ghostVars, envVars
<1>2. ASSUME NEW p \in Process, Start(p) \/ Proceed(p) \/ Break(p)
      PROVE  CleanInv'
  BY <1>2, StartClean, MaintainClean, MaterializeClean, BuildImageClean,
     CommitBuildClean, BreakClean DEF Proceed
<1>3. CASE Environment
  BY <1>3, EnvironmentClean
<1>. QED  BY <1>1, <1>2, <1>3 DEF Next

-----------------------------------------------------------------------------
(* Markers and the publication of their blobs.                             *)

Materializing == {"select", "download", "published", "mark"}
Orphaned(x) == x \notin damaged /\ blob[x] # "valid" /\ marker[x] # NoMarker

(* A marker is not older than the blob it stands for: those of blobs that  *)
(* are gone go at maintenance, so none awaits the blob that is published.  *)
MarkerInv ==
    /\ \A x \in Blob :
          /\ born[x] <= clock
          /\ x \notin damaged /\ blob[x] = "valid" =>
                 marker[x] \in {NoMarker, BadMarker} \/ born[x] <= marker[x]
    /\ \A p \in Process :
          /\ now[p] <= clock
          /\ pc[p] \in {"maintain", "maintainUnmark"} =>
                 /\ \A x \in Blob : Orphaned(x) => x \in todo[p]
                 /\ \A x \in todo[p] : marker[x] # NoMarker
          /\ pc[p] \in Materializing => \A x \in Blob : ~Orphaned(x)
          /\ pc[p] = "download" => blob[target[p]] # "valid"
          /\ pc[p] \in {"published", "mark"} =>
                 blob[target[p]] = "valid" \/ target[p] \in damaged

(* Taking the lock or being refused it keeps MarkerInv. *)
LEMMA StartMarker ==
  ASSUME Inv, MarkerInv, NEW p \in Process, Start(p)
  PROVE  MarkerInv'
<1> USE ConstantsAssumption
        DEF Inv, TypeInv, TypeOK, Resting, Stages, locals, sharedVars, storeVars, liveVars,
            snapVars, productVars, ghostVars, envVars, LocalsAssigned, HasTarget,
            SingleActiveBuild, MarkerInv, Orphaned, Materializing, NoMarker, BadMarker
<1>1. CASE Acquire(p)
  BY <1>1 DEF Acquire
<1>2. CASE RejectCompeting(p)
  BY <1>2 DEF RejectCompeting
<1>. QED
  BY <1>1, <1>2 DEF Start

(* Recovery and maintenance keep MarkerInv. *)
LEMMA MaintainMarker ==
  ASSUME Inv, MarkerInv, NEW p \in Process, Maintain(p)
  PROVE  MarkerInv'
<1> USE ConstantsAssumption
        DEF Inv, TypeInv, TypeOK, Resting, Stages, locals, sharedVars, storeVars, liveVars,
            snapVars, productVars, ghostVars, envVars, LocalsAssigned, HasTarget,
            SingleActiveBuild, MarkerInv, Orphaned, Materializing, NoMarker, BadMarker
<1>1. CASE RecoverSnapshot(p)
  BY <1>1 DEF RecoverSnapshot
<1>2. CASE RejectManifest(p)
  BY <1>2 DEF RejectManifest, EndAs
<1>3. CASE BeginMaintenance(p)
  BY <1>3 DEF BeginMaintenance, Go
<1>4. CASE MaintainLive(p)
  BY <1>4 DEF MaintainLive, DropMarker, Done, Loop
<1>5. CASE MaintainKeep(p)
  BY <1>5 DEF MaintainKeep, Collectable, Done, Loop
<1>6. CASE MaintainCollect(p)
  BY <1>6 DEF MaintainCollect, UnlinkBlob, WorkOn, Go
<1>7. CASE MaintainUnmark(p)
  BY <1>7 DEF MaintainUnmark, DropMarker, Done, Loop, Go
<1>8. CASE EndMaintenance(p)
  BY <1>8 DEF EndMaintenance, Loop, Go
<1>. QED
  BY <1>1, <1>2, <1>3, <1>4, <1>5, <1>6, <1>7, <1>8 DEF Maintain

(* Materialization keeps MarkerInv. *)
LEMMA MaterializeMarker ==
  ASSUME Inv, MarkerInv, NEW p \in Process, Materialize(p)
  PROVE  MarkerInv'
<1> USE ConstantsAssumption
        DEF Inv, TypeInv, TypeOK, Resting, Stages, locals, sharedVars, storeVars, liveVars,
            snapVars, productVars, ghostVars, envVars, LocalsAssigned, HasTarget,
            SingleActiveBuild, MarkerInv, Orphaned, Materializing, NoMarker, BadMarker
<1>1. CASE Hit(p)
  BY <1>1 DEF Hit, Done, Loop
<1>2. CASE RejectCorrupt(p)
  BY <1>2 DEF RejectCorrupt, EndAs
<1>3. CASE Miss(p)
  BY <1>3 DEF Miss, WorkOn, Go
<1>4. CASE PublishBlob(p)
  BY <1>4 DEF PublishBlob, Go
<1>5. CASE VerifyPublished(p)
  BY <1>5 DEF VerifyPublished, Go
<1>6. CASE RejectPublished(p)
  BY <1>6 DEF RejectPublished, UnlinkBlob, EndAs
<1>7. CASE MarkUncommitted(p)
  BY <1>7 DEF MarkUncommitted, Done, Loop, Go
<1>8. CASE EndMaterialization(p)
  BY <1>8 DEF EndMaterialization, Go
<1>9. CASE MaterializePi(p)
  BY <1>9 DEF MaterializePi, Go
<1>. QED
  BY <1>1, <1>2, <1>3, <1>4, <1>5, <1>6, <1>7, <1>8, <1>9 DEF Materialize

(* Snapshot, projection and Docker keep MarkerInv. *)
LEMMA BuildImageMarker ==
  ASSUME Inv, MarkerInv, NEW p \in Process, BuildImage(p)
  PROVE  MarkerInv'
<1> USE ConstantsAssumption
        DEF Inv, TypeInv, TypeOK, Resting, Stages, locals, sharedVars, storeVars, liveVars,
            snapVars, productVars, ghostVars, envVars, LocalsAssigned, HasTarget,
            SingleActiveBuild, MarkerInv, Orphaned, Materializing, NoMarker, BadMarker
<1>1. CASE CreateSnapshot(p)
  BY <1>1 DEF CreateSnapshot, Go
<1>2. CASE FillSnapshot(p)
  BY <1>2 DEF FillSnapshot, Done, Loop
<1>3. CASE RejectPayload(p)
  BY <1>3 DEF RejectPayload, Go
<1>4. CASE SealSnapshot(p)
  BY <1>4 DEF SealSnapshot, Go
<1>5. CASE PublishProjection(p)
  BY <1>5 DEF PublishProjection, Go
<1>6. CASE RunDocker(p)
  BY <1>6 DEF RunDocker, Go
<1>7. CASE DockerSucceeds(p)
  BY <1>7 DEF DockerSucceeds, Go
<1>8. CASE DockerFails(p)
  BY <1>8 DEF DockerFails, Go
<1>9. CASE CleanupAfterSuccess(p)
  BY <1>9 DEF CleanupAfterSuccess, RemoveSnapshot, Go
<1>10. CASE CleanupAfterFailure(p)
  BY <1>10 DEF CleanupAfterFailure, RemoveSnapshot, EndAs
<1>. QED
  BY <1>1, <1>2, <1>3, <1>4, <1>5, <1>6, <1>7, <1>8, <1>9, <1>10 DEF
     BuildImage

(* The commit keeps MarkerInv. *)
LEMMA CommitBuildMarker ==
  ASSUME Inv, MarkerInv, NEW p \in Process, CommitBuild(p)
  PROVE  MarkerInv'
<1> USE ConstantsAssumption
        DEF Inv, TypeInv, TypeOK, Resting, Stages, locals, sharedVars, storeVars, liveVars,
            snapVars, productVars, ghostVars, envVars, LocalsAssigned, HasTarget,
            SingleActiveBuild, MarkerInv, Orphaned, Materializing, NoMarker, BadMarker
<1>1. CASE CommitVerify(p)
  BY <1>1 DEF CommitVerify, Go
<1>2. CASE RejectVerify(p)
  BY <1>2 DEF RejectVerify, EndAs
<1>3. CASE CommitManifest(p)
  BY <1>3 DEF CommitManifest, Loop, Go
<1>4. CASE CommitUnmark(p)
  BY <1>4 DEF CommitUnmark, DropMarker, Done, Loop
<1>5. CASE BeginGc(p)
  BY <1>5 DEF BeginGc, Loop, Go
<1>6. CASE GcBlob(p)
  BY <1>6 DEF GcBlob, UnlinkBlob, WorkOn, Go
<1>7. CASE GcUnmark(p)
  BY <1>7 DEF GcUnmark, DropMarker, Done, Loop, Go
<1>8. CASE Succeed(p)
  BY <1>8 DEF Succeed, EndAs
<1>. QED
  BY <1>1, <1>2, <1>3, <1>4, <1>5, <1>6, <1>7, <1>8 DEF CommitBuild

(* An error or interrupt keeps MarkerInv. *)
LEMMA BreakMarker ==
  ASSUME Inv, MarkerInv, NEW p \in Process, Break(p)
  PROVE  MarkerInv'
<1> USE ConstantsAssumption
        DEF Inv, TypeInv, TypeOK, Resting, Stages, locals, sharedVars, storeVars, liveVars,
            snapVars, productVars, ghostVars, envVars, LocalsAssigned, HasTarget,
            SingleActiveBuild, MarkerInv, Orphaned, Materializing, NoMarker, BadMarker
<1>1. CASE DownloadFails(p)
  BY <1>1 DEF DownloadFails, EndAs
<1>2. CASE MarkFails(p)
  BY <1>2 DEF MarkFails, EndAs
<1>3. CASE AbandonSnapshot(p)
  BY <1>3 DEF AbandonSnapshot
<1>4. CASE CleanupFails(p)
  BY <1>4 DEF CleanupFails, EndAs
<1>5. CASE Fail(p)
  BY <1>5 DEF Fail, EndAs
<1>. QED
  BY <1>1, <1>2, <1>3, <1>4, <1>5 DEF Break

(* A crash, outside damage or the clock keeps MarkerInv. *)
LEMMA EnvironmentMarker ==
  ASSUME Inv, MarkerInv, Environment
  PROVE  MarkerInv'
<1> USE ConstantsAssumption
        DEF Inv, TypeInv, TypeOK, Resting, Stages, locals, sharedVars, storeVars, liveVars,
            snapVars, productVars, ghostVars, envVars, LocalsAssigned, HasTarget,
            SingleActiveBuild, MarkerInv, Orphaned, Materializing, NoMarker, BadMarker
<1>1. ASSUME NEW p \in Process, Crash(p) PROVE MarkerInv'
  BY <1>1 DEF Crash, EndAs
<1>2. ASSUME NEW s \in SnapName, OrphanExits(s) PROVE MarkerInv'
  BY <1>2 DEF OrphanExits
<1>3. ASSUME NEW b \in Blob, DamageBlob(b) PROVE MarkerInv'
  BY <1>3 DEF DamageBlob
<1>4. ASSUME NEW b \in Blob, DamageMarker(b) PROVE MarkerInv'
  BY <1>4 DEF DamageMarker
<1>5. CASE DamageManifest
  BY <1>5 DEF DamageManifest
<1>6. CASE Tick
  BY <1>6 DEF Tick
<1>. QED  BY <1>1, <1>2, <1>3, <1>4, <1>5, <1>6 DEF Environment

(* Every step keeps MarkerInv. *)
LEMMA StepMarker == Inv /\ MarkerInv /\ [Next]_vars => MarkerInv'
<1> SUFFICES ASSUME Inv, MarkerInv, [Next]_vars PROVE MarkerInv'
  OBVIOUS
<1>1. CASE UNCHANGED vars
  BY <1>1 DEF vars, MarkerInv, Orphaned, Materializing, NoMarker, BadMarker, locals, sharedVars, storeVars, liveVars,
     snapVars, productVars, ghostVars, envVars
<1>2. ASSUME NEW p \in Process, Start(p) \/ Proceed(p) \/ Break(p)
      PROVE  MarkerInv'
  BY <1>2, StartMarker, MaintainMarker, MaterializeMarker, BuildImageMarker,
     CommitBuildMarker, BreakMarker DEF Proceed
<1>3. CASE Environment
  BY <1>3, EnvironmentMarker
<1>. QED  BY <1>1, <1>2, <1>3 DEF Next

-----------------------------------------------------------------------------
(* Both hold in every reachable state.                                     *)
LEMMA KeptInvariance == Spec => [](Inv /\ CleanInv /\ MarkerInv)
<1>1. Init => CleanInv /\ MarkerInv
  BY ConstantsAssumption DEF Init, CleanInv, MarkerInv, Orphaned, Materializing, NoMarker
<1>2. Inv /\ CleanInv /\ MarkerInv /\ [Next]_vars => CleanInv' /\ MarkerInv'
  BY StepClean, StepMarker
<1>. QED  BY <1>1, <1>2, InitInv, StepInv, PTL DEF Spec

(* Only Succeed reports success. *)
LEMMA OnlySucceeding ==
  ASSUME Inv, [Next]_vars, NEW p \in Process, pc[p] = "gc", pc'[p] = "succeeded"
  PROVE  Succeed(p)
<1> USE DEF Inv, TypeInv, TypeOK, Go
<1>1. ~ UNCHANGED vars
  BY DEF vars
<1>2. ASSUME Environment PROVE FALSE
  BY <1>2 DEF Environment, Crash, EndAs, OrphanExits, DamageBlob, DamageMarker, DamageManifest,
     Tick
<1>3. ASSUME NEW q \in Process, Start(q) PROVE FALSE
  BY <1>3 DEF Start, Acquire, RejectCompeting
<1>4. ASSUME NEW q \in Process, Maintain(q) PROVE FALSE
  BY <1>4 DEF Maintain, RecoverSnapshot, RejectManifest, EndAs, BeginMaintenance, MaintainLive,
     MaintainKeep, MaintainCollect, MaintainUnmark, EndMaintenance
<1>5. ASSUME NEW q \in Process, Materialize(q) PROVE FALSE
  BY <1>5 DEF Materialize, Hit, RejectCorrupt, EndAs, Miss, PublishBlob, VerifyPublished,
     RejectPublished, MarkUncommitted, EndMaterialization, MaterializePi
<1>6. ASSUME NEW q \in Process, BuildImage(q) PROVE FALSE
  BY <1>6 DEF BuildImage, CreateSnapshot, FillSnapshot, RejectPayload, SealSnapshot,
     PublishProjection, RunDocker, DockerSucceeds, DockerFails, CleanupAfterSuccess,
     CleanupAfterFailure, EndAs
<1>7. ASSUME NEW q \in Process, Break(q) PROVE FALSE
  BY <1>7 DEF Break, DownloadFails, MarkFails, AbandonSnapshot, CleanupFails, Fail, EndAs
<1>8. ASSUME NEW q \in Process, CommitBuild(q) PROVE Succeed(p)
  <2>1. ASSUME ~Succeed(q) PROVE FALSE
    BY <1>8, <2>1 DEF CommitBuild, CommitVerify, RejectVerify, CommitManifest, CommitUnmark,
       BeginGc, GcBlob, GcUnmark, EndAs
  <2>2. Succeed(q) => q = p
    BY DEF Succeed, EndAs
  <2> QED
    BY <2>1, <2>2
<1>. QED  BY <1>1, <1>2, <1>3, <1>4, <1>5, <1>6, <1>7, <1>8 DEF Next, Proceed

(* A build that reports success has committed its selection and left       *)
(* neither a marker of a live blob nor a blob of the set it replaced       *)
(* (commit_build_set), whatever failed builds and crashes left before it.  *)
THEOREM SuccessClean == Spec => SuccessIsClean
<1>1. Inv /\ CleanInv /\ [Next]_vars =>
        [\A p \in Process :
           pc[p] = "gc" /\ pc'[p] = "succeeded" =>
              /\ manifest = sel[p]
              /\ \A x \in manifest : marker[x] = NoMarker
              /\ \A x \in superseded[p] : blob[x] = "absent"]_vars
  <2> SUFFICES ASSUME Inv, CleanInv, [Next]_vars, NEW p \in Process,
                      pc[p] = "gc", pc'[p] = "succeeded"
               PROVE  /\ manifest = sel[p]
                      /\ \A x \in manifest : marker[x] = NoMarker
                      /\ \A x \in superseded[p] : blob[x] = "absent"
    OBVIOUS
  <2>1. todo[p] = {}
    BY OnlySucceeding DEF Succeed
  <2> QED
    BY <2>1 DEF CleanInv
<1>. QED  BY <1>1, KeptInvariance, PTL DEF Spec, SuccessIsClean

(* When a verified blob may go. *)
Released(x) ==
    \/ x \in damaged'
    \/ /\ x \notin manifest
       /\ \/ clock - born[x] > TTL
          \/ marker[x] = BadMarker
          \/ \E p \in Process :
               \/ pc[p] = "gc" /\ x \in superseded[p]
               \/ pc[p] = "mark" /\ x = target[p]

(* Whatever takes a verified blob away finds it released: the age the      *)
(* maintenance sees is not more than the blob's own.                       *)
LEMMA OnlyReleased ==
  ASSUME Inv, MarkerInv, [Next]_vars, NEW x \in Blob, blob[x] = "valid", blob'[x] # "valid"
  PROVE  Released(x)
<1> USE DEF Inv, TypeInv, TypeOK, Go, sharedVars, storeVars, Released
<1>1. ASSUME NEW q \in Process, MaintainCollect(q) PROVE Released(x)
  <2>1. x \notin manifest /\ Collectable(q, x) /\ pc[q] = "maintain"
    BY <1>1 DEF MaintainCollect, UnlinkBlob
  <2>2. CASE Expired(q, x) /\ x \notin damaged
    <3>1. marker[x] \in {NoMarker, BadMarker} \/ born[x] <= marker[x]
      BY <2>2 DEF MarkerInv
    <3>2. marker[x] # NoMarker
      BY <1>1, <2>1 DEF MaintainCollect, UnlinkBlob, MarkerInv
    <3>3. CASE born[x] <= marker[x]
      BY <2>1, <2>2, <3>3, ConstantsAssumption DEF Expired, MarkerInv, NoMarker, BadMarker
    <3> QED
      BY <2>1, <3>1, <3>2, <3>3
  <2> QED
    BY <1>1, <2>1, <2>2 DEF Collectable, MaintainCollect, ghostVars
<1>2. ASSUME NEW q \in Process, RejectPublished(q) PROVE FALSE
  BY <1>2 DEF RejectPublished, UnlinkBlob
<1>3. ASSUME NEW q \in Process, MarkFails(q) PROVE Released(x)
  BY <1>3 DEF MarkFails, RetentionInv, ghostVars
<1>4. ASSUME NEW q \in Process, GcBlob(q) PROVE Released(x)
  BY <1>4 DEF GcBlob, UnlinkBlob, RetentionInv
<1>5. ASSUME NEW b \in Blob, DamageBlob(b) PROVE Released(x)
  BY <1>5 DEF DamageBlob
<1>6. ASSUME NEW q \in Process, PublishBlob(q) PROVE FALSE
  BY <1>6 DEF PublishBlob
<1>7. CASE UNCHANGED vars
  BY <1>7 DEF vars
<1>8. ASSUME Environment PROVE Released(x)
  <2>1. ASSUME blob' = blob PROVE FALSE
    BY <2>1
  <2> QED
    BY <1>5, <1>8, <2>1 DEF Environment, Crash, OrphanExits, DamageMarker, DamageManifest, Tick
<1>9. ASSUME NEW q \in Process, Start(q) PROVE FALSE
  BY <1>9 DEF Start, Acquire, RejectCompeting
<1>10. ASSUME NEW q \in Process, Maintain(q) PROVE Released(x)
  BY <1>1, <1>10 DEF Maintain, RecoverSnapshot, RejectManifest, BeginMaintenance, MaintainLive,
     MaintainKeep, MaintainUnmark, EndMaintenance
<1>11. ASSUME NEW q \in Process, Materialize(q) PROVE FALSE
  BY <1>2, <1>6, <1>11 DEF Materialize, Hit, RejectCorrupt, Miss, VerifyPublished,
     MarkUncommitted, EndMaterialization, MaterializePi
<1>12. ASSUME NEW q \in Process, BuildImage(q) PROVE FALSE
  BY <1>12 DEF BuildImage, CreateSnapshot, FillSnapshot, RejectPayload, SealSnapshot,
     PublishProjection, RunDocker, DockerSucceeds, DockerFails, CleanupAfterSuccess,
     CleanupAfterFailure
<1>13. ASSUME NEW q \in Process, CommitBuild(q) PROVE Released(x)
  BY <1>4, <1>13 DEF CommitBuild, CommitVerify, RejectVerify, CommitManifest, CommitUnmark,
     BeginGc, GcUnmark, Succeed
<1>14. ASSUME NEW q \in Process, Break(q) PROVE Released(x)
  BY <1>3, <1>14 DEF Break, DownloadFails, AbandonSnapshot, CleanupFails, Fail
<1>. QED  BY <1>7, <1>8, <1>9, <1>10, <1>11, <1>12, <1>13, <1>14 DEF Next, Proceed

(* A verified blob disappears only when it is superseded, past its TTL,    *)
(* unmarkable or damaged, and a committed one only when damaged            *)
(* (maintain_uncommitted_blobs, commit_build_set, materialization).        *)
THEOREM Retained == Spec => RetainedForTTL
<1>1. Inv /\ MarkerInv /\ [Next]_vars =>
        [\A x \in Blob : blob[x] = "valid" /\ blob'[x] # "valid" => Released(x)]_vars
  BY OnlyReleased
<1>2. [\A x \in Blob : blob[x] = "valid" /\ blob'[x] # "valid" => Released(x)]_vars
        => [\A x \in Blob :
              blob[x] = "valid" /\ blob'[x] # "valid" =>
                 \/ x \in damaged'
                 \/ /\ x \notin manifest
                    /\ \/ clock - born[x] > TTL
                       \/ marker[x] = BadMarker
                       \/ \E p \in Process :
                            \/ pc[p] = "gc" /\ x \in superseded[p]
                            \/ pc[p] = "mark" /\ x = target[p]]_vars
  BY DEF Released
<1>. QED  BY <1>1, <1>2, KeptInvariance, PTL DEF Spec, RetainedForTTL
=============================================================================
