--------------------------- MODULE BuildTransaction ---------------------------
(***************************************************************************)
(* The image-build transaction of docker-constructor over one project's    *)
(* private cache namespace:                                                *)
(*   docker/versioning/build_orchestration.py   execute_build              *)
(*   docker/versioning/build_cache.py           lock, markers, live set    *)
(*   docker/versioning/build_materialization.py download and publication   *)
(*   docker/versioning/build_snapshot.py        named-context snapshot     *)
(* Several constructor processes run builds of one project.  A step of the *)
(* model is one file-system operation another process, a crash or a later  *)
(* build can observe.  A crash is the death of the process (the kernel     *)
(* drops its flock); the loss of un-synced directory entries at a power    *)
(* failure is not modelled.                                                *)
(***************************************************************************)
EXTENDS Integers, FiniteSets

CONSTANTS
    Process,     \* constructor invocations on one project
    Blob,        \* reviewed artifact digests, the names of cache blobs
    Selections,  \* the digest sets an effective projection can select
    SnapName,    \* names mkdtemp can pick below transactions/
    NoProcess, NoBlob, NoSnap,
    TTL,         \* UNCOMMITTED_TTL_SECONDS, in clock ticks
    MaxClock,    \* bound on the wall clock
    MaxFaults    \* bound on crashes and outside damage, together

ASSUME ConstantsAssumption ==
    /\ Selections \subseteq SUBSET Blob
    /\ NoProcess \notin Process
    /\ NoBlob \notin Blob
    /\ NoSnap \notin SnapName
    /\ TTL \in Nat
    /\ MaxClock \in Nat
    /\ MaxFaults \in Nat

VARIABLES
    lock,        \* holder of the flock on build-artifacts/build.lock
    pc,          \* where each process is in execute_build
    sel,         \* per process: the identities of selected_artifacts
    todo,        \* per process: what its current loop has left
    target,      \* per process: the blob it is working on
    snap,        \* per process: its snapshot
    built,       \* per process: docker returned 0
    now,         \* per process: current_time of its maintenance
    superseded,  \* per process: superseded of commit_build_set
    blob,        \* what stands at blobs/sha256/<digest>.blob
    marker,      \* verified_at in uncommitted/<digest>.json
    manifest,    \* the committed live set
    manifestOk,  \* the committed manifest parses
    temps,       \* number of .materialize-* files below tmp/
    snaps,       \* directories below transactions/
    payload,     \* the artifacts a snapshot directory holds
    clients,     \* snapshots a docker client is reading
    effective,   \* selection in the published effective projection
    image,       \* artifacts of the last image Docker built
    clock,       \* time.time()
    born,        \* history: when each blob was last published
    damaged,     \* history: blobs damaged from outside at some time
    faults       \* crashes and damage so far

locals      == <<sel, todo, target, snap, built, now, superseded>>
storeVars   == <<blob, marker, temps>>
liveVars    == <<manifest, manifestOk>>
snapVars    == <<snaps, payload, clients>>
productVars == <<effective, image>>
ghostVars   == <<born, damaged>>
envVars     == <<clock, faults>>
sharedVars  == <<storeVars, liveVars, snapVars, productVars, ghostVars,
                 envVars>>
vars == <<lock, pc, locals, sharedVars>>

(* A marker is a publication time, missing, or unreadable. *)
NoMarker  == -1
BadMarker == -2

(* A process between transactions, and how the last one ended. *)
Resting == {"idle", "busy", "failed", "succeeded"}
Stages  == {"recover", "maintain", "maintainUnmark", "select", "download",
            "published", "mark", "pi", "snapshot", "fill", "publish", "docker",
            "running", "cleanup", "verify", "replace", "unmark", "gc",
            "gcUnmark"}

(* Every variable has its type. *)
TypeOK ==
    /\ lock \in Process \cup {NoProcess}
    /\ pc \in [Process -> Resting \cup Stages]
    /\ sel \in [Process -> SUBSET Blob]
    /\ todo \in [Process -> SUBSET Blob]
    /\ target \in [Process -> Blob \cup {NoBlob}]
    /\ snap \in [Process -> SnapName \cup {NoSnap}]
    /\ built \in [Process -> BOOLEAN]
    /\ now \in [Process -> Nat]
    /\ superseded \in [Process -> SUBSET Blob]
    /\ blob \in [Blob -> {"absent", "valid", "corrupt"}]
    /\ marker \in [Blob -> Nat \cup {NoMarker, BadMarker}]
    /\ manifest \in SUBSET Blob
    /\ manifestOk \in BOOLEAN
    /\ temps \in Int
    /\ snaps \in SUBSET SnapName
    /\ payload \in [SnapName -> SUBSET Blob]
    /\ clients \in SUBSET SnapName
    /\ effective \in SUBSET Blob
    /\ image \in SUBSET Blob
    /\ clock \in Nat
    /\ born \in [Blob -> Nat]
    /\ damaged \in SUBSET Blob
    /\ faults \in Nat

Init ==
    /\ lock = NoProcess
    /\ pc = [p \in Process |-> "idle"]
    /\ sel = [p \in Process |-> {}]
    /\ todo = [p \in Process |-> {}]
    /\ target = [p \in Process |-> NoBlob]
    /\ snap = [p \in Process |-> NoSnap]
    /\ built = [p \in Process |-> FALSE]
    /\ now = [p \in Process |-> 0]
    /\ superseded = [p \in Process |-> {}]
    /\ blob = [b \in Blob |-> "absent"]
    /\ marker = [b \in Blob |-> NoMarker]
    /\ manifest = {} /\ manifestOk = TRUE
    /\ temps = 0
    /\ snaps = {} /\ payload = [s \in SnapName |-> {}] /\ clients = {}
    /\ effective = {} /\ image = {}
    /\ clock = 0 /\ faults = 0
    /\ born = [b \in Blob |-> 0] /\ damaged = {}

-----------------------------------------------------------------------------
(* Control flow of one process. *)

Go(p, from, to) ==
    /\ pc[p] = from
    /\ pc' = [pc EXCEPT ![p] = to]

(* The transaction ends: the lock is released and the locals are gone. *)
EndAs(p, how) ==
    /\ pc' = [pc EXCEPT ![p] = how]
    /\ lock' = NoProcess
    /\ sel' = [sel EXCEPT ![p] = {}]
    /\ todo' = [todo EXCEPT ![p] = {}]
    /\ target' = [target EXCEPT ![p] = NoBlob]
    /\ snap' = [snap EXCEPT ![p] = NoSnap]
    /\ built' = [built EXCEPT ![p] = FALSE]
    /\ now' = [now EXCEPT ![p] = 0]
    /\ superseded' = [superseded EXCEPT ![p] = {}]

(* The current loop starts over S; it has dealt with x; it works on x. *)
Loop(p, S) ==
    /\ todo' = [todo EXCEPT ![p] = S]
    /\ UNCHANGED <<sel, target, snap, built, now, superseded>>

Done(p, x) == Loop(p, todo[p] \ {x})

WorkOn(p, x) ==
    /\ target' = [target EXCEPT ![p] = x]
    /\ UNCHANGED <<sel, todo, snap, built, now, superseded>>

UnlinkBlob(b) == blob' = [blob EXCEPT ![b] = "absent"]
DropMarker(b) == marker' = [marker EXCEPT ![b] = NoMarker]

-----------------------------------------------------------------------------
(* acquire_constructor_project_build_lock: LOCK_EX | LOCK_NB. *)

(* Mutant: the lock is opened but not taken exclusively. *)
AcquireUnlocked(p) ==
    /\ pc[p] \in Resting
    /\ lock' = p
    /\ pc' = [pc EXCEPT ![p] = "recover"]
    /\ \E S \in Selections : sel' = [sel EXCEPT ![p] = S]
    /\ UNCHANGED <<todo, target, snap, built, now, superseded, sharedVars>>

Acquire(p) ==
    /\ pc[p] \in Resting
    /\ lock = NoProcess
    /\ lock' = p
    /\ pc' = [pc EXCEPT ![p] = "recover"]
    /\ \E S \in Selections : sel' = [sel EXCEPT ![p] = S]
    /\ UNCHANGED <<todo, target, snap, built, now, superseded, sharedVars>>

RejectCompeting(p) ==
    /\ pc[p] \in Resting
    /\ lock # NoProcess
    /\ pc' = [pc EXCEPT ![p] = "busy"]
    /\ UNCHANGED <<lock, locals, sharedVars>>

(* recover_abandoned_snapshots: everything below transactions/ goes. *)
RecoverSnapshot(p) ==
    /\ pc[p] = "recover"
    /\ \E s \in snaps :
         /\ snaps' = snaps \ {s}
         /\ payload' = [payload EXCEPT ![s] = {}]
    /\ UNCHANGED <<lock, pc, locals, storeVars, liveVars, clients,
                   productVars, ghostVars, envVars>>

(* A corrupt manifest ends the build, at maintenance and at the commit.    *)
RejectManifest(p) ==
    /\ \/ pc[p] = "recover" /\ snaps = {}
       \/ pc[p] = "verify"
    /\ ~manifestOk
    /\ EndAs(p, "failed")
    /\ UNCHANGED sharedVars

(* maintain_uncommitted_blobs reads the clock, the live set and lists the  *)
(* marker directory.                                                       *)
BeginMaintenance(p) ==
    /\ snaps = {}
    /\ manifestOk
    /\ Go(p, "recover", "maintain")
    /\ todo' = [todo EXCEPT ![p] = {b \in Blob : marker[b] # NoMarker}]
    /\ now' = [now EXCEPT ![p] = clock]
    /\ UNCHANGED <<lock, sel, target, snap, built, superseded, sharedVars>>

(* Mutant: an off-by-one in the age. *)
ExpiredAtTTL(p, b) == now[p] - marker[b] >= TTL

Expired(p, b) == now[p] - marker[b] > TTL

Collectable(p, b) ==
    \/ marker[b] = BadMarker
    \/ blob[b] # "valid"
    \/ Expired(p, b)

MaintainLive(p) ==
    /\ pc[p] = "maintain"
    /\ \E b \in todo[p] \cap manifest : DropMarker(b) /\ Done(p, b)
    /\ UNCHANGED <<lock, pc, blob, temps, liveVars, snapVars, productVars,
                   ghostVars, envVars>>

(* Mutant: a kept marker is looked at again and again. *)
MaintainKeepAgain(p) ==
    /\ pc[p] = "maintain"
    /\ \E b \in todo[p] \ manifest : ~Collectable(p, b)
    /\ UNCHANGED <<lock, pc, locals, sharedVars>>

MaintainKeep(p) ==
    /\ pc[p] = "maintain"
    /\ \E b \in todo[p] \ manifest : ~Collectable(p, b) /\ Done(p, b)
    /\ UNCHANGED <<lock, pc, sharedVars>>

(* Mutant: live blobs are collected like the others. *)
MaintainCollectAny(p) ==
    /\ Go(p, "maintain", "maintainUnmark")
    /\ \E b \in todo[p] :
         /\ Collectable(p, b)
         /\ UnlinkBlob(b)
         /\ WorkOn(p, b)
    /\ UNCHANGED <<lock, marker, temps, liveVars, snapVars, productVars,
                   ghostVars, envVars>>

(* _remove_blob_and_marker unlinks the blob, then its marker. *)
MaintainCollect(p) ==
    /\ Go(p, "maintain", "maintainUnmark")
    /\ \E b \in todo[p] \ manifest :
         /\ Collectable(p, b)
         /\ UnlinkBlob(b)
         /\ WorkOn(p, b)
    /\ UNCHANGED <<lock, marker, temps, liveVars, snapVars, productVars,
                   ghostVars, envVars>>

MaintainUnmark(p) ==
    /\ Go(p, "maintainUnmark", "maintain")
    /\ DropMarker(target[p])
    /\ Done(p, target[p])
    /\ UNCHANGED <<lock, blob, temps, liveVars, snapVars, productVars,
                   ghostVars, envVars>>

EndMaintenance(p) ==
    /\ todo[p] = {}
    /\ Go(p, "maintain", "select")
    /\ Loop(p, sel[p])
    /\ UNCHANGED <<lock, sharedVars>>

-----------------------------------------------------------------------------
(* materialize_build_artifacts: a verified hit is reused as it is; another *)
(* entry at the destination ends the build; a miss is streamed to a        *)
(* temporary, renamed into place, verified and only then marked.           *)

Hit(p) ==
    /\ pc[p] = "select"
    /\ \E b \in todo[p] : blob[b] = "valid" /\ Done(p, b)
    /\ UNCHANGED <<lock, pc, sharedVars>>

RejectCorrupt(p) ==
    /\ pc[p] = "select"
    /\ \E b \in todo[p] : blob[b] = "corrupt"
    /\ EndAs(p, "failed")
    /\ UNCHANGED sharedVars

Miss(p) ==
    /\ Go(p, "select", "download")
    /\ \E b \in todo[p] :
         /\ blob[b] = "absent"
         /\ WorkOn(p, b)
    /\ temps' = temps + 1
    /\ UNCHANGED <<lock, blob, marker, liveVars, snapVars, productVars,
                   ghostVars, envVars>>

(* Transport failure, digest mismatch or interrupt: the temporary goes. *)
DownloadFails(p) ==
    /\ pc[p] = "download"
    /\ temps' = temps - 1
    /\ EndAs(p, "failed")
    /\ UNCHANGED <<blob, marker, liveVars, snapVars, productVars, ghostVars,
                   envVars>>

PublishBlob(p) ==
    /\ Go(p, "download", "published")
    /\ blob' = [blob EXCEPT ![target[p]] = "valid"]
    /\ born' = [born EXCEPT ![target[p]] = clock]
    /\ temps' = temps - 1
    /\ UNCHANGED <<lock, locals, marker, liveVars, snapVars, productVars,
                   damaged, envVars>>

VerifyPublished(p) ==
    /\ Go(p, "published", "mark")
    /\ blob[target[p]] = "valid"
    /\ UNCHANGED <<lock, locals, sharedVars>>

RejectPublished(p) ==
    /\ pc[p] = "published"
    /\ blob[target[p]] # "valid"
    /\ UnlinkBlob(target[p])
    /\ EndAs(p, "failed")
    /\ UNCHANGED <<marker, temps, liveVars, snapVars, productVars, ghostVars,
                   envVars>>

MarkUncommitted(p) ==
    /\ Go(p, "mark", "select")
    /\ marker' = [marker EXCEPT ![target[p]] = clock]
    /\ Done(p, target[p])
    /\ UNCHANGED <<lock, blob, temps, liveVars, snapVars, productVars,
                   ghostVars, envVars>>

(* mark_uncommitted_blob raises before or after its rename; the blob is    *)
(* unlinked, and an error of that unlink is ignored.                       *)
MarkFails(p) ==
    /\ pc[p] = "mark"
    /\ marker' \in {marker, [marker EXCEPT ![target[p]] = clock]}
    /\ blob' \in {blob, [blob EXCEPT ![target[p]] = "absent"]}
    /\ EndAs(p, "failed")
    /\ UNCHANGED <<temps, liveVars, snapVars, productVars, ghostVars,
                   envVars>>

EndMaterialization(p) ==
    /\ todo[p] = {}
    /\ Go(p, "select", "pi")
    /\ UNCHANGED <<lock, locals, sharedVars>>

(* _materialize_pi_for_build: its own cache, abstracted to its success. *)
MaterializePi(p) ==
    /\ Go(p, "pi", "snapshot")
    /\ UNCHANGED <<lock, locals, sharedVars>>

-----------------------------------------------------------------------------
(* create_artifact_snapshot, the projection, Docker, and the clean-up. *)

CreateSnapshot(p) ==
    /\ Go(p, "snapshot", "fill")
    /\ \E s \in SnapName \ snaps :
         /\ snaps' = snaps \cup {s}
         /\ payload' = [payload EXCEPT ![s] = {}]
         /\ snap' = [snap EXCEPT ![p] = s]
    /\ todo' = [todo EXCEPT ![p] = sel[p]]
    /\ UNCHANGED <<lock, sel, target, built, now, superseded, storeVars,
                   liveVars, clients, productVars, ghostVars, envVars>>

(* A payload is a hard link to the blob or a copy of it: replacing or      *)
(* unlinking the blob later does not reach it.                             *)
FillSnapshot(p) ==
    /\ pc[p] = "fill"
    /\ \E b \in todo[p] :
         /\ blob[b] = "valid"
         /\ payload' = [payload EXCEPT ![snap[p]] = @ \cup {b}]
         /\ Done(p, b)
    /\ UNCHANGED <<lock, pc, storeVars, liveVars, snaps, clients, productVars,
                   ghostVars, envVars>>

RejectPayload(p) ==
    /\ Go(p, "fill", "cleanup")
    /\ \E b \in todo[p] : blob[b] # "valid"
    /\ UNCHANGED <<lock, locals, sharedVars>>

SealSnapshot(p) ==
    /\ todo[p] = {}
    /\ Go(p, "fill", "publish")
    /\ UNCHANGED <<lock, locals, sharedVars>>

PublishProjection(p) ==
    /\ Go(p, "publish", "docker")
    /\ effective' = sel[p]
    /\ UNCHANGED <<lock, locals, storeVars, liveVars, snapVars, image,
                   ghostVars, envVars>>

RunDocker(p) ==
    /\ Go(p, "docker", "running")
    /\ clients' = clients \cup {snap[p]}
    /\ UNCHANGED <<lock, locals, storeVars, liveVars, snaps, payload,
                   productVars, ghostVars, envVars>>

DockerSucceeds(p) ==
    /\ Go(p, "running", "cleanup")
    /\ clients' = clients \ {snap[p]}
    /\ image' = payload[snap[p]]
    /\ built' = [built EXCEPT ![p] = TRUE]
    /\ UNCHANGED <<lock, sel, todo, target, snap, now, superseded, storeVars,
                   liveVars, snaps, payload, effective, ghostVars, envVars>>

(* A nonzero exit, or an interrupt: subprocess.run kills and reaps it. *)
DockerFails(p) ==
    /\ Go(p, "running", "cleanup")
    /\ clients' = clients \ {snap[p]}
    /\ UNCHANGED <<lock, locals, storeVars, liveVars, snaps, payload,
                   productVars, ghostVars, envVars>>

(* An error or interrupt between mkdtemp and the start of docker. *)
AbandonSnapshot(p) ==
    /\ pc[p] \in {"fill", "publish", "docker"}
    /\ pc' = [pc EXCEPT ![p] = "cleanup"]
    /\ UNCHANGED <<lock, locals, sharedVars>>

RemoveSnapshot(p) ==
    /\ snaps' = snaps \ {snap[p]}
    /\ payload' = [payload EXCEPT ![snap[p]] = {}]

(* Mutant: the exit status of docker is not looked at. *)
CleanupWhateverDockerDid(p) ==
    /\ Go(p, "cleanup", "verify")
    /\ RemoveSnapshot(p)
    /\ UNCHANGED <<lock, locals, storeVars, liveVars, clients, productVars,
                   ghostVars, envVars>>

CleanupAfterSuccess(p) ==
    /\ built[p]
    /\ Go(p, "cleanup", "verify")
    /\ RemoveSnapshot(p)
    /\ UNCHANGED <<lock, locals, storeVars, liveVars, clients, productVars,
                   ghostVars, envVars>>

CleanupAfterFailure(p) ==
    /\ pc[p] = "cleanup"
    /\ ~built[p]
    /\ RemoveSnapshot(p)
    /\ EndAs(p, "failed")
    /\ UNCHANGED <<storeVars, liveVars, clients, productVars, ghostVars,
                   envVars>>

(* finish_snapshot forgets the snapshot before it removes it, so a failed  *)
(* removal is not retried by this build.                                   *)
CleanupFails(p) ==
    /\ pc[p] = "cleanup"
    /\ EndAs(p, "failed")
    /\ UNCHANGED sharedVars

-----------------------------------------------------------------------------
(* commit_build_set: the rename of the manifest is the commit point. *)

(* Mutant: all of the old set is superseded, what stays live included. *)
CommitVerifyOldSet(p) ==
    /\ manifestOk
    /\ \A b \in sel[p] : blob[b] = "valid"
    /\ Go(p, "verify", "replace")
    /\ superseded' = [superseded EXCEPT ![p] = manifest]
    /\ UNCHANGED <<lock, sel, todo, target, snap, built, now, sharedVars>>

CommitVerify(p) ==
    /\ manifestOk
    /\ \A b \in sel[p] : blob[b] = "valid"
    /\ Go(p, "verify", "replace")
    /\ superseded' = [superseded EXCEPT ![p] = manifest \ sel[p]]
    /\ UNCHANGED <<lock, sel, todo, target, snap, built, now, sharedVars>>

RejectVerify(p) ==
    /\ pc[p] = "verify"
    /\ \E b \in sel[p] : blob[b] # "valid"
    /\ EndAs(p, "failed")
    /\ UNCHANGED sharedVars

CommitManifest(p) ==
    /\ Go(p, "replace", "unmark")
    /\ manifest' = sel[p]
    /\ manifestOk' = TRUE
    /\ Loop(p, sel[p])
    /\ UNCHANGED <<lock, storeVars, snapVars, productVars, ghostVars,
                   envVars>>

CommitUnmark(p) ==
    /\ pc[p] = "unmark"
    /\ \E b \in todo[p] : DropMarker(b) /\ Done(p, b)
    /\ UNCHANGED <<lock, pc, blob, temps, liveVars, snapVars, productVars,
                   ghostVars, envVars>>

(* Mutant: the superseded blobs are forgotten. *)
BeginGcOfNothing(p) ==
    /\ todo[p] = {}
    /\ Go(p, "unmark", "gc")
    /\ Loop(p, {})
    /\ UNCHANGED <<lock, sharedVars>>

BeginGc(p) ==
    /\ todo[p] = {}
    /\ Go(p, "unmark", "gc")
    /\ Loop(p, superseded[p])
    /\ UNCHANGED <<lock, sharedVars>>

GcBlob(p) ==
    /\ Go(p, "gc", "gcUnmark")
    /\ \E b \in todo[p] :
         /\ UnlinkBlob(b)
         /\ WorkOn(p, b)
    /\ UNCHANGED <<lock, marker, temps, liveVars, snapVars, productVars,
                   ghostVars, envVars>>

GcUnmark(p) ==
    /\ Go(p, "gcUnmark", "gc")
    /\ DropMarker(target[p])
    /\ Done(p, target[p])
    /\ UNCHANGED <<lock, blob, temps, liveVars, snapVars, productVars,
                   ghostVars, envVars>>

Succeed(p) ==
    /\ pc[p] = "gc"
    /\ todo[p] = {}
    /\ EndAs(p, "succeeded")
    /\ UNCHANGED sharedVars

(* Any other error or interrupt: nothing to undo but the lock.  Between    *)
(* the rename and the marker of a blob the interrupt leaves the blob.      *)
Fail(p) ==
    /\ pc[p] \in {"recover", "maintain", "maintainUnmark", "select",
                  "published", "pi", "snapshot", "verify", "replace",
                  "unmark", "gc", "gcUnmark"}
    /\ EndAs(p, "failed")
    /\ UNCHANGED sharedVars

-----------------------------------------------------------------------------
(* The environment. *)

(* The process dies: the kernel drops its lock, its files stay, and a      *)
(* docker client it started goes on reading the snapshot.                  *)
Crash(p) ==
    /\ pc[p] \in Stages
    /\ faults < MaxFaults
    /\ faults' = faults + 1
    /\ EndAs(p, "idle")
    /\ UNCHANGED <<storeVars, liveVars, snapVars, productVars, ghostVars,
                   clock>>

OrphanExits(s) ==
    /\ s \in clients
    /\ \A p \in Process : ~(pc[p] = "running" /\ snap[p] = s)
    /\ clients' = clients \ {s}
    /\ UNCHANGED <<lock, pc, locals, storeVars, liveVars, snaps, payload,
                   productVars, ghostVars, envVars>>

(* Something outside the constructor removes or replaces a blob. *)
DamageBlob(b) ==
    /\ faults < MaxFaults
    /\ blob[b] = "valid"
    /\ \E bad \in {"absent", "corrupt"} : blob' = [blob EXCEPT ![b] = bad]
    /\ damaged' = damaged \cup {b}
    /\ faults' = faults + 1
    /\ UNCHANGED <<lock, pc, locals, marker, temps, liveVars, snapVars,
                   productVars, born, clock>>

(* ... or spoils a control file. *)
DamageMarker(b) ==
    /\ faults < MaxFaults
    /\ marker[b] \notin {NoMarker, BadMarker}
    /\ marker' = [marker EXCEPT ![b] = BadMarker]
    /\ faults' = faults + 1
    /\ UNCHANGED <<lock, pc, locals, blob, temps, liveVars, snapVars,
                   productVars, ghostVars, clock>>

DamageManifest ==
    /\ faults < MaxFaults
    /\ manifestOk
    /\ manifest # {}
    /\ manifestOk' = FALSE
    /\ faults' = faults + 1
    /\ UNCHANGED <<lock, pc, locals, storeVars, manifest, snapVars,
                   productVars, ghostVars, clock>>

Tick ==
    /\ clock < MaxClock
    /\ clock' = clock + 1
    /\ UNCHANGED <<lock, pc, locals, storeVars, liveVars, snapVars,
                   productVars, ghostVars, faults>>

-----------------------------------------------------------------------------

Maintain(p) ==
    \/ RecoverSnapshot(p) \/ RejectManifest(p) \/ BeginMaintenance(p)
    \/ MaintainLive(p) \/ MaintainKeep(p) \/ MaintainCollect(p)
    \/ MaintainUnmark(p) \/ EndMaintenance(p)

Materialize(p) ==
    \/ Hit(p) \/ RejectCorrupt(p) \/ Miss(p) \/ PublishBlob(p)
    \/ VerifyPublished(p) \/ RejectPublished(p) \/ MarkUncommitted(p)
    \/ EndMaterialization(p) \/ MaterializePi(p)

BuildImage(p) ==
    \/ CreateSnapshot(p) \/ FillSnapshot(p) \/ RejectPayload(p)
    \/ SealSnapshot(p) \/ PublishProjection(p) \/ RunDocker(p)
    \/ DockerSucceeds(p) \/ DockerFails(p) \/ CleanupAfterSuccess(p)
    \/ CleanupAfterFailure(p)

CommitBuild(p) ==
    \/ CommitVerify(p) \/ RejectVerify(p) \/ CommitManifest(p)
    \/ CommitUnmark(p) \/ BeginGc(p) \/ GcBlob(p) \/ GcUnmark(p) \/ Succeed(p)

(* What the program does next if nothing unexpected stops it.              *)
Proceed(p) == Maintain(p) \/ Materialize(p) \/ BuildImage(p) \/ CommitBuild(p)

(* Errors and interrupts: they may happen, and no fairness asks for them.  *)
Break(p) ==
    \/ DownloadFails(p) \/ MarkFails(p) \/ AbandonSnapshot(p)
    \/ CleanupFails(p) \/ Fail(p)

Start(p) == Acquire(p) \/ RejectCompeting(p)

Environment ==
    \/ \E p \in Process : Crash(p)
    \/ \E s \in SnapName : OrphanExits(s)
    \/ \E b \in Blob : DamageBlob(b) \/ DamageMarker(b)
    \/ DamageManifest
    \/ Tick

Next ==
    \/ \E p \in Process : Start(p) \/ Proceed(p) \/ Break(p)
    \/ Environment

Spec == Init /\ [][Next]_vars

(* A process that is in a transaction keeps running: transport and docker  *)
(* are assumed to answer eventually, for the code sets them no deadline.   *)
FairSpec == Spec /\ \A p \in Process : WF_vars(Proceed(p))

-----------------------------------------------------------------------------
(* Safety. *)

(* At most one build of the project is active, and it is the holder of the *)
(* lock: no process is between acquire and release without it.             *)
SingleActiveBuild == \A p \in Process : pc[p] \in Stages <=> lock = p

(* The blobs of the committed build set are in the cache, valid, at every  *)
(* moment of every later build, failed, crashed or successful, unless      *)
(* something outside the constructor damaged them.                         *)
CommittedBlobsPresent ==
    \A x \in manifest : blob[x] = "valid" \/ x \in damaged

(* While a live build runs docker, its named-context snapshot exists and   *)
(* holds exactly the artifacts it selected: no other build's recovery      *)
(* removes it and none of its own steps leaves it incomplete.              *)
DockerReadsSelection ==
    \A p \in Process :
        pc[p] = "running" =>
            /\ snap[p] \in snaps
            /\ payload[snap[p]] = sel[p]

(* Abandoned snapshots do not pile up: recovery runs before each new one.  *)
OneSnapshot == \A s, t \in snaps : s = t

(* Each handled failure removes its partial download: only a crash leaves  *)
(* a temporary file behind.                                                *)
PartialsOnlyFromCrashes ==
    temps <= faults + Cardinality({p \in Process : pc[p] = "download"})

(* The live set changes only to the artifacts of the image Docker has just *)
(* built from the published projection, after the snapshot is gone.        *)
CommitFollowsImage ==
    [][manifest' # manifest =>
          manifest' = image /\ manifest' = effective /\ snaps = {}]_vars

(* A verified blob disappears only when it is superseded, when its TTL     *)
(* since publication is over, when its marker is unreadable or could not   *)
(* be written, or by outside damage; a committed blob never does.          *)
RetainedForTTL ==
    [][\A x \in Blob :
          blob[x] = "valid" /\ blob'[x] # "valid" =>
             \/ x \in damaged'
             \/ /\ x \notin manifest
                /\ \/ clock - born[x] > TTL
                   \/ marker[x] = BadMarker
                   \/ \E p \in Process :
                        \/ pc[p] = "gc" /\ x \in superseded[p]
                        \/ pc[p] = "mark" /\ x = target[p]]_vars

(* A build that reports success has committed its selection, and left      *)
(* neither a marker of a live blob nor a blob of the set it replaced.      *)
SuccessIsClean ==
    [][\A p \in Process :
          pc[p] = "gc" /\ pc'[p] = "succeeded" =>
             /\ manifest = sel[p]
             /\ \A x \in manifest : marker[x] = NoMarker
             /\ \A x \in superseded[p] : blob[x] = "absent"]_vars

(* The transaction implements the retention promise: every step fetches,   *)
(* collects, loses, builds or commits abstractly, or changes nothing.      *)
Retention == INSTANCE BuildRetention
    WITH committed <- manifest,
         available <- {x \in Blob : blob[x] = "valid"},
         built <- image,
         lost <- damaged

ImplementsRetention == Retention!Spec

(* Progress: a build that is not killed ends and gives the lock back, if   *)
(* its downloads and docker end.                                           *)
BuildEnds == \A p \in Process : pc[p] \in Stages ~> pc[p] \in Resting

-----------------------------------------------------------------------------
(* What the documents promise and the code does not keep. *)

(* A build has just finished its maintenance. *)
Maintained(p) == pc[p] = "select" /\ todo[p] = sel[p]

(* openspec build-artifact-materialization, "Collecting an expired         *)
(* uncommitted blob": after maintenance no unreferenced blob is past its   *)
(* TTL.  (A blob whose own marker is younger is left out.)                 *)
MaintenanceCollectsExpired ==
    \A p \in Process, x \in Blob \ manifest :
        Maintained(p) /\ blob[x] = "valid" /\ now[p] - born[x] > TTL
            => marker[x] # NoMarker

=============================================================================
