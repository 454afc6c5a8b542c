---------------------------- MODULE ArtifactCache ----------------------------
(***************************************************************************)
(* The content-addressed cache of runtime artifacts that all launches of a *)
(* user share:                                                             *)
(*   docker/versioning/artifact_cache.py   materialize_selected_artifacts, *)
(*                                         _materialize_one                *)
(*   docker/launcher.py                    orchestrate_run, its caller     *)
(* A process is one launch: it materializes the artifacts it selected one  *)
(* after the other, then docker mounts their paths.  A hit is decided      *)
(* without a lock; everything else happens under a blocking flock of the   *)
(* artifact's own.  A step is one file-system operation another process, a *)
(* crash or a later launch can observe.                                    *)
(***************************************************************************)
EXTENDS Naturals

CONSTANTS
    Process,     \* launches
    Blob,        \* integrity identities, the names of cache entries
    Selections,  \* the artifact sets a launch can select
    NoProcess, NoBlob,
    MaxFaults    \* bound on crashes, outside damage and read errors

ASSUME ConstantsAssumption ==
    /\ Selections \subseteq SUBSET Blob
    /\ NoProcess \notin Process
    /\ NoBlob \notin Blob
    /\ MaxFaults \in Nat

VARIABLES
    pc,         \* where each launch is
    sel,        \* per launch: the artifacts it selected
    todo,       \* per launch: those not yet materialized
    target,     \* per launch: the one _materialize_one works on
    failing,    \* per launch: a primary or clean-up error is under way
    lock,       \* holder of each identity's flock
    blob,       \* what stands at <algorithm>/<digest>
    algdir,     \* the algorithm directory exists
    work,       \* launches whose materialize-* directory exists
    disturbed,  \* history: blobs damaged or misread since they were published
    uncleaned,  \* history: launches whose clean-up failed
    faults      \* faults so far

locals == <<sel, todo, target, failing>>
cacheVars == <<blob, algdir, disturbed>>
workVars == <<work, uncleaned>>
vars == <<pc, locals, lock, cacheVars, workVars, faults>>

(* The stages in which a launch holds the lock of its target, and, of      *)
(* them, those with a temporary directory.                                 *)
InWorkspace == {"download", "validate", "discard", "cleanup"}
Locked == {"recheck", "quarantine", "ensure", "mkdir", "workspace", "release"}
             \cup InWorkspace
Active == Locked \cup {"select", "wait"}
Ended == {"failed", "killed", "launched"}

(* Every variable has its type. *)
TypeOK ==
    /\ pc \in [Process -> {"idle", "resolved"} \cup Active \cup Ended]
    /\ sel \in [Process -> SUBSET Blob]
    /\ todo \in [Process -> SUBSET Blob]
    /\ target \in [Process -> Blob \cup {NoBlob}]
    /\ failing \in [Process -> BOOLEAN]
    /\ lock \in [Blob -> Process \cup {NoProcess}]
    /\ blob \in [Blob -> {"absent", "valid", "corrupt"}]
    /\ algdir \in BOOLEAN
    /\ work \in SUBSET Process
    /\ disturbed \in SUBSET Blob
    /\ uncleaned \in SUBSET Process
    /\ faults \in Nat

(* The cache may hold anything an earlier launch or an outsider left.      *)
Init ==
    /\ pc = [p \in Process |-> "idle"]
    /\ sel = [p \in Process |-> {}]
    /\ todo = [p \in Process |-> {}]
    /\ target = [p \in Process |-> NoBlob]
    /\ failing = [p \in Process |-> FALSE]
    /\ lock = [b \in Blob |-> NoProcess]
    /\ blob \in [Blob -> {"absent", "valid", "corrupt"}]
    /\ algdir \in BOOLEAN
    /\ algdir \/ \A b \in Blob : blob[b] = "absent"
    /\ work = {}
    /\ disturbed = {} /\ uncleaned = {}
    /\ faults = 0

-----------------------------------------------------------------------------

Go(p, from, to) ==
    /\ pc[p] = from
    /\ pc' = [pc EXCEPT ![p] = to]

(* An exception: the finally block of _materialize_one comes next. *)
Raise(p, from, to) ==
    /\ Go(p, from, to)
    /\ failing' = [failing EXCEPT ![p] = TRUE]
    /\ UNCHANGED <<sel, todo, target>>

Put(b, what) == blob' = [blob EXCEPT ![b] = what]

-----------------------------------------------------------------------------
(* materialize_selected_artifacts: one identity after the other. *)

Start(p) ==
    /\ Go(p, "idle", "select")
    /\ \E S \in Selections :
         /\ sel' = [sel EXCEPT ![p] = S]
         /\ todo' = [todo EXCEPT ![p] = S]
    /\ UNCHANGED <<target, failing, lock, cacheVars, workVars, faults>>

(* The fast path: a valid entry is returned without a lock. *)
FastHit(p) ==
    /\ pc[p] = "select"
    /\ \E b \in todo[p] :
         /\ blob[b] = "valid"
         /\ todo' = [todo EXCEPT ![p] = @ \ {b}]
    /\ UNCHANGED <<pc, sel, target, failing, lock, cacheVars, workVars, faults>>

Miss(p) ==
    /\ Go(p, "select", "wait")
    /\ \E b \in todo[p] :
         /\ blob[b] # "valid"
         /\ target' = [target EXCEPT ![p] = b]
    /\ UNCHANGED <<sel, todo, failing, lock, cacheVars, workVars, faults>>

Resolve(p) ==
    /\ todo[p] = {}
    /\ Go(p, "select", "resolved")
    /\ UNCHANGED <<locals, lock, cacheVars, workVars, faults>>

(* docker run mounts the paths; nothing looks at the entries again. *)
Launch(p) ==
    /\ Go(p, "resolved", "launched")
    /\ UNCHANGED <<locals, lock, cacheVars, workVars, faults>>

-----------------------------------------------------------------------------
(* _materialize_one under the lock of the identity. *)

(* Mutant: the flock is not taken, or another file is locked. *)
AcquireShared(p) ==
    /\ Go(p, "wait", "recheck")
    /\ lock' = [lock EXCEPT ![target[p]] = p]
    /\ UNCHANGED <<locals, cacheVars, workVars, faults>>

AcquireIdentity(p) ==
    /\ Go(p, "wait", "recheck")
    /\ lock[target[p]] = NoProcess
    /\ lock' = [lock EXCEPT ![target[p]] = p]
    /\ UNCHANGED <<locals, cacheVars, workVars, faults>>

RecheckHit(p) ==
    /\ Go(p, "recheck", "release")
    /\ blob[target[p]] = "valid"
    /\ UNCHANGED <<locals, lock, cacheVars, workVars, faults>>

RecheckMiss(p) ==
    /\ Go(p, "recheck", "quarantine")
    /\ blob[target[p]] # "valid"
    /\ UNCHANGED <<locals, lock, cacheVars, workVars, faults>>

(* quarantine_or_remove unlinks whatever stands at the path. *)
Quarantine(p) ==
    /\ Go(p, "quarantine", "ensure")
    /\ Put(target[p], "absent")
    /\ UNCHANGED <<locals, lock, algdir, disturbed, workVars, faults>>

(* ensure_secure_dir looks for the algorithm directory, then creates it.   *)
FindDirectory(p) ==
    /\ pc[p] = "ensure"
    /\ pc' = [pc EXCEPT ![p] = IF algdir THEN "workspace" ELSE "mkdir"]
    /\ UNCHANGED <<locals, lock, cacheVars, workVars, faults>>

CreateDirectory(p) ==
    /\ ~algdir
    /\ Go(p, "mkdir", "workspace")
    /\ algdir' = TRUE
    /\ UNCHANGED <<locals, lock, blob, disturbed, workVars, faults>>

(* A launch with another identity has created it meanwhile: os.mkdir       *)
(* raises FileExistsError and this launch fails.                           *)
DirectoryExists(p) ==
    /\ algdir
    /\ Raise(p, "mkdir", "release")
    /\ UNCHANGED <<lock, cacheVars, workVars, faults>>

CreateWorkspace(p) ==
    /\ Go(p, "workspace", "download")
    /\ work' = work \cup {p}
    /\ UNCHANGED <<locals, lock, cacheVars, uncleaned, faults>>

(* The stream has ended and its digest is the declared one: os.replace.    *)
PublishBlob(p) ==
    /\ Go(p, "download", "validate")
    /\ Put(target[p], "valid")
    /\ disturbed' = disturbed \ {target[p]}
    /\ UNCHANGED <<locals, lock, algdir, workVars, faults>>

Validate(p) ==
    /\ Go(p, "validate", "cleanup")
    /\ blob[target[p]] = "valid"
    /\ UNCHANGED <<locals, lock, cacheVars, workVars, faults>>

(* set_permissions or the revalidation finds another entry.  The error of  *)
(* set_permissions does not discard it.                                    *)
RejectValidation(p) ==
    /\ \E to \in {"discard", "cleanup"} : Raise(p, "validate", to)
    /\ blob[target[p]] # "valid"
    /\ UNCHANGED <<lock, cacheVars, workVars, faults>>

DiscardPublished(p) ==
    /\ Go(p, "discard", "cleanup")
    /\ Put(target[p], "absent")
    /\ UNCHANGED <<locals, lock, algdir, disturbed, workVars, faults>>

(* Mutant: a failure keeps its temporary directory. *)
CleanupOfSuccess(p) ==
    /\ Go(p, "cleanup", "release")
    /\ work' = IF failing[p] THEN work ELSE work \ {p}
    /\ UNCHANGED <<locals, lock, cacheVars, uncleaned, faults>>

Cleanup(p) ==
    /\ Go(p, "cleanup", "release")
    /\ work' = work \ {p}
    /\ UNCHANGED <<locals, lock, cacheVars, uncleaned, faults>>

(* Mutant: only a success releases the lock. *)
ReleaseOnSuccess(p) ==
    /\ pc[p] = "release"
    /\ pc' = [pc EXCEPT ![p] = IF failing[p] THEN "failed" ELSE "select"]
    /\ lock' = [lock EXCEPT ![target[p]] = IF failing[p] THEN @ ELSE NoProcess]
    /\ todo' = [todo EXCEPT ![p] = @ \ {target[p]}]
    /\ target' = [target EXCEPT ![p] = NoBlob]
    /\ UNCHANGED <<sel, failing, cacheVars, workVars, faults>>

ReleaseIdentity(p) ==
    /\ pc[p] = "release"
    /\ pc' = [pc EXCEPT ![p] = IF failing[p] THEN "failed" ELSE "select"]
    /\ lock' = [lock EXCEPT ![target[p]] = NoProcess]
    /\ todo' = [todo EXCEPT ![p] = @ \ {target[p]}]
    /\ target' = [target EXCEPT ![p] = NoBlob]
    /\ UNCHANGED <<sel, failing, cacheVars, workVars, faults>>

-----------------------------------------------------------------------------
(* Errors and interrupts. *)

(* Before the lock is held there is nothing to undo. *)
FailUnlocked(p) ==
    /\ pc[p] \in {"select", "wait", "resolved"}
    /\ pc' = [pc EXCEPT ![p] = "failed"]
    /\ target' = [target EXCEPT ![p] = NoBlob]
    /\ UNCHANGED <<sel, todo, failing, lock, cacheVars, workVars, faults>>

FailLocked(p) ==
    /\ \E from \in {"recheck", "quarantine", "ensure", "mkdir", "workspace"} :
         Raise(p, from, "release")
    /\ UNCHANGED <<lock, cacheVars, workVars, faults>>

(* A transport error, another digest, a failed rename, an interrupt.       *)
DownloadFails(p) ==
    /\ Raise(p, "download", "cleanup")
    /\ UNCHANGED <<lock, cacheVars, workVars, faults>>

(* An interrupt or read error while the published entry is revalidated:    *)
(* the handler catches BaseException and discards the entry.               *)
InterruptValidation(p) ==
    /\ Raise(p, "validate", "discard")
    /\ UNCHANGED <<lock, cacheVars, workVars, faults>>

(* An interrupt before or after the revalidation only ends the launch, and *)
(* so does an error of the discarding.                                     *)
InterruptPublished(p) ==
    /\ \E from \in {"validate", "discard"} : Raise(p, from, "cleanup")
    /\ UNCHANGED <<lock, cacheVars, workVars, faults>>

(* Mutant: a failed clean-up takes the published entry back. *)
CleanupFailsDiscarding(p) ==
    /\ Raise(p, "cleanup", "release")
    /\ Put(target[p], "absent")
    /\ uncleaned' = uncleaned \cup {p}
    /\ UNCHANGED <<lock, algdir, disturbed, work, faults>>

(* cleanup_temp raises: alone it becomes the error of the launch, after a  *)
(* successful publication too.                                             *)
CleanupFails(p) ==
    /\ Raise(p, "cleanup", "release")
    /\ uncleaned' = uncleaned \cup {p}
    /\ UNCHANGED <<lock, cacheVars, work, faults>>

(* A transient OSError makes a miss of a valid entry: without the lock it  *)
(* costs a second look, ...                                                *)
MisreadHit(p) ==
    /\ Go(p, "select", "wait")
    /\ \E b \in todo[p] : target' = [target EXCEPT ![p] = b]
    /\ UNCHANGED <<sel, todo, failing, lock, cacheVars, workVars, faults>>

(* ... under the lock the entry is taken for corrupt. *)
MisreadRecheck(p) ==
    /\ faults < MaxFaults
    /\ faults' = faults + 1
    /\ Go(p, "recheck", "quarantine")
    /\ blob[target[p]] = "valid"
    /\ disturbed' = disturbed \cup {target[p]}
    /\ UNCHANGED <<locals, lock, blob, algdir, workVars>>

(* The process dies and the kernel drops its lock. *)
Crash(p) ==
    /\ faults < MaxFaults
    /\ faults' = faults + 1
    /\ pc[p] \in Active
    /\ pc' = [pc EXCEPT ![p] = "killed"]
    /\ lock' = [b \in Blob |-> IF lock[b] = p THEN NoProcess ELSE lock[b]]
    /\ target' = [target EXCEPT ![p] = NoBlob]
    /\ UNCHANGED <<sel, todo, failing, cacheVars, workVars>>

(* Something outside removes or replaces an entry. *)
DamageBlob(b) ==
    /\ faults < MaxFaults
    /\ faults' = faults + 1
    /\ blob[b] = "valid"
    /\ \E bad \in {"absent", "corrupt"} : Put(b, bad)
    /\ disturbed' = disturbed \cup {b}
    /\ UNCHANGED <<pc, locals, lock, algdir, workVars>>

-----------------------------------------------------------------------------

Proceed(p) ==
    \/ FastHit(p) \/ Miss(p) \/ Resolve(p) \/ Launch(p)
    \/ AcquireIdentity(p) \/ RecheckHit(p) \/ RecheckMiss(p) \/ Quarantine(p)
    \/ FindDirectory(p) \/ CreateDirectory(p) \/ DirectoryExists(p)
    \/ CreateWorkspace(p) \/ PublishBlob(p) \/ Validate(p)
    \/ RejectValidation(p) \/ DiscardPublished(p) \/ Cleanup(p)
    \/ ReleaseIdentity(p)

Break(p) ==
    \/ FailUnlocked(p) \/ FailLocked(p) \/ DownloadFails(p)
    \/ InterruptValidation(p) \/ InterruptPublished(p) \/ CleanupFails(p)
    \/ MisreadHit(p) \/ MisreadRecheck(p) \/ Crash(p)

Next ==
    \/ \E p \in Process : Start(p) \/ Proceed(p) \/ Break(p)
    \/ \E b \in Blob : DamageBlob(b)

Spec == Init /\ [][Next]_vars

(* A launch keeps running; the socket timeout bounds a silent transport,   *)
(* and flock serves its waiters while each launch takes it once.           *)
FairSpec == Spec /\ \A p \in Process : WF_vars(Proceed(p))

-----------------------------------------------------------------------------
(* Properties. *)

(* Launches of different identities pass each other, those of one do not:  *)
(* a launch works on an identity exactly while it holds its lock.          *)
IdentityExclusive ==
    \A p \in Process, b \in Blob :
        lock[b] = p <=> pc[p] \in Locked /\ target[p] = b

(* project-launcher, "Reusing a valid cached artifact": nobody downloads   *)
(* what stands valid in the cache, whatever others did since the launch    *)
(* first looked.                                                           *)
DownloadsOnlyMissing ==
    \A p \in Process :
        pc[p] \in {"ensure", "mkdir", "workspace", "download"} =>
            blob[target[p]] # "valid"

(* project-launcher, "Failing host materialization": temporary state is    *)
(* gone when the launch ends, unless it was killed or its clean-up failed. *)
WorkspacesCleaned ==
    \A p \in work : pc[p] \in InWorkspace \cup {"killed"} \/ p \in uncleaned

(* A valid entry disappears only when it was damaged or misread, or when   *)
(* its own publisher gives it up before it has returned it: never because  *)
(* another launch took it for missing.                                     *)
ValidBlobKept ==
    [][\A b \in Blob :
          blob[b] = "valid" /\ blob'[b] # "valid" =>
             \/ b \in disturbed'
             \/ /\ lock[b] \in Process
                /\ pc[lock[b]] = "discard"
                /\ failing[lock[b]]]_vars

(* The cache implements the promise of the store. *)
Offered ==
    {b \in Blob : /\ blob[b] = "valid"
                  /\ \E p \in Process : /\ lock[b] = p
                                        /\ pc[p] \in {"validate", "discard"}}

Store == INSTANCE ArtifactStore
    WITH offered <- Offered,
         kept <- {b \in Blob : blob[b] = "valid"} \ Offered,
         lost <- disturbed

ImplementsStore == Store!Spec

(* Every launch ends: nobody waits for ever for a lock, and the loops end. *)
LaunchEnds == \A p \in Process : pc[p] = "select" ~> pc[p] \in Ended

(* project-launcher, "Preparing concurrent launches": "all successful      *)
(* launches SHALL resolve to a blob with the declared integrity".          *)
LaunchMountsVerified ==
    [][\A p \in Process :
          pc[p] = "resolved" /\ pc'[p] = "launched" =>
             \A b \in sel[p] : blob[b] = "valid" \/ b \in disturbed]_vars

=============================================================================
