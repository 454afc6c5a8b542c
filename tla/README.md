# A verification project for docker-constructor

`docker-constructor` (package `docker/`, with `docker/versioning/` and
`docker/npm_environment/`) prepares, builds and launches a container image for
the Pi agent from a reviewed inventory of artifacts: every artifact has a
declared digest, is downloaded by the host once, kept in private caches, handed
to Docker as a named build context, and recorded as the project's *live build
set* once the image exists.  Several invocations of the program may run on one
project at the same time, each can be interrupted or killed anywhere, and the
only coordination between them is the file system.  That is what this project
models.

Contents: 1 Inventory, 2 Plan, 3 Modules and the code, 4 Runs, 5 Proofs,
6 Findings, 7 What is abstracted or left out.

## 1. Inventory

For each component: the state it keeps, its operations, who it interacts with,
what is hard about it, and what makes it correct.  Paths are relative to
`src/docker/`.

### 1.1 Image build transaction
`versioning/build_orchestration.py` (`execute_build`), `build_cache.py`,
`build_materialization.py`, `build_snapshot.py`.

- *State*, all below the project's private namespace: the `flock` on
  `build-artifacts/build.lock`; `blobs/sha256/<digest>.blob`; the markers
  `uncommitted/<digest>.json` (`verified_at`); the committed manifest
  `committed-build.json`; temporaries `tmp/.materialize-*`; snapshot directories
  below `transactions/`; the effective projection.
- *Operations*: acquire or reject; recover abandoned snapshots; maintain
  uncommitted blobs; materialize each selected artifact; create and fill the
  snapshot; publish the projection; run `docker build`; remove the snapshot;
  commit the build set; remove markers and superseded blobs.
- *Interactions*: other invocations through the lock; later invocations through
  every file that is left behind; a docker client that reads the snapshot and may
  outlive its parent; whoever else can write in the directory.
- *Hard*: a crash between any two renames; an error after the commit point; state
  of an earlier, failed build that decides about the blobs of a later one (an old
  marker of a blob that has become live); verification long before use.
- *Correct if*: builds exclude one another; live blobs are never lost by the
  program; Docker reads exactly the selected, verified artifacts; the live set is
  always the set of an image that was built; retention lasts as long as promised
  and garbage does not pile up; every build ends.

### 1.2 Build planning and effective configuration
`versioning/build_orchestration.py` (`plan_build`), `effective.py`,
`rendering.py`, `inventory.py`, `model.py`.  Pure parsing, overrides, rendering
and one file publication (`create_runtime_projection`: a no-clobber hard link
removed by its handle).  Hard: the host validates what it hands over with rules of its
own, the container with others; a dry run plans what a later launch does.  Correct if
the container starts exactly what was asked for, each artifact is mounted once, a
reviewed inventory is not refused inside the container, and every exit removes the
projection.

### 1.3 Doctor
`build_orchestration.py` (`orchestrate_doctor`), `networking.py`.  State: the
`[host-access]` address in the project's local companion file, rewritten
atomically and without touching its other sections.  Probes candidate gateways
with a container and persists the selected one.  Correct if only an address that
was probed is persisted and a failure leaves the file as it was.

### 1.4 Host runtime artifact cache
`versioning/artifact_cache.py`.  State: one cache shared by every project of the
user, an advisory lock file per artifact identity, `materialize-*` workspaces.
`_materialize_one`: lock-free hit, blocking lock, recheck, quarantine of a corrupt
entry, download, rename, validation of the published file, clean-up, release.
Hard: contenders pass the lock-free test together; corruption from outside between
any two steps; an error of the clean-up after a successful publication.  Correct if
a returned path is a valid blob, a valid blob is never replaced, identities do not
block one another, temporaries do not outlive a handled failure.

### 1.5 Project launcher
`launcher.py` (`orchestrate_run`).  Resolves state, materializes, publishes the
runtime projection, allocates a container name (the lowest free `pi-N` of
`docker ps -a`, another process may take it before `docker run`), runs Docker,
removes the projection.

### 1.6 Locked npm environment
`npm_environment/`.  Four parts:
- *Publication* (`publication.py`, `storage.py`): identity lock, staging
  workspace, quarantine, atomic publication, index of environments.
- *Supervised execution* (`execution.py`, `lifecycle.py`, `preflight.py`,
  `smoke.py`): one supervisor process per container, a deadline, termination and
  bounded removal of the container on every exit.
- *Streaming* (`streaming.py`): two reader threads, a bounded queue of 64
  entries, a dispatcher thread that calls the sink, redaction of secrets across
  chunk boundaries.
- *Identity, lockfile, run vector, tree, evidence, validation*: pure functions
  of their input; the interesting one is the range matcher `semver_range.py`.

### 1.7 Pi acquisition and consumer launcher
`pi_release.py`, `pi_assembly.py`, `pi_consumer.py`, `npm_tarball.py`.  A
sequential pipeline on top of 1.4 and 1.6.

### 1.8 HTTP metadata cache, update checks, providers
`cache.py`, `cache_storage.py`, `updates.py`, `readonly_service.py`, `transports.py`,
`providers/*`, `constraints.py`, `semver.py`.  The cache keeps provider answers for a
TTL, failures included, under a temporary name that all processes share; an update check
asks one provider after another, reads the inventory again and prints blocks to paste
into it.  Hard: a file that two processes write under one name; an inventory that changes
between the two reads; a candidate that touches several leaves of a block.  Correct if
what is pasted loads, no block lowers a version, and retrying later helps.

### 1.9 Project state
`project_state.py`, `constructor_project.py`, `cache_storage.py`.  Hardening of the cache
root, creation and verification of the namespace by concurrent first users, one
metadata file published once by a hard link.  Hard: every check is a call of its own,
any other user may be between two of them, and one may die there.  Correct if a command
that goes on has found its own private namespace, and one that comes after everything is
in place is not refused.

### 1.10 Runtime installer and image
`runtime_installer.py`, the shell scripts, `Dockerfile`, `entrypoint.sh`.  One process per
container start; extracts verified artifacts in place into the Pi home that all
containers of a user share, without a lock.  Correct if a command starts only when all
its packages are there, and an interrupted installation can be repeated.

### 1.11 The rest
The command line (`constructor_cli.py`: parsing, prompts, order of the checks, exit kinds);
its rendering and the TUI are presentation.  Evidence, verification, digests and value
types have no protocol.

## 2. Plan

| order | module | abstract specification | question |
|---|---|---|---|
| 1, done | `BuildTransaction` | `BuildRetention` | 1.1, all of it |
| 2, done | `ArtifactCache` | `ArtifactStore` | 1.4: several launches, several identities |
| 3, done | `NpmEnvironment` | `EnvironmentStore` | 1.6: lock, staging, container, quarantine, publish, index, crash |
| 4, done | `StreamingRun` | | 1.6: deadline, interrupt, container removal, readers |
| 5, done | `LiveOutput` = `Redaction` + `SinkDispatcher` | redaction of the whole text; a FIFO | 1.6: secrets across chunks, bounded queue, failing sink |
| 6, done | `Launch` = `ProjectState` + `RuntimeInstaller` + the launcher | | 1.5, 1.9, 1.10: from the command to the container's command |
| 7, done | `Handover` | | 1.2, 1.10: the same launch as data, host against container |
| 8, done | `Constructor` = `UpdateCheck` (`Inventory`, `MetadataCache`) + `Doctor` + the command line | | 1.3, 1.8, 1.11: commands side by side on one project |
| 9, done | `LaunchProofs`, `HandoverProofs` | | the launch and what it hands over, for any commands, disks, inventories |
| 10, done | `StreamingRunProofs`, `LiveOutputProofs` | | one owner of the clean-up, the told timeout; order and completeness of delivery |
| 11, done | `NpmEnvironmentProofs` | `EnvironmentStore` | tree, lock, staging, container and store for any calls and places |
| 12, done | `ConstructorProofs` | | `Constructor` with its components `UpdateCheck` and `Doctor`, for any invocations, inventories and releases |
| 13, done | `BuildTransactionProofs`, extended | `BuildRetention` | retention over time, what a successful build leaves behind |
| 14, done | `LiveOutputProofs`, extended | redaction of the whole text | cut and whole redaction agree, no loss is silent, for any texts, secrets and sinks |
| 15 | the run as a refinement | `NpmEnvironment`'s container | that `StreamingRun` takes the steps `NpmEnvironment` gives a container |

`Redaction` and `LiveOutput` use the folds and sequences of the community modules and
recursive functions, no `RECURSIVE` operator, so that they can be proved about (section 5).

## 3. The modules and the code

### 3.1 BuildTransaction

One `PROCESS` is one invocation of the constructor; `pc[p]` is its place in
`execute_build`.  Shared state stands for files:

| variable | file or value |
|---|---|
| `lock` | the non-blocking exclusive `flock` on `build.lock` |
| `blob[b]` | what stands at `blobs/sha256/<digest>.blob`: absent, valid (its digest matches), corrupt |
| `marker[b]` | `uncommitted/<digest>.json`: its `verified_at`, `NoMarker`, or `BadMarker` |
| `manifest`, `manifestOk` | `committed-build.json` and whether it parses |
| `temps` | number of `.materialize-*` files |
| `snaps`, `payload` | directories below `transactions/` and what they hold |
| `clients` | snapshots a docker client reads, also after its parent died |
| `effective`, `image` | the published projection, the artifacts of the last image |
| `clock`, `born`, `damaged`, `faults` | wall clock; history; fault counter |

The locals `sel`, `todo`, `target`, `snap`, `built`, `now`, `superseded` are the
Python locals of the same meaning, and vanish when the transaction ends
(`EndAs`).  One action is one operation on the file system that another process,
a crash or a later build can observe; pure computation between two of them is
part of the following one.

- `Acquire`, `RejectCompeting`: `acquire_constructor_project_build_lock`.
- `RecoverSnapshot`: one iteration of `recover_abandoned_snapshots`.
- `RejectManifest`, `BeginMaintenance`, `MaintainLive`, `MaintainKeep`,
  `MaintainCollect`, `MaintainUnmark`, `EndMaintenance`:
  `maintain_uncommitted_blobs`; removal is two steps, blob then marker.
- `Hit`, `RejectCorrupt`, `Miss`, `PublishBlob`, `VerifyPublished`,
  `RejectPublished`, `MarkUncommitted`, `EndMaterialization`:
  `materialize_artifact` per selected artifact.
- `CreateSnapshot`, `FillSnapshot`, `RejectPayload`, `SealSnapshot`:
  `create_artifact_snapshot`; a payload is a link or a copy, later changes of the
  blob's directory entry do not reach it.
- `PublishProjection`, `RunDocker`, `DockerSucceeds`, `DockerFails`,
  `CleanupAfterSuccess`, `CleanupAfterFailure`.
- `CommitVerify`, `RejectVerify`, `CommitManifest`, `CommitUnmark`, `BeginGc`,
  `GcBlob`, `GcUnmark`, `Succeed`: `commit_build_set`.
- `DownloadFails`, `MarkFails`, `AbandonSnapshot`, `CleanupFails`, `Fail`: errors
  and interrupts at each place, with what the handlers there undo.
- `Crash`, `OrphanExits`, `DamageBlob`, `DamageMarker`, `DamageManifest`, `Tick`:
  the environment.

`BuildRetention` is the promise: a live set, the reusable artifacts, the last
image, and what outsiders have destroyed.  The refinement maps the live set to
`manifest`, the reusable artifacts to the valid blobs, the image to `image`.

### 3.2 ArtifactCache

One process is one launch and runs once.  `pc[p]` is its place in
`_materialize_one`; `lock[b]` is the blocking `flock` of an identity, `blob[b]` the
entry, `algdir` whether the algorithm directory exists, `work` the launches
that own a `materialize-*` directory, `failing[p]` that an exception is under
way through the `finally` block.  `disturbed` and `uncleaned` are history.

- `FastHit`, `Miss`, `Resolve`: the loop of `materialize_selected_artifacts` and
  the lock-free `_try_cache_hit`; `Launch`: docker mounts the returned paths.
- `AcquireIdentity`, `RecheckHit`, `RecheckMiss`, `Quarantine`, `FindDirectory`,
  `CreateDirectory`, `DirectoryExists`, `CreateWorkspace`, `PublishBlob`, `Validate`,
  `RejectValidation`, `DiscardPublished`, `Cleanup`, `ReleaseIdentity`: the steps
  under the lock, in their order.  Look-up and creation of the algorithm directory
  are two steps because `os.mkdir` raises when another launch was faster.
- `FailUnlocked`, `FailLocked`, `DownloadFails`, `InterruptValidation`,
  `InterruptPublished`, `CleanupFails`, `MisreadHit`, `MisreadRecheck`, `Crash`,
  `DamageBlob`: what can go wrong at each place, and what the code then does.

`ArtifactStore` is the promise: an entry is first *offered* (visible, its publisher
still revalidates it, may be withdrawn), then *kept* (only damage or a read
error takes it away).  The refinement maps an entry to offered while the holder
of its lock is at the revalidation or the discarding.

### 3.3 NpmEnvironment

One process is one call of `assemble_environment`, which runs once.  A *place* is one
input identity below one cache root: it has the lock, the staging directory and the
index.  Outputs belong to a place; the same inputs may give different bytes, so a
place may have several.  A container name belongs to an input identity alone, so two
places may share it (`NameOf`).

| variable | file or value |
|---|---|
| `lock[l]` | the blocking `flock` on `locks/<input>.lock` |
| `namespace` | the places whose private directories exist |
| `staging[l]`, `sealed` | the call that made `staging/<input>`; whether its subdirectories have lost their write bits |
| `container[n]` | the call whose container bears the name, also after the call has died |
| `output[o]`, `index`, `tmp` | `outputs/<output>`: absent, valid (`verify_output`), corrupt; the index files; `.tmp-*` directories |
| `built[p]`, `returned[p]` | the output identity of the call's tree; its answer |
| `damaged`, `misread`, `struck`, `unclean`, `unremoved` | history: what was damaged or misread, whom an error has struck, who reported that it could not clean up |

- `FindNamespace`, `CreateNamespace`, `NamespaceExists`: `prepare_assembler_namespace`;
  the look-up and the `os.mkdir` of another first call interleave.
- `AcquireLock`, `CacheHit`, `CacheMiss`, `RemoveAbandoned`, `AbandonedSealed`:
  the beginning of `assemble_environment`.
- `CreateStaging`, `StartContainer`, `NameTaken`, `ContainerSucceeds`,
  `ContainerFails`, `ContainerGone`, `RemoveContainer`, `DropStaging`, `SealedStays`:
  `assemble`, its container and its handler.
- `ValidateTree`, `SealTree`, `Collide`, `MoveTree`, `PublishOutput`, `AppendIndex`,
  `VerifiedCollision`, `HealIndex`, `RemoveRedundant`, `CorruptCollision`,
  `QuarantineOutput`, `QuarantineNothing`, `RemoveTmp`: `publish_environment`.
- `FailUnlocked`, `FailLocked`, `FailCreated`, `FailRun`, `FailStaged`, `FailMoved`,
  `FailPublished`, `RedundantStays`, `IndexUnwritten`, `RemovalFails`, `DropFails`,
  `MisreadLookup`, `MisreadCollision`, `AbandonedBusy`: errors and interrupts at each
  place, with what the handlers undo.
- `Crash`, `OrphanEnds`, `DamageOutput`, `DamageIndex`: the environment.  A container
  outlives the client that was killed and ends by itself.

`EnvironmentStore` is the promise: an environment is committed whole and stays, and a
call is answered once, with an environment that is committed, unless damage or a read
error has meanwhile taken it.

### 3.4 StreamingRun

One run of `run_streaming` under a deadline, as `assemble` calls it.  Two threads have
a `pc`, the *coordinator* (the calling thread, which the user may interrupt) and the
deadline *supervisor*; a *stream* has a reader thread and a pipe.

| variable | in the code |
|---|---|
| `reader[s]` | whether the reader is inside `BufferedReader.read` (and holds the buffer's lock), between two reads, or done |
| `closing[t]`, `closed`, `failed` | the pipe a thread closes next; closed pipes; recorded reader failures |
| `cancel`, `started`, `pollFailed`, `fired` | the cancellation event; `cleanup_started`, `wait_failure` and `fired` of `DeadlineOutcome` |
| `client`, `signal`, `code`, `written`, `container` | the docker client, the last signal it was sent, its status; whether anyone can write into the pipes; the named container |
| `attempted`, `interrupted`, `errors`, `result` | `container_removal_attempted`; the interruption being handled, or so far only recorded by `reap_process`; errors attached as notes; how `run_streaming` ends |
| `late`, `missed` | history: an interrupt where no handler takes it; a removal before the creation |

- `Terminate`, `Remove`, `Reap`, `ReapTimesOut`, `Close`: the clean-up primitives, used by
  both threads.  `Close` needs the lock its reader may hold.
- `PollExited`, `PollCancelled`, `DeadlineExpires`, `PollFails`, `Decide`, `Publish`:
  `DeadlineSupervisor._run`; `Claim`: `claim_interruption` under the same lock as `Decide`.
- `ReadChunk`, `ReadOn`, `ReadClosed`, `ReadEnd`, `ReadFails`: `drain`.
- `StartSupervisor`, `StartReaders`, `NoticeFailure`, `NoticeDone`, `ShutFailed`,
  `StopClient`, `Interrupt`, `AwaitOwner`, `AwaitTimesOut`, `JoinReaders`: `collect_streams`
  with its two callbacks.
- `JoinSupervisor`, `JoinTimesOut`, `FinalClose`: the end of `run_streaming`; `Succeed`,
  `FailAttempted`, `FailRemoving`: `assemble` behind it.
- `InterruptStart`, `InterruptAgain`, `InterruptJoin`, `InterruptEnd`: interrupts outside
  the handler's reach.

The module refines one step of `NpmEnvironment`, where a container succeeds, fails, or is
removed; the two are not composed formally.

### 3.5 ProjectState, RuntimeInstaller, Launch

Three modules, one run of the launcher: `Launch` extends the other two and composes their
steps.  It also follows what the artifact cache promises (`Materialize`: a success
means that the selected artifact was verified, or fetched again).

`ProjectState`: a *user* is one command.  `dir[d]` is what stands at each path of the
tree (absent, unsafe, loose, private), `metadata` at `project.json`, `temporary[u]` the
user's unpublished copy; `at[u]` is the position in the list of directories it walks, and
`cause[u]` why it failed.  No lock is taken, so a step is one call on a directory:
`Inspect` (first pass of `_harden_tree`), `LeadUp`, `MakeLeadUp`, `Secure`, `Make` (second
pass), `OpenRoot`, `OpenProjects`, `MakeProjects`, `OpenNamespace`, `MakeNamespace`,
`WriteTemporary`, `LinkMetadata`, `UnlinkTemporary`, `ReadMetadata` (with its bounded
number of attempts), `LookAtChild`, `MakeChild`.  A dry run looks and creates nothing.  Crashes, failed calls and any of nine disks to begin with.

`RuntimeInstaller`: a *container* brings the shared Pi home to the versions of its own
projection.  `home[p][f]` is the content of a file of a package: a version, torn, or
nothing.  `Precheck`, `OpenVerified`, `OpenMember` (truncates), `WriteMember`, `Check`,
`Finish`, `PlanAgain`; there is no lock and no staging, so the writes of two containers
into one file interleave.

`Launch`: `RejectRequest`, `PrintPlan`, `Materialize`, `CreateScratch`, `WriteScratch`,
`LinkProjection`, `UnlinkScratch` (`create_runtime_projection`), `AllocateName`, `DockerRun`,
`ContainerEnds`, `Cleanup`; errors, interrupts and kills at each place, with what the
context manager there undoes.

### 3.6 Handover

The same launch as data.  A *name* of the inventory has an entry (package, default
version, catalogue of integrities, policy, metadata path); an *integrity* is a digest with
the spelling of its base64.  `Admitted` is the loader's view, `Resolvable` and `Resolved` are
`resolve_runtime`, `DryMount` and `BlobMount` the two ways a source is named, `Renderable`
is `_validate_run_inputs`, `Readable` and `Opens` are the validators of the container.
`DistinctWorkspaces` is `resolve_workspace_selection`, which refuses before the inventory is
loaded.  `Resolve` and `Plan` are the dry run; `Resolve`, `Materialize`, `Publish`, `Run`, `Read`,
`Install`, `Start` the launch.  `EditInventory` and `DamageArtifact` come between.

### 3.7 Inventory, MetadataCache, UpdateCheck

`Inventory` has what the providers and the block renderer compute, one operator for
each provider (`NpmReleases`, `PypiReleases`, `GithubReleases`, `ChannelRust`,
`PythonDownloads`, `TagDigest`, `InstallerDigest`, `BranchHead`), `Classified` (the status and
the candidate), `Overlaid` (`overlay_candidates`) and `Loads` (`load_inventory`).  Versions
are numbered in their order.

`MetadataCache`: `entry[k]` and `spare[k]` name the *file* that stands under the final and
the shared temporary name of a key, and `content` has its two halves: a second session that
opens the temporary name truncates the same file and goes on writing to it after the first
has renamed it.  `Served`, `Expired`, `Fetched`, `OpenSpare`, `WriteHead`, `WriteTail`,
`PublishSpare`, `KeepFails`; the world publishes releases, goes down, and time passes.

`UpdateCheck`: a *session* is one `check-updates`: `Load`, `AskDisk`, `AskNetwork`, `KeepStep`,
`Kept`, `NotKept`, `Render` (which reads the inventory a second time), `Killed`; `Paste` and
`Edit` are the user's.

### 3.8 Doctor, Constructor

`Doctor`: `Dispatch`, `Detect`, `Probe` (one candidate), `Read` and `Rename`
(`_persist_host_access_address`), `Judge`, `Copy`, `Reload`, `Restart`
(`apply_rootless_override`); `PersistFails`, `RepairFails`, `Stopped`; `EditCompanion` and
`HostChanges`.  The daemon's state is three variables, the override file, what systemd
has read of it and what the daemon was started with, because the repair may stop between
any two.

`Constructor` is the command line above both: `Unparsed`, `Prompt`, `Cancelled`,
`RunDoctor`, `RunCheck`, `RunBuild`, `RunRun`, `RunVerify`.  Of a build, a launch or a
verification only what it needs from the inventory and the companion is followed; the
rest is `BuildTransaction` and `Launch`.

### 3.9 Redaction, SinkDispatcher, LiveOutput

`RedactText` is `redact_text`, the reference; `Split` is `RedactingStream._feed_text`, what is
shown of the text so far and what is held back.  Both are loops over the text, here functions of
the position they have come to (`RedactedFrom`, `SplitFrom`).  A text is a sequence over
`Letter`; the marker is none of the letters.  `SinkDispatcher` has the bounded
`queue`, the dispatcher's loop (`Get`, `Decide`, `Call`, `SinkReturns`, `Judge`, `Discard`),
`Submit`, and the three parts of `finish` (`CloseAcceptance`, `PutSentinel`, `Join`).  Time is
counted in calls of a sink that keeps its budget; a sink is prompt, raising, late, or
endless.  `LiveOutput` composes them as `collect_streams` does: two readers, each with its
redactor, submit to one dispatcher.

## 4. Runs

| run | instance | shows |
|---|---|---|
| `BuildInterleaving` | 2 processes, 2 blobs, 3 selections, 2 faults, no time | snapshots, live set and success under every interleaving, error, crash and damage |
| `BuildRetentionTime` | 2 processes, 1 blob, TTL 1, clock up to 2, 1 fault | retention over time, the refinement of `BuildRetention`, every build that is not killed ends |
| `CacheLaunches` | 2 launches, 2 artifacts, 1 fault, any initial cache | no needless download, no workspace left, the refinement of `ArtifactStore`, every launch ends; the race for the algorithm directory |
| `CacheInterrupted` | 2 launches, 1 artifact, no fault | finding 6.1 |
| `NpmContention` | 2 calls of one place, 2 outputs, 1 fault, any initial store; 2 calls of two places with one container name | only what is missing is assembled, the tree is private, nothing is left, the refinement of `EnvironmentStore`, who waits for the lock ends |
| `NpmSealedStaging` | 2 calls, no fault | finding 6.2 |
| `StreamingDeadline` | 2 pipes, 1 unhandled interrupt | the told outcome, the joined supervisor, the container's removal, every run ends |
| `LaunchFromCommand` | 2 launches, 9 disks, 2 packages of 2 files, 2 versions, 1 fault or upset | namespace and projection of concurrent users, the shared Pi home |
| `ProjectionHandover` | 2 names, 15 entries, 6 requests, 1 change | host and container agree on what starts and what is mounted; the dry run foretells the launch |
| `ConstructorCommands` | 2 invocations, 4 kinds of entries, 3 versions, 1 outage, 1 edit or harm | blocks that load, answers that age, companion and repair by concurrent doctors |
| `ConstructorCompanion` | the same | finding 6.3 |
| `StreamingOutput` | texts of up to 5 letters and 4 secrets; 9 chunks through a queue of 2 to any sink | cutting is invisible, a loss is told, the end comes |

*Why the bounds are enough.*  Transactions of one project exclude one another, so
what matters of a second process is that it arrives anywhere in the first one's
transaction, and that it runs after the first one has stopped anywhere: two
processes, which may also start again.  Two blobs give a blob that stays live, one
that is superseded, one that is new, and a loop that is interrupted half way; where time
passes one blob, which may be selected again, is enough.  TTL
1 with a clock of 2 lets an age be below, at, and above the limit.  Two faults let
a crash meet the damage, or the crash, of an earlier one.  The cache has no limit
on concurrent launches; of two, one holds the lock while the other waits or passes
through the lock-free path.  Of the calls of one npm environment one holds the lock and
the other waits, or has been killed and has left its staging and its container;
outputs interact through the index only, which two can show, and places through the
container's name only: `MCNpmEnvironment` has a family of behaviours for each, where the
second goes without crashes and damage, since errors are what confuses the containers.  A streaming run has exactly two pipes; interrupts the handler takes
are unbounded, and of those it does not take one is enough to void the promises that
except them.

`MCLaunch`: the nine disks are those on which `resolve_project_state` takes a branch of its
own; on the unusual ones both launches want one version and find it installed, so that
one question is asked at a time.  Two packages of two files let a container
stop between packages and between the files of one; the two launches race for names,
directories, `project.json` and every file of the Pi home.
`MCHandover`: two extensions, of which one has at most one oddity from a list that goes
through what either side checks (policy, catalogue, default, metadata path, package
grammar, build package, spelling and content of an integrity), or two that alias each other.
`MCConstructor`: two families of behaviours, since doctors and update checks share
nothing but the inventory.  In the first, two checks share a cache entry over time, or one
prints blocks while the inventory is edited; each provider kind that renders a block of its
own shape has an entry.  In the second, a doctor runs beside any command; the daemon
being rootless or not, the override and the network matter in gateway mode only and are
fixed otherwise.
`MCLiveOutput`: two families.  Every text of up to five letters over three, with four
secrets that are prefixes, suffixes and overlaps of one another, cut everywhere and
delivered once it is over; and two plain streams, nine chunks at most, through a queue of
two to any sink.  `DrainCalls` exceeds `Capacity + 1` as the drain budget does the
calls that can be outstanding.

*Deadlock* is checked in the build runs.  The other runs end by design, because a
launch, a call, a command or a docker client runs once, so there it is switched off and
`LaunchEnds`, `CallEnds`, `RunEnds` and `OutputEnds` take its place where a run has fairness.

*Fairness* is weak fairness of `Proceed(p)`: the program's own next step, never an
error, an interrupt, a start, or anything of the environment.  A process that is
scheduled executes its next statement, so this is what the operating system
gives.  Two steps wait for others: docker and the build transport, to which
`execute_build` sets no deadline, are assumed to end (with an unbounded
docker build a build indeed never ends); and `AcquireIdentity` waits for a lock that
each of finitely many launches takes finitely often, so weak fairness is enough
and `flock` need not be fair.  `RejectCompeting` never waits.  An npm
container ends because `run_streaming` runs it under the assembly deadline.

In `StreamingRun` the threads proceed, and a deadline that is polled again and again is
found expired.  A client that was sent SIGKILL exits, and its descendants end (`FairSpec`);
section 6 says what remains without the last of these (`KillSpec`).  A client that was not
killed, the container and the user owe nothing.  A bounded join of the supervisor covers all
its bounded waits (`_supervisor_cleanup_budget`), so in the model it runs out only when the
supervisor is blocked in `close()`.

In `LiveOutput` the readers, the collector and the dispatcher's thread are scheduled, the
pipes end (`StreamingRun` is about that), and a sink that is not endless returns.
An endless one may never return, and `OutputEnds` holds all the same.

Mutants, one for each property of each passing run, are operators placed before
the definition they change and named in their comments.

## 5. Proofs

TLAPS proves, for all processes, blobs, selections, retention times and bounds, under
the named assumptions of the modules only:

- `ConstantsAssumption` of the build, the cache, the npm environment and the streaming run:
  the sentinels are not processes, blobs or names; bounds are naturals; selections are sets
  of blobs.
- `StateAssumption`, `DiskAssumption` (`ProjectState`): the directories below the cache root
  and the children of the namespace are two lists, the second not empty, that share no
  directory, and a disk gives each directory an entry and the metadata file a content.
- `InstallerAssumption` (`RuntimeInstaller`): the packages are a list, `package.json` is among
  the files, and neither a torn file nor a missing one is a version.
  `LaunchAssumption`: finitely many users, each with one container.
- `HandoverAssumption`: a request overrides extensions by versions; `DispatcherAssumption`:
  the calls that fit into the drain budget are more than the queue holds and one (in the code
  10 s for calls of 0.1 s each, against 64 entries); `OutputAssumption`: the sentinel, an
  object of its own in the code, is no chunk, and each stream brings a text of letters;
  `RedactionAssumption`: secrets are finitely many texts, none empty (`dedupe_secrets` drops
  those), and the marker is no letter, so that a marker in the output is one that was put there.
- `InventoryAssumption`, `CacheAssumption`, `UpdateAssumption`: every entry has a provider, an
  owner (its own, except for rustup), required platforms and versions its constraint allows; an
  unflagged release is a prerelease; the inventories the world starts from load; the targets are
  a list of entries.  `DoctorAssumption`, `ConstructorAssumption`: no address is `NoAddress`; a
  command line is a record with one of the five commands; invocations are both sessions and
  doctors.

One theorem has a hypothesis of its own: `FailuresAge` takes a finite `TTL` that does not exceed
`Patience`.  It is needed, since a failure is cached like any answer (section 6): who
retries before the TTL is over gets it again, and without a TTL for ever.

| theorem | module | states |
|---|---|---|
| `TypeCorrect`, `BuildsExclusive`, `CommittedRetained`, `SnapshotStable`, `SnapshotsDoNotPileUp` | `BuildTransactionProofs` | the invariants `TypeOK`, `SingleActiveBuild`, `CommittedBlobsPresent`, `DockerReadsSelection`, `OneSnapshot` |
| `RetentionRefined`, `ImageBeforeCommit`, `SuccessClean`, `Retained` | `BuildTransactionProofs` | `ImplementsRetention`, `CommitFollowsImage`, `SuccessIsClean`, `RetainedForTTL` |
| `TypeCorrect`, `IdentitiesExclusive`, `NoNeedlessDownload`, `NoWorkspaceLeft`, `ValidEntriesKept`, `StoreImplemented` | `ArtifactCacheProofs` | the invariants of `CacheLaunches`, `ValidBlobKept`, `ImplementsStore` |
| `TypeCorrect`, `CallsExclusive`, `TreesPrivate`, `NoNeedlessAssembly`, `NoStagingLeft`, `NoContainerLeft`, `CommittedStays`, `StoreImplemented` | `NpmEnvironmentProofs` | the invariants of `NpmContention`, `CommittedKept`, `ImplementsStore` |
| `TypeCorrect`, `CleanersExclusive`, `SupervisorAlwaysJoined`, `ResultsComplete`, `TimeoutsTold`, `ContainersRemoved` | `StreamingRunProofs` | `TypeOK`, `OneCleaner` and the invariants of `StreamingDeadline` |
| `TypeCorrect`, `ResolvedPrivate`, `LateResolved`, `UnsafeUntouched`, `Installed`, `ProjectionsRemoved` | `LaunchProofs` | `TypeOK` and the safety properties of `LaunchFromCommand` |
| `Accepted`, `AsRequested`, `MountsSelected`, `Foretold` | `HandoverProofs` | the properties of `ProjectionHandover` |
| `CutsUnseen`, `LossesTold`, `CompliantServed`, `QuietServed` | `LiveOutputProofs` | the safety properties of `StreamingOutput`; the dispatcher's half of `LossIsTold` alone |
| `WellTyped`, `BlocksLoad`, `BlocksNotLower`, `FailuresAge`, `OthersKept`, `RepairedOnSuccess`, `Settles` | `ConstructorProofs` | `ConstructorTypeOK`, `BlocksNeverLower` and the properties of `ConstructorCommands` |
| `Composed` | `ConstructorProofs` | a behaviour of the command line is one of `UpdateCheck` |

*The build's inductive invariant* is `TypeInv /\ SingleActiveBuild /\ SnapshotInv /\
RetentionInv`.  Exclusion alone is inductive.  `DockerReadsSelection` is not: that the
snapshot is complete when docker starts rests on the loop that fills it, so
`SnapshotInv` says for each stage what the snapshot holds so far and that any
snapshot other than the holder's own is gone once maintenance has begun.
`CommittedBlobsPresent` is not either: the commit is safe because the set was
verified just before, and each collecting step because its target is outside the
live set, so `RetentionInv` says what `todo`, `target` and `superseded` may contain at
each stage.  The proof has one lemma per group of actions and part of the
invariant, one case per action.

*The cache's inductive invariant* adds three facts to the checked ones: a launch
that waits or holds has a target, what is about to be unlinked has been found
missing or misread, and only a failing launch discards.  The refinement then
follows action by action: the publication is an `Offer`, because what is downloaded
is not in the cache; every way out of the revalidation is a `Confirm` or a
`Withdraw`; everything else leaves the offered and the kept entries alone.

*The npm environment's inductive invariant* adds to the checked ones who a staging
directory and a container belong to (`OwnersHere`), that the tree stays the call's own
from its creation to its move and its container has ended when it is checked
(`TreeOwn`), that a call publishes an output of its own place (`BuiltHere`), what stands
at that output's path at each stage (`OutputStands`), and that a call without an answer
has none yet (`AnswersOnce`).  `TreePrivate` follows from these: a container of another
call that could still write is excluded because staging bears one maker's name only.
In the refinement the publication is a `Commit`, the quarantine a `Retire` of something
lost, and the answer of a cache hit or a verified collision an `Answer`.

*The streaming run's inductive invariant* adds to the checked properties that the supervisor
is started once and first (`SupervisorStarted`); that it cleans up only after it has started
to under the lock, and the coordinator only after it has cancelled it before that
(`CleaningOwned`); that whatever stopped the client is remembered as an interruption, a
reader's failure or what the supervisor tells (`DisturbanceKnown`); that a result is settled
only with the outcome of a supervisor that has ended, or with the report that it has not
(`ResultSettled`); and that once a removal was attempted the container is removed, known to
be there, or about to be removed by one of the two threads (`RemovalUnderWay`).

*The launch's inductive invariant* has a part for each component.  For the cache root and the
namespace (`StateInv`), for each command: where it stands in the list it walks and that attempts are
left (`Walking`), that what it has inspected is not unsafe (`Seen`), and that what it has passed is private to
the user (`Secured`); no step of another command undoes these, since a private entry is
never replaced.  `LateSettled` says that a late user never meets a race.  For the projection (`Handle`):
which of the projection and its temporary stand at each step of the launcher.  For the Pi home
(`InstallInv`): the stages of one installer (`Shape`), and, for any one version the containers agree
on, that a file neither of that version nor of the one left before is open in
somebody's hand, and that a package whose metadata was touched is being unpacked or
complete (`Orderly`).  That is why extraction without a lock ends well: who finds the metadata of
the right version skips a package that another container completes, unless that one is
killed or fails, which `upset = 0` excludes; members may come in any order.

*The handover's inductive invariant* says that each command's projection is what the inventory
it read resolves to (`ResolvedInv`), that the launch's mounts are of its selection and complete
when it publishes (`MountsInv`), what the dry run knew (`DryInv`), and that a started container
has nothing outdated (`StartedInv`).  `Accepted` then rests on lemmas about the data alone: a
resolution of an admitted, portable inventory is readable by the container, and each of its
entries is the package and version its archive contains.

*Live delivery's inductive invariant* has two parts. For any sink: as long as delivery has
not failed, the accepted chunks are those received, the one in hand and those before the
sentinel, in this order (`Accounted`), and the dispatcher goes on to the sentinel
(`GoingOn`); a failure is noted and told (`Told`). For a sink that has kept its contract so
far nothing has failed (`Undisturbed`), since the calls still to come fit into the drain
budget (`WithinBudget`), which is why the drain can never give up on it.

*No loss is silent* (`Complete`, beside that invariant).  Unless a truncation was noted, what
was emitted of a stream is the text of its accepted chunks and of those its reader still has
to submit, in this order (`NothingLost`).  `finish` starts when both readers are over
(`ReadersOver`), so nothing is left to submit, and a note that was taken is returned
(`ReturnTells`).  `AllReceived` then gives from the dispatcher's invariant that the accepted
chunks were received.  What concatenation does with an appended chunk are lemmas of their own
(`FlattenConcat`, `TextOfAppend`).

*Cut and whole redaction* (`AllProgress`).  After `k` letters of a stream its redactor has
shown a beginning of the whole's redaction and keeps a piece that begins where that goes on
(`Follows`): the whole's redaction is what was shown, followed by the redaction from the start
of that piece.  One call of `_feed_text` preserves this by three lemmas about any part of a text.
`OpenSplit`: while the stream goes on, a match is committed only if the longest secret would
fit before the end of the part, so the longest that stands there in the whole is already
seen (`SameHit`), and without a match all but the last `Longest - 1` letters can be shown,
because no secret begins in them (`NoneRedacts`).  `CleanSplit`: at the end of the stream the rest
is the end of the whole.  `AbortedSplit`: a failed read may stop within a secret; if a shorter one
stands at its start, that one is shown as a marker, and nothing but one more marker may
follow.  The hypothesis of `CuttingIsInvisible`, that no secret stands strictly inside another
(`NotInside`), is needed twice: before the first match in a part no secret begins that goes on
behind the part (`BeforeFirst`), and none stands behind the start of one that the part cuts
off (`NoneBehind`).  Section 6 shows what happens otherwise.

*Induction over data.*  The prover cannot instantiate an induction theorem that takes an
operator.  So induction is stated about a set (`Induction`: a set of numbers with 0 and every
successor has every number), and follows from the well-foundedness of `<`; each use
defines the set of the numbers for which its claim holds.  A recursive function is a `CHOOSE` among
functions that satisfy its equation, so that one exists has to be shown: `RecursionExists` does
so for any recursion along arguments of falling rank, and `RedactedUnfolds`, `SplitUnfolds` and
`FlattenUnfolds` apply it.  `AlongMatches` is the induction of the three lemmas above, from a
position to the one behind the match at it.

*Markers of the build.* `SuccessIsClean` and `RetainedForTTL` need two more invariants.
`CleanInv`: from the commit on the manifest is the selection; what the loop over markers has
dealt with has none, and what the collection has dealt with is gone. `MarkerInv`: the marker
of a valid, undamaged blob never dates from before the blob's publication, and an undamaged
marker without its blob is there only until maintenance, which every build runs first, has
come to it, so that no later publication inherits an old date. Then a step that makes a blob
disappear can only be one of those `RetainedForTTL` lists.

*Update checks* (`CheckInv`).  What a session has as a result is sound for the entry as it stood
in the inventory it loaded (`SoundFor`: an outdated result names an eligible, complete
candidate that is not lower, with the assets found for it).  As long as nobody edits, that is
also the inventory of the second read.  Both properties of the blocks then follow from
lemmas about one fragment.  For the age of answers (`AgeInv`), the two halves of every
cached file are of one tick if it parses, although two sessions write into it, and a failure
is dated no later than the last outage.

*Doctors* (`DoctorInv`).  A doctor past its probe has a gateway, a draft has that address, the
settings of the companion if nobody edited, and a table spelled as the companion's (plain
in, plain out); who judges with a gateway has saved one.  Unless a repair was struck, between
copy, reload and restart the override is on disk, then read, then in effect, and while nobody
repairs all three agree, which is what makes "matching" a reason for success.  The command line adds
only (`CliInv`) that a success in gateway mode has left an address, which no step forgets.  Its
steps are steps of the components (`StepsOfChecks`, `StepsOfDoctors`), so each component's invariant is
proved over its own steps alone.

Each of these invariants was checked by TLC on the run of its module before it was proved.

A run that repeats what a theorem says for every instance shows little: `TypeOK`,
`SingleActiveBuild`, `OneSnapshot`, `IdentityExclusive`, `ValidBlobKept`, `LockExclusive`,
`CommittedKept` and `BlocksNeverLower` hold by their theorems and stand in no configuration.

*Only model-checked*: the liveness properties `BuildEnds`, `LaunchEnds`, `CallEnds`, `RunEnds`
and `OutputEnds`; fairness and `ENABLED` are out of the prover's reach.
Every other property of a passing run has its theorem.

## 6. Findings

1. *A successful launch mounts a path that is gone* (`CacheInterrupted`).  An entry is
   visible before its publisher has revalidated it, and an interrupt or read error
   of that revalidation removes it again (`artifact_cache.py:678`).  A launch that took it
   on the fast path in between has already succeeded, against
   `openspec/specs/project-launcher/spec.md:187`.

2. *Staging that no call can remove* (`NpmSealedStaging`).  The tree loses its write bits
   (`validation.py:337`) before it is moved (`publication.py:289`).  Interrupted in
   between, neither the call's clean-up nor the removal at the start of a later call can
   unlink its entries, since `_remove_entry` (`storage.py:350`) does not restore the bits
   as `_make_writable` does.  Every later call of the same inputs raises, where the comment
   at `publication.py:613` announces the secure replacement of abandoned staging.

3. *A doctor that succeeds and leaves a companion nobody reads* (`ConstructorCompanion`).
   The line scanner of `_persist_host_access_address` (`build_orchestration.py:1011-1046`)
   does not know an inline table, a dotted key or a quoted header and appends a second
   `[host-access]`; and a probe that names no address makes the literal `host-gateway` the
   address (`networking.py:98-106`), which other commands refuse
   (`inventory.py:1213`).  Both end in success, where `launcher.py:679` sends the user to
   the doctor.  `DoctorSettles` is what remains: it holds when neither is the case.

Five counterexamples have a definition but no run, since they were met once and are
explained in a paragraph.  The last three are the cases a property of `ConstructorCommands`
excepts; TLC finds each under the constants of `ConstructorCompanion.cfg`, with the
definition in the place of `DoctorSuffices` and what else is said there:

- `MaintenanceCollectsExpired` (`BuildTransaction`).  A blob is renamed into place before
  its marker is written (`build_materialization.py:141`), and maintenance looks at markers
  only.  A process stopped in between leaves a verified blob that no maintenance removes,
  while `openspec/specs/build-artifact-materialization/spec.md:139-140` asks for its
  removal after its retention.  A crash between the commit and the collection strands the
  superseded blobs the same way.
- `DeadlineUnblocks` (`StreamingRun`, under `KillSpec`).  The deadline's clean-up closes the
  pipes last, to give blocked readers their end of file (`execution.py:506-509`,
  `549-555`).  A reader inside `BufferedReader.read` holds the lock that `close()` needs, so
  while a descendant of the killed client keeps the write end, the close waits for the
  read and the read for the descendant (`execution.py:628`).
- `RepairTakesEffect` (`Doctor`; `SuccessIsRepaired` excepts what `struck` records).  Once the
  override is copied (`networking.py:540`), a failure or a stop before the restart leaves a
  file whose content alone makes `plan_rootless_override` (`networking.py:459`) answer
  "matching".  Every later `doctor --apply-rootless-override` that finds a candidate
  answering skips the repair and ends in success (`build_orchestration.py:1304`), with a
  daemon that runs without it, against `openspec/specs/build-networking/spec.md:54-58`.
- `BlocksFitTheFile` (`UpdateCheck`, with `Documents <- DocumentsByHand` and no prerelease;
  `BlocksReload` and `BlocksNeverLower` except sessions during which the inventory was edited).
  `_handle_check_updates` renders the blocks from a second read of the inventory
  (`readonly_service.py:288`).  The user who raises rust by hand while the network is asked
  gets a block with the candidate's version and the manifest of his own:
  `_repoint_rust_manifest` (`updates.py:354`) looks for the version of the first read.  The
  loader refuses such a block (`inventory.py:1420`), against
  `openspec/specs/docker-build-reproducibility/spec.md:320`.
- `EditsSurvive` (`Doctor`; `SettingsKept` excepts what `crossed` records).  Between the read of
  the companion (`build_orchestration.py:1017`) and the rename over it (`:1060`) there is
  neither a lock nor a second look, so what the user saves meanwhile is lost, against the
  docstring at `:979` and `openspec/specs/build-networking/spec.md:72`.

Observations made while modelling, which no run repeats:

- *Build and cache.*  `maintain_uncommitted_blobs` (`build_cache.py:1097`) promises the removal
  of partial state and does not look below `tmp/`, where a killed download left its file.
- *Npm environment.*  A read error of `verify_output` (`publication.py:425`) is an answer like
  corruption, so a call that collides with a valid output moves it away; `misread` marks it
  in `CommittedKept`.  The container's name (`execution.py:1098`) does not depend on the cache
  root while the lock does, so two calls below different roots meet in `docker run --name`
  and in `docker rm -f` (`NameTaken`, `ContainerGone`).
- *Streaming.*  With one secret strictly inside another the cut output differs from the whole:
  secrets `b` and `abc`, pieces `ab` and `c`, show `a` and a marker where `redact_text` shows one
  marker only, since what precedes a complete inner match is emitted (`streaming.py:188-196`).
  `tests/test_npm_environment_streaming.py:296` expects equality.  `CuttingIsAlwaysInvisible`
  states it; `CuttingIsInvisible` excepts such secrets.
- *Project state.*  A first user that finds a directory made in between fails with a
  configuration error (`cache_storage.py:268`); a namespace whose maker died before the link
  of `project.json` is refused for ever (`openspec/specs/user-cache-storage/spec.md:65`); an
  interrupt between `mkstemp` and `link` leaves a `.atomic.*.tmp` file.
- *Installer.*  The pre-check reads `package.json` alone: a package whose metadata was
  extracted before its other files counts as installed after a kill (`SkipsOnlyInstalled`
  states the docstring of `install_extensions`, and the code does not keep it); a torn
  `package.json` makes every later launch fail; files that a newer version dropped stay.
- *Update checks.*  Of two concurrent checks the second rename of the shared temporary fails
  and its target is reported unavailable; an answer 503 made of a connection error is
  cached as long as any other, without a `ttl` for ever (`README.en.md:269` advises to retry
  later); the target `pi` is always skipped; a rustup digest is suggested under a key its block
  does not have.
- *Doctor and command line.*  `build` without a terminal and without `--yes` ends with exit 0,
  cancelled; `run --override PATH=VALUE` always fails, because `constructor_cli.py:1969` makes
  a mapping where `:807-818` expects strings with `=`
  (`openspec/specs/docker-runtime/spec.md:25-31`).
- *Handover.*  The host admits a metadata path `./x` or one with a backslash, a package in
  upper case and a non-canonical base64 integrity, and the container refuses them; two
  spellings of one digest pass a dry run and are refused by the launch as an aliased mount; a
  workspace path with a comma breaks `--mount`.

## 7. What is abstracted or left out

- A crash is the death of a process.  The code calls `fsync` before its renames; what
  a power failure may reorder is not modelled.
- Damage replaces or removes a directory entry.  Writing into a file that is already
  linked into a snapshot would reach the snapshot as well.
- An asynchronous interrupt is modelled between operations, and inside the operations
  where the code's handlers make a difference.  The window between the return of a
  call and the assignment of its result (a `materialize-*` directory that is made but
  not yet remembered) is left out.
- Unlinking the temporary of a failed download is assumed to succeed, as is releasing
  a lock.
- `_materialize_pi_for_build` is one step of the build that succeeds or fails; its own
  cache is not modelled.
- Names are finite: `mkdtemp` picks a free one of `SnapName`.
- The descriptor-relative, no-follow checks of every path component end in an error of
  the operation; that error is there, its many causes are not.
- An npm container that was started is removed or ends; the daemon itself does not fail.
  `.tmp-*` and `.corrupt-*` directories are never looked at again, so only the former are
  variables.
- `sealed` is one bit per place: an interrupt in the middle of the sealing counts as sealed.
- In `StreamingRun` errors of `close()` and of sending a signal are left out, as are a run
  without a deadline and an interrupt of the caller's own clean-up; the output's redaction
  and its sink are in `LiveOutput`, which in turn has no process and no deadline.  A client creates its container only while it runs; a request that
  is under way when it dies is not modelled.
- `Redaction` works on letters: bytes, their incremental decoding and a letter cut in two are
  left out.
- The clock of `MetadataCache` does not advance within a write; the memory tier never answers
  within a check, which asks for each key once.
- Versions are numbered in their order; the parsing of provider answers, semantic versions,
  constraints and platform names are abstracted to `Classified` and its inputs.
- In `Launch` the Pi home, names and state are shared, the artifact cache is what
  `ArtifactStore` promises; in `Handover` one launch is alone with its data.
- `BuildTransaction`, `ArtifactCache` and `NpmEnvironment` are entered by commands that `Launch`
  and `Constructor` follow up to that point; the modules are not composed into one, because
  each would multiply the other's state without sharing a variable beyond what its abstract
  specification says.
- Not modelled: the npm identity, lockfile and run vector with the range matcher
  (`lockfile.py`, `semver_range.py`: recursive parsing without state), the Pi acquisition
  pipeline (sequential steps over the modelled npm environment), evidence and verification
  documents, preflight and smoke (one docker call each), the terminal interface, and the
  scripts that run once at image build.
- Hazards without a property are listed in `PROJECT.json` with the reason.
