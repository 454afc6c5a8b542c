---------------------------- MODULE NpmEnvironment ----------------------------
(***************************************************************************)
(* The assembly and publication of locked npm environments:                *)
(*   docker/npm_environment/publication.py  assemble_environment,          *)
(*                                          publish_environment            *)
(*   docker/npm_environment/execution.py    assemble                       *)
(*   docker/npm_environment/storage.py      the private directories        *)
(*   docker/npm_environment/validation.py   the tree's check and sealing   *)
(* A process is one call of assemble_environment.  It holds the flock of   *)
(* its input identity while it looks up, assembles in a staging directory  *)
(* that a named container fills, and publishes under the output identity.  *)
(* A step is one effect on the file system or the docker daemon.           *)
(***************************************************************************)
EXTENDS Naturals

CONSTANTS
    Call,       \* calls of assemble_environment
    Place,      \* input identities below the cache roots in use
    At,         \* per call: the place it assembles
    Output,     \* output identities, each the path of one environment
    PlaceOf,    \* per output: the place it belongs to
    Name,       \* container names
    NameOf,     \* per place: a name made of the input identity alone
    NoCall, NoOutput,
    MaxFaults   \* bound on crashes, outside damage and read errors

ASSUME ConstantsAssumption ==
    /\ At \in [Call -> Place]
    /\ PlaceOf \in [Output -> Place]
    /\ NameOf \in [Place -> Name]
    /\ NoCall \notin Call
    /\ NoOutput \notin Output
    /\ MaxFaults \in Nat

VARIABLES
    pc,         \* where each call is
    built,      \* per call: the output identity of its tree
    returned,   \* per call: the environment it answers with
    lock,       \* holder of the flock of each place
    namespace,  \* places whose private directories exist
    staging,    \* the call that made each place's staging directory
    sealed,     \* places whose staging tree has lost its write bits
    container,  \* the call whose container has each name
    output,     \* what stands at outputs/<output identity>
    index,      \* outputs the indexes of their places refer to
    tmp,        \* calls whose .tmp-* directory exists
    damaged,    \* history: outputs damaged from outside since publication
    misread,    \* history: valid outputs taken for corrupt
    struck,     \* history: calls an error or an interrupt has struck
    unclean,    \* history: calls that could not remove their staging
    unremoved,  \* history: calls that could not remove their container
    faults      \* faults so far

locals == <<built, returned>>
stagingVars == <<staging, sealed, unclean>>
containerVars == <<container, unremoved>>
storeVars == <<output, index, tmp>>
history == <<damaged, misread, struck, faults>>
shared == <<lock, namespace, stagingVars, containerVars, storeVars>>
vars == <<pc, locals, shared, history>>

(* The stages under the lock: those with a tree that is being checked and  *)
(* published, those with a staging directory, and the rest.                *)
Publishing == {"validate", "seal", "publish", "collide", "quarantine"}
Staged == {"launch", "running", "remove", "heal", "redundant", "drop"}
             \cup Publishing
Locked == {"lookup", "replace", "create", "moved", "index", "untmp", "release"}
             \cup Staged
Active == {"mkdir", "lock"} \cup Locked
Ended == {"done", "failed", "killed"}

(* Every variable has its type. *)
TypeOK ==
    /\ pc \in [Call -> {"idle"} \cup Active \cup Ended]
    /\ built \in [Call -> Output \cup {NoOutput}]
    /\ returned \in [Call -> Output \cup {NoOutput}]
    /\ lock \in [Place -> Call \cup {NoCall}]
    /\ namespace \in SUBSET Place
    /\ staging \in [Place -> Call \cup {NoCall}]
    /\ sealed \in SUBSET Place
    /\ container \in [Name -> Call \cup {NoCall}]
    /\ output \in [Output -> {"absent", "valid", "corrupt"}]
    /\ index \in SUBSET Output
    /\ tmp \in SUBSET Call
    /\ damaged \in SUBSET Output
    /\ misread \in SUBSET Output
    /\ struck \in SUBSET Call
    /\ unclean \in SUBSET Call
    /\ unremoved \in SUBSET Call
    /\ faults \in Nat

(* Earlier calls and outsiders may have left any outputs and any index.    *)
Init ==
    /\ pc = [p \in Call |-> "idle"]
    /\ built = [p \in Call |-> NoOutput]
    /\ returned = [p \in Call |-> NoOutput]
    /\ lock = [l \in Place |-> NoCall]
    /\ namespace \in SUBSET Place
    /\ staging = [l \in Place |-> NoCall]
    /\ sealed = {}
    /\ container = [n \in Name |-> NoCall]
    /\ output \in [Output -> {"absent", "valid", "corrupt"}]
    /\ index \in SUBSET Output
    /\ \A o \in Output :
         output[o] # "absent" \/ o \in index => PlaceOf[o] \in namespace
    /\ tmp = {}
    /\ damaged = {} /\ misread = {}
    /\ struck = {} /\ unclean = {} /\ unremoved = {}
    /\ faults = 0

-----------------------------------------------------------------------------

Go(p, from, to) ==
    /\ pc[p] = from
    /\ pc' = [pc EXCEPT ![p] = to]

(* An error or interrupt of call p. *)
Strike(p, from, to) ==
    /\ pc[p] \in from
    /\ pc' = [pc EXCEPT ![p] = to]
    /\ struck' = struck \cup {p}
    /\ UNCHANGED <<damaged, misread, faults>>

Fault ==
    /\ faults < MaxFaults
    /\ faults' = faults + 1

(* verify_output: tree, manifest, evidence and identities all agree. *)
Verified(o) == output[o] = "valid"

(* read_index, for the place of call p. *)
Indexed(p) == {o \in index : PlaceOf[o] = At[p]}

(* _remove_entry unlinks what it finds: a directory without write bits     *)
(* keeps its entries.                                                      *)
Removable(l) == l \notin sealed

(* Somebody's container still writes in the staging directory of l. *)
Busy(l) == staging[l] # NoCall /\ container[NameOf[l]] = staging[l]

PutStaging(l, p) == staging' = [staging EXCEPT ![l] = p]

-----------------------------------------------------------------------------
(* prepare_assembler_namespace and the lock. *)

(* _create_or_open_child looks for the directories, then creates them.     *)
FindNamespace(p) ==
    /\ pc[p] = "idle"
    /\ pc' = [pc EXCEPT ![p] = IF At[p] \in namespace THEN "lock" ELSE "mkdir"]
    /\ UNCHANGED <<locals, shared, history>>

CreateNamespace(p) ==
    /\ At[p] \notin namespace
    /\ Go(p, "mkdir", "lock")
    /\ namespace' = namespace \cup {At[p]}
    /\ UNCHANGED <<locals, lock, stagingVars, containerVars, storeVars,
                   history>>

(* Another first call has created it meanwhile: mkdir raises. *)
NamespaceExists(p) ==
    /\ At[p] \in namespace
    /\ Go(p, "mkdir", "failed")
    /\ UNCHANGED <<locals, shared, history>>

(* Mutant: the lock does not exclude. *)
AcquireShared(p) ==
    /\ Go(p, "lock", "lookup")
    /\ lock' = [lock EXCEPT ![At[p]] = p]
    /\ UNCHANGED <<locals, namespace, stagingVars, containerVars, storeVars,
                   history>>

AcquireLock(p) ==
    /\ Go(p, "lock", "lookup")
    /\ lock[At[p]] = NoCall
    /\ lock' = [lock EXCEPT ![At[p]] = p]
    /\ UNCHANGED <<locals, namespace, stagingVars, containerVars, storeVars,
                   history>>

(* Mutant: an interrupted call keeps the lock file locked. *)
ReleaseAnswered(p) ==
    /\ pc[p] = "release"
    /\ pc' = [pc EXCEPT ![p] =
                 IF returned[p] \in Output THEN "done" ELSE "failed"]
    /\ lock' = [lock EXCEPT ![At[p]] =
                   IF returned[p] \in Output THEN NoCall ELSE @]
    /\ UNCHANGED <<locals, namespace, stagingVars, containerVars, storeVars,
                   history>>

ReleaseLock(p) ==
    /\ pc[p] = "release"
    /\ pc' = [pc EXCEPT ![p] =
                 IF returned[p] \in Output THEN "done" ELSE "failed"]
    /\ lock' = [lock EXCEPT ![At[p]] = NoCall]
    /\ UNCHANGED <<locals, namespace, stagingVars, containerVars, storeVars,
                   history>>

-----------------------------------------------------------------------------
(* find_cached_result. *)

(* Mutant: an indexed output is returned without verification. *)
HitUnverified(p) ==
    /\ Go(p, "lookup", "release")
    /\ \E o \in Indexed(p) : returned' = [returned EXCEPT ![p] = o]
    /\ UNCHANGED <<built, shared, history>>

CacheHit(p) ==
    /\ Go(p, "lookup", "release")
    /\ \E o \in Indexed(p) :
         /\ Verified(o)
         /\ returned' = [returned EXCEPT ![p] = o]
    /\ UNCHANGED <<built, shared, history>>

(* Mutant: the first output that does not verify ends the search.          *)
MissAtCorrupt(p) ==
    /\ Go(p, "lookup", "replace")
    /\ Indexed(p) = {} \/ \E o \in Indexed(p) : ~Verified(o)
    /\ UNCHANGED <<locals, shared, history>>

CacheMiss(p) ==
    /\ Go(p, "lookup", "replace")
    /\ \A o \in Indexed(p) : ~Verified(o)
    /\ UNCHANGED <<locals, shared, history>>

(* An OSError while a candidate is read counts as a miss. *)
MisreadLookup(p) ==
    /\ Strike(p, {"lookup"}, "replace")
    /\ UNCHANGED <<locals, shared>>

-----------------------------------------------------------------------------
(* assemble: staging and container. *)

(* Staging that an earlier call has left is removed under the lock. *)
RemoveAbandoned(p) ==
    /\ Go(p, "replace", "create")
    /\ Removable(At[p])
    /\ PutStaging(At[p], NoCall)
    /\ UNCHANGED <<locals, lock, namespace, sealed, unclean, containerVars,
                   storeVars, history>>

(* A sealed tree cannot be removed; the error ends the call. *)
AbandonedSealed(p) ==
    /\ Go(p, "replace", "release")
    /\ ~Removable(At[p])
    /\ UNCHANGED <<locals, shared, history>>

(* A container that outlived its call adds files during the removal. *)
AbandonedBusy(p) ==
    /\ Busy(At[p])
    /\ Strike(p, {"replace"}, "release")
    /\ UNCHANGED <<locals, shared>>

CreateStaging(p) ==
    /\ Go(p, "create", "launch")
    /\ staging[At[p]] = NoCall
    /\ PutStaging(At[p], p)
    /\ UNCHANGED <<locals, lock, namespace, sealed, unclean, containerVars,
                   storeVars, history>>

StartContainer(p) ==
    /\ Go(p, "launch", "running")
    /\ container[NameOf[At[p]]] = NoCall
    /\ container' = [container EXCEPT ![NameOf[At[p]]] = p]
    /\ UNCHANGED <<locals, lock, namespace, stagingVars, unremoved, storeVars,
                   history>>

(* docker refuses a second container of the name. *)
NameTaken(p) ==
    /\ container[NameOf[At[p]]] # NoCall
    /\ Strike(p, {"launch"}, "remove")
    /\ UNCHANGED <<locals, shared>>

(* The same inputs may give different bytes, so different outputs. *)
ContainerSucceeds(p) ==
    /\ Go(p, "running", "validate")
    /\ container[NameOf[At[p]]] = p
    /\ container' = [container EXCEPT ![NameOf[At[p]]] = NoCall]
    /\ \E o \in Output :
         /\ PlaceOf[o] = At[p]
         /\ built' = [built EXCEPT ![p] = o]
    /\ UNCHANGED <<returned, lock, namespace, stagingVars, unremoved,
                   storeVars, history>>

(* npm fails; --rm takes the container away. *)
ContainerFails(p) ==
    /\ container[NameOf[At[p]]] = p
    /\ Strike(p, {"running"}, "remove")
    /\ container' = [container EXCEPT ![NameOf[At[p]]] = NoCall]
    /\ UNCHANGED <<locals, lock, namespace, stagingVars, unremoved, storeVars>>

(* A call elsewhere has removed the container of this name. *)
ContainerGone(p) ==
    /\ container[NameOf[At[p]]] # p
    /\ Strike(p, {"running"}, "remove")
    /\ UNCHANGED <<locals, shared>>

(* Mutant: the clean-up forgets the container. *)
RemoveNoContainer(p) ==
    /\ Go(p, "remove", "drop")
    /\ UNCHANGED <<locals, shared, history>>

(* docker rm -f removes whatever has the name. *)
RemoveContainer(p) ==
    /\ Go(p, "remove", "drop")
    /\ container' = [container EXCEPT ![NameOf[At[p]]] = NoCall]
    /\ UNCHANGED <<locals, lock, namespace, stagingVars, unremoved, storeVars,
                   history>>

(* Mutant: a failure after the container leaves the staging behind. *)
DropStarted(p) ==
    /\ Go(p, "drop", "release")
    /\ Removable(At[p])
    /\ staging' = [staging EXCEPT ![At[p]] =
                      IF built[p] = NoOutput THEN NoCall ELSE @]
    /\ UNCHANGED <<locals, lock, namespace, sealed, unclean, containerVars,
                   storeVars, history>>

(* _remove_staging_safely *)
DropStaging(p) ==
    /\ Go(p, "drop", "release")
    /\ Removable(At[p])
    /\ PutStaging(At[p], NoCall)
    /\ UNCHANGED <<locals, lock, namespace, sealed, unclean, containerVars,
                   storeVars, history>>

SealedStays(p) ==
    /\ Go(p, "drop", "release")
    /\ ~Removable(At[p])
    /\ unclean' = unclean \cup {p}
    /\ UNCHANGED <<locals, lock, namespace, staging, sealed, containerVars,
                   storeVars, history>>

-----------------------------------------------------------------------------
(* publish_environment. *)

ValidateTree(p) ==
    /\ Go(p, "validate", "seal")
    /\ UNCHANGED <<locals, shared, history>>

(* make_tree_read_only *)
SealTree(p) ==
    /\ Go(p, "seal", "publish")
    /\ sealed' = sealed \cup {At[p]}
    /\ UNCHANGED <<locals, lock, namespace, staging, unclean, containerVars,
                   storeVars, history>>

Collide(p) ==
    /\ Go(p, "publish", "collide")
    /\ output[built[p]] # "absent"
    /\ UNCHANGED <<locals, shared, history>>

(* The tree moves into a temporary directory next to the outputs. *)
MoveTree(p) ==
    /\ Go(p, "publish", "moved")
    /\ output[built[p]] = "absent"
    /\ tmp' = tmp \cup {p}
    /\ PutStaging(At[p], NoCall)
    /\ sealed' = sealed \ {At[p]}
    /\ UNCHANGED <<locals, lock, namespace, unclean, containerVars, output,
                   index, history>>

PublishOutput(p) ==
    /\ Go(p, "moved", "index")
    /\ output' = [output EXCEPT ![built[p]] = "valid"]
    /\ tmp' = tmp \ {p}
    /\ damaged' = damaged \ {built[p]}
    /\ misread' = misread \ {built[p]}
    /\ UNCHANGED <<locals, lock, namespace, stagingVars, containerVars, index,
                   struck, faults>>

(* _append_index, then the answer. *)
AppendIndex(p) ==
    /\ Go(p, "index", "release")
    /\ index' = index \cup {built[p]}
    /\ returned' = [returned EXCEPT ![p] = built[p]]
    /\ UNCHANGED <<built, lock, namespace, stagingVars, containerVars, output,
                   tmp, history>>

VerifiedCollision(p) ==
    /\ Go(p, "collide", "heal")
    /\ Verified(built[p])
    /\ UNCHANGED <<locals, shared, history>>

(* The index of an output that an earlier call could not enter. *)
HealIndex(p) ==
    /\ Go(p, "heal", "redundant")
    /\ index' = index \cup {built[p]}
    /\ UNCHANGED <<locals, lock, namespace, stagingVars, containerVars, output,
                   tmp, history>>

RemoveRedundant(p) ==
    /\ Go(p, "redundant", "release")
    /\ PutStaging(At[p], NoCall)
    /\ sealed' = sealed \ {At[p]}
    /\ returned' = [returned EXCEPT ![p] = built[p]]
    /\ UNCHANGED <<built, lock, namespace, unclean, containerVars, storeVars,
                   history>>

CorruptCollision(p) ==
    /\ Go(p, "collide", "quarantine")
    /\ ~Verified(built[p])
    /\ UNCHANGED <<locals, shared, history>>

(* The corrupt directory is renamed, and the tree published in its place.  *)
QuarantineOutput(p) ==
    /\ Go(p, "quarantine", "publish")
    /\ output[built[p]] # "absent"
    /\ output' = [output EXCEPT ![built[p]] = "absent"]
    /\ UNCHANGED <<locals, lock, namespace, stagingVars, containerVars, index,
                   tmp, history>>

QuarantineNothing(p) ==
    /\ Strike(p, {"quarantine"}, "drop")
    /\ output[built[p]] = "absent"
    /\ UNCHANGED <<locals, shared>>

(* The handler of _atomic_publish removes the temporary directory, as far  *)
(* as it can.                                                              *)
RemoveTmp(p) ==
    /\ Go(p, "untmp", "drop")
    /\ tmp' \in {tmp, tmp \ {p}}
    /\ UNCHANGED <<locals, lock, namespace, stagingVars, containerVars, output,
                   index, history>>

-----------------------------------------------------------------------------
(* Errors, interrupts, crashes. *)

FailUnlocked(p) ==
    /\ Strike(p, {"idle", "mkdir", "lock"}, "failed")
    /\ UNCHANGED <<locals, shared>>

FailLocked(p) ==
    /\ Strike(p, {"lookup", "replace", "create"}, "release")
    /\ UNCHANGED <<locals, shared>>

(* The directory is made, but prepare_staging_workspace fails afterwards:  *)
(* its caller does not know of it.                                         *)
FailCreated(p) ==
    /\ Strike(p, {"create"}, "release")
    /\ staging[At[p]] = NoCall
    /\ PutStaging(At[p], p)
    /\ unclean' = unclean \cup {p}
    /\ UNCHANGED <<locals, lock, namespace, sealed, containerVars, storeVars>>

(* An interrupt, the deadline, an error of the docker client. *)
FailRun(p) ==
    /\ Strike(p, {"launch", "running"}, "remove")
    /\ UNCHANGED <<locals, shared>>

(* The lockfile cannot be written, the tree is not the locked one, ...     *)
FailStaged(p) ==
    /\ Strike(p, {"launch"} \cup Publishing, "drop")
    /\ UNCHANGED <<locals, shared>>

FailMoved(p) ==
    /\ Strike(p, {"moved"}, "untmp")
    /\ UNCHANGED <<locals, shared>>

(* The output stands, but the call ends in an error. *)
FailPublished(p) ==
    /\ Strike(p, {"index", "heal"}, "drop")
    /\ UNCHANGED <<locals, shared>>

(* collision_cleanup_failed, perhaps after _make_writable *)
RedundantStays(p) ==
    /\ Strike(p, {"redundant"}, "drop")
    /\ sealed' \in {sealed, sealed \ {At[p]}}
    /\ UNCHANGED <<locals, lock, namespace, staging, unclean, containerVars,
                   storeVars>>

(* An OSError while the index is written is swallowed. *)
IndexUnwritten(p) ==
    /\ \/ /\ Go(p, "heal", "redundant")
          /\ UNCHANGED returned
       \/ /\ Go(p, "index", "release")
          /\ returned' = [returned EXCEPT ![p] = built[p]]
    /\ UNCHANGED <<built, shared, history>>

RemovalFails(p) ==
    /\ Go(p, "remove", "drop")
    /\ unremoved' = unremoved \cup {p}
    /\ UNCHANGED <<locals, lock, namespace, stagingVars, container, storeVars,
                   history>>

DropFails(p) ==
    /\ Go(p, "drop", "release")
    /\ unclean' = unclean \cup {p}
    /\ UNCHANGED <<locals, lock, namespace, staging, sealed, containerVars,
                   storeVars, history>>

(* A transient OSError of verify_output makes a valid output corrupt. *)
MisreadCollision(p) ==
    /\ Fault
    /\ Go(p, "collide", "quarantine")
    /\ Verified(built[p])
    /\ misread' = misread \cup {built[p]}
    /\ UNCHANGED <<locals, shared, damaged, struck>>

(* The kernel drops the lock; the daemon keeps the container. *)
Crash(p) ==
    /\ Fault
    /\ pc[p] \in Active
    /\ pc' = [pc EXCEPT ![p] = "killed"]
    /\ lock' = [l \in Place |-> IF lock[l] = p THEN NoCall ELSE lock[l]]
    /\ UNCHANGED <<locals, namespace, stagingVars, containerVars, storeVars,
                   damaged, misread, struck>>

(* A container whose call is gone ends by itself. *)
OrphanEnds(n) ==
    /\ container[n] \in Call
    /\ pc[container[n]] # "running"
    /\ container' = [container EXCEPT ![n] = NoCall]
    /\ UNCHANGED <<pc, locals, lock, namespace, stagingVars, unremoved,
                   storeVars, history>>

DamageOutput(o) ==
    /\ Fault
    /\ output[o] = "valid"
    /\ \E bad \in {"absent", "corrupt"} : output' = [output EXCEPT ![o] = bad]
    /\ damaged' = damaged \cup {o}
    /\ UNCHANGED <<pc, locals, lock, namespace, stagingVars, containerVars,
                   index, tmp, misread, struck>>

(* The index is advisory: an unreadable one refers to nothing. *)
DamageIndex(l) ==
    /\ Fault
    /\ index' = {o \in index : PlaceOf[o] # l}
    /\ UNCHANGED <<pc, locals, lock, namespace, stagingVars, containerVars,
                   output, tmp, damaged, misread, struck>>

-----------------------------------------------------------------------------

Proceed(p) ==
    \/ FindNamespace(p) \/ CreateNamespace(p) \/ NamespaceExists(p)
    \/ AcquireLock(p) \/ CacheHit(p) \/ CacheMiss(p)
    \/ RemoveAbandoned(p) \/ AbandonedSealed(p) \/ CreateStaging(p)
    \/ StartContainer(p) \/ NameTaken(p) \/ ContainerSucceeds(p)
    \/ ContainerGone(p) \/ RemoveContainer(p) \/ DropStaging(p)
    \/ SealedStays(p) \/ ValidateTree(p) \/ SealTree(p) \/ Collide(p)
    \/ MoveTree(p) \/ PublishOutput(p) \/ AppendIndex(p)
    \/ VerifiedCollision(p) \/ HealIndex(p) \/ RemoveRedundant(p)
    \/ CorruptCollision(p) \/ QuarantineOutput(p) \/ QuarantineNothing(p)
    \/ RemoveTmp(p) \/ ReleaseLock(p)

Break(p) ==
    \/ MisreadLookup(p) \/ AbandonedBusy(p) \/ ContainerFails(p)
    \/ FailUnlocked(p) \/ FailLocked(p) \/ FailCreated(p) \/ FailRun(p)
    \/ FailStaged(p) \/ FailMoved(p) \/ FailPublished(p) \/ RedundantStays(p)
    \/ IndexUnwritten(p) \/ RemovalFails(p) \/ DropFails(p)
    \/ MisreadCollision(p) \/ Crash(p)

Next ==
    \/ \E p \in Call : Proceed(p) \/ Break(p)
    \/ \E n \in Name : OrphanEnds(n)
    \/ \E o \in Output : DamageOutput(o)
    \/ \E l \in Place : DamageIndex(l)

Spec == Init /\ [][Next]_vars

(* A call keeps running, the assembly deadline ends a silent container,    *)
(* and flock serves its waiters while each call takes it once.             *)
FairSpec == Spec /\ \A p \in Call : WF_vars(Proceed(p))

-----------------------------------------------------------------------------
(* Properties. *)

(* assemble_environment "holds the input-identity coordination lock across *)
(* lookup, assembly, validation, and publication": who works in a place    *)
(* holds its lock, and only the holder works there.                        *)
LockExclusive ==
    \A p \in Call, l \in Place :
        lock[l] = p <=> pc[p] \in Locked /\ At[p] = l

(* What is validated, sealed and published is the call's own tree, and no  *)
(* container, not even one that outlived its call, writes in it any more.  *)
TreePrivate ==
    \A p \in Call :
        pc[p] \in Publishing => staging[At[p]] = p /\ ~Busy(At[p])

(* Calls with the same inputs queue on the lock and look up under it: who  *)
(* assembles has no verified output at hand, not even one that came while  *)
(* it waited, read errors aside.                                           *)
AssemblesOnlyMissing ==
    \A p \in Call :
        pc[p] \in {"replace", "create", "launch", "running"} =>
            p \in struck \/ \A o \in Indexed(p) : ~Verified(o)

(* Mutable staging outlives a call only when the call was killed or could  *)
(* not remove it, and then it tells so.                                    *)
StagingCleaned ==
    \A l \in Place, p \in Call :
        staging[l] = p => pc[p] \in Staged \cup {"killed"} \/ p \in unclean

(* So does the named container. *)
ContainerCleaned ==
    \A n \in Name, p \in Call :
        container[n] = p => \/ pc[p] \in {"running", "remove", "killed"}
                            \/ p \in unremoved

(* A committed environment stays, damage and read errors aside: neither a  *)
(* collision nor any failure takes it away.                                *)
CommittedKept ==
    [][\A o \in Output :
          output[o] = "valid" /\ output'[o] # "valid" =>
             o \in damaged' \cup misread]_vars

(* The calls implement the store of immutable environments. *)
Store == INSTANCE EnvironmentStore
    WITH committed <- {o \in Output : output[o] = "valid"},
         answer <- returned,
         lost <- damaged \cup misread

ImplementsStore == Store!Spec

(* Every call ends. *)
CallEnds == \A p \in Call : pc[p] = "lock" ~> pc[p] \in Ended

(* assemble_environment: "Securely replace any abandoned same-input        *)
(* staging left by a prior interrupted run".                               *)
AbandonedStagingReplaced ==
    [][\A p \in Call :
          pc[p] = "replace" /\ pc'[p] = "release" => p \in struck']_vars

=============================================================================
