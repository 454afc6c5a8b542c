------------------------------- MODULE Launch -------------------------------
(***************************************************************************)
(* One launch from the command to the container's command:                 *)
(*   docker/launcher.py              orchestrate_run                       *)
(*   docker/versioning/effective.py  create_runtime_projection             *)
(*   docker/entrypoint.sh            what the container does first         *)
(* A launch resolves the project's state (ProjectState), materializes its  *)
(* artifacts (ArtifactCache, here only what it promises), publishes a      *)
(* private projection, takes the lowest free name pi-N and waits for       *)
(* docker run, whose container installs the extensions (RuntimeInstaller)  *)
(* before it starts its command.  Launches of one user share the state     *)
(* directories, the names and the Pi home.                                 *)
(***************************************************************************)
EXTENDS ProjectState, RuntimeInstaller, FiniteSets

VARIABLES
    scratch,     \* per launch: its .atomic.*.tmp file
    projection,  \* per launch: its published projection
    name,        \* per launch: the N of pi-N it chose
    running,     \* per launch: its container exists
    failing      \* per launch: an error is on its way out of the with block

launchVars == <<scratch, projection, name, running, failing>>
vars == <<stateVars, installVars, launchVars>>

ASSUME LaunchAssumption == Container = User /\ IsFiniteSet(User)

Ended == {"failed", "interrupted", "killed", "printed", "launched"}
Launching == {"resolved", "scratch", "fill", "promote", "tidy", "name", "run",
              "attached", "cleanup"}

(* Every variable has its type. *)
TypeOK ==
    /\ StateTypeOK /\ InstallTypeOK
    /\ pc \in [User -> {"idle"} \cup Resolving \cup Launching \cup Ended]
    /\ scratch \in [User -> {"none", "private", "readable"}]
    /\ projection \in [User -> {"none", "private", "readable"}]
    /\ name \in [User -> 0..Cardinality(User) + 1]
    /\ running \in [User -> BOOLEAN]
    /\ failing \in [User -> BOOLEAN]

LaunchInit ==
    /\ scratch = [u \in User |-> "none"]
    /\ projection = [u \in User |-> "none"]
    /\ name = [u \in User |-> 0]
    /\ running = [u \in User |-> FALSE]
    /\ failing = [u \in User |-> FALSE]

-----------------------------------------------------------------------------
Only(u, stage1, stage2) == pc[u] = stage1 /\ Goto(u, stage2)
StateSame == UNCHANGED <<at, create, attempt, cause, late, diskVars, faults>>

(* Inventory, local settings, host access and overrides are validated      *)
(* before anything is created: an invalid request ends here.               *)
RejectRequest(u) ==
    /\ Only(u, "idle", "failed")
    /\ StateSame /\ UNCHANGED <<installVars, launchVars>>

(* A dry run prints what it would do. *)
PrintPlan(u) ==
    /\ ~create[u] /\ Only(u, "resolved", "printed")
    /\ StateSame /\ UNCHANGED <<installVars, launchVars>>

(* materialize_selected_artifacts: when it succeeds, the selected artifact *)
(* was verified, and repaired when it was damaged.                         *)
Materialize(u) ==
    /\ create[u] /\ Only(u, "resolved", "scratch")
    /\ damaged' = damaged \ {wanted[u]}
    /\ StateSame /\ UNCHANGED <<installerVars, home, alien, upset, launchVars>>

(* create_runtime_projection: a temporary beside the destination, written  *)
(* and made readable, then linked under a name of its own, then unlinked.  *)
CreateScratch(u) ==
    /\ Only(u, "scratch", "fill")
    /\ scratch' = [scratch EXCEPT ![u] = "private"]
    /\ StateSame /\ UNCHANGED <<installVars, projection, name, running, failing>>

WriteScratch(u) ==
    /\ Only(u, "fill", "promote")
    /\ scratch' = [scratch EXCEPT ![u] = "readable"]
    /\ StateSame /\ UNCHANGED <<installVars, projection, name, running, failing>>

LinkProjection(u) ==
    /\ Only(u, "promote", "tidy")
    /\ projection' = [projection EXCEPT ![u] = scratch[u]]
    /\ StateSame /\ UNCHANGED <<installVars, scratch, name, running, failing>>

UnlinkScratch(u) ==
    /\ Only(u, "tidy", "name")
    /\ scratch' = [scratch EXCEPT ![u] = "none"]
    /\ StateSame /\ UNCHANGED <<installVars, projection, name, running, failing>>

(* allocate_pi_name: the lowest N no container has at this moment.         *)
Taken == {name[u] : u \in {v \in User : running[v]}}

AllocateName(u) ==
    /\ Only(u, "name", "run")
    /\ name' = [name EXCEPT ![u] =
                   CHOOSE n \in 1..Cardinality(User) + 1 :
                       n \notin Taken /\ \A m \in 1..n - 1 : m \in Taken]
    /\ StateSame /\ UNCHANGED <<installVars, scratch, projection, running, failing>>

(* Mutant: a launch that lost its name returns past the handle.            *)
DockerRunLosing(u) ==
    /\ pc[u] = "run"
    /\ IF name[u] \in Taken
         THEN Goto(u, "failed") /\ UNCHANGED <<running, failing, installVars>>
         ELSE /\ Goto(u, "attached")
              /\ running' = [running EXCEPT ![u] = TRUE]
              /\ Begin(u) /\ UNCHANGED <<homeVars, upset, failing>>
    /\ StateSame /\ UNCHANGED <<scratch, projection, name>>

(* docker run.  Somebody else's container of that name makes it fail.      *)
DockerRun(u) ==
    /\ pc[u] = "run"
    /\ IF name[u] \in Taken
         THEN /\ Goto(u, "cleanup")
              /\ failing' = [failing EXCEPT ![u] = TRUE]
              /\ UNCHANGED <<running, installVars>>
         ELSE /\ Goto(u, "attached")
              /\ running' = [running EXCEPT ![u] = TRUE]
              /\ Begin(u) /\ UNCHANGED <<homeVars, upset, failing>>
    /\ StateSame /\ UNCHANGED <<scratch, projection, name>>

(* The container ends: the command returned, or the entrypoint refused to  *)
(* start it, or the container was killed.  docker removes it.  Its client, *)
(* if it is still there, hands the exit code to the launcher.              *)
ContainerEnds(u) ==
    /\ running[u] /\ stage[u] \notin Working
    /\ running' = [running EXCEPT ![u] = FALSE]
    /\ IF pc[u] = "attached"
         THEN /\ Goto(u, "cleanup")
              /\ \E code \in IF stage[u] \in {"refused", "killed"} THEN {1} ELSE {0, 1} :
                    failing' = [failing EXCEPT ![u] = code # 0]
         ELSE UNCHANGED <<pc, failing>>
    /\ StateSame /\ UNCHANGED <<installVars, scratch, projection, name>>

(* RuntimeProjectionHandle.__exit__ unlinks the projection on every path.  *)
Cleanup(u) ==
    /\ Only(u, "cleanup", IF failing[u] THEN "failed" ELSE "launched")
    /\ projection' = [projection EXCEPT ![u] = "none"]
    /\ StateSame /\ UNCHANGED <<installVars, scratch, name, running, failing>>

-----------------------------------------------------------------------------
Fault == faults < MaxFaults /\ faults' = faults + 1

(* A call before docker fails: materialization, the projection, docker ps. *)
StepFails(u) ==
    /\ Fault /\ pc[u] \in Launching \ {"attached", "cleanup", "tidy"} /\ create[u]
    /\ Goto(u, IF projection[u] = "none" THEN "failed" ELSE "cleanup")
    /\ scratch' = [scratch EXCEPT ![u] = "none"]
    /\ failing' = [failing EXCEPT ![u] = TRUE]
    /\ UNCHANGED <<at, create, attempt, cause, late, diskVars, installVars,
                   projection, name, running>>

(* Ctrl-C.  While the temporary is written only ordinary exceptions are    *)
(* cleaned up after; once the handle exists its exit runs for every        *)
(* exception.  The container is not stopped.                               *)
Interrupt(u) ==
    /\ Fault /\ pc[u] \in Launching \ {"cleanup"} /\ create[u]
    /\ Goto(u, "interrupted")
    /\ projection' = [projection EXCEPT ![u] =
                         IF pc[u] \in {"name", "run", "attached"} THEN "none" ELSE @]
    /\ scratch' = [scratch EXCEPT ![u] = IF pc[u] \in {"promote", "tidy"} THEN "none" ELSE @]
    /\ UNCHANGED <<at, create, attempt, cause, late, diskVars, installVars,
                   name, running, failing>>

KillLauncher(u) ==
    /\ Fault /\ pc[u] \in Launching
    /\ Goto(u, "killed")
    /\ UNCHANGED <<at, create, attempt, cause, late, diskVars, installVars, launchVars>>

LauncherStep(u) ==
    \/ RejectRequest(u) \/ PrintPlan(u) \/ Materialize(u)
    \/ CreateScratch(u) \/ WriteScratch(u) \/ LinkProjection(u) \/ UnlinkScratch(u)
    \/ AllocateName(u) \/ DockerRun(u) \/ Cleanup(u)
    \/ StepFails(u) \/ Interrupt(u) \/ KillLauncher(u)

ContainerStep(u) ==
    /\ running[u]
    /\ InstallerStep(u) \/ PlanAgain(u) \/ UnpackFails(u) \/ KillContainer(u)
    /\ UNCHANGED <<stateVars, launchVars>>

Environment ==
    /\ \E v \in Version : DamageArtifact(v)
    /\ UNCHANGED <<stateVars, launchVars>>

Init == StateInit /\ InstallInit /\ LaunchInit

Next ==
    \/ \E u \in User :
          \/ Resolve(u) /\ UNCHANGED <<installVars, launchVars>>
          \/ LauncherStep(u) \/ ContainerEnds(u) \/ ContainerStep(u)
    \/ Environment

Spec == Init /\ [][Next]_vars

-----------------------------------------------------------------------------
(* The launcher removes its private projection after docker exits or the   *)
(* launch fails, on every path that is not a kill or an interrupt, and     *)
(* never before its container is done with it.                             *)
ProjectionRemoved ==
    \A u \in User :
        /\ pc[u] \in {"failed", "launched"} => projection[u] = "none" /\ scratch[u] = "none"
        /\ running[u] /\ pc[u] = "attached" => projection[u] = "readable"
=============================================================================
