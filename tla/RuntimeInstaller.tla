-------------------------- MODULE RuntimeInstaller --------------------------
(***************************************************************************)
(* The installer that the entrypoint of every container runs before the    *)
(* container's command (docker/runtime_installer.py).  It brings the Pi    *)
(* home, a directory of the host that all containers of a user share, to   *)
(* the extension versions of the container's own projection: one package   *)
(* after the other, the files of a package extracted in place from a       *)
(* verified artifact.  There is no lock and no staging, so a step is one   *)
(* read or write of a file of the Pi home.                                 *)
(***************************************************************************)
EXTENDS Naturals, Sequences

CONSTANTS
    Container,
    Packages,      \* the packages of a projection, sorted by name
    File,          \* members of an artifact; "package.json" is the metadata file
    Version,
    NoVersion, NoFile,
    InstallFaults  \* bound on kills, failed calls and damaged artifacts

ASSUME InstallerAssumption ==
    /\ "package.json" \in File
    /\ Packages \in Seq(STRING)
    /\ "torn" \notin Version /\ NoVersion \notin Version \cup {"torn"}
    /\ NoFile \notin File
    /\ InstallFaults \in Nat

VARIABLES
    stage,     \* where each container is
    wanted,    \* per container: the version its projection selects
    dry,       \* per container: this is a dry run
    index,     \* per container: the package it works on
    held,      \* per container: the verified version whose bytes it holds
    writing,   \* per container: the member whose file it has open
    unpacked,  \* per container: members it has extracted
    results,   \* per container: the outcomes so far
    home,      \* per package and file: what stands in the Pi home
    damaged,   \* artifacts whose bytes on the host no longer match
    alien,     \* packages whose metadata file belongs to somebody else
    upset      \* faults so far

installerVars == <<stage, wanted, dry, index, held, writing, unpacked, results>>
homeVars == <<home, damaged, alien>>
installVars == <<installerVars, homeVars, upset>>

Package == {Packages[i] : i \in DOMAIN Packages}
Content == Version \cup {"torn", NoVersion}
Working == {"inspect", "open", "unpack", "check"}

(* Every variable has its type. *)
InstallTypeOK ==
    /\ stage \in [Container -> {"off", "started", "refused", "killed", "planned"} \cup Working]
    /\ wanted \in [Container -> Version]
    /\ dry \in [Container -> BOOLEAN]
    /\ index \in [Container -> 1..Len(Packages) + 1]
    /\ held \in [Container -> Version \cup {NoVersion}]
    /\ writing \in [Container -> File \cup {NoFile}]
    /\ unpacked \in [Container -> SUBSET File]
    /\ results \in [Container -> Seq({"ok", "already_installed", "failed", "planned"})]
    /\ \A c \in Container : Len(results[c]) <= Len(Packages)
    /\ home \in [Package -> [File -> Content]]
    /\ damaged \subseteq Version
    /\ alien \subseteq Package
    /\ upset \in 0..InstallFaults

(* A Pi home that some earlier launch left complete, or an empty one; a    *)
(* metadata file another user owns can be read but not written.            *)
InstallInit ==
    /\ stage = [c \in Container |-> "off"]
    /\ wanted \in [Container -> Version]
    /\ dry = [c \in Container |-> FALSE]
    /\ index = [c \in Container |-> 1]
    /\ held = [c \in Container |-> NoVersion]
    /\ writing = [c \in Container |-> NoFile]
    /\ unpacked = [c \in Container |-> {}]
    /\ results = [c \in Container |-> <<>>]
    /\ \E v \in Version \cup {NoVersion} : home = [p \in Package |-> [f \in File |-> v]]
    /\ alien \in {{}} \cup {{p} : p \in Package}
    /\ damaged = {}
    /\ upset = 0

Become(c, s) == stage' = [stage EXCEPT ![c] = s]
Current(c) == Packages[index[c]]
Metadata(c) == home[Current(c)]["package.json"]
More(c) == index[c] <= Len(Packages)

(* main: an empty projection has nothing to install. *)
Begin(c) ==
    /\ Become(c, "inspect")
    /\ UNCHANGED <<wanted, dry, index, held, writing, unpacked, results>>

(* The outcome of one package.  install_extensions stops at the first      *)
(* failure, and the entrypoint then refuses to start the command.          *)
Record(c, outcome) ==
    /\ results' = [results EXCEPT ![c] = Append(@, outcome)]
    /\ held' = [held EXCEPT ![c] = NoVersion]
    /\ writing' = [writing EXCEPT ![c] = NoFile]
    /\ unpacked' = [unpacked EXCEPT ![c] = {}]
    /\ UNCHANGED <<wanted, dry>>

Succeed(c, outcome) ==
    /\ Record(c, outcome)
    /\ Become(c, "inspect")
    /\ index' = [index EXCEPT ![c] = @ + 1]

Refuse(c) ==
    /\ Record(c, "failed")
    /\ Become(c, "refused")
    /\ UNCHANGED index

(* _install_one's pre-check: name and version in the metadata file decide. *)
(* A file that cannot be read or parsed is a failure, not a reason to      *)
(* install.  A dry run plans where a real one would install.               *)
Precheck(c) ==
    /\ stage[c] = "inspect"
    /\ More(c)
    /\ CASE Metadata(c) = "torn" -> Refuse(c)
         [] Metadata(c) = wanted[c] ->
              IF Current(c) \in alien THEN Refuse(c) ELSE Succeed(c, "already_installed")
         [] OTHER ->
              IF dry[c] THEN Succeed(c, "planned")
                        ELSE /\ Become(c, "open")
                             /\ UNCHANGED <<wanted, dry, index, held, writing, unpacked, results>>
    /\ UNCHANGED <<homeVars, upset>>

(* install_extensions returns; the entrypoint executes the command.        *)
Finish(c) ==
    /\ stage[c] = "inspect"
    /\ ~More(c)
    /\ Become(c, IF dry[c] THEN "planned" ELSE "started")
    /\ UNCHANGED <<wanted, dry, index, held, writing, unpacked, results, homeVars, upset>>

(* open_verified: identity, read-only mount, regular file, and the digest  *)
(* of the very bytes it returns.                                           *)
OpenVerified(c) ==
    /\ stage[c] = "open"
    /\ IF wanted[c] \in damaged
         THEN Refuse(c)
         ELSE /\ held' = [held EXCEPT ![c] = wanted[c]]
              /\ Become(c, "unpack")
              /\ UNCHANGED <<wanted, dry, index, writing, unpacked, results>>
    /\ UNCHANGED <<homeVars, upset>>

(* The real installer extracts the held bytes member by member over what   *)
(* stands in the package's directory: open for writing truncates, then the *)
(* member's bytes follow.  A file two containers write at once holds the   *)
(* bytes of both unless they agree.                                        *)
OpenMember(c, f) ==
    /\ stage[c] = "unpack"
    /\ writing[c] = NoFile
    /\ f \in File \ unpacked[c]
    /\ IF f = "package.json" /\ Current(c) \in alien
         THEN Refuse(c) /\ UNCHANGED home
         ELSE /\ home' = [home EXCEPT ![Current(c)][f] = "torn"]
              /\ writing' = [writing EXCEPT ![c] = f]
              /\ UNCHANGED <<stage, wanted, dry, index, held, unpacked, results>>
    /\ UNCHANGED <<damaged, alien, upset>>

(* Mutant: the package counts as extracted once its metadata is.           *)
WriteUntilMetadata(c) ==
    /\ stage[c] = "unpack"
    /\ writing[c] # NoFile
    /\ home' = [home EXCEPT ![Current(c)][writing[c]] =
                    IF @ \in {"torn", held[c]} THEN held[c] ELSE "torn"]
    /\ unpacked' = [unpacked EXCEPT ![c] = @ \cup {writing[c]}]
    /\ writing' = [writing EXCEPT ![c] = NoFile]
    /\ Become(c, IF writing[c] = "package.json" THEN "check" ELSE "unpack")
    /\ UNCHANGED <<wanted, dry, index, held, results, damaged, alien, upset>>

WriteMember(c) ==
    /\ stage[c] = "unpack"
    /\ writing[c] # NoFile
    /\ home' = [home EXCEPT ![Current(c)][writing[c]] =
                    IF @ \in {"torn", held[c]} THEN held[c] ELSE "torn"]
    /\ unpacked' = [unpacked EXCEPT ![c] = @ \cup {writing[c]}]
    /\ writing' = [writing EXCEPT ![c] = NoFile]
    /\ Become(c, IF unpacked'[c] = File THEN "check" ELSE "unpack")
    /\ UNCHANGED <<wanted, dry, index, held, results, damaged, alien, upset>>

(* The metadata is read back and its owner compared.                       *)
Check(c) ==
    /\ stage[c] = "check"
    /\ IF Metadata(c) = wanted[c] /\ Current(c) \notin alien
         THEN Succeed(c, "ok")
         ELSE Refuse(c)
    /\ UNCHANGED <<homeVars, upset>>

(* Someone in the container runs the installer with --dry-run.             *)
PlanAgain(c) ==
    /\ stage[c] = "started"
    /\ Become(c, "inspect")
    /\ dry' = [dry EXCEPT ![c] = TRUE]
    /\ index' = [index EXCEPT ![c] = 1]
    /\ results' = [results EXCEPT ![c] = <<>>]
    /\ UNCHANGED <<wanted, held, writing, unpacked, homeVars, upset>>

(* The archive is short or the disk full; the container is killed; the     *)
(* host's copy of an artifact changes under the mount.                     *)
Upset == upset < InstallFaults /\ upset' = upset + 1

UnpackFails(c) ==
    /\ stage[c] = "unpack"
    /\ Upset
    /\ Refuse(c)
    /\ UNCHANGED homeVars

KillContainer(c) ==
    /\ stage[c] \in Working
    /\ Upset
    /\ Become(c, "killed")
    /\ UNCHANGED <<wanted, dry, index, held, writing, unpacked, results, homeVars>>

DamageArtifact(v) ==
    /\ v \notin damaged
    /\ Upset
    /\ damaged' = damaged \cup {v}
    /\ UNCHANGED <<installerVars, home, alien>>

InstallerStep(c) ==
    \/ Precheck(c) \/ OpenVerified(c)
    \/ \E f \in File : OpenMember(c, f)
    \/ WriteMember(c) \/ Check(c) \/ Finish(c)

-----------------------------------------------------------------------------

(* When nothing went wrong, nobody is writing and the containers agree on  *)
(* the versions, a container whose command started finds every file of     *)
(* every package of its projection.                                        *)
InstalledWhenQuiet ==
    LET launched == {c \in Container : stage[c] # "off"}
        quiet == /\ upset = 0
                 /\ \A c \in launched : stage[c] # "unpack"
                 /\ \A c, d \in launched : wanted[c] = wanted[d]
    IN  quiet => \A c \in launched : stage[c] = "started" =>
                    \A p \in Package, f \in File : home[p][f] = wanted[c]

(* The installer skips a package only if it is correctly installed (the    *)
(* docstring of install_extensions).  The code looks at one file only.     *)
SkipsOnlyInstalled ==
    [][\A c \in Container :
          stage[c] = "inspect" /\ Len(results'[c]) = index[c]
            /\ results'[c][index[c]] = "already_installed" =>
              \A f \in File : home[Current(c)][f] = wanted[c]]_installVars
=============================================================================
