------------------------------ MODULE Handover ------------------------------
(***************************************************************************)
(* What the host hands to the container when the extensions of a launch    *)
(* are resolved, as data rather than as files:                             *)
(*   docker/versioning/inventory.py  the extensions load_inventory admits  *)
(*   docker/versioning/effective.py  resolve_runtime, and what is checked  *)
(*                                   before the projection is published    *)
(*   docker/versioning/rendering.py  the mounts and the docker run vector  *)
(*   docker/runtime_installer.py     what the container admits in turn     *)
(* The two sides have validators of their own.  One request is planned by  *)
(* a dry run and carried out by a launch; the inventory may be edited      *)
(* between the two and cached artifacts may come and go.                   *)
(***************************************************************************)
EXTENDS Naturals, Sequences, FiniteSets

CONSTANTS
    Name,         \* the extensions the inventory has room for
    Entries,      \* what may stand under a name, NoEntry included
    NoEntry,
    Requests,     \* overrides, workspaces and trust of a command line
    BuildPackage, \* packages the image is built from
    Lowercase,    \* the packages within the container's grammar
    Archive,      \* per digest: the package and version it contains
    Home,         \* the versions that may already stand in the Pi home
    MaxChanges    \* bound on edits of the inventory and damaged artifacts

NoVersion == "none"
Digest == DOMAIN Archive

ASSUME HandoverAssumption ==
    /\ NoEntry \in Entries
    /\ \A r \in Requests : r.override \in [Name -> STRING]
    /\ MaxChanges \in Nat

VARIABLES
    inventory,    \* per name: the reviewed entry
    request,      \* the request of both commands
    stage,        \* per command: where it is
    read,         \* per command: the inventory it loaded
    projection,   \* per command: per name, what it resolved
    mounts,       \* per command: the artifact mounts it planned
    cached,       \* digests whose artifact is whole in the cache
    misses,       \* the digests the dry run announced as missing
    fetched,      \* the digests the launch downloaded
    damaged,      \* history: digests whose artifact was changed in place
    home,         \* per package: the version in the Pi home
    changes       \* changes so far

commandVars == <<stage, read, projection, mounts>>
cacheVars == <<cached, misses, fetched, damaged>>
vars == <<inventory, request, commandVars, cacheVars, home, changes>>

DryRun == "dry-run"
Launch == "launch"
Command == {DryRun, Launch}

-----------------------------------------------------------------------------
(* The reviewed side.  An entry has a package, a default version, a        *)
(* catalogue from versions to integrities, the versions its policy admits  *)
(* and a metadata path.  An integrity is a digest and its base64 spelling, *)
(* which is not canonical when its unused last bits are set.  The tarball  *)
(* URL repeats package and version and needs no field of its own.          *)

Present(inv) == {n \in Name : inv[n] # NoEntry}

(* RuntimeValidation and _validate_metadata_file refuse absolute paths,    *)
(* empty segments and "..", the second blank paths as well.                *)
LoaderPath == {"plain", "dotted", "blank"}
PublishedPath == {"plain", "dotted"}

AdmittedExtension(entry) ==
    /\ entry.version \in DOMAIN entry.catalogue
    /\ entry.version \in entry.allowed
    /\ entry.path \in LoaderPath

(* Mutant: a package may stand under two names.                            *)
AdmittedTwice(inv) ==
    \A n \in Present(inv) : AdmittedExtension(inv[n]) /\ inv[n].package \notin BuildPackage

(* No package twice, and none the image is built from.                     *)
Admitted(inv) ==
    /\ \A n \in Present(inv) :
          AdmittedExtension(inv[n]) /\ inv[n].package \notin BuildPackage
    /\ \A m, n \in Present(inv) : inv[m].package = inv[n].package => m = n

-----------------------------------------------------------------------------
(* resolve_runtime.                                                        *)

(* Mutant: the override policy is not consulted.                           *)
ResolvableUnchecked(inv, override) ==
    \A n \in Name : override[n] # NoVersion =>
        n \in Present(inv) /\ override[n] \in DOMAIN inv[n].catalogue

(* Every override names an extension, and its value is admitted by the     *)
(* extension's policy and in its catalogue.                                *)
Resolvable(inv, override) ==
    \A n \in Name : override[n] # NoVersion =>
        /\ n \in Present(inv)
        /\ override[n] \in inv[n].allowed
        /\ override[n] \in DOMAIN inv[n].catalogue

ArtifactId(integrity) == <<"artifact", integrity.digest, integrity.spelling>>
Canonical(digest) == [digest |-> digest, spelling |-> "canonical"]

Effective(entry, version) ==
    LET integrity == entry.catalogue[version]
    IN  [package |-> entry.package, version |-> version, integrity |-> integrity,
         id |-> ArtifactId(integrity), path |-> entry.path]

Chosen(entry, override) == IF override = NoVersion THEN entry.version ELSE override

Resolved(inv, override) ==
    [n \in Present(inv) |-> Effective(inv[n], Chosen(inv[n], override[n]))]

(* One selected artifact per integrity as it is spelled.                   *)
Selected(proj) == {proj[n].integrity : n \in DOMAIN proj}

-----------------------------------------------------------------------------
(* Mounts and the vector.  The target of an artifact is named after the    *)
(* integrity as spelled.  So is the source a dry run shows, while the      *)
(* cache is addressed by the decoded digest.                               *)
DryMount(integrity) == [source |-> ArtifactId(integrity), target |-> ArtifactId(integrity)]
BlobMount(integrity) ==
    [source |-> ArtifactId(Canonical(integrity.digest)), target |-> ArtifactId(integrity)]

FixedTarget == {<<"fixed", "pi-home", "">>, <<"fixed", "projection", "">>}
TrustTarget == <<"fixed", "ca-bundle", "">>

(* Mutant: workspaces are not compared with the other destinations.        *)
RenderableAnywhere(req, chosen) ==
    \A m, n \in chosen : m.source = n.source => m = n

(* resolve_workspace_selection: no workspace is given twice.               *)
DistinctWorkspaces(req) ==
    Cardinality({req.workspaces[i] : i \in DOMAIN req.workspaces}) = Len(req.workspaces)

(* _validate_run_inputs: no destination twice and no source twice.         *)
Renderable(req, chosen) ==
    LET spaces == {req.workspaces[i] : i \in DOMAIN req.workspaces}
        targets == {m.target : m \in chosen}
    IN  /\ DistinctWorkspaces(req)
        /\ spaces \cap (FixedTarget \cup targets) = {}
        /\ \A m, n \in chosen : m.source = n.source => m = n
        /\ req.trust => TrustTarget \notin spaces \cup targets

-----------------------------------------------------------------------------
(* The container.  ProjectionEntry wants lowercase packages and a path     *)
(* without "." segments or backslashes, read_projection no package twice.  *)
Readable(proj) ==
    /\ \A n \in DOMAIN proj : proj[n].package \in Lowercase /\ proj[n].path = "plain"
    /\ \A m, n \in DOMAIN proj : proj[m].package = proj[n].package => m = n

(* open_verified: the artifact is mounted where its id says, its bytes are *)
(* whole, and its digest, encoded again, is the integrity as spelled.      *)
Opens(entry) ==
    /\ \E m \in mounts[Launch] :
          m.target = entry.id /\ m.source = ArtifactId(Canonical(entry.integrity.digest))
    /\ entry.integrity.digest \in cached
    /\ entry.integrity.spelling = "canonical"

-----------------------------------------------------------------------------
Init ==
    /\ inventory \in [Name -> Entries]
    /\ request \in Requests
    /\ stage = [c \in Command |-> "start"]
    /\ read = [c \in Command |-> inventory]
    /\ projection = [c \in Command |-> <<>>]
    /\ mounts = [c \in Command |-> {}]
    /\ cached \in SUBSET Digest
    /\ misses = {} /\ fetched = {} /\ damaged = {}
    /\ home \in Home
    /\ changes = 0

Goto(c, next) == stage' = [stage EXCEPT ![c] = next]

(* The command line is done with the workspaces before orchestrate_run     *)
(* loads the inventory and resolves it.                                    *)
Resolve(c) ==
    /\ stage[c] = "start"
    /\ \/ /\ ~DistinctWorkspaces(request)
          /\ Goto(c, "config") /\ UNCHANGED <<read, projection>>
       \/ /\ DistinctWorkspaces(request)
          /\ read' = [read EXCEPT ![c] = inventory]
          /\ IF Admitted(inventory) /\ Resolvable(inventory, request.override)
               THEN /\ projection' = [projection EXCEPT ![c] = Resolved(inventory, request.override)]
                    /\ Goto(c, "resolved")
               ELSE Goto(c, "config") /\ UNCHANGED projection
    /\ UNCHANGED <<inventory, request, mounts, cacheVars, home, changes>>

(* Mutant: a dry run plans the default versions.                           *)
PlanDefaults ==
    LET defaults == Resolved(read[DryRun], [n \in Name |-> NoVersion])
        planned == {DryMount(i) : i \in Selected(defaults)}
    IN  /\ stage[DryRun] = "resolved"
        /\ mounts' = [mounts EXCEPT ![DryRun] = planned]
        /\ misses' = {i.digest : i \in Selected(defaults)} \ cached
        /\ Goto(DryRun, "printed")
        /\ UNCHANGED <<inventory, request, read, projection, cached, fetched, damaged, home, changes>>

(* The rest of a dry run: nothing is fetched, published or started.        *)
Plan ==
    LET planned == {DryMount(i) : i \in Selected(projection[DryRun])}
    IN  /\ stage[DryRun] = "resolved"
        /\ IF Renderable(request, planned)
             THEN /\ mounts' = [mounts EXCEPT ![DryRun] = planned]
                  /\ misses' = {i.digest : i \in Selected(projection[DryRun])} \ cached
                  /\ Goto(DryRun, "printed")
             ELSE Goto(DryRun, "config") /\ UNCHANGED <<mounts, misses>>
        /\ UNCHANGED <<inventory, request, read, projection, cached, fetched, damaged, home, changes>>

(* materialize_selected_artifacts takes one integrity after the other and  *)
(* fetches what the cache does not have whole.  A fetch may fail.          *)
Pending == {i \in Selected(projection[Launch]) : BlobMount(i) \notin mounts[Launch]}

Materialize(i) ==
    /\ stage[Launch] = "resolved" /\ i \in Pending
    /\ \/ /\ mounts' = [mounts EXCEPT ![Launch] = @ \cup {BlobMount(i)}]
          /\ cached' = cached \cup {i.digest}
          /\ fetched' = fetched \cup ({i.digest} \ cached)
          /\ UNCHANGED stage
       \/ /\ i.digest \notin cached /\ Goto(Launch, "operational")
          /\ UNCHANGED <<mounts, cached, fetched>>
    /\ UNCHANGED <<inventory, request, read, projection, misses, damaged, home, changes>>

(* create_runtime_projection validates what it is about to write, and      *)
(* again what it would read back.                                          *)
Publish ==
    /\ stage[Launch] = "resolved" /\ Pending = {}
    /\ Goto(Launch, IF \A n \in DOMAIN projection[Launch] :
                           projection[Launch][n].path \in PublishedPath
                      THEN "published" ELSE "config")
    /\ UNCHANGED <<inventory, request, read, projection, mounts, cacheVars, home, changes>>

(* render_run_vector and docker run.                                       *)
Run ==
    /\ stage[Launch] = "published"
    /\ Goto(Launch, IF Renderable(request, mounts[Launch]) THEN "running" ELSE "config")
    /\ UNCHANGED <<inventory, request, read, projection, mounts, cacheVars, home, changes>>

(* The container installs in the order of the packages, so here in any     *)
(* order, and refuses to start at the first failure.  A package that is    *)
(* there in the right version is not opened.                               *)
Outdated == {n \in DOMAIN projection[Launch] :
                 home[projection[Launch][n].package] # projection[Launch][n].version}

Read ==
    /\ stage[Launch] = "running"
    /\ Goto(Launch, IF Readable(projection[Launch]) THEN "installing" ELSE "refused")
    /\ UNCHANGED <<inventory, request, read, projection, mounts, cacheVars, home, changes>>

Install(n) ==
    LET entry == projection[Launch][n]
        content == Archive[entry.integrity.digest]
    IN  /\ stage[Launch] = "installing" /\ n \in Outdated
        /\ IF Opens(entry)
             THEN /\ home' = [home EXCEPT ![entry.package] =
                                 IF content.package = entry.package THEN content.version ELSE "foreign"]
                  /\ IF content = [package |-> entry.package, version |-> entry.version]
                       THEN UNCHANGED stage ELSE Goto(Launch, "refused")
             ELSE Goto(Launch, "refused") /\ UNCHANGED home
        /\ UNCHANGED <<inventory, request, read, projection, mounts, cacheVars, changes>>

Start ==
    /\ stage[Launch] = "installing" /\ Outdated = {}
    /\ Goto(Launch, "started")
    /\ UNCHANGED <<inventory, request, read, projection, mounts, cacheVars, home, changes>>

(* Others edit the inventory, damage artifacts in the cache.               *)
Changed == changes < MaxChanges /\ changes' = changes + 1

EditInventory ==
    /\ Changed
    /\ \E n \in Name, entry \in Entries : inventory' = [inventory EXCEPT ![n] = entry]
    /\ UNCHANGED <<request, commandVars, cacheVars, home>>

DamageArtifact(d) ==
    /\ Changed /\ d \in cached
    /\ cached' = cached \ {d} /\ damaged' = damaged \cup {d}
    /\ UNCHANGED <<inventory, request, commandVars, misses, fetched, home>>

Next ==
    \/ \E c \in Command : Resolve(c)
    \/ Plan \/ (\E i \in Pending : Materialize(i)) \/ Publish \/ Run
    \/ Read \/ (\E n \in Outdated : Install(n)) \/ Start
    \/ EditInventory \/ (\E d \in Digest : DamageArtifact(d))

Spec == Init /\ [][Next]_vars

-----------------------------------------------------------------------------
(* An inventory both sides understand: lowercase packages, plain metadata  *)
(* paths, canonical integrities of the packages they are listed under.     *)
Portable(entry) ==
    /\ entry.package \in Lowercase /\ entry.path = "plain"
    /\ \A v \in DOMAIN entry.catalogue :
          LET integrity == entry.catalogue[v]
          IN  /\ integrity.spelling = "canonical"
              /\ Archive[integrity.digest] = [package |-> entry.package, version |-> v]

AllPortable(inv) == \A n \in Present(inv) : Portable(inv[n])

(* What the host hands over, the container takes: a launch of a portable   *)
(* inventory is never refused inside the container, whatever the overrides *)
(* and the Pi home, unless an artifact was damaged under its feet.         *)
ContainerAccepts ==
    stage[Launch] = "refused" => ~AllPortable(read[Launch]) \/ damaged # {}

(* The container starts with exactly the versions that were asked for, by  *)
(* an override or else by the inventory the launch read, each of them in   *)
(* the reviewed catalogue; and two extensions never share a package.       *)
StartsAsRequested ==
    stage[Launch] = "started" =>
        LET inv == read[Launch]
        IN  \A n \in Present(inv) :
              /\ home[inv[n].package] = Chosen(inv[n], request.override[n])
              /\ home[inv[n].package] \in inv[n].allowed \cap DOMAIN inv[n].catalogue

(* docker-runtime: each unique selected artifact is mounted once, by       *)
(* itself, and nothing unselected is; every destination of the container   *)
(* is used once.                                                           *)
MountsAreTheSelection ==
    stage[Launch] \in {"running", "installing", "started", "refused"} =>
        LET targets == {m.target : m \in mounts[Launch]}
            spaces == {request.workspaces[i] : i \in DOMAIN request.workspaces}
            used == <<FixedTarget, spaces, targets, IF request.trust THEN {TrustTarget} ELSE {}>>
        IN  /\ targets = {projection[Launch][n].id : n \in DOMAIN projection[Launch]}
            /\ \A d \in Digest : Cardinality({m \in mounts[Launch] : m.target[2] = d}) <= 1
            /\ \A i, j \in DOMAIN used : i # j => used[i] \cap used[j] = {}

(* A dry run foretells the launch: it announced whatever the launch then   *)
(* fetches, and the mounts it printed are those of the vector, as long as  *)
(* both read the same inventory, nothing was damaged, and for the mounts,  *)
(* the integrities are canonical.                                          *)
DryRunForetells ==
    [][stage[DryRun] = "printed" /\ read[DryRun] = read[Launch] /\ damaged = {} =>
          /\ fetched' \ fetched \subseteq misses
          /\ (stage'[Launch] = "running" /\ AllPortable(read[Launch]))
                => mounts[DryRun] = mounts[Launch]]_vars
=============================================================================
