--------------------------- MODULE HandoverProofs ---------------------------
(***************************************************************************)
(* What the host hands to the container, for every inventory, request,     *)
(* cache and Pi home: both sides agree about it.                           *)
(***************************************************************************)
EXTENDS Handover, TLAPS, FiniteSetTheorems

Stages ==
    {"start", "resolved", "config", "printed", "operational", "published", "running",
     "installing", "refused", "started"}
Handed == {"running", "installing", "refused", "started"}
Begun == {"resolved", "printed", "operational", "published"} \cup Handed

Shape ==
    /\ inventory \in [Name -> Entries]
    /\ stage \in [Command -> Stages]
    /\ read \in [Command -> [Name -> Entries]]
    /\ projection = [c \in Command |-> projection[c]]
    /\ mounts = [c \in Command |-> mounts[c]]

(* What a command resolved is what the inventory it read says.             *)
ResolvedFrom(c) ==
    /\ Admitted(read[c]) /\ Resolvable(read[c], request.override)
    /\ projection[c] = Resolved(read[c], request.override)
ResolvedInv == \A c \in Command : stage[c] \in Begun => ResolvedFrom(c)

(* The launch mounts what it materialized, and that is whole in the cache  *)
(* unless it was damaged since.                                            *)
BlobMounts == {BlobMount(i) : i \in Selected(projection[Launch])}
MountsInv ==
    /\ stage[Launch] = "start" => mounts[Launch] = {}
    /\ mounts[Launch] \subseteq BlobMounts
    /\ stage[Launch] \in {"published"} \cup Handed => BlobMounts \subseteq mounts[Launch]
    /\ stage[Launch] \in Handed => Renderable(request, mounts[Launch])
    /\ damaged = {} => \A m \in mounts[Launch] : m.source[2] \in cached

(* What a dry run printed: everything it did not announce was there.       *)
DryInv ==
    stage[DryRun] = "printed" =>
        /\ mounts[DryRun] = {DryMount(i) : i \in Selected(projection[DryRun])}
        /\ damaged = {} =>
              \A i \in Selected(projection[DryRun]) : i.digest \in misses \cup cached

StartedInv == stage[Launch] = "started" => Outdated = {}

Inv ==
    /\ Shape /\ ResolvedInv /\ MountsInv /\ DryInv /\ StartedInv
    /\ ContainerAccepts

-----------------------------------------------------------------------------
(* The data.                                                               *)

(* What an override or the inventory chooses is in the catalogue.          *)
LEMMA ChosenAdmitted ==
  ASSUME NEW inv, NEW override, Admitted(inv), Resolvable(inv, override),
         NEW n \in Present(inv)
  PROVE  Chosen(inv[n], override[n]) \in inv[n].allowed \cap DOMAIN inv[n].catalogue
BY DEF Chosen, Admitted, AdmittedExtension, Resolvable, Present

(* The entries of a projection, field by field.                            *)
LEMMA ResolvedEntry ==
  ASSUME NEW inv, NEW override, NEW n \in Present(inv)
  PROVE  LET e == Resolved(inv, override)[n]
             i == inv[n].catalogue[Chosen(inv[n], override[n])]
         IN  /\ e.package = inv[n].package /\ e.version = Chosen(inv[n], override[n])
             /\ e.integrity = i /\ e.id = ArtifactId(i) /\ e.path = inv[n].path
BY DEF Resolved, Effective

LEMMA ResolvedDomain ==
  ASSUME NEW inv, NEW override
  PROVE  DOMAIN Resolved(inv, override) = Present(inv)
BY DEF Resolved

LEMMA Identifiers ==
  ASSUME NEW i
  PROVE  /\ BlobMount(i).target = ArtifactId(i) /\ DryMount(i).target = ArtifactId(i)
         /\ BlobMount(i).source = ArtifactId(Canonical(i.digest))
         /\ BlobMount(i).source[2] = i.digest /\ BlobMount(i).target[2] = i.digest
         /\ ArtifactId(i) # TrustTarget /\ ArtifactId(i) \notin FixedTarget
BY DEF BlobMount, DryMount, ArtifactId, Canonical, TrustTarget, FixedTarget

(* What a portable inventory makes of a projection, the container takes.   *)
LEMMA PortableEntry ==
  ASSUME NEW inv, NEW override, NEW n \in Present(inv),
         Admitted(inv), Resolvable(inv, override), AllPortable(inv)
  PROVE  LET e == Resolved(inv, override)[n]
         IN  /\ e.package \in Lowercase /\ e.path = "plain"
             /\ e.integrity.spelling = "canonical"
<1> DEFINE v == Chosen(inv[n], override[n])
<1>1. v \in DOMAIN inv[n].catalogue
  BY ChosenAdmitted
<1>2. Portable(inv[n])
  BY DEF AllPortable
<1>3. /\ inv[n].package \in Lowercase /\ inv[n].path = "plain"
      /\ inv[n].catalogue[v].spelling = "canonical"
  BY <1>1, <1>2 DEF Portable
<1> QED
  BY <1>3, ResolvedEntry

LEMMA PortableContent ==
  ASSUME NEW inv, NEW override, NEW n \in Present(inv),
         Admitted(inv), Resolvable(inv, override), AllPortable(inv)
  PROVE  LET e == Resolved(inv, override)[n]
         IN  Archive[e.integrity.digest] = [package |-> e.package, version |-> e.version]
<1> DEFINE v == Chosen(inv[n], override[n])
<1>1. v \in DOMAIN inv[n].catalogue
  BY ChosenAdmitted
<1>2. Portable(inv[n])
  BY DEF AllPortable
<1>3. Archive[inv[n].catalogue[v].digest] = [package |-> inv[n].package, version |-> v]
  BY <1>1, <1>2 DEF Portable
<1> QED
  BY <1>3, ResolvedEntry

LEMMA PortableReadable ==
  ASSUME NEW inv, NEW override, Admitted(inv), Resolvable(inv, override),
         AllPortable(inv)
  PROVE  Readable(Resolved(inv, override))
<1>1. ASSUME NEW n \in Present(inv)
      PROVE  /\ Resolved(inv, override)[n].package \in Lowercase
             /\ Resolved(inv, override)[n].path = "plain"
  BY PortableEntry
<1>2. \A m, n \in Present(inv) :
         Resolved(inv, override)[m].package = Resolved(inv, override)[n].package => m = n
  BY ResolvedEntry DEF Admitted
<1> QED
  BY <1>1, <1>2, ResolvedDomain DEF Readable

(* The selection of a projection.                                          *)
LEMMA SelectedEntry ==
  ASSUME NEW proj, NEW n \in DOMAIN proj
  PROVE  proj[n].integrity \in Selected(proj)
BY DEF Selected

LEMMA PortableSelection ==
  ASSUME NEW inv, NEW override, Admitted(inv), Resolvable(inv, override),
         AllPortable(inv), NEW i \in Selected(Resolved(inv, override))
  PROVE  DryMount(i) = BlobMount(i)
<1>1. PICK n \in Present(inv) : i = Resolved(inv, override)[n].integrity
  BY ResolvedDomain DEF Selected
<1>2. Resolved(inv, override)[n].integrity.spelling = "canonical"
  BY PortableEntry
<1> QED
  BY <1>1, <1>2 DEF DryMount, BlobMount, ArtifactId, Canonical

-----------------------------------------------------------------------------
(* The steps.                                                              *)
LEMMA ShapeStep == Shape /\ [Next]_vars => Shape'
<1> SUFFICES ASSUME Shape, [Next]_vars PROVE Shape'
  OBVIOUS
<1> USE DEF Shape, Stages, Command, DryRun, Launch, Goto, cacheVars, commandVars
<1>1. ASSUME NEW c \in Command, Resolve(c) PROVE Shape'
  BY <1>1 DEF Resolve
<1>2. CASE Plan
  BY <1>2 DEF Plan
<1>3. ASSUME NEW i \in Pending, Materialize(i) PROVE Shape'
  BY <1>3 DEF Materialize
<1>4. CASE Publish
  BY <1>4 DEF Publish
<1>5. CASE Run
  BY <1>5 DEF Run
<1>6. CASE Read
  BY <1>6 DEF Read
<1>7. ASSUME NEW n \in Outdated, Install(n) PROVE Shape'
  BY <1>7 DEF Install
<1>8. CASE Start
  BY <1>8 DEF Start
<1>9. CASE EditInventory
  BY <1>9 DEF EditInventory
<1>10. ASSUME NEW d \in Digest, DamageArtifact(d) PROVE Shape'
  BY <1>10 DEF DamageArtifact
<1>11. CASE UNCHANGED vars
  BY <1>11 DEF vars
<1> QED
  BY <1>1, <1>2, <1>3, <1>4, <1>5, <1>6, <1>7, <1>8, <1>9, <1>10, <1>11 DEF Next

LEMMA ResolvedStep == Shape /\ ResolvedInv /\ [Next]_vars => ResolvedInv'
<1> SUFFICES ASSUME Shape, ResolvedInv, [Next]_vars, NEW c \in Command, stage'[c] \in Begun
             PROVE  ResolvedFrom(c)'
  BY DEF ResolvedInv
<1> USE DEF Shape, Command, DryRun, Launch, Goto, cacheVars, commandVars, ResolvedFrom,
            ResolvedInv, Begun, Handed
<1>1. ASSUME NEW d \in Command, Resolve(d) PROVE ResolvedFrom(c)'
  <2>1. CASE c = d
    BY <1>1, <2>1 DEF Resolve
  <2>2. CASE c # d
    BY <1>1, <2>2 DEF Resolve
  <2> QED
    BY <2>1, <2>2
<1>2. CASE Plan
  BY <1>2 DEF Plan
<1>3. ASSUME NEW i \in Pending, Materialize(i) PROVE ResolvedFrom(c)'
  BY <1>3 DEF Materialize
<1>4. CASE Publish
  BY <1>4 DEF Publish
<1>5. CASE Run
  BY <1>5 DEF Run
<1>6. CASE Read
  BY <1>6 DEF Read
<1>7. ASSUME NEW n \in Outdated, Install(n) PROVE ResolvedFrom(c)'
  BY <1>7 DEF Install
<1>8. CASE Start
  BY <1>8 DEF Start
<1>9. CASE EditInventory
  BY <1>9 DEF EditInventory
<1>10. ASSUME NEW d \in Digest, DamageArtifact(d) PROVE ResolvedFrom(c)'
  BY <1>10 DEF DamageArtifact
<1>11. CASE UNCHANGED vars
  BY <1>11 DEF vars
<1> QED
  BY <1>1, <1>2, <1>3, <1>4, <1>5, <1>6, <1>7, <1>8, <1>9, <1>10, <1>11 DEF Next

LEMMA MountsStep == Shape /\ MountsInv /\ [Next]_vars => MountsInv'
<1> SUFFICES ASSUME Shape, MountsInv, [Next]_vars PROVE MountsInv'
  OBVIOUS
<1> USE DEF Shape, MountsInv, BlobMounts, Handed, Command, DryRun, Launch, Goto,
            cacheVars, commandVars
<1>1. CASE Resolve(Launch)
  BY <1>1 DEF Resolve
<1>2. CASE Resolve(DryRun)
  BY <1>2 DEF Resolve
<1>3. CASE Plan
  BY <1>3 DEF Plan
<1>4. ASSUME NEW i \in Pending, Materialize(i) PROVE MountsInv'
  <2>1. /\ stage[Launch] = "resolved" /\ i \in Selected(projection[Launch])
        /\ projection' = projection /\ damaged' = damaged
    BY <1>4 DEF Materialize, Pending
  <2>2. CASE /\ mounts' = [mounts EXCEPT ![Launch] = @ \cup {BlobMount(i)}]
             /\ cached' = cached \cup {i.digest} /\ stage' = stage
    <3>1. mounts'[Launch] = mounts[Launch] \cup {BlobMount(i)}
      BY <2>2
    <3>2. BlobMount(i).source[2] = i.digest
      BY Identifiers
    <3> QED
      BY <2>1, <2>2, <3>1, <3>2
  <2>3. CASE Goto(Launch, "operational") /\ mounts' = mounts /\ cached' = cached
    BY <2>1, <2>3
  <2> QED
    BY <1>4, <2>2, <2>3 DEF Materialize
<1>5. CASE Publish
  BY <1>5 DEF Publish, Pending
<1>6. CASE Run
  BY <1>6 DEF Run
<1>7. CASE Read
  BY <1>7 DEF Read
<1>8. ASSUME NEW n \in Outdated, Install(n) PROVE MountsInv'
  BY <1>8 DEF Install
<1>9. CASE Start
  BY <1>9 DEF Start
<1>10. CASE EditInventory
  BY <1>10 DEF EditInventory
<1>11. ASSUME NEW d \in Digest, DamageArtifact(d) PROVE MountsInv'
  BY <1>11 DEF DamageArtifact
<1>12. CASE UNCHANGED vars
  BY <1>12 DEF vars
<1> QED
  BY <1>1, <1>2, <1>3, <1>4, <1>5, <1>6, <1>7, <1>8, <1>9, <1>10, <1>11, <1>12 DEF Next

LEMMA DryStep == Shape /\ DryInv /\ [Next]_vars => DryInv'
<1> SUFFICES ASSUME Shape, DryInv, [Next]_vars PROVE DryInv'
  OBVIOUS
<1> USE DEF Shape, DryInv, Command, DryRun, Launch, Goto, cacheVars, commandVars
<1>1. CASE Resolve(DryRun)
  BY <1>1 DEF Resolve
<1>2. CASE Resolve(Launch)
  BY <1>2 DEF Resolve
<1>3. CASE Plan
  BY <1>3 DEF Plan
<1>4. ASSUME NEW i \in Pending, Materialize(i) PROVE DryInv'
  <2>1. /\ projection' = projection /\ damaged' = damaged /\ misses' = misses
        /\ cached \subseteq cached'
        /\ stage'[DryRun] = stage[DryRun] /\ mounts'[DryRun] = mounts[DryRun]
    BY <1>4 DEF Materialize
  <2> QED
    BY <2>1
<1>5. CASE Publish
  BY <1>5 DEF Publish
<1>6. CASE Run
  BY <1>6 DEF Run
<1>7. CASE Read
  BY <1>7 DEF Read
<1>8. ASSUME NEW n \in Outdated, Install(n) PROVE DryInv'
  BY <1>8 DEF Install
<1>9. CASE Start
  BY <1>9 DEF Start
<1>10. CASE EditInventory
  BY <1>10 DEF EditInventory
<1>11. ASSUME NEW d \in Digest, DamageArtifact(d) PROVE DryInv'
  BY <1>11 DEF DamageArtifact
<1>12. CASE UNCHANGED vars
  BY <1>12 DEF vars
<1> QED
  BY <1>1, <1>2, <1>3, <1>4, <1>5, <1>6, <1>7, <1>8, <1>9, <1>10, <1>11, <1>12 DEF Next

LEMMA StartedStep == Shape /\ StartedInv /\ [Next]_vars => StartedInv'
<1> SUFFICES ASSUME Shape, StartedInv, [Next]_vars, stage'[Launch] = "started"
             PROVE  Outdated' = {}
  BY DEF StartedInv
<1> USE DEF Shape, StartedInv, Outdated, Command, DryRun, Launch, Goto, cacheVars,
            commandVars
<1>1. ASSUME NEW c \in Command, Resolve(c) PROVE Outdated' = {}
  BY <1>1 DEF Resolve
<1>2. CASE Plan
  BY <1>2 DEF Plan
<1>3. ASSUME NEW i \in Pending, Materialize(i) PROVE Outdated' = {}
  BY <1>3 DEF Materialize
<1>4. CASE Publish
  BY <1>4 DEF Publish
<1>5. CASE Run
  BY <1>5 DEF Run
<1>6. CASE Read
  BY <1>6 DEF Read
<1>7. ASSUME NEW n \in Outdated, Install(n) PROVE Outdated' = {}
  BY <1>7 DEF Install
<1>8. CASE Start
  BY <1>8 DEF Start
<1>9. CASE EditInventory
  BY <1>9 DEF EditInventory
<1>10. ASSUME NEW d \in Digest, DamageArtifact(d) PROVE Outdated' = {}
  BY <1>10 DEF DamageArtifact
<1>11. CASE UNCHANGED vars
  BY <1>11 DEF vars
<1> QED
  BY <1>1, <1>2, <1>3, <1>4, <1>5, <1>6, <1>7, <1>8, <1>9, <1>10, <1>11 DEF Next

(* The container refuses a portable inventory only for a damaged artifact. *)
LEMMA AcceptsStep == Inv /\ [Next]_vars => ContainerAccepts'
<1> SUFFICES ASSUME Inv, [Next]_vars, stage'[Launch] = "refused",
                    AllPortable(read'[Launch]), damaged' = {}
             PROVE  FALSE
  BY DEF ContainerAccepts
<1> USE DEF Shape, Command, DryRun, Launch, Goto, cacheVars, commandVars
<1>0. Shape /\ ResolvedInv /\ MountsInv /\ ContainerAccepts
  BY DEF Inv
<1>1. CASE Read
  <2>1. /\ stage[Launch] = "running" /\ ~Readable(projection[Launch])
        /\ read' = read
    BY <1>0, <1>1 DEF Read
  <2>2. ResolvedFrom(Launch)
    BY <1>0, <2>1 DEF ResolvedInv, Begun, Handed
  <2> QED
    BY <2>1, <2>2, PortableReadable DEF ResolvedFrom
<1>2. ASSUME NEW n \in Outdated, Install(n) PROVE FALSE
  <2> DEFINE entry == projection[Launch][n]
             inv == read[Launch]
  <2>1. /\ stage[Launch] = "installing" /\ read' = read /\ damaged' = damaged
        /\ n \in DOMAIN projection[Launch]
    BY <1>2 DEF Install, Outdated
  <2>2. ResolvedFrom(Launch)
    BY <1>0, <2>1 DEF ResolvedInv, Begun, Handed
  <2>3. n \in Present(inv) /\ entry = Resolved(inv, request.override)[n]
    BY <2>1, <2>2, ResolvedDomain DEF ResolvedFrom
  <2>4. AllPortable(inv)
    BY <2>1
  <2>5. /\ entry.integrity.spelling = "canonical"
        /\ Archive[entry.integrity.digest]
              = [package |-> entry.package, version |-> entry.version]
    <3>1. Admitted(inv) /\ Resolvable(inv, request.override)
      BY <2>2 DEF ResolvedFrom
    <3> HIDE DEF entry, inv
    <3> QED
      BY <2>3, <2>4, <3>1, PortableEntry, PortableContent
  <2>6. entry.id = ArtifactId(entry.integrity)
    BY <2>3, ResolvedEntry
  <2>7. entry.integrity \in Selected(projection[Launch])
    BY <2>1, SelectedEntry
  <2>8. BlobMount(entry.integrity) \in mounts[Launch]
    BY <1>0, <2>1, <2>7 DEF MountsInv, BlobMounts, Handed
  <2>9. entry.integrity.digest \in cached
    BY <1>0, <2>1, <2>8, Identifiers DEF MountsInv
  <2>10. Opens(entry)
    BY <2>5, <2>6, <2>8, <2>9, Identifiers DEF Opens
  <2>11. stage' = stage
    BY <1>2, <2>5, <2>10 DEF Install
  <2> QED
    BY <2>1, <2>11
<1>3. ASSUME NEW c \in Command, Resolve(c) PROVE FALSE
  BY <1>0, <1>3 DEF Resolve, ContainerAccepts
<1>4. CASE Plan
  BY <1>0, <1>4 DEF Plan, ContainerAccepts
<1>5. ASSUME NEW i \in Pending, Materialize(i) PROVE FALSE
  BY <1>0, <1>5 DEF Materialize, ContainerAccepts
<1>6. CASE Publish
  BY <1>0, <1>6 DEF Publish, ContainerAccepts
<1>7. CASE Run
  BY <1>0, <1>7 DEF Run, ContainerAccepts
<1>8. CASE Start
  BY <1>0, <1>8 DEF Start, ContainerAccepts
<1>9. CASE EditInventory
  BY <1>0, <1>9 DEF EditInventory, ContainerAccepts
<1>10. ASSUME NEW d \in Digest, DamageArtifact(d) PROVE FALSE
  BY <1>0, <1>10 DEF DamageArtifact, ContainerAccepts
<1>11. CASE UNCHANGED vars
  BY <1>0, <1>11 DEF vars, ContainerAccepts
<1> QED
  BY <1>1, <1>2, <1>3, <1>4, <1>5, <1>6, <1>7, <1>8, <1>9, <1>10, <1>11 DEF Next

THEOREM Invariance == Spec => []Inv
<1>1. Init => Inv
  BY HandoverAssumption DEF Init, Inv, Shape, ResolvedInv, MountsInv, DryInv, StartedInv,
     ContainerAccepts, Command, DryRun, Launch, Stages, Begun, Handed, BlobMounts
<1>2. Inv /\ [Next]_vars => Inv'
  BY ShapeStep, ResolvedStep, MountsStep, DryStep, StartedStep, AcceptsStep DEF Inv
<1> QED
  BY <1>1, <1>2, PTL DEF Spec

-----------------------------------------------------------------------------
(* What the host hands over, the container takes: a launch of a portable   *)
(* inventory is refused inside the container only when an artifact was     *)
(* damaged under its feet (read_projection, open_verified and the          *)
(* post-check against resolve_runtime and load_inventory).                 *)
THEOREM Accepted == Spec => []ContainerAccepts
<1>1. Inv => ContainerAccepts
  BY DEF Inv
<1> QED
  BY <1>1, Invariance, PTL

(* The container starts with exactly the versions that were asked for,     *)
(* each one reviewed and allowed.                                          *)
THEOREM AsRequested == Spec => []StartsAsRequested
<1>1. Inv => StartsAsRequested
  <2> SUFFICES ASSUME Inv, stage[Launch] = "started", NEW n \in Present(read[Launch])
               PROVE  LET inv == read[Launch]
                      IN  /\ home[inv[n].package] = Chosen(inv[n], request.override[n])
                          /\ home[inv[n].package] \in inv[n].allowed \cap DOMAIN inv[n].catalogue
    BY DEF StartsAsRequested
  <2> DEFINE inv == read[Launch]
             entry == projection[Launch][n]
  <2>1. ResolvedFrom(Launch) /\ Outdated = {}
    BY DEF Inv, ResolvedInv, StartedInv, Begun, Handed, Command
  <2>2. n \in DOMAIN projection[Launch] /\ entry = Resolved(inv, request.override)[n]
    BY <2>1, ResolvedDomain DEF ResolvedFrom
  <2>3. home[entry.package] = entry.version
    BY <2>1, <2>2 DEF Outdated
  <2>4. entry.package = inv[n].package /\ entry.version = Chosen(inv[n], request.override[n])
    BY <2>2, ResolvedEntry
  <2>5. Chosen(inv[n], request.override[n]) \in inv[n].allowed \cap DOMAIN inv[n].catalogue
    BY <2>1, ChosenAdmitted DEF ResolvedFrom
  <2> QED
    BY <2>3, <2>4, <2>5
<1> QED
  BY <1>1, Invariance, PTL

(* Each selected artifact is mounted once and by itself, nothing else is,  *)
(* and no destination is used twice (_validate_run_inputs).                *)
THEOREM MountsSelected == Spec => []MountsAreTheSelection
<1>1. Inv => MountsAreTheSelection
  <2> SUFFICES ASSUME Inv, stage[Launch] \in Handed
               PROVE  LET targets == {m.target : m \in mounts[Launch]}
                          spaces == {request.workspaces[i] : i \in DOMAIN request.workspaces}
                          used == <<FixedTarget, spaces, targets,
                                    IF request.trust THEN {TrustTarget} ELSE {}>>
                      IN  /\ targets = {projection[Launch][n].id : n \in DOMAIN projection[Launch]}
                          /\ \A d \in Digest :
                                Cardinality({m \in mounts[Launch] : m.target[2] = d}) <= 1
                          /\ \A i, j \in DOMAIN used : i # j => used[i] \cap used[j] = {}
    BY DEF MountsAreTheSelection, Handed
  <2> DEFINE targets == {m.target : m \in mounts[Launch]}
             spaces == {request.workspaces[i] : i \in DOMAIN request.workspaces}
             trust == IF request.trust THEN {TrustTarget} ELSE {}
  <2>1. /\ ResolvedFrom(Launch) /\ mounts[Launch] = BlobMounts
        /\ Renderable(request, mounts[Launch])
    BY DEF Inv, ResolvedInv, MountsInv, Begun, Handed, Command
  <2>2. \A n \in DOMAIN projection[Launch] :
           projection[Launch][n].id = ArtifactId(projection[Launch][n].integrity)
    BY <2>1, ResolvedDomain, ResolvedEntry DEF ResolvedFrom
  <2>3. targets = {ArtifactId(i) : i \in Selected(projection[Launch])}
    <3>1. \A i : BlobMount(i).target = ArtifactId(i)
      BY DEF BlobMount
    <3>2. targets = {m.target : m \in {BlobMount(i) : i \in Selected(projection[Launch])}}
      BY <2>1 DEF BlobMounts
    <3>3. \A t \in targets : \E i \in Selected(projection[Launch]) : t = ArtifactId(i)
      BY <3>1, <3>2
    <3>4. ASSUME NEW i \in Selected(projection[Launch]) PROVE ArtifactId(i) \in targets
      <4>1. BlobMount(i) \in {BlobMount(k) : k \in Selected(projection[Launch])}
        OBVIOUS
      <4>2. BlobMount(i).target \in targets
        BY <3>2, <4>1
      <4> QED
        BY <3>1, <4>2
    <3> QED
      BY <3>3, <3>4
  <2>4. targets = {projection[Launch][n].id : n \in DOMAIN projection[Launch]}
    BY <2>2, <2>3 DEF Selected
  <2>5. ASSUME NEW d \in Digest
        PROVE  Cardinality({m \in mounts[Launch] : m.target[2] = d}) <= 1
    <3> DEFINE M == {m \in mounts[Launch] : m.target[2] = d}
    <3>1. ASSUME NEW m \in M
          PROVE  m \in mounts[Launch] /\ m.source = ArtifactId(Canonical(d))
      <4>1. PICK i \in Selected(projection[Launch]) : m = BlobMount(i)
        BY <2>1 DEF BlobMounts
      <4>2. i.digest = d
        BY <4>1 DEF BlobMount, ArtifactId
      <4> QED
        BY <4>1, <4>2 DEF BlobMount
    <3>2. \A m, n \in M : m = n
      BY <2>1, <3>1 DEF Renderable
    <3>3. M = {} \/ \E m : M = {m}
      <4> HIDE DEF M
      <4> QED
        BY <3>2
    <3>4. CASE M = {}
      BY <3>4, FS_EmptySet
    <3>5. CASE \E m : M = {m}
      <4>1. PICK m : M = {m}
        BY <3>5
      <4>2. Cardinality({m}) = 1
        BY FS_Singleton
      <4> HIDE DEF M
      <4>3. Cardinality(M) <= 1
        BY <4>1, <4>2
      <4> QED
        BY <4>3 DEF M
    <3> QED
      BY <3>3, <3>4, <3>5
  <2>6. spaces \cap (FixedTarget \cup targets) = {}
    BY <2>1 DEF Renderable
  <2>7. request.trust => TrustTarget \notin spaces \cup targets
    BY <2>1 DEF Renderable
  <2>8. FixedTarget \cap targets = {}
    BY <2>3, Identifiers
  <2>9. TrustTarget \notin FixedTarget
    BY DEF TrustTarget, FixedTarget
  <2>10. /\ trust \cap spaces = {} /\ trust \cap targets = {} /\ trust \cap FixedTarget = {}
    BY <2>7, <2>9
  <2> HIDE DEF targets, spaces, trust
  <2>11. \A i, j \in DOMAIN <<FixedTarget, spaces, targets, trust>> :
            i # j => <<FixedTarget, spaces, targets, trust>>[i]
                        \cap <<FixedTarget, spaces, targets, trust>>[j] = {}
    BY <2>6, <2>8, <2>10
  <2> QED
    BY <2>4, <2>5, <2>11 DEF targets, spaces, trust
<1> QED
  BY <1>1, Invariance, PTL

(* A dry run foretells the launch: what the launch fetches was announced,  *)
(* and the mounts of the vector are the mounts it printed.                 *)
THEOREM Foretold == Spec => DryRunForetells
<1>1. Inv /\ [Next]_vars =>
        [stage[DryRun] = "printed" /\ read[DryRun] = read[Launch] /\ damaged = {} =>
          /\ fetched' \ fetched \subseteq misses
          /\ (stage'[Launch] = "running" /\ AllPortable(read[Launch]))
                => mounts[DryRun] = mounts[Launch]]_vars
  <2> SUFFICES ASSUME Inv, [Next]_vars, stage[DryRun] = "printed",
                      read[DryRun] = read[Launch], damaged = {}
               PROVE  /\ fetched' \ fetched \subseteq misses
                      /\ (stage'[Launch] = "running" /\ AllPortable(read[Launch]))
                            => mounts[DryRun] = mounts[Launch]
    OBVIOUS
  <2>1. /\ ResolvedFrom(DryRun) /\ Shape /\ MountsInv
        /\ mounts[DryRun] = {DryMount(i) : i \in Selected(projection[DryRun])}
        /\ \A i \in Selected(projection[DryRun]) : i.digest \in misses \cup cached
        /\ stage[Launch] \in Begun => ResolvedFrom(Launch)
    BY DEF Inv, ResolvedInv, DryInv, Begun, Handed, Command
  <2>2. stage[Launch] \in Begun => projection[Launch] = projection[DryRun]
    BY <2>1 DEF ResolvedFrom
  <2>3. fetched' \ fetched \subseteq misses
    <3>1. CASE fetched' = fetched
      BY <3>1
    <3>2. ASSUME NEW i \in Pending, Materialize(i)
          PROVE  fetched' \ fetched \subseteq misses
      <4>1. /\ stage[Launch] = "resolved" /\ i \in Selected(projection[Launch])
            /\ fetched' = fetched \/ fetched' = fetched \cup ({i.digest} \ cached)
        BY <3>2 DEF Materialize, Pending
      <4> QED
        BY <2>1, <2>2, <4>1 DEF Begun
    <3>3. fetched' = fetched \/ \E i \in Pending : Materialize(i)
      BY DEF Next, Resolve, Plan, Publish, Run, Read, Install, Start, EditInventory,
         DamageArtifact, cacheVars, vars
    <3> QED
      BY <3>1, <3>2, <3>3
  <2>4. ASSUME stage'[Launch] = "running", AllPortable(read[Launch])
        PROVE  mounts[DryRun] = mounts[Launch]
    <3>1. stage[Launch] \in {"published", "running"}
      BY <2>1, <2>4 DEF Next, Resolve, Plan, Materialize, Publish, Run, Read, Install, Start,
         EditInventory, DamageArtifact, cacheVars, commandVars, vars, Goto, Shape, Command,
         Launch, DryRun
    <3>2. mounts[Launch] = {BlobMount(i) : i \in Selected(projection[Launch])}
      BY <2>1, <3>1 DEF MountsInv, BlobMounts, Handed
    <3>3. ResolvedFrom(Launch) /\ projection[Launch] = projection[DryRun]
      BY <2>1, <2>2, <3>1 DEF Begun, Handed
    <3>4. \A i \in Selected(projection[Launch]) : DryMount(i) = BlobMount(i)
      BY <2>4, <3>3, PortableSelection DEF ResolvedFrom
    <3> QED
      BY <2>1, <3>2, <3>3, <3>4
  <2> QED
    BY <2>3, <2>4
<1> QED
  BY <1>1, Invariance, PTL DEF Spec, DryRunForetells
=============================================================================
