--------------------------- MODULE ConstructorProofs ---------------------------
(***************************************************************************)
(* What TLAPS proves of Constructor and of the two components it composes, *)
(* UpdateCheck and Doctor: for every number of invocations, every          *)
(* inventory, every set of releases and every bound.                       *)
(***************************************************************************)
EXTENDS Constructor, TLAPS, SequenceTheorems, WellFoundedInduction

-----------------------------------------------------------------------------
(* Operators.                                                              *)

(* A non-empty set of places has a first one. *)
LEMMA FirstPlace ==
  ASSUME NEW S, S \subseteq Nat, S # {}
  PROVE  Min(S) \in S
<1>1. PICK n \in S : \A m \in S : ~(<<m, n>> \in OpToRel(<, Nat))
  BY NatLessThanWellFounded, WFMin
<1>2. \A m \in S : ~(m < n)
  BY <1>1 DEF OpToRel
<1>3. \A m \in S : n <= m
  BY <1>2
<1>. QED  BY <1>3 DEF Min

(* A non-empty set of versions has a highest one (the providers' max). *)
LEMMA HighestIn ==
  ASSUME NEW S, S \subseteq Version, S # {}
  PROVE  Highest(S) \in S
<1> DEFINE T == {Versions - v : v \in S}
<1>1. Versions \in Nat /\ S \subseteq 1..Versions
  BY InventoryAssumption DEF Version
<1>2. T \subseteq Nat /\ T # {}
  <2>1. \A v \in S : Versions - v \in Nat
    BY <1>1
  <2> QED
    BY <2>1
<1>3. PICK n \in T : \A m \in T : ~(<<m, n>> \in OpToRel(<, Nat))
  BY <1>2, NatLessThanWellFounded, WFMin
<1>4. \A m \in T : ~(m < n)
  <2> HIDE DEF T
  <2> QED
    BY <1>2, <1>3 DEF OpToRel
<1>5. PICK v \in S : n = Versions - v
  BY <1>3
<1>6. \A w \in S : ~(Versions - w < Versions - v)
  BY <1>4, <1>5
<1>7. \A w \in S : w <= v
  BY <1>1, <1>6
<1>. QED  BY <1>7 DEF Highest

(* Whatever a provider takes from the first n releases is one of them. *)
LEMMA EligibleReleased ==
  ASSUME NEW e \in Entry, NEW n \in 1..Versions, NEW prereleases
  PROVE  Eligible(e, n, prereleases) \subseteq 1..n
<1>1. KindOf[e] \in Kind
  BY InventoryAssumption
<1>. QED  BY <1>1 DEF Eligible, Kind, NpmReleases, PypiReleases, GithubReleases, ChannelRust,
                      PythonDownloads, TagDigest, InstallerDigest, BranchHead

ResultRecord == [status : Statuses, candidate : Version \cup {NoVersion}, platforms : SUBSET Platform]

(* What an outdated result says of the block it was compared with. *)
SoundFor(e, block, prereleases, result) ==
    result.status = "outdated" =>
        /\ \E n \in 1..Versions : result.candidate \in Eligible(e, n, prereleases)
        /\ Complete(e, block, result.candidate)
        /\ result.platforms = FoundAssets(e, block, result.candidate)
        /\ KindOf[e] \notin Opaque => result.candidate >= block.version

(* _classify_candidate reports an outdated target with a complete          *)
(* candidate that is eligible and not lower.                               *)
LEMMA ClassifiedSound ==
  ASSUME NEW e \in Entry, NEW block \in Block, NEW n \in 1..Versions, NEW prereleases
  PROVE  /\ Classified(e, block, n, prereleases) \in ResultRecord
         /\ Classified(e, block, n, prereleases).status # "outage"
         /\ SoundFor(e, block, prereleases, Classified(e, block, n, prereleases))
<1> DEFINE known == Eligible(e, n, prereleases)
           best == Highest(known)
           result == Classified(e, block, n, prereleases)
<1>1. known \subseteq Version
  BY EligibleReleased, InventoryAssumption DEF Version
<1>2. CASE KindOf[e] = "pi" \/ known = {}
  <2>1. result = Skipped
    BY <1>2 DEF Classified
  <2> QED
    BY <2>1 DEF Skipped, ResultRecord, Statuses, SoundFor
<1>3. CASE ~(KindOf[e] = "pi" \/ known = {})
  <2>1. best \in known /\ best \in Version
    BY <1>1, <1>3, HighestIn
  <2> HIDE DEF known
  <2> HIDE DEF best
  <2>2. CASE best = block.version \/ (KindOf[e] \notin Opaque /\ best < block.version)
    <3>1. result = Current(block.version)
      <4> DEFINE old == best = block.version \/ (KindOf[e] \notin Opaque /\ best < block.version)
      <4>1. result = IF KindOf[e] = "pi" \/ known = {} THEN Skipped
                     ELSE IF old THEN Current(block.version)
                     ELSE [status |-> IF Complete(e, block, best) THEN "outdated" ELSE "incomplete",
                           candidate |-> best, platforms |-> FoundAssets(e, block, best)]
        BY DEF Classified, known, best
      <4> HIDE DEF old, result
      <4> QED
        BY <1>3, <2>2, <4>1 DEF old
    <3> QED
      BY <3>1 DEF Current, ResultRecord, Statuses, SoundFor, Block
  <2>3. CASE ~(best = block.version \/ (KindOf[e] \notin Opaque /\ best < block.version))
    <3>1. result = [status |-> IF Complete(e, block, best) THEN "outdated" ELSE "incomplete",
                    candidate |-> best, platforms |-> FoundAssets(e, block, best)]
      BY <1>3, <2>3 DEF Classified, known, best
    <3>2. FoundAssets(e, block, best) \subseteq Platform
      BY InventoryAssumption DEF FoundAssets
    <3>3. result \in ResultRecord /\ result.status # "outage"
      BY <3>1, <3>2, <2>1 DEF ResultRecord, Statuses
    <3>4. KindOf[e] \notin Opaque => best >= block.version
      BY <2>1, <2>3, InventoryAssumption DEF Block, Version
    <3>5. SoundFor(e, block, prereleases, result)
      <4> SUFFICES ASSUME result.status = "outdated"
                   PROVE  /\ best \in Eligible(e, n, prereleases)
                          /\ Complete(e, block, best)
                          /\ KindOf[e] \notin Opaque => best >= block.version
        BY <3>1 DEF SoundFor
      <4> QED
        BY <2>1, <3>1, <3>4 DEF known
    <3> QED
      BY <3>3, <3>5
  <2> QED
    BY <2>2, <2>3
<1>. QED  BY <1>2, <1>3

(* Blocks stay blocks under an overlay. *)
LEMMA OverlaidType ==
  ASSUME NEW e \in Entry, NEW block \in Block, NEW result \in ResultRecord, NEW checkedVersion,
         result.status = "outdated" => result.candidate \in Version
  PROVE  Overlaid(e, block, result, checkedVersion) \in Block
<1>1. CASE result.status # "outdated"
  BY <1>1 DEF Overlaid
<1>2. CASE result.status = "outdated"
  <2> DEFINE v == result.candidate
             from == IF KindOf[e] = "release" \/ (KindOf[e] = "rust" /\ block.source = checkedVersion)
                         THEN v ELSE block.source
             links == [p \in Platform |-> IF p \in result.platforms THEN v ELSE block.urls[p]]
             known == IF KindOf[e] = "extension" THEN block.catalogue \cup {v}
                            ELSE block.catalogue
  <2>1. v \in Version
    BY <1>2
  <2>2. from \in Version \cup {NoVersion} /\ known \subseteq Version
    BY <2>1 DEF Block
  <2>3. links \in [Platform -> Version \cup {NoVersion}]
    BY <2>1 DEF Block
  <2>4. Overlaid(e, block, result, checkedVersion)
          = [version |-> v, source |-> from, urls |-> links, catalogue |-> known]
    BY <1>2 DEF Overlaid, Block
  <2> HIDE DEF from, links, known
  <2> QED
    BY <2>1, <2>2, <2>3, <2>4 DEF Block
<1>. QED  BY <1>1, <1>2

-----------------------------------------------------------------------------
(* The disk cache keeps its types.                                         *)

(* Answers of the upstreams are answers. *)
LEMMA FetchedAnswer ==
  ASSUME CacheTypeOK, NEW k \in Key
  PROVE  Fetched(k) \in Answer /\ Fetched(k).ts = now /\ (Fetched(k).releases = Down <=> ~online)
  BY CacheAssumption DEF CacheTypeOK, Fetched, Answer, Down

(* The disk serves whole answers, or a garbled one. *)
LEMMA ServedAnswer ==
  ASSUME CacheTypeOK, NEW k \in Key, NEW a \in Served(k)
  PROVE  a = Garbled \/ a \in Answer
<1>1. entry[k] \in Session
  BY DEF Served, CacheTypeOK, File
<1>2. content[<<entry[k], k>>] \in [head : Answer \cup {Blank}, tail : Answer \cup {Blank}]
  BY <1>1 DEF CacheTypeOK
<1> DEFINE file == content[<<entry[k], k>>]
<1>3. file.head \in Answer /\ file.tail \in Answer
  BY <1>1, <1>2, CacheAssumption DEF Served
<1>4. a \in {file.head, file.tail, Garbled}
  BY <1>1, CacheAssumption DEF Served
<1>. QED  BY <1>3, <1>4

(* DiskCache.set and its parts keep the types. *)
LEMMA KeepType ==
  ASSUME CacheTypeOK, UNCHANGED worldVars, NEW s \in Session, NEW k \in Key,
         \/ \E answer \in Answer : Keep(s, answer)
         \/ OpenSpare(s, k) \/ WriteHead(s, k) \/ WriteTail(s, k)
         \/ PublishSpare(s, k) \/ KeepFails(s, k),
         writing[s] \in {"head", "tail"} => open[s] \in Session
  PROVE  CacheTypeOK'
<1> USE CacheAssumption DEF CacheTypeOK, worldVars, File
<1>1. ASSUME NEW answer \in Answer, Keep(s, answer) PROVE CacheTypeOK'
  BY <1>1 DEF Keep
<1>2. CASE OpenSpare(s, k)
  BY <1>2 DEF OpenSpare, Empty
<1>3. CASE WriteHead(s, k)
  BY <1>3 DEF WriteHead
<1>4. CASE WriteTail(s, k)
  BY <1>4 DEF WriteTail
<1>5. CASE PublishSpare(s, k)
  BY <1>5 DEF PublishSpare, Closed
<1>6. CASE KeepFails(s, k)
  BY <1>6 DEF KeepFails, Closed
<1>. QED  BY <1>1, <1>2, <1>3, <1>4, <1>5, <1>6

(* The clock, releases and the network keep the types. *)
LEMMA WorldType ==
  ASSUME CacheTypeOK, World
  PROVE  CacheTypeOK'
<1> USE CacheAssumption DEF CacheTypeOK, cacheVars
<1>1. CASE Tick
  BY <1>1 DEF Tick
<1>2. ASSUME NEW k \in Key, Release(k) PROVE CacheTypeOK'
  BY <1>2 DEF Release
<1>3. CASE GoDown
  <2>1. now \in Int /\ -1 <= now /\ outages + 1 \in 0..MaxOutages
    BY <1>3 DEF GoDown
  <2>2. online' \in BOOLEAN
    BY <1>3 DEF GoDown
  <2> QED
    BY <1>3, <2>1, <2>2 DEF GoDown
<1>4. CASE ComeBack
  BY <1>4 DEF ComeBack
<1>. QED  BY <1>1, <1>2, <1>3, <1>4 DEF World

-----------------------------------------------------------------------------
(* Update checks.                                                          *)

Printing == {"SUCCESS", "POLICY", "OPERATIONAL"}
Printed(s) == stage[s] = "done" /\ verdict[s] \in Printing
Underway == {"asking", "keeping", "rendering"}

(* A session's results come from the inventory it loaded.  While it runs   *)
(* unedited that is the inventory of the day, and the second read gives    *)
(* the same.                                                               *)
CheckInv ==
    /\ TypeOK
    /\ \A s \in Session :
          /\ stage[s] \in {"asking", "keeping"} => queue[s] # {}
          /\ stage[s] = "keeping" <=> writing[s] # "no"
          /\ writing[s] # "no" => fetched[s] \in Answer /\ fetched[s].ts = now
          /\ writing[s] \in {"head", "tail", "rename"} => open[s] \in Session
          /\ stage[s] = "idle" => \A e \in Entry : results[s][e] = NoResult
          /\ stage[s] \in Underway =>
                /\ verdict[s] = "none"
                /\ Loads(checked[s])
                /\ s \notin edited => doc = checked[s]
          /\ Printed(s) =>
                /\ Loads(checked[s])
                /\ s \notin edited => base[s] = checked[s]
          /\ stage[s] = "idle" => verdict[s] = "none"
          /\ \A e \in Entry :
                SoundFor(e, checked[s][e], option[s].prereleases, results[s][e])
          /\ began[s] <= now

(* The target a session is at is an entry. *)
LEMMA DueEntry ==
  ASSUME CheckInv, NEW s \in Session, stage[s] \in {"asking", "keeping"}
  PROVE  Due(s) \in Entry /\ Due(s) \in Key /\ Min(queue[s]) \in queue[s]
<1>1. queue[s] # {} /\ queue[s] \subseteq DOMAIN Targets
  BY DEF CheckInv, TypeOK
<1>2. DOMAIN Targets \subseteq Nat /\ \A i \in DOMAIN Targets : Targets[i] \in Entry
  BY UpdateAssumption
<1>3. Min(queue[s]) \in queue[s]
  BY <1>1, <1>2, FirstPlace
<1>. QED  BY <1>1, <1>2, <1>3, UpdateAssumption DEF Due

(* What a provider makes of an answer is a sound result; a failed          *)
(* connection is told from the answer the transport made of it.            *)
LEMMA ResultSound ==
  ASSUME CheckInv, NEW s \in Session, NEW e \in Entry, NEW a, a = Garbled \/ a \in Answer
  PROVE  /\ Result(s, e, a) \in ResultRecord
         /\ SoundFor(e, checked[s][e], option[s].prereleases, Result(s, e, a))
         /\ Result(s, e, a).status = "outage" => a \in Answer /\ a.releases = Down
<1> USE DEF ResultRecord, Statuses, SoundFor
<1>1. CASE KindOf[e] = "pi"
  BY <1>1 DEF Result, Skipped
<1>2. CASE KindOf[e] # "pi" /\ a = Garbled
  BY <1>2 DEF Result, Unavailable, Skipped
<1>3. CASE KindOf[e] # "pi" /\ a # Garbled /\ a.releases = Down
  BY <1>3 DEF Result, Outage, Skipped
<1>4. CASE KindOf[e] # "pi" /\ a # Garbled /\ a.releases # Down
  <2>1. Result(s, e, a) = Classified(e, checked[s][e], a.releases, option[s].prereleases)
    BY <1>4 DEF Result
  <2>2. a.releases \in 1..Versions /\ checked[s][e] \in Block
    BY <1>4, UpdateAssumption, CacheAssumption DEF Answer, Down, CheckInv, TypeOK
  <2> QED
    BY <2>1, <2>2, ClassifiedSound
<1>. QED  BY <1>1, <1>2, <1>3, <1>4

(* A candidate is a version. *)
LEMMA CandidateVersion ==
  ASSUME CheckInv, NEW s \in Session, NEW e \in Entry, results[s][e].status = "outdated"
  PROVE  results[s][e].candidate \in Version
<1>1. PICK n \in 1..Versions : results[s][e].candidate \in Eligible(e, n, option[s].prereleases)
  BY DEF CheckInv, SoundFor
<1>. QED  BY <1>1, EligibleReleased, InventoryAssumption DEF Version

(* Pasting blocks into an inventory gives an inventory. *)
LEMMA PastedType ==
  ASSUME CheckInv, NEW s \in Session, NEW document \in [Entry -> Block]
  PROVE  Pasted(s, document) \in [Entry -> Block]
<1>1. ASSUME NEW e \in Entry PROVE Fragment(s, e) \in Block
  <2>1. results[s][e] \in ResultRecord /\ base[s][e] \in Block
    BY DEF CheckInv, TypeOK, ResultRecord
  <2> QED
    BY <2>1, CandidateVersion, OverlaidType DEF Fragment
<1>. QED  BY <1>1 DEF Pasted

(* The invariant holds at the start. *)
LEMMA InitCheck == Init => CheckInv
<1> SUFFICES ASSUME Init PROVE CheckInv
  OBVIOUS
<1> USE InventoryAssumption, CacheAssumption, UpdateAssumption
<1>1. CacheTypeOK
  BY DEF Init, CacheInit, CacheTypeOK, File, Answer, Empty
<1>2. doc \in [Entry -> Block] /\ now = 0 /\ \A s \in Session : writing[s] = "no"
  BY DEF Init, CacheInit
<1>3. NoResult.status = "none" /\ NoResult \in ResultRecord
  BY DEF NoResult, Skipped, ResultRecord, Statuses
<1>4. results \in [Session -> [Entry -> ResultRecord]]
  BY <1>3 DEF Init
<1>5. TypeOK
  BY <1>1, <1>2, <1>4 DEF Init, TypeOK, StageOf, Verdicts, ResultRecord
<1>. QED  BY <1>2, <1>3, <1>5 DEF Init, CheckInv, Underway, Printed, SoundFor

(* Resolving the target a session is at keeps the invariant. *)
LEMMA ResolveKeeps ==
  ASSUME CheckInv, NEW s \in Session, stage[s] \in {"asking", "keeping"}, NEW result \in ResultRecord,
         SoundFor(Due(s), checked[s][Due(s)], option[s].prereleases, result),
         Resolve(s, result), CacheTypeOK',
         UNCHANGED <<doc, edits, option, checked, began, base, edited, verdict, worldVars>>,
         \/ stage[s] = "asking" /\ UNCHANGED cacheVars
         \/ Closed(s)
  PROVE  CheckInv'
<1>1. Due(s) \in Entry /\ Min(queue[s]) \in queue[s]
  BY DueEntry
<1> DEFINE rest == queue[s] \ {Min(queue[s])}
           next == IF rest = {} THEN "rendering" ELSE "asking"
<1>2. /\ results' = [results EXCEPT ![s][Due(s)] = result]
      /\ queue' = [queue EXCEPT ![s] = rest]
      /\ stage' = [stage EXCEPT ![s] = next]
  BY DEF Resolve
<1>3. next \in {"asking", "rendering"} /\ (next = "asking" => rest # {})
  OBVIOUS
<1> HIDE DEF next
<1>4. rest \subseteq DOMAIN Targets
  BY DEF CheckInv, TypeOK
<1> HIDE DEF rest
<1>5. results' \in [Session -> [Entry -> ResultRecord]]
  BY <1>1, <1>2 DEF CheckInv, TypeOK, ResultRecord
<1>6. TypeOK'
  BY <1>2, <1>3, <1>4, <1>5 DEF CheckInv, TypeOK, StageOf, ResultRecord, worldVars
<1>7. ASSUME NEW t \in Session, NEW e \in Entry
      PROVE  SoundFor(e, checked[t][e], option[t].prereleases, results[t][e])'
  <2>1. CASE t = s /\ e = Due(s)
    <3>1. results'[t][e] = result
      BY <1>1, <1>2, <2>1 DEF CheckInv, TypeOK
    <3> QED
      BY <3>1, <2>1 DEF SoundFor
  <2>2. CASE ~(t = s /\ e = Due(s))
    <3>1. results'[t][e] = results[t][e]
      BY <1>1, <1>2, <2>2 DEF CheckInv, TypeOK
    <3> QED
      BY <3>1 DEF SoundFor, CheckInv
  <2> QED
    BY <2>1, <2>2
<1>8. ASSUME NEW t \in Session
      PROVE  /\ (stage[t] \in {"asking", "keeping"} => queue[t] # {})'
             /\ (stage[t] = "keeping" <=> writing[t] # "no")'
             /\ (writing[t] # "no" => fetched[t] \in Answer /\ fetched[t].ts = now)'
             /\ (writing[t] \in {"head", "tail", "rename"} => open[t] \in Session)'
  BY <1>2, <1>3 DEF CheckInv, TypeOK, CacheTypeOK, cacheVars, worldVars, Closed
<1>9. ASSUME NEW t \in Session
      PROVE  /\ (stage[t] = "idle" => \A e \in Entry : results[t][e] = NoResult)'
             /\ (stage[t] \in Underway =>
                   /\ verdict[t] = "none"
                   /\ Loads(checked[t])
                   /\ t \notin edited => doc = checked[t])'
             /\ (Printed(t) => Loads(checked[t]) /\ (t \notin edited => base[t] = checked[t]))'
             /\ (stage[t] = "idle" => verdict[t] = "none")'
             /\ (began[t] <= now)'
  BY <1>1, <1>2, <1>3 DEF CheckInv, TypeOK, Underway, Printed, worldVars, Loads
<1>. QED  BY <1>6, <1>7, <1>8, <1>9 DEF CheckInv

(* Reading the inventory keeps the invariant. *)
LEMMA LoadKeeps ==
  ASSUME CheckInv, NEW s \in Session, Load(s)
  PROVE  CheckInv'
<1> DEFINE picked == {i \in DOMAIN Targets : Targets[i] \in option[s].only}
<1>1. /\ checked' = [checked EXCEPT ![s] = doc]
      /\ began' = [began EXCEPT ![s] = now]
      /\ queue' = [queue EXCEPT ![s] = picked]
      /\ stage[s] = "idle"
      /\ UNCHANGED <<doc, edits, option, results, base, edited, worldVars, cacheVars>>
  BY DEF Load
<1>2. \/ /\ Loads(doc) /\ picked # {}
         /\ stage' = [stage EXCEPT ![s] = "asking"] /\ verdict' = verdict
      \/ stage' = [stage EXCEPT ![s] = "done"] /\ verdict' = [verdict EXCEPT ![s] = "CONFIG"]
  BY DEF Load, Finish
<1>3. picked \subseteq DOMAIN Targets
  OBVIOUS
<1> HIDE DEF picked
<1>4. CacheTypeOK'
  BY <1>1 DEF CheckInv, TypeOK, CacheTypeOK, worldVars, cacheVars
<1>5. TypeOK'
  <2>1. stage' \in [Session -> StageOf] /\ verdict' \in [Session -> Verdicts]
    <3>1. stage \in [Session -> StageOf] /\ verdict \in [Session -> Verdicts]
      BY DEF CheckInv, TypeOK
    <3> QED
      BY <1>2, <3>1 DEF StageOf, Verdicts
  <2>2. /\ checked' \in [Session -> [Entry -> Block]]
        /\ began' \in [Session -> 0..MaxTime]
        /\ queue' \in [Session -> SUBSET DOMAIN Targets]
    BY <1>1, <1>3 DEF CheckInv, TypeOK, CacheTypeOK
  <2> QED
    BY <1>1, <1>4, <2>1, <2>2 DEF CheckInv, TypeOK, StageOf, Verdicts
<1>6. ASSUME NEW t \in Session, NEW e \in Entry
      PROVE  SoundFor(e, checked[t][e], option[t].prereleases, results[t][e])'
  <2>1. CASE t = s
    <3>1. results'[t][e] = NoResult
      BY <1>1, <2>1 DEF CheckInv
    <3> QED
      BY <3>1 DEF SoundFor, NoResult, Skipped
  <2>2. CASE t # s
    <3>1. checked'[t] = checked[t] /\ results' = results /\ option' = option
      BY <1>1, <2>2 DEF CheckInv, TypeOK
    <3> QED
      BY <3>1 DEF SoundFor, CheckInv
  <2> QED
    BY <2>1, <2>2
<1>7. ASSUME NEW t \in Session
      PROVE  /\ (stage[t] \in {"asking", "keeping"} => queue[t] # {})'
             /\ (stage[t] = "keeping" <=> writing[t] # "no")'
             /\ (writing[t] # "no" => fetched[t] \in Answer /\ fetched[t].ts = now)'
             /\ (writing[t] \in {"head", "tail", "rename"} => open[t] \in Session)'
             /\ (began[t] <= now)'
  BY <1>1, <1>2 DEF CheckInv, TypeOK, CacheTypeOK, cacheVars, worldVars
<1>8. ASSUME NEW t \in Session
      PROVE  /\ (stage[t] = "idle" => \A e \in Entry : results[t][e] = NoResult)'
             /\ (stage[t] \in Underway =>
                   /\ verdict[t] = "none"
                   /\ Loads(checked[t])
                   /\ t \notin edited => doc = checked[t])'
             /\ (Printed(t) => Loads(checked[t]) /\ (t \notin edited => base[t] = checked[t]))'
             /\ (stage[t] = "idle" => verdict[t] = "none")'
  BY <1>1, <1>2 DEF CheckInv, TypeOK, Underway, Printed, Printing, Loads
<1>. QED  BY <1>5, <1>6, <1>7, <1>8 DEF CheckInv

(* Only the session's own cache file and stage move: the rest follows. *)
LEMMA CacheKeeps ==
  ASSUME CheckInv, NEW s \in Session, CacheTypeOK',
         UNCHANGED <<doc, edits, option, checked, began, queue, results, base, edited, verdict,
                     worldVars>>,
         \/ stage' = stage
         \/ stage' = [stage EXCEPT ![s] = "keeping"] /\ stage[s] = "asking"
         \/ stage' = [stage EXCEPT ![s] = "done"] /\ stage[s] \in Underway,
         \A t \in Session :
            /\ (stage[t] = "keeping" <=> writing[t] # "no")'
            /\ (writing[t] # "no" => fetched[t] \in Answer /\ fetched[t].ts = now)'
            /\ (writing[t] \in {"head", "tail", "rename"} => open[t] \in Session)'
  PROVE  CheckInv'
<1>1. TypeOK'
  <2>1. stage \in [Session -> StageOf]
    BY DEF CheckInv, TypeOK
  <2>2. stage' \in [Session -> StageOf]
    BY <2>1 DEF StageOf
  <2> QED
    BY <2>2 DEF CheckInv, TypeOK, worldVars
<1>2. ASSUME NEW t \in Session, NEW e \in Entry
      PROVE  SoundFor(e, checked[t][e], option[t].prereleases, results[t][e])'
  BY DEF SoundFor, CheckInv
<1>3. ASSUME NEW t \in Session
      PROVE  /\ (stage[t] \in {"asking", "keeping"} => queue[t] # {})'
             /\ (stage[t] = "idle" => \A e \in Entry : results[t][e] = NoResult)'
             /\ (stage[t] \in Underway =>
                   /\ verdict[t] = "none"
                   /\ Loads(checked[t])
                   /\ t \notin edited => doc = checked[t])'
             /\ (Printed(t) => Loads(checked[t]) /\ (t \notin edited => base[t] = checked[t]))'
             /\ (stage[t] = "idle" => verdict[t] = "none")'
             /\ (began[t] <= now)'
  BY DEF CheckInv, TypeOK, Underway, Printed, Printing, Loads, worldVars
<1>. QED  BY <1>1, <1>2, <1>3 DEF CheckInv

(* Asking a provider keeps the invariant. *)
LEMMA AskKeeps ==
  ASSUME CheckInv, NEW s \in Session, AskDisk(s) \/ AskNetwork(s)
  PROVE  CheckInv'
<1> DEFINE e == Due(s)
<1>1. stage[s] = "asking" /\ CacheTypeOK
  BY DEF AskDisk, AskNetwork, CheckInv, TypeOK
<1>2. e \in Entry /\ e \in Key
  BY <1>1, DueEntry
<1> HIDE DEF e
<1>3. UNCHANGED <<doc, edits, option, checked, began, base, edited, verdict, worldVars>>
  BY DEF AskDisk, AskNetwork
<1>4. CASE AskDisk(s)
  <2>1. PICK a \in Served(e) : Resolve(s, Result(s, e, a))
    BY <1>4 DEF AskDisk, e
  <2>2. a = Garbled \/ a \in Answer
    BY <1>1, <1>2, ServedAnswer
  <2>3. UNCHANGED cacheVars
    BY <1>4 DEF AskDisk
  <2>4. CacheTypeOK'
    BY <1>1, <1>3, <2>3 DEF CacheTypeOK, cacheVars, worldVars
  <2>5. /\ Result(s, e, a) \in ResultRecord
        /\ SoundFor(Due(s), checked[s][Due(s)], option[s].prereleases, Result(s, e, a))
    BY <1>2, <2>2, ResultSound DEF e
  <2> QED
    BY <1>1, <1>3, <2>1, <2>3, <2>4, <2>5, ResolveKeeps
<1>5. CASE AskNetwork(s) /\ (Direct(s, e) \/ KindOf[e] = "pi")
  <2>1. Resolve(s, Result(s, e, Fetched(e))) /\ UNCHANGED cacheVars
    BY <1>5 DEF AskNetwork, e
  <2>2. Fetched(e) \in Answer
    BY <1>1, <1>2, FetchedAnswer
  <2>3. CacheTypeOK'
    BY <1>1, <1>3, <2>1 DEF CacheTypeOK, cacheVars, worldVars
  <2>4. /\ Result(s, e, Fetched(e)) \in ResultRecord
        /\ SoundFor(Due(s), checked[s][Due(s)], option[s].prereleases, Result(s, e, Fetched(e)))
    BY <1>2, <2>2, ResultSound DEF e
  <2> QED
    BY <1>1, <1>3, <2>1, <2>3, <2>4, ResolveKeeps
<1>6. CASE AskNetwork(s) /\ ~(Direct(s, e) \/ KindOf[e] = "pi")
  <2>1. /\ Keep(s, Fetched(e)) /\ stage' = [stage EXCEPT ![s] = "keeping"]
        /\ UNCHANGED <<results, queue>>
    BY <1>6 DEF AskNetwork, e
  <2>2. Fetched(e) \in Answer /\ Fetched(e).ts = now
    BY <1>1, <1>2, FetchedAnswer
  <2>3. writing[s] = "no"
    BY <1>1 DEF CheckInv, TypeOK, CacheTypeOK
  <2>4. CacheTypeOK'
    BY <1>1, <1>2, <1>3, <2>1, <2>2, <2>3, KeepType
  <2>5. ASSUME NEW t \in Session
        PROVE  /\ (stage[t] = "keeping" <=> writing[t] # "no")'
               /\ (writing[t] # "no" => fetched[t] \in Answer /\ fetched[t].ts = now)'
               /\ (writing[t] \in {"head", "tail", "rename"} => open[t] \in Session)'
    <3> HIDE DEF e
    <3> DEFINE a == Fetched(e)
    <3>1. /\ fetched' = [fetched EXCEPT ![s] = a] /\ a \in Answer /\ a.ts = now
          /\ writing' = [writing EXCEPT ![s] = "open"] /\ open' = open /\ now' = now
      BY <1>3, <2>1, <2>2 DEF Keep, worldVars
    <3> HIDE DEF a
    <3> QED
      BY <2>1, <3>1 DEF CheckInv, TypeOK, CacheTypeOK
  <2> QED
    BY <1>1, <1>3, <2>1, <2>4, <2>5, CacheKeeps
<1>. QED  BY <1>4, <1>5, <1>6

(* Keeping an answer, whatever becomes of it, keeps the invariant. *)
LEMMA KeepKeeps ==
  ASSUME CheckInv, NEW s \in Session, KeepStep(s) \/ Kept(s) \/ NotKept(s)
  PROVE  CheckInv'
<1> DEFINE e == Due(s)
<1>1. stage[s] = "keeping" /\ CacheTypeOK /\ writing[s] # "no" /\ fetched[s] \in Answer
  BY DEF KeepStep, Kept, NotKept, CheckInv, TypeOK
<1>2. e \in Entry /\ e \in Key
  BY <1>1, DueEntry
<1> HIDE DEF e
<1>3. UNCHANGED <<doc, edits, option, checked, began, base, edited, verdict, worldVars>>
  BY DEF KeepStep, Kept, NotKept, sessionVars
<1>4. writing[s] \in {"head", "tail"} => open[s] \in Session
  BY DEF CheckInv
<1>5. CASE KeepStep(s)
  <2>1. OpenSpare(s, e) \/ WriteHead(s, e) \/ WriteTail(s, e)
    BY <1>5 DEF KeepStep, e
  <2>2. CacheTypeOK'
    BY <1>1, <1>2, <1>3, <1>4, <2>1, KeepType
  <2>3. UNCHANGED <<stage, queue, results>>
    BY <1>5 DEF KeepStep, sessionVars
  <2>4. ASSUME NEW t \in Session
        PROVE  /\ (stage[t] = "keeping" <=> writing[t] # "no")'
               /\ (writing[t] # "no" => fetched[t] \in Answer /\ fetched[t].ts = now)'
               /\ (writing[t] \in {"head", "tail", "rename"} => open[t] \in Session)'
    BY <1>2, <1>3, <2>1, <2>3, CacheAssumption
       DEF CheckInv, TypeOK, CacheTypeOK, OpenSpare, WriteHead, WriteTail, File, worldVars
  <2> QED
    BY <1>3, <2>2, <2>3, <2>4, CacheKeeps
<1>6. CASE Kept(s)
  <2>1. PublishSpare(s, e) /\ Resolve(s, Result(s, e, fetched[s]))
    BY <1>6 DEF Kept, e
  <2>2. CacheTypeOK'
    BY <1>1, <1>2, <1>3, <1>4, <2>1, KeepType
  <2>3. /\ Result(s, e, fetched[s]) \in ResultRecord
        /\ SoundFor(Due(s), checked[s][Due(s)], option[s].prereleases, Result(s, e, fetched[s]))
    BY <1>1, <1>2, ResultSound DEF e
  <2>4. Closed(s)
    BY <2>1 DEF PublishSpare
  <2> QED
    BY <1>1, <1>3, <2>1, <2>2, <2>3, <2>4, ResolveKeeps
<1>7. CASE NotKept(s)
  <2>1. KeepFails(s, e) /\ Resolve(s, Unavailable)
    BY <1>7 DEF NotKept, e
  <2>2. CacheTypeOK'
    BY <1>1, <1>2, <1>3, <1>4, <2>1, KeepType
  <2>3. /\ Unavailable \in ResultRecord
        /\ SoundFor(Due(s), checked[s][Due(s)], option[s].prereleases, Unavailable)
    BY DEF Unavailable, Skipped, ResultRecord, Statuses, SoundFor
  <2>4. Closed(s)
    BY <2>1 DEF KeepFails
  <2> QED
    BY <1>1, <1>3, <2>1, <2>2, <2>3, <2>4, ResolveKeeps
<1>. QED  BY <1>5, <1>6, <1>7

(* A killed session keeps the invariant. *)
LEMMA KilledKeeps ==
  ASSUME CheckInv, NEW s \in Session, Killed(s)
  PROVE  CheckInv'
<1>1. /\ stage[s] \in Underway /\ stage' = [stage EXCEPT ![s] = "done"]
      /\ Closed(s) /\ UNCHANGED <<entry, spare, content>>
      /\ UNCHANGED <<doc, edits, option, checked, began, queue, results, base, edited, verdict,
                     worldVars>>
  BY DEF Killed, Underway
<1>2. CacheTypeOK'
  BY <1>1, CacheAssumption DEF CheckInv, TypeOK, CacheTypeOK, Closed, worldVars, File
<1>3. ASSUME NEW t \in Session
      PROVE  /\ (stage[t] = "keeping" <=> writing[t] # "no")'
             /\ (writing[t] # "no" => fetched[t] \in Answer /\ fetched[t].ts = now)'
             /\ (writing[t] \in {"head", "tail", "rename"} => open[t] \in Session)'
  BY <1>1 DEF CheckInv, TypeOK, CacheTypeOK, Closed, worldVars
<1>. QED  BY <1>1, <1>2, <1>3, CacheKeeps

(* Rendering the blocks keeps the invariant. *)
LEMMA RenderKeeps ==
  ASSUME CheckInv, NEW s \in Session, Render(s)
  PROVE  CheckInv'
<1> DEFINE outcome == ExitKind(s)
<1>1. outcome \in Verdicts
  BY DEF ExitKind, Verdicts
<1>2. /\ stage[s] = "rendering"
      /\ base' = [base EXCEPT ![s] = doc]
      /\ stage' = [stage EXCEPT ![s] = "done"]
      /\ verdict' = [verdict EXCEPT ![s] = outcome]
      /\ UNCHANGED <<doc, edits, option, checked, began, queue, results, edited>>
      /\ UNCHANGED <<worldVars, cacheVars>>
  BY DEF Render, Finish
<1> HIDE DEF outcome
<1>3. CacheTypeOK'
  BY <1>2 DEF CheckInv, TypeOK, CacheTypeOK, worldVars, cacheVars
<1>4. stage' \in [Session -> StageOf] /\ verdict' \in [Session -> Verdicts]
  BY <1>1, <1>2 DEF CheckInv, TypeOK, StageOf
<1>5. base' \in [Session -> [Entry -> Block]]
  BY <1>2 DEF CheckInv, TypeOK
<1>6. TypeOK'
  BY <1>2, <1>3, <1>4, <1>5 DEF CheckInv, TypeOK, worldVars
<1>7. ASSUME NEW t \in Session, NEW e \in Entry
      PROVE  SoundFor(e, checked[t][e], option[t].prereleases, results[t][e])'
  BY <1>2 DEF SoundFor, CheckInv
<1>8. ASSUME NEW t \in Session
      PROVE  /\ (stage[t] \in {"asking", "keeping"} => queue[t] # {})'
             /\ (stage[t] = "keeping" <=> writing[t] # "no")'
             /\ (writing[t] # "no" => fetched[t] \in Answer /\ fetched[t].ts = now)'
             /\ (writing[t] \in {"head", "tail", "rename"} => open[t] \in Session)'
             /\ (began[t] <= now)'
  BY <1>2 DEF CheckInv, TypeOK, CacheTypeOK, cacheVars, worldVars
<1>9. ASSUME NEW t \in Session
      PROVE  /\ (stage[t] = "idle" => \A e \in Entry : results[t][e] = NoResult)'
             /\ (stage[t] \in Underway =>
                   /\ verdict[t] = "none"
                   /\ Loads(checked[t])
                   /\ t \notin edited => doc = checked[t])'
             /\ (Printed(t) => Loads(checked[t]) /\ (t \notin edited => base[t] = checked[t]))'
             /\ (stage[t] = "idle" => verdict[t] = "none")'
  BY <1>2 DEF CheckInv, TypeOK, Underway, Printed, Loads
<1>. QED  BY <1>6, <1>7, <1>8, <1>9 DEF CheckInv

(* Another inventory on the disk keeps the invariant: the sessions under   *)
(* way are marked.                                                         *)
LEMMA WriteKeeps ==
  ASSUME CheckInv, NEW document \in [Entry -> Block], Write(document)
  PROVE  CheckInv'
<1>1. /\ doc' = document /\ edited' = edited \cup Running
      /\ edits < MaxEdits /\ edits' = edits + 1
      /\ UNCHANGED <<stage, option, checked, began, queue, results, base, verdict>>
      /\ UNCHANGED <<worldVars, cacheVars>>
  BY DEF Write
<1>2. CacheTypeOK'
  BY <1>1 DEF CheckInv, TypeOK, CacheTypeOK, worldVars, cacheVars
<1>3. edits' \in 0..MaxEdits
  BY <1>1, UpdateAssumption DEF CheckInv, TypeOK
<1>4. TypeOK'
  BY <1>1, <1>2, <1>3 DEF CheckInv, TypeOK, worldVars, Running
<1>5. ASSUME NEW t \in Session, NEW e \in Entry
      PROVE  SoundFor(e, checked[t][e], option[t].prereleases, results[t][e])'
  BY <1>1 DEF SoundFor, CheckInv
<1>6. ASSUME NEW t \in Session
      PROVE  /\ (stage[t] \in {"asking", "keeping"} => queue[t] # {})'
             /\ (stage[t] = "keeping" <=> writing[t] # "no")'
             /\ (writing[t] # "no" => fetched[t] \in Answer /\ fetched[t].ts = now)'
             /\ (writing[t] \in {"head", "tail", "rename"} => open[t] \in Session)'
             /\ (began[t] <= now)'
             /\ (stage[t] = "idle" => \A e \in Entry : results[t][e] = NoResult)'
             /\ (stage[t] \in Underway =>
                   /\ verdict[t] = "none"
                   /\ Loads(checked[t])
                   /\ t \notin edited => doc = checked[t])'
             /\ (Printed(t) => Loads(checked[t]) /\ (t \notin edited => base[t] = checked[t]))'
             /\ (stage[t] = "idle" => verdict[t] = "none")'
  BY <1>1 DEF CheckInv, Underway, Running, Printed, Loads, cacheVars, worldVars
<1>. QED  BY <1>4, <1>5, <1>6 DEF CheckInv

(* The outside world keeps the invariant. *)
LEMMA WorldKeeps ==
  ASSUME CheckInv, UpdateWorld
  PROVE  CheckInv'
<1>1. UNCHANGED <<doc, edits, stage, option, checked, began, queue, results, base, edited, verdict>>
  BY DEF UpdateWorld, sessionVars
<1>2. CacheTypeOK'
  BY WorldType DEF CheckInv, TypeOK, UpdateWorld
<1>3. UNCHANGED cacheVars
  BY DEF UpdateWorld, World, Tick, Release, GoDown, ComeBack
<1>4. \/ now' = now
      \/ now' = now + 1 /\ \A t \in Session : writing[t] = "no"
  BY DEF UpdateWorld, World, Tick, Release, GoDown, ComeBack
<1>5. TypeOK'
  BY <1>1, <1>2 DEF CheckInv, TypeOK
<1>6. ASSUME NEW t \in Session, NEW e \in Entry
      PROVE  SoundFor(e, checked[t][e], option[t].prereleases, results[t][e])'
  BY <1>1 DEF SoundFor, CheckInv
<1>7. ASSUME NEW t \in Session
      PROVE  /\ (stage[t] \in {"asking", "keeping"} => queue[t] # {})'
             /\ (stage[t] = "keeping" <=> writing[t] # "no")'
             /\ (writing[t] # "no" => fetched[t] \in Answer /\ fetched[t].ts = now)'
             /\ (writing[t] \in {"head", "tail", "rename"} => open[t] \in Session)'
  BY <1>1, <1>3, <1>4 DEF CheckInv, cacheVars
<1>8. ASSUME NEW t \in Session
      PROVE  (began[t] <= now)'
  BY <1>1, <1>4 DEF CheckInv, TypeOK, CacheTypeOK
<1>9. ASSUME NEW t \in Session
      PROVE  /\ (stage[t] = "idle" => \A e \in Entry : results[t][e] = NoResult)'
             /\ (stage[t] \in Underway =>
                   /\ verdict[t] = "none"
                   /\ Loads(checked[t])
                   /\ t \notin edited => doc = checked[t])'
             /\ (Printed(t) => Loads(checked[t]) /\ (t \notin edited => base[t] = checked[t]))'
             /\ (stage[t] = "idle" => verdict[t] = "none")'
  BY <1>1 DEF CheckInv, Underway, Printed, Loads
<1>. QED  BY <1>5, <1>6, <1>7, <1>8, <1>9 DEF CheckInv

(* Every step of the update checks keeps the invariant. *)
LEMMA StepCheck == CheckInv /\ [Next]_vars => CheckInv'
<1> SUFFICES ASSUME CheckInv, [Next]_vars PROVE CheckInv'
  OBVIOUS
<1>1. CASE UNCHANGED vars
  <2>1. UNCHANGED <<doc, edits, stage, option, checked, began, queue, results, base, edited, verdict>>
    BY <1>1 DEF vars, sessionVars
  <2>2. UNCHANGED <<worldVars, cacheVars>>
    BY <1>1 DEF vars
  <2>3. CacheTypeOK' /\ TypeOK'
    BY <2>1, <2>2 DEF CheckInv, TypeOK, CacheTypeOK, worldVars, cacheVars
  <2> QED
    BY <2>1, <2>2, <2>3
       DEF CheckInv, SoundFor, Underway, Printed, Loads, worldVars, cacheVars
<1>2. ASSUME NEW s \in Session, Check(s) PROVE CheckInv'
  BY <1>2, LoadKeeps, AskKeeps, KeepKeeps, RenderKeeps, KilledKeeps DEF Check
<1>3. ASSUME NEW s \in Session, Paste(s) PROVE CheckInv'
  <2>1. Pasted(s, doc) \in [Entry -> Block]
    BY PastedType DEF CheckInv, TypeOK
  <2> QED
    BY <1>3, <2>1, WriteKeeps DEF Paste
<1>4. CASE Edit
  BY <1>4, WriteKeeps, UpdateAssumption DEF Edit
<1>5. CASE UpdateWorld
  BY <1>5, WorldKeeps
<1>. QED  BY <1>1, <1>2, <1>3, <1>4, <1>5 DEF Next

(* The invariant holds in every state of the update checks. *)
LEMMA CheckInvariance == Spec => []CheckInv
  BY InitCheck, StepCheck, PTL DEF Spec

-----------------------------------------------------------------------------
(* The blocks.                                                             *)

(* A block that was rendered from the inventory the check read is one the  *)
(* loader admits (overlay_candidates, load_inventory).                     *)
LEMMA FragmentAdmissible ==
  ASSUME CheckInv, NEW s \in Session, Suggesting(s), Admitted(s), NEW e \in Replaced(s)
  PROVE  Admissible(e, Fragment(s, e))
<1> DEFINE block == base[s][e]
           v == results[s][e].candidate
           platforms == results[s][e].platforms
           F == Fragment(s, e)
<1>1. /\ e \in Entry /\ block \in Block /\ Admissible(e, block)
      /\ checked[s][e] = block /\ ~option[s].prereleases
  BY DEF Suggesting, Admitted, Ordinary, CheckInv, TypeOK, Printed, Printing, Loads, Replaced
<1>2. CASE results[s][e].status # "outdated"
  BY <1>1, <1>2 DEF Fragment, Overlaid
<1>3. CASE results[s][e].status = "outdated"
  <2>1. PICK n \in 1..Versions : v \in Eligible(e, n, option[s].prereleases)
    BY <1>1, <1>3 DEF CheckInv, SoundFor
  <2>2. v \in Version /\ v # NoVersion
    BY <2>1, <1>1, EligibleReleased, InventoryAssumption DEF Version, NoVersion
  <2>3. Complete(e, block, v) /\ platforms = FoundAssets(e, block, v)
    BY <1>1, <1>3 DEF CheckInv, SoundFor
  <2>4. /\ F.version = v /\ F.catalogue = IF KindOf[e] = "extension" THEN block.catalogue \cup {v}
                                             ELSE block.catalogue
        /\ F.source = IF KindOf[e] = "release" \/ (KindOf[e] = "rust" /\ block.source = block.version)
                        THEN v ELSE block.source
        /\ F.urls = [p \in Platform |-> IF p \in platforms THEN v ELSE block.urls[p]]
    BY <1>1, <1>3 DEF Fragment, Overlaid, Block
  <2> HIDE DEF F, v, block, platforms
  <2>5. KindOf[e] = "release" =>
          v \notin Unflagged /\ Declared(block) = Required[e]
    BY DEF Admitted, Ordinary, v, block
  <2>6. KindOf[e] = "extension" => v \in Allowed[e]
    BY <2>2 DEF Admitted, Ordinary, v
  <2>7. AdmissibleVersion(e, F.version)
    <3>1. KindOf[e] \in Kind /\ KindOf[e] \in Exact => v \notin Prerelease
      BY <1>1, <2>1, <2>5, InventoryAssumption
         DEF Eligible, Exact, Kind, NpmReleases, PypiReleases, GithubReleases, ChannelRust,
             PythonDownloads
    <3> QED
      BY <1>1, <2>4, <3>1, InventoryAssumption DEF AdmissibleVersion
  <2>8. KindOf[e] = "release" => AdmissibleRelease(e, F)
    <3> SUFFICES ASSUME KindOf[e] = "release" PROVE AdmissibleRelease(e, F)
      OBVIOUS
    <3>1. platforms = Required[e] /\ Declared(block) = Required[e]
      BY <2>3, <2>5 DEF Complete, FoundAssets
    <3>2. Declared(F) = Required[e]
      BY <2>2, <2>4, <3>1 DEF Declared
    <3>3. \A p \in Required[e] : F.urls[p] = v
      BY <1>1, <2>4, <3>1, InventoryAssumption
    <3> QED
      BY <1>1, <2>4, <3>1, <3>2, <3>3 DEF AdmissibleRelease, Admissible
  <2>9. KindOf[e] = "extension" => AdmissibleExtension(e, F)
    BY <2>4, <2>6 DEF AdmissibleExtension
  <2>10. KindOf[e] = "rust" => F.source = F.version
    BY <1>1, <2>4 DEF Admissible
  <2>11. KindOf[e] = "python" => F.version \in Allowed[e]
    BY <2>3, <2>4 DEF Complete
  <2> QED
    BY <2>7, <2>8, <2>9, <2>10, <2>11 DEF Admissible, F
<1>. QED  BY <1>2, <1>3

(* Pasted blocks make an inventory that loads. *)
LEMMA PastedLoads == CheckInv => BlocksReload
<1> SUFFICES ASSUME CheckInv, NEW s \in Session, Suggesting(s), Admitted(s), NEW e \in Entry
             PROVE  Admissible(e, Pasted(s, base[s])[e])
  BY DEF BlocksReload, Loads
<1>1. CASE e \in Replaced(s)
  BY <1>1, FragmentAdmissible DEF Pasted
<1>2. CASE e \notin Replaced(s)
  <2>1. base[s] = checked[s] /\ Loads(checked[s])
    BY DEF Suggesting, Admitted, Ordinary, CheckInv, Printed, Printing
  <2> QED
    BY <1>2, <2>1 DEF Pasted, Loads
<1>. QED  BY <1>1, <1>2

(* Pasted blocks lower no version. *)
LEMMA FragmentNotLower == CheckInv => BlocksNeverLower
<1> SUFFICES ASSUME CheckInv, NEW s \in Session, Suggesting(s), s \notin edited,
                    NEW e \in Entry, KindOf[e] \notin Opaque
             PROVE  Fragment(s, e).version >= base[s][e].version
  BY DEF BlocksNeverLower, Replaced
<1>1. base[s][e] = checked[s][e] /\ base[s][e] \in Block
  BY DEF Suggesting, CheckInv, TypeOK, Printed, Printing
<1>2. base[s][e].version \in Nat
  BY <1>1, InventoryAssumption DEF Block, Version
<1>3. CASE results[s][e].status # "outdated"
  BY <1>2, <1>3 DEF Fragment, Overlaid
<1>4. CASE results[s][e].status = "outdated"
  <2>1. Fragment(s, e).version = results[s][e].candidate
    BY <1>1, <1>4 DEF Fragment, Overlaid, Block
  <2> QED
    BY <1>1, <1>4, <2>1 DEF CheckInv, SoundFor
<1>. QED  BY <1>3, <1>4

-----------------------------------------------------------------------------
(* The age of an answer.                                                   *)

Dated(a) == a.releases = Down => a.ts <= lastDown

(* A stored failure is not younger than the last outage.  The two parts of *)
(* a file that parses are of one tick, for time stands still while         *)
(* somebody writes.                                                        *)
AgeInv ==
    /\ lastDown <= now
    /\ ~online => lastDown = now
    /\ \A s \in Session : writing[s] # "no" => Dated(fetched[s])
    /\ \A c \in Session, k \in Key :
          /\ content[<<c, k>>].head # Blank => Dated(content[<<c, k>>].head)
          /\ content[<<c, k>>].tail # Blank => Dated(content[<<c, k>>].tail)
          /\ Blank \notin {content[<<c, k>>].head, content[<<c, k>>].tail}
               => content[<<c, k>>].head.ts = content[<<c, k>>].tail.ts
    /\ \A s \in Session :
          writing[s] \in {"head", "tail", "rename"} =>
             /\ content[<<open[s], Due(s)>>].head # Blank =>
                  content[<<open[s], Due(s)>>].head.ts = now
             /\ content[<<open[s], Due(s)>>].tail # Blank =>
                  content[<<open[s], Due(s)>>].tail.ts = now
    /\ RetryLaterHelps

(* A failure the disk serves is not older than the TTL (DiskCache.get). *)
LEMMA ServedRecently ==
  ASSUME CheckInv, AgeInv, TTL \in Nat, TTL <= Patience, NEW k \in Key, NEW a \in Served(k),
         a # Garbled, a.releases = Down
  PROVE  now <= lastDown + Patience
<1> DEFINE file == content[<<entry[k], k>>]
<1>1. entry[k] \in Session
  <2>1. Served(k) # {} /\ entry[k] \in Session \cup {None}
    BY DEF CheckInv, TypeOK, CacheTypeOK, File
  <2> QED
    BY <2>1 DEF Served
<1>2. file \in [head : Answer \cup {Blank}, tail : Answer \cup {Blank}]
  BY <1>1 DEF CheckInv, TypeOK, CacheTypeOK
<1>3. /\ Blank \notin {file.head, file.tail} /\ ~Expired(file.head.ts)
      /\ a \in {file.head, file.tail}
  BY <1>1, CacheAssumption DEF Served
<1>4. /\ file.head \in Answer /\ file.tail \in Answer /\ a \in Answer
      /\ file.head.ts = file.tail.ts
  BY <1>1, <1>2, <1>3 DEF AgeInv
<1>5. a.ts <= lastDown /\ a.ts = file.head.ts
  BY <1>1, <1>3, <1>4 DEF AgeInv, Dated
<1>6. now - a.ts <= TTL
  BY <1>3, <1>4, <1>5, CacheAssumption DEF Expired, CheckInv, TypeOK, CacheTypeOK, Answer
<1>7. a.ts \in Int /\ now \in Int /\ lastDown \in Int /\ TTL \in Int /\ Patience \in Int
  BY <1>4, UpdateAssumption, CacheAssumption DEF Answer, CheckInv, TypeOK, CacheTypeOK
<1>. QED  BY <1>5, <1>6, <1>7

(* Files, the open one included, when neither they nor their writers move. *)
LEMMA ResolveAges ==
  ASSUME CheckInv, AgeInv, NEW s \in Session, stage[s] \in {"asking", "keeping"},
         NEW result, Resolve(s, result),
         result.status = "outage" => began[s] <= lastDown + Patience,
         UNCHANGED <<began, worldVars, content>>,
         \/ stage[s] = "asking" /\ UNCHANGED cacheVars
         \/ Closed(s)
  PROVE  AgeInv'
<1>1. Due(s) \in Entry
  BY DueEntry
<1>2. /\ results' = [results EXCEPT ![s][Due(s)] = result]
      /\ queue' = [queue EXCEPT ![s] = queue[s] \ {Min(queue[s])}]
  BY DEF Resolve
<1>3. ASSUME NEW t \in Session, writing'[t] # "no"
      PROVE  /\ t # s /\ writing[t] = writing'[t] /\ open[t] = open'[t]
             /\ fetched[t] = fetched'[t] /\ Due(t)' = Due(t)
  <2>1. t # s
    BY <1>3 DEF CheckInv, TypeOK, CacheTypeOK, cacheVars, Closed
  <2> QED
    BY <1>2, <2>1 DEF Due, CheckInv, TypeOK, CacheTypeOK, cacheVars, Closed
<1>4. RetryLaterHelps'
  <2> SUFFICES ASSUME NEW t \in Session, NEW e \in Entry, results'[t][e].status = "outage"
               PROVE  began[t] <= lastDown + Patience
    BY DEF RetryLaterHelps, worldVars
  <2>1. CASE t = s /\ e = Due(s)
    BY <1>1, <1>2, <2>1 DEF CheckInv, TypeOK
  <2>2. CASE ~(t = s /\ e = Due(s))
    <3>1. results'[t][e] = results[t][e]
      BY <1>1, <1>2, <2>2 DEF CheckInv, TypeOK
    <3> QED
      BY <3>1 DEF AgeInv, RetryLaterHelps
  <2> QED
    BY <2>1, <2>2
<1>. QED  BY <1>3, <1>4 DEF AgeInv, Dated, worldVars

(* Steps that leave the cache and the results of running sessions alone. *)
LEMMA QuietAges ==
  ASSUME CheckInv, AgeInv, UNCHANGED <<worldVars, cacheVars, results>>,
         \A t \in Session :
            /\ writing[t] # "no" => queue'[t] = queue[t]
            /\ began'[t] = began[t] \/ \A e \in Entry : results[t][e] = NoResult
  PROVE  AgeInv'
<1>1. NoResult.status = "none"
  BY DEF NoResult, Skipped
<1>2. RetryLaterHelps'
  BY <1>1 DEF AgeInv, RetryLaterHelps, worldVars
<1>3. ASSUME NEW t \in Session, writing[t] # "no" PROVE Due(t)' = Due(t)
  BY <1>3 DEF Due
<1>. QED  BY <1>2, <1>3 DEF AgeInv, Dated, worldVars, cacheVars

(* Asking keeps the ages. *)
LEMMA AskAges ==
  ASSUME CheckInv, AgeInv, TTL \in Nat, TTL <= Patience,
         NEW s \in Session, AskDisk(s) \/ AskNetwork(s)
  PROVE  AgeInv'
<1> DEFINE e == Due(s)
<1>1. stage[s] = "asking" /\ CacheTypeOK
  BY DEF AskDisk, AskNetwork, CheckInv, TypeOK
<1>2. e \in Entry /\ e \in Key
  BY <1>1, DueEntry
<1> HIDE DEF e
<1>3. UNCHANGED <<began, worldVars>>
  BY DEF AskDisk, AskNetwork
<1>4. began[s] \in Int /\ now \in Int /\ lastDown \in Int /\ Patience \in Nat /\ began[s] <= now
  BY UpdateAssumption, CacheAssumption DEF CheckInv, TypeOK, CacheTypeOK
<1>5. CASE AskDisk(s)
  <2>1. PICK a \in Served(e) : Resolve(s, Result(s, e, a))
    BY <1>5 DEF AskDisk, e
  <2>2. a = Garbled \/ a \in Answer
    BY <1>1, <1>2, ServedAnswer
  <2>3. Result(s, e, a).status = "outage" => a # Garbled /\ a.releases = Down
    BY <1>2, <2>2, ResultSound, CacheAssumption DEF Garbled, Answer, Down
  <2>4. Result(s, e, a).status = "outage" => began[s] <= lastDown + Patience
    BY <1>2, <1>4, <2>3, ServedRecently
  <2>5. UNCHANGED cacheVars /\ UNCHANGED content
    BY <1>5 DEF AskDisk, cacheVars
  <2> QED
    BY <1>1, <1>3, <2>1, <2>4, <2>5, ResolveAges
<1>6. Fetched(e) \in Answer /\ Fetched(e).ts = now /\ (Fetched(e).releases = Down <=> ~online)
  BY <1>1, <1>2, FetchedAnswer
<1>7. CASE AskNetwork(s) /\ (Direct(s, e) \/ KindOf[e] = "pi")
  <2>1. Resolve(s, Result(s, e, Fetched(e))) /\ UNCHANGED cacheVars /\ UNCHANGED content
    BY <1>7 DEF AskNetwork, e, cacheVars
  <2>2. Result(s, e, Fetched(e)).status = "outage" => ~online
    BY <1>2, <1>6, ResultSound
  <2>3. Result(s, e, Fetched(e)).status = "outage" => began[s] <= lastDown + Patience
    BY <1>4, <2>2 DEF AgeInv
  <2> QED
    BY <1>1, <1>3, <2>1, <2>3, ResolveAges
<1>8. CASE AskNetwork(s) /\ ~(Direct(s, e) \/ KindOf[e] = "pi")
  <2> DEFINE a == Fetched(e)
  <2>1. /\ Keep(s, a) /\ UNCHANGED <<results, queue>>
    BY <1>8 DEF AskNetwork, e
  <2>2. a.releases = Down => a.ts <= lastDown
    BY <1>4, <1>6 DEF AgeInv
  <2> HIDE DEF a
  <2>3. /\ fetched' = [fetched EXCEPT ![s] = a]
        /\ writing' = [writing EXCEPT ![s] = "open"]
        /\ UNCHANGED <<entry, spare, content, open>>
    BY <2>1 DEF Keep
  <2>4. \A t \in Session : Due(t)' = Due(t)
    BY <2>1 DEF Due
  <2>5. RetryLaterHelps'
    BY <1>3, <2>1 DEF AgeInv, RetryLaterHelps, worldVars
  <2>6. ASSUME NEW t \in Session, writing'[t] # "no" PROVE Dated(fetched[t])'
    BY <1>3, <2>2, <2>3, <2>6 DEF AgeInv, Dated, CheckInv, TypeOK, CacheTypeOK, worldVars
  <2>7. ASSUME NEW t \in Session, writing'[t] \in {"head", "tail", "rename"}
        PROVE  writing[t] \in {"head", "tail", "rename"}
    BY <2>3, <2>7 DEF CheckInv, TypeOK, CacheTypeOK
  <2> QED
    BY <1>3, <2>3, <2>4, <2>5, <2>6, <2>7 DEF AgeInv, Dated, worldVars
<1>. QED  BY <1>5, <1>7, <1>8

(* Writing an answer under the shared temporary name keeps the ages. *)
LEMMA KeepAges ==
  ASSUME CheckInv, AgeInv, NEW s \in Session, KeepStep(s)
  PROVE  AgeInv'
<1> DEFINE k == Due(s)
<1>1. stage[s] = "keeping" /\ CacheTypeOK /\ writing[s] # "no"
  BY DEF KeepStep, CheckInv, TypeOK
<1>2. k \in Entry /\ k \in Key
  BY <1>1, DueEntry
<1>3. OpenSpare(s, k) \/ WriteHead(s, k) \/ WriteTail(s, k)
  BY DEF KeepStep
<1>4. UNCHANGED <<began, queue, results, worldVars, entry, fetched>>
  BY <1>3 DEF KeepStep, sessionVars, OpenSpare, WriteHead, WriteTail
<1>5. \A t \in Session : Due(t)' = Due(t)
  BY <1>4 DEF Due
<1>6. RetryLaterHelps'
  BY <1>4 DEF AgeInv, RetryLaterHelps, worldVars
<1>7. ASSUME NEW t \in Session, writing'[t] # "no" PROVE Dated(fetched[t])'
  BY <1>1, <1>3, <1>4, <1>7
     DEF AgeInv, Dated, CheckInv, TypeOK, CacheTypeOK, worldVars, OpenSpare, WriteHead, WriteTail
<1> DEFINE file == IF writing[s] # "open" THEN open[s] ELSE IF spare[k] = None THEN s ELSE spare[k]
           before == content[<<file, k>>]
           after == content'[<<file, k>>]
<1>8. fetched[s] \in Answer /\ fetched[s].ts = now /\ Dated(fetched[s])
  BY <1>1 DEF CheckInv, AgeInv
<1>9. file \in Session
  BY <1>1, <1>2, <1>3, CacheAssumption
     DEF CheckInv, CacheTypeOK, File, OpenSpare, WriteHead, WriteTail
<1>10. /\ content' = [content EXCEPT ![<<file, k>>] = after]
       /\ open' = [open EXCEPT ![s] = file]
       /\ writing'[s] \in {"head", "tail", "rename"}
       /\ \A t \in Session : t # s => writing'[t] = writing[t]
  BY <1>1, <1>3, <1>9, <1>2 DEF OpenSpare, WriteHead, WriteTail, CacheTypeOK
<1>11. \/ after = Empty
       \/ after = [before EXCEPT !.head = fetched[s]] /\ writing[s] = "head"
       \/ after = [before EXCEPT !.tail = fetched[s]] /\ writing[s] = "tail"
  <2> HIDE DEF k
  <2>1. content \in [Session \X Key -> [head : Answer \cup {Blank}, tail : Answer \cup {Blank}]]
        /\ <<file, k>> \in Session \X Key
    BY <1>1, <1>2, <1>9 DEF CacheTypeOK
  <2>2. CASE OpenSpare(s, k)
    <3>1. content' = [content EXCEPT ![<<file, k>>] = Empty]
      BY <2>2 DEF OpenSpare
    <3> HIDE DEF file
    <3> QED
      BY <2>1, <3>1
  <2>3. CASE WriteHead(s, k)
    <3>1. writing[s] = "head" /\ content' = [content EXCEPT ![<<file, k>>].head = fetched[s]]
      BY <2>3 DEF WriteHead
    <3> HIDE DEF file
    <3> QED
      BY <2>1, <3>1
  <2>4. CASE WriteTail(s, k)
    <3>1. writing[s] = "tail" /\ content' = [content EXCEPT ![<<file, k>>].tail = fetched[s]]
      BY <2>4 DEF WriteTail
    <3> HIDE DEF file
    <3> QED
      BY <2>1, <3>1
  <2> QED
    BY <1>3, <2>2, <2>3, <2>4
<1>12. before \in [head : Answer \cup {Blank}, tail : Answer \cup {Blank}]
  BY <1>1, <1>2, <1>9 DEF CacheTypeOK
<1>13. writing[s] \in {"head", "tail"} =>
         /\ before.head # Blank => before.head.ts = now
         /\ before.tail # Blank => before.tail.ts = now
  BY DEF AgeInv
<1>14. /\ before.head # Blank => Dated(before.head)
       /\ before.tail # Blank => Dated(before.tail)
  BY <1>2, <1>9 DEF AgeInv
<1> HIDE DEF before, after, file, k
<1>15. /\ after.head # Blank => after.head.ts = now /\ Dated(after.head)
       /\ after.tail # Blank => after.tail.ts = now /\ Dated(after.tail)
  BY <1>8, <1>11, <1>12, <1>13, <1>14 DEF Empty
<1>16. ASSUME NEW c \in Session, NEW j \in Key
       PROVE  content'[<<c, j>>] = IF c = file /\ j = k THEN after ELSE content[<<c, j>>]
  BY <1>1, <1>10 DEF CacheTypeOK
<1>17. ASSUME NEW c \in Session, NEW j \in Key
       PROVE  /\ (content[<<c, j>>].head # Blank => Dated(content[<<c, j>>].head))'
              /\ (content[<<c, j>>].tail # Blank => Dated(content[<<c, j>>].tail))'
              /\ (Blank \notin {content[<<c, j>>].head, content[<<c, j>>].tail}
                    => content[<<c, j>>].head.ts = content[<<c, j>>].tail.ts)'
  BY <1>4, <1>15, <1>16 DEF AgeInv, Dated, worldVars
<1>18. ASSUME NEW t \in Session, writing'[t] \in {"head", "tail", "rename"}
       PROVE  /\ (content[<<open[t], Due(t)>>].head # Blank =>
                    content[<<open[t], Due(t)>>].head.ts = now)'
              /\ (content[<<open[t], Due(t)>>].tail # Blank =>
                    content[<<open[t], Due(t)>>].tail.ts = now)'
  <2>1. CASE t = s
    <3>1. open'[t] = file /\ Due(t)' = k
      BY <1>1, <1>5, <1>10, <2>1 DEF CacheTypeOK, k
    <3> QED
      BY <1>2, <1>4, <1>9, <1>15, <1>16, <3>1 DEF worldVars
  <2>2. CASE t # s
    <3>1. writing[t] \in {"head", "tail", "rename"} /\ open'[t] = open[t] /\ Due(t)' = Due(t)
      BY <1>1, <1>5, <1>10, <1>18, <2>2 DEF CacheTypeOK
    <3>2. open[t] \in Session /\ Due(t) \in Key
      BY <3>1, DueEntry DEF CheckInv
    <3> QED
      BY <1>4, <1>15, <1>16, <3>1, <3>2 DEF AgeInv, worldVars
  <2> QED
    BY <2>1, <2>2
<1>19. lastDown' <= now' /\ (~online' => lastDown' = now')
  BY <1>4 DEF AgeInv, worldVars
<1>. QED  BY <1>6, <1>7, <1>17, <1>18, <1>19 DEF AgeInv

(* The end of a write keeps the ages. *)
LEMMA KeptAges ==
  ASSUME CheckInv, AgeInv, NEW s \in Session, Kept(s) \/ NotKept(s)
  PROVE  AgeInv'
<1>1. stage[s] = "keeping" /\ writing[s] # "no" /\ fetched[s] \in Answer /\ fetched[s].ts = now
  BY DEF Kept, NotKept, CheckInv, TypeOK
<1>2. Due(s) \in Entry
  BY <1>1, DueEntry
<1>3. UNCHANGED <<began, worldVars, content>> /\ Closed(s)
  BY DEF Kept, NotKept, PublishSpare, KeepFails
<1>4. CASE NotKept(s)
  <2>1. Unavailable.status = "unavailable"
    BY DEF Unavailable, Skipped
  <2> QED
    BY <1>1, <1>3, <1>4, <2>1, ResolveAges DEF NotKept
<1>5. CASE Kept(s)
  <2>1. Result(s, Due(s), fetched[s]).status = "outage" => fetched[s].releases = Down
    BY <1>1, <1>2, ResultSound
  <2>2. began[s] \in Int /\ now \in Int /\ lastDown \in Int /\ Patience \in Nat /\ began[s] <= now
    BY UpdateAssumption, CacheAssumption DEF CheckInv, TypeOK, CacheTypeOK
  <2>3. Result(s, Due(s), fetched[s]).status = "outage" => began[s] <= lastDown + Patience
    BY <1>1, <2>1, <2>2 DEF AgeInv, Dated
  <2> QED
    BY <1>1, <1>3, <1>5, <2>3, ResolveAges DEF Kept
<1>. QED  BY <1>4, <1>5

(* The clock and the network keep the ages. *)
LEMMA WorldAges ==
  ASSUME CheckInv, AgeInv, UpdateWorld
  PROVE  AgeInv'
<1>1. UNCHANGED <<began, queue, results, cacheVars>>
  BY DEF UpdateWorld, sessionVars, World, Tick, Release, GoDown, ComeBack
<1>2. /\ now' \in Int /\ now \in Int /\ lastDown \in Int /\ lastDown' \in Int /\ lastDown <= lastDown'
      /\ lastDown' <= now' /\ (~online' => lastDown' = now')
      /\ now' = now \/ \A t \in Session : writing[t] = "no"
  BY DEF UpdateWorld, World, Tick, Release, GoDown, ComeBack, AgeInv, CheckInv, TypeOK, CacheTypeOK
<1>3. \A t \in Session, e \in Entry : began[t] \in Int /\ Patience \in Int
  BY UpdateAssumption DEF CheckInv, TypeOK
<1>4. RetryLaterHelps'
  BY <1>1, <1>2, <1>3 DEF AgeInv, RetryLaterHelps
<1>5. ASSUME NEW a \in Answer, Dated(a) PROVE Dated(a)'
  BY <1>2, <1>5 DEF Dated, Answer
<1>6. ASSUME NEW t \in Session, writing'[t] # "no" PROVE Dated(fetched[t])'
  <2>1. fetched'[t] = fetched[t] /\ fetched[t] \in Answer /\ Dated(fetched[t])
    BY <1>1, <1>6 DEF AgeInv, CheckInv, cacheVars
  <2> QED
    BY <1>5, <2>1 DEF Dated
<1>7. ASSUME NEW c \in Session, NEW j \in Key
      PROVE  /\ (content[<<c, j>>].head # Blank => Dated(content[<<c, j>>].head))'
             /\ (content[<<c, j>>].tail # Blank => Dated(content[<<c, j>>].tail))'
             /\ (Blank \notin {content[<<c, j>>].head, content[<<c, j>>].tail}
                   => content[<<c, j>>].head.ts = content[<<c, j>>].tail.ts)'
  <2>1. content' = content
    BY <1>1 DEF cacheVars
  <2>2. content[<<c, j>>] \in [head : Answer \cup {Blank}, tail : Answer \cup {Blank}]
    BY DEF CheckInv, TypeOK, CacheTypeOK
  <2> QED
    BY <1>5, <2>1, <2>2 DEF AgeInv, Dated
<1>8. \A t \in Session : Due(t)' = Due(t)
  BY <1>1 DEF Due
<1>9. ASSUME NEW t \in Session, writing'[t] \in {"head", "tail", "rename"}
      PROVE  /\ (content[<<open[t], Due(t)>>].head # Blank =>
                   content[<<open[t], Due(t)>>].head.ts = now)'
             /\ (content[<<open[t], Due(t)>>].tail # Blank =>
                   content[<<open[t], Due(t)>>].tail.ts = now)'
  BY <1>1, <1>2, <1>8, <1>9 DEF AgeInv, cacheVars
<1>. QED  BY <1>2, <1>4, <1>6, <1>7, <1>9 DEF AgeInv

(* Every step keeps the ages. *)
LEMMA StepAges ==
  ASSUME TTL \in Nat, TTL <= Patience
  PROVE  CheckInv /\ AgeInv /\ [Next]_vars => AgeInv'
<1> SUFFICES ASSUME CheckInv, AgeInv, [Next]_vars PROVE AgeInv'
  OBVIOUS
<1>1. CASE UNCHANGED vars
  BY <1>1, QuietAges DEF vars, sessionVars
<1>2. ASSUME NEW s \in Session, Load(s) PROVE AgeInv'
  <2>1. ASSUME NEW t \in Session
        PROVE  /\ writing[t] # "no" => queue'[t] = queue[t]
               /\ began'[t] = began[t] \/ \A e \in Entry : results[t][e] = NoResult
    BY <1>2 DEF Load, CheckInv, TypeOK
  <2>2. UNCHANGED <<worldVars, cacheVars, results>>
    BY <1>2 DEF Load
  <2> QED
    BY <2>1, <2>2, QuietAges
<1>3. ASSUME NEW s \in Session, Render(s) PROVE AgeInv'
  BY <1>3, QuietAges DEF Render
<1>4. ASSUME NEW s \in Session, Killed(s) PROVE AgeInv'
  <2>1. UNCHANGED <<began, queue, results, worldVars, content>> /\ Closed(s)
    BY <1>4 DEF Killed
  <2>2. ASSUME NEW t \in Session, writing'[t] # "no"
        PROVE  /\ writing[t] = writing'[t] /\ open[t] = open'[t]
               /\ fetched[t] = fetched'[t] /\ Due(t)' = Due(t)
    BY <2>1, <2>2 DEF CheckInv, TypeOK, CacheTypeOK, Closed, Due
  <2>3. RetryLaterHelps'
    BY <2>1 DEF AgeInv, RetryLaterHelps, worldVars
  <2> QED
    BY <2>1, <2>2, <2>3 DEF AgeInv, Dated, worldVars
<1>5. ASSUME NEW document, Write(document) PROVE AgeInv'
  BY <1>5, QuietAges DEF Write
<1>6. CASE UpdateWorld
  BY <1>6, WorldAges
<1>7. ASSUME NEW s \in Session, Check(s) PROVE AgeInv'
  BY <1>2, <1>3, <1>4, <1>7, AskAges, KeepAges, KeptAges DEF Check
<1>. QED  BY <1>1, <1>5, <1>6, <1>7 DEF Next, Paste, Edit

(* The ages are right at the start. *)
LEMMA InitAges == Init => AgeInv
  BY DEF Init, CacheInit, AgeInv, Empty, RetryLaterHelps, NoResult, Skipped

-----------------------------------------------------------------------------
(* Doctors.                                                                *)

Spelled(c) == c.table \in {"none", "plain"}

(* What a doctor at each step knows of the files and of its own results.   *)
(* An undisturbed repair has the override in place, then read, then in     *)
(* effect; the way the table is spelled goes from the companion into every *)
(* draft and back; who has a gateway to judge has saved one.               *)
DoctorInv ==
    /\ DoctorTypeOK
    /\ \A d \in Doctors :
          /\ step[d] = "probe" => left[d] # <<>>
          /\ step[d] # "done" => ended[d] = "none"
          /\ step[d] \in {"read", "rename"} => gateway[d] # NoAddress
          /\ step[d] = "rename" =>
                /\ draft[d].address = gateway[d]
                /\ Spelled(draft[d]) <=> Spelled(companion)
                /\ crossed \/ draft[d].settings = companion.settings
          /\ step[d] = "judge" /\ gateway[d] # NoAddress => companion.address # NoAddress
          /\ d \in repairing <=> step[d] \in {"reload", "restart"}
          /\ struck \/ ((step[d] \in {"reload", "restart"} \/ post[d]) => override = "ours")
          /\ struck \/ (step[d] = "restart" => loaded = "ours")
    /\ SettingsKept
    /\ Spelled(latest) <=> Spelled(companion)
    /\ struck \/ repairing # {} \/ (override = loaded /\ loaded = running)

(* The doctors' part of a step of the command line. *)
DoctorNext ==
    \/ \E d \in Doctors :
         \/ \E consent \in BOOLEAN, loads \in BOOLEAN : Dispatch(d, consent, loads)
         \/ DoctorStep(d)
    \/ EditCompanion
    \/ HostChanges

(* The invariant holds before the first doctor. *)
LEMMA InitDoctors == DoctorInit => DoctorInv
<1> SUFFICES ASSUME DoctorInit PROVE DoctorInv
  OBVIOUS
<1> USE DoctorAssumption DEF DoctorInit
<1>1. companion \in Content
  BY DEF Content, Tables, Address
<1>2. wish \in [Doctors -> BOOLEAN] /\ post \in [Doctors -> BOOLEAN]
  OBVIOUS
<1>3. /\ step \in [Doctors -> Steps] /\ ended \in [Doctors -> ExitKinds]
      /\ plan \in [Doctors -> {"none", "absent", "different", "matching"}]
      /\ left \in [Doctors -> Seq(Address)]
  BY DEF Steps, ExitKinds
<1>4. rootless \in BOOLEAN /\ network \in BOOLEAN /\ source \in BOOLEAN
      /\ struck \in BOOLEAN /\ crossed \in BOOLEAN
  OBVIOUS
<1>5. /\ harm \in 0..MaxHarm /\ draft \in [Doctors -> Content] /\ latest \in Content
      /\ gateway \in [Doctors -> Address \cup {NoAddress}] /\ repairing \subseteq Doctors
      /\ running \in Overrides \cup {"down"}
  BY <1>1
<1>6. DoctorTypeOK
  BY <1>1, <1>2, <1>3, <1>4, <1>5 DEF DoctorTypeOK
<1>. QED  BY <1>6 DEF DoctorInv, SettingsKept

(* The dispatch by mode keeps the invariant. *)
LEMMA DispatchKept ==
  ASSUME DoctorInv, NEW d \in Doctors,
         NEW consent \in BOOLEAN, NEW loads \in BOOLEAN, Dispatch(d, consent, loads)
  PROVE  DoctorInv'
<1>0. Leave(d, "CONFIG") \/ Leave(d, "SUCCESS") \/ Go(d, "detect")
  BY DEF Dispatch, DoctorInv, DoctorTypeOK
<1>1. DoctorTypeOK'
  <2>1. step' \in [Doctors -> Steps] /\ ended' \in [Doctors -> ExitKinds]
    BY <1>0 DEF Leave, Go, DoctorInv, DoctorTypeOK, Steps, ExitKinds
  <2>2. wish' \in [Doctors -> BOOLEAN]
    BY DEF Dispatch, DoctorInv, DoctorTypeOK
  <2>3. UNCHANGED <<policy, companion, rootless, override, loaded, running, network, source, post,
                    left, gateway, draft, plan, harm, repairing, struck, latest, crossed>>
    BY DEF Dispatch, hostVars
  <2> QED
    BY <2>1, <2>2, <2>3 DEF DoctorInv, DoctorTypeOK
<1>2. ASSUME NEW q \in Doctors
      PROVE  /\ (step[q] = "probe" => left[q] # <<>>)'
             /\ (step[q] # "done" => ended[q] = "none")'
             /\ (step[q] \in {"read", "rename"} => gateway[q] # NoAddress)'
             /\ (step[q] = "rename" =>
                   /\ draft[q].address = gateway[q]
                   /\ Spelled(draft[q]) <=> Spelled(companion)
                   /\ crossed \/ draft[q].settings = companion.settings)'
             /\ (step[q] = "judge" /\ gateway[q] # NoAddress => companion.address # NoAddress)'
  <2>1. UNCHANGED <<companion, left, gateway, draft, crossed>> /\ step[d] = "idle"
    BY DEF Dispatch
  <2> QED
    BY <1>0, <2>1 DEF Leave, Go, DoctorInv, DoctorTypeOK, Spelled
<1>3. ASSUME NEW q \in Doctors
      PROVE  /\ (q \in repairing <=> step[q] \in {"reload", "restart"})'
             /\ (struck \/ ((step[q] \in {"reload", "restart"} \/ post[q]) => override = "ours"))'
             /\ (struck \/ (step[q] = "restart" => loaded = "ours"))'
  BY DEF DoctorInv, Dispatch, Leave, Go, DoctorTypeOK, hostVars
<1>4. SettingsKept' /\ (Spelled(latest) <=> Spelled(companion))'
  BY DEF DoctorInv, Dispatch, Leave, Go, DoctorTypeOK, SettingsKept, Spelled, Content
<1>5. (struck \/ repairing # {} \/ (override = loaded /\ loaded = running))'
  BY DEF DoctorInv, Dispatch, Leave, Go, DoctorTypeOK, hostVars
<1>. QED  BY <1>1, <1>2, <1>3, <1>4, <1>5 DEF DoctorInv

(* The start of a diagnosis keeps the invariant. *)
LEMMA DetectKept ==
  ASSUME DoctorInv, NEW d \in Doctors, Detect(d)
  PROVE  DoctorInv'
<1>0. Leave(d, "OPERATIONAL") \/ Go(d, "probe")
  BY DEF Detect
<1>1. DoctorTypeOK'
  <2>1. step' \in [Doctors -> Steps] /\ ended' \in [Doctors -> ExitKinds]
    BY <1>0 DEF Leave, Go, DoctorInv, DoctorTypeOK, Steps, ExitKinds
  <2>2. Candidates \in Seq(Address)
    <3>1. Nat10 \in Address /\ Lan \in Address /\ HostGateway \in Address
      BY DEF Address
    <3>2. <<Nat10, Lan, HostGateway>> \in Seq(Address) /\ <<HostGateway, Lan>> \in Seq(Address)
      BY <3>1
    <3> QED
      BY <3>2 DEF Candidates
  <2>3. left' \in [Doctors -> Seq(Address)]
    BY <2>2 DEF Detect, DoctorInv, DoctorTypeOK
  <2>4. gateway' \in [Doctors -> Address \cup {NoAddress}]
    BY DEF Detect, DoctorInv, DoctorTypeOK
  <2>5. UNCHANGED <<policy, companion, rootless, override, loaded, running, network, source, wish,
                    post, draft, plan, harm, repairing, struck, latest, crossed>>
    BY DEF Detect, hostVars
  <2> QED
    BY <2>1, <2>3, <2>4, <2>5 DEF DoctorInv, DoctorTypeOK
<1>2. ASSUME NEW q \in Doctors
      PROVE  /\ (step[q] = "probe" => left[q] # <<>>)'
             /\ (step[q] # "done" => ended[q] = "none")'
             /\ (step[q] \in {"read", "rename"} => gateway[q] # NoAddress)'
             /\ (step[q] = "rename" =>
                   /\ draft[q].address = gateway[q]
                   /\ Spelled(draft[q]) <=> Spelled(companion)
                   /\ crossed \/ draft[q].settings = companion.settings)'
             /\ (step[q] = "judge" /\ gateway[q] # NoAddress => companion.address # NoAddress)'
  BY DoctorAssumption DEF DoctorInv, Detect, Leave, Go, Candidates, DoctorTypeOK, Spelled,
     SettingsKept, Content
<1>3. ASSUME NEW q \in Doctors
      PROVE  /\ (q \in repairing <=> step[q] \in {"reload", "restart"})'
             /\ (struck \/ ((step[q] \in {"reload", "restart"} \/ post[q]) => override = "ours"))'
             /\ (struck \/ (step[q] = "restart" => loaded = "ours"))'
  BY DEF DoctorInv, Detect, Leave, Go, Candidates, DoctorTypeOK, hostVars
<1>4. SettingsKept' /\ (Spelled(latest) <=> Spelled(companion))'
  BY DEF DoctorInv, Detect, Leave, Go, Candidates, DoctorTypeOK, SettingsKept, Spelled, Content
<1>5. (struck \/ repairing # {} \/ (override = loaded /\ loaded = running))'
  BY DEF DoctorInv, Detect, Leave, Go, Candidates, DoctorTypeOK, hostVars
<1>. QED  BY <1>1, <1>2, <1>3, <1>4, <1>5 DEF DoctorInv

(* A probe keeps the invariant. *)
LEMMA ProbeKept ==
  ASSUME DoctorInv, NEW d \in Doctors, Probe(d)
  PROVE  DoctorInv'
<1> DEFINE candidate == Head(left[d])
           first == gateway[d] = NoAddress /\ Answers(candidate)
<1>a. PICK address \in IF first THEN Named(candidate) ELSE {gateway[d]} :
        /\ gateway' = [gateway EXCEPT ![d] = address]
        /\ IF Len(left[d]) > 1 THEN Go(d, "probe")
           ELSE IF address # NoAddress THEN Go(d, "read")
           ELSE IF post[d] THEN Leave(d, "OPERATIONAL")
           ELSE Go(d, "judge")
  BY DEF Probe
<1>b. /\ step[d] = "probe" /\ left[d] \in Seq(Address) /\ left[d] # <<>>
      /\ left' = [left EXCEPT ![d] = Tail(left[d])]
      /\ UNCHANGED <<policy, companion, rootless, override, loaded, running, network, source, wish,
                     post, draft, plan, harm, repairing, struck, latest, crossed>>
  BY DEF Probe, DoctorInv, DoctorTypeOK, hostVars
<1>c. /\ candidate \in Address /\ Tail(left[d]) \in Seq(Address)
      /\ Len(left[d]) > 1 => Tail(left[d]) # <<>>
  <2> DEFINE before == left[d]
  <2>1. before \in Seq(Address) /\ before # <<>>
    BY <1>b
  <2> HIDE DEF before
  <2>2. Head(before) \in Address /\ Tail(before) \in Seq(Address) /\ Len(Tail(before)) = Len(before) - 1
    BY <2>1, HeadTailProperties
  <2>3. Len(before) > 1 => Len(Tail(before)) # 0
    BY <2>1, <2>2
  <2>4. Len(before) > 1 => Tail(before) # <<>>
    BY <2>3
  <2> QED
    BY <2>2, <2>4 DEF before
<1>d. address \in Address \cup {NoAddress}
  BY <1>c DEF Named, Address, DoctorInv, DoctorTypeOK
<1> HIDE DEF candidate, first
<1>0. \/ Len(left[d]) > 1 /\ Go(d, "probe")
      \/ address # NoAddress /\ Go(d, "read")
      \/ Leave(d, "OPERATIONAL")
      \/ address = NoAddress /\ Go(d, "judge")
  BY <1>a
<1>1. DoctorTypeOK'
  <2>1. step' \in [Doctors -> Steps] /\ ended' \in [Doctors -> ExitKinds]
    BY <1>0 DEF Leave, Go, DoctorInv, DoctorTypeOK, Steps, ExitKinds
  <2>2. left' \in [Doctors -> Seq(Address)]
    BY <1>b, <1>c DEF DoctorInv, DoctorTypeOK
  <2>3. gateway' \in [Doctors -> Address \cup {NoAddress}]
    BY <1>a, <1>d DEF DoctorInv, DoctorTypeOK
  <2> QED
    BY <1>b, <2>1, <2>2, <2>3 DEF DoctorInv, DoctorTypeOK
<1>2. ASSUME NEW q \in Doctors
      PROVE  /\ (step[q] = "probe" => left[q] # <<>>)'
             /\ (step[q] # "done" => ended[q] = "none")'
             /\ (step[q] \in {"read", "rename"} => gateway[q] # NoAddress)'
             /\ (step[q] = "rename" =>
                   /\ draft[q].address = gateway[q]
                   /\ Spelled(draft[q]) <=> Spelled(companion)
                   /\ crossed \/ draft[q].settings = companion.settings)'
             /\ (step[q] = "judge" /\ gateway[q] # NoAddress => companion.address # NoAddress)'
  <2> DEFINE rest == Tail(left[d])
  <2>1. left' = [left EXCEPT ![d] = rest] /\ (Len(left[d]) > 1 => rest # <<>>)
    BY <1>b, <1>c
  <2> HIDE DEF rest
  <2>2. CASE q # d
    <3>1. /\ step'[q] = step[q] /\ ended'[q] = ended[q] /\ left'[q] = left[q]
          /\ gateway'[q] = gateway[q]
      BY <1>0, <1>a, <2>1, <2>2 DEF Leave, Go, DoctorInv, DoctorTypeOK
    <3> QED
      BY <1>b, <3>1 DEF DoctorInv, Spelled
  <2>3. CASE q = d
    <3>1. gateway'[d] = address /\ left'[d] = rest
      BY <1>a, <2>1 DEF DoctorInv, DoctorTypeOK
    <3>2. \/ step'[d] = "probe" /\ rest # <<>> /\ ended' = ended
          \/ step'[d] = "read" /\ address # NoAddress /\ ended' = ended
          \/ step'[d] = "done"
          \/ step'[d] = "judge" /\ address = NoAddress /\ ended' = ended
      BY <1>0, <2>1 DEF Leave, Go, DoctorInv, DoctorTypeOK
    <3>3. ended[d] = "none"
      BY <1>b DEF DoctorInv
    <3> QED
      BY <2>3, <3>1, <3>2, <3>3
  <2> QED
    BY <2>2, <2>3
<1>3. ASSUME NEW q \in Doctors
      PROVE  /\ (q \in repairing <=> step[q] \in {"reload", "restart"})'
             /\ (struck \/ ((step[q] \in {"reload", "restart"} \/ post[q]) => override = "ours"))'
             /\ (struck \/ (step[q] = "restart" => loaded = "ours"))'
  BY DEF DoctorInv, Probe, Leave, Go, DoctorTypeOK, hostVars
<1>4. SettingsKept' /\ (Spelled(latest) <=> Spelled(companion))'
  BY DEF DoctorInv, Probe, Leave, Go, DoctorTypeOK, SettingsKept, Spelled, Content
<1>5. (struck \/ repairing # {} \/ (override = loaded /\ loaded = running))'
  BY DEF DoctorInv, Probe, Leave, Go, DoctorTypeOK, hostVars
<1>. QED  BY <1>1, <1>2, <1>3, <1>4, <1>5 DEF DoctorInv

(* Reading and rewriting the companion keeps the invariant. *)
LEMMA ReadKept ==
  ASSUME DoctorInv, NEW d \in Doctors, Read(d)
  PROVE  DoctorInv'
<1>0. \/ Leave(d, "OPERATIONAL") /\ draft' = draft
      \/ draft' = [draft EXCEPT ![d] = Rewritten(companion, gateway[d])] /\ Go(d, "rename")
  BY DEF Read
<1>a. /\ Rewritten(companion, gateway[d]) \in Content
      /\ Rewritten(companion, gateway[d]).address = gateway[d]
      /\ Rewritten(companion, gateway[d]).settings = companion.settings
      /\ Spelled(Rewritten(companion, gateway[d])) <=> Spelled(companion)
  BY DEF Rewritten, Content, Tables, Spelled, DoctorInv, DoctorTypeOK
<1>b. /\ step[d] = "read"
      /\ UNCHANGED <<policy, companion, rootless, override, loaded, running, network, source, wish,
                     post, left, gateway, plan, harm, repairing, struck, latest, crossed>>
  BY DEF Read, hostVars
<1>1. DoctorTypeOK'
  <2>1. step' \in [Doctors -> Steps] /\ ended' \in [Doctors -> ExitKinds]
    BY <1>0 DEF Leave, Go, DoctorInv, DoctorTypeOK, Steps, ExitKinds
  <2>2. draft' \in [Doctors -> Content]
    BY <1>0, <1>a DEF DoctorInv, DoctorTypeOK
  <2> QED
    BY <1>b, <2>1, <2>2 DEF DoctorInv, DoctorTypeOK
<1>2. ASSUME NEW q \in Doctors
      PROVE  /\ (step[q] = "probe" => left[q] # <<>>)'
             /\ (step[q] # "done" => ended[q] = "none")'
             /\ (step[q] \in {"read", "rename"} => gateway[q] # NoAddress)'
             /\ (step[q] = "rename" =>
                   /\ draft[q].address = gateway[q]
                   /\ Spelled(draft[q]) <=> Spelled(companion)
                   /\ crossed \/ draft[q].settings = companion.settings)'
             /\ (step[q] = "judge" /\ gateway[q] # NoAddress => companion.address # NoAddress)'
  <2> DEFINE new == Rewritten(companion, gateway[d])
  <2>1. /\ \/ Leave(d, "OPERATIONAL") /\ draft' = draft
           \/ draft' = [draft EXCEPT ![d] = new] /\ Go(d, "rename")
        /\ new.address = gateway[d] /\ new.settings = companion.settings
        /\ Spelled(new) <=> Spelled(companion)
    BY <1>0, <1>a
  <2> HIDE DEF new
  <2> QED
    BY <1>b, <2>1 DEF Leave, Go, DoctorInv, DoctorTypeOK, Spelled
<1>3. ASSUME NEW q \in Doctors
      PROVE  /\ (q \in repairing <=> step[q] \in {"reload", "restart"})'
             /\ (struck \/ ((step[q] \in {"reload", "restart"} \/ post[q]) => override = "ours"))'
             /\ (struck \/ (step[q] = "restart" => loaded = "ours"))'
  BY DEF DoctorInv, Read, Leave, Go, Rewritten, DoctorTypeOK, hostVars
<1>4. SettingsKept' /\ (Spelled(latest) <=> Spelled(companion))'
  BY DEF DoctorInv, Read, Leave, Go, Rewritten, DoctorTypeOK, SettingsKept, Spelled, Content
<1>5. (struck \/ repairing # {} \/ (override = loaded /\ loaded = running))'
  BY DEF DoctorInv, Read, Leave, Go, Rewritten, DoctorTypeOK, hostVars
<1>. QED  BY <1>1, <1>2, <1>3, <1>4, <1>5 DEF DoctorInv

(* The rename of the companion keeps the invariant. *)
LEMMA RenameKept ==
  ASSUME DoctorInv, NEW d \in Doctors, Rename(d)
  PROVE  DoctorInv'
<1>1. DoctorTypeOK'
  <2>1. step' \in [Doctors -> Steps] /\ ended' \in [Doctors -> ExitKinds]
    BY DEF Rename, Leave, Go, DoctorInv, DoctorTypeOK, Steps, ExitKinds
  <2>2. companion' \in Content
    BY DEF Rename, DoctorInv, DoctorTypeOK
  <2>3. UNCHANGED <<policy, rootless, override, loaded, running, network, source, wish, post, left,
                    gateway, draft, plan, harm, repairing, struck, latest, crossed>>
    BY DEF Rename, hostVars
  <2> QED
    BY <2>1, <2>2, <2>3 DEF DoctorInv, DoctorTypeOK
<1>2. ASSUME NEW q \in Doctors
      PROVE  /\ (step[q] = "probe" => left[q] # <<>>)'
             /\ (step[q] # "done" => ended[q] = "none")'
             /\ (step[q] \in {"read", "rename"} => gateway[q] # NoAddress)'
             /\ (step[q] = "rename" =>
                   /\ draft[q].address = gateway[q]
                   /\ Spelled(draft[q]) <=> Spelled(companion)
                   /\ crossed \/ draft[q].settings = companion.settings)'
             /\ (step[q] = "judge" /\ gateway[q] # NoAddress => companion.address # NoAddress)'
  BY DoctorAssumption DEF DoctorInv, Rename, Leave, Go, DoctorTypeOK, Spelled, SettingsKept,
     Content
<1>3. ASSUME NEW q \in Doctors
      PROVE  /\ (q \in repairing <=> step[q] \in {"reload", "restart"})'
             /\ (struck \/ ((step[q] \in {"reload", "restart"} \/ post[q]) => override = "ours"))'
             /\ (struck \/ (step[q] = "restart" => loaded = "ours"))'
  BY DEF DoctorInv, Rename, Leave, Go, DoctorTypeOK, hostVars
<1>4. SettingsKept' /\ (Spelled(latest) <=> Spelled(companion))'
  BY DEF DoctorInv, Rename, Leave, Go, DoctorTypeOK, SettingsKept, Spelled, Content
<1>5. (struck \/ repairing # {} \/ (override = loaded /\ loaded = running))'
  BY DEF DoctorInv, Rename, Leave, Go, DoctorTypeOK, hostVars
<1>. QED  BY <1>1, <1>2, <1>3, <1>4, <1>5 DEF DoctorInv

(* A failed write keeps the invariant. *)
LEMMA PersistFailsKept ==
  ASSUME DoctorInv, NEW d \in Doctors, PersistFails(d)
  PROVE  DoctorInv'
<1>1. DoctorTypeOK'
  BY DoctorAssumption DEF DoctorInv, PersistFails, Leave, Costs, DoctorTypeOK, hostVars, Steps,
     ExitKinds, Overrides
<1>2. ASSUME NEW q \in Doctors
      PROVE  /\ (step[q] = "probe" => left[q] # <<>>)'
             /\ (step[q] # "done" => ended[q] = "none")'
             /\ (step[q] \in {"read", "rename"} => gateway[q] # NoAddress)'
             /\ (step[q] = "rename" =>
                   /\ draft[q].address = gateway[q]
                   /\ Spelled(draft[q]) <=> Spelled(companion)
                   /\ crossed \/ draft[q].settings = companion.settings)'
             /\ (step[q] = "judge" /\ gateway[q] # NoAddress => companion.address # NoAddress)'
  BY DoctorAssumption DEF DoctorInv, PersistFails, Leave, Costs, DoctorTypeOK, Spelled,
     SettingsKept, Content
<1>3. ASSUME NEW q \in Doctors
      PROVE  /\ (q \in repairing <=> step[q] \in {"reload", "restart"})'
             /\ (struck \/ ((step[q] \in {"reload", "restart"} \/ post[q]) => override = "ours"))'
             /\ (struck \/ (step[q] = "restart" => loaded = "ours"))'
  BY DEF DoctorInv, PersistFails, Leave, Costs, DoctorTypeOK, hostVars
<1>4. SettingsKept' /\ (Spelled(latest) <=> Spelled(companion))'
  BY DEF DoctorInv, PersistFails, Leave, Costs, DoctorTypeOK, SettingsKept, Spelled, Content
<1>5. (struck \/ repairing # {} \/ (override = loaded /\ loaded = running))'
  BY DEF DoctorInv, PersistFails, Leave, Costs, DoctorTypeOK, hostVars
<1>. QED  BY <1>1, <1>2, <1>3, <1>4, <1>5 DEF DoctorInv

(* The decision to repair keeps the invariant. *)
LEMMA JudgeKept ==
  ASSUME DoctorInv, NEW d \in Doctors, Judge(d)
  PROVE  DoctorInv'
<1>0. \/ Leave(d, "OPERATIONAL") \/ Leave(d, "SUCCESS") \/ Leave(d, "POLICY")
      \/ Go(d, "copy")
  BY DEF Judge
<1>1. DoctorTypeOK'
  <2>1. step' \in [Doctors -> Steps] /\ ended' \in [Doctors -> ExitKinds]
    BY <1>0 DEF Leave, Go, DoctorInv, DoctorTypeOK, Steps, ExitKinds
  <2>2. Planned \in {"none", "absent", "different", "matching"}
    BY DEF Planned
  <2>3. plan' \in [Doctors -> {"none", "absent", "different", "matching"}]
    BY <2>2 DEF Judge, DoctorInv, DoctorTypeOK
  <2>4. UNCHANGED <<policy, companion, rootless, override, loaded, running, network, source, wish,
                    post, left, gateway, draft, harm, repairing, struck, latest, crossed>>
    BY DEF Judge, hostVars
  <2> QED
    BY <2>1, <2>3, <2>4 DEF DoctorInv, DoctorTypeOK
<1>2. ASSUME NEW q \in Doctors
      PROVE  /\ (step[q] = "probe" => left[q] # <<>>)'
             /\ (step[q] # "done" => ended[q] = "none")'
             /\ (step[q] \in {"read", "rename"} => gateway[q] # NoAddress)'
             /\ (step[q] = "rename" =>
                   /\ draft[q].address = gateway[q]
                   /\ Spelled(draft[q]) <=> Spelled(companion)
                   /\ crossed \/ draft[q].settings = companion.settings)'
             /\ (step[q] = "judge" /\ gateway[q] # NoAddress => companion.address # NoAddress)'
  BY DoctorAssumption DEF DoctorInv, Judge, Leave, Go, DoctorTypeOK, Spelled, SettingsKept,
     Content
<1>3. ASSUME NEW q \in Doctors
      PROVE  /\ (q \in repairing <=> step[q] \in {"reload", "restart"})'
             /\ (struck \/ ((step[q] \in {"reload", "restart"} \/ post[q]) => override = "ours"))'
             /\ (struck \/ (step[q] = "restart" => loaded = "ours"))'
  BY DEF DoctorInv, Judge, Leave, Go, DoctorTypeOK, hostVars
<1>4. SettingsKept' /\ (Spelled(latest) <=> Spelled(companion))'
  BY DEF DoctorInv, Judge, Leave, Go, DoctorTypeOK, SettingsKept, Spelled, Content
<1>5. (struck \/ repairing # {} \/ (override = loaded /\ loaded = running))'
  BY DEF DoctorInv, Judge, Leave, Go, DoctorTypeOK, hostVars
<1>. QED  BY <1>1, <1>2, <1>3, <1>4, <1>5 DEF DoctorInv

(* The copy of the override keeps the invariant. *)
LEMMA CopyKept ==
  ASSUME DoctorInv, NEW d \in Doctors, Copy(d)
  PROVE  DoctorInv'
<1>1. DoctorTypeOK'
  BY DoctorAssumption DEF DoctorInv, Copy, Go, DoctorTypeOK, hostVars, Steps, ExitKinds,
     Overrides
<1>2. ASSUME NEW q \in Doctors
      PROVE  /\ (step[q] = "probe" => left[q] # <<>>)'
             /\ (step[q] # "done" => ended[q] = "none")'
             /\ (step[q] \in {"read", "rename"} => gateway[q] # NoAddress)'
             /\ (step[q] = "rename" =>
                   /\ draft[q].address = gateway[q]
                   /\ Spelled(draft[q]) <=> Spelled(companion)
                   /\ crossed \/ draft[q].settings = companion.settings)'
             /\ (step[q] = "judge" /\ gateway[q] # NoAddress => companion.address # NoAddress)'
  BY DoctorAssumption DEF DoctorInv, Copy, Go, DoctorTypeOK, Spelled, SettingsKept, Content
<1>3. ASSUME NEW q \in Doctors
      PROVE  /\ (q \in repairing <=> step[q] \in {"reload", "restart"})'
             /\ (struck \/ ((step[q] \in {"reload", "restart"} \/ post[q]) => override = "ours"))'
             /\ (struck \/ (step[q] = "restart" => loaded = "ours"))'
  BY DEF DoctorInv, Copy, Go, DoctorTypeOK, hostVars
<1>4. SettingsKept' /\ (Spelled(latest) <=> Spelled(companion))'
  BY DEF DoctorInv, Copy, Go, DoctorTypeOK, SettingsKept, Spelled, Content
<1>5. (struck \/ repairing # {} \/ (override = loaded /\ loaded = running))'
  BY DEF DoctorInv, Copy, Go, DoctorTypeOK, hostVars
<1>. QED  BY <1>1, <1>2, <1>3, <1>4, <1>5 DEF DoctorInv

(* The reload of systemd keeps the invariant. *)
LEMMA ReloadKept ==
  ASSUME DoctorInv, NEW d \in Doctors, Reload(d)
  PROVE  DoctorInv'
<1>1. DoctorTypeOK'
  BY DoctorAssumption DEF DoctorInv, Reload, Go, DoctorTypeOK, hostVars, Steps, ExitKinds,
     Overrides
<1>2. ASSUME NEW q \in Doctors
      PROVE  /\ (step[q] = "probe" => left[q] # <<>>)'
             /\ (step[q] # "done" => ended[q] = "none")'
             /\ (step[q] \in {"read", "rename"} => gateway[q] # NoAddress)'
             /\ (step[q] = "rename" =>
                   /\ draft[q].address = gateway[q]
                   /\ Spelled(draft[q]) <=> Spelled(companion)
                   /\ crossed \/ draft[q].settings = companion.settings)'
             /\ (step[q] = "judge" /\ gateway[q] # NoAddress => companion.address # NoAddress)'
  BY DoctorAssumption DEF DoctorInv, Reload, Go, DoctorTypeOK, Spelled, SettingsKept, Content
<1>3. ASSUME NEW q \in Doctors
      PROVE  /\ (q \in repairing <=> step[q] \in {"reload", "restart"})'
             /\ (struck \/ ((step[q] \in {"reload", "restart"} \/ post[q]) => override = "ours"))'
             /\ (struck \/ (step[q] = "restart" => loaded = "ours"))'
  BY DEF DoctorInv, Reload, Go, DoctorTypeOK, hostVars
<1>4. SettingsKept' /\ (Spelled(latest) <=> Spelled(companion))'
  BY DEF DoctorInv, Reload, Go, DoctorTypeOK, SettingsKept, Spelled, Content
<1>5. (struck \/ repairing # {} \/ (override = loaded /\ loaded = running))'
  BY DEF DoctorInv, Reload, Go, DoctorTypeOK, hostVars
<1>. QED  BY <1>1, <1>2, <1>3, <1>4, <1>5 DEF DoctorInv

(* The restart of the daemon keeps the invariant. *)
LEMMA RestartKept ==
  ASSUME DoctorInv, NEW d \in Doctors, Restart(d)
  PROVE  DoctorInv'
<1>1. DoctorTypeOK'
  BY DoctorAssumption DEF DoctorInv, Restart, Go, DoctorTypeOK, hostVars, Steps, ExitKinds,
     Overrides
<1>2. ASSUME NEW q \in Doctors
      PROVE  /\ (step[q] = "probe" => left[q] # <<>>)'
             /\ (step[q] # "done" => ended[q] = "none")'
             /\ (step[q] \in {"read", "rename"} => gateway[q] # NoAddress)'
             /\ (step[q] = "rename" =>
                   /\ draft[q].address = gateway[q]
                   /\ Spelled(draft[q]) <=> Spelled(companion)
                   /\ crossed \/ draft[q].settings = companion.settings)'
             /\ (step[q] = "judge" /\ gateway[q] # NoAddress => companion.address # NoAddress)'
  BY DoctorAssumption DEF DoctorInv, Restart, Go, DoctorTypeOK, Spelled, SettingsKept, Content
<1>3. ASSUME NEW q \in Doctors
      PROVE  /\ (q \in repairing <=> step[q] \in {"reload", "restart"})'
             /\ (struck \/ ((step[q] \in {"reload", "restart"} \/ post[q]) => override = "ours"))'
             /\ (struck \/ (step[q] = "restart" => loaded = "ours"))'
  BY DEF DoctorInv, Restart, Go, DoctorTypeOK, hostVars
<1>4. SettingsKept' /\ (Spelled(latest) <=> Spelled(companion))'
  BY DEF DoctorInv, Restart, Go, DoctorTypeOK, SettingsKept, Spelled, Content
<1>5. (struck \/ repairing # {} \/ (override = loaded /\ loaded = running))'
  BY DEF DoctorInv, Restart, Go, DoctorTypeOK, hostVars
<1>. QED  BY <1>1, <1>2, <1>3, <1>4, <1>5 DEF DoctorInv

(* A failed repair keeps the invariant. *)
LEMMA RepairFailsKept ==
  ASSUME DoctorInv, NEW d \in Doctors, RepairFails(d)
  PROVE  DoctorInv'
<1>1. DoctorTypeOK'
  BY DoctorAssumption DEF DoctorInv, RepairFails, Leave, Costs, DoctorTypeOK, hostVars, Steps,
     ExitKinds, Overrides
<1>2. ASSUME NEW q \in Doctors
      PROVE  /\ (step[q] = "probe" => left[q] # <<>>)'
             /\ (step[q] # "done" => ended[q] = "none")'
             /\ (step[q] \in {"read", "rename"} => gateway[q] # NoAddress)'
             /\ (step[q] = "rename" =>
                   /\ draft[q].address = gateway[q]
                   /\ Spelled(draft[q]) <=> Spelled(companion)
                   /\ crossed \/ draft[q].settings = companion.settings)'
             /\ (step[q] = "judge" /\ gateway[q] # NoAddress => companion.address # NoAddress)'
  BY DoctorAssumption DEF DoctorInv, RepairFails, Leave, Costs, DoctorTypeOK, Spelled,
     SettingsKept, Content
<1>3. ASSUME NEW q \in Doctors
      PROVE  /\ (q \in repairing <=> step[q] \in {"reload", "restart"})'
             /\ (struck \/ ((step[q] \in {"reload", "restart"} \/ post[q]) => override = "ours"))'
             /\ (struck \/ (step[q] = "restart" => loaded = "ours"))'
  BY DEF DoctorInv, RepairFails, Leave, Costs, DoctorTypeOK, hostVars
<1>4. SettingsKept' /\ (Spelled(latest) <=> Spelled(companion))'
  BY DEF DoctorInv, RepairFails, Leave, Costs, DoctorTypeOK, SettingsKept, Spelled, Content
<1>5. (struck \/ repairing # {} \/ (override = loaded /\ loaded = running))'
  BY DEF DoctorInv, RepairFails, Leave, Costs, DoctorTypeOK, hostVars
<1>. QED  BY <1>1, <1>2, <1>3, <1>4, <1>5 DEF DoctorInv

(* A stopped doctor keeps the invariant. *)
LEMMA StoppedKept ==
  ASSUME DoctorInv, NEW d \in Doctors, Stopped(d)
  PROVE  DoctorInv'
<1>1. DoctorTypeOK'
  BY DoctorAssumption DEF DoctorInv, Stopped, Leave, Costs, DoctorTypeOK, hostVars, Steps,
     ExitKinds, Overrides
<1>2. ASSUME NEW q \in Doctors
      PROVE  /\ (step[q] = "probe" => left[q] # <<>>)'
             /\ (step[q] # "done" => ended[q] = "none")'
             /\ (step[q] \in {"read", "rename"} => gateway[q] # NoAddress)'
             /\ (step[q] = "rename" =>
                   /\ draft[q].address = gateway[q]
                   /\ Spelled(draft[q]) <=> Spelled(companion)
                   /\ crossed \/ draft[q].settings = companion.settings)'
             /\ (step[q] = "judge" /\ gateway[q] # NoAddress => companion.address # NoAddress)'
  BY DoctorAssumption DEF DoctorInv, Stopped, Leave, Costs, DoctorTypeOK, Spelled, SettingsKept,
     Content
<1>3. ASSUME NEW q \in Doctors
      PROVE  /\ (q \in repairing <=> step[q] \in {"reload", "restart"})'
             /\ (struck \/ ((step[q] \in {"reload", "restart"} \/ post[q]) => override = "ours"))'
             /\ (struck \/ (step[q] = "restart" => loaded = "ours"))'
  BY DEF DoctorInv, Stopped, Leave, Costs, DoctorTypeOK, hostVars
<1>4. SettingsKept' /\ (Spelled(latest) <=> Spelled(companion))'
  BY DEF DoctorInv, Stopped, Leave, Costs, DoctorTypeOK, SettingsKept, Spelled, Content
<1>5. (struck \/ repairing # {} \/ (override = loaded /\ loaded = running))'
  BY DEF DoctorInv, Stopped, Leave, Costs, DoctorTypeOK, hostVars
<1>. QED  BY <1>1, <1>2, <1>3, <1>4, <1>5 DEF DoctorInv

(* An edit of the companion keeps the invariant. *)
LEMMA EditCompanionKept ==
  ASSUME DoctorInv, EditCompanion
  PROVE  DoctorInv'
<1>1. DoctorTypeOK'
  <2>1. PICK choice \in Settings, link \in BOOLEAN :
            companion' = [companion EXCEPT !.settings = choice, !.link = link]
    BY DEF EditCompanion
  <2>2. companion' \in Content
    BY <2>1 DEF Content, DoctorInv, DoctorTypeOK
  <2>3. latest' \in Content /\ harm' \in 0..MaxHarm
    BY <2>2, DoctorAssumption DEF EditCompanion, Costs, DoctorInv, DoctorTypeOK
  <2>4. crossed' \in BOOLEAN
    BY DEF EditCompanion, DoctorInv, DoctorTypeOK
  <2>5. UNCHANGED <<policy, rootless, override, loaded, running, network, source, step, wish, post,
                    left, gateway, draft, plan, ended, repairing, struck>>
    BY DEF EditCompanion, hostVars
  <2> QED
    BY <2>2, <2>3, <2>4, <2>5 DEF DoctorInv, DoctorTypeOK
<1>2. ASSUME NEW q \in Doctors
      PROVE  /\ (step[q] = "probe" => left[q] # <<>>)'
             /\ (step[q] # "done" => ended[q] = "none")'
             /\ (step[q] \in {"read", "rename"} => gateway[q] # NoAddress)'
             /\ (step[q] = "rename" =>
                   /\ draft[q].address = gateway[q]
                   /\ Spelled(draft[q]) <=> Spelled(companion)
                   /\ crossed \/ draft[q].settings = companion.settings)'
             /\ (step[q] = "judge" /\ gateway[q] # NoAddress => companion.address # NoAddress)'
  BY DoctorAssumption DEF DoctorInv, EditCompanion, Costs, DoctorTypeOK, Spelled, SettingsKept,
     Content
<1>3. ASSUME NEW q \in Doctors
      PROVE  /\ (q \in repairing <=> step[q] \in {"reload", "restart"})'
             /\ (struck \/ ((step[q] \in {"reload", "restart"} \/ post[q]) => override = "ours"))'
             /\ (struck \/ (step[q] = "restart" => loaded = "ours"))'
  BY DEF DoctorInv, EditCompanion, Costs, DoctorTypeOK, hostVars
<1>4. SettingsKept' /\ (Spelled(latest) <=> Spelled(companion))'
  BY DEF DoctorInv, EditCompanion, Costs, DoctorTypeOK, SettingsKept, Spelled, Content
<1>5. (struck \/ repairing # {} \/ (override = loaded /\ loaded = running))'
  BY DEF DoctorInv, EditCompanion, Costs, DoctorTypeOK, hostVars
<1>. QED  BY <1>1, <1>2, <1>3, <1>4, <1>5 DEF DoctorInv

(* A change of the host keeps the invariant. *)
LEMMA HostChangesKept ==
  ASSUME DoctorInv, HostChanges
  PROVE  DoctorInv'
<1>1. DoctorTypeOK'
  <2>1. harm' \in 0..MaxHarm /\ running' \in Overrides \cup {"down"}
    BY DoctorAssumption DEF HostChanges, Costs, DoctorInv, DoctorTypeOK
  <2>2. network' \in BOOLEAN /\ source' \in BOOLEAN
    BY DEF HostChanges, DoctorInv, DoctorTypeOK
  <2>3. UNCHANGED <<policy, companion, rootless, override, loaded, step, wish, post, left, gateway,
                    draft, plan, ended, repairing, struck, latest, crossed>>
    BY DEF HostChanges
  <2> QED
    BY <2>1, <2>2, <2>3 DEF DoctorInv, DoctorTypeOK
<1>2. ASSUME NEW q \in Doctors
      PROVE  /\ (step[q] = "probe" => left[q] # <<>>)'
             /\ (step[q] # "done" => ended[q] = "none")'
             /\ (step[q] \in {"read", "rename"} => gateway[q] # NoAddress)'
             /\ (step[q] = "rename" =>
                   /\ draft[q].address = gateway[q]
                   /\ Spelled(draft[q]) <=> Spelled(companion)
                   /\ crossed \/ draft[q].settings = companion.settings)'
             /\ (step[q] = "judge" /\ gateway[q] # NoAddress => companion.address # NoAddress)'
  BY DoctorAssumption DEF DoctorInv, HostChanges, Costs, DoctorTypeOK, Spelled, SettingsKept,
     Content
<1>3. ASSUME NEW q \in Doctors
      PROVE  /\ (q \in repairing <=> step[q] \in {"reload", "restart"})'
             /\ (struck \/ ((step[q] \in {"reload", "restart"} \/ post[q]) => override = "ours"))'
             /\ (struck \/ (step[q] = "restart" => loaded = "ours"))'
  BY DEF DoctorInv, HostChanges, Costs, DoctorTypeOK, hostVars
<1>4. SettingsKept' /\ (Spelled(latest) <=> Spelled(companion))'
  BY DEF DoctorInv, HostChanges, Costs, DoctorTypeOK, SettingsKept, Spelled, Content
<1>5. (struck \/ repairing # {} \/ (override = loaded /\ loaded = running))'
  BY DEF DoctorInv, HostChanges, Costs, DoctorTypeOK, hostVars
<1>. QED  BY <1>1, <1>2, <1>3, <1>4, <1>5 DEF DoctorInv

(* Every step of the doctors keeps their invariant. *)
LEMMA StepDoctors ==
  ASSUME DoctorInv, DoctorNext \/ UNCHANGED doctorVars
  PROVE  DoctorInv'
<1>1. CASE UNCHANGED doctorVars
  BY <1>1 DEF doctorVars, hostVars, DoctorInv, DoctorTypeOK, SettingsKept, Spelled
<1>2. ASSUME NEW d \in Doctors, NEW consent \in BOOLEAN, NEW loads \in BOOLEAN,
             Dispatch(d, consent, loads)
      PROVE  DoctorInv'
  BY <1>2, DispatchKept
<1>3. ASSUME NEW d \in Doctors, DoctorStep(d) PROVE DoctorInv'
  BY <1>3, DetectKept, ProbeKept, ReadKept, RenameKept, PersistFailsKept, JudgeKept, CopyKept,
     ReloadKept, RestartKept, RepairFailsKept, StoppedKept DEF DoctorStep
<1>4. CASE EditCompanion
  BY <1>4, EditCompanionKept
<1>5. CASE HostChanges
  BY <1>5, HostChangesKept
<1>. QED  BY <1>1, <1>2, <1>3, <1>4, <1>5 DEF DoctorNext

-----------------------------------------------------------------------------
(* The command line takes only steps of its components. *)

(* A step of the command line is a step of the update checks, or none. *)
LEMMA StepsOfChecks == [ConstructorNext]_all => [Next]_vars
<1> SUFFICES ASSUME [ConstructorNext]_all, vars' # vars PROVE Next
  OBVIOUS
<1>1. ~UNCHANGED all
  BY DEF all
<1>2. ASSUME NEW i \in Session, Invocation(i) PROVE Next
  BY <1>2 DEF Invocation, Unparsed, Prompt, Cancelled, RunDoctor, DoctorWorks, RunCheck, CheckWorks,
     RunBuild, RunRun, RunVerify, Serve, Services, Next, Check
<1>3. CASE Outside
  BY <1>3 DEF Outside, Next
<1>. QED  BY <1>1, <1>2, <1>3 DEF ConstructorNext

(* ... and a step of the doctors, or none. *)
LEMMA StepsOfDoctors ==
  ASSUME line \in [Session -> Typed], [ConstructorNext]_all
  PROVE  DoctorNext \/ UNCHANGED doctorVars
<1>1. CASE UNCHANGED all
  BY <1>1 DEF all
<1>2. ASSUME NEW i \in Session, Invocation(i) PROVE DoctorNext \/ UNCHANGED doctorVars
  <2>1. CASE RunDoctor(i)
    <3>1. line[i].repair \in BOOLEAN /\ Loads(doc) \in BOOLEAN /\ i \in Doctors
      BY ConstructorAssumption DEF Loads
    <3> QED
      BY <2>1, <3>1 DEF RunDoctor, DoctorNext
  <2>2. CASE DoctorWorks(i)
    BY <2>2, ConstructorAssumption DEF DoctorWorks, DoctorNext
  <2> QED
    BY <1>2, <2>1, <2>2
       DEF Invocation, Unparsed, Prompt, Cancelled, RunCheck, CheckWorks, RunBuild, RunRun,
           RunVerify, Serve, Services
<1>3. CASE Outside
  BY <1>3 DEF Outside, DoctorNext
<1>. QED  BY <1>1, <1>2, <1>3 DEF ConstructorNext

(* The command lines are given and what it keeps has its type; a doctor's  *)
(* success in gateway mode has left an address.                            *)
CliInv ==
    /\ line \in [Session -> Typed]
    /\ phase \in [Session -> {"new", "asking", "working", "done"}]
    /\ refused \subseteq Session
    /\ kind \in [Session -> ExitKinds \cup {"CLI"}]
    /\ settled \in BOOLEAN
    /\ settled => companion.address # NoAddress

(* A doctor in gateway mode succeeds only with a saved address. *)
LEMMA SuccessIsSaved ==
  ASSUME DoctorInv, NEW d \in Doctors, DoctorStep(d), ended'[d] = "SUCCESS"
  PROVE  companion'.address # NoAddress
<1>1. ended[d] = "none"
  BY DEF DoctorInv, DoctorStep, Detect, Probe, Read, Rename, PersistFails, Judge, Copy, Reload,
     Restart, RepairFails, Stopped
<1>2. CASE Rename(d)
  BY <1>2 DEF Rename, DoctorInv
<1>3. CASE Judge(d)
  <2>1. gateway[d] # NoAddress /\ companion' = companion /\ step[d] = "judge"
    BY <1>1, <1>3 DEF Judge, Leave, Go, DoctorInv, DoctorTypeOK
  <2> QED
    BY <2>1 DEF DoctorInv
<1>4. CASE Probe(d)
  BY <1>1, <1>4 DEF Probe, Leave, Go, DoctorInv, DoctorTypeOK
<1>. QED  BY <1>1, <1>2, <1>3, <1>4
             DEF DoctorStep, Detect, Read, PersistFails, Copy, Reload, Restart, RepairFails, Stopped,
                 Leave, Go, DoctorInv, DoctorTypeOK

(* An address is not forgotten. *)
LEMMA AddressStays ==
  ASSUME DoctorInv, DoctorNext \/ UNCHANGED doctorVars, companion.address # NoAddress
  PROVE  companion'.address # NoAddress
<1>1. ASSUME NEW d \in Doctors, Rename(d) PROVE companion'.address # NoAddress
  BY <1>1 DEF Rename, DoctorInv
<1>2. CASE EditCompanion
  BY <1>2 DEF EditCompanion, DoctorInv, DoctorTypeOK, Content
<1>. QED  BY <1>1, <1>2
             DEF DoctorNext, Dispatch, DoctorStep, Detect, Probe, Read, PersistFails, Judge, Copy,
                 Reload, Restart, RepairFails, Stopped, HostChanges, doctorVars

(* Every step of the command line keeps its types. *)
LEMMA StepCli ==
  ASSUME DoctorInv, CliInv, [ConstructorNext]_all
  PROVE  CliInv'
<1>1. line' = line
  BY DEF ConstructorNext, Invocation, Unparsed, Prompt, Cancelled, RunDoctor, DoctorWorks, RunCheck,
     CheckWorks, RunBuild, RunRun, RunVerify, Serve, Outside, cliVars, all
<1>2. DoctorNext \/ UNCHANGED doctorVars
  BY StepsOfDoctors DEF CliInv
<1>3. CASE UNCHANGED all
  BY <1>3 DEF all, cliVars, doctorVars, CliInv
<1>4. CASE Outside
  BY <1>2, <1>4, AddressStays DEF Outside, cliVars, CliInv
<1>5. ASSUME NEW i \in Session, DoctorWorks(i) PROVE CliInv'
  <2>1. settled' \in BOOLEAN
    BY <1>5 DEF DoctorWorks, CliInv
  <2>2. settled' => companion'.address # NoAddress
    BY <1>2, <1>5, AddressStays, SuccessIsSaved, ConstructorAssumption DEF DoctorWorks, CliInv
  <2> QED
    BY <1>5, <2>1, <2>2 DEF DoctorWorks, CliInv
<1>6. ASSUME NEW i \in Session, Invocation(i), ~DoctorWorks(i) PROVE CliInv'
  <2>1. settled' = settled
    BY <1>6 DEF Invocation, Unparsed, Prompt, Cancelled, RunDoctor, RunCheck, CheckWorks, RunBuild,
       RunRun, RunVerify, Serve, cliVars
  <2>2. refused' = refused \/ refused' = refused \cup {i}
    BY <1>6 DEF Invocation, Unparsed, Prompt, Cancelled, RunDoctor, RunCheck, CheckWorks, RunBuild,
       RunRun, RunVerify, Serve, cliVars, Working
  <2>3. /\ \/ phase' = phase
           \/ \E p \in {"new", "asking", "working", "done"} : phase' = [phase EXCEPT ![i] = p]
        /\ \/ kind' = kind
           \/ \E k \in ExitKinds \cup {"CLI"} : kind' = [kind EXCEPT ![i] = k]
    <3>1. ASSUME NEW command \in {"build", "run", "verify"}, Is(i, command)
          PROVE  Outcomes(i) \subseteq ExitKinds
      <4>1. CASE command = "build"
        BY <3>1, <4>1 DEF Outcomes, ExitKinds, Is
      <4>2. CASE command = "run"
        BY <3>1, <4>2 DEF Outcomes, ExitKinds, Is
      <4>3. CASE command = "verify"
        BY <3>1, <4>3 DEF Outcomes, ExitKinds, Is
      <4> QED
        BY <4>1, <4>2, <4>3
    <3>2. ASSUME NEW command \in {"build", "run", "verify"}, NEW needed, NEW refuses,
                 Serve(i, command, needed, refuses)
          PROVE  /\ phase' = [phase EXCEPT ![i] = "done"]
                 /\ \E k \in ExitKinds : kind' = [kind EXCEPT ![i] = k]
      <4>1. Is(i, command)
        BY <3>2 DEF Serve, Ready
      <4> QED
        BY <3>1, <3>2, <4>1 DEF Serve, Ends, ExitKinds
    <3>5. CASE RunBuild(i) \/ RunRun(i) \/ RunVerify(i)
      BY <3>2, <3>5 DEF RunBuild, RunRun, RunVerify
    <3>3. CASE RunCheck(i)
      BY <3>3 DEF RunCheck, Ends, Working, ExitKinds
    <3>4. CASE Unparsed(i) \/ Prompt(i) \/ Cancelled(i) \/ RunDoctor(i) \/ CheckWorks(i)
      BY <3>4 DEF Unparsed, Prompt, Cancelled, RunDoctor, CheckWorks, Ends, Working, ExitKinds, cliVars
    <3> QED
      BY <1>6, <3>3, <3>4, <3>5 DEF Invocation
  <2>4. phase' \in [Session -> {"new", "asking", "working", "done"}]
        /\ kind' \in [Session -> ExitKinds \cup {"CLI"}]
    BY <2>3 DEF CliInv
  <2>5. settled' => companion'.address # NoAddress
    BY <1>2, <2>1, AddressStays DEF CliInv
  <2> QED
    BY <1>1, <2>1, <2>2, <2>4, <2>5 DEF CliInv
<1>. QED  BY <1>3, <1>4, <1>5, <1>6 DEF ConstructorNext

(* All the invariants hold in every state. *)
LEMMA ConstructorInvariance == ConstructorSpec => [](CheckInv /\ DoctorInv /\ CliInv)
<1>1. ConstructorInit => CheckInv /\ DoctorInv /\ CliInv
  BY InitCheck, InitDoctors DEF ConstructorInit, CliInv, ExitKinds
<1>2. CheckInv /\ DoctorInv /\ CliInv /\ [ConstructorNext]_all
        => CheckInv' /\ DoctorInv' /\ CliInv'
  BY StepsOfChecks, StepCheck, StepsOfDoctors, StepDoctors, StepCli DEF CliInv
<1>. QED  BY <1>1, <1>2, PTL DEF ConstructorSpec


(* check-updates on its own is what the command line does with it: every   *)
(* behaviour of the command line is one of the update checks.              *)
THEOREM Composed == ConstructorSpec => Spec
<1>1. ConstructorInit => Init
  BY DEF ConstructorInit
<1>. QED  BY <1>1, StepsOfChecks, PTL DEF ConstructorSpec, Spec

(* The blocks of a check nobody interfered with can be pasted: what        *)
(* build_replacement_blocks renders for the inventory it read the second   *)
(* time makes an inventory load_versions accepts.                          *)
THEOREM BlocksLoad == ConstructorSpec => []BlocksReload
<1>. QED  BY ConstructorInvariance, PastedLoads, PTL

(* No block lowers a version: the guard of the providers, on the inventory *)
(* of before the network, holds for the inventory of after it.             *)
THEOREM BlocksNotLower == ConstructorSpec => []BlocksNeverLower
<1>. QED  BY ConstructorInvariance, FragmentNotLower, PTL

(* A failed connection that a check reports is not older than the retry    *)
(* the user is told to make, for whatever TTL of the disk cache does not   *)
(* exceed it: no failure is served beyond its TTL (DiskCache.get), none is *)
(* dated later than it happened.                                           *)
THEOREM FailuresAge ==
  ASSUME TTL \in Nat, TTL <= Patience
  PROVE  ConstructorSpec => []RetryLaterHelps
<1>1. ConstructorInit => CheckInv /\ AgeInv
  BY InitCheck, InitAges DEF ConstructorInit
<1>2. CheckInv /\ AgeInv /\ [ConstructorNext]_all => CheckInv' /\ AgeInv'
  BY StepsOfChecks, StepCheck, StepAges
<1>3. AgeInv => RetryLaterHelps
  BY DEF AgeInv
<1>. QED  BY <1>1, <1>2, <1>3, PTL DEF ConstructorSpec

(* Any number of doctors rewriting the companion leave its other sections  *)
(* as the user last wrote them (_persist_host_access_address), unless the  *)
(* user wrote while one of them held a draft.                              *)
THEOREM OthersKept == ConstructorSpec => []SettingsKept
<1>1. DoctorInv => SettingsKept
  BY DEF DoctorInv
<1>. QED  BY <1>1, ConstructorInvariance, PTL

(* All states of the command line and its services are well typed. *)
THEOREM WellTyped == ConstructorSpec => []ConstructorTypeOK
<1>1. CheckInv /\ DoctorInv /\ CliInv => ConstructorTypeOK
  BY DEF CheckInv, DoctorInv, CliInv, ConstructorTypeOK
<1>. QED  BY <1>1, ConstructorInvariance, PTL

-----------------------------------------------------------------------------
(* What a step may not do.                                                 *)

(* A doctor that was to repair and ends well found the override in effect, *)
(* or had restarted the daemon on it.                                      *)
LEMMA EndsRepaired ==
  ASSUME DoctorInv, NEW d \in Doctors, DoctorStep(d),
         ended[d] = "none", ended'[d] = "SUCCESS", wish[d], rootless
  PROVE  running = "ours" \/ struck \/ repairing # {}
<1> SUFFICES ASSUME ~struck, repairing = {} PROVE running = "ours"
  OBVIOUS
<1>1. override = loaded /\ loaded = running
  BY DEF DoctorInv
<1>2. CASE Judge(d)
  <2>1. Planned = "matching"
    BY <1>2 DEF Judge, Leave, Go, DoctorInv, DoctorTypeOK
  <2>2. override = "ours"
    BY <2>1 DEF Planned
  <2> QED
    BY <1>1, <2>2
<1>3. CASE Rename(d)
  <2>1. post[d]
    BY <1>3 DEF Rename, Leave, Go, DoctorInv, DoctorTypeOK
  <2> QED
    BY <1>1, <2>1 DEF DoctorInv
<1>4. ~(Detect(d) \/ Read(d) \/ PersistFails(d) \/ Copy(d) \/ Reload(d) \/ Restart(d)
          \/ RepairFails(d) \/ Stopped(d))
  BY DEF Detect, Read, PersistFails, Copy, Reload, Restart, RepairFails, Stopped, Leave, Go,
         DoctorInv, DoctorTypeOK
<1>5. ~Probe(d)
  BY DEF Probe, Leave, Go, DoctorInv, DoctorTypeOK
<1>. QED  BY <1>2, <1>3, <1>4, <1>5 DEF DoctorStep

(* A doctor asked to repair a rootless daemon does not report success over *)
(* one that runs without the override: orchestrate_doctor skips the repair *)
(* only of an override that has taken effect.                              *)
THEOREM RepairedOnSuccess == ConstructorSpec => SuccessIsRepaired
<1> DEFINE Lawful(d) ==
      ended[d] = "none" /\ ended'[d] = "SUCCESS" /\ policy = "gateway" /\ wish[d] /\ rootless
        => running = "ours" \/ struck \/ repairing # {}
<1>1. ASSUME DoctorInv, CliInv, [ConstructorNext]_all, NEW d \in Doctors
      PROVE  Lawful(d)
  <2>1. DoctorNext \/ UNCHANGED doctorVars
    BY <1>1, StepsOfDoctors DEF CliInv
  <2>2. ASSUME NEW e \in Doctors, DoctorStep(e) PROVE Lawful(d)
    <3>1. CASE e = d
      BY <1>1, <2>2, <3>1, EndsRepaired
    <3>2. CASE e # d
      <4>1. ended'[d] = ended[d]
        BY <1>1, <2>2, <3>2
           DEF DoctorStep, Detect, Probe, Read, Rename, PersistFails, Judge, Copy, Reload, Restart,
               RepairFails, Stopped, Leave, Go, DoctorInv, DoctorTypeOK
      <4> QED
        BY <4>1
    <3> QED
      BY <3>1, <3>2
  <2>3. ASSUME NEW e \in Doctors, NEW consent \in BOOLEAN, NEW loads \in BOOLEAN,
               Dispatch(e, consent, loads)
        PROVE  Lawful(d)
    BY <1>1, <2>3 DEF Dispatch, Leave, Go, DoctorInv, DoctorTypeOK
  <2>4. CASE UNCHANGED doctorVars \/ EditCompanion \/ HostChanges
    BY <2>4 DEF doctorVars, EditCompanion, HostChanges
  <2> QED
    BY <2>1, <2>2, <2>3, <2>4 DEF DoctorNext
<1>2. DoctorInv /\ CliInv /\ [ConstructorNext]_all
        => [\A d \in Doctors : Lawful(d)]_doctorVars
  BY <1>1
<1>3. (\A d \in Doctors : Lawful(d)) <=>
        \A d \in Doctors :
          ended[d] = "none" /\ ended'[d] = "SUCCESS" /\ policy = "gateway" /\ wish[d] /\ rootless
            => running = "ours" \/ struck \/ repairing # {}
  OBVIOUS
<1>. HIDE DEF Lawful
<1>. QED  BY <1>2, <1>3, ConstructorInvariance, PTL DEF ConstructorSpec, SuccessIsRepaired

(* With an address that is not the token and one table, whoever asks for   *)
(* the companion gets it.                                                  *)
LEMMA SettledLoads ==
  ASSUME DoctorInv, CliInv, settled, Spelled(latest), companion.address # HostGateway
  PROVE  /\ companion.address # NoAddress
         /\ \A mode : CompanionLoads(mode)
  BY DEF DoctorInv, CliInv, Spelled, CompanionLoads

(* After a doctor's success build, run, verify and check-updates are not   *)
(* refused for the companion's sake: launcher.py's "Run 'doctor' first" is *)
(* advice that helps, wherever the probe named an address and the user     *)
(* spells the table the way the doctor does.                               *)
THEOREM Settles == ConstructorSpec => DoctorSettles
<1>1. ASSUME DoctorInv, CliInv, [ConstructorNext]_all,
             settled, latest.table \in {"none", "plain"}, companion.address # HostGateway
      PROVE  refused' = refused
  <2>1. /\ companion.address # NoAddress
        /\ \A mode : CompanionLoads(mode)
    BY <1>1, SettledLoads DEF Spelled
  <2>2. /\ ~BuildRefused /\ ~RunRefused
        /\ \A i \in Session : ~VerifyRefused(i)
    BY <2>1 DEF BuildRefused, RunRefused, VerifyRefused
  <2>3. ASSUME NEW i \in Session, Invocation(i) PROVE refused' = refused
    BY <2>1, <2>2, <2>3
       DEF Invocation, Unparsed, Prompt, Cancelled, RunDoctor, DoctorWorks, RunCheck, CheckWorks,
           RunBuild, RunRun, RunVerify, Serve, Working, cliVars
  <2> QED
    BY <1>1, <2>3 DEF ConstructorNext, Outside, cliVars, all
<1>. QED  BY <1>1, ConstructorInvariance, PTL DEF ConstructorSpec, DoctorSettles
====
