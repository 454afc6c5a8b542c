----------------------------- MODULE UpdateCheck -----------------------------
(***************************************************************************)
(* check-updates, from the load of the inventory to the fragments a user   *)
(* pastes:                                                                 *)
(*   docker/versioning/readonly_service.py  dispatch, _handle_check_updates*)
(*   docker/versioning/updates.py           check_updates and the blocks   *)
(* A session reads the inventory, asks the provider of one target after    *)
(* another, reads the inventory a second time and renders the blocks with  *)
(* a candidate.  Others may edit the file, or paste an older session's     *)
(* fragments, at any moment.                                               *)
(***************************************************************************)
EXTENDS Inventory, MetadataCache, Sequences, FiniteSetsExt

CONSTANTS
    Targets,     \* the entries in the order of build_update_targets
    Documents,   \* the inventories the world may start from
    Options,     \* the options a session may be given
    Patience,    \* the ticks after which a retry counts as later
    MaxEdits     \* bound on edits of the inventory

ASSUME UpdateAssumption ==
    /\ Key = Entry /\ Releases = Versions
    /\ Targets \in Seq(Entry) /\ Patience \in Nat /\ MaxEdits \in Nat
    /\ \A doc \in Documents : doc \in [Entry -> Block] /\ Loads(doc)

VARIABLES
    doc,        \* docker-constructor.toml
    edits,
    stage,      \* where each session is
    option,     \* per session: only, prereleases, direct, suggest, strict, failing
    checked,    \* per session: the inventory it loaded
    began,      \* per session: when
    queue,      \* per session: the places in Targets of those it has not resolved
    results,    \* per session: the result of each target
    base,       \* per session: the inventory the blocks were rendered from
    edited,     \* history: the inventory was edited while the session ran
    verdict     \* per session: its exit kind

sessionVars == <<stage, option, checked, began, queue, results, base, edited, verdict>>
vars == <<doc, edits, sessionVars, worldVars, cacheVars>>

NoResult == [Skipped EXCEPT !.status = "none"]
Outage == [Skipped EXCEPT !.status = "outage"]

StageOf == {"idle", "asking", "keeping", "rendering", "done"}
Verdicts == {"none", "SUCCESS", "CONFIG", "OPERATIONAL", "POLICY"}
Statuses == {"none", "skipped", "current", "outdated", "incomplete", "unavailable", "outage"}

TypeOK ==
    /\ CacheTypeOK
    /\ doc \in [Entry -> Block] /\ edits \in 0..MaxEdits
    /\ stage \in [Session -> StageOf]
    /\ \A s \in Session : option[s] \in Options
    /\ checked \in [Session -> [Entry -> Block]]
    /\ base \in [Session -> [Entry -> Block]]
    /\ began \in [Session -> 0..MaxTime]
    /\ queue \in [Session -> SUBSET DOMAIN Targets]
    /\ results \in [Session -> [Entry -> [status : Statuses, candidate : Version \cup {NoVersion},
                                          platforms : SUBSET Platform]]]
    /\ edited \subseteq Session
    /\ verdict \in [Session -> Verdicts]

Init ==
    /\ CacheInit
    /\ doc \in Documents /\ edits = 0
    /\ stage = [s \in Session |-> "idle"]
    /\ option \in [Session -> Options]
    /\ checked = [s \in Session |-> doc] /\ base = checked
    /\ began = [s \in Session |-> 0]
    /\ queue = [s \in Session |-> {}]
    /\ results = [s \in Session |-> [e \in Entry |-> NoResult]]
    /\ edited = {}
    /\ verdict = [s \in Session |-> "none"]

-----------------------------------------------------------------------------
Finish(s, kind) ==
    /\ stage' = [stage EXCEPT ![s] = "done"]
    /\ verdict' = [verdict EXCEPT ![s] = kind]

(* dispatch loads the inventory; the scope and the filters pick targets.   *)
Load(s) ==
    /\ stage[s] = "idle"
    /\ checked' = [checked EXCEPT ![s] = doc]
    /\ began' = [began EXCEPT ![s] = now]
    /\ LET picked == {i \in DOMAIN Targets : Targets[i] \in option[s].only}
       IN  /\ queue' = [queue EXCEPT ![s] = picked]
           /\ IF Loads(doc) /\ picked # {}
                THEN stage' = [stage EXCEPT ![s] = "asking"] /\ UNCHANGED verdict
                ELSE Finish(s, "CONFIG")
    /\ UNCHANGED <<doc, edits, option, results, base, edited, worldVars, cacheVars>>

(* A provider turns an answer into a result and the next target is due.    *)
Result(s, e, answer) ==
    IF KindOf[e] = "pi" THEN Skipped
    ELSE IF answer = Garbled THEN Unavailable
    ELSE IF answer.releases = Down THEN Outage
    ELSE Classified(e, checked[s][e], answer.releases, option[s].prereleases)

(* The target check_updates is at.                                         *)
Due(s) == Targets[Min(queue[s])]

Resolve(s, result) ==
    LET left == queue[s] \ {Min(queue[s])}
    IN  /\ results' = [results EXCEPT ![s][Due(s)] = result]
        /\ queue' = [queue EXCEPT ![s] = left]
        /\ stage' = [stage EXCEPT ![s] = IF left = {} THEN "rendering" ELSE "asking"]

(* The disk answers.                                                       *)
Direct(s, e) == option[s].direct \/ option[s].suggest \/ KindOf[e] \in Uncached

AskDisk(s) ==
    /\ stage[s] = "asking"
    /\ LET e == Due(s)
       IN  /\ KindOf[e] # "pi" /\ ~Direct(s, e)
           /\ \E answer \in Served(e) : Resolve(s, Result(s, e, answer))
    /\ UNCHANGED <<doc, edits, option, checked, began, base, edited, verdict, worldVars, cacheVars>>

(* The network answers, and with the disk tier the answer is written       *)
(* before the provider sees it.                                            *)
AskNetwork(s) ==
    /\ stage[s] = "asking"
    /\ LET e == Due(s)
       IN  IF Direct(s, e) \/ KindOf[e] = "pi"
             THEN Resolve(s, Result(s, e, Fetched(e))) /\ UNCHANGED cacheVars
             ELSE /\ Miss(e)
                  /\ Keep(s, Fetched(e))
                  /\ stage' = [stage EXCEPT ![s] = "keeping"]
                  /\ UNCHANGED <<results, queue>>
    /\ UNCHANGED <<doc, edits, option, checked, began, base, edited, verdict, worldVars>>

KeepStep(s) ==
    /\ stage[s] = "keeping"
    /\ LET e == Due(s)
       IN  \/ OpenSpare(s, e) \/ WriteHead(s, e) \/ WriteTail(s, e)
    /\ UNCHANGED <<doc, edits, sessionVars, worldVars>>

Kept(s) ==
    /\ stage[s] = "keeping"
    /\ LET e == Due(s)
       IN  /\ PublishSpare(s, e)
           /\ Resolve(s, Result(s, e, fetched[s]))
    /\ UNCHANGED <<doc, edits, option, checked, began, base, edited, verdict, worldVars>>

(* The provider takes the failed write for a failed request.               *)
NotKept(s) ==
    /\ stage[s] = "keeping"
    /\ LET e == Due(s)
       IN  KeepFails(s, e) /\ Resolve(s, Unavailable)
    /\ UNCHANGED <<doc, edits, option, checked, began, base, edited, verdict, worldVars>>

-----------------------------------------------------------------------------
(* build_replacement_blocks on the inventory as it is read again.          *)
Fragment(s, e) == Overlaid(e, base[s][e], results[s][e], checked[s][e].version)
Offered(s) == {OwnerOf[e] : e \in {f \in Entry : results[s][f].status = "outdated"}}
Replaced(s) == {e \in Entry : OwnerOf[e] \in Offered(s)}
Pasted(s, document) ==
    [e \in Entry |-> IF e \in Replaced(s) THEN Fragment(s, e) ELSE document[e]]

ExitKind(s) ==
    LET statuses == {results[s][e].status : e \in Entry}
    IN  IF option[s].strict /\ statuses \cap {"unavailable", "outage"} # {} THEN "OPERATIONAL"
        ELSE IF option[s].failing /\ "outdated" \in statuses THEN "POLICY"
        ELSE "SUCCESS"

Render(s) ==
    /\ stage[s] = "rendering"
    /\ base' = [base EXCEPT ![s] = doc]
    /\ Finish(s, ExitKind(s))
    /\ UNCHANGED <<doc, edits, option, checked, began, queue, results, edited, worldVars, cacheVars>>

Killed(s) ==
    /\ stage[s] \in {"asking", "keeping", "rendering"}
    /\ stage' = [stage EXCEPT ![s] = "done"]
    /\ Closed(s)
    /\ UNCHANGED <<doc, edits, option, checked, began, queue, results, base, edited, verdict,
                   worldVars, entry, spare, content>>

Check(s) ==
    Load(s) \/ AskDisk(s) \/ AskNetwork(s) \/ KeepStep(s) \/ Kept(s) \/ NotKept(s) \/ Render(s)
        \/ Killed(s)

-----------------------------------------------------------------------------
(* The user pastes every block a session printed, or edits an entry.       *)
Running == {s \in Session : stage[s] \in {"asking", "keeping", "rendering"}}

Write(document) ==
    /\ document # doc
    /\ edits < MaxEdits /\ edits' = edits + 1
    /\ doc' = document
    /\ edited' = edited \cup Running
    /\ UNCHANGED <<stage, option, checked, began, queue, results, base, verdict,
                   worldVars, cacheVars>>

Paste(s) ==
    /\ stage[s] = "done" /\ verdict[s] \in {"SUCCESS", "POLICY", "OPERATIONAL"} /\ option[s].suggest
    /\ Write(Pasted(s, doc))

Edit == \E document \in Documents : Write(document)

UpdateWorld == World /\ UNCHANGED <<doc, edits, sessionVars>>

Next == (\E s \in Session : Check(s) \/ Paste(s)) \/ Edit \/ UpdateWorld

Spec == Init /\ [][Next]_vars

-----------------------------------------------------------------------------
(* A session that printed blocks.                                          *)
Suggesting(s) ==
    stage[s] = "done" /\ verdict[s] \in {"SUCCESS", "POLICY", "OPERATIONAL"} /\ option[s].suggest

(* What build_replacement_blocks does not promise more of than it takes    *)
(* from the providers: releases carry the prerelease flag their name calls *)
(* for, prereleases were not asked for, the newest version of an extension *)
(* is one its constraint admits, every declared platform is required.      *)
Ordinary(s) ==
    /\ ~option[s].prereleases
    /\ \A e \in Replaced(s) :
        /\ KindOf[e] = "release" =>
             results[s][e].candidate \notin Unflagged /\ Declared(base[s][e]) = Required[e]
        /\ KindOf[e] = "extension" => results[s][e].candidate \in Allowed[e] \cup {NoVersion}

(* Pasted into the inventory they were rendered from, the blocks of a      *)
(* session make an inventory that loads (build_replacement_blocks), as     *)
(* long as nobody edited the inventory while the session ran.              *)
Admitted(s) == s \notin edited /\ Ordinary(s)
BlocksReload == \A s \in Session : Suggesting(s) /\ Admitted(s) => Loads(Pasted(s, base[s]))

(* The same whenever the inventory was edited: the blocks are printed for  *)
(* the file as _handle_check_updates reads it the second time, so that is  *)
(* the one they must fit.                                                  *)
BlocksFitTheFile ==
    \A s \in Session : Suggesting(s) /\ Ordinary(s) => Loads(Pasted(s, base[s]))

(* No block lowers the version of the inventory it was rendered from: the  *)
(* providers' guard compares with the inventory loaded before the network  *)
(* was asked, so it holds while nobody raised the version in between.      *)
BlocksNeverLower ==
    \A s \in Session : Suggesting(s) /\ s \notin edited =>
        \A e \in Replaced(s) :
            KindOf[e] \notin Opaque => Fragment(s, e).version >= base[s][e].version

(* A target reported unavailable for a failed connection is so because     *)
(* connections failed since, or at most Patience ticks before, the session *)
(* began: retrying later helps.                                            *)
RetryLaterHelps ==
    \A s \in Session, e \in Entry :
        results[s][e].status = "outage" => began[s] <= lastDown + Patience
=============================================================================
