-------------------------------- MODULE Doctor --------------------------------
(***************************************************************************)
(* doctor: which address a container reaches the host by, where it is      *)
(* kept, and the repair of a rootless docker that reaches it by none:      *)
(*   docker/versioning/build_orchestration.py  orchestrate_doctor and the  *)
(*                                             rewriting of the companion  *)
(*   docker/networking.py                      diagnosis, probes, override *)
(*   docker/versioning/inventory.py            load_local_config           *)
(* Doctors of one project run side by side; the user edits the companion,  *)
(* the network and the daemon change, calls fail and doctors are stopped.  *)
(***************************************************************************)
EXTENDS Naturals, Sequences

CONSTANTS
    Doctors,
    Settings,     \* contents of the companion's other sections
    NoAddress,
    MaxHarm       \* bound on failing calls, stopped doctors and changes from outside

(* The candidates, and the address host-gateway resolves to.               *)
Nat10 == "10.0.2.2"
Lan == "lan"
HostGateway == "host-gateway"
Bridge == "bridge"
Address == {Nat10, Lan, HostGateway, Bridge}

ASSUME DoctorAssumption == NoAddress \notin Address /\ MaxHarm \in Nat

VARIABLES
    policy,      \* [runtime.host-access] of the inventory
    companion,   \* docker-constructor.local.toml
    rootless,    \* the daemon's mode
    override,    \* the override file of the user's docker.service
    loaded,      \* what systemd has read of it
    running,     \* what the daemon was started with, or "down"
    network,     \* whether the host answers on its own addresses
    source,      \* whether the override shipped with the program is there
    step,        \* where each doctor is
    wish,        \* per doctor: whether it repairs
    post,        \* per doctor: the repair is done, it diagnoses again
    left,        \* per doctor: the candidates it has not probed
    gateway,     \* per doctor: the address of the first probe that answered
    draft,       \* per doctor: what it is about to write
    plan,        \* per doctor: the state of the override
    ended,       \* per doctor: its exit kind
    harm,
    repairing,   \* history: doctors between the copy and the restart
    struck,      \* history: a repair has failed or was stopped half-way
    latest,      \* history: the companion as the user last left it
    crossed      \* history: the user edited while a doctor held a draft

hostVars == <<rootless, override, loaded, running, network, source>>
doctorVars == <<policy, companion, hostVars, step, wish, post, left, gateway, draft, plan,
                ended, harm, repairing, struck, latest, crossed>>

(* A companion: whether it is a link, how [host-access] is written, and    *)
(* what it says.  "inline" stands for every spelling of the table the      *)
(* line scanner does not know, "twice" for a second table after it.        *)
Tables == {"none", "plain", "inline", "twice"}
Content == [link : BOOLEAN, table : Tables, address : Address \cup {NoAddress},
            settings : Settings]

Steps == {"idle", "detect", "probe", "read", "rename", "judge", "copy", "reload",
          "restart", "done"}
ExitKinds == {"none", "SUCCESS", "CONFIG", "OPERATIONAL", "POLICY"}
Overrides == {"absent", "other", "ours"}

DoctorTypeOK ==
    /\ policy \in {"off", "external", "gateway"}
    /\ companion \in Content
    /\ rootless \in BOOLEAN /\ network \in BOOLEAN /\ source \in BOOLEAN
    /\ override \in Overrides /\ loaded \in Overrides /\ running \in Overrides \cup {"down"}
    /\ step \in [Doctors -> Steps]
    /\ wish \in [Doctors -> BOOLEAN] /\ post \in [Doctors -> BOOLEAN]
    /\ left \in [Doctors -> Seq(Address)]
    /\ gateway \in [Doctors -> Address \cup {NoAddress}]
    /\ draft \in [Doctors -> Content]
    /\ plan \in [Doctors -> {"none", "absent", "different", "matching"}]
    /\ ended \in [Doctors -> ExitKinds]
    /\ harm \in 0..MaxHarm
    /\ repairing \subseteq Doctors /\ struck \in BOOLEAN
    /\ latest \in Content /\ crossed \in BOOLEAN

DoctorInit ==
    /\ policy \in {"off", "external", "gateway"}
    /\ companion \in [link : {FALSE}, table : {"none"}, address : {NoAddress}, settings : Settings]
         \cup [link : {FALSE}, table : {"plain", "inline"}, address : {Lan}, settings : Settings]
    /\ rootless \in BOOLEAN /\ network \in BOOLEAN /\ source = TRUE
    /\ override \in Overrides /\ loaded = override /\ running = override
    /\ step = [d \in Doctors |-> "idle"]
    /\ wish = [d \in Doctors |-> FALSE]
    /\ post = [d \in Doctors |-> FALSE]
    /\ left = [d \in Doctors |-> <<>>]
    /\ gateway = [d \in Doctors |-> NoAddress]
    /\ draft = [d \in Doctors |-> companion]
    /\ plan = [d \in Doctors |-> "none"]
    /\ ended = [d \in Doctors |-> "none"]
    /\ harm = 0 /\ repairing = {} /\ struck = FALSE
    /\ latest = companion /\ crossed = FALSE

(* load_local_config: a second table is malformed, and the token           *)
(* host-gateway is an address only where the caller passes the mode.       *)
CompanionLoads(mode) ==
    /\ companion.table # "twice"
    /\ companion.address = HostGateway => mode = "docker-gateway"

-----------------------------------------------------------------------------
Leave(d, kind) ==
    /\ step' = [step EXCEPT ![d] = "done"]
    /\ ended' = [ended EXCEPT ![d] = kind]

Go(d, next) == step' = [step EXCEPT ![d] = next] /\ UNCHANGED ended

Costs == harm < MaxHarm /\ harm' = harm + 1

(* _resolve_doctor_host_access and the dispatch by mode.  consent is the   *)
(* wish to repair as the command line and the user left it, loads whether  *)
(* the inventory loads.                                                    *)
Dispatch(d, consent, loads) ==
    /\ step[d] = "idle"
    /\ wish' = [wish EXCEPT ![d] = consent]
    /\ CASE ~loads -> Leave(d, "CONFIG")
         [] loads /\ policy \in {"off", "external"} -> Leave(d, "SUCCESS")
         [] loads /\ policy = "gateway" -> Go(d, "detect")
    /\ UNCHANGED <<policy, companion, hostVars, post, left, gateway, draft, plan, harm,
                   repairing, struck, latest, crossed>>

(* detect_docker_mode, detect_lan_ip and candidate_gateways.               *)
Candidates == IF rootless THEN <<Nat10, Lan, HostGateway>> ELSE <<HostGateway, Lan>>

Detect(d) ==
    /\ step[d] = "detect"
    /\ gateway' = [gateway EXCEPT ![d] = NoAddress]
    /\ left' = [left EXCEPT ![d] = Candidates]
    /\ IF running = "down" THEN Leave(d, "OPERATIONAL") ELSE Go(d, "probe")
    /\ UNCHANGED <<policy, companion, hostVars, wish, post, draft, plan, harm, repairing,
                   struck, latest, crossed>>

(* A container gets the token over the candidate: over 10.0.2.2 if the     *)
(* daemon was started with the override, over the others if the host       *)
(* answers there.                                                          *)
Answers(candidate) ==
    /\ running # "down"
    /\ CASE candidate = Nat10 -> rootless /\ running = "ours"
         [] candidate = Lan -> network
         [] candidate = HostGateway -> network /\ ~rootless

(* An answered probe names the address, or just the candidate.             *)
Named(candidate) == IF candidate = HostGateway THEN {Bridge, HostGateway} ELSE {candidate}

(* probe_gateway for each candidate; the first that answers is chosen and  *)
(* all are probed.                                                         *)
Probe(d) ==
    /\ step[d] = "probe"
    /\ LET candidate == Head(left[d])
           first == gateway[d] = NoAddress /\ Answers(candidate)
       IN  \E address \in IF first THEN Named(candidate) ELSE {gateway[d]} :
             /\ gateway' = [gateway EXCEPT ![d] = address]
             /\ IF Len(left[d]) > 1 THEN Go(d, "probe")
                ELSE IF address # NoAddress THEN Go(d, "read")
                ELSE IF post[d] THEN Leave(d, "OPERATIONAL")
                ELSE Go(d, "judge")
    /\ left' = [left EXCEPT ![d] = Tail(@)]
    /\ UNCHANGED <<policy, companion, hostVars, wish, post, draft, plan, harm, repairing,
                   struck, latest, crossed>>

-----------------------------------------------------------------------------
(* _persist_host_access_address.                                           *)

(* Mutants: the address is appended in a table of its own whatever there   *)
(* is; the other sections are not written back.                            *)
AppendAlways(content, address) ==
    [content EXCEPT !.address = address, !.table = IF @ = "none" THEN "plain" ELSE "twice"]
WriteAlone(content, address) ==
    [content EXCEPT !.address = address, !.table = "plain", !.settings = CHOOSE x \in Settings : TRUE]

(* The line scanner replaces the address of a table it knows, or appends   *)
(* a table.                                                                *)
Rewritten(content, address) ==
    [content EXCEPT
        !.address = address,
        !.table = CASE @ \in {"none", "plain"} -> "plain" [] OTHER -> "twice"]

Read(d) ==
    /\ step[d] = "read"
    /\ IF companion.link THEN Leave(d, "OPERATIONAL") /\ UNCHANGED draft
       ELSE /\ draft' = [draft EXCEPT ![d] = Rewritten(companion, gateway[d])]
            /\ Go(d, "rename")
    /\ UNCHANGED <<policy, companion, hostVars, wish, post, left, gateway, plan, harm,
                   repairing, struck, latest, crossed>>

(* Written under a name of its own, renamed.                               *)
Rename(d) ==
    /\ step[d] = "rename"
    /\ companion' = draft[d]
    /\ IF post[d] THEN Leave(d, "SUCCESS") ELSE Go(d, "judge")
    /\ UNCHANGED <<policy, hostVars, wish, post, left, gateway, draft, plan, harm,
                   repairing, struck, latest, crossed>>

(* A failed read, write or rename; the temporary file is deleted.          *)
PersistFails(d) ==
    /\ step[d] \in {"read", "rename"}
    /\ Costs /\ Leave(d, "OPERATIONAL")
    /\ UNCHANGED <<policy, companion, hostVars, wish, post, left, gateway, draft, plan,
                   repairing, struck, latest, crossed>>

-----------------------------------------------------------------------------
(* plan_rootless_override.                                                 *)
Planned ==
    IF ~rootless \/ (override = "ours" /\ source) THEN "matching"
    ELSE IF override = "absent" THEN "absent"
    ELSE "different"

(* From the first diagnosis to the decision to apply.  Without a gateway   *)
(* a doctor goes on only to repair a rootless daemon.                      *)
Judge(d) ==
    /\ step[d] = "judge"
    /\ plan' = [plan EXCEPT ![d] = Planned]
    /\ IF gateway[d] = NoAddress /\ ~(wish[d] /\ rootless) THEN Leave(d, "OPERATIONAL")
       ELSE IF ~wish[d] THEN Leave(d, "SUCCESS")
       ELSE IF ~rootless THEN Leave(d, "POLICY")
       ELSE IF Planned = "matching"
         THEN Leave(d, IF gateway[d] = NoAddress THEN "OPERATIONAL" ELSE "SUCCESS")
       ELSE IF source THEN Go(d, "copy") ELSE Leave(d, "OPERATIONAL")
    /\ UNCHANGED <<policy, companion, hostVars, wish, post, left, gateway, draft, harm,
                   repairing, struck, latest, crossed>>

(* apply_rootless_override: mkdir and copy, daemon-reload, restart.        *)
Copy(d) ==
    /\ step[d] = "copy"
    /\ override' = "ours"
    /\ repairing' = repairing \cup {d}
    /\ Go(d, "reload")
    /\ UNCHANGED <<policy, companion, rootless, loaded, running, network, source, wish, post,
                   left, gateway, draft, plan, harm, struck, latest, crossed>>

(* Mutant: the daemon is restarted before systemd reads the override.      *)
RestartFirst(d) ==
    /\ step[d] = "reload"
    /\ running' = loaded
    /\ loaded' = override
    /\ post' = [post EXCEPT ![d] = TRUE]
    /\ repairing' = repairing \ {d}
    /\ Go(d, "detect")
    /\ UNCHANGED <<policy, companion, rootless, override, network, source, wish,
                   left, gateway, draft, plan, harm, struck, latest, crossed>>

Reload(d) ==
    /\ step[d] = "reload"
    /\ loaded' = override
    /\ Go(d, "restart")
    /\ UNCHANGED <<policy, companion, rootless, override, running, network, source, wish, post,
                   left, gateway, draft, plan, harm, repairing, struck, latest, crossed>>

Restart(d) ==
    /\ step[d] = "restart"
    /\ running' = loaded
    /\ post' = [post EXCEPT ![d] = TRUE]
    /\ repairing' = repairing \ {d}
    /\ Go(d, "detect")
    /\ UNCHANGED <<policy, companion, rootless, override, loaded, network, source, wish,
                   left, gateway, draft, plan, harm, struck, latest, crossed>>

(* A failed copy may have torn the file, a failed restart may have stopped *)
(* the daemon.                                                             *)
RepairFails(d) ==
    /\ step[d] \in {"copy", "reload", "restart"}
    /\ Costs /\ Leave(d, "OPERATIONAL")
    /\ override' \in IF step[d] = "copy" THEN {override, "other"} ELSE {override}
    /\ running' \in IF step[d] = "restart" THEN {running, "down"} ELSE {running}
    /\ struck' = TRUE /\ repairing' = repairing \ {d}
    /\ UNCHANGED <<policy, companion, rootless, loaded, network, source, wish, post, left,
                   gateway, draft, plan, latest, crossed>>

Stopped(d) ==
    /\ step[d] \notin {"idle", "done"}
    /\ Costs /\ Leave(d, "none")
    /\ struck' = (struck \/ step[d] \in {"copy", "reload", "restart"})
    /\ repairing' = repairing \ {d}
    /\ UNCHANGED <<policy, companion, hostVars, wish, post, left, gateway, draft, plan,
                   latest, crossed>>

DoctorStep(d) ==
    Detect(d) \/ Probe(d) \/ Read(d) \/ Rename(d) \/ PersistFails(d)
        \/ Judge(d) \/ Copy(d) \/ Reload(d) \/ Restart(d) \/ RepairFails(d) \/ Stopped(d)

-----------------------------------------------------------------------------
(* From outside: the user edits the companion or makes it a link, starts   *)
(* the daemon, the network comes or goes.                                  *)
EditCompanion ==
    /\ Costs
    /\ \E settings \in Settings, link \in BOOLEAN :
         /\ companion' = [companion EXCEPT !.settings = settings, !.link = link]
         /\ companion' # companion
         /\ latest' = companion'
    /\ crossed' = (crossed \/ \E d \in Doctors : step[d] = "rename")
    /\ UNCHANGED <<policy, hostVars, step, wish, post, left, gateway, draft, plan, ended,
                   repairing, struck>>

HostChanges ==
    /\ \/ Costs /\ network' = ~network /\ UNCHANGED <<running, source>>
       \/ Costs /\ source /\ source' = FALSE /\ UNCHANGED <<network, running>>
       \/ running = "down" /\ running' = loaded /\ UNCHANGED <<network, source, harm>>
    /\ UNCHANGED <<policy, companion, rootless, override, loaded, step, wish, post, left,
                   gateway, draft, plan, ended, repairing, struck, latest, crossed>>

-----------------------------------------------------------------------------
(* A doctor that was to repair a rootless daemon and ends in success       *)
(* leaves it running with the override: the repair it skips as matching    *)
(* has taken effect.  Not so after a repair that failed or was stopped     *)
(* between the copy and the restart, nor while another one is there.       *)
SuccessIsRepaired ==
    [][\A d \in Doctors :
         ended[d] = "none" /\ ended'[d] = "SUCCESS" /\ policy = "gateway" /\ wish[d] /\ rootless
           => running = "ours" \/ struck \/ repairing # {}]_doctorVars

(* The same after repairs that failed or were stopped: a doctor that finds *)
(* the copy they left reloads and restarts, or does not report success.    *)
RepairTakesEffect ==
    [][\A d \in Doctors :
         ended[d] = "none" /\ ended'[d] = "SUCCESS" /\ policy = "gateway" /\ wish[d] /\ rootless
           => running = "ours" \/ repairing # {}]_doctorVars

(* The other sections of the companion are as the user last left them,     *)
(* through every rewriting by concurrent doctors, unless the user edited   *)
(* while one of them held a draft.                                         *)
SettingsKept == crossed \/ companion.settings = latest.settings

(* The same whatever the user edits while a doctor holds a draft           *)
(* (_persist_host_access_address, "Preserves all other recognised          *)
(* sections").                                                             *)
EditsSurvive == companion.settings = latest.settings
=============================================================================
