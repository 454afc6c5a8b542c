----------------------------- MODULE MCConstructor -----------------------------
(* Two families of behaviours.  In the one, update checks: two of them     *)
(* share the disk cache over time, or one prints blocks that are pasted    *)
(* while the inventory is edited.  In the other, two invocations of any    *)
(* command around a doctor.                                                *)
EXTENDS Constructor, TLC

Targets4 == <<"rust", "rustup", "uv", "extension">>
Kinds == "rust" :> "rust" @@ "rustup" :> "rustup" @@ "uv" :> "release" @@ "extension" :> "extension"
Owners == "rust" :> "rust" @@ "rustup" :> "rust" @@ "uv" :> "uv" @@ "extension" :> "extension"
RequiredOf == [e \in Entry |-> IF e = "uv" THEN {"linux-amd64"} ELSE {}]
AllowedOf == [e \in Entry |-> 1..2]
AssetsOf == [v \in Version |-> IF v = 3 THEN Platform ELSE {"linux-amd64"}]

At(v, platforms) == [e \in Entry |->
    [version |-> v, source |-> IF e \in {"rust", "uv"} THEN v ELSE NoVersion,
     urls |-> [p \in Platform |-> IF e = "uv" /\ p \in platforms THEN v ELSE NoVersion],
     catalogue |-> IF e = "extension" THEN {v} ELSE {}]]
Oldest == At(1, {"linux-amd64"})
Documents3 == {Oldest, At(1, Platform), [At(3, {"linux-amd64"}) EXCEPT !["extension"] = Oldest["extension"]]}

(* For BlocksFitTheFile: the user raises rust by hand, and not as far as   *)
(* the check.                                                              *)
DocumentsByHand == {Oldest, [Oldest EXCEPT !["rust"] = At(2, {})["rust"]]}

Plain == [only |-> {"uv"}, prereleases |-> FALSE, direct |-> FALSE, suggest |-> FALSE,
          strict |-> TRUE, failing |-> TRUE]
Uncaching == [Plain EXCEPT !.direct = TRUE]
Suggest == [Plain EXCEPT !.only = Entry, !.suggest = TRUE]
OptionsOf == {Plain, Uncaching, Suggest, [Suggest EXCEPT !.prereleases = TRUE, !.strict = FALSE]}

Line(command) == [command |-> command, malformed |-> FALSE, yes |-> FALSE, terminal |-> TRUE,
                  repair |-> FALSE, dry |-> FALSE, runtime |-> TRUE]
Doctor(repair, yes) == [Line("doctor") EXCEPT !.repair = repair, !.yes = yes]
Lines == {Line("check-updates"), Doctor(FALSE, FALSE), Doctor(TRUE, TRUE), Doctor(TRUE, FALSE)}
    \cup {Line("build"), Line("run"), Line("verify"), [Line("run") EXCEPT !.malformed = TRUE]}

Checking == \A i \in Session : line[i] = Line("check-updates")
Deciding == {i \in Session : Is(i, "doctor")} # {}

Blanked == [link |-> FALSE, table |-> "none", address |-> NoAddress,
            settings |-> CHOOSE x \in Settings : TRUE]
Released == {k \in Key : upstream[k] > 1}
Busy == {s \in Session : stage[s] # "idle"}

(* The update checks of one family, the doctors of the other.              *)
MCInit ==
    /\ ConstructorInit
    /\ IF Checking
         THEN /\ \A i \in Session : option[i] # Uncaching
              /\ policy = "off" /\ companion = Blanked
              /\ rootless = FALSE /\ network = TRUE /\ override = "absent"
         ELSE /\ Deciding
              /\ option = [i \in Session |-> Uncaching]
              /\ doc = Oldest /\ online = TRUE
              /\ ~rootless => override = "absent"
              /\ policy # "gateway" => ~rootless /\ network

Alone == \A s \in Session : option[s].suggest
MCNext ==
    \/ \E i \in Session : Invocation(i)
    \/ Checking /\ UNCHANGED <<doctorVars, cliVars>> /\ (UpdateWorld \/ (Alone /\ Edit))
    \/ Deciding /\ UNCHANGED vars /\ (EditCompanion \/ HostChanges) /\ UNCHANGED cliVars
MCSpec == MCInit /\ [][MCNext]_all

Interesting ==
    \/ Deciding
    \/ /\ Checking /\ Alone
       /\ Cardinality(Busy) <= 1 /\ Cardinality(Released) <= 1
       /\ now = 0 /\ outages = 0
    \/ /\ Checking /\ \A s \in Session : ~option[s].suggest
       /\ doc = Oldest /\ Released = {}

Sessions == Permutations(Session)
=============================================================================
