------------------------------ MODULE MCHandover ------------------------------
(* Two extensions and the inventories, requests and homes that differ in   *)
(* what the two sides check.                                               *)
EXTENDS Handover, TLC

Contents ==
    "d1" :> [package |-> "a", version |-> "1"] @@ "d2" :> [package |-> "a", version |-> "2"]
        @@ "d3" :> [package |-> "b", version |-> "1"]

Odd(digest) == [digest |-> digest, spelling |-> "odd"]
A == [package |-> "a", version |-> "1", allowed |-> {"1", "2"}, path |-> "plain",
      catalogue |-> "1" :> Canonical("d1") @@ "2" :> Canonical("d2")]
B == [A EXCEPT !.package = "b", !.allowed = {"1"}, !.catalogue = "1" :> Canonical("d3")]

(* One oddity each: what a reviewer could have let through.                *)
OddEntries ==
    {[A EXCEPT !.allowed = {"1"}], [A EXCEPT !.catalogue = "1" :> Canonical("d1")],
     [A EXCEPT !.version = "3"], [A EXCEPT !.path = "dotted"], [A EXCEPT !.path = "blank"],
     [A EXCEPT !.path = "traversing"], [A EXCEPT !.package = "Upper"], [A EXCEPT !.package = "pi"],
     [A EXCEPT !.catalogue = "1" :> Odd("d1") @@ "2" :> Canonical("d2")],
     [A EXCEPT !.catalogue = "1" :> Canonical("d2") @@ "2" :> Canonical("d2")],
     [B EXCEPT !.catalogue = "1" :> Odd("d1")], [B EXCEPT !.catalogue = "1" :> Canonical("d1")]}
AllEntries == {NoEntry, A, B} \cup OddEntries

Dir(w) == <<"dir", w, "">>
None == [n \in Name |-> NoVersion]
Request(override, workspaces, trust) ==
    [override |-> override, workspaces |-> workspaces, trust |-> trust]
AllRequests ==
    {Request(None, <<Dir("w1"), Dir("w2")>>, TRUE), Request(None, <<Dir("w1"), Dir("w1")>>, FALSE),
     Request(None, <<<<"fixed", "pi-home", "">>>>, FALSE),
     Request(None, <<Dir("w1"), ArtifactId(Canonical("d1"))>>, FALSE),
     Request(None, <<TrustTarget>>, TRUE),
     Request([None EXCEPT !["n1"] = "2"], <<Dir("w1")>>, FALSE)}

Packages == {"a", "b", "Upper", "pi"}
Homes == {[p \in Packages |-> NoVersion], [p \in Packages |-> "1"]}

(* Inventories with at most one oddity, or two that alias each other; a    *)
(* cache that is empty or has everything.                                  *)
MCInit ==
    /\ Init
    /\ inventory["n2"] \in {NoEntry, A, B, [B EXCEPT !.catalogue = "1" :> Odd("d1")],
                            [B EXCEPT !.catalogue = "1" :> Canonical("d1")]}
    /\ cached \in {{}, Digest}
MCSpec == MCInit /\ [][Next]_vars
=============================================================================
