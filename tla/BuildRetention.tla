---------------------------- MODULE BuildRetention ----------------------------
(***************************************************************************)
(* What the build cache of one project promises, without locks, markers,   *)
(* snapshots or processes: the committed live set is always the artifact   *)
(* set of an image Docker built, it is replaced in one step, and an        *)
(* artifact it names is never taken away except by somebody outside.       *)
(***************************************************************************)
EXTENDS FiniteSets

CONSTANT Blob

VARIABLES
    committed,  \* the live set
    available,  \* artifacts a build can reuse
    built,      \* artifacts of the last image
    lost        \* artifacts somebody outside has damaged

vars == <<committed, available, built, lost>>

Init ==
    /\ committed = {}
    /\ available = {}
    /\ built = {}
    /\ lost = {}

Fetch(x) ==
    /\ available' = available \cup {x}
    /\ UNCHANGED <<committed, built, lost>>

Collect(x) ==
    /\ x \notin committed
    /\ available' = available \ {x}
    /\ UNCHANGED <<committed, built, lost>>

Lose(x) ==
    /\ available' = available \ {x}
    /\ lost' = lost \cup {x}
    /\ UNCHANGED <<committed, built>>

Build(S) ==
    /\ built' = S
    /\ UNCHANGED <<committed, available, lost>>

(* A set is committed whole, and only if it was built and is still there. *)
Commit ==
    /\ built \subseteq available \cup lost
    /\ committed' = built
    /\ UNCHANGED <<available, built, lost>>

Next ==
    \/ \E x \in Blob : Fetch(x) \/ Collect(x) \/ Lose(x)
    \/ \E S \in SUBSET Blob : Build(S)
    \/ Commit

Spec == Init /\ [][Next]_vars

(* A committed artifact is available unless it was lost. *)
CommittedAvailable == committed \subseteq available \cup lost
=============================================================================
