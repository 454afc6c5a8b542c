---------------------------- MODULE ArtifactStore ----------------------------
(***************************************************************************)
(* What the host runtime artifact cache promises the launches that share   *)
(* it: an artifact appears whole; while its publisher is still checking    *)
(* it, it may be withdrawn; once it is kept, only somebody outside, or an  *)
(* error of reading it, takes it away.                                     *)
(***************************************************************************)

CONSTANT Blob

VARIABLES
    offered,  \* published, its publisher is still checking it
    kept,     \* published for good
    lost      \* damaged or found unreadable since it was last published

vars == <<offered, kept, lost>>

Init == kept \subseteq Blob /\ offered = {} /\ lost = {}

Offer(x) ==
    /\ x \notin kept
    /\ offered' = offered \cup {x}
    /\ lost' = lost \ {x}
    /\ UNCHANGED kept

Confirm(x) ==
    /\ x \in offered
    /\ offered' = offered \ {x}
    /\ kept' = kept \cup {x}
    /\ UNCHANGED lost

Withdraw(x) ==
    /\ x \in offered \cup lost
    /\ offered' = offered \ {x}
    /\ kept' = kept \ {x}
    /\ UNCHANGED lost

(* Somebody destroys x, or a reader fails to read it, which is a reason to *)
(* withdraw it later.                                                      *)
Lose(x) ==
    /\ offered' \in {offered, offered \ {x}}
    /\ kept' \in {kept, kept \ {x}}
    /\ lost' = lost \cup {x}

Next == \E x \in Blob : Offer(x) \/ Confirm(x) \/ Withdraw(x) \/ Lose(x)

Spec == Init /\ [][Next]_vars
=============================================================================
