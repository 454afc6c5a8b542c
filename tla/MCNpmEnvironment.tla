--------------------------- MODULE MCNpmEnvironment ---------------------------
(* Two families of behaviours.  In the one, two calls assemble the same    *)
(* inputs below the same cache root.  In the other, the same inputs below  *)
(* two roots, where the lock is not shared and the container's name is;    *)
(* errors and interrupts strike there, crashes and damage do not.          *)
EXTENDS NpmEnvironment, FiniteSets, TLC

CONSTANTS p1, p2, q, l1, l2, o1, o2, r

OneName == [l \in Place |-> CHOOSE n \in Name : TRUE]

TwoRoots == (q :> l2) @@ (p1 :> l1) @@ (p2 :> l1)
TwoRootsOf == (r :> l2) @@ (o1 :> l1) @@ (o2 :> l1)

(* The calls that are made, and what they may build.                       *)
VARIABLE made
Here == {o1, o2}
Both == {o1, r}
Builds == IF made = {p1, p2} THEN Here ELSE Both

(* Which of two interchangeable outputs is which does not matter.          *)
Rank(o) ==
    (CASE output[o] = "absent" -> 0 [] output[o] = "valid" -> 2 [] OTHER -> 4)
        + (IF o \in index THEN 1 ELSE 0)

MCInit ==
    /\ Init
    /\ made \in {{p1, p2}, {p1, q}}
    /\ \A o \in Output \ Builds : output[o] = "absent" /\ o \notin index
    /\ made = {p1, p2} => l2 \notin namespace /\ Rank(o1) <= Rank(o2)
    /\ made = {p1, q} => index = {} /\ namespace = Place

MCNext ==
    /\ \/ \E p \in made : Proceed(p) \/ Break(p)
       \/ \E n \in Name : OrphanEnds(n)
       \/ \E o \in Builds : DamageOutput(o)
       \/ \E l \in {At[p] : p \in made} : DamageIndex(l)
    /\ \A p \in Call : built'[p] \in Builds \cup {NoOutput}
    /\ made = {p1, q} => faults' = 0
    /\ UNCHANGED made

MCSpec ==
    /\ MCInit /\ [][MCNext]_<<vars, made>>
    /\ \A p \in Call : WF_vars(p \in made /\ Proceed(p))
=============================================================================
