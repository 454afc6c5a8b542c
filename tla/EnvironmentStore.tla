--------------------------- MODULE EnvironmentStore ---------------------------
(***************************************************************************)
(* What the assembler promises its callers: environments are committed     *)
(* whole and stay, and a call is answered once, with an environment that   *)
(* is committed.  Damage from outside, or an error of reading, is the only *)
(* way to lose one.                                                        *)
(***************************************************************************)

CONSTANTS Call, Output, NoOutput

VARIABLES
    committed,  \* the environments that stand whole
    answer,     \* per call: the environment it has returned
    lost        \* damaged or found unreadable since it was last committed

vars == <<committed, answer, lost>>

Init ==
    /\ committed \subseteq Output
    /\ answer = [p \in Call |-> NoOutput]
    /\ lost = {}

Commit(o) ==
    /\ o \notin committed
    /\ committed' = committed \cup {o}
    /\ lost' = lost \ {o}
    /\ UNCHANGED answer

Answer(p, o) ==
    /\ answer[p] = NoOutput
    /\ o \in committed \cup lost
    /\ answer' = [answer EXCEPT ![p] = o]
    /\ UNCHANGED <<committed, lost>>

Lose(o) ==
    /\ lost' = lost \cup {o}
    /\ committed' \in {committed, committed \ {o}}
    /\ UNCHANGED answer

(* Only what is lost is moved out of the way. *)
Retire(o) ==
    /\ o \in lost
    /\ committed' = committed \ {o}
    /\ UNCHANGED <<answer, lost>>

Next ==
    \E o \in Output :
        \/ Commit(o) \/ Lose(o) \/ Retire(o)
        \/ \E p \in Call : Answer(p, o)

Spec == Init /\ [][Next]_vars
=============================================================================
