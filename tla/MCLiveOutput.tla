----------------------------- MODULE MCLiveOutput -----------------------------
(* Either one stream with every text of a few letters, full of secrets and *)
(* beginnings of secrets, cut in every way and delivered when it is over,  *)
(* or two short streams without secrets, more chunks than the queue holds, *)
(* to any sink.                                                            *)
EXTENDS LiveOutput

SomeSecrets == {<<"a", "b">>, <<"a", "b", "c">>, <<"b", "c", "c">>, <<"c", "b", "c", "a">>}
Both(out, err) == [s \in Stream |-> IF s = "stdout" THEN out ELSE err]
Secretive == {Both(out, <<>>) : out \in [1..5 -> Letter] \cup [1..3 -> Letter]}
Plain == {Both(<<"c", "c", "c", "c", "c">>, <<"a", "a", "a", "a">>)}
AllTexts == Secretive \cup Plain

Simple ==
    /\ pace' = "prompt"
    /\ reader["stderr"] = "reading" => reader'["stderr"] = "ended"
    /\ thread' # thread => \A s \in Stream : Over(s)

MCSpec ==
    /\ Init
    /\ [][Next /\ (text \in Secretive => Simple)]_vars
    /\ Fairness
=============================================================================
