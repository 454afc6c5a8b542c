------------------------------- MODULE Redaction -------------------------------
(***************************************************************************)
(* The redaction of secrets in a stream that arrives in pieces             *)
(* (docker/npm_environment/streaming.py, redact_text and RedactingStream), *)
(* without state.  A text is a sequence of letters; bytes and their        *)
(* incremental decoding are left out, so that pieces are whole letters.    *)
(***************************************************************************)
EXTENDS Naturals, Sequences, FiniteSetsExt, SequencesExt

CONSTANTS
    Letter,
    Secrets,   \* what must not be shown: sequences of letters
    Marker     \* [REDACTED]

ASSUME RedactionAssumption ==
    /\ Marker \notin Letter
    /\ IsFiniteSet(Secrets) /\ \A x \in Secrets : x \in Seq(Letter) /\ x # <<>>

Longest == Max({Len(x) : x \in Secrets} \cup {0})

(* The lengths of the secrets that stand in text at position i.            *)
MatchesAt(text, i) ==
    {Len(x) : x \in {y \in Secrets : IsPrefix(y, SubSeq(text, i, Len(text)))}}

(* redact_text from position i on: at the leftmost position where a secret *)
(* stands the longest one is replaced by one marker.                       *)
RedactedFrom(text) ==
    LET from[i \in 1..Len(text) + 1] ==
            IF i > Len(text) THEN <<>>
            ELSE LET matches == MatchesAt(text, i)
                 IN  IF matches = {} THEN <<text[i]>> \o from[i + 1]
                     ELSE <<Marker>> \o from[i + Max(matches)]
    IN  from

RedactText(text) == RedactedFrom(text)[1]

Chunk(text) == IF text = <<>> THEN <<>> ELSE <<text>>

(* _feed_text: the chunks that can be shown of what is pending, and what   *)
(* stays pending because a secret may stand there once more has come: all  *)
(* from the first match on until the longest secret would be complete, or  *)
(* else the last keep letters.                                             *)
SplitFrom(text, ended, aborted, keep) ==
    LET n == Len(text)
        from[i \in 1..n + 1] ==
            LET matches == {j \in i..n : MatchesAt(text, j) # {}}
                j == Min(matches)
                split == Max({n - keep, i - 1})
                after == from[j + Max(MatchesAt(text, j))]
            IN  IF i > n THEN [chunks |-> <<>>, pending |-> <<>>]
                ELSE IF matches = {} /\ ended THEN
                    [chunks |-> <<IF aborted THEN <<Marker>> ELSE SubSeq(text, i, n)>>,
                     pending |-> <<>>]
                ELSE IF matches = {} THEN
                    [chunks |-> Chunk(SubSeq(text, i, split)),
                     pending |-> SubSeq(text, split + 1, n)]
                ELSE IF ended \/ n - j + 1 >= Longest THEN
                    [chunks |-> Chunk(SubSeq(text, i, j - 1)) \o <<<<Marker>>>> \o after.chunks,
                     pending |-> after.pending]
                ELSE [chunks |-> Chunk(SubSeq(text, i, j - 1)), pending |-> SubSeq(text, j, n)]
    IN  from

Split(text, ended, aborted, keep) == SplitFrom(text, ended, aborted, keep)[1]

(* Mutant: one letter too few is held back.                                *)
EmittedShort(text, ended, aborted) == Split(text, ended, aborted, Max({0, Longest - 2}))

Emitted(text, ended, aborted) == Split(text, ended, aborted, Max({0, Longest - 1}))

(* No secret stands strictly inside another; at its start or end one may.  *)
Unnested ==
    \A x, y \in Secrets : \A i \in 2..Len(x) : i + Len(y) - 1 < Len(x) =>
        SubSeq(x, i, i + Len(y) - 1) # y
=============================================================================
