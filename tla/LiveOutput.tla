------------------------------ MODULE LiveOutput ------------------------------
(***************************************************************************)
(* The diagnostics of an assembly on their way from two pipes to the sink  *)
(* (docker/npm_environment/streaming.py, collect_streams): each reader     *)
(* thread redacts its stream piece by piece and submits the chunks, until  *)
(* the end of the stream or a failed read; when both have ended, the       *)
(* dispatcher is finished.  StreamingRun has the process, its deadline and *)
(* the interruptions of the same run.                                      *)
(***************************************************************************)
EXTENDS Redaction, SinkDispatcher, TLC

CONSTANTS
    Stream,     \* stdout and stderr
    Texts       \* what the pipes may carry: functions from streams to texts

ASSUME OutputAssumption ==
    /\ "sentinel" \notin Stream
    /\ \A t \in Texts : t \in [Stream -> Seq(Letter)]

VARIABLES
    text,      \* per stream: what the process writes
    taken,     \* per stream: how much of it was read
    pending,   \* per stream: what is held back
    outbox,    \* per stream: chunks to be submitted
    emitted,   \* history, per stream: the redacted text so far
    reader     \* per stream: reading, ended or failed

readerVars == <<text, taken, pending, outbox, emitted, reader>>
vars == <<readerVars, dispatchVars>>

Init ==
    /\ DispatchInit
    /\ text \in Texts
    /\ taken = [s \in Stream |-> 0]
    /\ pending = [s \in Stream |-> <<>>] /\ outbox = pending /\ emitted = pending
    /\ reader = [s \in Stream |-> "reading"]

Feed(s, piece, ended, aborted) ==
    LET result == Emitted(pending[s] \o piece, ended, aborted)
    IN  /\ pending' = [pending EXCEPT ![s] = result.pending]
        /\ outbox' = [outbox EXCEPT ![s] = result.chunks]
        /\ emitted' = [emitted EXCEPT ![s] = @ \o FlattenSeq(result.chunks)]

(* drain reads a piece of any length and feeds it.                         *)
ReadPiece(s) ==
    /\ reader[s] = "reading" /\ outbox[s] = <<>>
    /\ \E upto \in taken[s] + 1..Len(text[s]) :
         /\ taken' = [taken EXCEPT ![s] = upto]
         /\ Feed(s, SubSeq(text[s], taken[s] + 1, upto), FALSE, FALSE)
    /\ UNCHANGED <<text, reader, dispatchVars>>

(* The end of the stream, or an error of the read: what is pending then    *)
(* may be half a secret and is not shown.                                  *)
EndStream(s) ==
    /\ reader[s] = "reading" /\ outbox[s] = <<>>
    /\ \/ /\ taken[s] = Len(text[s]) /\ Feed(s, <<>>, TRUE, FALSE)
          /\ reader' = [reader EXCEPT ![s] = "ended"]
       \/ /\ Feed(s, <<>>, TRUE, TRUE)
          /\ reader' = [reader EXCEPT ![s] = "failed"]
    /\ UNCHANGED <<text, taken, dispatchVars>>

SubmitChunk(s) ==
    /\ outbox[s] # <<>>
    /\ Submit([stream |-> s, text |-> Head(outbox[s])])
    /\ outbox' = [outbox EXCEPT ![s] = Tail(@)]
    /\ UNCHANGED <<text, taken, pending, emitted, reader>>

Over(s) == reader[s] \in {"ended", "failed"} /\ outbox[s] = <<>>

(* collect_streams joins both readers, then finishes the dispatcher.       *)
Collect ==
    /\ \A s \in Stream : Over(s)
    /\ Finish
    /\ UNCHANGED readerVars

Deliver == (Dispatch \/ SinkReturns) /\ UNCHANGED readerVars

Read(s) == ReadPiece(s) \/ EndStream(s) \/ SubmitChunk(s)

Next == (\E s \in Stream : Read(s)) \/ Collect \/ Deliver

Spec == Init /\ [][Next]_vars

(* The pipes end, the threads are scheduled, and a sink that is not        *)
(* endless returns.                                                        *)
Fairness ==
    /\ \A s \in Stream : WF_vars(Read(s))
    /\ WF_vars(Collect)
    /\ WF_vars(Dispatch /\ UNCHANGED readerVars)
    /\ WF_vars(SinkReturns /\ pace # "endless" /\ UNCHANGED readerVars)
FairSpec == Spec /\ Fairness

-----------------------------------------------------------------------------
(* However the output is cut into pieces, what is shown of it is a prefix  *)
(* of what redact_text makes of the whole, and all of it once the stream   *)
(* has ended; after a failed read one marker may follow.  This holds for   *)
(* secrets that do not stand strictly inside one another.                  *)
CuttingIsInvisible ==
    Unnested => \A s \in Stream :
        LET whole == RedactText(text[s])
        IN  CASE reader[s] = "ended" -> emitted[s] = whole
              [] reader[s] = "reading" -> IsPrefix(emitted[s], whole)
              [] OTHER -> \/ IsPrefix(emitted[s], whole)
                          \/ /\ emitted[s] # <<>> /\ Last(emitted[s]) = Marker
                             /\ IsPrefix(Front(emitted[s]), whole)

(* The same for every set of secrets.                                      *)
CuttingIsAlwaysInvisible ==
    \A s \in Stream : reader[s] = "ended" => emitted[s] = RedactText(text[s])

(* Without a truncation notice the sink was called with all that was shown *)
(* of each stream, in its order: no chunk is lost silently, to a full      *)
(* queue, a sink that fails, or the race of the last chunks with the end.  *)
TextOf(chunks, s) ==
    FlattenSeq([i \in DOMAIN chunks |->
        IF chunks[i].stream = s THEN chunks[i].text ELSE <<>>])

LossIsTold ==
    finisher = "done" /\ ~returned => \A s \in Stream : TextOf(received, s) = emitted[s]

(* Whatever the sink does, even if it never returns, readers and finish    *)
(* come to an end.                                                         *)
OutputEnds == <>(finisher = "done")
=============================================================================
