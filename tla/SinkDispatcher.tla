---------------------------- MODULE SinkDispatcher ----------------------------
(***************************************************************************)
(* Live output through one thread (docker/npm_environment/streaming.py,    *)
(* SinkDispatcher): readers submit chunks without waiting, the dispatcher  *)
(* takes them from a bounded queue and calls the sink, and finish, called  *)
(* when the readers are done, waits within bounds for what was accepted.   *)
(* A step is a critical section of the lock, one operation on the queue or *)
(* one call of the sink.  Time is counted in calls of a sink that keeps    *)
(* its budget; one that does not is late, or endless: slower than finish   *)
(* ever waits.                                                             *)
(***************************************************************************)
EXTENDS Naturals, Sequences

CONSTANTS
    Capacity,    \* of the queue
    DrainCalls,  \* how many calls within budget fit into the drain budget
    Paces        \* the sinks there are: prompt, raising, late, endless

ASSUME DispatcherAssumption ==
    /\ Capacity \in Nat \ {0} /\ DrainCalls \in Nat
    /\ Capacity + 1 < DrainCalls
    /\ Paces \subseteq {"prompt", "raising", "late", "endless"}

VARIABLES
    queue,       \* the chunks waiting, and the sentinel
    failed,      \* live delivery has stopped
    notice,      \* the truncation notice is retained
    accepting,
    thread,      \* where the dispatcher is
    item,        \* what it took from the queue
    pace,        \* how the sink takes the call it is in
    spent,       \* calls since finish began
    finisher,    \* where finish is
    returned,    \* what it returned
    accepted,    \* history: the chunks submit took, in that order
    received,    \* history: the chunks the sink was called with
    misbehaved   \* history: the sink has raised or exceeded its budget

threadVars == <<thread, item, pace, spent>>
historyVars == <<accepted, received, misbehaved>>
dispatchVars == <<queue, failed, notice, accepting, threadVars, finisher, returned, historyVars>>

Sentinel == [stream |-> "sentinel", text |-> <<>>]
Nothing == [stream |-> "nothing", text |-> <<>>]

DispatchInit ==
    /\ queue = <<>> /\ failed = FALSE /\ notice = FALSE /\ accepting = TRUE
    /\ thread = "get" /\ item = Nothing /\ pace = "prompt" /\ spent = 0
    /\ finisher = "waiting" /\ returned = FALSE
    /\ accepted = <<>> /\ received = <<>> /\ misbehaved = FALSE

Fail == failed' = TRUE /\ notice' = TRUE

(* Mutant: a full queue is not recorded.                                   *)
SubmitSilently(chunk) ==
    /\ IF failed \/ ~accepting \/ Len(queue) = Capacity
         THEN notice' = (notice \/ failed) /\ UNCHANGED <<queue, accepted>>
         ELSE /\ queue' = Append(queue, chunk) /\ accepted' = Append(accepted, chunk)
              /\ UNCHANGED notice
    /\ UNCHANGED <<failed, accepting, threadVars, finisher, returned, received, misbehaved>>

(* submit: one critical section decides and enqueues.                      *)
Submit(chunk) ==
    /\ IF failed \/ ~accepting \/ Len(queue) = Capacity
         THEN notice' = TRUE /\ UNCHANGED <<queue, accepted>>
         ELSE /\ queue' = Append(queue, chunk) /\ accepted' = Append(accepted, chunk)
              /\ UNCHANGED notice
    /\ UNCHANGED <<failed, accepting, threadVars, finisher, returned, received, misbehaved>>

-----------------------------------------------------------------------------
(* The dispatcher, _run.                                                   *)
Get ==
    /\ thread = "get" /\ queue # <<>>
    /\ item' = Head(queue) /\ queue' = Tail(queue)
    /\ thread' = IF Head(queue) = Sentinel THEN "ended" ELSE "got"
    /\ UNCHANGED <<failed, notice, accepting, pace, spent, finisher, returned, historyVars>>

Overdue == ~accepting /\ spent >= DrainCalls

(* Mutant: draining ends at once.                                          *)
DecideImpatient ==
    /\ thread = "got"
    /\ IF failed THEN thread' = "get" /\ UNCHANGED <<failed, notice>>
       ELSE IF ~accepting THEN thread' = "discard" /\ Fail
       ELSE thread' = "call" /\ UNCHANGED <<failed, notice>>
    /\ UNCHANGED <<queue, accepting, item, pace, spent, finisher, returned, historyVars>>

Decide ==
    /\ thread = "got"
    /\ IF failed THEN thread' = "get" /\ UNCHANGED <<failed, notice>>
       ELSE IF Overdue THEN thread' = "discard" /\ Fail
       ELSE thread' = "call" /\ UNCHANGED <<failed, notice>>
    /\ UNCHANGED <<queue, accepting, item, pace, spent, finisher, returned, historyVars>>

(* _deliver: the sink is called, and may return or raise.                  *)
Call ==
    /\ thread = "call"
    /\ thread' = "sink"
    /\ \E p \in Paces : pace' = p /\ misbehaved' = (misbehaved \/ p # "prompt")
    /\ received' = Append(received, item)
    /\ UNCHANGED <<queue, failed, notice, accepting, item, spent, finisher, returned, accepted>>

SinkReturns ==
    /\ thread = "sink"
    /\ thread' = "judge"
    /\ spent' = IF accepting THEN spent ELSE spent + 1
    /\ IF pace = "prompt" THEN UNCHANGED <<failed, notice>> ELSE Fail
    /\ UNCHANGED <<queue, accepting, item, pace, finisher, returned, historyVars>>

Judge ==
    /\ thread = "judge"
    /\ thread' = IF failed THEN "discard" ELSE "get"
    /\ UNCHANGED <<queue, failed, notice, accepting, item, pace, spent, finisher, returned,
                   historyVars>>

(* _discard_remaining, up to the sentinel; nothing else comes after it.    *)
Discard ==
    /\ thread = "discard"
    /\ queue' = <<>> /\ thread' = "ended"
    /\ UNCHANGED <<failed, notice, accepting, item, pace, spent, finisher, returned, historyVars>>

Dispatch == Get \/ Decide \/ Call \/ Judge \/ Discard

-----------------------------------------------------------------------------
(* finish.                                                                 *)
Stuck == thread = "sink" /\ pace = "endless"

CloseAcceptance ==
    /\ finisher = "waiting"
    /\ accepting' = FALSE
    /\ finisher' = "sentinel"
    /\ UNCHANGED <<queue, failed, notice, threadVars, returned, historyVars>>

PutSentinel ==
    /\ finisher = "sentinel"
    /\ \/ Len(queue) < Capacity /\ queue' = Append(queue, Sentinel) /\ UNCHANGED <<failed, notice>>
       \/ Len(queue) = Capacity /\ Stuck /\ Fail /\ UNCHANGED queue
    /\ finisher' = "join"
    /\ UNCHANGED <<accepting, threadVars, returned, historyVars>>

(* Mutant: the join has no timeout.                                        *)
JoinForever ==
    /\ finisher = "join" /\ thread = "ended"
    /\ finisher' = "done" /\ returned' = notice
    /\ UNCHANGED <<queue, failed, notice, accepting, threadVars, historyVars>>

Join ==
    /\ finisher = "join"
    /\ thread = "ended" \/ Stuck
    /\ finisher' = "done"
    /\ IF thread = "ended" THEN UNCHANGED <<failed, notice>> ELSE Fail
    /\ returned' = notice'
    /\ UNCHANGED <<queue, accepting, threadVars, historyVars>>

Finish == CloseAcceptance \/ PutSentinel \/ Join

-----------------------------------------------------------------------------
(* Every accepted chunk is delivered, in the order of acceptance, to a     *)
(* sink that keeps its contract before finish returns, however full the    *)
(* queue was.                                                              *)
CompliantGetsAll ==
    finisher = "done" /\ ~misbehaved => received = accepted
=============================================================================
