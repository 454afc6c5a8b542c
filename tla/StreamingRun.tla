----------------------------- MODULE StreamingRun -----------------------------
(***************************************************************************)
(* One supervised run of a docker client:                                  *)
(*   docker/npm_environment/execution.py  run_streaming and the clean-up   *)
(*                                        of its caller assemble           *)
(*   docker/npm_environment/lifecycle.py  DeadlineSupervisor, reap_process *)
(*   docker/npm_environment/streaming.py  collect_streams                  *)
(* Four threads: the coordinator, which the user may interrupt, the        *)
(* deadline supervisor, and one reader per pipe.  A reader inside          *)
(* BufferedReader.read holds the lock that close() of the pipe needs.      *)
(***************************************************************************)
EXTENDS Naturals

CONSTANT StreamCount    \* the pipes; close() goes through them in order

ASSUME ConstantsAssumption == StreamCount \in Nat \ {0}

Stream == 1..StreamCount
Thread == {"coordinator", "supervisor"}

VARIABLES
    pc,         \* where coordinator and supervisor are
    closing,    \* per thread: the pipe it closes next
    reader,     \* per stream: its reader thread
    closed,     \* pipes that are closed
    failed,     \* streams whose reader has failed
    cancel,     \* the supervisor's cancellation event
    started,    \* cleanup_started, wait_failure and fired of its outcome
    pollFailed,
    fired,
    client,     \* the local docker client and the signal it was sent
    signal,
    code,       \* the client's exit status
    written,    \* the client or a descendant can write into the pipes
    container,  \* the named container in the daemon
    attempted,  \* container_removal_attempted
    interrupted,\* whether an interruption is handled, or so far recorded
    errors,     \* what could not be done in its time and is reported
    result,     \* how run_streaming ends
    late,       \* history: an interrupt outside the handler's reach
    missed      \* history: a removal that came before the creation

outcome == <<cancel, started, pollFailed, fired>>
pipes == <<reader, closed, failed>>
processes == <<client, signal, code, written, container>>
report == <<errors, result>>
history == <<late, missed>>
vars == <<pc, closing, pipes, outcome, processes, attempted, interrupted,
          report, history>>

(* The stages of a clean-up, of handling a reader's failure or an          *)
(* interruption, and of the end of run_streaming.                          *)
Cleaning == {"terminate", "remove", "reap", "kill", "close"}
Reacting == {"shut", "stop"}
Claiming == {"claim", "await"}
Unwinding == {"unwind", "supervise", "final"}
CoordinatorStages ==
    {"spawn", "begin", "wait", "join", "outer", "ended"}
        \cup Cleaning \cup Reacting \cup Claiming \cup Unwinding
SupervisorStages == {"off", "poll", "decide", "publish", "ended"} \cup Cleaning

(* Every variable has its type. *)
TypeOK ==
    /\ pc \in [Thread -> CoordinatorStages \cup SupervisorStages]
    /\ pc["coordinator"] \in CoordinatorStages
    /\ pc["supervisor"] \in SupervisorStages
    /\ closing \in [Thread -> Stream]
    /\ reader \in [Stream -> {"off", "reading", "between", "done"}]
    /\ closed \in SUBSET Stream
    /\ failed \in SUBSET Stream
    /\ cancel \in BOOLEAN /\ started \in BOOLEAN
    /\ pollFailed \in BOOLEAN /\ fired \in BOOLEAN
    /\ client \in {"running", "exited"}
    /\ signal \in {"none", "term", "kill"}
    /\ code \in {"none", "zero", "nonzero"}
    /\ written \in BOOLEAN
    /\ container \in {"unborn", "running", "gone"}
    /\ attempted \in BOOLEAN /\ interrupted \in {"no", "recorded", "yes"}
    /\ errors \in SUBSET {"container", "supervisor"}
    /\ result \in {"none", "returned", "timeout", "failed", "raised"}
    /\ late \in BOOLEAN /\ missed \in BOOLEAN

(* Popen has started the client; nothing else has been done. *)
Init ==
    /\ pc = [t \in Thread |-> IF t = "coordinator" THEN "spawn" ELSE "off"]
    /\ closing = [t \in Thread |-> 1]
    /\ reader = [s \in Stream |-> "off"]
    /\ closed = {} /\ failed = {}
    /\ cancel = FALSE /\ started = FALSE /\ pollFailed = FALSE /\ fired = FALSE
    /\ client = "running" /\ signal = "none" /\ code = "none"
    /\ written = TRUE
    /\ container = "unborn"
    /\ attempted = FALSE /\ interrupted = "no"
    /\ errors = {} /\ result = "none"
    /\ late = FALSE /\ missed = FALSE

-----------------------------------------------------------------------------

Go(t, from, to) ==
    /\ pc[t] = from
    /\ pc' = [pc EXCEPT ![t] = to]

Coordinate(from, to) == Go("coordinator", from, to)
Supervise(from, to) == Go("supervisor", from, to)

(* The supervisor's thread is not alive. *)
SupervisorGone == pc["supervisor"] \in {"off", "ended"}

(* A join of the supervisor is bounded by the budget of its clean-up's      *)
(* waits, so it ends without the thread only when close() blocks it.       *)
SupervisorOverdue ==
    /\ pc["supervisor"] = "close"
    /\ reader[closing["supervisor"]] = "reading"

ReadersDone == \A s \in Stream : reader[s] = "done"

-----------------------------------------------------------------------------
(* The clean-up primitives, by either thread. *)

Signal(sig) == signal' = IF client = "exited" \/ signal = "kill"
                         THEN signal ELSE sig

(* bounded_streaming_cleanup marks the removal as attempted, then          *)
(* terminates the client.                                                  *)
Terminate(t) ==
    /\ Go(t, "terminate", "remove")
    /\ attempted' = TRUE
    /\ Signal("term")
    /\ UNCHANGED <<closing, pipes, outcome, client, code, written,
                   container, interrupted, report, history>>

(* docker rm -f; a container that does not exist is a success. *)
RemoveNamed ==
    /\ container' = IF container = "running" THEN "gone" ELSE container
    /\ missed' = (missed \/ (container = "unborn" /\ client = "running"))
    /\ UNCHANGED errors

RemovalFails ==
    /\ errors' = errors \cup {"container"}
    /\ UNCHANGED <<container, missed>>

Remove(t) ==
    /\ Go(t, "remove", "reap")
    /\ RemoveNamed \/ RemovalFails
    /\ UNCHANGED <<closing, pipes, outcome, client, signal, code,
                   written, attempted, interrupted, result, late>>

Reap(t) ==
    /\ pc[t] \in {"reap", "kill"}
    /\ client = "exited"
    /\ pc' = [pc EXCEPT ![t] = "close"]
    /\ UNCHANGED <<closing, pipes, outcome, processes, attempted,
                   interrupted, report, history>>

(* Mutant: a client that resists is left alone. *)
ReapWithoutKill(t) ==
    /\ client = "running"
    /\ Go(t, "reap", "close")
    /\ UNCHANGED <<closing, pipes, outcome, processes, attempted, interrupted,
                   report, history>>

(* Each wait is bounded: behind the first the client is killed, behind the *)
(* second it is given up.                                                  *)
ReapTimesOut(t) ==
    /\ client = "running"
    /\ \/ /\ Go(t, "reap", "kill")
          /\ Signal("kill")
       \/ /\ Go(t, "kill", "close")
          /\ UNCHANGED signal
    /\ UNCHANGED <<closing, pipes, outcome, client, code, written, container,
                   attempted, interrupted, report, history>>

(* An interrupt that the reaction to a reader's failure recorded is raised  *)
(* behind it, and then handled.                                            *)
AfterClose(t) ==
    IF t = "supervisor" THEN "publish"
    ELSE IF interrupted = "recorded" THEN "claim" ELSE "join"

(* _close_stream_pipes: one pipe after the other, each when its reader is  *)
(* not inside a read.                                                      *)
Close(t) ==
    LET s == closing[t]
        last == s = StreamCount IN
    /\ pc[t] = "close"
    /\ reader[s] # "reading"
    /\ closed' = closed \cup {s}
    /\ closing' = [closing EXCEPT ![t] = IF last THEN 1 ELSE s + 1]
    /\ pc' = [pc EXCEPT ![t] = IF last THEN AfterClose(t) ELSE @]
    /\ interrupted' = IF last /\ pc'[t] = "claim" THEN "yes" ELSE interrupted
    /\ UNCHANGED <<reader, failed, outcome, processes, attempted,
                   report, history>>

-----------------------------------------------------------------------------
(* DeadlineSupervisor._run. *)

PollExited ==
    /\ client = "exited"
    /\ Supervise("poll", "ended")
    /\ UNCHANGED <<closing, pipes, outcome, processes, attempted,
                   interrupted, report, history>>

PollCancelled ==
    /\ cancel
    /\ Supervise("poll", "ended")
    /\ UNCHANGED <<closing, pipes, outcome, processes, attempted,
                   interrupted, report, history>>

(* Any slice may find the deadline expired. *)
DeadlineExpires ==
    /\ Supervise("poll", "decide")
    /\ UNCHANGED <<closing, pipes, outcome, processes, attempted,
                   interrupted, report, history>>

PollFails ==
    /\ Supervise("poll", "decide")
    /\ pollFailed' = TRUE
    /\ UNCHANGED <<closing, pipes, cancel, started, fired, processes,
                   attempted, interrupted, report, history>>

(* Under the lock: who cancels first owns the clean-up. *)
Decide ==
    /\ \/ /\ cancel
          /\ Supervise("decide", "ended")
          /\ UNCHANGED started
       \/ /\ ~cancel
          /\ Supervise("decide", "terminate")
          /\ started' = TRUE
    /\ UNCHANGED <<closing, pipes, cancel, pollFailed, fired,
                   processes, attempted, interrupted, report, history>>

Publish ==
    /\ Supervise("publish", "ended")
    /\ fired' = ~pollFailed
    /\ UNCHANGED <<closing, pipes, cancel, started, pollFailed,
                   processes, attempted, interrupted, report, history>>

-----------------------------------------------------------------------------
(* The readers. *)

(* The buffer has filled. *)
ReadChunk(s) ==
    /\ reader[s] = "reading"
    /\ written
    /\ reader' = [reader EXCEPT ![s] = "between"]
    /\ UNCHANGED <<pc, closing, closed, failed, outcome, processes,
                   attempted, interrupted, report, history>>

ReadOn(s) ==
    /\ reader[s] = "between"
    /\ s \notin closed
    /\ reader' = [reader EXCEPT ![s] = "reading"]
    /\ UNCHANGED <<pc, closing, closed, failed, outcome, processes,
                   attempted, interrupted, report, history>>

(* Reading a closed pipe raises. *)
ReadClosed(s) ==
    /\ reader[s] = "between"
    /\ s \in closed
    /\ reader' = [reader EXCEPT ![s] = "done"]
    /\ failed' = failed \cup {s}
    /\ UNCHANGED <<pc, closing, closed, outcome, processes,
                   attempted, interrupted, report, history>>

ReadEnd(s) ==
    /\ reader[s] = "reading"
    /\ ~written
    /\ reader' = [reader EXCEPT ![s] = "done"]
    /\ UNCHANGED <<pc, closing, closed, failed, outcome, processes,
                   attempted, interrupted, report, history>>

ReadFails(s) ==
    /\ reader[s] \in {"reading", "between"}
    /\ reader' = [reader EXCEPT ![s] = "done"]
    /\ failed' = failed \cup {s}
    /\ UNCHANGED <<pc, closing, closed, outcome, processes,
                   attempted, interrupted, report, history>>

-----------------------------------------------------------------------------
(* The coordinator: collect_streams. *)

StartSupervisor ==
    /\ pc["coordinator"] = "spawn"
    /\ pc' = [pc EXCEPT !["coordinator"] = "begin", !["supervisor"] = "poll"]
    /\ UNCHANGED <<closing, pipes, outcome, processes, attempted,
                   interrupted, report, history>>

StartReaders ==
    /\ Coordinate("begin", "wait")
    /\ reader' = [s \in Stream |-> "reading"]
    /\ UNCHANGED <<closing, closed, failed, outcome, processes,
                   attempted, interrupted, report, history>>

(* terminal is set: by the first failure, or when both readers are done. *)
NoticeFailure ==
    /\ failed # {}
    /\ Coordinate("wait", "shut")
    /\ UNCHANGED <<closing, pipes, outcome, processes, attempted,
                   interrupted, report, history>>

NoticeDone ==
    /\ failed = {} /\ ReadersDone
    /\ Coordinate("wait", "join")
    /\ UNCHANGED <<closing, pipes, outcome, processes, attempted,
                   interrupted, report, history>>

(* react_to_reader_failure closes the failed pipe, then stops the client.  *)
ShutFailed ==
    /\ Coordinate("shut", "stop")
    /\ \E s \in failed : closed' = closed \cup {s}
    /\ UNCHANGED <<closing, reader, failed, outcome, processes,
                   attempted, interrupted, report, history>>

StopClient ==
    /\ Coordinate("stop", "reap")
    /\ Signal("term")
    /\ UNCHANGED <<closing, pipes, outcome, client, code, written,
                   container, attempted, interrupted, report, history>>

(* An interrupt of the wait, or of the reaction to a reader's failure,     *)
(* whose wait for the client records it and goes on to close the pipes.    *)
Interrupt ==
    /\ \/ /\ pc["coordinator"] \in {"wait", "close"} \cup Reacting
          /\ interrupted # "yes"
          /\ pc' = [pc EXCEPT !["coordinator"] = "claim"]
          /\ closing' = [closing EXCEPT !["coordinator"] = 1]
          /\ interrupted' = "yes"
       \/ /\ pc["coordinator"] \in {"reap", "kill"}
          /\ interrupted = "no"
          /\ pc' = [pc EXCEPT !["coordinator"] = "close"]
          /\ interrupted' = "recorded"
          /\ UNCHANGED closing
    /\ UNCHANGED <<pipes, outcome, processes, attempted, report, history>>

(* claim_interruption, under the lock. *)
Claim ==
    /\ \/ /\ started
          /\ Coordinate("claim", "await")
          /\ UNCHANGED cancel
       \/ /\ ~started
          /\ Coordinate("claim", "terminate")
          /\ cancel' = TRUE
    /\ UNCHANGED <<closing, pipes, started, pollFailed, fired,
                   processes, attempted, interrupted, report, history>>

AwaitOwner ==
    /\ SupervisorGone
    /\ Coordinate("await", "join")
    /\ UNCHANGED <<closing, pipes, outcome, processes, attempted,
                   interrupted, report, history>>

AwaitTimesOut ==
    /\ SupervisorOverdue
    /\ Coordinate("await", "terminate")
    /\ errors' = errors \cup {"supervisor"}
    /\ UNCHANGED <<closing, pipes, outcome, processes, attempted,
                   interrupted, result, history>>

(* Both readers are joined without a bound. *)
JoinReaders ==
    /\ ReadersDone
    /\ \/ /\ interrupted = "yes" \/ failed # {}
          /\ Coordinate("join", "unwind")
          /\ cancel' = TRUE
       \/ /\ interrupted # "yes" /\ failed = {}
          /\ Coordinate("join", "supervise")
          /\ UNCHANGED cancel
    /\ UNCHANGED <<closing, pipes, started, pollFailed, fired,
                   processes, attempted, interrupted, report, history>>

-----------------------------------------------------------------------------
(* The coordinator: the end of run_streaming, and its caller. *)

(* Mutant: only the deadline's firing is looked at. *)
EndingUnlessFired == IF fired THEN "timeout"
                     ELSE IF pc["coordinator"] = "unwind" THEN "raised"
                     ELSE "returned"

(* How it ends, by the supervisor's outcome. *)
Ending == IF fired THEN "timeout"
          ELSE IF pc["coordinator"] = "unwind" THEN "raised"
          ELSE IF pollFailed \/ ~SupervisorGone THEN "failed"
          ELSE "returned"

(* Mutant: the outcome is read without waiting for the supervisor. *)
EndAtOnce ==
    /\ pc["coordinator"] \in {"unwind", "supervise"}
    /\ pc' = [pc EXCEPT !["coordinator"] = "final"]
    /\ result' = Ending
    /\ UNCHANGED <<closing, pipes, outcome, processes, attempted,
                   interrupted, errors, history>>

JoinSupervisor ==
    /\ pc["coordinator"] \in {"unwind", "supervise"}
    /\ SupervisorGone
    /\ pc' = [pc EXCEPT !["coordinator"] = "final"]
    /\ result' = Ending
    /\ UNCHANGED <<closing, pipes, outcome, processes, attempted,
                   interrupted, errors, history>>

JoinTimesOut ==
    /\ pc["coordinator"] \in {"unwind", "supervise"}
    /\ SupervisorOverdue
    /\ pc' = [pc EXCEPT !["coordinator"] = "final"]
    /\ result' = Ending
    /\ errors' = errors \cup {"supervisor"}
    /\ UNCHANGED <<closing, pipes, outcome, processes, attempted,
                   interrupted, history>>

FinalClose ==
    /\ Coordinate("final", "outer")
    /\ \A s \in Stream : reader[s] # "reading"
    /\ closed' = Stream
    /\ UNCHANGED <<closing, reader, failed, outcome, processes,
                   attempted, interrupted, report, history>>

(* assemble: a success, or a failure behind which the container is removed *)
(* unless that has been attempted.                                         *)
Succeed ==
    /\ result = "returned" /\ code = "zero"
    /\ Coordinate("outer", "ended")
    /\ UNCHANGED <<closing, pipes, outcome, processes, attempted,
                   interrupted, report, history>>

FailAttempted ==
    /\ result # "returned" \/ code # "zero"
    /\ attempted
    /\ Coordinate("outer", "ended")
    /\ UNCHANGED <<closing, pipes, outcome, processes, attempted,
                   interrupted, report, history>>

(* Mutant: the caller leaves the container to run_streaming. *)
FailAnyway ==
    /\ ~attempted
    /\ result # "returned" \/ code # "zero"
    /\ Coordinate("outer", "ended")
    /\ UNCHANGED <<closing, pipes, outcome, processes, attempted,
                   interrupted, report, history>>

FailRemoving ==
    /\ result # "returned" \/ code # "zero"
    /\ ~attempted
    /\ Coordinate("outer", "ended")
    /\ RemoveNamed \/ RemovalFails
    /\ UNCHANGED <<closing, pipes, outcome, client, signal, code,
                   written, attempted, interrupted, result, late>>

-----------------------------------------------------------------------------
(* Interrupts that no handler of run_streaming takes; the bound of the     *)
(* model is one of them.                                                   *)
Unhandled == ~late /\ late' = TRUE

(* Before collect_streams has its handler in place. *)
InterruptStart ==
    /\ pc["coordinator"] \in {"spawn", "begin"}
    /\ \/ /\ pc' = [pc EXCEPT !["coordinator"] = "outer"]
          /\ result' = "raised"
          /\ UNCHANGED <<reader, cancel>>
       \/ /\ Coordinate("begin", "unwind")
          /\ \E k \in 0..StreamCount :
                reader' = [s \in Stream |-> IF s <= k THEN "reading" ELSE "off"]
          /\ cancel' = TRUE
          /\ UNCHANGED result
    /\ Unhandled
    /\ UNCHANGED <<closing, closed, failed, started, pollFailed, fired,
                   processes, attempted, interrupted, errors, missed>>

(* A second one ends the handling of the first, or one of its waits.       *)
InterruptAgain ==
    /\ interrupted = "yes"
    /\ \/ /\ pc["coordinator"] \in Claiming \cup {"terminate", "remove", "close"}
          /\ pc' = [pc EXCEPT !["coordinator"] = "join"]
          /\ closing' = [closing EXCEPT !["coordinator"] = 1]
          /\ UNCHANGED errors
       \/ /\ Coordinate("remove", "reap")
          /\ errors' = errors \cup {"container"}
          /\ UNCHANGED closing
       \/ /\ pc["coordinator"] \in {"reap", "kill"}
          /\ pc' = [pc EXCEPT !["coordinator"] = "close"]
          /\ UNCHANGED <<closing, errors>>
    /\ Unhandled
    /\ UNCHANGED <<pipes, outcome, processes, attempted, interrupted, result,
                   missed>>

InterruptJoin ==
    /\ Coordinate("join", "unwind")
    /\ cancel' = TRUE
    /\ interrupted' = "yes"
    /\ Unhandled
    /\ UNCHANGED <<closing, pipes, started, pollFailed, fired,
                   processes, attempted, report, missed>>

InterruptEnd ==
    /\ pc["coordinator"] \in Unwinding
    /\ pc' = [pc EXCEPT !["coordinator"] = "outer"]
    /\ result' = "raised"
    /\ Unhandled
    /\ UNCHANGED <<closing, pipes, outcome, processes, attempted,
                   interrupted, errors, missed>>

-----------------------------------------------------------------------------
(* The environment: the client and the daemon. *)

ClientCreates ==
    /\ client = "running" /\ container = "unborn"
    /\ container' = "running"
    /\ UNCHANGED <<pc, closing, pipes, outcome, client, signal, code,
                   written, attempted, interrupted, report, history>>

ContainerEnds ==
    /\ container = "running"
    /\ container' = "gone"
    /\ UNCHANGED <<pc, closing, pipes, outcome, client, signal, code,
                   written, attempted, interrupted, report, history>>

(* Status zero only after the container's own end.  A descendant may keep   *)
(* the pipes.                                                              *)
ClientExits ==
    /\ client = "running"
    /\ client' = "exited"
    /\ written' \in {written, FALSE}
    /\ \/ code' = "nonzero"
       \/ container = "gone" /\ code' = "zero"
    /\ UNCHANGED <<pc, closing, pipes, outcome, signal, container,
                   attempted, interrupted, report, history>>

(* The client, or after it the last of its descendants, closes its output. *)
WritersEnd ==
    /\ written
    /\ written' = FALSE
    /\ UNCHANGED <<pc, closing, pipes, outcome, client, signal, code,
                   container, attempted, interrupted, report, history>>

-----------------------------------------------------------------------------

Clean(t) ==
    Terminate(t) \/ Remove(t) \/ Reap(t) \/ ReapTimesOut(t) \/ Close(t)

Read(s) == ReadOn(s) \/ ReadClosed(s) \/ ReadEnd(s)

Supervision ==
    \/ PollExited \/ PollCancelled \/ DeadlineExpires \/ Decide
    \/ Clean("supervisor") \/ Publish

Coordination ==
    \/ StartSupervisor \/ StartReaders \/ NoticeFailure \/ NoticeDone
    \/ ShutFailed \/ StopClient \/ Claim \/ AwaitOwner \/ AwaitTimesOut
    \/ Clean("coordinator") \/ JoinReaders \/ JoinSupervisor \/ JoinTimesOut
    \/ FinalClose \/ Succeed \/ FailAttempted \/ FailRemoving

Next ==
    \/ Supervision \/ PollFails \/ Coordination
    \/ \E s \in Stream : Read(s) \/ ReadChunk(s) \/ ReadFails(s)
    \/ Interrupt \/ InterruptStart \/ InterruptAgain \/ InterruptJoin
    \/ InterruptEnd
    \/ ClientCreates \/ ContainerEnds \/ ClientExits \/ WritersEnd

Spec == Init /\ [][Next]_vars

(* The threads run, the deadline passes, and a bounded join ends.          *)
ThreadSpec ==
    /\ Spec
    /\ WF_vars(Supervision) /\ WF_vars(Coordination)
    /\ \A s \in Stream : WF_vars(Read(s))

(* Moreover a client that was killed exits, ... *)
KillSpec == ThreadSpec /\ WF_vars(signal = "kill" /\ ClientExits)

(* ... and its descendants end. *)
FairSpec == KillSpec /\ WF_vars(client = "exited" /\ WritersEnd)

-----------------------------------------------------------------------------
(* Properties. *)

(* run_streaming: "cleanup ownership is decided under a lock"; the two     *)
(* threads never terminate and remove at the same time, except when the    *)
(* supervisor has been waited for in vain, or a reader's failure makes the *)
(* coordinator stop the client, which removes nothing.                     *)
OneCleaner ==
    (pc["coordinator"] \in {"terminate", "remove"}
        /\ pc["supervisor"] \in Cleaning) => "supervisor" \in errors

(* "no supported path returns or raises with the supervisor still alive":  *)
(* it has ended, or its delay is reported.                                 *)
SupervisorJoined ==
    pc["coordinator"] \in {"final", "outer", "ended"} =>
        (SupervisorGone \/ "supervisor" \in errors \/ late)

(* A result is the outcome of a client that exited by itself and of        *)
(* complete output.                                                        *)
ResultComplete ==
    result = "returned" =>
        /\ client = "exited" /\ signal = "none"
        /\ ReadersDone /\ failed = {}

(* The deadline is told: "a structured AssemblyTimeoutError is raised"     *)
(* whenever the supervisor's clean-up fired before the run's outcome was   *)
(* decided, whatever else happened meanwhile.                              *)
TimeoutTold ==
    (fired /\ result # "none") =>
        (result = "timeout" \/ "supervisor" \in errors \/ late)

(* locked-npm-environment-assembly: the named container is force-removed   *)
(* on every failure, or the failure to do so is reported.  A second        *)
(* interrupt, and a client that creates it after the removal, are the      *)
(* exceptions.                                                             *)
ContainerRemoved ==
    (pc["coordinator"] = "ended" /\ container = "running") =>
        ("container" \in errors \/ late \/ missed)

(* Every run ends, once the deadline has killed a client that stays. *)
RunEnds ==
    pc["coordinator"] = "wait" ~> (pc["coordinator"] = "ended" \/ late)

(* The deadline's clean-up "closes both pipes so blocked readers always    *)
(* reach EOF" (docstring of run_streaming).                                *)
DeadlineUnblocks ==
    started ~> (ReadersDone \/ late)
=============================================================================
