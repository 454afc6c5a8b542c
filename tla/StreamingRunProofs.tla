-------------------------- MODULE StreamingRunProofs --------------------------
(***************************************************************************)
(* Safety of StreamingRun for any number of pipes.                         *)
(***************************************************************************)
EXTENDS StreamingRun, TLAPS

Coord == pc["coordinator"]
Sup == pc["supervisor"]
Closing == {"final", "outer", "ended"}

(* The supervisor is started once, before anything else. *)
SupervisorStarted ==
    /\ Coord = "spawn" => Sup = "off"
    /\ Sup = "off" => Coord \in {"spawn"} \cup Closing

(* The supervisor cleans up only after it has started so under the lock,   *)
(* and then fires unless its poll had failed; the coordinator cleans up    *)
(* only when it has cancelled the supervisor before that.                  *)
CleaningOwned ==
    /\ Sup \in Cleaning \cup {"publish"} => started
    /\ started => Sup \in Cleaning \cup {"publish", "ended"}
    /\ started /\ Sup = "ended" => fired \/ pollFailed
    /\ fired => Sup = "ended"
    /\ Coord \in {"terminate", "remove"} /\ "supervisor" \notin errors =>
          cancel /\ ~started
    /\ "supervisor" \in errors => Sup \in {"close", "publish", "ended"}

(* Whatever stops the client or ends the supervisor's watch is remembered: *)
(* an interruption, a reader's failure, or what the supervisor tells.      *)
DisturbanceKnown ==
    /\ Coord \in {"terminate", "remove"} \cup Claiming => interrupted = "yes"
    /\ interrupted = "recorded" => failed # {}
    /\ Coord \in Reacting \cup {"reap", "kill", "close"} =>
          interrupted = "yes" \/ failed # {}
    /\ cancel => interrupted = "yes" \/ Coord \in {"unwind"} \cup Closing
    /\ Coord = "supervise" => interrupted # "yes" /\ failed = {} /\ ReadersDone
    /\ signal # "none" => started \/ interrupted = "yes" \/ failed # {}
    /\ Sup = "ended" => client = "exited" \/ cancel \/ fired \/ pollFailed

(* A result is settled with the outcome of a supervisor that has ended. *)
ResultSettled ==
    /\ result # "none" => Coord \in Closing
    /\ result = "returned" => SupervisorGone
    /\ result # "none" =>
          \/ SupervisorGone /\ (fired => result = "timeout")
          \/ "supervisor" \in errors
          \/ late

(* The container is gone, or known to be there, or will never be. *)
Removed ==
    \/ container = "gone"
    \/ "container" \in errors
    \/ missed
    \/ container = "unborn" /\ client = "exited"

(* Once a removal was attempted, the container is removed or one of the    *)
(* two threads is about to do so.                                          *)
RemovalUnderWay ==
    /\ attempted => Removed \/ late \/ "remove" \in {Coord, Sup}
    /\ code = "zero" => container = "gone"
    /\ Coord = "ended" => Removed \/ late

(* The Boolean part of TypeOK. *)
Flags ==
    /\ cancel \in BOOLEAN /\ started \in BOOLEAN
    /\ pollFailed \in BOOLEAN /\ fired \in BOOLEAN
    /\ written \in BOOLEAN
    /\ attempted \in BOOLEAN
    /\ late \in BOOLEAN /\ missed \in BOOLEAN

Inv ==
    /\ TypeOK
    /\ SupervisorStarted
    /\ CleaningOwned
    /\ DisturbanceKnown
    /\ SupervisorJoined
    /\ ResultSettled
    /\ ResultComplete
    /\ RemovalUnderWay

-----------------------------------------------------------------------------
(* The steps by who takes them; Clean(t) is either thread's. *)
Supervising ==
    PollExited \/ PollCancelled \/ DeadlineExpires \/ PollFails \/ Decide \/ Publish

Coordinating ==
    \/ StartSupervisor \/ StartReaders \/ NoticeFailure \/ NoticeDone
    \/ ShutFailed \/ StopClient \/ Claim \/ AwaitOwner \/ AwaitTimesOut
    \/ JoinReaders \/ JoinSupervisor \/ JoinTimesOut
    \/ FinalClose \/ Succeed \/ FailAttempted \/ FailRemoving

Interrupting ==
    Interrupt \/ InterruptStart \/ InterruptAgain \/ InterruptJoin \/ InterruptEnd

Outside ==
    \/ \E s \in Stream :
          ReadOn(s) \/ ReadClosed(s) \/ ReadEnd(s) \/ ReadChunk(s) \/ ReadFails(s)
    \/ ClientCreates \/ ContainerEnds \/ ClientExits \/ WritersEnd

LEMMA NextCases ==
  ASSUME Next
  PROVE  \/ \E t \in Thread : Clean(t)
         \/ Supervising \/ Coordinating \/ Interrupting \/ Outside
BY DEF Next, Supervision, Coordination, Read, Thread, Supervising, Coordinating,
       Interrupting, Outside

LEMMA InvInit == Init => Inv
<1> SUFFICES ASSUME Init PROVE Inv
  OBVIOUS
<1>1. TypeOK
  <2>1. Flags
    BY Zenon DEF Init, Flags
  <2> QED
    BY <2>1, ConstantsAssumption
       DEF Init, TypeOK, Flags, Thread, Stream, Cleaning, Reacting, Claiming, Unwinding,
           CoordinatorStages, SupervisorStages
<1> QED
  BY <1>1 DEF Init, Inv, SupervisorStarted, CleaningOwned, DisturbanceKnown,
       SupervisorJoined, ResultSettled, ResultComplete, RemovalUnderWay, Removed,
       Coord, Sup, Closing, SupervisorGone, Thread, Cleaning, Reacting, Claiming

LEMMA InvStutter == Inv /\ UNCHANGED vars => Inv'
BY DEF vars, outcome, pipes, processes, report, history,
       Inv, TypeOK, SupervisorStarted, CleaningOwned, DisturbanceKnown,
       SupervisorJoined, ResultSettled, ResultComplete, RemovalUnderWay, Removed,
       Coord, Sup, SupervisorGone, ReadersDone

LEMMA TypeCleaning ==
  ASSUME TypeOK, NEW t \in Thread, Clean(t)
  PROVE  TypeOK'
<1> USE ConstantsAssumption
     DEF TypeOK, Coord, Sup, Closing, Go, Coordinate, Supervise, outcome,
        pipes, processes, report, history, Thread, Stream, Signal,
        RemoveNamed, RemovalFails, AfterClose, SupervisorGone,
        SupervisorOverdue, Unhandled, Ending, ReadersDone, Cleaning, Reacting,
        Claiming, Unwinding, CoordinatorStages, SupervisorStages
<1>1. CASE Terminate(t) BY <1>1 DEF Terminate
<1>2. CASE Remove(t)
  <2>1. Flags'
    BY <1>2, Zenon DEF Remove, Flags
  <2>2. container' \in {"unborn", "running", "gone"}
         /\ errors' \in SUBSET {"container", "supervisor"}
    BY <1>2 DEF Remove
  <2>3. pc' \in [Thread -> CoordinatorStages \cup SupervisorStages]
         /\ pc'["coordinator"] \in CoordinatorStages
         /\ pc'["supervisor"] \in SupervisorStages
    BY <1>2 DEF Remove
  <2> QED
    BY <1>2, <2>1, <2>2, <2>3, Zenon DEF Remove, Flags
<1>3. CASE Reap(t) BY <1>3 DEF Reap
<1>4. CASE ReapTimesOut(t) BY <1>4 DEF ReapTimesOut
<1>5. CASE Close(t)
  <2>1. Flags'
    BY <1>5, Zenon DEF Close, Flags
  <2>2. closing' \in [Thread -> Stream]
    BY <1>5 DEF Close
  <2>5. closed' \in SUBSET Stream
    <3>1. closing[t] \in Stream
      OBVIOUS
    <3>2. closed' = closed \cup {closing[t]}
      BY <1>5 DEF Close
    <3> QED
      BY <3>1, <3>2
  <2>3. pc' \in [Thread -> CoordinatorStages \cup SupervisorStages]
         /\ pc'["coordinator"] \in CoordinatorStages
         /\ pc'["supervisor"] \in SupervisorStages
    BY <1>5 DEF Close
  <2>4. interrupted' \in {"no", "recorded", "yes"}
    BY <1>5 DEF Close
  <2> QED
    BY <1>5, <2>1, <2>2, <2>3, <2>4, <2>5, Zenon DEF Close, Flags
<1> QED
  BY <1>1, <1>2, <1>3, <1>4, <1>5 DEF Clean

LEMMA TypeSupervision ==
  ASSUME TypeOK, Supervising
  PROVE  TypeOK'
<1> USE ConstantsAssumption
     DEF TypeOK, Coord, Sup, Closing, Go, Coordinate, Supervise, outcome,
        pipes, processes, report, history, Thread, Stream, Signal,
        RemoveNamed, RemovalFails, AfterClose, SupervisorGone,
        SupervisorOverdue, Unhandled, Ending, ReadersDone, Cleaning, Reacting,
        Claiming, Unwinding, CoordinatorStages, SupervisorStages
<1>1. CASE PollExited BY <1>1 DEF PollExited
<1>2. CASE PollCancelled BY <1>2 DEF PollCancelled
<1>3. CASE DeadlineExpires BY <1>3 DEF DeadlineExpires
<1>4. CASE PollFails BY <1>4 DEF PollFails
<1>5. CASE Decide
  <2>1. Flags'
    BY <1>5, Zenon DEF Decide, Flags
  <2> QED
    BY <1>5, <2>1 DEF Decide, Flags
<1>6. CASE Publish BY <1>6 DEF Publish
<1> QED
  BY <1>1, <1>2, <1>3, <1>4, <1>5, <1>6 DEF Supervising

LEMMA TypeCoordination ==
  ASSUME TypeOK, Coordinating
  PROVE  TypeOK'
<1> USE ConstantsAssumption
     DEF TypeOK, Coord, Sup, Closing, Go, Coordinate, Supervise, outcome,
        pipes, processes, report, history, Thread, Stream, Signal,
        RemoveNamed, RemovalFails, AfterClose, SupervisorGone,
        SupervisorOverdue, Unhandled, Ending, ReadersDone, Cleaning, Reacting,
        Claiming, Unwinding, CoordinatorStages, SupervisorStages
<1>1. CASE StartSupervisor BY <1>1 DEF StartSupervisor
<1>2. CASE StartReaders BY <1>2 DEF StartReaders
<1>3. CASE NoticeFailure BY <1>3 DEF NoticeFailure
<1>4. CASE NoticeDone BY <1>4 DEF NoticeDone
<1>5. CASE ShutFailed BY <1>5 DEF ShutFailed
<1>6. CASE StopClient BY <1>6 DEF StopClient
<1>7. CASE Claim
  <2>1. Flags'
    BY <1>7, Zenon DEF Claim, Flags
  <2> QED
    BY <1>7, <2>1 DEF Claim, Flags
<1>8. CASE AwaitOwner BY <1>8 DEF AwaitOwner
<1>9. CASE AwaitTimesOut BY <1>9 DEF AwaitTimesOut
<1>10. CASE JoinReaders
  <2>1. Flags'
    BY <1>10, Zenon DEF JoinReaders, Flags
  <2> QED
    BY <1>10, <2>1 DEF JoinReaders, Flags
<1>11. CASE JoinSupervisor BY <1>11 DEF JoinSupervisor
<1>12. CASE JoinTimesOut BY <1>12 DEF JoinTimesOut
<1>13. CASE FinalClose BY <1>13 DEF FinalClose
<1>14. CASE Succeed BY <1>14 DEF Succeed
<1>15. CASE FailAttempted BY <1>15 DEF FailAttempted
<1>16. CASE FailRemoving
  <2>1. Flags'
    BY <1>16, Zenon DEF FailRemoving, Flags
  <2>2. container' \in {"unborn", "running", "gone"}
         /\ errors' \in SUBSET {"container", "supervisor"}
    BY <1>16 DEF FailRemoving
  <2>3. pc' \in [Thread -> CoordinatorStages \cup SupervisorStages]
         /\ pc'["coordinator"] \in CoordinatorStages
         /\ pc'["supervisor"] \in SupervisorStages
    BY <1>16 DEF FailRemoving
  <2> QED
    BY <1>16, <2>1, <2>2, <2>3, Zenon DEF FailRemoving, Flags
<1> QED
  BY <1>1, <1>2, <1>3, <1>4, <1>5, <1>6, <1>7, <1>8, <1>9, <1>10, <1>11,
     <1>12, <1>13, <1>14, <1>15, <1>16 DEF Coordinating

LEMMA TypeInterrupts ==
  ASSUME TypeOK, Interrupting
  PROVE  TypeOK'
<1> USE ConstantsAssumption
     DEF TypeOK, Coord, Sup, Closing, Go, Coordinate, Supervise, outcome,
        pipes, processes, report, history, Thread, Stream, Signal,
        RemoveNamed, RemovalFails, AfterClose, SupervisorGone,
        SupervisorOverdue, Unhandled, Ending, ReadersDone, Cleaning, Reacting,
        Claiming, Unwinding, CoordinatorStages, SupervisorStages
<1>1. CASE Interrupt BY <1>1 DEF Interrupt
<1>2. CASE InterruptStart
  <2>1. Flags'
    BY <1>2, Zenon DEF InterruptStart, Flags
  <2> QED
    BY <1>2, <2>1 DEF InterruptStart, Flags
<1>3. CASE InterruptAgain
  <2>1. Flags'
    BY <1>3, Zenon DEF InterruptAgain, Flags
  <2>2. closing' \in [Thread -> Stream]
    BY <1>3 DEF InterruptAgain
  <2>4. errors' \in SUBSET {"container", "supervisor"}
    BY <1>3 DEF InterruptAgain
  <2>3. pc' \in [Thread -> CoordinatorStages \cup SupervisorStages]
         /\ pc'["coordinator"] \in CoordinatorStages
         /\ pc'["supervisor"] \in SupervisorStages
    BY <1>3 DEF InterruptAgain
  <2> QED
    BY <1>3, <2>1, <2>2, <2>3, <2>4, Zenon DEF InterruptAgain, Flags
<1>4. CASE InterruptJoin BY <1>4 DEF InterruptJoin
<1>5. CASE InterruptEnd BY <1>5 DEF InterruptEnd
<1> QED
  BY <1>1, <1>2, <1>3, <1>4, <1>5 DEF Interrupting

LEMMA TypeEnvironment ==
  ASSUME TypeOK, Outside
  PROVE  TypeOK'
<1> USE ConstantsAssumption
     DEF TypeOK, Coord, Sup, Closing, Go, Coordinate, Supervise, outcome,
        pipes, processes, report, history, Thread, Stream, Signal,
        RemoveNamed, RemovalFails, AfterClose, SupervisorGone,
        SupervisorOverdue, Unhandled, Ending, ReadersDone, Cleaning, Reacting,
        Claiming, Unwinding, CoordinatorStages, SupervisorStages
<1>1. ASSUME NEW s \in Stream, ReadOn(s) PROVE TypeOK'
  BY <1>1 DEF ReadOn
<1>2. ASSUME NEW s \in Stream, ReadClosed(s) PROVE TypeOK'
  BY <1>2 DEF ReadClosed
<1>3. ASSUME NEW s \in Stream, ReadEnd(s) PROVE TypeOK'
  BY <1>3 DEF ReadEnd
<1>4. ASSUME NEW s \in Stream, ReadChunk(s) PROVE TypeOK'
  BY <1>4 DEF ReadChunk
<1>5. ASSUME NEW s \in Stream, ReadFails(s) PROVE TypeOK'
  BY <1>5 DEF ReadFails
<1>6. CASE ClientCreates BY <1>6 DEF ClientCreates
<1>7. CASE ContainerEnds BY <1>7 DEF ContainerEnds
<1>8. CASE ClientExits
  <2>1. Flags'
    BY <1>8, Zenon DEF ClientExits, Flags
  <2> QED
    BY <1>8, <2>1 DEF ClientExits, Flags
<1>9. CASE WritersEnd
  <2>1. Flags'
    BY <1>9, Zenon DEF WritersEnd, Flags
  <2> QED
    BY <1>9, <2>1 DEF WritersEnd, Flags
<1> QED
  BY <1>1, <1>2, <1>3, <1>4, <1>5, <1>6, <1>7, <1>8, <1>9 DEF Outside

LEMMA StartedCleaning ==
  ASSUME TypeOK, SupervisorStarted, NEW t \in Thread, Clean(t)
  PROVE  SupervisorStarted'
<1> USE ConstantsAssumption
     DEF TypeOK, SupervisorStarted, Coord, Sup, Closing, Go, Coordinate,
        Supervise, outcome, pipes, processes, report, history, Thread, Stream,
        Signal, RemoveNamed, RemovalFails, AfterClose, SupervisorGone,
        SupervisorOverdue, Unhandled, Ending, ReadersDone, Cleaning, Reacting,
        Claiming, Unwinding, CoordinatorStages, SupervisorStages
<1>1. CASE Terminate(t) BY <1>1 DEF Terminate
<1>2. CASE Remove(t) BY <1>2 DEF Remove
<1>3. CASE Reap(t) BY <1>3 DEF Reap
<1>4. CASE ReapTimesOut(t) BY <1>4 DEF ReapTimesOut
<1>5. CASE Close(t) BY <1>5 DEF Close
<1> QED
  BY <1>1, <1>2, <1>3, <1>4, <1>5 DEF Clean

LEMMA StartedSupervision ==
  ASSUME TypeOK, SupervisorStarted, Supervising
  PROVE  SupervisorStarted'
<1> USE ConstantsAssumption
     DEF TypeOK, SupervisorStarted, Coord, Sup, Closing, Go, Coordinate,
        Supervise, outcome, pipes, processes, report, history, Thread, Stream,
        Signal, RemoveNamed, RemovalFails, AfterClose, SupervisorGone,
        SupervisorOverdue, Unhandled, Ending, ReadersDone, Cleaning, Reacting,
        Claiming, Unwinding, CoordinatorStages, SupervisorStages
<1>1. CASE PollExited BY <1>1 DEF PollExited
<1>2. CASE PollCancelled BY <1>2 DEF PollCancelled
<1>3. CASE DeadlineExpires BY <1>3 DEF DeadlineExpires
<1>4. CASE PollFails BY <1>4 DEF PollFails
<1>5. CASE Decide BY <1>5 DEF Decide
<1>6. CASE Publish BY <1>6 DEF Publish
<1> QED
  BY <1>1, <1>2, <1>3, <1>4, <1>5, <1>6 DEF Supervising

LEMMA StartedCoordination ==
  ASSUME TypeOK, SupervisorStarted, Coordinating
  PROVE  SupervisorStarted'
<1> USE ConstantsAssumption
     DEF TypeOK, SupervisorStarted, Coord, Sup, Closing, Go, Coordinate,
        Supervise, outcome, pipes, processes, report, history, Thread, Stream,
        Signal, RemoveNamed, RemovalFails, AfterClose, SupervisorGone,
        SupervisorOverdue, Unhandled, Ending, ReadersDone, Cleaning, Reacting,
        Claiming, Unwinding, CoordinatorStages, SupervisorStages
<1>1. CASE StartSupervisor BY <1>1 DEF StartSupervisor
<1>2. CASE StartReaders BY <1>2 DEF StartReaders
<1>3. CASE NoticeFailure BY <1>3 DEF NoticeFailure
<1>4. CASE NoticeDone BY <1>4 DEF NoticeDone
<1>5. CASE ShutFailed BY <1>5 DEF ShutFailed
<1>6. CASE StopClient BY <1>6 DEF StopClient
<1>7. CASE Claim BY <1>7 DEF Claim
<1>8. CASE AwaitOwner BY <1>8 DEF AwaitOwner
<1>9. CASE AwaitTimesOut BY <1>9 DEF AwaitTimesOut
<1>10. CASE JoinReaders BY <1>10 DEF JoinReaders
<1>11. CASE JoinSupervisor BY <1>11 DEF JoinSupervisor
<1>12. CASE JoinTimesOut BY <1>12 DEF JoinTimesOut
<1>13. CASE FinalClose BY <1>13 DEF FinalClose
<1>14. CASE Succeed BY <1>14 DEF Succeed
<1>15. CASE FailAttempted BY <1>15 DEF FailAttempted
<1>16. CASE FailRemoving BY <1>16 DEF FailRemoving
<1> QED
  BY <1>1, <1>2, <1>3, <1>4, <1>5, <1>6, <1>7, <1>8, <1>9, <1>10, <1>11,
     <1>12, <1>13, <1>14, <1>15, <1>16 DEF Coordinating

LEMMA StartedInterrupts ==
  ASSUME TypeOK, SupervisorStarted, Interrupting
  PROVE  SupervisorStarted'
<1> USE ConstantsAssumption
     DEF TypeOK, SupervisorStarted, Coord, Sup, Closing, Go, Coordinate,
        Supervise, outcome, pipes, processes, report, history, Thread, Stream,
        Signal, RemoveNamed, RemovalFails, AfterClose, SupervisorGone,
        SupervisorOverdue, Unhandled, Ending, ReadersDone, Cleaning, Reacting,
        Claiming, Unwinding, CoordinatorStages, SupervisorStages
<1>1. CASE Interrupt BY <1>1 DEF Interrupt
<1>2. CASE InterruptStart BY <1>2 DEF InterruptStart
<1>3. CASE InterruptAgain BY <1>3 DEF InterruptAgain
<1>4. CASE InterruptJoin BY <1>4 DEF InterruptJoin
<1>5. CASE InterruptEnd BY <1>5 DEF InterruptEnd
<1> QED
  BY <1>1, <1>2, <1>3, <1>4, <1>5 DEF Interrupting

LEMMA StartedEnvironment ==
  ASSUME TypeOK, SupervisorStarted, Outside
  PROVE  SupervisorStarted'
<1> USE ConstantsAssumption
     DEF TypeOK, SupervisorStarted, Coord, Sup, Closing, Go, Coordinate,
        Supervise, outcome, pipes, processes, report, history, Thread, Stream,
        Signal, RemoveNamed, RemovalFails, AfterClose, SupervisorGone,
        SupervisorOverdue, Unhandled, Ending, ReadersDone, Cleaning, Reacting,
        Claiming, Unwinding, CoordinatorStages, SupervisorStages
<1>1. ASSUME NEW s \in Stream, ReadOn(s) PROVE SupervisorStarted'
  BY <1>1 DEF ReadOn
<1>2. ASSUME NEW s \in Stream, ReadClosed(s) PROVE SupervisorStarted'
  BY <1>2 DEF ReadClosed
<1>3. ASSUME NEW s \in Stream, ReadEnd(s) PROVE SupervisorStarted'
  BY <1>3 DEF ReadEnd
<1>4. ASSUME NEW s \in Stream, ReadChunk(s) PROVE SupervisorStarted'
  BY <1>4 DEF ReadChunk
<1>5. ASSUME NEW s \in Stream, ReadFails(s) PROVE SupervisorStarted'
  BY <1>5 DEF ReadFails
<1>6. CASE ClientCreates BY <1>6 DEF ClientCreates
<1>7. CASE ContainerEnds BY <1>7 DEF ContainerEnds
<1>8. CASE ClientExits BY <1>8 DEF ClientExits
<1>9. CASE WritersEnd BY <1>9 DEF WritersEnd
<1> QED
  BY <1>1, <1>2, <1>3, <1>4, <1>5, <1>6, <1>7, <1>8, <1>9 DEF Outside

LEMMA OwnedCleaning ==
  ASSUME TypeOK, SupervisorStarted, CleaningOwned, NEW t \in Thread, Clean(t)
  PROVE  CleaningOwned'
<1> USE ConstantsAssumption
     DEF TypeOK, SupervisorStarted, CleaningOwned, Coord, Sup, Closing, Go,
        Coordinate, Supervise, outcome, pipes, processes, report, history,
        Thread, Stream, Signal, RemoveNamed, RemovalFails, AfterClose,
        SupervisorGone, SupervisorOverdue, Unhandled, Ending, ReadersDone,
        Cleaning, Reacting, Claiming, Unwinding, CoordinatorStages,
        SupervisorStages
<1>1. CASE Terminate(t) BY <1>1 DEF Terminate
<1>2. CASE Remove(t) BY <1>2 DEF Remove
<1>3. CASE Reap(t) BY <1>3 DEF Reap
<1>4. CASE ReapTimesOut(t) BY <1>4 DEF ReapTimesOut
<1>5. CASE Close(t) BY <1>5 DEF Close
<1> QED
  BY <1>1, <1>2, <1>3, <1>4, <1>5 DEF Clean

LEMMA OwnedSupervision ==
  ASSUME TypeOK, SupervisorStarted, CleaningOwned, Supervising
  PROVE  CleaningOwned'
<1> USE ConstantsAssumption
     DEF TypeOK, SupervisorStarted, CleaningOwned, Coord, Sup, Closing, Go,
        Coordinate, Supervise, outcome, pipes, processes, report, history,
        Thread, Stream, Signal, RemoveNamed, RemovalFails, AfterClose,
        SupervisorGone, SupervisorOverdue, Unhandled, Ending, ReadersDone,
        Cleaning, Reacting, Claiming, Unwinding, CoordinatorStages,
        SupervisorStages
<1>1. CASE PollExited BY <1>1 DEF PollExited
<1>2. CASE PollCancelled BY <1>2 DEF PollCancelled
<1>3. CASE DeadlineExpires BY <1>3 DEF DeadlineExpires
<1>4. CASE PollFails BY <1>4 DEF PollFails
<1>5. CASE Decide BY <1>5 DEF Decide
<1>6. CASE Publish BY <1>6 DEF Publish
<1> QED
  BY <1>1, <1>2, <1>3, <1>4, <1>5, <1>6 DEF Supervising

LEMMA OwnedCoordination ==
  ASSUME TypeOK, SupervisorStarted, CleaningOwned, Coordinating
  PROVE  CleaningOwned'
<1> USE ConstantsAssumption
     DEF TypeOK, SupervisorStarted, CleaningOwned, Coord, Sup, Closing, Go,
        Coordinate, Supervise, outcome, pipes, processes, report, history,
        Thread, Stream, Signal, RemoveNamed, RemovalFails, AfterClose,
        SupervisorGone, SupervisorOverdue, Unhandled, Ending, ReadersDone,
        Cleaning, Reacting, Claiming, Unwinding, CoordinatorStages,
        SupervisorStages
<1>1. CASE StartSupervisor BY <1>1 DEF StartSupervisor
<1>2. CASE StartReaders BY <1>2 DEF StartReaders
<1>3. CASE NoticeFailure BY <1>3 DEF NoticeFailure
<1>4. CASE NoticeDone BY <1>4 DEF NoticeDone
<1>5. CASE ShutFailed BY <1>5 DEF ShutFailed
<1>6. CASE StopClient BY <1>6 DEF StopClient
<1>7. CASE Claim BY <1>7 DEF Claim
<1>8. CASE AwaitOwner BY <1>8 DEF AwaitOwner
<1>9. CASE AwaitTimesOut BY <1>9 DEF AwaitTimesOut
<1>10. CASE JoinReaders BY <1>10 DEF JoinReaders
<1>11. CASE JoinSupervisor BY <1>11 DEF JoinSupervisor
<1>12. CASE JoinTimesOut BY <1>12 DEF JoinTimesOut
<1>13. CASE FinalClose BY <1>13 DEF FinalClose
<1>14. CASE Succeed BY <1>14 DEF Succeed
<1>15. CASE FailAttempted BY <1>15 DEF FailAttempted
<1>16. CASE FailRemoving BY <1>16 DEF FailRemoving
<1> QED
  BY <1>1, <1>2, <1>3, <1>4, <1>5, <1>6, <1>7, <1>8, <1>9, <1>10, <1>11,
     <1>12, <1>13, <1>14, <1>15, <1>16 DEF Coordinating

LEMMA OwnedInterrupts ==
  ASSUME TypeOK, SupervisorStarted, CleaningOwned, Interrupting
  PROVE  CleaningOwned'
<1> USE ConstantsAssumption
     DEF TypeOK, SupervisorStarted, CleaningOwned, Coord, Sup, Closing, Go,
        Coordinate, Supervise, outcome, pipes, processes, report, history,
        Thread, Stream, Signal, RemoveNamed, RemovalFails, AfterClose,
        SupervisorGone, SupervisorOverdue, Unhandled, Ending, ReadersDone,
        Cleaning, Reacting, Claiming, Unwinding, CoordinatorStages,
        SupervisorStages
<1>1. CASE Interrupt BY <1>1 DEF Interrupt
<1>2. CASE InterruptStart BY <1>2 DEF InterruptStart
<1>3. CASE InterruptAgain BY <1>3 DEF InterruptAgain
<1>4. CASE InterruptJoin BY <1>4 DEF InterruptJoin
<1>5. CASE InterruptEnd BY <1>5 DEF InterruptEnd
<1> QED
  BY <1>1, <1>2, <1>3, <1>4, <1>5 DEF Interrupting

LEMMA OwnedEnvironment ==
  ASSUME TypeOK, SupervisorStarted, CleaningOwned, Outside
  PROVE  CleaningOwned'
<1> USE ConstantsAssumption
     DEF TypeOK, SupervisorStarted, CleaningOwned, Coord, Sup, Closing, Go,
        Coordinate, Supervise, outcome, pipes, processes, report, history,
        Thread, Stream, Signal, RemoveNamed, RemovalFails, AfterClose,
        SupervisorGone, SupervisorOverdue, Unhandled, Ending, ReadersDone,
        Cleaning, Reacting, Claiming, Unwinding, CoordinatorStages,
        SupervisorStages
<1>1. ASSUME NEW s \in Stream, ReadOn(s) PROVE CleaningOwned'
  BY <1>1 DEF ReadOn
<1>2. ASSUME NEW s \in Stream, ReadClosed(s) PROVE CleaningOwned'
  BY <1>2 DEF ReadClosed
<1>3. ASSUME NEW s \in Stream, ReadEnd(s) PROVE CleaningOwned'
  BY <1>3 DEF ReadEnd
<1>4. ASSUME NEW s \in Stream, ReadChunk(s) PROVE CleaningOwned'
  BY <1>4 DEF ReadChunk
<1>5. ASSUME NEW s \in Stream, ReadFails(s) PROVE CleaningOwned'
  BY <1>5 DEF ReadFails
<1>6. CASE ClientCreates BY <1>6 DEF ClientCreates
<1>7. CASE ContainerEnds BY <1>7 DEF ContainerEnds
<1>8. CASE ClientExits BY <1>8 DEF ClientExits
<1>9. CASE WritersEnd BY <1>9 DEF WritersEnd
<1> QED
  BY <1>1, <1>2, <1>3, <1>4, <1>5, <1>6, <1>7, <1>8, <1>9 DEF Outside

LEMMA DisturbedCleaning ==
  ASSUME TypeOK, SupervisorStarted, CleaningOwned, DisturbanceKnown,
         NEW t \in Thread, Clean(t)
  PROVE  DisturbanceKnown'
<1> USE ConstantsAssumption
     DEF TypeOK, SupervisorStarted, CleaningOwned, DisturbanceKnown, Coord,
        Sup, Closing, Go, Coordinate, Supervise, outcome, pipes, processes,
        report, history, Thread, Stream, Signal, RemoveNamed, RemovalFails,
        AfterClose, SupervisorGone, SupervisorOverdue, Unhandled, Ending,
        ReadersDone, Cleaning, Reacting, Claiming, Unwinding,
        CoordinatorStages, SupervisorStages
<1>1. CASE Terminate(t) BY <1>1 DEF Terminate
<1>2. CASE Remove(t) BY <1>2 DEF Remove
<1>3. CASE Reap(t) BY <1>3 DEF Reap
<1>4. CASE ReapTimesOut(t) BY <1>4 DEF ReapTimesOut
<1>5. CASE Close(t) BY <1>5 DEF Close
<1> QED
  BY <1>1, <1>2, <1>3, <1>4, <1>5 DEF Clean

LEMMA DisturbedSupervision ==
  ASSUME TypeOK, SupervisorStarted, CleaningOwned, DisturbanceKnown,
         Supervising
  PROVE  DisturbanceKnown'
<1> USE ConstantsAssumption
     DEF TypeOK, SupervisorStarted, CleaningOwned, DisturbanceKnown, Coord,
        Sup, Closing, Go, Coordinate, Supervise, outcome, pipes, processes,
        report, history, Thread, Stream, Signal, RemoveNamed, RemovalFails,
        AfterClose, SupervisorGone, SupervisorOverdue, Unhandled, Ending,
        ReadersDone, Cleaning, Reacting, Claiming, Unwinding,
        CoordinatorStages, SupervisorStages
<1>1. CASE PollExited BY <1>1 DEF PollExited
<1>2. CASE PollCancelled BY <1>2 DEF PollCancelled
<1>3. CASE DeadlineExpires BY <1>3 DEF DeadlineExpires
<1>4. CASE PollFails BY <1>4 DEF PollFails
<1>5. CASE Decide BY <1>5 DEF Decide
<1>6. CASE Publish BY <1>6 DEF Publish
<1> QED
  BY <1>1, <1>2, <1>3, <1>4, <1>5, <1>6 DEF Supervising

LEMMA DisturbedCoordination ==
  ASSUME TypeOK, SupervisorStarted, CleaningOwned, DisturbanceKnown,
         Coordinating
  PROVE  DisturbanceKnown'
<1> USE ConstantsAssumption
     DEF TypeOK, SupervisorStarted, CleaningOwned, DisturbanceKnown, Coord,
        Sup, Closing, Go, Coordinate, Supervise, outcome, pipes, processes,
        report, history, Thread, Stream, Signal, RemoveNamed, RemovalFails,
        AfterClose, SupervisorGone, SupervisorOverdue, Unhandled, Ending,
        ReadersDone, Cleaning, Reacting, Claiming, Unwinding,
        CoordinatorStages, SupervisorStages
<1>1. CASE StartSupervisor BY <1>1 DEF StartSupervisor
<1>2. CASE StartReaders BY <1>2 DEF StartReaders
<1>3. CASE NoticeFailure BY <1>3 DEF NoticeFailure
<1>4. CASE NoticeDone BY <1>4 DEF NoticeDone
<1>5. CASE ShutFailed BY <1>5 DEF ShutFailed
<1>6. CASE StopClient BY <1>6 DEF StopClient
<1>7. CASE Claim BY <1>7 DEF Claim
<1>8. CASE AwaitOwner BY <1>8 DEF AwaitOwner
<1>9. CASE AwaitTimesOut BY <1>9 DEF AwaitTimesOut
<1>10. CASE JoinReaders BY <1>10 DEF JoinReaders
<1>11. CASE JoinSupervisor BY <1>11 DEF JoinSupervisor
<1>12. CASE JoinTimesOut BY <1>12 DEF JoinTimesOut
<1>13. CASE FinalClose BY <1>13 DEF FinalClose
<1>14. CASE Succeed BY <1>14 DEF Succeed
<1>15. CASE FailAttempted BY <1>15 DEF FailAttempted
<1>16. CASE FailRemoving BY <1>16 DEF FailRemoving
<1> QED
  BY <1>1, <1>2, <1>3, <1>4, <1>5, <1>6, <1>7, <1>8, <1>9, <1>10, <1>11,
     <1>12, <1>13, <1>14, <1>15, <1>16 DEF Coordinating

LEMMA DisturbedInterrupts ==
  ASSUME TypeOK, SupervisorStarted, CleaningOwned, DisturbanceKnown,
         Interrupting
  PROVE  DisturbanceKnown'
<1> USE ConstantsAssumption
     DEF TypeOK, SupervisorStarted, CleaningOwned, DisturbanceKnown, Coord,
        Sup, Closing, Go, Coordinate, Supervise, outcome, pipes, processes,
        report, history, Thread, Stream, Signal, RemoveNamed, RemovalFails,
        AfterClose, SupervisorGone, SupervisorOverdue, Unhandled, Ending,
        ReadersDone, Cleaning, Reacting, Claiming, Unwinding,
        CoordinatorStages, SupervisorStages
<1>1. CASE Interrupt BY <1>1 DEF Interrupt
<1>2. CASE InterruptStart BY <1>2 DEF InterruptStart
<1>3. CASE InterruptAgain BY <1>3 DEF InterruptAgain
<1>4. CASE InterruptJoin BY <1>4 DEF InterruptJoin
<1>5. CASE InterruptEnd BY <1>5 DEF InterruptEnd
<1> QED
  BY <1>1, <1>2, <1>3, <1>4, <1>5 DEF Interrupting

LEMMA DisturbedEnvironment ==
  ASSUME TypeOK, SupervisorStarted, CleaningOwned, DisturbanceKnown, Outside
  PROVE  DisturbanceKnown'
<1> USE ConstantsAssumption
     DEF TypeOK, SupervisorStarted, CleaningOwned, DisturbanceKnown, Coord,
        Sup, Closing, Go, Coordinate, Supervise, outcome, pipes, processes,
        report, history, Thread, Stream, Signal, RemoveNamed, RemovalFails,
        AfterClose, SupervisorGone, SupervisorOverdue, Unhandled, Ending,
        ReadersDone, Cleaning, Reacting, Claiming, Unwinding,
        CoordinatorStages, SupervisorStages
<1>1. ASSUME NEW s \in Stream, ReadOn(s) PROVE DisturbanceKnown'
  BY <1>1 DEF ReadOn
<1>2. ASSUME NEW s \in Stream, ReadClosed(s) PROVE DisturbanceKnown'
  BY <1>2 DEF ReadClosed
<1>3. ASSUME NEW s \in Stream, ReadEnd(s) PROVE DisturbanceKnown'
  BY <1>3 DEF ReadEnd
<1>4. ASSUME NEW s \in Stream, ReadChunk(s) PROVE DisturbanceKnown'
  BY <1>4 DEF ReadChunk
<1>5. ASSUME NEW s \in Stream, ReadFails(s) PROVE DisturbanceKnown'
  BY <1>5 DEF ReadFails
<1>6. CASE ClientCreates BY <1>6 DEF ClientCreates
<1>7. CASE ContainerEnds BY <1>7 DEF ContainerEnds
<1>8. CASE ClientExits BY <1>8 DEF ClientExits
<1>9. CASE WritersEnd BY <1>9 DEF WritersEnd
<1> QED
  BY <1>1, <1>2, <1>3, <1>4, <1>5, <1>6, <1>7, <1>8, <1>9 DEF Outside

LEMMA JoinedCleaning ==
  ASSUME TypeOK, SupervisorJoined, NEW t \in Thread, Clean(t)
  PROVE  SupervisorJoined'
<1> USE ConstantsAssumption
     DEF TypeOK, SupervisorJoined, Coord, Sup, Closing, Go, Coordinate,
        Supervise, outcome, pipes, processes, report, history, Thread, Stream,
        Signal, RemoveNamed, RemovalFails, AfterClose, SupervisorGone,
        SupervisorOverdue, Unhandled, Ending, ReadersDone, Cleaning, Reacting,
        Claiming, Unwinding, CoordinatorStages, SupervisorStages
<1>1. CASE Terminate(t) BY <1>1 DEF Terminate
<1>2. CASE Remove(t) BY <1>2 DEF Remove
<1>3. CASE Reap(t) BY <1>3 DEF Reap
<1>4. CASE ReapTimesOut(t) BY <1>4 DEF ReapTimesOut
<1>5. CASE Close(t) BY <1>5 DEF Close
<1> QED
  BY <1>1, <1>2, <1>3, <1>4, <1>5 DEF Clean

LEMMA JoinedSupervision ==
  ASSUME TypeOK, SupervisorJoined, Supervising
  PROVE  SupervisorJoined'
<1> USE ConstantsAssumption
     DEF TypeOK, SupervisorJoined, Coord, Sup, Closing, Go, Coordinate,
        Supervise, outcome, pipes, processes, report, history, Thread, Stream,
        Signal, RemoveNamed, RemovalFails, AfterClose, SupervisorGone,
        SupervisorOverdue, Unhandled, Ending, ReadersDone, Cleaning, Reacting,
        Claiming, Unwinding, CoordinatorStages, SupervisorStages
<1>1. CASE PollExited BY <1>1 DEF PollExited
<1>2. CASE PollCancelled BY <1>2 DEF PollCancelled
<1>3. CASE DeadlineExpires BY <1>3 DEF DeadlineExpires
<1>4. CASE PollFails BY <1>4 DEF PollFails
<1>5. CASE Decide BY <1>5 DEF Decide
<1>6. CASE Publish BY <1>6 DEF Publish
<1> QED
  BY <1>1, <1>2, <1>3, <1>4, <1>5, <1>6 DEF Supervising

LEMMA JoinedCoordination ==
  ASSUME TypeOK, SupervisorJoined, Coordinating
  PROVE  SupervisorJoined'
<1> USE ConstantsAssumption
     DEF TypeOK, SupervisorJoined, Coord, Sup, Closing, Go, Coordinate,
        Supervise, outcome, pipes, processes, report, history, Thread, Stream,
        Signal, RemoveNamed, RemovalFails, AfterClose, SupervisorGone,
        SupervisorOverdue, Unhandled, Ending, ReadersDone, Cleaning, Reacting,
        Claiming, Unwinding, CoordinatorStages, SupervisorStages
<1>1. CASE StartSupervisor BY <1>1 DEF StartSupervisor
<1>2. CASE StartReaders BY <1>2 DEF StartReaders
<1>3. CASE NoticeFailure BY <1>3 DEF NoticeFailure
<1>4. CASE NoticeDone BY <1>4 DEF NoticeDone
<1>5. CASE ShutFailed BY <1>5 DEF ShutFailed
<1>6. CASE StopClient BY <1>6 DEF StopClient
<1>7. CASE Claim BY <1>7 DEF Claim
<1>8. CASE AwaitOwner BY <1>8 DEF AwaitOwner
<1>9. CASE AwaitTimesOut BY <1>9 DEF AwaitTimesOut
<1>10. CASE JoinReaders BY <1>10 DEF JoinReaders
<1>11. CASE JoinSupervisor BY <1>11 DEF JoinSupervisor
<1>12. CASE JoinTimesOut BY <1>12 DEF JoinTimesOut
<1>13. CASE FinalClose BY <1>13 DEF FinalClose
<1>14. CASE Succeed BY <1>14 DEF Succeed
<1>15. CASE FailAttempted BY <1>15 DEF FailAttempted
<1>16. CASE FailRemoving BY <1>16 DEF FailRemoving
<1> QED
  BY <1>1, <1>2, <1>3, <1>4, <1>5, <1>6, <1>7, <1>8, <1>9, <1>10, <1>11,
     <1>12, <1>13, <1>14, <1>15, <1>16 DEF Coordinating

LEMMA JoinedInterrupts ==
  ASSUME TypeOK, SupervisorJoined, Interrupting
  PROVE  SupervisorJoined'
<1> USE ConstantsAssumption
     DEF TypeOK, SupervisorJoined, Coord, Sup, Closing, Go, Coordinate,
        Supervise, outcome, pipes, processes, report, history, Thread, Stream,
        Signal, RemoveNamed, RemovalFails, AfterClose, SupervisorGone,
        SupervisorOverdue, Unhandled, Ending, ReadersDone, Cleaning, Reacting,
        Claiming, Unwinding, CoordinatorStages, SupervisorStages
<1>1. CASE Interrupt BY <1>1 DEF Interrupt
<1>2. CASE InterruptStart BY <1>2 DEF InterruptStart
<1>3. CASE InterruptAgain BY <1>3 DEF InterruptAgain
<1>4. CASE InterruptJoin BY <1>4 DEF InterruptJoin
<1>5. CASE InterruptEnd BY <1>5 DEF InterruptEnd
<1> QED
  BY <1>1, <1>2, <1>3, <1>4, <1>5 DEF Interrupting

LEMMA JoinedEnvironment ==
  ASSUME TypeOK, SupervisorJoined, Outside
  PROVE  SupervisorJoined'
<1> USE ConstantsAssumption
     DEF TypeOK, SupervisorJoined, Coord, Sup, Closing, Go, Coordinate,
        Supervise, outcome, pipes, processes, report, history, Thread, Stream,
        Signal, RemoveNamed, RemovalFails, AfterClose, SupervisorGone,
        SupervisorOverdue, Unhandled, Ending, ReadersDone, Cleaning, Reacting,
        Claiming, Unwinding, CoordinatorStages, SupervisorStages
<1>1. ASSUME NEW s \in Stream, ReadOn(s) PROVE SupervisorJoined'
  BY <1>1 DEF ReadOn
<1>2. ASSUME NEW s \in Stream, ReadClosed(s) PROVE SupervisorJoined'
  BY <1>2 DEF ReadClosed
<1>3. ASSUME NEW s \in Stream, ReadEnd(s) PROVE SupervisorJoined'
  BY <1>3 DEF ReadEnd
<1>4. ASSUME NEW s \in Stream, ReadChunk(s) PROVE SupervisorJoined'
  BY <1>4 DEF ReadChunk
<1>5. ASSUME NEW s \in Stream, ReadFails(s) PROVE SupervisorJoined'
  BY <1>5 DEF ReadFails
<1>6. CASE ClientCreates BY <1>6 DEF ClientCreates
<1>7. CASE ContainerEnds BY <1>7 DEF ContainerEnds
<1>8. CASE ClientExits BY <1>8 DEF ClientExits
<1>9. CASE WritersEnd BY <1>9 DEF WritersEnd
<1> QED
  BY <1>1, <1>2, <1>3, <1>4, <1>5, <1>6, <1>7, <1>8, <1>9 DEF Outside

LEMMA SettledCleaning ==
  ASSUME TypeOK, SupervisorStarted, CleaningOwned, ResultSettled,
         NEW t \in Thread, Clean(t)
  PROVE  ResultSettled'
<1> USE ConstantsAssumption
     DEF TypeOK, SupervisorStarted, CleaningOwned, ResultSettled, Coord, Sup,
        Closing, Go, Coordinate, Supervise, outcome, pipes, processes, report,
        history, Thread, Stream, Signal, RemoveNamed, RemovalFails,
        AfterClose, SupervisorGone, SupervisorOverdue, Unhandled, Ending,
        ReadersDone, Cleaning, Reacting, Claiming, Unwinding,
        CoordinatorStages, SupervisorStages
<1>1. CASE Terminate(t) BY <1>1 DEF Terminate
<1>2. CASE Remove(t) BY <1>2 DEF Remove
<1>3. CASE Reap(t) BY <1>3 DEF Reap
<1>4. CASE ReapTimesOut(t) BY <1>4 DEF ReapTimesOut
<1>5. CASE Close(t) BY <1>5 DEF Close
<1> QED
  BY <1>1, <1>2, <1>3, <1>4, <1>5 DEF Clean

LEMMA SettledSupervision ==
  ASSUME TypeOK, SupervisorStarted, CleaningOwned, ResultSettled, Supervising
  PROVE  ResultSettled'
<1> USE ConstantsAssumption
     DEF TypeOK, SupervisorStarted, CleaningOwned, ResultSettled, Coord, Sup,
        Closing, Go, Coordinate, Supervise, outcome, pipes, processes, report,
        history, Thread, Stream, Signal, RemoveNamed, RemovalFails,
        AfterClose, SupervisorGone, SupervisorOverdue, Unhandled, Ending,
        ReadersDone, Cleaning, Reacting, Claiming, Unwinding,
        CoordinatorStages, SupervisorStages
<1>1. CASE PollExited BY <1>1 DEF PollExited
<1>2. CASE PollCancelled BY <1>2 DEF PollCancelled
<1>3. CASE DeadlineExpires BY <1>3 DEF DeadlineExpires
<1>4. CASE PollFails BY <1>4 DEF PollFails
<1>5. CASE Decide BY <1>5 DEF Decide
<1>6. CASE Publish BY <1>6 DEF Publish
<1> QED
  BY <1>1, <1>2, <1>3, <1>4, <1>5, <1>6 DEF Supervising

LEMMA SettledCoordination ==
  ASSUME TypeOK, SupervisorStarted, CleaningOwned, ResultSettled, Coordinating
  PROVE  ResultSettled'
<1> USE ConstantsAssumption
     DEF TypeOK, SupervisorStarted, CleaningOwned, ResultSettled, Coord, Sup,
        Closing, Go, Coordinate, Supervise, outcome, pipes, processes, report,
        history, Thread, Stream, Signal, RemoveNamed, RemovalFails,
        AfterClose, SupervisorGone, SupervisorOverdue, Unhandled, Ending,
        ReadersDone, Cleaning, Reacting, Claiming, Unwinding,
        CoordinatorStages, SupervisorStages
<1>1. CASE StartSupervisor BY <1>1 DEF StartSupervisor
<1>2. CASE StartReaders BY <1>2 DEF StartReaders
<1>3. CASE NoticeFailure BY <1>3 DEF NoticeFailure
<1>4. CASE NoticeDone BY <1>4 DEF NoticeDone
<1>5. CASE ShutFailed BY <1>5 DEF ShutFailed
<1>6. CASE StopClient BY <1>6 DEF StopClient
<1>7. CASE Claim BY <1>7 DEF Claim
<1>8. CASE AwaitOwner BY <1>8 DEF AwaitOwner
<1>9. CASE AwaitTimesOut BY <1>9 DEF AwaitTimesOut
<1>10. CASE JoinReaders BY <1>10 DEF JoinReaders
<1>11. CASE JoinSupervisor BY <1>11 DEF JoinSupervisor
<1>12. CASE JoinTimesOut BY <1>12 DEF JoinTimesOut
<1>13. CASE FinalClose BY <1>13 DEF FinalClose
<1>14. CASE Succeed BY <1>14 DEF Succeed
<1>15. CASE FailAttempted BY <1>15 DEF FailAttempted
<1>16. CASE FailRemoving BY <1>16 DEF FailRemoving
<1> QED
  BY <1>1, <1>2, <1>3, <1>4, <1>5, <1>6, <1>7, <1>8, <1>9, <1>10, <1>11,
     <1>12, <1>13, <1>14, <1>15, <1>16 DEF Coordinating

LEMMA SettledInterrupts ==
  ASSUME TypeOK, SupervisorStarted, CleaningOwned, ResultSettled, Interrupting
  PROVE  ResultSettled'
<1> USE ConstantsAssumption
     DEF TypeOK, SupervisorStarted, CleaningOwned, ResultSettled, Coord, Sup,
        Closing, Go, Coordinate, Supervise, outcome, pipes, processes, report,
        history, Thread, Stream, Signal, RemoveNamed, RemovalFails,
        AfterClose, SupervisorGone, SupervisorOverdue, Unhandled, Ending,
        ReadersDone, Cleaning, Reacting, Claiming, Unwinding,
        CoordinatorStages, SupervisorStages
<1>1. CASE Interrupt BY <1>1 DEF Interrupt
<1>2. CASE InterruptStart BY <1>2 DEF InterruptStart
<1>3. CASE InterruptAgain BY <1>3 DEF InterruptAgain
<1>4. CASE InterruptJoin BY <1>4 DEF InterruptJoin
<1>5. CASE InterruptEnd BY <1>5 DEF InterruptEnd
<1> QED
  BY <1>1, <1>2, <1>3, <1>4, <1>5 DEF Interrupting

LEMMA SettledEnvironment ==
  ASSUME TypeOK, SupervisorStarted, CleaningOwned, ResultSettled, Outside
  PROVE  ResultSettled'
<1> USE ConstantsAssumption
     DEF TypeOK, SupervisorStarted, CleaningOwned, ResultSettled, Coord, Sup,
        Closing, Go, Coordinate, Supervise, outcome, pipes, processes, report,
        history, Thread, Stream, Signal, RemoveNamed, RemovalFails,
        AfterClose, SupervisorGone, SupervisorOverdue, Unhandled, Ending,
        ReadersDone, Cleaning, Reacting, Claiming, Unwinding,
        CoordinatorStages, SupervisorStages
<1>1. ASSUME NEW s \in Stream, ReadOn(s) PROVE ResultSettled'
  BY <1>1 DEF ReadOn
<1>2. ASSUME NEW s \in Stream, ReadClosed(s) PROVE ResultSettled'
  BY <1>2 DEF ReadClosed
<1>3. ASSUME NEW s \in Stream, ReadEnd(s) PROVE ResultSettled'
  BY <1>3 DEF ReadEnd
<1>4. ASSUME NEW s \in Stream, ReadChunk(s) PROVE ResultSettled'
  BY <1>4 DEF ReadChunk
<1>5. ASSUME NEW s \in Stream, ReadFails(s) PROVE ResultSettled'
  BY <1>5 DEF ReadFails
<1>6. CASE ClientCreates BY <1>6 DEF ClientCreates
<1>7. CASE ContainerEnds BY <1>7 DEF ContainerEnds
<1>8. CASE ClientExits BY <1>8 DEF ClientExits
<1>9. CASE WritersEnd BY <1>9 DEF WritersEnd
<1> QED
  BY <1>1, <1>2, <1>3, <1>4, <1>5, <1>6, <1>7, <1>8, <1>9 DEF Outside

LEMMA CompleteCleaning ==
  ASSUME TypeOK, SupervisorStarted, CleaningOwned, DisturbanceKnown,
         ResultSettled, ResultComplete, NEW t \in Thread, Clean(t)
  PROVE  ResultComplete'
<1> USE ConstantsAssumption
     DEF TypeOK, SupervisorStarted, CleaningOwned, DisturbanceKnown,
        ResultSettled, ResultComplete, Coord, Sup, Closing, Go, Coordinate,
        Supervise, outcome, pipes, processes, report, history, Thread, Stream,
        Signal, RemoveNamed, RemovalFails, AfterClose, SupervisorGone,
        SupervisorOverdue, Unhandled, Ending, ReadersDone, Cleaning, Reacting,
        Claiming, Unwinding, CoordinatorStages, SupervisorStages
<1>1. CASE Terminate(t) BY <1>1 DEF Terminate
<1>2. CASE Remove(t) BY <1>2 DEF Remove
<1>3. CASE Reap(t) BY <1>3 DEF Reap
<1>4. CASE ReapTimesOut(t) BY <1>4 DEF ReapTimesOut
<1>5. CASE Close(t) BY <1>5 DEF Close
<1> QED
  BY <1>1, <1>2, <1>3, <1>4, <1>5 DEF Clean

LEMMA CompleteSupervision ==
  ASSUME TypeOK, SupervisorStarted, CleaningOwned, DisturbanceKnown,
         ResultSettled, ResultComplete, Supervising
  PROVE  ResultComplete'
<1> USE ConstantsAssumption
     DEF TypeOK, SupervisorStarted, CleaningOwned, DisturbanceKnown,
        ResultSettled, ResultComplete, Coord, Sup, Closing, Go, Coordinate,
        Supervise, outcome, pipes, processes, report, history, Thread, Stream,
        Signal, RemoveNamed, RemovalFails, AfterClose, SupervisorGone,
        SupervisorOverdue, Unhandled, Ending, ReadersDone, Cleaning, Reacting,
        Claiming, Unwinding, CoordinatorStages, SupervisorStages
<1>1. CASE PollExited BY <1>1 DEF PollExited
<1>2. CASE PollCancelled BY <1>2 DEF PollCancelled
<1>3. CASE DeadlineExpires BY <1>3 DEF DeadlineExpires
<1>4. CASE PollFails BY <1>4 DEF PollFails
<1>5. CASE Decide BY <1>5 DEF Decide
<1>6. CASE Publish BY <1>6 DEF Publish
<1> QED
  BY <1>1, <1>2, <1>3, <1>4, <1>5, <1>6 DEF Supervising

LEMMA CompleteCoordination ==
  ASSUME TypeOK, SupervisorStarted, CleaningOwned, DisturbanceKnown,
         ResultSettled, ResultComplete, Coordinating
  PROVE  ResultComplete'
<1> USE ConstantsAssumption
     DEF TypeOK, SupervisorStarted, CleaningOwned, DisturbanceKnown,
        ResultSettled, ResultComplete, Coord, Sup, Closing, Go, Coordinate,
        Supervise, outcome, pipes, processes, report, history, Thread, Stream,
        Signal, RemoveNamed, RemovalFails, AfterClose, SupervisorGone,
        SupervisorOverdue, Unhandled, Ending, ReadersDone, Cleaning, Reacting,
        Claiming, Unwinding, CoordinatorStages, SupervisorStages
<1>1. CASE StartSupervisor BY <1>1 DEF StartSupervisor
<1>2. CASE StartReaders BY <1>2 DEF StartReaders
<1>3. CASE NoticeFailure BY <1>3 DEF NoticeFailure
<1>4. CASE NoticeDone BY <1>4 DEF NoticeDone
<1>5. CASE ShutFailed BY <1>5 DEF ShutFailed
<1>6. CASE StopClient BY <1>6 DEF StopClient
<1>7. CASE Claim BY <1>7 DEF Claim
<1>8. CASE AwaitOwner BY <1>8 DEF AwaitOwner
<1>9. CASE AwaitTimesOut BY <1>9 DEF AwaitTimesOut
<1>10. CASE JoinReaders BY <1>10 DEF JoinReaders
<1>11. CASE JoinSupervisor BY <1>11 DEF JoinSupervisor
<1>12. CASE JoinTimesOut BY <1>12 DEF JoinTimesOut
<1>13. CASE FinalClose BY <1>13 DEF FinalClose
<1>14. CASE Succeed BY <1>14 DEF Succeed
<1>15. CASE FailAttempted BY <1>15 DEF FailAttempted
<1>16. CASE FailRemoving BY <1>16 DEF FailRemoving
<1> QED
  BY <1>1, <1>2, <1>3, <1>4, <1>5, <1>6, <1>7, <1>8, <1>9, <1>10, <1>11,
     <1>12, <1>13, <1>14, <1>15, <1>16 DEF Coordinating

LEMMA CompleteInterrupts ==
  ASSUME TypeOK, SupervisorStarted, CleaningOwned, DisturbanceKnown,
         ResultSettled, ResultComplete, Interrupting
  PROVE  ResultComplete'
<1> USE ConstantsAssumption
     DEF TypeOK, SupervisorStarted, CleaningOwned, DisturbanceKnown,
        ResultSettled, ResultComplete, Coord, Sup, Closing, Go, Coordinate,
        Supervise, outcome, pipes, processes, report, history, Thread, Stream,
        Signal, RemoveNamed, RemovalFails, AfterClose, SupervisorGone,
        SupervisorOverdue, Unhandled, Ending, ReadersDone, Cleaning, Reacting,
        Claiming, Unwinding, CoordinatorStages, SupervisorStages
<1>1. CASE Interrupt BY <1>1 DEF Interrupt
<1>2. CASE InterruptStart BY <1>2 DEF InterruptStart
<1>3. CASE InterruptAgain BY <1>3 DEF InterruptAgain
<1>4. CASE InterruptJoin BY <1>4 DEF InterruptJoin
<1>5. CASE InterruptEnd BY <1>5 DEF InterruptEnd
<1> QED
  BY <1>1, <1>2, <1>3, <1>4, <1>5 DEF Interrupting

LEMMA CompleteEnvironment ==
  ASSUME TypeOK, SupervisorStarted, CleaningOwned, DisturbanceKnown,
         ResultSettled, ResultComplete, Outside
  PROVE  ResultComplete'
<1> USE ConstantsAssumption
     DEF TypeOK, SupervisorStarted, CleaningOwned, DisturbanceKnown,
        ResultSettled, ResultComplete, Coord, Sup, Closing, Go, Coordinate,
        Supervise, outcome, pipes, processes, report, history, Thread, Stream,
        Signal, RemoveNamed, RemovalFails, AfterClose, SupervisorGone,
        SupervisorOverdue, Unhandled, Ending, ReadersDone, Cleaning, Reacting,
        Claiming, Unwinding, CoordinatorStages, SupervisorStages
<1>1. ASSUME NEW s \in Stream, ReadOn(s) PROVE ResultComplete'
  BY <1>1 DEF ReadOn
<1>2. ASSUME NEW s \in Stream, ReadClosed(s) PROVE ResultComplete'
  BY <1>2 DEF ReadClosed
<1>3. ASSUME NEW s \in Stream, ReadEnd(s) PROVE ResultComplete'
  BY <1>3 DEF ReadEnd
<1>4. ASSUME NEW s \in Stream, ReadChunk(s) PROVE ResultComplete'
  BY <1>4 DEF ReadChunk
<1>5. ASSUME NEW s \in Stream, ReadFails(s) PROVE ResultComplete'
  BY <1>5 DEF ReadFails
<1>6. CASE ClientCreates BY <1>6 DEF ClientCreates
<1>7. CASE ContainerEnds BY <1>7 DEF ContainerEnds
<1>8. CASE ClientExits BY <1>8 DEF ClientExits
<1>9. CASE WritersEnd BY <1>9 DEF WritersEnd
<1> QED
  BY <1>1, <1>2, <1>3, <1>4, <1>5, <1>6, <1>7, <1>8, <1>9 DEF Outside

LEMMA RemovalCleaning ==
  ASSUME TypeOK, SupervisorStarted, CleaningOwned, SupervisorJoined,
         RemovalUnderWay, ResultComplete, NEW t \in Thread, Clean(t)
  PROVE  RemovalUnderWay'
<1> USE ConstantsAssumption
     DEF TypeOK, SupervisorStarted, CleaningOwned, SupervisorJoined,
        RemovalUnderWay, ResultComplete, Removed, Coord, Sup, Closing, Go,
        Coordinate, Supervise, outcome, pipes, processes, report, history,
        Thread, Stream, Signal, RemoveNamed, RemovalFails, AfterClose,
        SupervisorGone, SupervisorOverdue, Unhandled, Ending, ReadersDone,
        Cleaning, Reacting, Claiming, Unwinding, CoordinatorStages,
        SupervisorStages
<1>1. CASE Terminate(t) BY <1>1 DEF Terminate
<1>2. CASE Remove(t) BY <1>2 DEF Remove
<1>3. CASE Reap(t) BY <1>3 DEF Reap
<1>4. CASE ReapTimesOut(t) BY <1>4 DEF ReapTimesOut
<1>5. CASE Close(t) BY <1>5 DEF Close
<1> QED
  BY <1>1, <1>2, <1>3, <1>4, <1>5 DEF Clean

LEMMA RemovalSupervision ==
  ASSUME TypeOK, SupervisorStarted, CleaningOwned, SupervisorJoined,
         RemovalUnderWay, ResultComplete, Supervising
  PROVE  RemovalUnderWay'
<1> USE ConstantsAssumption
     DEF TypeOK, SupervisorStarted, CleaningOwned, SupervisorJoined,
        RemovalUnderWay, ResultComplete, Removed, Coord, Sup, Closing, Go,
        Coordinate, Supervise, outcome, pipes, processes, report, history,
        Thread, Stream, Signal, RemoveNamed, RemovalFails, AfterClose,
        SupervisorGone, SupervisorOverdue, Unhandled, Ending, ReadersDone,
        Cleaning, Reacting, Claiming, Unwinding, CoordinatorStages,
        SupervisorStages
<1>1. CASE PollExited BY <1>1 DEF PollExited
<1>2. CASE PollCancelled BY <1>2 DEF PollCancelled
<1>3. CASE DeadlineExpires BY <1>3 DEF DeadlineExpires
<1>4. CASE PollFails BY <1>4 DEF PollFails
<1>5. CASE Decide BY <1>5 DEF Decide
<1>6. CASE Publish BY <1>6 DEF Publish
<1> QED
  BY <1>1, <1>2, <1>3, <1>4, <1>5, <1>6 DEF Supervising

LEMMA RemovalCoordination ==
  ASSUME TypeOK, SupervisorStarted, CleaningOwned, SupervisorJoined,
         RemovalUnderWay, ResultComplete, Coordinating
  PROVE  RemovalUnderWay'
<1> USE ConstantsAssumption
     DEF TypeOK, SupervisorStarted, CleaningOwned, SupervisorJoined,
        RemovalUnderWay, ResultComplete, Removed, Coord, Sup, Closing, Go,
        Coordinate, Supervise, outcome, pipes, processes, report, history,
        Thread, Stream, Signal, RemoveNamed, RemovalFails, AfterClose,
        SupervisorGone, SupervisorOverdue, Unhandled, Ending, ReadersDone,
        Cleaning, Reacting, Claiming, Unwinding, CoordinatorStages,
        SupervisorStages
<1>1. CASE StartSupervisor BY <1>1 DEF StartSupervisor
<1>2. CASE StartReaders BY <1>2 DEF StartReaders
<1>3. CASE NoticeFailure BY <1>3 DEF NoticeFailure
<1>4. CASE NoticeDone BY <1>4 DEF NoticeDone
<1>5. CASE ShutFailed BY <1>5 DEF ShutFailed
<1>6. CASE StopClient BY <1>6 DEF StopClient
<1>7. CASE Claim BY <1>7 DEF Claim
<1>8. CASE AwaitOwner BY <1>8 DEF AwaitOwner
<1>9. CASE AwaitTimesOut BY <1>9 DEF AwaitTimesOut
<1>10. CASE JoinReaders BY <1>10 DEF JoinReaders
<1>11. CASE JoinSupervisor BY <1>11 DEF JoinSupervisor
<1>12. CASE JoinTimesOut BY <1>12 DEF JoinTimesOut
<1>13. CASE FinalClose BY <1>13 DEF FinalClose
<1>14. CASE Succeed BY <1>14 DEF Succeed
<1>15. CASE FailAttempted BY <1>15 DEF FailAttempted
<1>16. CASE FailRemoving BY <1>16 DEF FailRemoving
<1> QED
  BY <1>1, <1>2, <1>3, <1>4, <1>5, <1>6, <1>7, <1>8, <1>9, <1>10, <1>11,
     <1>12, <1>13, <1>14, <1>15, <1>16 DEF Coordinating

LEMMA RemovalInterrupts ==
  ASSUME TypeOK, SupervisorStarted, CleaningOwned, SupervisorJoined,
         RemovalUnderWay, ResultComplete, Interrupting
  PROVE  RemovalUnderWay'
<1> USE ConstantsAssumption
     DEF TypeOK, SupervisorStarted, CleaningOwned, SupervisorJoined,
        RemovalUnderWay, ResultComplete, Removed, Coord, Sup, Closing, Go,
        Coordinate, Supervise, outcome, pipes, processes, report, history,
        Thread, Stream, Signal, RemoveNamed, RemovalFails, AfterClose,
        SupervisorGone, SupervisorOverdue, Unhandled, Ending, ReadersDone,
        Cleaning, Reacting, Claiming, Unwinding, CoordinatorStages,
        SupervisorStages
<1>1. CASE Interrupt BY <1>1 DEF Interrupt
<1>2. CASE InterruptStart BY <1>2 DEF InterruptStart
<1>3. CASE InterruptAgain BY <1>3 DEF InterruptAgain
<1>4. CASE InterruptJoin BY <1>4 DEF InterruptJoin
<1>5. CASE InterruptEnd BY <1>5 DEF InterruptEnd
<1> QED
  BY <1>1, <1>2, <1>3, <1>4, <1>5 DEF Interrupting

LEMMA RemovalEnvironment ==
  ASSUME TypeOK, SupervisorStarted, CleaningOwned, SupervisorJoined,
         RemovalUnderWay, ResultComplete, Outside
  PROVE  RemovalUnderWay'
<1> USE ConstantsAssumption
     DEF TypeOK, SupervisorStarted, CleaningOwned, SupervisorJoined,
        RemovalUnderWay, ResultComplete, Removed, Coord, Sup, Closing, Go,
        Coordinate, Supervise, outcome, pipes, processes, report, history,
        Thread, Stream, Signal, RemoveNamed, RemovalFails, AfterClose,
        SupervisorGone, SupervisorOverdue, Unhandled, Ending, ReadersDone,
        Cleaning, Reacting, Claiming, Unwinding, CoordinatorStages,
        SupervisorStages
<1>1. ASSUME NEW s \in Stream, ReadOn(s) PROVE RemovalUnderWay'
  BY <1>1 DEF ReadOn
<1>2. ASSUME NEW s \in Stream, ReadClosed(s) PROVE RemovalUnderWay'
  BY <1>2 DEF ReadClosed
<1>3. ASSUME NEW s \in Stream, ReadEnd(s) PROVE RemovalUnderWay'
  BY <1>3 DEF ReadEnd
<1>4. ASSUME NEW s \in Stream, ReadChunk(s) PROVE RemovalUnderWay'
  BY <1>4 DEF ReadChunk
<1>5. ASSUME NEW s \in Stream, ReadFails(s) PROVE RemovalUnderWay'
  BY <1>5 DEF ReadFails
<1>6. CASE ClientCreates BY <1>6 DEF ClientCreates
<1>7. CASE ContainerEnds BY <1>7 DEF ContainerEnds
<1>8. CASE ClientExits BY <1>8 DEF ClientExits
<1>9. CASE WritersEnd BY <1>9 DEF WritersEnd
<1> QED
  BY <1>1, <1>2, <1>3, <1>4, <1>5, <1>6, <1>7, <1>8, <1>9 DEF Outside

-----------------------------------------------------------------------------
LEMMA InvNext == Inv /\ [Next]_vars => Inv'
<1> SUFFICES ASSUME Inv, [Next]_vars PROVE Inv'
  OBVIOUS
<1> USE DEF Inv
<1>1. ASSUME NEW t \in Thread, Clean(t) PROVE Inv'
  BY <1>1, TypeCleaning, StartedCleaning, OwnedCleaning, DisturbedCleaning,
     JoinedCleaning, SettledCleaning, CompleteCleaning, RemovalCleaning
<1>2. CASE Supervising
  BY <1>2, TypeSupervision, StartedSupervision, OwnedSupervision,
     DisturbedSupervision, JoinedSupervision, SettledSupervision,
     CompleteSupervision, RemovalSupervision
<1>3. CASE Coordinating
  BY <1>3, TypeCoordination, StartedCoordination, OwnedCoordination,
     DisturbedCoordination, JoinedCoordination, SettledCoordination,
     CompleteCoordination, RemovalCoordination
<1>4. CASE Interrupting
  BY <1>4, TypeInterrupts, StartedInterrupts, OwnedInterrupts,
     DisturbedInterrupts, JoinedInterrupts, SettledInterrupts,
     CompleteInterrupts, RemovalInterrupts
<1>5. CASE Outside
  BY <1>5, TypeEnvironment, StartedEnvironment, OwnedEnvironment,
     DisturbedEnvironment, JoinedEnvironment, SettledEnvironment,
     CompleteEnvironment, RemovalEnvironment
<1> QED
  BY <1>1, <1>2, <1>3, <1>4, <1>5, NextCases, InvStutter

THEOREM Invariance == Spec => []Inv
<1> QED
  BY InvInit, InvNext, PTL DEF Spec

(* Every variable keeps its type. *)
THEOREM TypeCorrect == Spec => []TypeOK
<1>1. Inv => TypeOK
  BY DEF Inv
<1> QED
  BY <1>1, Invariance, PTL

(* The lock decides who cleans up: coordinator and supervisor never        *)
(* terminate and remove at the same time, unless the supervisor was waited *)
(* for in vain.                                                            *)
THEOREM CleanersExclusive == Spec => []OneCleaner
<1>1. ASSUME Inv PROVE OneCleaner
  BY <1>1, Zenon DEF Inv, CleaningOwned, OneCleaner, Coord, Sup
<1> QED
  BY <1>1, Invariance, PTL

(* run_streaming neither returns nor raises with the supervisor alive,     *)
(* unless it reports the delay or an interrupt came outside its handlers.  *)
THEOREM SupervisorAlwaysJoined == Spec => []SupervisorJoined
<1>1. Inv => SupervisorJoined
  BY DEF Inv
<1> QED
  BY <1>1, Invariance, PTL

(* What is returned as a result comes from a client nobody signalled and   *)
(* from readers that read everything.                                      *)
THEOREM ResultsComplete == Spec => []ResultComplete
<1>1. Inv => ResultComplete
  BY DEF Inv
<1> QED
  BY <1>1, Invariance, PTL

(* A deadline that fired before the outcome was decided is told, whatever  *)
(* failure or interruption it raced with.                                  *)
THEOREM TimeoutsTold == Spec => []TimeoutTold
<1>1. ASSUME Inv PROVE TimeoutTold
  BY <1>1, Zenon DEF Inv, ResultSettled, TimeoutTold
<1> QED
  BY <1>1, Invariance, PTL

(* A run that is over leaves no running container it does not tell of,     *)
(* whichever of the threads was to remove it.                              *)
THEOREM ContainersRemoved == Spec => []ContainerRemoved
<1>1. ASSUME Inv PROVE ContainerRemoved
  BY <1>1 DEF Inv, RemovalUnderWay, Removed, ContainerRemoved, Coord
<1> QED
  BY <1>1, Invariance, PTL
=============================================================================
