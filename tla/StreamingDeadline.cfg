SPECIFICATION FairSpec
CONSTANTS
  StreamCount = 2
CHECK_DEADLOCK FALSE
INVARIANTS
  SupervisorJoined
  ResultComplete
  TimeoutTold
  ContainerRemoved
PROPERTY
  RunEnds
