SPECIFICATION FairSpec
CONSTANTS
  Process = {p1, p2}
  Blob = {a, b}
  Selections <- NonemptySelections
  NoProcess = NoProcess
  NoBlob = NoBlob
  MaxFaults = 1
CHECK_DEADLOCK FALSE
INVARIANTS
  DownloadsOnlyMissing
  WorkspacesCleaned
PROPERTIES
  ImplementsStore
  LaunchEnds
