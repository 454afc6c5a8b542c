SPECIFICATION Spec
CONSTANTS
  Process = {p1, p2}
  Blob = {a, b}
  Selections <- NonemptySelections
  SnapName = {s1, s2}
  NoProcess = NoProcess
  NoBlob = NoBlob
  NoSnap = NoSnap
  TTL = 1
  MaxClock = 0
  MaxFaults = 2
SYMMETRY Symmetry
INVARIANTS
  CommittedBlobsPresent
  DockerReadsSelection
PROPERTIES
  CommitFollowsImage
  SuccessIsClean
