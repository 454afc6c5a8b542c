SPECIFICATION FairSpec
CONSTANTS
  Process = {p1, p2}
  Blob = {a}
  Selections <- NonemptySelections
  SnapName = {s1, s2}
  NoProcess = NoProcess
  NoBlob = NoBlob
  NoSnap = NoSnap
  TTL = 1
  MaxClock = 2
  MaxFaults = 1
PROPERTIES
  RetainedForTTL
  ImplementsRetention
  BuildEnds
