SPECIFICATION Spec
CONSTANTS
  Process = {p1, p2}
  Blob = {a}
  Selections <- NonemptySelections
  NoProcess = NoProcess
  NoBlob = NoBlob
  MaxFaults = 0
CHECK_DEADLOCK FALSE
PROPERTY
  LaunchMountsVerified
