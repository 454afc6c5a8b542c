SPECIFICATION MCSpec
CONSTANTS
  p1 = p1 p2 = p2 q = q l1 = l1 l2 = l2 o1 = o1 o2 = o2 r = r
  Call = {p1, p2, q}
  Place = {l1, l2}
  At <- TwoRoots
  Output = {o1, o2, r}
  PlaceOf <- TwoRootsOf
  Name = {n}
  NameOf <- OneName
  NoCall = NoCall
  NoOutput = NoOutput
  MaxFaults = 1
CHECK_DEADLOCK FALSE
INVARIANTS
  TreePrivate
  AssemblesOnlyMissing
  StagingCleaned
  ContainerCleaned
PROPERTIES
  ImplementsStore
  CallEnds
