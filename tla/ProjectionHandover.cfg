SPECIFICATION MCSpec
CONSTANTS
  Name = {"n1", "n2"}
  NoEntry = NoEntry
  Entries <- AllEntries
  Requests <- AllRequests
  BuildPackage = {"pi"}
  Lowercase = {"a", "b", "pi"}
  Archive <- Contents
  Home <- Homes
  MaxChanges = 1
CHECK_DEADLOCK FALSE
INVARIANTS
  ContainerAccepts
  StartsAsRequested
  MountsAreTheSelection
PROPERTY
  DryRunForetells
