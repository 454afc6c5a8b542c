SPECIFICATION MCSpec
CONSTANTS
  u1 = u1 u2 = u2 v1 = v1 v2 = v2
  User = {u1, u2}
  Container = {u1, u2}
  Descendants <- Tree1
  Children <- Kids2
  Disks <- AllDisks
  Attempts = 2
  MaxFaults = 1
  Packages <- Pkgs2
  File = {"package.json", "index.js"}
  Version = {v1, v2}
  NoVersion = NoVersion
  NoFile = NoFile
  InstallFaults = 1
SYMMETRY Symmetry
CONSTRAINT OneFault
CHECK_DEADLOCK FALSE
INVARIANTS
  ResolvedIsPrivate
  LateUsersResolve
  InstalledWhenQuiet
  ProjectionRemoved
PROPERTY
  UnsafeLeavesGroup
