SPECIFICATION MCSpec
CONSTANTS
  Session = {s1, s2}
  Entry = {"rust","rustup","uv","extension"}
  Key = {"rust","rustup","uv","extension"}
  Platform = {"linux-amd64","linux-arm64"}
  KindOf <- Kinds
  OwnerOf <- Owners
  Required <- RequiredOf
  Allowed <- AllowedOf
  Versions = 3
  Releases = 3
  Prerelease = {2}
  Unflagged = {2}
  Assets <- AssetsOf
  Tarballs = {1,2,3}
  TTL = 1
  Forever = Forever
  MaxTime = 2
  MaxOutages = 1
  Targets <- Targets4
  Documents <- Documents3
  Options <- OptionsOf
  Patience = 1
  MaxEdits = 1
  Doctors = {s1, s2}
  Settings = {x, y}
  NoAddress = NoAddress
  MaxHarm = 1
  Typed <- Lines
CHECK_DEADLOCK FALSE
CONSTRAINT Interesting
SYMMETRY Sessions
INVARIANTS
  BlocksReload
  RetryLaterHelps
  SettingsKept
PROPERTIES
  SuccessIsRepaired
  DoctorSettles
