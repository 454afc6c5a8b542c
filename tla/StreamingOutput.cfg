SPECIFICATION MCSpec
CONSTANTS
  Stream = {"stdout", "stderr"}
  Letter = {"a", "b", "c"}
  Texts <- AllTexts
  Secrets <- SomeSecrets
  Marker = Marker
  Capacity = 2
  DrainCalls = 4
  Paces = {"prompt", "raising", "late", "endless"}
CHECK_DEADLOCK FALSE
INVARIANTS
  CuttingIsInvisible
  LossIsTold
  CompliantGetsAll
PROPERTY
  OutputEnds
