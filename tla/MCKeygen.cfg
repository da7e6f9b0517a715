SPECIFICATION Spec
CONSTANTS
  Invocations = {k1, k2, k3}
  Directories <- AnyDirectory
  Overlap = FALSE
  StatErrors = FALSE
INVARIANTS
  TypeOK
  PairsMatch
  DoneIsComplete
PROPERTY
  SecretsKept
