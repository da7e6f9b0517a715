SPECIFICATION Spec
CONSTANTS
  Invocations = {k1}
  Directories <- AnyDirectory
  Overlap = FALSE
  StatErrors = FALSE
PROPERTY
  NoSecretReplaced
