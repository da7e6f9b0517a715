SPECIFICATION Spec
CONSTANTS
  Invocations = {k1, k2}
  Directories <- EmptyDirectory
  Overlap = TRUE
  StatErrors = FALSE
PROPERTY
  NoSecretReplaced
