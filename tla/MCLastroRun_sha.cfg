SPECIFICATION Spec
CONSTANTS
  MaxBytes = 2
  PipeCap = 2
  MaxOutput = 3
  ExitCodes = {0, 1}
  Commits = {c1, c2}
  TerminalFails = FALSE
INVARIANT ReceiptNamesItsCommit
