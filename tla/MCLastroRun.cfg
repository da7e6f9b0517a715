SPECIFICATION FairSpec
CONSTANTS
  MaxBytes = 3
  PipeCap = 2
  MaxOutput = 2
  ExitCodes = {0, 1}
  Commits = {c1, c2}
  TerminalFails = TRUE
INVARIANTS
  TypeOK
  MergeKeepsStreams
  ReceiptFaithful
  GreenIsWhole
  CapIsExact
  SavedBeforeReceipt
PROPERTIES
  ImplementsContract
  ChildNeverStuck
  RunFinishes
