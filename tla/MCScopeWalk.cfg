SPECIFICATION FairSpec
CONSTANTS
  Pieces = {"a", "/", ".", "{sha}", "long"}
  MaxPath = 5
  MaxNamed = 4
  MaxScopePath = 3
  Chars <- MCChars
  Resources <- MCResources
  Scopes <- MCScopes
  Width <- MCWidth
  Alnum <- MCAlnum
  Hex <- MCHex
  HeadOutputs <- MCHeadOutputs
  Namespaces <- MCNamespaces
INVARIANTS
  TypeOK
  WalkIsCovers
  AncestorsStayValid
  NamesFitAndTell
PROPERTY
  WalkReturns
