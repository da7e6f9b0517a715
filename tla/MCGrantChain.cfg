SPECIFICATION Spec
CONSTANTS
  W = 8
  MaxPrivilegedLifetimeMS = 5
  MsPerSecond = 2
  MaxNow = 7
  Grants <- MCGrants
  Contexts <- MCContexts
INVARIANTS
  TypeOK
  AuthorityIsTimely
  AuthorityIsCertified
  AuthorityIsBound
PROPERTY
  ExpiryIsFinal
