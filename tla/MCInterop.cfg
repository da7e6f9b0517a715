SPECIFICATION FairSpec
CONSTANTS
  Attempts = {31, 32}
  Sessions = {1, 2}
  LowOrder <- MCLowOrder
  Options <- MCOptions
  DaemonStatic = 53
  DaemonSig = 20
  DaemonCert <- MCDaemonCert
  DaemonTrust = {1}
  W = 8
  MaxPrivilegedLifetimeMS = 4
INVARIANTS
  TypeOK
  SessionAgreement
  OnlyForeignDatagramsFail
  NoncesUnique
  BoundMeansPeer
  AdmittedIsAuthentic
PROPERTIES
  ImplementsChannel
  AttemptEnds
