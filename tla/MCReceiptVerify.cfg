SPECIFICATION Spec
CONSTANTS
  W = 8
  MaxPrivilegedLifetimeMS = 3
  Spans <- MCSpans
  Certs <- MCCerts
  CommandLines <- MCCommandLines
  CAFiles <- MCCAFiles
  CAKeyIn <- MCCAKeyIn
INVARIANTS
  TypeOK
  VerifiedIsAuthentic
  UnanchoredIsSigned
  HonestVerifies
  ReportIsEarned
