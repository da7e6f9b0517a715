SPECIFICATION Spec
CONSTANTS
  Structures = {"span", "cert", "grant", "envelope", "intent", "refusal"}
  LenValues <- MCLenValues
  SizeSlack = 1
INVARIANTS
  TypeOK
  AcceptedIsEncoding
  EncodingAccepted
  OversizeIsNeverTruncation
