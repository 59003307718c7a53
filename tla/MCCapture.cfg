CONSTANTS
  q1 = q1
  h1 = h1
  Request = {q1, q2}
  Hash = {h1, h2}
  Declared <- MCDeclared
  Required <- MCRole
  Role <- MCRole
  File <- MCFile
  HumanDoc <- MCHumanDoc
  MaxFailures = 2
SPECIFICATION MCFairSpec
INVARIANTS
  TypeOK
  AcceptedPayloadIsTheRows
  EvidenceIsStored
  CompleteHasEvidence
PROPERTIES
  MovedOnStays
  CaptureSettles
CHECK_DEADLOCK FALSE
