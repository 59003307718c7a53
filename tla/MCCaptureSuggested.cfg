CONSTANTS
  q1 = q1
  h1 = h1
  Request = {q1}
  Hash = {h1}
  Declared <- MCDeclared
  Required <- MCRole
  Role <- MCRole
  File <- MCFile
  HumanDoc = {}
  MaxFailures = 0
SPECIFICATION FairSpec
PROPERTY SuggestedStays
CHECK_DEADLOCK FALSE
