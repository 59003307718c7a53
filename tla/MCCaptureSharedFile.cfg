CONSTANTS
  q1 = q1
  h1 = h1
  Request = {q1}
  Hash = {h1}
  Declared <- MCSharedFile
  Required <- MCRole
  Role <- MCRole
  File <- MCFile
  HumanDoc = {}
  MaxFailures = 0
SPECIFICATION FairSpec
PROPERTY CountedIsAttached
CHECK_DEADLOCK FALSE
