CONSTANTS
  i1 = i1
  i2 = i2
  d1 = d1
  d2 = d2
  e1 = e1
  e2 = e2
  f1 = f1
  None = None
  Intake = {i1, i2}
  Delivery = {d1, d2}
  Entity = {e1, e2}
  Permitted = {e1}
  File = {f1}
  Scenario <- MCScenario
  MaxFailures = 1
SPECIFICATION Spec
INVARIANT ReleasedWasVerified
CHECK_DEADLOCK FALSE
