CONSTANTS
  Payment = {p1}
  BankRow = {b1}
  Session = {s1, s2}
SPECIFICATION Spec
INVARIANT ReviewNeedsMatch
CHECK_DEADLOCK FALSE
