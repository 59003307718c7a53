CONSTANTS
  Payment = {p1}
  BankRow = {b1}
  Bill = {bill1}
  d1 = d1
  d2 = d2
  Detail = {d1, d2}
  DocRole <- MCDocRole
  RequiredDocs <- MCRequiredDocs
  Note = {n1}
  SqlRef = {s1}
  None = None
SPECIFICATION Spec
INVARIANTS
  TypeOK
  ReviewedOnItsMatch
  DetailsFrozen
  StampsTellTheStatus
CHECK_DEADLOCK FALSE
