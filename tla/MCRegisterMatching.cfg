CONSTANTS
  Payment = {p1, p2}
  BankRow = {b1, b2}
  Bill = {}
  d1 = d1
  d2 = d2
  Detail = {d1}
  DocRole = {}
  RequiredDocs <- MCNoDocs
  Note = {}
  SqlRef = {}
  None = None
SPECIFICATION Spec
SYMMETRY RowSymmetry
INVARIANTS
  OneToOne
PROPERTY ImplementsBankTie
CHECK_DEADLOCK FALSE
