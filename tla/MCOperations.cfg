CONSTANTS
  Parts = {"bank", "allocation", "statement", "matching", "scoring", "documents",
           "recurring", "supplier", "review", "gate", "card_screen", "card_calls",
           "form", "students_calls", "students_screen", "students_work",
           "students_enrol", "students_study", "students_people",
           "register"}
  BankBatch = {b1, b2}
  BankRow = {x1}
  BankRequest = {q1, q2}
  MaxBooked = 2
  Allocation = {a1, a2}
  IsReversal = FALSE
  TxAmount = 2
  Outstanding = 1
  MaxAllocated = 2
  f1 = f1
  f2 = f2
  StatementFile = {f1, f2}
  RowsOf <- MCRowsOf
  StatementRequest = {q1, q2}
  ChunkSize = 2
  MaxImports = 3
  Pay = {p1, p2}
  Debit = {b1}
  SignalOf <- MCSignalOf
  Runner = {q1, q2}
  PerPayment = 3
  PerInsert = 1
  Doc = {d1, d2}
  Upload = {u1}
  Deletion = {q1, q2}
  Obligation = {o1}
  GenerateCall = {q1, q2}
  LastMonth = 3
  SBatch = {1}
  SRow = {1}
  SName = {n1}
  SRequest = {q1, q2}
  MaxSuppliers = 2
  MaxMoney = 1000
  Payloads <- MCPayloads
  s1 = s1
  s2 = s2
  Supplier = {s1, s2}
  NoSupplier = NoSupplier
  SupplierOf <- MCSupplierOf
  Reviewer = {u1, u2}
  Resolver = {u1}
  TypedDay = {2}
  TypedTotal = {120}
  g1 = g1
  g2 = g2
  Request = {g1, g2}
  ShapeOf <- MCShapeOf
  KeyId = {"k1", "k2"}
  Secret = {"x1", "x2"}
  Missing = "missing"
  Configs <- MCConfigs
  Window = 2
  Lifetime = 2
  Margin = 1
  MaxNow = 4
  CardLine = {"good", "bad"}
  ValidLine = {"good"}
  CardFile <- MCCardFile
  ClaimBatch = {b1}
  ClaimRequest = {q1, q2}
  MaxImported = 2
  FormClaim = {c1}
  FormLine = {l1}
  GoodText = {t1}
  Blank = Blank
  NewClaim = NewClaim
  MaxCopies = 2
  Student = {m1, m2}
  NoStudent = NoStudent
  Enrolment = {e1}
  Programme = {p1}
  NoProgramme = NoProgramme
  Intake = {i1}
  Branch = {k1, k2}
  EntityOf <- MCEntityOf
  RecordCall = {w1}
  MaxDay = 2
  MaxFee = 1
  StudentFile <- MCStudentFile
  ImportMode = {"legacy"}
  ImportBatch = {b1}
  ImportRow = {r1, r2}
  ImportCall = {q1, q2}
  OldFile <- MCOldFile
  OldEntity = {"IEA"}
  NoEntity = "?"
  OldAccount = {"77"}
  OldKey = {"7", "8"}
  NoKey = NoKey
  OldCall = {q1, q2}
SYMMETRY OperationsSymmetry
SPECIFICATION MCSpec
INVARIANTS
  OperationsTypeOK
  OneTransactionPerRow
  MatchedWithinAmount
  EveryLineOnce
  LikelyHasGrounds
  VisibleDocumentHasItsFile
  ScheduleFollowsBill
  DiscardedMadeNothing
  GuessesAreConfirmed
  WithinBudget
  OnlyValidLinesImported
  RevertedLeavesNothing
  OldPaymentOnce
PROPERTIES
  DecidedPairStays
  RevertSparesWhatItSaw
CHECK_DEADLOCK FALSE
