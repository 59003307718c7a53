CONSTANTS
  staff = staff
  manager = manager
  director = director
  User = {staff, manager}
  PersonOf <- MCPersonOf
  NoOne = NoOne
  Line = {l1}
  MaxAmount = 1
  MaxAdvance = 1
  Voucher = {v1, v2}
  NoVoucher = NoVoucher
  BillAmount = 1
  FormTotal = {1}
  Parts = {"claim", "all", "logins"}
  Login = {"owner", "staff"}
  OwnerLogin = {"owner"}
  NoLogin = NoLogin
  StaffEntity = {"IEA"}
  CreateCall = {c1}
  StaffPage = {w1, w2}
  Ticked = {}
SYMMETRY VoucherSymmetry
SPECIFICATION MCSpec
INVARIANTS
  EveryTypeOK
  NobodySignsTheirOwnClaim
  ClaimHasOneVoucher
  VoucheredClaimIsSigned
  SettledAccessAgrees
PROPERTIES
  SubmittedAmountIsFinal
  IssuedVoucherIsFinal
CHECK_DEADLOCK FALSE
