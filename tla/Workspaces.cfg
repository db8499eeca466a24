SPECIFICATION WorkspacesSpec
CONSTANTS
  Applicant = b1
  b1 = b1
  Borrower = {b1}
  Lender = {l1, l2}
  RequestId = {1}
  ChallengeId = {1}
  ProofId = {1}
  OfferId = {1}
  LoanId = {1}
  PayoutId = {}
  CallId = {k1}
  Passport = {w1, w2}
  Policy = {y1}
  Qualifies <- AllQualify
  Validity = {2}
  Expiry = {2, 3}
  MaxClock = 1
  ResetAllowed = FALSE
  NoProof = NoProof
  Read = {1, 2}
  Post = {1}
  MaxMounts = 1
  None = None
INVARIANTS ButtonsWork OneEffect StoredIsHeld FundsItsOwn
PROPERTIES ScreenForward DialogsEnd
CHECK_DEADLOCK FALSE
