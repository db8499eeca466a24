SPECIFICATION Spec
CONSTANTS
  Borrower = {b1}
  Lender = {l1, l2}
  RequestId = {r1}
  ChallengeId = {c1}
  ProofId = {p1}
  OfferId = {o1}
  LoanId = {n1}
  PayoutId = {}
  CallId = {k1}
  Passport = {w1}
  Policy = {y1}
  Qualifies <- AllQualify
  Validity = {1}
  Expiry = {0, 1, 2}
  MaxClock = 2
  ResetAllowed = FALSE
  NoProof = NoProof
INVARIANTS LiveOffersStayVerified
