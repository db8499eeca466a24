SPECIFICATION ChainSpec
CONSTANTS
  Key = {lender, borrower}
  Payout = {a1}
  Mint = {m1, m2}
  Request = {r1, r2}
  Passport = {w1, w2}
  Policy = {y1}
  Verifier = {v1, v2}
  Qualifies <- OneQualifies
  Term = {1}
  Amount = {1, 2}
  Apr = {1}
  Fee = {0}
  RateBase = 1
  FeeBase = 1
  Supply <- OneEach
  Expiry = {2}
  MaxDay = 2
  NoRequest = NoRequest
SYMMETRY Alike
INVARIANTS SpentByItsLoan LoanJustified
PROPERTIES VaultPaysItsLoanOnce LoanTermsFixed InterestClock
