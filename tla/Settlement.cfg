SPECIFICATION Spec
CONSTANTS
  r1 = r1
  r2 = r2
  w1 = w1
  w2 = w2
  a1 = a1
  a2 = a2
  y1 = y1
  v1 = v1
  o1 = o1
  o2 = o2
  LenderKey = lender
  BorrowerKey = borrower
  Key = {lender, borrower}
  Payout = {a1}
  Mint = {m1}
  TheMint = m1
  Request = {r1}
  Passport = {w1}
  Policy = {y1}
  Verifier = {v1}
  Qualifies <- AllQualify
  Term = {1}
  Amount = {}
  Apr = {0}
  Fee = {0}
  RateBase = 1
  FeeBase = 1
  Supply <- SupplyThree
  Expiry = {1}
  MaxDay = 1
  NoRequest = NoRequest
  Offer = {o1, o2}
  Call = {c1, c2}
  OfferRequest <- BothOnFirst
  Deposit <- OneTwo
  Borrowed <- BorrowedOne
  Verified <- VerifiedOne
  Announced <- AnnouncedOne
  LateLanding = TRUE
  ReadsFail = TRUE
  MaxUnderway = 1
SYMMETRY CallSymmetry
INVARIANTS SettledHasLoan ReplayRefused PrincipalExact
CHECK_DEADLOCK FALSE
