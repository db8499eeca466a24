SPECIFICATION Spec
CONSTANTS
  Borrower = {b1}
  Lender = {l1, l2}
  RequestId = {r1}
  ChallengeId = {c1, c2}
  ProofId = {p1, p2}
  OfferId = {o1, o2}
  LoanId = {n1, n2}
  PayoutId = {a1}
  CallId = {k1, k2}
  Passport = {w1}
  Policy = {y1}
  Qualifies <- AllQualify
  Validity = {1}
  Expiry = {0, 1, 2}
  MaxClock = 2
  ResetAllowed = TRUE
  NoProof = NoProof
SYMMETRY IdSymmetry
INVARIANTS StatusMeaning OneLoanPerRequest ProofsAnswerTheirChallenge OfferRestsOnReceipt VerifiedOwnsNullifier NoStrandedNullifier
PROPERTIES LifecycleForward FirstClaimWins ImplementsCreditLifecycle
