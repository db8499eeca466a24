--------------------------- MODULE MCMarketplace ---------------------------
(* Instances of Marketplace for TLC: which pairs of a passport and a       *)
(* policy qualify, and the symmetry of the interchangeable ids.            *)
EXTENDS MarketplaceRefinement, TLC

AllQualify == Passport \X Policy
NoneButFirst == {<<w, CHOOSE y \in Policy : TRUE>> : w \in Passport}

IdSymmetry ==
  Permutations(Lender) \cup Permutations(Borrower) \cup Permutations(RequestId)
  \cup Permutations(ChallengeId) \cup Permutations(ProofId)
  \cup Permutations(OfferId) \cup Permutations(LoanId)
  \cup Permutations(CallId)

=============================================================================
