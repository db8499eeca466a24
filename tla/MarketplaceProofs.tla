------------------------- MODULE MarketplaceProofs -------------------------
(* Theorems about Marketplace, for every value of its constants.           *)
EXTENDS MarketplaceRefinement, TLAPS

-----------------------------------------------------------------------------
(* Type correctness.                                                       *)

USE DEF Blank, NoRow, Wiped, Idle

LEMMA TypeInit == Init => TypeOK
  BY ClockAssumption DEF Init, TypeOK, Time

(* A table whose rows are all blanked is still a table.                    *)
LEMMA EraseType ==
  ASSUME NEW D, NEW Row, NEW t \in [D -> Row \cup Blank]
  PROVE  Erase(t) \in [D -> Row \cup Blank]
  BY DEF Erase

(* The nullifier of an existing receipt is well formed: the rows it is     *)
(* derived from are there.                                                 *)
LEMMA ReceiptType ==
  ASSUME TypeOK, Links, NEW p \in ProofId, Exists(proofs[p])
  PROVE  /\ proofs[p] \in ProofRow
         /\ challenges[proofs[p].challenge] \in ChallengeRow
         /\ requests[proofs[p].request] \in RequestRow
         /\ NullifierOf(p) \in Nullifier
<1>1. proofs[p] \in ProofRow
  BY DEF TypeOK, Exists
<1>2. challenges[proofs[p].challenge] \in ChallengeRow
  BY <1>1 DEF TypeOK, Links, ProofsAnswerTheirChallenge, ProofRow
<1>3. requests[proofs[p].request] \in RequestRow
  BY <1>1 DEF TypeOK, Links, ProofsAnswerTheirChallenge, ProofRow, Exists
<1>4. QED
  BY <1>1, <1>2, <1>3
     DEF NullifierOf, PassportOf, Nullifier, ChallengeRow, RequestRow

LEMMA TypeStep == TypeOK /\ Links /\ [Next]_vars => TypeOK'
<1> SUFFICES ASSUME TypeOK, Links, [Next]_vars PROVE TypeOK'
  OBVIOUS
<1> USE DEF TypeOK
<1>1. ASSUME NEW s \in Session, CreateSession(s) PROVE TypeOK'
  BY <1>1 DEF CreateSession, tables
<1>2. ASSUME NEW b \in Borrower, NEW r \in RequestId, NEW w \in Passport,
             PublishRequest(b, r, w)
      PROVE  TypeOK'
  BY <1>2 DEF PublishRequest, MayPublishRequest, RequestRow
<1>3. ASSUME NEW b \in Borrower, NEW r \in RequestId, WithdrawRequest(b, r)
      PROVE  TypeOK'
  <2>1. requests[r] \in RequestRow
    BY <1>3 DEF WithdrawRequest, MayWithdrawRequest, Negotiable, Live, Exists
  <2>2. requests' \in [RequestId -> RequestRow \cup Blank]
    BY <1>3, <2>1 DEF WithdrawRequest, MayWithdrawRequest, RequestRow
  <2>3. challenges' \in [ChallengeId -> ChallengeRow \cup Blank]
    BY <1>3 DEF WithdrawRequest, MayWithdrawRequest, WithdrawPendingChallenges, ChallengeRow
  <2>4. offers' \in [OfferId -> OfferRow \cup Blank]
    BY <1>3 DEF WithdrawRequest, MayWithdrawRequest, WithdrawOpenOffers, OfferRow
  <2>5. QED
    BY <1>3, <2>2, <2>3, <2>4 DEF WithdrawRequest, MayWithdrawRequest
<1>4. ASSUME NEW b \in Borrower, NEW o \in OfferId, NEW n \in LoanId,
             AcceptOffer(b, o, n)
      PROVE  TypeOK'
  <2> DEFINE r == offers[o].request
  <2>1. offers[o] \in OfferRow /\ r \in RequestId
    BY <1>4 DEF AcceptOffer, MayAcceptOffer, OfferRow
  <2>2. requests[r] \in RequestRow
    BY <1>4, <2>1 DEF AcceptOffer, MayAcceptOffer, Negotiable, Live, Exists
  <2>3. requests' \in [RequestId -> RequestRow \cup Blank]
    BY <1>4, <2>1, <2>2 DEF AcceptOffer, MayAcceptOffer, RequestRow
  <2>4. offers' \in [OfferId -> OfferRow \cup Blank]
    BY <1>4, <2>1 DEF AcceptOffer, MayAcceptOffer, SettleOffers, OfferRow
  <2>5. loans' \in [LoanId -> LoanRow \cup Blank]
    BY <1>4, <2>1 DEF AcceptOffer, MayAcceptOffer, LoanRow
  <2>6. QED
    BY <1>4, <2>3, <2>4, <2>5 DEF AcceptOffer, MayAcceptOffer
<1>5. ASSUME NEW b \in Borrower, NEW p \in ProofId, NEW c \in ChallengeId,
             NEW sound \in BOOLEAN, NEW e \in Expiry, SubmitProof(b, p, c, sound, e)
      PROVE  TypeOK'
  <2> DEFINE r == challenges[c].request
  <2>1. challenges[c] \in ChallengeRow /\ r \in RequestId
    BY <1>5 DEF SubmitProof, MaySubmitProof, ChallengeRow
  <2>2. requests[r] \in RequestRow
    BY <1>5, <2>1 DEF SubmitProof, MaySubmitProof, Live, Exists
  <2>3. requests' \in [RequestId -> RequestRow \cup Blank]
    BY <1>5, <2>1, <2>2 DEF SubmitProof, MaySubmitProof, RequestRow, AfterProof
  <2>4. challenges' \in [ChallengeId -> ChallengeRow \cup Blank]
    BY <1>5, <2>1 DEF SubmitProof, MaySubmitProof, ChallengeRow
  <2>5. proofs' \in [ProofId -> ProofRow \cup Blank]
    BY <1>5, <2>1, ClockAssumption DEF SubmitProof, MaySubmitProof, ProofRow
  <2>6. QED
    BY <1>5, <2>3, <2>4, <2>5 DEF SubmitProof, MaySubmitProof
<1>6. ASSUME NEW n \in LoanId, NEW status \in {"active", "repayment_due", "repaid"},
             loans[n] \in LoanRow, SetLoan(n, status)
      PROVE  TypeOK'
  BY <1>6 DEF SetLoan, LoanRow
<1>7. ASSUME NEW b \in Borrower, NEW n \in LoanId, DrawLoan(b, n) \/ RepayLoan(b, n)
      PROVE  TypeOK'
  <2>1. loans[n] \in LoanRow
    BY <1>7 DEF DrawLoan, MayDrawLoan, RepayLoan, MayRepayLoan, Repayable
  <2>2. QED
    BY <1>6, <1>7, <2>1 DEF DrawLoan, MayDrawLoan, RepayLoan, MayRepayLoan
<1>8. ASSUME NEW l \in Lender, NEW n \in LoanId, MarkRepaymentDue(l, n)
      PROVE  TypeOK'
  <2>1. loans[n] \in LoanRow
    BY <1>8 DEF MarkRepaymentDue
  <2>2. QED
    BY <1>6, <1>8, <2>1 DEF MarkRepaymentDue
<1>9. ASSUME NEW l \in Lender, NEW c \in ChallengeId, NEW r \in RequestId,
             NEW y \in Policy, NEW v \in Validity, CreateChallenge(l, c, r, y, v)
      PROVE  TypeOK'
  <2>1. requests[r] \in RequestRow
    BY <1>9 DEF CreateChallenge, Negotiable, Live, Exists
  <2>2. requests' \in [RequestId -> RequestRow \cup Blank]
    BY <1>9, <2>1 DEF CreateChallenge, RequestRow, AfterChallenge
  <2>3. challenges' \in [ChallengeId -> ChallengeRow \cup Blank]
    BY <1>9, ClockAssumption DEF CreateChallenge, ChallengeRow, Time
  <2>4. QED
    BY <1>9, <2>2, <2>3 DEF CreateChallenge
<1>10. ASSUME NEW l \in Lender, NEW c \in ChallengeId, WithdrawChallenge(l, c)
       PROVE  TypeOK'
  <2>1. challenges[c] \in ChallengeRow
    BY <1>10 DEF WithdrawChallenge, Withdrawable
  <2>2. challenges' \in [ChallengeId -> ChallengeRow \cup Blank]
    BY <1>10, <2>1 DEF WithdrawChallenge, ChallengeRow
  <2>3. QED
    BY <1>10, <2>2 DEF WithdrawChallenge
<1>11. ASSUME NEW l \in Lender, NEW k \in CallId, NEW p \in ProofId,
              BeginVerify(l, k, p), NullifierOf(p) \in Nullifier
       PROVE  TypeOK'
  <2>1. BindingsHold(l, p) \in BOOLEAN
    BY DEF BindingsHold
  <2>2. verifying' \in [CallId -> Call \cup {Idle}]
    BY <1>11, <2>1 DEF BeginVerify, Call
  <2>3. QED
    BY <1>11, <2>2 DEF BeginVerify, tables
<1>12. ASSUME NEW l \in Lender, NEW o \in OfferId, NEW p \in ProofId,
              CreateOffer(l, o, p)
       PROVE  TypeOK'
  <2> DEFINE r == proofs[p].request
  <2>1. proofs[p] \in ProofRow /\ r \in RequestId
    BY <1>12 DEF CreateOffer, Exists, ProofRow
  <2>2. requests[r] \in RequestRow
    BY <1>12, <2>1 DEF CreateOffer, Negotiable, Live, Exists
  <2>3. requests' \in [RequestId -> RequestRow \cup Blank]
    BY <1>12, <2>1, <2>2 DEF CreateOffer, RequestRow
  <2>4. offers' \in [OfferId -> OfferRow \cup Blank]
    BY <1>12, <2>1 DEF CreateOffer, OfferRow
  <2>5. QED
    BY <1>12, <2>3, <2>4 DEF CreateOffer
<1>13. ASSUME NEW l \in Lender, NEW o \in OfferId, NEW a \in PayoutId,
              AnnouncePayout(l, o, a)
       PROVE  TypeOK'
  <2>1. offers[o] \in OfferRow
    BY <1>13 DEF AnnouncePayout
  <2>2. payouts' \in [PayoutId -> PayoutRow \cup Blank]
    BY <1>13, <2>1 DEF AnnouncePayout, PayoutRow, OfferRow
  <2>3. QED
    BY <1>13, <2>2 DEF AnnouncePayout
<1>14. ASSUME NEW k \in CallId, FinishVerify(k) PROVE TypeOK'
  <2>1. verifying[k] \in Call
    BY <1>14 DEF FinishVerify
  <2>2. nullifiers' \in [Nullifier -> ProofId \cup {NoProof}]
    BY <1>14, <2>1 DEF FinishVerify, Call
  <2>3. proofs' \in [ProofId -> ProofRow \cup Blank]
    BY <1>14, <2>1 DEF FinishVerify, Call, Exists, ProofRow
  <2>4. verifying' \in [CallId -> Call \cup {Idle}]
    BY <1>14 DEF FinishVerify
  <2>5. QED
    BY <1>14, <2>2, <2>3, <2>4 DEF FinishVerify
<1>15. ASSUME EraseState, verifying' \in [CallId -> Call \cup {Idle}], now' = now
       PROVE  TypeOK'
  <2>1. /\ requests' \in [RequestId -> RequestRow \cup Blank]
        /\ challenges' \in [ChallengeId -> ChallengeRow \cup Blank]
        /\ proofs' \in [ProofId -> ProofRow \cup Blank]
        /\ offers' \in [OfferId -> OfferRow \cup Blank]
        /\ loans' \in [LoanId -> LoanRow \cup Blank]
        /\ payouts' \in [PayoutId -> PayoutRow \cup Blank]
    BY <1>15, EraseType DEF EraseState
  <2>2. QED
    BY <1>15, <2>1 DEF EraseState
<1>16. CASE Reset
  BY <1>15, <1>16 DEF Reset
<1>17. CASE Restart
  BY <1>15, <1>17 DEF Restart
<1>18. CASE Tick
  BY <1>18, ClockAssumption DEF Tick, Time, tables
<1>19. CASE UNCHANGED vars
  BY <1>19 DEF vars
<1>20. ASSUME NEW p \in ProofId, Exists(proofs[p])
       PROVE  NullifierOf(p) \in Nullifier
  BY <1>20, ReceiptType
<1>21. QED
  BY <1>1, <1>2, <1>3, <1>4, <1>5, <1>7, <1>8, <1>9, <1>10, <1>11, <1>12, <1>13,
     <1>14, <1>16, <1>17, <1>18, <1>19, <1>20
     DEF Next, RequestRoutes, ChallengeRoutes, ReceiptRoute, VerifyRoute,
         OfferRoutes, PayoutRoute, LoanRoutes, ServerStep, BeginVerify

-----------------------------------------------------------------------------
(* Every step either wipes the store or keeps the rows it finds: a row     *)
(* stays a row, and what it was created with does not change.              *)

RequestKept(r) ==
  Exists(requests[r]) =>
    /\ Exists(requests'[r])
    /\ requests'[r].borrower = requests[r].borrower
    /\ requests'[r].passport = requests[r].passport
    /\ requests'[r].createdAt = requests[r].createdAt

ChallengeKept(c) ==
  Exists(challenges[c]) =>
    /\ Exists(challenges'[c])
    /\ challenges[c].status = "answered" => challenges'[c].status = "answered"
    /\ challenges'[c].request = challenges[c].request
    /\ challenges'[c].lender = challenges[c].lender
    /\ challenges'[c].policy = challenges[c].policy
    /\ challenges'[c].createdAt = challenges[c].createdAt

ProofKept(p) ==
  /\ proofs[p] = Wiped => proofs'[p] = Wiped
  /\ Exists(proofs[p]) =>
       /\ Exists(proofs'[p])
       /\ proofs'[p].request = proofs[p].request
       /\ proofs'[p].challenge = proofs[p].challenge
       /\ proofs'[p].sound = proofs[p].sound

RowsStay ==
  /\ \A r \in RequestId : RequestKept(r)
  /\ \A c \in ChallengeId : ChallengeKept(c)
  /\ \A p \in ProofId : ProofKept(p)
  /\ parties \subseteq parties'
  /\ retired' = retired

LEMMA KeptOrErased ==
  ASSUME TypeOK, Links, [Next]_vars
  PROVE  RowsStay \/ EraseState
<1> USE DEF TypeOK, RowsStay, RequestKept, ChallengeKept, ProofKept, Exists
<1>1. ASSUME NEW s \in Session, CreateSession(s) PROVE RowsStay
  BY <1>1 DEF CreateSession, tables
<1>2. ASSUME NEW b \in Borrower, NEW r \in RequestId, NEW w \in Passport,
             PublishRequest(b, r, w)
      PROVE  RowsStay
  BY <1>2 DEF PublishRequest, MayPublishRequest, Unused
<1>3. ASSUME NEW b \in Borrower, NEW r \in RequestId, WithdrawRequest(b, r)
      PROVE  RowsStay
  <2>1. \A x \in RequestId : RequestKept(x)
    BY <1>3 DEF WithdrawRequest, MayWithdrawRequest, Negotiable, Live, RequestRow
  <2>2. \A c \in ChallengeId : ChallengeKept(c)
    BY <1>3 DEF WithdrawRequest, MayWithdrawRequest, WithdrawPendingChallenges, ChallengeRow
  <2>3. QED
    BY <1>3, <2>1, <2>2 DEF WithdrawRequest, MayWithdrawRequest
<1>4. ASSUME NEW b \in Borrower, NEW o \in OfferId, NEW n \in LoanId,
             AcceptOffer(b, o, n)
      PROVE  RowsStay
  BY <1>4 DEF AcceptOffer, MayAcceptOffer, OfferRow, RequestRow, Negotiable, Live
<1>5. ASSUME NEW b \in Borrower, NEW p \in ProofId, NEW c \in ChallengeId,
             NEW sound \in BOOLEAN, NEW e \in Expiry, SubmitProof(b, p, c, sound, e)
      PROVE  RowsStay
  <2>1. challenges[c] \in ChallengeRow /\ challenges[c].request \in RequestId
    BY <1>5 DEF SubmitProof, MaySubmitProof, ChallengeRow
  <2>2. \A x \in RequestId : RequestKept(x)
    BY <1>5, <2>1 DEF SubmitProof, MaySubmitProof, Live, RequestRow, AfterProof
  <2>3. \A x \in ChallengeId : ChallengeKept(x)
    BY <1>5, <2>1 DEF SubmitProof, MaySubmitProof, ChallengeRow
  <2>4. \A x \in ProofId : ProofKept(x)
    BY <1>5 DEF SubmitProof, MaySubmitProof, Unused
  <2>5. QED
    BY <1>5, <2>2, <2>3, <2>4 DEF SubmitProof, MaySubmitProof
<1>6. ASSUME NEW n \in LoanId, NEW status, SetLoan(n, status)
      PROVE  RowsStay
  BY <1>6 DEF SetLoan
<1>7. ASSUME NEW l \in Lender, NEW c \in ChallengeId, NEW r \in RequestId,
             NEW y \in Policy, NEW v \in Validity, CreateChallenge(l, c, r, y, v)
      PROVE  RowsStay
  <2>1. \A x \in RequestId : RequestKept(x)
    BY <1>7 DEF CreateChallenge, Negotiable, Live, RequestRow, AfterChallenge
  <2>2. \A x \in ChallengeId : ChallengeKept(x)
    BY <1>7 DEF CreateChallenge, Unused
  <2>3. QED
    BY <1>7, <2>1, <2>2 DEF CreateChallenge
<1>8. ASSUME NEW l \in Lender, NEW c \in ChallengeId, WithdrawChallenge(l, c)
      PROVE  RowsStay
  <2>1. \A x \in ChallengeId : ChallengeKept(x)
    BY <1>8 DEF WithdrawChallenge, Withdrawable, ChallengeRow
  <2>2. QED
    BY <1>8, <2>1 DEF WithdrawChallenge
<1>9. ASSUME NEW l \in Lender, NEW k \in CallId, NEW p \in ProofId,
             BeginVerify(l, k, p)
      PROVE  RowsStay
  BY <1>9 DEF BeginVerify, tables
<1>10. ASSUME NEW l \in Lender, NEW o \in OfferId, NEW p \in ProofId,
              CreateOffer(l, o, p)
       PROVE  RowsStay
  <2>1. proofs[p].request \in RequestId
    BY <1>10 DEF CreateOffer, ProofRow
  <2>2. \A x \in RequestId : RequestKept(x)
    BY <1>10, <2>1 DEF CreateOffer, Negotiable, Live, RequestRow
  <2>3. QED
    BY <1>10, <2>2 DEF CreateOffer
<1>11. ASSUME NEW l \in Lender, NEW o \in OfferId, NEW a \in PayoutId,
              AnnouncePayout(l, o, a)
       PROVE  RowsStay
  BY <1>11 DEF AnnouncePayout
<1>12. ASSUME NEW k \in CallId, FinishVerify(k) PROVE RowsStay
  <2>1. \A x \in ProofId : ProofKept(x)
    BY <1>12 DEF FinishVerify, Call, ProofRow
  <2>2. QED
    BY <1>12, <2>1 DEF FinishVerify
<1>13. CASE Tick
  BY <1>13 DEF Tick, tables
<1>14. CASE UNCHANGED vars
  BY <1>14 DEF vars
<1>15. QED
  BY <1>1, <1>2, <1>3, <1>4, <1>5, <1>6, <1>7, <1>8, <1>9, <1>10, <1>11, <1>12,
     <1>13, <1>14
     DEF Next, RequestRoutes, ChallengeRoutes, ReceiptRoute, VerifyRoute,
         OfferRoutes, PayoutRoute, LoanRoutes, ServerStep, Reset, Restart, DrawLoan,
         MarkRepaymentDue, RepayLoan, MayRepayLoan

(* Which handlers write the challenges, and which the proofs.              *)
LEMMA ChallengeWriters ==
  ASSUME [Next]_vars
  PROVE  \/ challenges' = challenges
         \/ EraseState
         \/ \E b \in Borrower, r \in RequestId : WithdrawRequest(b, r)
         \/ \E b \in Borrower, p \in ProofId, c \in ChallengeId,
               sound \in BOOLEAN, e \in Expiry : SubmitProof(b, p, c, sound, e)
         \/ \E l \in Lender, c \in ChallengeId, r \in RequestId, y \in Policy,
               v \in Validity : CreateChallenge(l, c, r, y, v)
         \/ \E l \in Lender, c \in ChallengeId : WithdrawChallenge(l, c)
  BY DEF Next, RequestRoutes, ChallengeRoutes, ReceiptRoute, VerifyRoute,
         OfferRoutes, PayoutRoute, LoanRoutes, ServerStep, vars, tables, CreateSession,
         PublishRequest, AcceptOffer, DrawLoan, RepayLoan, SetLoan, BeginVerify,
         CreateOffer, MarkRepaymentDue, AnnouncePayout, FinishVerify, Reset,
         Restart, Tick

LEMMA ProofWriters ==
  ASSUME [Next]_vars
  PROVE  \/ proofs' = proofs
         \/ EraseState
         \/ \E b \in Borrower, p \in ProofId, c \in ChallengeId,
               sound \in BOOLEAN, e \in Expiry : SubmitProof(b, p, c, sound, e)
         \/ \E k \in CallId : FinishVerify(k)
  BY DEF Next, RequestRoutes, ChallengeRoutes, ReceiptRoute, VerifyRoute,
         OfferRoutes, PayoutRoute, LoanRoutes, ServerStep, vars, tables, CreateSession,
         PublishRequest, WithdrawRequest, AcceptOffer, DrawLoan, RepayLoan, SetLoan,
         CreateChallenge, WithdrawChallenge, BeginVerify, CreateOffer,
         MarkRepaymentDue, AnnouncePayout, Reset, Restart, Tick

LEMMA LinksInit == Init => Links
  BY DEF Init, Links, ChallengesLinked, ProofsAnswerTheirChallenge, Exists

(* Only createChallenge and submitProof add rows to the links, and each    *)
(* checks the row it points to.                                            *)
LEMMA LinksStep == TypeOK /\ Links /\ [Next]_vars => Links'
<1> SUFFICES ASSUME TypeOK, Links, [Next]_vars PROVE Links'
  OBVIOUS
<1>1. CASE EraseState
  BY <1>1 DEF EraseState, Erase, TypeOK, Links, ChallengesLinked,
              ProofsAnswerTheirChallenge, Exists
<1>2. CASE RowsStay
  <2>1. ChallengesLinked'
    <3>1. SUFFICES ASSUME NEW c \in ChallengeId, Exists(challenges'[c])
                   PROVE  /\ Exists(requests'[challenges'[c].request])
                          /\ challenges'[c].lender \in parties'
      BY DEF ChallengesLinked
    <3>2. CASE Exists(challenges[c])
      <4>1. challenges[c].request \in RequestId
        BY <3>2 DEF TypeOK, Exists, ChallengeRow
      <4>2. QED
        BY <1>2, <3>2, <4>1
           DEF RowsStay, RequestKept, ChallengeKept, Links, ChallengesLinked
    <3>3. CASE ~Exists(challenges[c])
      <4>1. ~ \E b \in Borrower, r \in RequestId : WithdrawRequest(b, r)
        BY <3>1, <3>3 DEF WithdrawRequest, WithdrawPendingChallenges, Exists
      <4>2. ~ \E l \in Lender, x \in ChallengeId : WithdrawChallenge(l, x)
        BY <3>1, <3>3 DEF WithdrawChallenge, Withdrawable, Exists, TypeOK
      <4>3. ~ \E b \in Borrower, p \in ProofId, x \in ChallengeId,
               sound \in BOOLEAN, e \in Expiry : SubmitProof(b, p, x, sound, e)
        BY <3>1, <3>3 DEF SubmitProof, MaySubmitProof, Exists, TypeOK
      <4>4. ASSUME EraseState PROVE FALSE
        BY <3>1, <4>4 DEF EraseState, Erase, TypeOK, Exists
      <4>5. PICK l \in Lender, x \in ChallengeId, r \in RequestId, y \in Policy,
                 v \in Validity : CreateChallenge(l, x, r, y, v)
        BY <3>1, <3>3, <4>1, <4>2, <4>3, <4>4, ChallengeWriters
      <4>6. x = c
        BY <3>1, <3>3, <4>5 DEF CreateChallenge, TypeOK
      <4>7. challenges'[c].request = r /\ challenges'[c].lender = l
        BY <4>5, <4>6 DEF CreateChallenge, TypeOK
      <4>8. QED
        BY <1>2, <4>5, <4>7
           DEF CreateChallenge, Negotiable, Live, RowsStay, RequestKept
    <3>4. QED
      BY <3>2, <3>3
  <2>2. ProofsAnswerTheirChallenge'
    <3>1. SUFFICES ASSUME NEW p \in ProofId, Exists(proofs'[p])
                   PROVE  LET c == proofs'[p].challenge IN
                          /\ challenges'[c].status = "answered"
                          /\ challenges'[c].request = proofs'[p].request
                          /\ Exists(requests'[proofs'[p].request])
      BY DEF ProofsAnswerTheirChallenge
    <3>2. CASE Exists(proofs[p])
      <4>1. /\ proofs[p].challenge \in ChallengeId
            /\ proofs[p].request \in RequestId
        BY <3>2, ReceiptType DEF ProofRow
      <4>2. QED
        BY <1>2, <3>2, <4>1 DEF RowsStay, RequestKept, ChallengeKept, ProofKept, Links,
                                ProofsAnswerTheirChallenge, Exists
    <3>3. CASE ~Exists(proofs[p])
      <4>1. ~ \E k \in CallId : FinishVerify(k)
        BY <3>1, <3>3 DEF FinishVerify, Exists, TypeOK
      <4>2. ASSUME EraseState PROVE FALSE
        BY <3>1, <4>2 DEF EraseState, Erase, TypeOK, Exists
      <4>3. PICK b \in Borrower, x \in ProofId, c \in ChallengeId,
                 sound \in BOOLEAN, e \in Expiry : SubmitProof(b, x, c, sound, e)
        BY <3>1, <3>3, <4>1, <4>2, ProofWriters
      <4>4. x = p
        BY <3>1, <3>3, <4>3 DEF SubmitProof, MaySubmitProof, TypeOK
      <4>5. /\ proofs'[p].challenge = c
            /\ proofs'[p].request = challenges[c].request
        BY <4>3, <4>4 DEF SubmitProof, MaySubmitProof, TypeOK
      <4>6. /\ challenges'[c].status = "answered"
            /\ challenges'[c].request = challenges[c].request
            /\ challenges[c].request \in RequestId
        BY <4>3 DEF SubmitProof, MaySubmitProof, TypeOK, ChallengeRow
      <4>7. QED
        BY <1>2, <4>3, <4>5, <4>6 DEF SubmitProof, MaySubmitProof, Live, RowsStay,
           RequestKept
    <3>4. QED
      BY <3>2, <3>3
  <2>3. QED
    BY <2>1, <2>2 DEF Links
<1>3. QED
  BY <1>1, <1>2, KeptOrErased

-----------------------------------------------------------------------------
(* Receipts: the replay guard and what every offer rests on.               *)

LEMMA VerifyingWriters ==
  ASSUME [Next]_vars
  PROVE  \/ verifying' = verifying
         \/ Restart
         \/ \E l \in Lender, k \in CallId, p \in ProofId : BeginVerify(l, k, p)
         \/ \E k \in CallId : FinishVerify(k)
  BY DEF Next, RequestRoutes, ChallengeRoutes, ReceiptRoute, VerifyRoute,
         OfferRoutes, PayoutRoute, LoanRoutes, ServerStep, vars, tables, CreateSession,
         PublishRequest, WithdrawRequest, AcceptOffer, DrawLoan, RepayLoan, SetLoan,
         SubmitProof, MaySubmitProof, CreateChallenge, WithdrawChallenge, CreateOffer,
         MarkRepaymentDue, AnnouncePayout, Reset, Tick

LEMMA NullifierWriters ==
  ASSUME [Next]_vars
  PROVE  \/ nullifiers' = nullifiers
         \/ EraseState
         \/ \E k \in CallId : FinishVerify(k)
  BY DEF Next, RequestRoutes, ChallengeRoutes, ReceiptRoute, VerifyRoute,
         OfferRoutes, PayoutRoute, LoanRoutes, ServerStep, vars, tables, CreateSession,
         PublishRequest, WithdrawRequest, AcceptOffer, DrawLoan, RepayLoan, SetLoan,
         SubmitProof, CreateChallenge, WithdrawChallenge, BeginVerify, CreateOffer,
         MarkRepaymentDue, AnnouncePayout, Reset, Restart, Tick

LEMMA OfferWriters ==
  ASSUME [Next]_vars
  PROVE  \/ offers' = offers
         \/ EraseState
         \/ \E b \in Borrower, r \in RequestId : WithdrawRequest(b, r)
         \/ \E l \in Lender, o \in OfferId, p \in ProofId : CreateOffer(l, o, p)
         \/ \E b \in Borrower, o \in OfferId, n \in LoanId : AcceptOffer(b, o, n)
  BY DEF Next, RequestRoutes, ChallengeRoutes, ReceiptRoute, VerifyRoute,
         OfferRoutes, PayoutRoute, LoanRoutes, ServerStep, vars, tables, CreateSession,
         PublishRequest, DrawLoan, RepayLoan, SetLoan, SubmitProof,
         CreateChallenge, WithdrawChallenge, BeginVerify, FinishVerify,
         MarkRepaymentDue, AnnouncePayout, Reset, Restart, Tick

(* What a receipt says is fixed while the store lives.                     *)
LEMMA ReceiptFixed ==
  ASSUME TypeOK, Links, RowsStay, NEW p \in ProofId, Exists(proofs[p])
  PROVE  /\ Exists(proofs'[p])
         /\ NullifierOf(p)' = NullifierOf(p)
         /\ Eligible(p)' = Eligible(p)
         /\ Checked(p)' = Checked(p)
         /\ proofs'[p].request = proofs[p].request
<1>1. /\ proofs[p].challenge \in ChallengeId
      /\ proofs[p].request \in RequestId
  BY ReceiptType DEF ProofRow
<1>2. /\ Exists(challenges[proofs[p].challenge])
      /\ Exists(requests[proofs[p].request])
  BY DEF Links, ProofsAnswerTheirChallenge, Exists
<1>3. QED
  BY <1>1, <1>2 DEF RowsStay, RequestKept, ChallengeKept, ProofKept, NullifierOf,
                    PassportOf, Eligible, Checked

(* The lender a nullifier is bound to is a party while its receipt exists. *)
LEMMA LenderKnown ==
  ASSUME TypeOK, Links, NEW p \in ProofId, Exists(proofs[p])
  PROVE  NullifierOf(p)[3] \in parties
<1>1. proofs[p].challenge \in ChallengeId
  BY ReceiptType DEF ProofRow
<1>2. Exists(challenges[proofs[p].challenge])
  BY DEF Links, ProofsAnswerTheirChallenge, Exists
<1>3. QED
  BY <1>1, <1>2 DEF Links, ChallengesLinked, NullifierOf

LEMMA ReceiptsInit == Init => Receipts
  BY DEF Init, Receipts, InFlightKnown, VerifiedWasChecked, VerifiedOwnsNullifier,
         OfferRestsOnReceipt, NoStrandedNullifier, Exists, Idle

LEMMA InFlightStep ==
  ASSUME TypeOK, Links, InFlightKnown, [Next]_vars
  PROVE  InFlightKnown'
<1> DEFINE Known(call) ==
      \/ /\ Exists(proofs[call.proof])
         /\ call.nullifier = NullifierOf(call.proof)
         /\ call.passed => Checked(call.proof)
      \/ proofs[call.proof] = Wiped /\ call.nullifier[3] \in retired
<1>1. SUFFICES ASSUME NEW k \in CallId, verifying'[k].status = "running"
               PROVE  Known(verifying[k])'
  BY DEF InFlightKnown
<1>2. CASE verifying'[k] = verifying[k]
  <2> DEFINE call == verifying[k]
  <2>1. call \in Call /\ call.proof \in ProofId
    BY <1>1, <1>2 DEF TypeOK, Call
  <2>2. Known(call)
    BY <1>1, <1>2 DEF InFlightKnown
  <2>3. CASE RowsStay
    <3>1. CASE Exists(proofs[call.proof])
      BY <1>2, <2>1, <2>2, <2>3, <3>1, ReceiptFixed DEF Exists
    <3>2. CASE ~Exists(proofs[call.proof])
      BY <1>2, <2>1, <2>2, <2>3, <3>2 DEF RowsStay, ProofKept, Exists
    <3>3. QED
      BY <3>1, <3>2
  <2>4. CASE EraseState
    <3>1. proofs'[call.proof] = Wiped
      BY <2>1, <2>2, <2>4 DEF EraseState, Erase, TypeOK, Exists
    <3>2. call.nullifier[3] \in retired \cup parties
      BY <2>1, <2>2, LenderKnown
    <3>3. QED
      BY <1>2, <2>4, <3>1, <3>2 DEF EraseState
  <2>5. QED
    BY <2>3, <2>4, KeptOrErased
<1>3. CASE verifying'[k] # verifying[k]
  <2>1. ~Restart
    BY <1>1 DEF Restart
  <2>2. ASSUME NEW x \in CallId, FinishVerify(x) PROVE FALSE
    <3>1. verifying' = [verifying EXCEPT ![x] = Idle]
      BY <2>2 DEF FinishVerify
    <3>2. QED
      BY <1>1, <1>3, <3>1 DEF TypeOK
  <2>3. PICK l \in Lender, x \in CallId, p \in ProofId : BeginVerify(l, x, p)
    BY <1>3, <2>1, <2>2, VerifyingWriters
  <2>4. /\ verifying'[k].proof = p
        /\ verifying'[k].nullifier = NullifierOf(p)
        /\ verifying'[k].passed = BindingsHold(l, p)
        /\ Exists(proofs[p])
    BY <1>3, <2>3 DEF BeginVerify, TypeOK
  <2>5. BindingsHold(l, p) => Checked(p)
    BY DEF BindingsHold, Checked
  <2>6. UNCHANGED tables
    BY <2>3 DEF BeginVerify
  <2>7. Known(verifying[k])' <=>
          \/ /\ Exists(proofs[p])
             /\ verifying'[k].nullifier = NullifierOf(p)
             /\ verifying'[k].passed => Checked(p)
          \/ proofs[p] = Wiped /\ verifying'[k].nullifier[3] \in retired'
    BY <2>4, <2>6 DEF tables, NullifierOf, PassportOf, Checked
  <2>8. QED
    BY <2>4, <2>5, <2>7
<1>4. QED
  BY <1>2, <1>3

(* A waiting verification that passed and wins the claim.                  *)
Wins(k) ==
  /\ verifying[k].passed
  /\ Claimable(verifying[k].nullifier, verifying[k].proof)

(* What one finished verification does to the receipts and the claims.     *)
LEMMA FinishEffect ==
  ASSUME TypeOK, Links, InFlightKnown, NEW k \in CallId, FinishVerify(k)
  PROVE  LET q == verifying[k].proof
             m == verifying[k].nullifier IN
         /\ q \in ProofId /\ m \in Nullifier
         /\ \A n \in Nullifier : nullifiers'[n] =
              IF Wins(k) /\ n = m THEN q ELSE nullifiers[n]
         /\ \A p \in ProofId : p # q => proofs'[p] = proofs[p]
         /\ Exists(proofs[q]) =>
              /\ m = NullifierOf(q)
              /\ proofs'[q].status = IF Wins(k) THEN "verified" ELSE "rejected"
              /\ Wins(k) => Checked(q)
         /\ ~Exists(proofs[q]) => proofs' = proofs /\ m[3] \in retired
<1> DEFINE q == verifying[k].proof
           m == verifying[k].nullifier
<1>1. verifying[k] \in Call /\ verifying[k].status = "running"
  BY DEF FinishVerify, TypeOK
<1>2. q \in ProofId /\ m \in Nullifier
  BY <1>1 DEF Call
<1>3. \A n \in Nullifier : nullifiers'[n] =
        IF Wins(k) /\ n = m THEN q ELSE nullifiers[n]
  BY <1>2 DEF FinishVerify, Wins, Claims, TypeOK
<1>4. \A p \in ProofId : p # q => proofs'[p] = proofs[p]
  BY <1>2 DEF FinishVerify, TypeOK
<1>5. ASSUME Exists(proofs[q])
      PROVE  /\ m = NullifierOf(q)
             /\ proofs'[q].status = IF Wins(k) THEN "verified" ELSE "rejected"
             /\ Wins(k) => Checked(q)
  <2>1. m = NullifierOf(q) /\ (verifying[k].passed => Checked(q))
    BY <1>1, <1>5 DEF InFlightKnown, Exists
  <2>2. proofs[q] \in ProofRow
    BY <1>2, <1>5, ReceiptType
  <2>3. proofs'[q].status = IF Wins(k) THEN "verified" ELSE "rejected"
    BY <1>2, <1>5, <2>2 DEF FinishVerify, Wins, TypeOK, ProofRow
  <2>4. QED
    BY <2>1, <2>3 DEF Wins
<1>6. ASSUME ~Exists(proofs[q]) PROVE proofs' = proofs /\ m[3] \in retired
  <2>1. proofs' = proofs
    BY <1>6 DEF FinishVerify
  <2>2. m[3] \in retired
    BY <1>1, <1>6 DEF InFlightKnown
  <2>3. QED
    BY <2>1, <2>2
<1>7. QED
  BY <1>2, <1>3, <1>4, <1>5, <1>6

(* No step takes a nullifier from the receipt that holds it.               *)
LEMMA ClaimsKept ==
  ASSUME TypeOK, Links, InFlightKnown, [Next]_vars, ~EraseState,
         NEW n \in Nullifier, nullifiers[n] # NoProof
  PROVE  nullifiers'[n] = nullifiers[n]
<1>1. ASSUME NEW k \in CallId, FinishVerify(k)
      PROVE  nullifiers'[n] = nullifiers[n]
  BY <1>1, FinishEffect DEF Wins, Claimable
<1>2. QED
  BY <1>1, NullifierWriters

LEMMA VerifiedStep ==
  ASSUME TypeOK, Links, InFlightKnown, VerifiedWasChecked, VerifiedOwnsNullifier,
         [Next]_vars
  PROVE  VerifiedWasChecked' /\ VerifiedOwnsNullifier'
<1>1. SUFFICES ASSUME NEW p \in ProofId, proofs'[p].status = "verified"
               PROVE  Checked(p)' /\ nullifiers'[NullifierOf(p)'] = p
  BY DEF VerifiedWasChecked, VerifiedOwnsNullifier
<1>2. RowsStay /\ ~EraseState
  <2>1. ASSUME EraseState PROVE FALSE
    BY <1>1, <2>1 DEF EraseState, Erase, TypeOK
  <2>2. QED
    BY <2>1, KeptOrErased
<1>3. CASE proofs[p].status = "verified"
  <2>1. Checked(p) /\ nullifiers[NullifierOf(p)] = p
    BY <1>3 DEF VerifiedWasChecked, VerifiedOwnsNullifier
  <2>2. Exists(proofs[p])
    BY <1>3 DEF Exists
  <2>3. Checked(p)' /\ NullifierOf(p)' = NullifierOf(p)
    BY <1>2, <2>1, <2>2, ReceiptFixed
  <2>4. NullifierOf(p) \in Nullifier /\ nullifiers[NullifierOf(p)] # NoProof
    BY <2>1, <2>2, ReceiptType, NoProofAssumption
  <2>5. QED
    BY <1>2, <2>1, <2>3, <2>4, ClaimsKept
<1>4. CASE proofs[p].status # "verified"
  <2>1. ASSUME NEW b \in Borrower, NEW x \in ProofId, NEW c \in ChallengeId,
               NEW sound \in BOOLEAN, NEW e \in Expiry, SubmitProof(b, x, c, sound, e)
        PROVE  FALSE
    BY <1>1, <1>4, <2>1 DEF SubmitProof, MaySubmitProof, TypeOK
  <2>2. PICK k \in CallId : FinishVerify(k)
    BY <1>1, <1>2, <1>4, <2>1, ProofWriters
  <2>3. /\ p = verifying[k].proof
        /\ Exists(proofs[p])
    BY <1>1, <1>4, <2>2, FinishEffect
  <2>4. Wins(k) /\ Checked(p) /\ verifying[k].nullifier = NullifierOf(p)
    BY <1>1, <2>2, <2>3, FinishEffect
  <2>5. nullifiers'[NullifierOf(p)] = p
    BY <2>2, <2>3, <2>4, FinishEffect
  <2>6. QED
    BY <1>2, <2>3, <2>4, <2>5, ReceiptFixed
<1>5. QED
  BY <1>3, <1>4

LEMMA NoStrandedStep ==
  ASSUME TypeOK, Links, InFlightKnown, NoStrandedNullifier, [Next]_vars
  PROVE  NoStrandedNullifier'
<1>1. SUFFICES ASSUME NEW n \in Nullifier, nullifiers'[n] # NoProof
               PROVE  \/ /\ Exists(proofs'[nullifiers'[n]])
                         /\ NullifierOf(nullifiers[n])' = n
                      \/ n[3] \in retired'
  BY DEF NoStrandedNullifier
<1>2. RowsStay
  BY <1>1, KeptOrErased DEF EraseState
<1>3. CASE nullifiers'[n] = nullifiers[n]
  <2>1. PICK p \in ProofId : p = nullifiers[n]
    BY <1>1, <1>3 DEF TypeOK
  <2>2. (Exists(proofs[p]) /\ NullifierOf(p) = n) \/ n[3] \in retired
    BY <1>1, <1>3, <2>1 DEF NoStrandedNullifier
  <2>3. CASE n[3] \in retired
    BY <1>2, <2>3 DEF RowsStay
  <2>4. CASE Exists(proofs[p]) /\ NullifierOf(p) = n
    <3>1. Exists(proofs'[p]) /\ NullifierOf(p)' = n
      BY <1>2, <2>1, <2>4, ReceiptFixed
    <3>2. QED
      BY <1>3, <2>1, <3>1 DEF NullifierOf, PassportOf
  <2>5. QED
    BY <2>2, <2>3, <2>4
<1>4. CASE nullifiers'[n] # nullifiers[n]
  <2>1. ~EraseState
    BY <1>1 DEF EraseState
  <2>2. PICK k \in CallId : FinishVerify(k)
    BY <1>4, <2>1, NullifierWriters
  <2>3. PICK q \in ProofId :
          q = verifying[k].proof /\ nullifiers'[n] = q /\ n = verifying[k].nullifier
    BY <1>4, <2>2, FinishEffect
  <2>4. CASE Exists(proofs[q])
    <3>1. NullifierOf(q) = n
      BY <2>2, <2>3, <2>4, FinishEffect
    <3>2. Exists(proofs'[q]) /\ NullifierOf(q)' = n
      BY <1>2, <2>3, <2>4, <3>1, ReceiptFixed
    <3>3. QED
      BY <2>3, <3>2 DEF NullifierOf, PassportOf
  <2>5. CASE ~Exists(proofs[q])
    BY <1>2, <2>2, <2>3, <2>5, FinishEffect DEF RowsStay
  <2>6. QED
    BY <2>4, <2>5
<1>5. QED
  BY <1>3, <1>4

(* What an offer says about its receipt; OfferRestsOnReceipt, one offer.   *)
RestsOn(o, p) ==
  /\ offers[o].proof = p
  /\ offers[o].request = proofs[p].request
  /\ Exists(proofs[p])
  /\ Checked(p) /\ Eligible(p)
  /\ nullifiers[NullifierOf(p)] = p

LEMMA RestsIsRests ==
  OfferRestsOnReceipt <=>
    \A o \in OfferId : Exists(offers[o]) => RestsOn(o, offers[o].proof)
  BY DEF OfferRestsOnReceipt, RestsOn, Checked

LEMMA OfferRestsStep ==
  ASSUME TypeOK, Links, InFlightKnown, VerifiedWasChecked, VerifiedOwnsNullifier,
         OfferRestsOnReceipt, [Next]_vars
  PROVE  OfferRestsOnReceipt'
<1>1. SUFFICES ASSUME NEW o \in OfferId, Exists(offers'[o])
               PROVE  \E p \in ProofId : RestsOn(o, p)'
  BY RestsIsRests DEF OfferRestsOnReceipt, RestsOn, Checked
<1>2. RowsStay /\ ~EraseState
  <2>1. ASSUME EraseState PROVE FALSE
    BY <1>1, <2>1 DEF EraseState, Erase, TypeOK, Exists
  <2>2. QED
    BY <2>1, KeptOrErased
<1>3. ASSUME NEW p \in ProofId, Exists(proofs[p]), Checked(p), Eligible(p),
             nullifiers[NullifierOf(p)] = p, offers'[o].proof = p,
             offers'[o].request = proofs[p].request
      PROVE  RestsOn(o, p)'
  <2>1. /\ NullifierOf(p) \in Nullifier
        /\ nullifiers'[NullifierOf(p)] = p
    BY <1>2, <1>3, ReceiptType, ClaimsKept, NoProofAssumption
  <2>2. QED
    BY <1>2, <1>3, <2>1, ReceiptFixed DEF RestsOn
<1>4. CASE Exists(offers[o]) /\ offers'[o].proof = offers[o].proof
                            /\ offers'[o].request = offers[o].request
  <2>1. RestsOn(o, offers[o].proof)
    BY <1>4, RestsIsRests
  <2>2. offers[o].proof \in ProofId
    BY <1>4 DEF TypeOK, Exists, OfferRow
  <2>3. QED
    BY <1>3, <1>4, <2>1, <2>2 DEF RestsOn
<1>5. ASSUME NEW l \in Lender, NEW x \in OfferId, NEW p \in ProofId,
             CreateOffer(l, x, p), x = o
      PROVE  RestsOn(o, p)'
  <2>1. /\ offers'[o].proof = p
        /\ offers'[o].request = proofs[p].request
        /\ proofs[p].status = "verified" /\ Eligible(p) /\ Exists(proofs[p])
    BY <1>5 DEF CreateOffer, Offerable, TypeOK
  <2>2. Checked(p) /\ nullifiers[NullifierOf(p)] = p
    BY <2>1 DEF VerifiedWasChecked, VerifiedOwnsNullifier
  <2>3. QED
    BY <1>3, <2>1, <2>2
<1>6. CASE offers' = offers
  BY <1>1, <1>4, <1>6 DEF TypeOK, Exists, OfferRow, RestsOn
<1>7. ASSUME NEW b \in Borrower, NEW r \in RequestId, WithdrawRequest(b, r)
      PROVE  /\ Exists(offers[o])
             /\ offers'[o].proof = offers[o].proof
             /\ offers'[o].request = offers[o].request
  BY <1>1, <1>7 DEF WithdrawRequest, WithdrawOpenOffers, TypeOK, Exists, OfferRow
<1>8. ASSUME NEW b \in Borrower, NEW x \in OfferId, NEW n \in LoanId,
             AcceptOffer(b, x, n)
      PROVE  /\ Exists(offers[o])
             /\ offers'[o].proof = offers[o].proof
             /\ offers'[o].request = offers[o].request
  BY <1>1, <1>8 DEF AcceptOffer, MayAcceptOffer, SettleOffers, TypeOK, Exists, OfferRow
<1>9. ASSUME NEW l \in Lender, NEW x \in OfferId, NEW p \in ProofId,
             CreateOffer(l, x, p), x # o
      PROVE  offers'[o] = offers[o]
  BY <1>9 DEF CreateOffer, TypeOK
<1>10. QED
  BY <1>1, <1>2, <1>4, <1>5, <1>6, <1>7, <1>8, <1>9, OfferWriters

LEMMA ReceiptsStep ==
  ASSUME TypeOK, Links, Receipts, [Next]_vars
  PROVE  Receipts'
  BY InFlightStep, VerifiedStep, NoStrandedStep, OfferRestsStep DEF Receipts

-----------------------------------------------------------------------------
(* The word a request carries, and the one loan it may get.                *)

HasChallenge(r) == \E c \in ChallengeId : Exists(challenges[c]) /\ challenges[c].request = r
HasProof(r) == \E p \in ProofId : Exists(proofs[p]) /\ proofs[p].request = r
HasOffer(r) == \E o \in OfferId : Exists(offers[o]) /\ offers[o].request = r
HasOpenOffer(r) == \E o \in OfferId : offers[o].status = "open" /\ offers[o].request = r

(* StatusMeaning, one request, without the sets.                           *)
StatusAgrees(r) ==
  /\ requests[r].status = "open" => ~HasChallenge(r)
  /\ requests[r].status = "challenged" => HasChallenge(r) /\ ~HasProof(r)
  /\ requests[r].status = "proven" => HasProof(r) /\ ~HasOffer(r)
  /\ requests[r].status = "funded" <=> HasOpenOffer(r)

LEMMA StatusIsAgreement == StatusMeaning <=> \A r \in RequestId : StatusAgrees(r)
<1>1. ASSUME NEW r \in RequestId
      PROVE  /\ HasChallenge(r) <=> ChallengesOn(r) # {}
             /\ HasProof(r) <=> ProofsOn(r) # {}
             /\ HasOffer(r) <=> OffersOn(r) # {}
             /\ HasOpenOffer(r) <=> HasStatus(offers, OffersOn(r), "open") # {}
  BY DEF HasChallenge, HasProof, HasOffer, HasOpenOffer, ChallengesOn, ProofsOn,
         OffersOn, HasStatus, Exists
<1>2. QED
  BY <1>1 DEF StatusMeaning, StatusAgrees

(* Each kind of row is there only with the kind before it.                 *)
LEMMA RowsRest ==
  ASSUME TypeOK, Links, OfferRestsOnReceipt, NEW r \in RequestId
  PROVE  /\ HasOpenOffer(r) => HasOffer(r)
         /\ HasOffer(r) => HasProof(r)
         /\ HasProof(r) => HasChallenge(r)
         /\ HasChallenge(r) => Exists(requests[r])
<1>1. HasOpenOffer(r) => HasOffer(r)
  BY DEF HasOpenOffer, HasOffer, Exists
<1>2. ASSUME NEW o \in OfferId, Exists(offers[o]), offers[o].request = r
      PROVE  HasProof(r)
  <2>1. offers[o].proof \in ProofId
    BY <1>2 DEF TypeOK, Exists, OfferRow
  <2>2. QED
    BY <1>2, <2>1 DEF OfferRestsOnReceipt, HasProof
<1>3. ASSUME NEW p \in ProofId, Exists(proofs[p]), proofs[p].request = r
      PROVE  HasChallenge(r)
  <2>1. proofs[p].challenge \in ChallengeId
    BY <1>3, ReceiptType DEF ProofRow
  <2>2. QED
    BY <1>3, <2>1 DEF Links, ProofsAnswerTheirChallenge, HasChallenge, Exists
<1>4. HasChallenge(r) => Exists(requests[r])
  BY DEF Links, ChallengesLinked, HasChallenge
<1>5. QED
  BY <1>1, <1>2, <1>3, <1>4 DEF HasOffer, HasProof

LEMMA StatusInit == Init => StatusMeaning /\ OneLoanPerRequest
  BY DEF Init, StatusMeaning, OneLoanPerRequest, ChallengesOn, ProofsOn, OffersOn,
         HasStatus, Exists

(* Which handlers can disturb the agreement.                               *)
LEMMA StatusWriters ==
  ASSUME [Next]_vars
  PROVE  \/ UNCHANGED <<requests, challenges, proofs, offers>>
         \/ EraseState
         \/ \E b \in Borrower, r \in RequestId, w \in Passport : PublishRequest(b, r, w)
         \/ \E b \in Borrower, r \in RequestId : WithdrawRequest(b, r)
         \/ \E b \in Borrower, p \in ProofId, c \in ChallengeId,
               sound \in BOOLEAN, e \in Expiry : SubmitProof(b, p, c, sound, e)
         \/ \E b \in Borrower, o \in OfferId, n \in LoanId : AcceptOffer(b, o, n)
         \/ \E l \in Lender, c \in ChallengeId, r \in RequestId, y \in Policy,
               v \in Validity : CreateChallenge(l, c, r, y, v)
         \/ \E l \in Lender, c \in ChallengeId : WithdrawChallenge(l, c)
         \/ \E l \in Lender, o \in OfferId, p \in ProofId : CreateOffer(l, o, p)
         \/ \E k \in CallId : FinishVerify(k)
  BY DEF Next, RequestRoutes, ChallengeRoutes, ReceiptRoute, VerifyRoute,
         OfferRoutes, PayoutRoute, LoanRoutes, ServerStep, vars, tables, CreateSession,
         DrawLoan, RepayLoan, SetLoan, BeginVerify, MarkRepaymentDue,
         AnnouncePayout, Reset, Restart, Tick

(* Challenges and proofs of a request stay its own.                        *)
LEMMA RowsKept ==
  ASSUME TypeOK, RowsStay, NEW r \in RequestId
  PROVE  /\ HasChallenge(r) => HasChallenge(r)'
         /\ HasProof(r) => HasProof(r)'
  BY DEF RowsStay, ChallengeKept, ProofKept, HasChallenge, HasProof

LEMMA StatusStep ==
  ASSUME TypeOK, Links, OfferRestsOnReceipt, StatusMeaning, [Next]_vars
  PROVE  StatusMeaning'
<1> SUFFICES ASSUME NEW x \in RequestId PROVE StatusAgrees(x)'
  BY StatusIsAgreement
     DEF StatusMeaning, StatusAgrees, HasChallenge, HasProof, HasOffer, HasOpenOffer,
         ChallengesOn, ProofsOn, OffersOn, HasStatus, Exists
<1>a. StatusAgrees(x)
  BY StatusIsAgreement
<1>b. /\ HasOpenOffer(x) => HasOffer(x)
      /\ HasOffer(x) => HasProof(x)
      /\ HasProof(x) => HasChallenge(x)
      /\ HasChallenge(x) => Exists(requests[x])
  BY RowsRest
<1>1. CASE UNCHANGED <<requests, challenges, proofs, offers>>
  BY <1>1, <1>a DEF StatusAgrees, HasChallenge, HasProof, HasOffer, HasOpenOffer
<1>2. CASE EraseState
  BY <1>2 DEF EraseState, Erase, TypeOK, StatusAgrees, HasChallenge, HasProof,
              HasOffer, HasOpenOffer, Exists
<1>3. ASSUME NEW b \in Borrower, NEW r \in RequestId, NEW w \in Passport,
             PublishRequest(b, r, w)
      PROVE  StatusAgrees(x)'
  <2>1. UNCHANGED <<challenges, proofs, offers>>
    BY <1>3 DEF PublishRequest, MayPublishRequest
  <2>2. CASE x = r
    <3>1. requests'[x].status = "open" /\ ~Exists(requests[x])
      BY <1>3, <2>2 DEF PublishRequest, MayPublishRequest, Unused, TypeOK, Exists
    <3>2. QED
      BY <1>b, <2>1, <3>1
         DEF StatusAgrees, HasChallenge, HasProof, HasOffer, HasOpenOffer
  <2>3. CASE x # r
    BY <1>3, <1>a, <2>1, <2>3 DEF PublishRequest, TypeOK, StatusAgrees, HasChallenge,
                           HasProof, HasOffer, HasOpenOffer
  <2>4. QED
    BY <2>2, <2>3
<1>4. ASSUME NEW b \in Borrower, NEW r \in RequestId, WithdrawRequest(b, r)
      PROVE  StatusAgrees(x)'
  <2>1. HasChallenge(x)' <=> HasChallenge(x)
    BY <1>4 DEF WithdrawRequest, WithdrawPendingChallenges, TypeOK, ChallengeRow,
                HasChallenge, Exists
  <2>2. HasProof(x)' <=> HasProof(x)
    BY <1>4 DEF WithdrawRequest, MayWithdrawRequest, HasProof
  <2>3. HasOffer(x)' <=> HasOffer(x)
    BY <1>4 DEF WithdrawRequest, WithdrawOpenOffers, TypeOK, OfferRow, HasOffer, Exists
  <2>4. HasOpenOffer(x)' <=> HasOpenOffer(x) /\ x # r
    BY <1>4 DEF WithdrawRequest, WithdrawOpenOffers, TypeOK, OfferRow, HasOpenOffer
  <2>5. requests'[x].status = IF x = r THEN "withdrawn" ELSE requests[x].status
    BY <1>4 DEF WithdrawRequest, Negotiable, Live, TypeOK, Exists, RequestRow
  <2>6. QED
    BY <1>a, <2>1, <2>2, <2>3, <2>4, <2>5 DEF StatusAgrees
<1>5. ASSUME NEW b \in Borrower, NEW p \in ProofId, NEW c \in ChallengeId,
             NEW sound \in BOOLEAN, NEW e \in Expiry, SubmitProof(b, p, c, sound, e)
      PROVE  StatusAgrees(x)'
  <2> DEFINE r == challenges[c].request
  <2>1. challenges[c] \in ChallengeRow /\ r \in RequestId
    BY <1>5 DEF SubmitProof, MaySubmitProof, TypeOK, ChallengeRow
  <2>2. HasChallenge(x)' <=> HasChallenge(x)
    BY <1>5, <2>1 DEF SubmitProof, TypeOK, ChallengeRow, HasChallenge, Exists
  <2>3. HasProof(x)' <=> HasProof(x) \/ x = r
    BY <1>5, <2>1 DEF SubmitProof, MaySubmitProof, Unused, TypeOK, HasProof, Exists
  <2>4. UNCHANGED offers
    BY <1>5 DEF SubmitProof, MaySubmitProof
  <2>5. requests'[x].status =
          IF x = r THEN AfterProof(requests[x].status) ELSE requests[x].status
    BY <1>5, <2>1 DEF SubmitProof, MaySubmitProof, Live, TypeOK, Exists, RequestRow
  <2>6. QED
    BY <1>a, <1>b, <2>2, <2>3, <2>4, <2>5
       DEF StatusAgrees, HasOffer, HasOpenOffer, AfterProof
<1>6. ASSUME NEW b \in Borrower, NEW o \in OfferId, NEW n \in LoanId,
             AcceptOffer(b, o, n)
      PROVE  StatusAgrees(x)'
  <2> DEFINE r == offers[o].request
  <2>1. offers[o] \in OfferRow /\ r \in RequestId
    BY <1>6 DEF AcceptOffer, MayAcceptOffer, TypeOK, OfferRow
  <2>2. UNCHANGED <<challenges, proofs>>
    BY <1>6 DEF AcceptOffer, MayAcceptOffer
  <2>3. HasOffer(x)' <=> HasOffer(x)
    BY <1>6, <2>1 DEF AcceptOffer, SettleOffers, TypeOK, OfferRow, HasOffer, Exists
  <2>4. HasOpenOffer(x)' <=> HasOpenOffer(x) /\ x # r
    BY <1>6, <2>1 DEF AcceptOffer, SettleOffers, TypeOK, OfferRow, HasOpenOffer
  <2>5. requests'[x].status = IF x = r THEN "accepted" ELSE requests[x].status
    BY <1>6, <2>1 DEF AcceptOffer, Negotiable, Live, TypeOK, Exists, RequestRow
  <2>6. QED
    BY <1>a, <2>2, <2>3, <2>4, <2>5 DEF StatusAgrees, HasChallenge, HasProof
<1>7. ASSUME NEW l \in Lender, NEW c \in ChallengeId, NEW r \in RequestId,
             NEW y \in Policy, NEW v \in Validity, CreateChallenge(l, c, r, y, v)
      PROVE  StatusAgrees(x)'
  <2>1. UNCHANGED <<proofs, offers>>
    BY <1>7 DEF CreateChallenge
  <2>2. HasChallenge(x)' <=> HasChallenge(x) \/ x = r
    BY <1>7 DEF CreateChallenge, Unused, TypeOK, HasChallenge, Exists
  <2>3. requests'[x].status =
          IF x = r THEN AfterChallenge(requests[x].status) ELSE requests[x].status
    BY <1>7 DEF CreateChallenge, Negotiable, Live, TypeOK, Exists, RequestRow
  <2>4. QED
    BY <1>a, <1>b, <2>1, <2>2, <2>3
       DEF StatusAgrees, HasProof, HasOffer, HasOpenOffer, AfterChallenge
<1>8. ASSUME NEW l \in Lender, NEW c \in ChallengeId, WithdrawChallenge(l, c)
      PROVE  StatusAgrees(x)'
  <2>1. HasChallenge(x)' <=> HasChallenge(x)
    BY <1>8 DEF WithdrawChallenge, Withdrawable, TypeOK, ChallengeRow, HasChallenge,
                Exists
  <2>2. QED
    BY <1>8, <1>a, <2>1
       DEF WithdrawChallenge, StatusAgrees, HasProof, HasOffer, HasOpenOffer
<1>9. ASSUME NEW l \in Lender, NEW o \in OfferId, NEW p \in ProofId,
             CreateOffer(l, o, p)
      PROVE  StatusAgrees(x)'
  <2> DEFINE r == proofs[p].request
  <2>1. r \in RequestId
    BY <1>9 DEF CreateOffer, TypeOK, Exists, ProofRow
  <2>2. UNCHANGED <<challenges, proofs>>
    BY <1>9 DEF CreateOffer
  <2>3. x # r => (HasOffer(x)' <=> HasOffer(x))
    BY <1>9, <2>1 DEF CreateOffer, Unused, TypeOK, HasOffer, Exists
  <2>4. HasOpenOffer(x)' <=> HasOpenOffer(x) \/ x = r
    BY <1>9, <2>1 DEF CreateOffer, Unused, TypeOK, HasOpenOffer
  <2>5. requests'[x].status = IF x = r THEN "funded" ELSE requests[x].status
    BY <1>9, <2>1 DEF CreateOffer, Negotiable, Live, TypeOK, Exists, RequestRow
  <2>6. QED
    BY <1>a, <2>2, <2>3, <2>4, <2>5 DEF StatusAgrees, HasChallenge, HasProof
<1>10. ASSUME NEW k \in CallId, FinishVerify(k) PROVE StatusAgrees(x)'
  <2>1. HasProof(x)' <=> HasProof(x)
    BY <1>10 DEF FinishVerify, TypeOK, Call, ProofRow, HasProof, Exists
  <2>2. QED
    BY <1>10, <1>a, <2>1
       DEF FinishVerify, StatusAgrees, HasChallenge, HasOffer, HasOpenOffer
<1>11. QED
  BY <1>1, <1>2, <1>3, <1>4, <1>5, <1>6, <1>7, <1>8, <1>9, <1>10, StatusWriters

LEMMA LoanWriters ==
  ASSUME TypeOK, [Next]_vars
  PROVE  \/ UNCHANGED <<requests, offers, loans>>
         \/ EraseState
         \/ \E b \in Borrower, r \in RequestId, w \in Passport : PublishRequest(b, r, w)
         \/ \E b \in Borrower, r \in RequestId : WithdrawRequest(b, r)
         \/ \E b \in Borrower, p \in ProofId, c \in ChallengeId,
               sound \in BOOLEAN, e \in Expiry : SubmitProof(b, p, c, sound, e)
         \/ \E b \in Borrower, o \in OfferId, n \in LoanId : AcceptOffer(b, o, n)
         \/ \E l \in Lender, c \in ChallengeId, r \in RequestId, y \in Policy,
               v \in Validity : CreateChallenge(l, c, r, y, v)
         \/ \E l \in Lender, o \in OfferId, p \in ProofId : CreateOffer(l, o, p)
         \/ \E n \in LoanId, status \in {"active", "repayment_due", "repaid"} :
               loans[n] \in LoanRow /\ SetLoan(n, status)
<1>1. ASSUME NEW b \in Borrower, NEW n \in LoanId, DrawLoan(b, n)
      PROVE  loans[n] \in LoanRow /\ SetLoan(n, "active")
  BY <1>1 DEF DrawLoan, MayDrawLoan, TypeOK
<1>2. ASSUME NEW b \in Borrower, NEW n \in LoanId, RepayLoan(b, n)
      PROVE  loans[n] \in LoanRow /\ SetLoan(n, "repaid")
  BY <1>2 DEF RepayLoan, MayRepayLoan, Repayable, TypeOK
<1>3. ASSUME NEW l \in Lender, NEW n \in LoanId, MarkRepaymentDue(l, n)
      PROVE  loans[n] \in LoanRow /\ SetLoan(n, "repayment_due")
  BY <1>3 DEF MarkRepaymentDue, TypeOK
<1>4. QED
  BY <1>1, <1>2, <1>3
     DEF Next, RequestRoutes, ChallengeRoutes, ReceiptRoute, VerifyRoute,
         OfferRoutes, PayoutRoute, LoanRoutes, ServerStep, vars, tables, CreateSession,
         WithdrawChallenge, BeginVerify, AnnouncePayout, FinishVerify, Reset,
         Restart, Tick

(* What OneLoanPerRequest says of one loan, and of one offer.              *)
LoanRests(n) ==
  LET o == loans[n].offer IN
  /\ offers[o].status = "accepted"
  /\ offers[o].request = loans[n].request
  /\ requests[loans[n].request].status = "accepted"
HasLoan(o) == \E n \in LoanId : Exists(loans[n]) /\ loans[n].offer = o

LEMMA LoanIsLent ==
  OneLoanPerRequest <=>
    /\ \A n \in LoanId : Exists(loans[n]) => LoanRests(n)
    /\ \A o \in OfferId : offers[o].status = "accepted" => HasLoan(o)
    /\ \A n, m \in LoanId :
         Exists(loans[n]) /\ Exists(loans[m]) /\ loans[n].request = loans[m].request
           => n = m
  BY DEF OneLoanPerRequest, LoanRests, HasLoan

(* A step that leaves the loans and the accepted rows as they are.         *)
LEMMA LoansUndisturbed ==
  ASSUME TypeOK, OneLoanPerRequest,
         \A n \in LoanId :
           /\ Exists(loans'[n]) <=> Exists(loans[n])
           /\ Exists(loans[n]) => /\ loans'[n].request = loans[n].request
                                  /\ loans'[n].offer = loans[n].offer,
         \A r \in RequestId :
           requests[r].status = "accepted" => requests'[r].status = "accepted",
         \A o \in OfferId :
           /\ offers'[o].status = "accepted" <=> offers[o].status = "accepted"
           /\ offers[o].status = "accepted" => offers'[o].request = offers[o].request
  PROVE  OneLoanPerRequest'
<1>1. ASSUME NEW n \in LoanId, Exists(loans'[n])
      PROVE  /\ offers'[loans'[n].offer].status = "accepted"
             /\ offers'[loans'[n].offer].request = loans'[n].request
             /\ requests'[loans'[n].request].status = "accepted"
  <2>1. loans[n] \in LoanRow
    BY <1>1 DEF TypeOK, Exists
  <2>2. LoanRests(n)
    BY <1>1, LoanIsLent
  <2>3. QED
    BY <1>1, <2>1, <2>2 DEF LoanRests, LoanRow
<1>2. ASSUME NEW o \in OfferId, offers'[o].status = "accepted"
      PROVE  \E n \in LoanId : Exists(loans'[n]) /\ loans'[n].offer = o
  BY <1>2, LoanIsLent DEF HasLoan
<1>3. ASSUME NEW n \in LoanId, NEW m \in LoanId, Exists(loans'[n]), Exists(loans'[m]),
             loans'[n].request = loans'[m].request
      PROVE  n = m
  BY <1>3 DEF OneLoanPerRequest
<1>4. QED
  BY <1>1, <1>2, <1>3 DEF OneLoanPerRequest

LEMMA OneLoanStep ==
  ASSUME TypeOK, Links, OneLoanPerRequest, [Next]_vars
  PROVE  OneLoanPerRequest'
<1>1. CASE UNCHANGED <<requests, offers, loans>>
  BY <1>1 DEF OneLoanPerRequest
<1>2. CASE EraseState
  BY <1>2 DEF EraseState, Erase, TypeOK, OneLoanPerRequest, Exists
<1>3. ASSUME NEW b \in Borrower, NEW r \in RequestId, NEW w \in Passport,
             PublishRequest(b, r, w)
      PROVE  OneLoanPerRequest'
  BY <1>3, LoansUndisturbed DEF PublishRequest, MayPublishRequest, Unused, TypeOK
<1>4. ASSUME NEW b \in Borrower, NEW r \in RequestId, WithdrawRequest(b, r)
      PROVE  OneLoanPerRequest'
  <2>1. \A o \in OfferId :
          /\ offers'[o].status = "accepted" <=> offers[o].status = "accepted"
          /\ offers[o].status = "accepted" => offers'[o].request = offers[o].request
    BY <1>4 DEF WithdrawRequest, MayWithdrawRequest, WithdrawOpenOffers, TypeOK, OfferRow
  <2>2. QED
    BY <1>4, <2>1, LoansUndisturbed DEF WithdrawRequest, MayWithdrawRequest, Negotiable,
       TypeOK
<1>5. ASSUME NEW b \in Borrower, NEW p \in ProofId, NEW c \in ChallengeId,
             NEW sound \in BOOLEAN, NEW e \in Expiry, SubmitProof(b, p, c, sound, e)
      PROVE  OneLoanPerRequest'
  <2>1. \A r \in RequestId :
          requests[r].status = "accepted" => requests'[r].status = "accepted"
    BY <1>5 DEF SubmitProof, MaySubmitProof, AfterProof, TypeOK, RequestRow, ChallengeRow
  <2>2. QED
    BY <1>5, <2>1, LoansUndisturbed DEF SubmitProof, MaySubmitProof
<1>6. ASSUME NEW l \in Lender, NEW c \in ChallengeId, NEW r \in RequestId,
             NEW y \in Policy, NEW v \in Validity, CreateChallenge(l, c, r, y, v)
      PROVE  OneLoanPerRequest'
  <2>1. \A x \in RequestId :
          requests[x].status = "accepted" => requests'[x].status = "accepted"
    BY <1>6 DEF CreateChallenge, Negotiable, TypeOK
  <2>2. QED
    BY <1>6, <2>1, LoansUndisturbed DEF CreateChallenge
<1>7. ASSUME NEW l \in Lender, NEW o \in OfferId, NEW p \in ProofId,
             CreateOffer(l, o, p)
      PROVE  OneLoanPerRequest'
  <2>1. \A x \in RequestId :
          requests[x].status = "accepted" => requests'[x].status = "accepted"
    BY <1>7 DEF CreateOffer, Negotiable, TypeOK
  <2>2. \A x \in OfferId :
          /\ offers'[x].status = "accepted" <=> offers[x].status = "accepted"
          /\ offers[x].status = "accepted" => offers'[x].request = offers[x].request
    BY <1>7 DEF CreateOffer, Unused, TypeOK
  <2>3. QED
    BY <1>7, <2>1, <2>2, LoansUndisturbed DEF CreateOffer
<1>8. ASSUME NEW n \in LoanId, NEW status \in {"active", "repayment_due", "repaid"},
             loans[n] \in LoanRow, SetLoan(n, status)
      PROVE  OneLoanPerRequest'
  <2>1. \A m \in LoanId :
          /\ Exists(loans'[m]) <=> Exists(loans[m])
          /\ Exists(loans[m]) => /\ loans'[m].request = loans[m].request
                                 /\ loans'[m].offer = loans[m].offer
    BY <1>8 DEF SetLoan, TypeOK, LoanRow, Exists
  <2>2. QED
    BY <1>8, <2>1, LoansUndisturbed DEF SetLoan
<1>9. ASSUME NEW b \in Borrower, NEW o \in OfferId, NEW n \in LoanId,
             AcceptOffer(b, o, n)
      PROVE  OneLoanPerRequest'
  <2> DEFINE r == offers[o].request
  <2>1. offers[o] \in OfferRow /\ r \in RequestId /\ offers[o].status = "open"
    BY <1>9 DEF AcceptOffer, MayAcceptOffer, TypeOK, OfferRow
  <2>2. \A x \in OfferId :
          /\ offers'[x].status = "accepted" <=> x = o \/ offers[x].status = "accepted"
          /\ offers[x].status \in {"open", "accepted"} =>
               offers'[x].request = offers[x].request
    BY <1>9, <2>1 DEF AcceptOffer, MayAcceptOffer, SettleOffers, TypeOK, OfferRow
  <2>3. \A x \in RequestId :
          requests[x].status = "accepted" \/ x = r => requests'[x].status = "accepted"
    BY <1>9, <2>1 DEF AcceptOffer, Negotiable, TypeOK, Live, Exists, RequestRow
  <2>4. /\ ~Exists(loans[n]) /\ Exists(loans'[n])
        /\ loans'[n].request = r /\ loans'[n].offer = o
        /\ \A m \in LoanId : m # n => loans'[m] = loans[m]
    BY <1>9 DEF AcceptOffer, MayAcceptOffer, Unused, TypeOK, Exists
  <2>5. requests[r].status # "accepted"
    BY <1>9 DEF AcceptOffer, MayAcceptOffer, Negotiable
  <2>6. ASSUME NEW m \in LoanId, Exists(loans[m])
        PROVE  /\ loans[m].request \in RequestId /\ loans[m].offer \in OfferId
               /\ loans[m].request # r
               /\ LoanRests(m)
    BY <2>5, <2>6, LoanIsLent DEF TypeOK, LoanRow, LoanRests, Exists
  <2>7. ASSUME NEW m \in LoanId, Exists(loans'[m]) PROVE LoanRests(m)'
    BY <2>1, <2>2, <2>3, <2>4, <2>6, <2>7 DEF LoanRests
  <2>8. ASSUME NEW x \in OfferId, offers'[x].status = "accepted" PROVE HasLoan(x)'
    BY <2>2, <2>4, <2>8, LoanIsLent DEF HasLoan
  <2>9. ASSUME NEW i \in LoanId, NEW m \in LoanId, Exists(loans'[i]), Exists(loans'[m]),
               loans'[i].request = loans'[m].request
        PROVE  i = m
    BY <2>4, <2>6, <2>9 DEF OneLoanPerRequest
  <2>10. QED
    BY <2>7, <2>8, <2>9 DEF OneLoanPerRequest, LoanRests, HasLoan
<1>10. QED
  BY <1>1, <1>2, <1>3, <1>4, <1>5, <1>6, <1>7, <1>8, <1>9, LoanWriters

-----------------------------------------------------------------------------
(* The order a request passes its statuses in.                             *)

LEMMA RankOf ==
  /\ Rank["none"] = 0 /\ Rank["open"] = 1 /\ Rank["challenged"] = 2
  /\ Rank["proven"] = 3 /\ Rank["funded"] = 4 /\ Rank["accepted"] = 5
  /\ Rank["withdrawn"] = 5 /\ Rank["wiped"] = 6
  BY DEF Rank

Forward(r) ==
  /\ Rank[requests'[r].status] >= Rank[requests[r].status]
  /\ requests[r].status \in {"accepted", "withdrawn"} =>
       requests'[r] \in {requests[r], Wiped}

LEMMA ForwardStep ==
  ASSUME TypeOK, Links, [Next]_vars, NEW x \in RequestId
  PROVE  Forward(x)
<1> DEFINE old == requests[x].status
<1>a. old \in {"none", "open", "challenged", "proven", "funded", "accepted",
               "withdrawn", "wiped"}
  BY DEF TypeOK, RequestRow
<1>b. Rank[old] \in 0 .. 6
  BY <1>a, RankOf
<1>1. CASE requests'[x] = requests[x]
  BY <1>1, <1>b DEF Forward
<1>2. CASE EraseState
  BY <1>2, <1>a, RankOf DEF EraseState, Erase, TypeOK, Forward
<1>3. ASSUME NEW b \in Borrower, NEW r \in RequestId, NEW w \in Passport,
             PublishRequest(b, r, w)
      PROVE  Forward(x)
  <2>1. CASE x = r
    <3>1. old = "none" /\ requests'[x].status = "open"
      BY <1>3, <2>1 DEF PublishRequest, MayPublishRequest, Unused, TypeOK
    <3>2. QED
      BY <3>1, RankOf DEF Forward
  <2>2. CASE x # r
    BY <1>1, <1>3, <2>2 DEF PublishRequest, MayPublishRequest, TypeOK
  <2>3. QED
    BY <2>1, <2>2
<1>4. ASSUME NEW r \in RequestId, requests[r] \in RequestRow, NEW status,
             requests' = [requests EXCEPT ![r].status = status],
             requests[r].status \notin {"accepted", "withdrawn"}
                => Rank[status] >= Rank[requests[r].status],
             requests[r].status \in {"accepted", "withdrawn"}
                => status = requests[r].status
      PROVE  Forward(x)
  <2>1. CASE x = r
    <3>1. requests'[x] = [requests[x] EXCEPT !.status = status]
      BY <1>4, <2>1 DEF TypeOK
    <3>2. requests'[x].status = status
      BY <1>4, <2>1, <3>1 DEF RequestRow
    <3>3. CASE old \in {"accepted", "withdrawn"}
      <4>1. requests'[x] = requests[x]
        BY <1>4, <2>1, <3>1, <3>3 DEF RequestRow
      <4>2. QED
        BY <1>1, <4>1
    <3>4. CASE old \notin {"accepted", "withdrawn"}
      BY <1>4, <2>1, <3>2, <3>4 DEF Forward
    <3>5. QED
      BY <3>3, <3>4
  <2>2. CASE x # r
    BY <1>1, <1>4, <2>2 DEF TypeOK
  <2>3. QED
    BY <2>1, <2>2
<1>5. ASSUME NEW b \in Borrower, NEW r \in RequestId, WithdrawRequest(b, r)
      PROVE  Forward(x)
  <2>1. requests[r] \in RequestRow
    BY <1>5 DEF WithdrawRequest, MayWithdrawRequest, Negotiable, Live, TypeOK, Exists
  <2>2. Rank["withdrawn"] >= Rank[requests[r].status]
    BY <2>1, RankOf DEF RequestRow
  <2>3. QED
    BY <1>4, <1>5, <2>1, <2>2 DEF WithdrawRequest, MayWithdrawRequest, Negotiable, Live
<1>6. ASSUME NEW b \in Borrower, NEW p \in ProofId, NEW c \in ChallengeId,
             NEW sound \in BOOLEAN, NEW e \in Expiry, SubmitProof(b, p, c, sound, e)
      PROVE  Forward(x)
  <2> DEFINE r == challenges[c].request
             new == AfterProof(requests[r].status)
  <2>1. r \in RequestId
    BY <1>6 DEF SubmitProof, MaySubmitProof, TypeOK, ChallengeRow
  <2>2. requests[r] \in RequestRow
    BY <1>6, <2>1 DEF SubmitProof, MaySubmitProof, Live, TypeOK, Exists
  <2>3. Rank[new] >= Rank[requests[r].status]
    BY <2>2, RankOf DEF RequestRow, AfterProof
  <2>4. requests[r].status \in {"accepted", "withdrawn"} => new = requests[r].status
    BY DEF AfterProof
  <2>5. requests' = [requests EXCEPT ![r].status = new]
    BY <1>6, <2>1 DEF SubmitProof, MaySubmitProof, TypeOK
  <2>6. QED
    BY <1>4, <2>1, <2>2, <2>3, <2>4, <2>5
<1>7. ASSUME NEW b \in Borrower, NEW o \in OfferId, NEW n \in LoanId,
             AcceptOffer(b, o, n)
      PROVE  Forward(x)
  <2> DEFINE r == offers[o].request
  <2>1. r \in RequestId
    BY <1>7 DEF AcceptOffer, MayAcceptOffer, TypeOK, OfferRow
  <2>2. requests[r] \in RequestRow
    BY <1>7, <2>1 DEF AcceptOffer, MayAcceptOffer, Negotiable, Live, TypeOK, Exists
  <2>3. Rank["accepted"] >= Rank[requests[r].status]
    BY <2>2, RankOf DEF RequestRow
  <2>4. QED
    BY <1>4, <1>7, <2>1, <2>2, <2>3 DEF AcceptOffer, MayAcceptOffer, Negotiable, Live
<1>8. ASSUME NEW l \in Lender, NEW c \in ChallengeId, NEW r \in RequestId,
             NEW y \in Policy, NEW v \in Validity, CreateChallenge(l, c, r, y, v)
      PROVE  Forward(x)
  <2> DEFINE new == AfterChallenge(requests[r].status)
  <2>1. requests[r] \in RequestRow
    BY <1>8 DEF CreateChallenge, Negotiable, Live, TypeOK, Exists
  <2>2. Rank[new] >= Rank[requests[r].status]
    BY <2>1, RankOf DEF RequestRow, AfterChallenge
  <2>3. requests' = [requests EXCEPT ![r].status = new]
    BY <1>8 DEF CreateChallenge, TypeOK
  <2>4. QED
    BY <1>4, <1>8, <2>1, <2>2, <2>3 DEF CreateChallenge, Negotiable, Live
<1>9. ASSUME NEW l \in Lender, NEW o \in OfferId, NEW p \in ProofId,
             CreateOffer(l, o, p)
      PROVE  Forward(x)
  <2> DEFINE r == proofs[p].request
  <2>1. r \in RequestId
    BY <1>9 DEF CreateOffer, TypeOK, Exists, ProofRow
  <2>2. requests[r] \in RequestRow
    BY <1>9, <2>1 DEF CreateOffer, Negotiable, Live, TypeOK, Exists
  <2>3. requests[r].status \notin {"accepted", "withdrawn"}
    BY <1>9 DEF CreateOffer, Negotiable, Live
  <2>4. Rank["funded"] >= Rank[requests[r].status]
    BY <2>2, <2>3, RankOf DEF RequestRow
  <2>5. QED
    BY <1>4, <1>9, <2>1, <2>2, <2>3, <2>4 DEF CreateOffer
<1>10. QED
  BY <1>1, <1>2, <1>3, <1>5, <1>6, <1>7, <1>8, <1>9, LoanWriters DEF SetLoan

-----------------------------------------------------------------------------
(* The refinement of CreditLifecycle.                                      *)

(* A wiped session is never a party again.                                 *)
SessionsGone == parties \cap retired = {}

LEMMA SessionsGoneStep == SessionsGone /\ [Next]_vars => SessionsGone'
  BY DEF SessionsGone, Next, RequestRoutes, ChallengeRoutes, ReceiptRoute, VerifyRoute,
         OfferRoutes, PayoutRoute, LoanRoutes, ServerStep, vars, tables,
         CreateSession, PublishRequest, WithdrawRequest, AcceptOffer, DrawLoan,
         RepayLoan, SetLoan, SubmitProof, CreateChallenge, WithdrawChallenge,
         BeginVerify, CreateOffer, MarkRepaymentDue, AnnouncePayout, FinishVerify,
         Reset, Restart, Tick, EraseState

(* The stage of a request is its loan's, if it has one, and its own word's *)
(* otherwise: it has one loan at most, so CHOOSE has no choice.            *)
StageIsOne(r) ==
  /\ LoansOn(r) = {} => StageOf(r) = RequestStage[requests[r].status]
  /\ \A n \in LoanId : Exists(loans[n]) /\ loans[n].request = r =>
       StageOf(r) = LoanStage[loans[n].status]
  /\ requests[r].status # "accepted" => LoansOn(r) = {}

LEMMA StageIs == OneLoanPerRequest => \A r \in RequestId : StageIsOne(r)
<1> SUFFICES ASSUME OneLoanPerRequest, NEW r \in RequestId PROVE StageIsOne(r)
  OBVIOUS
<1>1. LoansOn(r) = {} => StageOf(r) = RequestStage[requests[r].status]
  BY DEF StageOf
<1>2. ASSUME NEW n \in LoanId, Exists(loans[n]), loans[n].request = r
      PROVE  StageOf(r) = LoanStage[loans[n].status]
  <2>1. LoansOn(r) = {n}
    BY <1>2 DEF LoansOn, OneLoanPerRequest
  <2>2. (CHOOSE m \in LoansOn(r) : TRUE) = n
    BY <2>1
  <2>3. QED
    BY <2>1, <2>2 DEF StageOf
<1>3. requests[r].status # "accepted" => LoansOn(r) = {}
  BY DEF LoansOn, OneLoanPerRequest
<1>4. QED
  BY <1>1, <1>2, <1>3 DEF StageIsOne

LEMMA StageIsNext ==
  ASSUME OneLoanPerRequest', NEW n \in LoanId, NEW r \in RequestId,
         Exists(loans'[n]), loans'[n].request = r
  PROVE  StageOf(r)' = LoanStage[loans'[n].status]
<1>1. LoansOn(r)' = {n}
  BY DEF LoansOn, OneLoanPerRequest
<1>2. (CHOOSE m \in LoansOn(r)' : TRUE) = n
  BY <1>1
<1>3. QED
  BY <1>1, <1>2 DEF StageOf

LEMMA StageValues ==
  /\ RequestStage["none"] = "none" /\ RequestStage["wiped"] = "forgotten"
  /\ RequestStage["withdrawn"] = "closed"
  /\ \A s \in {"open", "challenged", "proven", "funded", "accepted"} :
       RequestStage[s] = "listed"
  /\ LoanStage["funded"] = "lent" /\ LoanStage["active"] = "drawn"
  /\ LoanStage["repayment_due"] = "due" /\ LoanStage["repaid"] = "repaid"
  BY DEF RequestStage, LoanStage

(* The stage of a request whose loans and whose place in the order do not  *)
(* change.                                                                 *)
LEMMA StageSame ==
  ASSUME NEW x \in RequestId, UNCHANGED loans,
         RequestStage[requests'[x].status] = RequestStage[requests[x].status]
  PROVE  StageOf(x)' = StageOf(x)
  BY DEF StageOf, LoansOn

IsBacked(r) == Backing(r) # {}

(* A nullifier is never held by a receipt that was not submitted yet.      *)
LEMMA NoClaimBeforeReceipt ==
  ASSUME TypeOK, Links, Receipts, SessionsGone, NEW b \in Borrower, NEW p \in ProofId,
         NEW c \in ChallengeId, NEW sound \in BOOLEAN, NEW e \in Expiry,
         SubmitProof(b, p, c, sound, e)
  PROVE  nullifiers[NullifierOf(p)'] # p
<1> DEFINE n == NullifierOf(p)'
           r == challenges[c].request
<1>1. challenges[c] \in ChallengeRow /\ Exists(challenges[c]) /\ r \in RequestId
  BY DEF SubmitProof, MaySubmitProof, TypeOK, ChallengeRow, Exists
<1>2. /\ proofs'[p].request = r /\ proofs'[p].challenge = c
      /\ challenges'[c].policy = challenges[c].policy
      /\ challenges'[c].lender = challenges[c].lender
  BY <1>1 DEF SubmitProof, MaySubmitProof, TypeOK, ChallengeRow
<1>3. requests[r] \in RequestRow /\ requests'[r].passport = requests[r].passport
  BY <1>1 DEF SubmitProof, MaySubmitProof, Live, Exists, TypeOK, RequestRow
<1>4. n = <<requests[r].passport, challenges[c].policy, challenges[c].lender>>
  BY <1>2, <1>3 DEF NullifierOf, PassportOf
<1>5. n \in Nullifier /\ n[3] \in parties
  BY <1>1, <1>3, <1>4
     DEF Nullifier, RequestRow, ChallengeRow, Links, ChallengesLinked
<1>6. ~Exists(proofs[p]) /\ p # NoProof
  BY NoProofAssumption DEF SubmitProof, MaySubmitProof, Unused, TypeOK, Exists
<1>7. ASSUME nullifiers[n] = p PROVE FALSE
  <2>1. n[3] \in retired
    BY <1>5, <1>6, <1>7 DEF Receipts, NoStrandedNullifier
  <2>2. QED
    BY <1>5, <2>1 DEF SessionsGone
<1>8. QED
  BY <1>7

(* Who is backed changes by a finished verification only, which can only   *)
(* back the request of the receipt it verified.                            *)
LEMMA BackedStep ==
  ASSUME TypeOK, Links, Receipts, SessionsGone, [Next]_vars, ~EraseState,
         NEW x \in RequestId
  PROVE  /\ IsBacked(x) => IsBacked(x)'
         /\ IsBacked(x)' =>
              \/ IsBacked(x)
              \/ \E k \in CallId : /\ FinishVerify(k)
                                   /\ Exists(proofs[verifying[k].proof])
                                   /\ x = proofs[verifying[k].proof].request
<1>a. RowsStay
  BY KeptOrErased
<1>1. ASSUME NEW p \in ProofId, p \in Backing(x) PROVE p \in Backing(x)'
  <2>1. /\ Exists(proofs[p]) /\ proofs[p].request = x /\ Eligible(p)
        /\ nullifiers[NullifierOf(p)] = p
    BY <1>1 DEF Backing, ProofsOn
  <2>2. nullifiers'[NullifierOf(p)] = p
    BY <2>1, ClaimsKept, ReceiptType, NoProofAssumption DEF Receipts
  <2>3. QED
    BY <1>a, <2>1, <2>2, ReceiptFixed DEF Backing, ProofsOn
<1>2. ASSUME NEW p \in ProofId, p \in Backing(x)', p \notin Backing(x)
      PROVE  \E k \in CallId : /\ FinishVerify(k)
                               /\ Exists(proofs[verifying[k].proof])
                               /\ x = proofs[verifying[k].proof].request
  <2>1. /\ Exists(proofs'[p]) /\ proofs'[p].request = x /\ Eligible(p)'
        /\ nullifiers'[NullifierOf(p)'] = p
    BY <1>2 DEF Backing, ProofsOn
  <2>2. Exists(proofs[p])
    <3>1. ASSUME ~Exists(proofs[p]) PROVE FALSE
      <4>1. ~ \E k \in CallId : FinishVerify(k)
        BY <2>1, <3>1 DEF FinishVerify, Exists, TypeOK
      <4>2. PICK b \in Borrower, q \in ProofId, c \in ChallengeId,
                 sound \in BOOLEAN, e \in Expiry : SubmitProof(b, q, c, sound, e)
        BY <2>1, <3>1, <4>1, ProofWriters
      <4>3. q = p
        BY <2>1, <3>1, <4>2 DEF SubmitProof, MaySubmitProof, TypeOK
      <4>4. nullifiers' = nullifiers
        BY <4>2 DEF SubmitProof, MaySubmitProof
      <4>5. QED
        BY <2>1, <4>2, <4>3, <4>4, NoClaimBeforeReceipt
    <3>2. QED
      BY <3>1
  <2>3. /\ proofs[p].request = x /\ Eligible(p) /\ NullifierOf(p)' = NullifierOf(p)
        /\ NullifierOf(p) \in Nullifier
    BY <1>a, <2>1, <2>2, ReceiptFixed, ReceiptType
  <2>4. nullifiers[NullifierOf(p)] # p
    BY <1>2, <2>2, <2>3 DEF Backing, ProofsOn
  <2>5. PICK k \in CallId : FinishVerify(k)
    BY <2>1, <2>3, <2>4, NullifierWriters
  <2>6. p = verifying[k].proof
    BY <2>1, <2>3, <2>4, <2>5, FinishEffect DEF Receipts
  <2>7. QED
    BY <2>2, <2>3, <2>5, <2>6
<1>3. QED
  BY <1>1, <1>2 DEF IsBacked, Backing, ProofsOn

(* One step of the lifecycle, from what happens to each stage.             *)
LEMMA MoveIs ==
  ASSUME NEW r \in RequestId, NEW from, NEW to, StageOf(r) \in from, StageOf(r)' = to,
         \A x \in RequestId : x # r => StageOf(x)' = StageOf(x),
         \A x \in RequestId : IsBacked(x)' <=> IsBacked(x)
  PROVE  Lifecycle!Move(r, from, to)
  BY DEF Lifecycle!Move, IsBacked

LEMMA StutterIs ==
  ASSUME \A x \in RequestId : StageOf(x)' = StageOf(x),
         \A x \in RequestId : IsBacked(x)' <=> IsBacked(x)
  PROVE  UNCHANGED Lifecycle!lifecycleVars
  BY DEF Lifecycle!lifecycleVars, IsBacked

LEMMA BackIs ==
  ASSUME NEW r \in RequestId, StageOf(r) \notin {"none", "forgotten"},
         \A x \in RequestId : StageOf(x)' = StageOf(x),
         \A x \in RequestId : IsBacked(x)' <=> IsBacked(x) \/ x = r
  PROVE  Lifecycle!Back(r)
  BY DEF Lifecycle!Back, IsBacked

LEMMA ForgetIs ==
  ASSUME \A x \in RequestId :
           StageOf(x)' = IF StageOf(x) = "none" THEN "none" ELSE "forgotten",
         \A x \in RequestId : ~IsBacked(x)'
  PROVE  Lifecycle!Forget
  BY DEF Lifecycle!Forget, IsBacked

(* What a draw, a due mark or a repayment does to the stages.              *)
LEMMA LoanStageStep ==
  ASSUME TypeOK, OneLoanPerRequest, OneLoanPerRequest', NEW n \in LoanId,
         NEW status \in {"active", "repayment_due", "repaid"}, loans[n] \in LoanRow,
         SetLoan(n, status)
  PROVE  \E r \in RequestId :
         /\ StageOf(r) = LoanStage[loans[n].status]
         /\ StageOf(r)' = LoanStage[status]
         /\ \A x \in RequestId : x # r => StageOf(x)' = StageOf(x)
<1>1. PICK r \in RequestId : r = loans[n].request /\ Exists(loans[n])
  BY DEF LoanRow, Exists
<1>2. StageOf(r) = LoanStage[loans[n].status]
  BY <1>1, StageIs DEF StageIsOne
<1>3. /\ loans'[n].request = r /\ loans'[n].status = status /\ Exists(loans'[n])
      /\ \A m \in LoanId : m # n => loans'[m] = loans[m]
  BY <1>1 DEF SetLoan, TypeOK, LoanRow, Exists
<1>4. StageOf(r)' = LoanStage[status]
  BY <1>3, StageIsNext
<1>5. ASSUME NEW x \in RequestId, x # r PROVE StageOf(x)' = StageOf(x)
  <2>1. LoansOn(x)' = LoansOn(x) /\ n \notin LoansOn(x)
    BY <1>1, <1>3, <1>5 DEF LoansOn
  <2>2. LoansOn(x) # {} => (CHOOSE m \in LoansOn(x) : TRUE) \in LoansOn(x)
    OBVIOUS
  <2>3. \A m \in LoansOn(x) : loans'[m] = loans[m]
    BY <1>3, <2>1 DEF LoansOn
  <2>4. requests' = requests
    BY DEF SetLoan
  <2>5. QED
    BY <2>1, <2>2, <2>3, <2>4 DEF StageOf
<1>6. QED
  BY <1>1, <1>2, <1>4, <1>5

(* Whoever accepts lends once, and only on a checked receipt.              *)
LEMMA LendStep ==
  ASSUME TypeOK, Links, Receipts, OneLoanPerRequest, OneLoanPerRequest',
         NEW b \in Borrower, NEW o \in OfferId, NEW n \in LoanId, AcceptOffer(b, o, n)
  PROVE  \E r \in RequestId :
         /\ StageOf(r) = "listed" /\ StageOf(r)' = "lent" /\ IsBacked(r)
         /\ \A x \in RequestId : x # r => StageOf(x)' = StageOf(x)
<1>1. PICK r \in RequestId :
        r = offers[o].request /\ offers[o] \in OfferRow /\ Exists(offers[o])
  BY DEF AcceptOffer, MayAcceptOffer, TypeOK, OfferRow, Exists
<1>2. requests[r] \in RequestRow /\ requests[r].status \notin {"accepted", "withdrawn"}
  BY <1>1 DEF AcceptOffer, MayAcceptOffer, Negotiable, Live, TypeOK, Exists
<1>3. StageOf(r) = "listed"
  BY <1>1, <1>2, StageIs, StageValues DEF StageIsOne, RequestRow
<1>4. /\ Exists(loans'[n]) /\ loans'[n].request = r /\ loans'[n].status = "funded"
      /\ ~Exists(loans[n])
      /\ \A m \in LoanId : m # n => loans'[m] = loans[m]
  BY <1>1 DEF AcceptOffer, MayAcceptOffer, Unused, TypeOK, Exists
<1>5. StageOf(r)' = "lent"
  BY <1>4, StageIsNext, StageValues
<1>6. IsBacked(r)
  BY <1>1 DEF Receipts, OfferRestsOnReceipt, IsBacked, Backing, ProofsOn, OfferRow
<1>7. ASSUME NEW x \in RequestId, x # r PROVE StageOf(x)' = StageOf(x)
  <2>1. LoansOn(x)' = LoansOn(x) /\ n \notin LoansOn(x)
    BY <1>4, <1>7 DEF LoansOn
  <2>2. LoansOn(x) # {} => (CHOOSE m \in LoansOn(x) : TRUE) \in LoansOn(x)
    OBVIOUS
  <2>3. \A m \in LoansOn(x) : loans'[m] = loans[m]
    BY <1>4, <2>1 DEF LoansOn
  <2>4. requests'[x] = requests[x]
    BY <1>1, <1>7 DEF AcceptOffer, MayAcceptOffer, TypeOK
  <2>5. QED
    BY <2>1, <2>2, <2>3, <2>4 DEF StageOf
<1>8. QED
  BY <1>1, <1>3, <1>5, <1>6, <1>7

LEMMA ForgetStep ==
  ASSUME TypeOK, OneLoanPerRequest, EraseState
  PROVE  Lifecycle!Forget
<1>1. ASSUME NEW x \in RequestId
      PROVE  StageOf(x)' = IF StageOf(x) = "none" THEN "none" ELSE "forgotten"
  <2>1. LoansOn(x)' = {}
    BY DEF EraseState, Erase, TypeOK, LoansOn, Exists
  <2>2. StageOf(x)' = RequestStage[requests'[x].status]
    BY <2>1 DEF StageOf
  <2>3. CASE requests[x] = NoRow
    <3>1. StageOf(x) = "none"
      BY <2>3, StageIs, StageValues DEF StageIsOne
    <3>2. QED
      BY <2>2, <2>3, <3>1, StageValues DEF EraseState, Erase, TypeOK
  <2>4. CASE requests[x] # NoRow
    <3>1. requests'[x] = Wiped
      BY <2>4 DEF EraseState, Erase, TypeOK
    <3>2. StageOf(x) # "none"
      <4>1. CASE LoansOn(x) = {}
        BY <2>4, <4>1, StageIs, StageValues DEF StageIsOne, TypeOK, RequestRow
      <4>2. CASE LoansOn(x) # {}
        <5>1. PICK n \in LoanId : Exists(loans[n]) /\ loans[n].request = x
          BY <4>2 DEF LoansOn
        <5>2. StageOf(x) = LoanStage[loans[n].status] /\ loans[n] \in LoanRow
          BY <5>1, StageIs DEF StageIsOne, TypeOK, Exists
        <5>3. QED
          BY <5>2, StageValues DEF LoanRow
      <4>3. QED
        BY <4>1, <4>2
    <3>3. QED
      BY <2>2, <3>1, <3>2, StageValues
  <2>5. QED
    BY <2>3, <2>4
<1>2. ASSUME NEW x \in RequestId PROVE ~IsBacked(x)'
  BY DEF EraseState, Erase, TypeOK, IsBacked, Backing, ProofsOn, Exists
<1>3. QED
  BY <1>1, <1>2, ForgetIs

LEMMA RefineInit == Init => Lifecycle!Init
<1> SUFFICES ASSUME Init PROVE Lifecycle!Init
  OBVIOUS
<1>1. ASSUME NEW x \in RequestId PROVE StageOf(x) = "none" /\ Backing(x) = {}
  BY StageValues DEF Init, StageOf, LoansOn, Backing, ProofsOn, Exists
<1>2. QED
  BY <1>1 DEF Lifecycle!Init

LEMMA RefineStep ==
  ASSUME TypeOK, Links, Receipts, OneLoanPerRequest, SessionsGone,
         OneLoanPerRequest', [Next]_vars
  PROVE  [Lifecycle!Next]_(Lifecycle!lifecycleVars)
<1> USE DEF Lifecycle!Next
<1>1. CASE EraseState
  BY <1>1, ForgetStep
<1>2. CASE ~EraseState
  <2> DEFINE SameStages == \A x \in RequestId : StageOf(x)' = StageOf(x)
             SameBacked == \A x \in RequestId : IsBacked(x)' <=> IsBacked(x)
  <2>a. ASSUME NEW r \in RequestId, UNCHANGED loans, requests[r] \in RequestRow,
               NEW status \in {"open", "challenged", "proven", "funded"},
               requests[r].status \in {"open", "challenged", "proven", "funded"},
               requests' = [requests EXCEPT ![r].status = status]
        PROVE  SameStages
    <3>1. ASSUME NEW x \in RequestId
          PROVE  RequestStage[requests'[x].status] = RequestStage[requests[x].status]
      BY <2>a, StageValues DEF TypeOK, RequestRow
    <3>2. QED
      BY <2>a, <3>1, StageSame
  <2>b. ASSUME UNCHANGED <<requests, loans>> PROVE SameStages
    BY <2>b, StageSame
  <2>1. CASE \E k \in CallId : FinishVerify(k)
    <3>1. PICK k \in CallId : FinishVerify(k)
      BY <2>1
    <3>2. SameStages
      BY <2>b, <3>1 DEF FinishVerify
    <3>3. CASE SameBacked
      BY <3>2, <3>3, StutterIs
    <3>4. CASE ~SameBacked
      <4>1. PICK x \in RequestId : IsBacked(x)' /\ ~IsBacked(x)
        BY <1>2, <3>4, BackedStep
      <4>2. PICK j \in CallId : /\ FinishVerify(j)
                                /\ Exists(proofs[verifying[j].proof])
                                /\ x = proofs[verifying[j].proof].request
        BY <1>2, <4>1, BackedStep
      <4>3. ASSUME NEW y \in RequestId PROVE IsBacked(y)' <=> IsBacked(y) \/ y = x
        <5>1. ASSUME NEW i \in CallId, FinishVerify(i) PROVE i = j
          BY <4>2, <5>1 DEF FinishVerify, TypeOK, Call
        <5>2. QED
          BY <1>2, <4>1, <4>2, <5>1, BackedStep
      <4>4. StageOf(x) \notin {"none", "forgotten"}
        <5>1. verifying[j].proof \in ProofId
          BY <4>2 DEF FinishVerify, TypeOK, Call
        <5>2. requests[x] \in RequestRow
          BY <4>2, <5>1, ReceiptType
        <5>3. CASE LoansOn(x) = {}
          BY <5>2, <5>3, StageIs, StageValues DEF StageIsOne, RequestRow
        <5>4. CASE LoansOn(x) # {}
          <6>1. PICK n \in LoanId : Exists(loans[n]) /\ loans[n].request = x
            BY <5>4 DEF LoansOn
          <6>2. StageOf(x) = LoanStage[loans[n].status] /\ loans[n] \in LoanRow
            BY <6>1, StageIs DEF StageIsOne, TypeOK, Exists
          <6>3. QED
            BY <6>2, StageValues DEF LoanRow
        <5>5. QED
          BY <5>3, <5>4
      <4>5. Lifecycle!Back(x)
        BY <3>2, <4>3, <4>4, BackIs
      <4>6. QED
        BY <4>5
    <3>5. QED
      BY <3>3, <3>4
  <2>2. CASE ~ \E k \in CallId : FinishVerify(k)
    <3>a. SameBacked
      BY <1>2, <2>2, BackedStep
    <3>b. ASSUME SameStages PROVE [Lifecycle!Next]_(Lifecycle!lifecycleVars)
      BY <3>a, <3>b, StutterIs
    <3>1. ASSUME NEW b \in Borrower, NEW r \in RequestId, NEW w \in Passport,
                 PublishRequest(b, r, w)
          PROVE  Lifecycle!List(r)
      <4>1. /\ requests[r] = NoRow /\ requests'[r].status = "open"
            /\ UNCHANGED loans
            /\ \A x \in RequestId : x # r => requests'[x] = requests[x]
        BY <3>1 DEF PublishRequest, MayPublishRequest, Unused, TypeOK
      <4>2. LoansOn(r) = {} /\ StageOf(r) = "none"
        BY <4>1, StageIs, StageValues DEF StageIsOne
      <4>3. StageOf(r)' = "listed"
        BY <4>1, <4>2, StageValues DEF StageOf, LoansOn
      <4>4. \A x \in RequestId : x # r => StageOf(x)' = StageOf(x)
        BY <4>1, StageSame
      <4>5. QED
        BY <3>a, <4>2, <4>3, <4>4, MoveIs DEF Lifecycle!List
    <3>2. ASSUME NEW b \in Borrower, NEW r \in RequestId, WithdrawRequest(b, r)
          PROVE  Lifecycle!Close(r)
      <4>1. requests[r] \in RequestRow
        BY <3>2 DEF WithdrawRequest, MayWithdrawRequest, Negotiable, Live, TypeOK, Exists
      <4>2. /\ requests[r].status \notin {"accepted", "withdrawn"}
            /\ requests'[r].status = "withdrawn"
            /\ UNCHANGED loans
            /\ \A x \in RequestId : x # r => requests'[x] = requests[x]
        BY <3>2, <4>1 DEF WithdrawRequest, MayWithdrawRequest, Negotiable, Live, TypeOK,
           RequestRow
      <4>3. LoansOn(r) = {} /\ StageOf(r) = "listed"
        BY <4>1, <4>2, StageIs, StageValues DEF StageIsOne, RequestRow
      <4>4. StageOf(r)' = "closed"
        BY <4>2, <4>3, StageValues DEF StageOf, LoansOn
      <4>5. \A x \in RequestId : x # r => StageOf(x)' = StageOf(x)
        BY <4>2, StageSame
      <4>6. QED
        BY <3>a, <4>3, <4>4, <4>5, MoveIs DEF Lifecycle!Close
    <3>3. ASSUME NEW b \in Borrower, NEW p \in ProofId, NEW c \in ChallengeId,
                 NEW sound \in BOOLEAN, NEW e \in Expiry, SubmitProof(b, p, c, sound, e)
          PROVE  SameStages
      <4> DEFINE r == challenges[c].request
      <4>1. r \in RequestId
        BY <3>3 DEF SubmitProof, MaySubmitProof, TypeOK, ChallengeRow
      <4>2. requests[r] \in RequestRow
        BY <3>3, <4>1 DEF SubmitProof, MaySubmitProof, Live, TypeOK, Exists
      <4>3. requests' = [requests EXCEPT ![r].status = AfterProof(requests[r].status)]
        BY <3>3, <4>1 DEF SubmitProof, MaySubmitProof, TypeOK
      <4>4. CASE requests[r].status \in {"open", "challenged", "proven", "funded"}
        BY <2>a, <3>3, <4>1, <4>2, <4>3, <4>4 DEF SubmitProof, MaySubmitProof, AfterProof
      <4>5. CASE requests[r].status \in {"accepted", "withdrawn"}
        <5>1. requests' = requests
          BY <4>2, <4>3, <4>5 DEF AfterProof, TypeOK, RequestRow
        <5>2. QED
          BY <2>b, <3>3, <5>1 DEF SubmitProof, MaySubmitProof
      <4>6. QED
        BY <4>2, <4>4, <4>5 DEF RequestRow
    <3>4. ASSUME NEW l \in Lender, NEW c \in ChallengeId, NEW r \in RequestId,
                 NEW y \in Policy, NEW v \in Validity, CreateChallenge(l, c, r, y, v)
          PROVE  SameStages
      <4>1. requests[r] \in RequestRow
        BY <3>4 DEF CreateChallenge, Negotiable, Live, TypeOK, Exists
      <4>2. requests[r].status \in {"open", "challenged", "proven", "funded"}
        BY <3>4, <4>1 DEF CreateChallenge, Negotiable, Live, RequestRow
      <4>3. requests' =
              [requests EXCEPT ![r].status = AfterChallenge(requests[r].status)]
        BY <3>4 DEF CreateChallenge, TypeOK
      <4>4. QED
        BY <2>a, <3>4, <4>1, <4>2, <4>3 DEF CreateChallenge, AfterChallenge
    <3>5. ASSUME NEW l \in Lender, NEW o \in OfferId, NEW p \in ProofId,
                 CreateOffer(l, o, p)
          PROVE  SameStages
      <4> DEFINE r == proofs[p].request
      <4>1. r \in RequestId
        BY <3>5 DEF CreateOffer, TypeOK, Exists, ProofRow
      <4>2. requests[r] \in RequestRow
        BY <3>5, <4>1 DEF CreateOffer, Negotiable, Live, TypeOK, Exists
      <4>3. requests[r].status \in {"open", "challenged", "proven", "funded"}
        BY <3>5, <4>2 DEF CreateOffer, Negotiable, Live, RequestRow
      <4>4. QED
        BY <2>a, <3>5, <4>1, <4>2, <4>3 DEF CreateOffer
    <3>6. ASSUME NEW b \in Borrower, NEW o \in OfferId, NEW n \in LoanId,
                 AcceptOffer(b, o, n)
          PROVE  Lifecycle!Next
      <4>1. PICK r \in RequestId :
              /\ StageOf(r) = "listed" /\ StageOf(r)' = "lent" /\ IsBacked(r)
              /\ \A x \in RequestId : x # r => StageOf(x)' = StageOf(x)
        BY <3>6, LendStep
      <4>2. Lifecycle!Lend(r)
        BY <3>a, <4>1, MoveIs DEF Lifecycle!Lend, IsBacked
      <4>3. QED
        BY <4>2
    <3>7. ASSUME NEW b \in Borrower, NEW n \in LoanId, DrawLoan(b, n)
          PROVE  Lifecycle!Next
      <4>1. loans[n] \in LoanRow /\ loans[n].status = "funded" /\ SetLoan(n, "active")
        BY <3>7 DEF DrawLoan, MayDrawLoan, TypeOK
      <4>2. PICK r \in RequestId :
              /\ StageOf(r) \in {"lent"} /\ StageOf(r)' = "drawn"
              /\ \A x \in RequestId : x # r => StageOf(x)' = StageOf(x)
        BY <4>1, LoanStageStep, StageValues
      <4>3. Lifecycle!Draw(r)
        BY <3>a, <4>2, MoveIs DEF Lifecycle!Draw
      <4>4. QED
        BY <4>3
    <3>8. ASSUME NEW l \in Lender, NEW n \in LoanId, MarkRepaymentDue(l, n)
          PROVE  Lifecycle!Next
      <4>1. /\ loans[n] \in LoanRow /\ loans[n].status = "active"
            /\ SetLoan(n, "repayment_due")
        BY <3>8 DEF MarkRepaymentDue, TypeOK
      <4>2. PICK r \in RequestId :
              /\ StageOf(r) \in {"drawn"} /\ StageOf(r)' = "due"
              /\ \A x \in RequestId : x # r => StageOf(x)' = StageOf(x)
        BY <4>1, LoanStageStep, StageValues
      <4>3. Lifecycle!CallDue(r)
        BY <3>a, <4>2, MoveIs DEF Lifecycle!CallDue
      <4>4. QED
        BY <4>3
    <3>9. ASSUME NEW b \in Borrower, NEW n \in LoanId, RepayLoan(b, n)
          PROVE  Lifecycle!Next
      <4>1. /\ loans[n] \in LoanRow /\ loans[n].status \in {"active", "repayment_due"}
            /\ SetLoan(n, "repaid")
        BY <3>9 DEF RepayLoan, MayRepayLoan, Repayable, TypeOK
      <4>2. PICK r \in RequestId :
              /\ StageOf(r) \in {"drawn", "due"} /\ StageOf(r)' = "repaid"
              /\ \A x \in RequestId : x # r => StageOf(x)' = StageOf(x)
        BY <4>1, LoanStageStep, StageValues
      <4>3. Lifecycle!Repay(r)
        BY <3>a, <4>2, MoveIs DEF Lifecycle!Repay
      <4>4. QED
        BY <4>3
    <3>10. CASE UNCHANGED <<requests, loans>>
      BY <2>b, <3>b, <3>10
    <3>11. QED
      BY <1>2, <2>2, <3>b, <3>1, <3>2, <3>3, <3>4, <3>5, <3>6, <3>7, <3>8, <3>9, <3>10
         DEF Next, RequestRoutes, ChallengeRoutes, ReceiptRoute, VerifyRoute,
             OfferRoutes, PayoutRoute, LoanRoutes, ServerStep, vars, tables, CreateSession,
             WithdrawChallenge, BeginVerify, AnnouncePayout, Reset, Restart, Tick
  <2>3. QED
    BY <2>1, <2>2
<1>3. QED
  BY <1>1, <1>2

-----------------------------------------------------------------------------
(* Theorems.                                                               *)

(* Every table of the store holds well-formed rows only, in every reachable *)
(* state: ids of rows that exist, statuses the code knows.                 *)
THEOREM TypeCorrect == Spec => []TypeOK
<1>1. Init => TypeOK /\ Links
  BY TypeInit, LinksInit
<1>2. TypeOK /\ Links /\ [Next]_vars => (TypeOK /\ Links)'
  BY TypeStep, LinksStep
<1>3. QED
  BY <1>1, <1>2, PTL DEF Spec

(* A submitted proof answers a challenge of its own request that no lender *)
(* can withdraw any more (submitProof, withdrawChallenge).                 *)
THEOREM ProofsAnswer == Spec => []ProofsAnswerTheirChallenge
<1>1. Init => TypeOK /\ Links
  BY TypeInit, LinksInit
<1>2. TypeOK /\ Links /\ [Next]_vars => (TypeOK /\ Links)'
  BY TypeStep, LinksStep
<1>3. Links => ProofsAnswerTheirChallenge
  BY DEF Links
<1>4. QED
  BY <1>1, <1>2, <1>3, PTL DEF Spec

(* The invariant the receipts need: every verification in flight still     *)
(* describes its receipt, or its receipt was wiped with its lender.        *)
THEOREM ReceiptsHold == Spec => [](TypeOK /\ Links /\ Receipts)
<1>1. Init => TypeOK /\ Links /\ Receipts
  BY TypeInit, LinksInit, ReceiptsInit
<1>2. TypeOK /\ Links /\ Receipts /\ [Next]_vars => (TypeOK /\ Links /\ Receipts)'
  BY TypeStep, LinksStep, ReceiptsStep
<1>3. QED
  BY <1>1, <1>2, PTL DEF Spec

(* Two verified receipts never share a nullifier (the verify handler and   *)
(* claimNullifier, across the await of the pairing check).                 *)
THEOREM ReplayGuard == Spec => []VerifiedOwnsNullifier
<1>1. Receipts => VerifiedOwnsNullifier
  BY DEF Receipts
<1>2. QED
  BY <1>1, ReceiptsHold, PTL

(* An offer rests, for as long as it exists, on a sound, eligible receipt  *)
(* that holds its nullifier (createOffer after the verify handler).        *)
THEOREM OffersRest == Spec => []OfferRestsOnReceipt
<1>1. Receipts => OfferRestsOnReceipt
  BY DEF Receipts
<1>2. QED
  BY <1>1, ReceiptsHold, PTL

(* A claim made after the store was wiped under a waiting verification     *)
(* names a lender whose session is gone (emptyState, claimNullifier).      *)
THEOREM NoneStranded == Spec => []NoStrandedNullifier
<1>1. Receipts => NoStrandedNullifier
  BY DEF Receipts
<1>2. QED
  BY <1>1, ReceiptsHold, PTL

(* claimNullifier: while the store lives a claim is never taken over.      *)
THEOREM FirstClaimHolds == Spec => FirstClaimWins
<1> DEFINE Stays ==
      \A n \in Nullifier : nullifiers[n] # NoProof =>
        \/ nullifiers'[n] = nullifiers[n]
        \/ parties' = {} /\ \A p \in ProofId : ~Exists(proofs'[p])
<1>1. TypeOK /\ Links /\ Receipts /\ [Next]_vars => [Stays]_vars
  <2> SUFFICES ASSUME TypeOK, Links, Receipts, [Next]_vars PROVE Stays
    OBVIOUS
  <2>1. CASE EraseState
    BY <2>1 DEF EraseState, Erase, TypeOK, Exists
  <2>2. CASE ~EraseState
    BY <2>2, ClaimsKept DEF Receipts
  <2>3. QED
    BY <2>1, <2>2
<1>2. QED
  BY <1>1, ReceiptsHold, PTL DEF Spec, FirstClaimWins

(* The word a request carries agrees with its challenges, receipts and     *)
(* offers, whichever handlers wrote them and in whatever order.            *)
THEOREM StatusMeans == Spec => []StatusMeaning
<1>1. Init => StatusMeaning
  BY StatusInit
<1>2. TypeOK /\ Links /\ Receipts /\ StatusMeaning /\ [Next]_vars => StatusMeaning'
  BY StatusStep DEF Receipts
<1>3. QED
  BY <1>1, <1>2, ReceiptsHold, PTL DEF Spec

(* acceptOffer lends once per request, against the one accepted offer.     *)
THEOREM LentOnce == Spec => []OneLoanPerRequest
<1>1. Init => OneLoanPerRequest
  BY StatusInit
<1>2. TypeOK /\ Links /\ OneLoanPerRequest /\ [Next]_vars => OneLoanPerRequest'
  BY OneLoanStep
<1>3. QED
  BY <1>1, <1>2, ReceiptsHold, PTL DEF Spec

(* No handler moves a request backwards, and accepted and withdrawn are    *)
(* final (AfterChallenge, AfterProof, Negotiable).                         *)
THEOREM NeverBackwards == Spec => LifecycleForward
<1> DEFINE AllForward ==
      \A r \in RequestId :
        /\ Rank[requests'[r].status] >= Rank[requests[r].status]
        /\ requests[r].status \in {"accepted", "withdrawn"} =>
             requests'[r] \in {requests[r], Wiped}
<1>1. TypeOK /\ Links /\ [Next]_vars => AllForward
  BY ForwardStep DEF Forward
<1>2. TypeOK /\ Links /\ Receipts /\ [Next]_vars => [AllForward]_vars
  BY <1>1
<1>3. QED
  BY <1>2, ReceiptsHold, PTL DEF Spec, LifecycleForward

(* Marketplace implements CreditLifecycle: a credit is listed, backed,     *)
(* lent at most once and only when backed, drawn, called due and repaid,   *)
(* whatever rows, claims and waiting verifications lie underneath.         *)
THEOREM Implements == Spec => ImplementsCreditLifecycle
<1>1. Init => Lifecycle!Init /\ SessionsGone
  BY RefineInit DEF Init, SessionsGone
<1>2. SessionsGone /\ [Next]_vars => SessionsGone'
  BY SessionsGoneStep
<1>3. TypeOK /\ Links /\ Receipts /\ OneLoanPerRequest /\ SessionsGone
        /\ OneLoanPerRequest' /\ [Next]_vars
        => [Lifecycle!Next]_(Lifecycle!lifecycleVars)
  BY RefineStep
<1>4. QED
  BY <1>1, <1>2, <1>3, ReceiptsHold, LentOnce, PTL
     DEF Spec, ImplementsCreditLifecycle, Lifecycle!Spec

=============================================================================
