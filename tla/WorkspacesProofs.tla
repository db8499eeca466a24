-------------------------- MODULE WorkspacesProofs --------------------------
(***************************************************************************)
(* Theorems about the workspaces, for any number of sessions, rows, calls  *)
(* under way, portfolio reads, reloads and lost answers.                   *)
(*                                                                         *)
(* Every step of a tab is a step of Marketplace or leaves the rows alone   *)
(* (TabsTakeSteps), so the invariants proved of the store hold under the   *)
(* tabs too; with every party signed in, nothing wipes it.  On top of them *)
(* the tabs need what a row that was decided says about the others         *)
(* (Decided), and that a projection only ever falls behind (ViewIsPast).   *)
(***************************************************************************)
EXTENDS Workspaces, MarketplaceProofs, WellFoundedInduction

-----------------------------------------------------------------------------
(* Choosing among rows.                                                    *)

LEMMA LeastExists ==
  ASSUME NEW S, S \subseteq Nat, S # {}
  PROVE  \E d \in S : \A e \in S : d <= e
<1> DEFINE R == {p \in Nat \X Nat : p[1] < p[2]}
<1>a. IsWellFoundedOn(R, Nat)
  BY NatLessThanWellFounded DEF OpToRel
<1>1. PICK d \in S : \A e \in S : ~ (<<e, d>> \in R)
  <2> HIDE DEF R
  <2> QED
    BY <1>a, WFMin
<1>2. ASSUME NEW e \in S PROVE d <= e
  <2>1. e \in Nat /\ d \in Nat
    OBVIOUS
  <2>2. ~ (<<e, d>>[1] < <<e, d>>[2])
    BY <1>1, <2>1
  <2> HIDE DEF R
  <2> QED
    BY <2>1, <2>2
<1>3. QED
  BY <1>2

LEMMA GreatestExists ==
  ASSUME NEW S, S \subseteq Nat, S # {}, NEW top \in Nat, \A x \in S : x <= top
  PROVE  \E d \in S : \A e \in S : e <= d
<1> DEFINE T == {top - x : x \in S}
<1>1. T \subseteq Nat /\ T # {}
  <2>1. \A x \in S : top - x \in Nat
    OBVIOUS
  <2>2. PICK x \in S : TRUE
    OBVIOUS
  <2>3. QED
    BY <2>1, <2>2
<1>2. PICK t \in T : \A e \in T : t <= e
  <2> HIDE DEF T
  <2> QED
    BY <1>1, LeastExists
<1>3. PICK d \in S : t = top - d
  BY <1>2
<1>4. ASSUME NEW e \in S PROVE e <= d
  <2>1. t <= top - e
    BY <1>2
  <2>2. e \in Nat /\ d \in Nat
    OBVIOUS
  <2>3. QED
    BY <1>3, <2>1, <2>2
<1>5. QED
  BY <1>4

LEMMA FirstIs ==
  ASSUME NEW ids, ids \subseteq Nat
  PROVE  /\ ids = {} => FirstOf(ids) = None
         /\ ids # {} => FirstOf(ids) \in ids /\ FirstOf(ids) # None
<1>1. ASSUME ids # {} PROVE FirstOf(ids) \in ids
  <2>1. \E x \in ids : \A y \in ids : x <= y
    BY <1>1, LeastExists
  <2>2. QED
    BY <1>1, <2>1 DEF FirstOf
<1>2. QED
  BY <1>1, WorkspacesAssumption DEF FirstOf

Dated(ids, table) == ids \subseteq Nat /\ \A x \in ids : table[x].createdAt \in Time

LEMMA NewestIs ==
  ASSUME NEW ids, NEW table, Dated(ids, table)
  PROVE  /\ ids = {} => Newest(ids, table) = None
         /\ ids # {} => Newest(ids, table) \in ids /\ Newest(ids, table) # None
<1>1. ASSUME ids # {} PROVE Newest(ids, table) \in ids
  <2> DEFINE times == {table[x].createdAt : x \in ids}
  <2>1. times \subseteq Nat /\ times # {} /\ \A t \in times : t <= MaxClock
    <3>1. \A x \in ids : table[x].createdAt \in Nat /\ table[x].createdAt <= MaxClock
      BY ClockAssumption DEF Time, Dated
    <3>2. PICK x \in ids : TRUE
      BY <1>1
    <3>3. QED
      BY <3>1, <3>2
  <2>2. PICK t \in times : \A u \in times : u <= t
    <3> HIDE DEF times
    <3> QED
      BY <2>1, ClockAssumption, GreatestExists
  <2> DEFINE latest == {x \in ids : table[x].createdAt = t}
  <2>3. latest \subseteq Nat /\ latest # {}
    BY <2>2 DEF Dated
  <2>4. PICK x \in latest : \A y \in latest : x <= y
    <3> HIDE DEF latest
    <3> QED
      BY <2>3, LeastExists
  <2>5. ASSUME NEW y \in ids
        PROVE  \/ table[x].createdAt > table[y].createdAt
               \/ table[x].createdAt = table[y].createdAt /\ x <= y
    <3>1. table[y].createdAt <= t /\ table[x].createdAt = t
      BY <2>2, <2>4
    <3>2. t \in Nat /\ table[y].createdAt \in Nat
      BY <2>1
    <3>3. CASE table[y].createdAt = t
      BY <2>4, <3>1, <3>3
    <3>4. CASE table[y].createdAt # t
      BY <3>1, <3>2, <3>4
    <3>5. QED
      BY <3>3, <3>4
  <2>6. QED
    BY <1>1, <2>5 DEF Newest
<1>2. QED
  BY <1>1, WorkspacesAssumption DEF Newest, Dated

-----------------------------------------------------------------------------
(* What a projection shows.                                                *)

Typed(v) ==
  /\ v.requests \in [RequestId -> RequestRow \cup Blank]
  /\ v.challenges \in [ChallengeId -> ChallengeRow \cup Blank]
  /\ v.proofs \in [ProofId -> ProofRow \cup Blank]
  /\ v.offers \in [OfferId -> OfferRow \cup Blank]
  /\ v.loans \in [LoanId -> LoanRow \cup Blank]

LEMMA ViewsAreTyped ==
  /\ WorkspacesTypeOK => Typed(view)
  /\ TypeOK => Typed(Projection)
  BY DEF WorkspacesTypeOK, TypeOK, Typed, Projection

LEMMA ProjectionIs ==
  /\ Projection.requests = requests /\ Projection.challenges = challenges
  /\ Projection.proofs = proofs /\ Projection.offers = offers /\ Projection.loans = loans
  BY DEF Projection

LEMMA RowExists ==
  ASSUME NEW Row, NEW row \in Row \cup Blank, Exists(row)
  PROVE  row \in Row
  BY DEF Exists, Blank, NoRow, Wiped

LEMMA MyRequestIs ==
  ASSUME NEW v, Typed(v), MyRequest(v) # None
  PROVE  /\ MyRequest(v) \in RequestId
         /\ v.requests[MyRequest(v)] \in RequestRow
         /\ v.requests[MyRequest(v)].status # "withdrawn"
         /\ v.requests[MyRequest(v)].borrower = Applicant
<1> DEFINE ids == {r \in Kept(v.requests, "withdrawn") : v.requests[r].borrower = Applicant}
<1>1. ids \subseteq RequestId /\ \A r \in ids : v.requests[r] \in RequestRow
  BY RowExists DEF Typed, Kept
<1>2. MyRequest(v) \in ids
  <2>1. MyRequest(v) = Newest(ids, v.requests)
    BY DEF MyRequest
  <2>2. Dated(ids, v.requests)
    BY <1>1, WorkspacesAssumption DEF RequestRow, Dated
  <2> HIDE DEF ids
  <2>3. QED
    BY <2>1, <2>2, NewestIs
<1>3. QED
  BY <1>1, <1>2 DEF Kept

LEMMA ChallengeShownIs ==
  ASSUME NEW v, Typed(v), ChallengeShown(v) # None
  PROVE  /\ ChallengeShown(v) \in ChallengeId
         /\ v.challenges[ChallengeShown(v)] \in ChallengeRow
         /\ v.challenges[ChallengeShown(v)].status # "withdrawn"
         /\ v.challenges[ChallengeShown(v)].request = MyRequest(v)
<1> DEFINE ids == {c \in Kept(v.challenges, "withdrawn") :
                     v.challenges[c].request = MyRequest(v)}
<1>1. ids \subseteq ChallengeId /\ \A c \in ids : v.challenges[c] \in ChallengeRow
  BY RowExists DEF Typed, Kept
<1>2. ChallengeShown(v) \in ids
  <2>1. ChallengeShown(v) = Newest(ids, v.challenges)
    BY DEF ChallengeShown
  <2>2. Dated(ids, v.challenges)
    BY <1>1, WorkspacesAssumption DEF ChallengeRow, Dated
  <2> HIDE DEF ids
  <2>3. QED
    BY <2>1, <2>2, NewestIs
<1>3. QED
  BY <1>1, <1>2 DEF Kept

LEMMA LoanShownIs ==
  ASSUME NEW v, Typed(v)
  PROVE  /\ LoanShown(v) = None <=>
              ~ \E n \in LoanId : Exists(v.loans[n]) /\ v.loans[n].request = MyRequest(v)
         /\ LoanShown(v) # None =>
              /\ LoanShown(v) \in LoanId
              /\ v.loans[LoanShown(v)] \in LoanRow
              /\ v.loans[LoanShown(v)].request = MyRequest(v)
<1> DEFINE ids == {n \in DOMAIN v.loans :
                     Exists(v.loans[n]) /\ v.loans[n].request = MyRequest(v)}
<1>1. ids \subseteq LoanId /\ \A n \in ids : v.loans[n] \in LoanRow
  BY RowExists DEF Typed
<1>2. /\ ids = {} => LoanShown(v) = None
      /\ ids # {} => LoanShown(v) \in ids /\ LoanShown(v) # None
  <2>1. LoanShown(v) = FirstOf(ids)
    BY DEF LoanShown
  <2>2. ids \subseteq Nat
    BY <1>1, WorkspacesAssumption
  <2> HIDE DEF ids
  <2>3. QED
    BY <2>1, <2>2, FirstIs
<1>3. DOMAIN v.loans = LoanId
  BY DEF Typed
<1>4. QED
  BY <1>1, <1>2, <1>3

LEMMA OffersShownAre ==
  ASSUME NEW v, Typed(v), NEW o \in OffersShown(v)
  PROVE  /\ o \in OfferId /\ v.offers[o] \in OfferRow
         /\ v.offers[o].status \in {"open", "accepted"}
         /\ v.offers[o].request = MyRequest(v) /\ MyRequest(v) # None
<1>1. o \in OfferId /\ v.offers[o] \in OfferRow
  BY DEF OffersShown, Typed, Blank, NoRow, Wiped
<1>2. QED
  BY <1>1, WorkspacesAssumption DEF OffersShown, OfferRow

LEMMA NextIdIs ==
  ASSUME NEW D, D \subseteq Nat, NEW Row, NEW t \in [D -> Row]
  PROVE  /\ Unused(t) # {} => NextId(t) \in Unused(t)
         /\ Unused(t) \subseteq D
<1>1. Unused(t) \subseteq D
  BY DEF Unused
<1>2. Unused(t) \subseteq Nat
  BY <1>1
<1>3. QED
  BY <1>1, <1>2, FirstIs DEF NextId

-----------------------------------------------------------------------------
(* A lender's tab: what it shows are rows that exist.                      *)

(* Receipts come one at a time, so there is always a greatest id.          *)
ProofsBounded == \E top \in Nat : \A p \in ProofId : Exists(proofs[p]) => p <= top

LEMMA OwnChallengesAre ==
  ASSUME TypeOK, NEW l
  PROVE  /\ Dated(OwnChallenges(l), challenges)
         /\ \A c \in OwnChallenges(l) :
              /\ c \in ChallengeId /\ Exists(challenges[c])
              /\ challenges[c].lender = l /\ challenges[c].request \in RequestId
<1>1. \A c \in OwnChallenges(l) :
        /\ c \in ChallengeId /\ Exists(challenges[c]) /\ challenges[c].lender = l
  BY DEF OwnChallenges, Kept, TypeOK
<1>2. \A c \in OwnChallenges(l) : challenges[c] \in ChallengeRow
  BY <1>1, RowExists DEF TypeOK
<1>3. QED
  BY <1>1, <1>2, WorkspacesAssumption DEF Dated, ChallengeRow

LEMMA RequestShownIs ==
  ASSUME TypeOK, WorkspacesTypeOK, NEW l \in Lender, RequestShown(l) # None
  PROVE  RequestShown(l) \in RequestId
<1>1. ASSUME Landing(l) # None PROVE Landing(l) \in RequestId
  <2>1. Newest(OwnChallenges(l), challenges) # None
    BY <1>1 DEF Landing
  <2>2. Newest(OwnChallenges(l), challenges) \in OwnChallenges(l)
    BY <2>1, OwnChallengesAre, NewestIs
  <2>3. QED
    BY <2>1, <2>2, OwnChallengesAre DEF Landing
<1>2. picked[l] \in RequestId \cup {None}
  BY DEF WorkspacesTypeOK
<1>3. QED
  BY <1>1, <1>2 DEF RequestShown

LEMMA LenderChallengeIs ==
  ASSUME TypeOK, NEW l, LenderChallenge(l) # None
  PROVE  LenderChallenge(l) \in OwnChallenges(l)
<1> DEFINE ids == {c \in OwnChallenges(l) : challenges[c].request = RequestShown(l)}
<1>1. LenderChallenge(l) = Newest(ids, challenges)
  BY DEF LenderChallenge
<1>2. Dated(ids, challenges)
  BY OwnChallengesAre DEF Dated
<1>3. ids \subseteq OwnChallenges(l)
  OBVIOUS
<1> HIDE DEF ids
<1>4. QED
  BY <1>1, <1>2, <1>3, NewestIs

LEMMA LenderProofIs ==
  ASSUME TypeOK, ProofsBounded, NEW l, LenderProof(l) # None
  PROVE  /\ LenderProof(l) \in ProofId /\ Exists(proofs[LenderProof(l)])
         /\ proofs[LenderProof(l)].challenge \in OwnChallenges(l)
<1> DEFINE c == LenderChallenge(l)
           on == {p \in ProofId : Exists(proofs[p]) /\ proofs[p].challenge = c}
<1>1. c \in OwnChallenges(l) /\ LenderProof(l) = ProofShown(Projection, c)
  BY LenderChallengeIs DEF LenderProof
<1>2. LenderProof(l) = IF on = {} THEN None ELSE CHOOSE p \in on : \A q \in on : q <= p
  BY <1>1, ProjectionIs DEF ProofShown, TypeOK
<1>3. on \subseteq Nat /\ on # {}
  BY <1>2, WorkspacesAssumption
<1>4. \E p \in on : \A q \in on : q <= p
  <2>1. PICK top \in Nat : \A p \in on : p <= top
    BY DEF ProofsBounded
  <2> HIDE DEF on
  <2>2. QED
    BY <1>3, <2>1, GreatestExists
<1>5. LenderProof(l) \in on
  <2> HIDE DEF on
  <2> QED
    BY <1>2, <1>3, <1>4
<1>6. QED
  BY <1>1, <1>5

-----------------------------------------------------------------------------
(* The store under the tabs.                                               *)

Expiring ==
  \A c \in ChallengeId : Exists(challenges[c]) => challenges[c].expiresAt \in Expiry

(* What a decided row says about the others: a declined offer lost to a    *)
(* loan, a withdrawn one went with its request, an accepted request is     *)
(* lent on.                                                                *)
LentOn(r) == \E n \in LoanId : Exists(loans[n]) /\ loans[n].request = r
Decided ==
  /\ \A o \in OfferId : offers[o].status = "declined" => LentOn(offers[o].request)
  /\ \A o \in OfferId :
       offers[o].status = "withdrawn" => requests[offers[o].request].status = "withdrawn"
  /\ \A r \in RequestId : requests[r].status = "accepted" => LentOn(r)

Server ==
  /\ TypeOK /\ Links /\ Receipts /\ StatusMeaning /\ OneLoanPerRequest
  /\ parties = Session
  /\ Expiring /\ ProofsBounded /\ Decided

LEMMA ServerInit == WorkspacesInit => Server
<1> SUFFICES ASSUME WorkspacesInit PROVE Server
  OBVIOUS
<1>1. TypeOK
  BY ClockAssumption DEF WorkspacesInit, TypeOK, Time, Blank
<1>2. \A id \in RequestId : ~Exists(requests[id])
  BY DEF WorkspacesInit, Exists, NoRow
<1>3. \A id \in ChallengeId : ~Exists(challenges[id])
  BY DEF WorkspacesInit, Exists, NoRow
<1>4. \A id \in ProofId : ~Exists(proofs[id])
  BY DEF WorkspacesInit, Exists, NoRow
<1>5. \A id \in OfferId : ~Exists(offers[id])
  BY DEF WorkspacesInit, Exists, NoRow
<1>6. \A id \in LoanId : ~Exists(loans[id])
  BY DEF WorkspacesInit, Exists, NoRow
<1>7. Links
  BY <1>3, <1>4 DEF Links, ChallengesLinked, ProofsAnswerTheirChallenge
<1>8. Receipts
  BY <1>4, <1>5 DEF WorkspacesInit, Receipts, InFlightKnown, VerifiedWasChecked,
     VerifiedOwnsNullifier, OfferRestsOnReceipt, NoStrandedNullifier, Exists, Idle
<1>9. StatusMeaning
  BY <1>2, <1>3, <1>4, <1>5
     DEF StatusMeaning, ChallengesOn, ProofsOn, OffersOn, HasStatus, Exists
<1>10. OneLoanPerRequest
  BY <1>5, <1>6 DEF OneLoanPerRequest, Exists
<1>11. Decided
  BY <1>2, <1>5 DEF Decided, Exists
<1>12. ProofsBounded
  BY <1>4 DEF ProofsBounded
<1>13. QED
  BY <1>1, <1>3, <1>7, <1>8, <1>9, <1>10, <1>11, <1>12 DEF Server, WorkspacesInit, Expiring

LEMMA NobodyErases ==
  ASSUME Server, parties' = parties
  PROVE  ~EraseState
  BY WorkspacesAssumption DEF Server, EraseState, Session

LEMMA ExpiringStep ==
  ASSUME Server, [Next]_vars, parties' = parties
  PROVE  Expiring'
<1> SUFFICES ASSUME NEW x \in ChallengeId, Exists(challenges'[x])
             PROVE  challenges'[x].expiresAt \in Expiry
  BY DEF Expiring
<1> USE DEF Server, TypeOK, Exists
<1>a. Exists(challenges[x]) => challenges[x].expiresAt \in Expiry
  BY DEF Expiring
<1>1. CASE challenges' = challenges
  BY <1>1, <1>a
<1>2. ASSUME NEW b \in Borrower, NEW r \in RequestId, WithdrawRequest(b, r)
      PROVE  challenges'[x].expiresAt \in Expiry
  BY <1>2, <1>a DEF WithdrawRequest, WithdrawPendingChallenges, ChallengeRow
<1>3. ASSUME NEW b \in Borrower, NEW p \in ProofId, NEW c \in ChallengeId,
             NEW sound \in BOOLEAN, NEW e \in Expiry, SubmitProof(b, p, c, sound, e)
      PROVE  challenges'[x].expiresAt \in Expiry
  BY <1>3, <1>a DEF SubmitProof, MaySubmitProof, ChallengeRow
<1>4. ASSUME NEW l \in Lender, NEW c \in ChallengeId, NEW r \in RequestId,
             NEW y \in Policy, NEW v \in Validity, CreateChallenge(l, c, r, y, v)
      PROVE  challenges'[x].expiresAt \in Expiry
  <2>1. CASE x = c
    <3>1. now + v \in Expiry
      BY WorkspacesAssumption
    <3>2. QED
      BY <1>4, <2>1, <3>1 DEF CreateChallenge
  <2>2. CASE x # c
    BY <1>4, <1>a, <2>2 DEF CreateChallenge
  <2>3. QED
    BY <2>1, <2>2
<1>5. ASSUME NEW l \in Lender, NEW c \in ChallengeId, WithdrawChallenge(l, c)
      PROVE  challenges'[x].expiresAt \in Expiry
  BY <1>5, <1>a DEF WithdrawChallenge, Withdrawable, ChallengeRow
<1>6. QED
  BY <1>1, <1>2, <1>3, <1>4, <1>5, ChallengeWriters, NobodyErases

LEMMA ProofsBoundedStep ==
  ASSUME Server, [Next]_vars, parties' = parties
  PROVE  ProofsBounded'
<1>1. PICK top \in Nat : \A p \in ProofId : Exists(proofs[p]) => p <= top
  BY DEF Server, ProofsBounded
<1>2. ASSUME NEW b \in Borrower, NEW p \in ProofId, NEW c \in ChallengeId,
             NEW sound \in BOOLEAN, NEW e \in Expiry, SubmitProof(b, p, c, sound, e)
      PROVE  ProofsBounded'
  <2>1. p \in Nat /\ ProofId \subseteq Nat
    BY WorkspacesAssumption
  <2>2. \A q \in ProofId : Exists(proofs'[q]) => q = p \/ Exists(proofs[q])
    BY <1>2 DEF SubmitProof, Server, TypeOK
  <2>3. \A q \in ProofId : Exists(proofs'[q]) => q <= top + p
    BY <1>1, <2>1, <2>2
  <2>4. top + p \in Nat
    BY <2>1
  <2>5. QED
    BY <2>3, <2>4 DEF ProofsBounded
<1>3. ASSUME NEW k \in CallId, FinishVerify(k) PROVE ProofsBounded'
  <2>1. \A q \in ProofId : Exists(proofs'[q]) => Exists(proofs[q])
    BY <1>3 DEF FinishVerify, Server, TypeOK
  <2>2. QED
    BY <1>1, <2>1 DEF ProofsBounded
<1>4. CASE proofs' = proofs
  BY <1>1, <1>4 DEF ProofsBounded
<1>5. QED
  BY <1>2, <1>3, <1>4, ProofWriters, NobodyErases

(* Loans stay, with their request.                                         *)
LEMMA LentStays ==
  ASSUME \A n \in LoanId : Exists(loans[n]) =>
           Exists(loans'[n]) /\ loans'[n].request = loans[n].request,
         NEW r, LentOn(r)
  PROVE  LentOn(r)'
  BY DEF LentOn

LEMMA DecidedStep ==
  ASSUME Server, [Next]_vars, parties' = parties
  PROVE  Decided'
<1> USE DEF Server
<1>a. /\ requests \in [RequestId -> RequestRow \cup Blank]
      /\ offers \in [OfferId -> OfferRow \cup Blank]
      /\ loans \in [LoanId -> LoanRow \cup Blank]
      /\ Decided
  BY DEF TypeOK
<1>b. ASSUME NEW o \in OfferId, offers[o].status \in {"open", "accepted", "declined", "withdrawn"}
      PROVE  offers[o] \in OfferRow /\ offers[o].request \in RequestId
  BY <1>a, <1>b DEF Blank, NoRow, Wiped, OfferRow
<1>1. CASE UNCHANGED <<requests, offers, loans>>
  BY <1>1, <1>a DEF Decided, LentOn
<1>2. ASSUME NEW b \in Borrower, NEW r \in RequestId, NEW w \in Passport,
             PublishRequest(b, r, w)
      PROVE  Decided'
  <2>1. /\ UNCHANGED <<offers, loans>> /\ requests'[r].status = "open"
        /\ requests[r].status # "withdrawn"
        /\ \A x \in RequestId : x # r => requests'[x] = requests[x]
    BY <1>2, <1>a DEF PublishRequest, MayPublishRequest, Unused, NoRow
  <2>2. QED
    BY <1>a, <1>b, <2>1 DEF Decided, LentOn
<1>3. ASSUME NEW b \in Borrower, NEW r \in RequestId, WithdrawRequest(b, r)
      PROVE  Decided'
  <2>1. /\ UNCHANGED loans
        /\ requests'[r].status = "withdrawn"
        /\ \A x \in RequestId : x # r => requests'[x] = requests[x]
    BY <1>3, <1>a, RowExists DEF WithdrawRequest, MayWithdrawRequest, Negotiable, Live, RequestRow
  <2>2. \A o \in OfferId :
          \/ offers'[o] = offers[o]
          \/ /\ offers[o].status = "open" /\ offers[o].request = r
             /\ offers'[o].status = "withdrawn" /\ offers'[o].request = r
    BY <1>3, <1>a, <1>b DEF WithdrawRequest, WithdrawOpenOffers, OfferRow
  <2>3. QED
    BY <1>a, <1>b, <2>1, <2>2 DEF Decided, LentOn
<1>4. ASSUME NEW b \in Borrower, NEW p \in ProofId, NEW c \in ChallengeId,
             NEW sound \in BOOLEAN, NEW e \in Expiry, SubmitProof(b, p, c, sound, e)
      PROVE  Decided'
  <2>1. /\ UNCHANGED <<offers, loans>>
        /\ \A x \in RequestId :
             /\ requests'[x].status = "accepted" => requests[x].status = "accepted"
             /\ requests[x].status = "withdrawn" => requests'[x].status = "withdrawn"
    BY <1>4, <1>a DEF SubmitProof, MaySubmitProof, Live, Exists, AfterProof, RequestRow
  <2>2. QED
    BY <1>a, <1>b, <2>1 DEF Decided, LentOn
<1>5. ASSUME NEW b \in Borrower, NEW o \in OfferId, NEW n \in LoanId,
             AcceptOffer(b, o, n)
      PROVE  Decided'
  <2>0. PICK r \in RequestId : r = offers[o].request
    BY <1>5, <1>b DEF AcceptOffer, MayAcceptOffer
  <2>1. requests[r] \in RequestRow /\ requests[r].status \notin {"accepted", "withdrawn"}
    BY <1>5, <1>a, <2>0, RowExists DEF AcceptOffer, MayAcceptOffer, Negotiable, Live
  <2>2. /\ requests'[r].status = "accepted"
        /\ \A x \in RequestId : x # r => requests'[x] = requests[x]
    BY <1>5, <1>a, <2>0, <2>1 DEF AcceptOffer, RequestRow
  <2>3. \A n1 \in LoanId : Exists(loans[n1]) =>
           Exists(loans'[n1]) /\ loans'[n1].request = loans[n1].request
    BY <1>5, <1>a DEF AcceptOffer, MayAcceptOffer, Unused, Exists, NoRow
  <2>4. LentOn(r)'
    <3>1. loans'[n] = [status |-> "funded", request |-> r, offer |-> o]
      BY <1>5, <1>a, <2>0 DEF AcceptOffer
    <3>2. QED
      BY <3>1 DEF LentOn, Exists
  <2>5. \A x \in OfferId :
          \/ offers'[x] = offers[x]
          \/ offers'[x].status = "accepted"
          \/ offers'[x].status = "declined" /\ offers'[x].request = r
    BY <1>5, <1>a, <1>b, <2>0 DEF AcceptOffer, SettleOffers, OfferRow
  <2>6. ASSUME NEW x \in OfferId, offers'[x].status = "declined"
        PROVE  LentOn(offers[x].request)'
    <3>1. CASE offers'[x] = offers[x]
      BY <1>a, <2>3, <2>6, <3>1, LentStays DEF Decided
    <3>2. CASE offers'[x].request = r
      BY <2>4, <3>2 DEF LentOn
    <3>3. QED
      BY <2>5, <2>6, <3>1, <3>2
  <2>7. ASSUME NEW x \in OfferId, offers'[x].status = "withdrawn"
        PROVE  requests'[offers'[x].request].status = "withdrawn"
    <3>1. offers'[x] = offers[x] /\ offers[x].request \in RequestId
      BY <1>b, <2>5, <2>7
    <3>2. QED
      BY <1>a, <2>1, <2>2, <2>7, <3>1 DEF Decided
  <2>8. ASSUME NEW x \in RequestId, requests'[x].status = "accepted"
        PROVE  LentOn(x)'
    BY <1>a, <2>2, <2>3, <2>4, <2>8, LentStays DEF Decided
  <2>9. QED
    BY <2>6, <2>7, <2>8 DEF Decided
<1>6. ASSUME NEW l \in Lender, NEW c \in ChallengeId, NEW r \in RequestId,
             NEW y \in Policy, NEW v \in Validity, CreateChallenge(l, c, r, y, v)
      PROVE  Decided'
  <2>1. /\ UNCHANGED <<offers, loans>>
        /\ \A x \in RequestId :
             /\ requests'[x].status = "accepted" => requests[x].status = "accepted"
             /\ requests[x].status = "withdrawn" => requests'[x].status = "withdrawn"
    BY <1>6, <1>a DEF CreateChallenge, Negotiable, Live, Exists, AfterChallenge, RequestRow
  <2>2. QED
    BY <1>a, <1>b, <2>1 DEF Decided, LentOn
<1>7. ASSUME NEW l \in Lender, NEW o \in OfferId, NEW p \in ProofId,
             CreateOffer(l, o, p)
      PROVE  Decided'
  <2> DEFINE r == proofs[p].request
  <2>1. r \in RequestId /\ requests[r] \in RequestRow
        /\ requests[r].status \notin {"accepted", "withdrawn"}
    <3>1. proofs[p] \in ProofRow
      BY <1>7, RowExists DEF CreateOffer, TypeOK
    <3>2. QED
      BY <1>7, <1>a, <3>1, RowExists DEF CreateOffer, Negotiable, Live, ProofRow
  <2>2. /\ UNCHANGED loans
        /\ requests'[r].status = "funded"
        /\ \A x \in RequestId : x # r => requests'[x] = requests[x]
    BY <1>7, <1>a, <2>1 DEF CreateOffer, RequestRow
  <2>3. \A x \in OfferId : offers'[x] = offers[x] \/ offers'[x].status = "open"
    BY <1>7, <1>a DEF CreateOffer
  <2>4. QED
    BY <1>a, <1>b, <2>1, <2>2, <2>3 DEF Decided, LentOn
<1>8. ASSUME NEW n \in LoanId, NEW status \in {"active", "repayment_due", "repaid"},
             loans[n] \in LoanRow, SetLoan(n, status)
      PROVE  Decided'
  <2>1. \A m \in LoanId : Exists(loans[m]) =>
           Exists(loans'[m]) /\ loans'[m].request = loans[m].request
    BY <1>8, <1>a DEF SetLoan, Exists, LoanRow
  <2>2. UNCHANGED <<requests, offers>>
    BY <1>8 DEF SetLoan
  <2>3. QED
    BY <1>a, <2>1, <2>2, LentStays DEF Decided, LentOn
<1>9. QED
  BY <1>1, <1>2, <1>3, <1>4, <1>5, <1>6, <1>7, <1>8, LoanWriters, NobodyErases

LEMMA ServerKept ==
  ASSUME Server, [Next]_vars, parties' = parties
  PROVE  Server' /\ RowsStay
<1>1. TypeOK' /\ Links' /\ Receipts' /\ OneLoanPerRequest'
  BY TypeStep, LinksStep, ReceiptsStep, OneLoanStep DEF Server
<1>2. StatusMeaning'
  BY StatusStep DEF Server, Receipts
<1>3. Expiring' /\ ProofsBounded' /\ Decided'
  BY ExpiringStep, ProofsBoundedStep, DecidedStep
<1>4. parties' = Session
  BY DEF Server
<1>5. RowsStay
  BY KeptOrErased, NobodyErases DEF Server
<1>6. QED
  BY <1>1, <1>2, <1>3, <1>4, <1>5 DEF Server

-----------------------------------------------------------------------------
(* The applicant's tab: types, and what its calls name.                    *)

USE DEF NoDialog

Names(a) ==
  /\ a.op = "list" => a.passport \in Passport
  /\ a.op = "withdraw" => a.id \in RequestId
  /\ a.op = "accept" => a.id \in OfferId
  /\ a.op \in {"draw", "repay"} => a.id \in LoanId
  /\ a.op = "prove" => a.id \in ChallengeId

Named ==
  /\ dialog # NoDialog => /\ dialog.action.op \in {"list", "accept", "draw", "repay"}
                      /\ Names(dialog.action)
  /\ \A x \in Post : posts[x].op # "idle" => Names(posts[x])

(* A call whose answer the open confirmation is waiting for: there is one  *)
(* at most, and it is about what is being confirmed.                       *)
Asks(x) == posts[x].op # "idle" /\ posts[x].from = "dialog" /\ posts[x].mounted
Asked ==
  /\ \A x \in Post : Asks(x) =>
       /\ dialog # NoDialog /\ dialog.status = "running"
       /\ posts[x].op = dialog.action.op /\ posts[x].id = dialog.action.id
  /\ \A x, y \in Post : Asks(x) /\ Asks(y) => x = y

Tabs == WorkspacesTypeOK /\ Named /\ Asked

LEMMA TabsInit == WorkspacesInit => Tabs
<1> SUFFICES ASSUME WorkspacesInit PROVE Tabs
  OBVIOUS
<1>1. view = Projection /\ Typed(Projection)
  BY ServerInit, ViewsAreTyped DEF WorkspacesInit, Server
<1>2. view \in [requests : [RequestId -> RequestRow \cup Blank],
                challenges : [ChallengeId -> ChallengeRow \cup Blank],
                proofs : [ProofId -> ProofRow \cup Blank],
                offers : [OfferId -> OfferRow \cup Blank],
                loans : [LoanId -> LoanRow \cup Blank]]
  BY <1>1, ProjectionIs DEF Typed, Projection
<1>3. WorkspacesTypeOK
  <2>1. /\ snapshot \in [status : {"empty", "loading", "ready", "error"},
                       held : Passport \cup {None}]
        /\ snapshot.held # None <=> snapshot.status = "ready"
    BY DEF WorkspacesInit, Nothing
  <2>2. /\ reads \in [Read -> Reading \cup {NoRead}]
        /\ posts \in [Post -> Sent \cup {NoPost}]
    BY DEF WorkspacesInit
  <2>3. mounts \in 0 .. MaxMounts
    BY WorkspacesAssumption DEF WorkspacesInit
  <2>4. QED
    BY <1>2, <2>1, <2>2, <2>3 DEF WorkspacesInit, WorkspacesTypeOK
<1>4. Named
  BY DEF WorkspacesInit, Named, NoPost
<1>5. Asked
  BY DEF WorkspacesInit, Asked, Asks, NoPost
<1>6. QED
  BY <1>3, <1>4, <1>5 DEF Tabs

(* The types of the applicant's tab, but for the lenders' picks.           *)
ViewOK ==
  view \in [requests : [RequestId -> RequestRow \cup Blank],
           challenges : [ChallengeId -> ChallengeRow \cup Blank],
           proofs : [ProofId -> ProofRow \cup Blank],
           offers : [OfferId -> OfferRow \cup Blank],
           loans : [LoanId -> LoanRow \cup Blank]]
SnapshotOK ==
  /\ snapshot \in [status : {"empty", "loading", "ready", "error"},
                   held : Passport \cup {None}]
  /\ snapshot.held # None <=> snapshot.status = "ready"
  /\ stored \in minted \cup {None} /\ minted \subseteq Passport
ReadsOK == reads \in [Read -> Reading \cup {NoRead}] /\ reviewed \in BOOLEAN
CallsOK == dialog \in Dialog \cup {NoDialog} /\ posts \in [Post -> Sent \cup {NoPost}]
RestOK ==
  /\ mounts \in 0 .. MaxMounts /\ late \in BOOLEAN
  /\ picked \in [Lender -> RequestId \cup {None}]

LEMMA TypesAre ==
  WorkspacesTypeOK <=> ViewOK /\ SnapshotOK /\ ReadsOK /\ CallsOK /\ RestOK
  BY DEF WorkspacesTypeOK, ViewOK, SnapshotOK, ReadsOK, CallsOK, RestOK

LEMMA ProjectionTyped ==
  ASSUME TypeOK, view' = Projection
  PROVE  ViewOK'
<1>1. Projection \in [requests : [RequestId -> RequestRow \cup Blank],
                     challenges : [ChallengeId -> ChallengeRow \cup Blank],
                     proofs : [ProofId -> ProofRow \cup Blank],
                     offers : [OfferId -> OfferRow \cup Blank],
                     loans : [LoanId -> LoanRow \cup Blank]]
  BY DEF TypeOK, Projection
<1>2. QED
  BY <1>1 DEF ViewOK

(* What a confirmation can be opened for.                                  *)
LEMMA ConfirmableNames ==
  ASSUME WorkspacesTypeOK, NEW a \in Confirmable
  PROVE  /\ a \in Action /\ a.op \in {"list", "accept", "draw", "repay"}
         /\ Names(a)
<1>1. CASE Screen = 2
  <2>1. a = Does("list", None, snapshot.held)
    BY <1>1 DEF Confirmable
  <2>2. snapshot.status = "ready"
    BY <1>1 DEF Screen, Step
  <2>3. snapshot.held \in Passport
    BY <2>2 DEF WorkspacesTypeOK
  <2>4. QED
    BY <2>1, <2>3 DEF Does, Action, Names
<1>2. CASE Screen = 4
  <2>1. PICK o \in OffersShown(view) : a = Does("accept", o, None)
    BY <1>2 DEF Confirmable
  <2>2. o \in OfferId /\ o \in Nat
    BY ViewsAreTyped, OffersShownAre, WorkspacesAssumption
  <2>3. QED
    BY <2>1, <2>2 DEF Does, Action, Names
<1>3. CASE Screen = 5
  <2> DEFINE n == LoanShown(view)
  <2>1. a \in OffersLoanActions(n) /\ n # None
    <3>1. a \in OffersLoanActions(n)
      BY <1>3 DEF Confirmable
    <3>2. n # None
      BY <1>3 DEF Screen, Step
    <3>3. QED
      BY <3>1, <3>2
  <2>2. n \in LoanId /\ n \in Nat
    BY <2>1, ViewsAreTyped, LoanShownIs, WorkspacesAssumption
  <2>3. a \in {Does("draw", n, None), Does("repay", n, None)}
    BY <2>1 DEF OffersLoanActions
  <2>4. QED
    BY <2>2, <2>3 DEF Does, Action, Names
<1>4. QED
  BY <1>1, <1>2, <1>3 DEF Confirmable

LEMMA FormsAreTyped ==
  ASSUME NEW rs \in [Read -> Reading \cup {NoRead}], NEW v, NEW s, NEW rev
  PROVE  WithForm(rs, v, s, rev) \in [Read -> Reading \cup {NoRead}]
  BY DEF WithForm, Reading

LEMMA AnswerTypes ==
  ASSUME WorkspacesTypeOK, NEW x \in Post, posts[x].op # "idle", NEW ok \in BOOLEAN,
         NEW effects \in {0, 1}, Answer(x, ok, effects),
         posts[x].mounted /\ posts[x].from = "dialog" => dialog # NoDialog
  PROVE  /\ posts' = [posts EXCEPT ![x] = NoPost]
         /\ posts[x] \in Sent
         /\ dialog' \in Dialog \cup {NoDialog} /\ reviewed' \in BOOLEAN
         /\ \/ dialog' = dialog
            \/ /\ posts[x].mounted /\ posts[x].from = "dialog"
               /\ dialog \in Dialog /\ dialog' \in Dialog
               /\ dialog'.action = dialog.action
               /\ dialog'.effects = dialog.effects + effects
<1>1. posts[x] \in Sent
  BY DEF WorkspacesTypeOK, NoPost
<1>2. Verdict(ok) \in {"done", "failed"}
  BY DEF Verdict
<1>3. /\ posts' = [posts EXCEPT ![x] = NoPost]
      /\ reviewed' \in BOOLEAN
  BY DEF WorkspacesTypeOK, Answer
<1>4. CASE posts[x].mounted /\ posts[x].from = "dialog"
  <2>1. dialog \in Dialog
    BY <1>4 DEF WorkspacesTypeOK
  <2>2. dialog' = [dialog EXCEPT !.status = Verdict(ok), !.effects = dialog.effects + effects]
    BY <1>4 DEF Answer
  <2>3. QED
    <3>1. dialog.effects + effects \in Nat
      BY <2>1 DEF Dialog
    <3>2. /\ dialog' \in Dialog
          /\ dialog'.action = dialog.action
          /\ dialog'.effects = dialog.effects + effects
      BY <1>2, <2>1, <2>2, <3>1 DEF Dialog
    <3>3. QED
      BY <1>1, <1>3, <1>4, <2>1, <3>2
<1>5. CASE ~(posts[x].mounted /\ posts[x].from = "dialog")
  <2>1. dialog' = dialog
    BY <1>5 DEF Answer
  <2>2. QED
    BY <1>1, <1>3, <2>1 DEF WorkspacesTypeOK
<1>6. QED
  BY <1>4, <1>5

LEMMA SendsTypes ==
  ASSUME CallsOK, NEW x \in Post, NEW a \in Action, NEW step \in {"proving", "sent"},
         NEW from \in {"dialog", "page"}, Sends(x, a, step, from)
  PROVE  /\ posts' \in [Post -> Sent \cup {NoPost}]
         /\ posts'[x].op = a.op /\ posts'[x].id = a.id
         /\ posts'[x].passport = a.passport /\ posts'[x].from = from
         /\ \A y \in Post : y # x => posts'[y] = posts[y]
<1> DEFINE row == [op |-> a.op, id |-> a.id, passport |-> a.passport,
                   step |-> step, from |-> from, mounted |-> TRUE]
<1>1. row \in Sent
  BY DEF Action, Sent
<1>2. posts' = [posts EXCEPT ![x] = row] /\ posts \in [Post -> Sent \cup {NoPost}]
  BY DEF Sends, CallsOK
<1>3. posts'[x] = row
  BY <1>2
<1>4. posts' \in [Post -> Sent \cup {NoPost}] /\ \A y \in Post : y # x => posts'[y] = posts[y]
  BY <1>1, <1>2
<1>5. QED
  BY <1>3, <1>4

(* Calls under way are kept, forgotten, or sent on.                        *)
LEMMA PostsKept ==
  ASSUME Named, Asked, UNCHANGED dialog,
         \A x \in Post :
           \/ posts'[x].op = "idle"
           \/ /\ posts[x].op # "idle"
              /\ posts'[x].op = posts[x].op /\ posts'[x].id = posts[x].id
              /\ posts'[x].passport = posts[x].passport
              /\ posts'[x].from = posts[x].from /\ posts'[x].mounted = posts[x].mounted
  PROVE  Named' /\ Asked'
<1>1. \A x \in Post : Asks(x)' => Asks(x)
  BY DEF Asks
<1>2. Asked'
  <2>1. ASSUME NEW x \in Post, Asks(x)'
        PROVE  /\ dialog' # NoDialog /\ dialog'.status = "running"
               /\ posts'[x].op = dialog'.action.op /\ posts'[x].id = dialog'.action.id
    <3>1. Asks(x) /\ posts'[x].op = posts[x].op /\ posts'[x].id = posts[x].id
      BY <1>1, <2>1 DEF Asks
    <3>2. QED
      BY <3>1 DEF Asked
  <2>2. \A x, y \in Post : Asks(x)' /\ Asks(y)' => x = y
    BY <1>1 DEF Asked
  <2>3. QED
    BY <2>1, <2>2 DEF Asked
<1>3. Named'
  BY DEF Named, Names
<1>4. QED
  BY <1>2, <1>3

(* A page's own call: the confirmation does not wait for it.               *)
LEMMA PageSends ==
  ASSUME CallsOK, Named, Asked, UNCHANGED dialog, NEW x \in Post, posts[x] = NoPost,
         NEW a \in Action, Names(a), NEW step \in {"proving", "sent"},
         Sends(x, a, step, "page")
  PROVE  CallsOK' /\ Named' /\ Asked'
<1>1. /\ posts' \in [Post -> Sent \cup {NoPost}]
      /\ posts'[x].op = a.op /\ posts'[x].id = a.id
      /\ posts'[x].passport = a.passport /\ posts'[x].from = "page"
      /\ \A y \in Post : y # x => posts'[y] = posts[y]
  BY SendsTypes
<1>2. CallsOK'
  BY <1>1 DEF CallsOK
<1>3. Named'
  <2>1. Names(posts[x])'
    BY <1>1 DEF Names
  <2>2. \A y \in Post : y # x /\ posts'[y].op # "idle" => Names(posts[y])'
    BY <1>1 DEF Named, Names
  <2>3. dialog' # NoDialog => dialog'.action.op \in {"list", "accept", "draw", "repay"}
                           /\ Names(dialog.action)'
    BY DEF Named, Names
  <2>4. QED
    BY <2>1, <2>2, <2>3 DEF Named
<1>4. \A y \in Post : Asks(y)' => Asks(y) /\ posts'[y] = posts[y]
  BY <1>1 DEF Asks
<1>5. Asked'
  BY <1>4 DEF Asked
<1>6. QED
  BY <1>2, <1>3, <1>5

LEMMA AnswerKeeps ==
  ASSUME Tabs, NEW x \in Post, posts[x].op # "idle", NEW ok \in BOOLEAN,
         NEW effects \in {0, 1}, Answer(x, ok, effects)
  PROVE  /\ Tabs'
         /\ \/ dialog' = dialog
            \/ /\ Asks(x) /\ dialog \in Dialog /\ dialog' \in Dialog
               /\ dialog'.action = dialog.action
               /\ dialog'.effects = dialog.effects + effects
         /\ UNCHANGED <<view, snapshot, stored, late>>
<1> USE DEF Tabs
<1>0. Asks(x) <=> posts[x].mounted /\ posts[x].from = "dialog"
  BY DEF Asks
<1>1. /\ posts' = [posts EXCEPT ![x] = NoPost]
      /\ dialog' \in Dialog \cup {NoDialog} /\ reviewed' \in BOOLEAN
      /\ \/ dialog' = dialog
         \/ /\ Asks(x) /\ dialog \in Dialog /\ dialog' \in Dialog
            /\ dialog'.action = dialog.action
            /\ dialog'.effects = dialog.effects + effects
  <2>1. posts[x].mounted /\ posts[x].from = "dialog" => dialog # NoDialog
    BY <1>0 DEF Asked
  <2>2. QED
    BY <1>0, <2>1, AnswerTypes
<1>2. UNCHANGED <<view, snapshot, stored, minted, reads, mounts, late, picked>>
  BY DEF Answer
<1>3. WorkspacesTypeOK'
  <2>1. posts' \in [Post -> Sent \cup {NoPost}]
    BY <1>1 DEF WorkspacesTypeOK
  <2>2. ViewOK' /\ SnapshotOK' /\ ReadsOK' /\ CallsOK' /\ RestOK'
    BY <1>1, <1>2, <2>1, TypesAre DEF ViewOK, SnapshotOK, ReadsOK, CallsOK, RestOK
  <2>3. QED
    BY <2>2 DEF WorkspacesTypeOK, ViewOK, SnapshotOK, ReadsOK, CallsOK, RestOK
<1>4. /\ posts'[x] = NoPost
      /\ \A y \in Post : y # x => posts'[y] = posts[y]
  BY <1>1 DEF WorkspacesTypeOK
<1>5. Named'
  <2>1. \A y \in Post : posts'[y].op # "idle" => Names(posts[y])'
    BY <1>4 DEF Named, Names, NoPost
  <2>2. dialog' # NoDialog => dialog # NoDialog /\ dialog'.action = dialog.action
    BY <1>1, WorkspacesAssumption DEF Asks, Asked
  <2>3. dialog' # NoDialog => /\ dialog'.action.op \in {"list", "accept", "draw", "repay"}
                         /\ Names(dialog.action)'
    BY <2>2 DEF Named, Names
  <2>4. QED
    BY <2>1, <2>3 DEF Named
<1>6. Asked'
  <2>1. \A y \in Post : Asks(y)' => y # x /\ Asks(y) /\ posts'[y] = posts[y]
    BY <1>4 DEF Asks, NoPost
  <2>2. ASSUME NEW y \in Post, Asks(y)' PROVE dialog' = dialog
    BY <1>1, <2>1, <2>2 DEF Asked
  <2>3. QED
    BY <2>1, <2>2 DEF Asked
<1>7. QED
  BY <1>1, <1>2, <1>3, <1>5, <1>6

-----------------------------------------------------------------------------
(* Every step of a tab is a step of the store, or leaves it alone.         *)

LEMMA PerformIsStep ==
  ASSUME Server, NEW a, Names(a), Perform(a)
  PROVE  Next /\ parties' = parties
<1>a. /\ Applicant \in Borrower
      /\ Unused(requests) \subseteq RequestId /\ Unused(proofs) \subseteq ProofId
      /\ Unused(loans) \subseteq LoanId
  BY WorkspacesAssumption DEF Server, TypeOK, Unused
<1>1. CASE a.op = "list" /\ PublishRequest(Applicant, NextId(requests), a.passport)
  <2>1. NextId(requests) \in RequestId /\ a.passport \in Passport
    BY <1>1, <1>a DEF PublishRequest, MayPublishRequest, Names
  <2>2. RequestRoutes
    BY <1>1, <1>a, <2>1 DEF RequestRoutes
  <2>3. QED
    BY <1>1, <2>2 DEF Next, PublishRequest
<1>2. CASE a.op = "withdraw" /\ WithdrawRequest(Applicant, a.id)
  <2>1. RequestRoutes
    BY <1>2, <1>a DEF RequestRoutes, Names
  <2>2. QED
    BY <1>2, <2>1 DEF Next, WithdrawRequest
<1>3. CASE a.op = "accept" /\ AcceptOffer(Applicant, a.id, NextId(loans))
  <2>1. NextId(loans) \in LoanId /\ a.id \in OfferId
    BY <1>3, <1>a DEF AcceptOffer, MayAcceptOffer, Names
  <2>2. OfferRoutes
    BY <1>3, <1>a, <2>1 DEF OfferRoutes
  <2>3. QED
    BY <1>3, <2>2 DEF Next, AcceptOffer
<1>4. CASE a.op = "draw" /\ DrawLoan(Applicant, a.id)
  <2>1. LoanRoutes
    BY <1>4, <1>a DEF LoanRoutes, Names
  <2>2. QED
    BY <1>4, <2>1 DEF Next, DrawLoan, SetLoan
<1>5. CASE a.op = "repay" /\ RepayLoan(Applicant, a.id)
  <2>1. LoanRoutes
    BY <1>5, <1>a DEF LoanRoutes, Names
  <2>2. QED
    BY <1>5, <2>1 DEF Next, RepayLoan, SetLoan
<1>6. ASSUME a.op = "prove", NEW sound \in BOOLEAN,
             SubmitProof(Applicant, NextId(proofs), a.id, sound, challenges[a.id].expiresAt)
      PROVE  Next /\ parties' = parties
  <2>1. NextId(proofs) \in ProofId /\ a.id \in ChallengeId
    BY <1>6, <1>a DEF SubmitProof, MaySubmitProof, Names
  <2>2. challenges[a.id].expiresAt \in Expiry
    BY <1>6, <2>1 DEF SubmitProof, MaySubmitProof, Server, Expiring, Exists
  <2>3. ReceiptRoute
    BY <1>6, <1>a, <2>1, <2>2 DEF ReceiptRoute
  <2>4. QED
    BY <1>6, <2>3 DEF Next, SubmitProof
<1>7. QED
  BY <1>1, <1>2, <1>3, <1>4, <1>5, <1>6 DEF Perform

LEMMA LenderTakesSteps ==
  ASSUME Server, WorkspacesTypeOK, NEW l \in Lender,
         \/ \E y \in Policy, v \in Validity : SendPolicy(l, y, v)
         \/ \E k \in CallId : Verify(l, k)
         \/ TakeBack(l) \/ Fund(l) \/ CallDue(l)
  PROVE  Next /\ parties' = parties
<1>a. /\ TypeOK /\ ProofsBounded
      /\ Unused(challenges) \subseteq ChallengeId /\ Unused(offers) \subseteq OfferId
  BY DEF Server, TypeOK, Unused
<1>1. ASSUME NEW y \in Policy, NEW v \in Validity, SendPolicy(l, y, v)
      PROVE  Next /\ parties' = parties
  <2>1. /\ NextId(challenges) \in ChallengeId /\ RequestShown(l) \in RequestId
        /\ CreateChallenge(l, NextId(challenges), RequestShown(l), y, v)
    BY <1>1, <1>a, RequestShownIs DEF SendPolicy, Underwriting, CreateChallenge
  <2>2. ChallengeRoutes
    BY <2>1 DEF ChallengeRoutes
  <2>3. QED
    BY <2>1, <2>2 DEF Next, CreateChallenge
<1>2. ASSUME NEW k \in CallId, Verify(l, k) PROVE Next /\ parties' = parties
  <2>1. LenderProof(l) \in ProofId /\ BeginVerify(l, k, LenderProof(l))
    BY <1>2, <1>a, LenderProofIs DEF Verify
  <2>2. VerifyRoute
    BY <2>1 DEF VerifyRoute
  <2>3. QED
    BY <2>1, <2>2 DEF Next, BeginVerify
<1>3. CASE TakeBack(l)
  <2>1. LenderChallenge(l) \in ChallengeId /\ WithdrawChallenge(l, LenderChallenge(l))
    BY <1>3, <1>a, LenderChallengeIs, OwnChallengesAre DEF TakeBack
  <2>2. ChallengeRoutes
    BY <2>1 DEF ChallengeRoutes
  <2>3. QED
    BY <2>1, <2>2 DEF Next, WithdrawChallenge
<1>4. CASE Fund(l)
  <2>1. /\ NextId(offers) \in OfferId /\ LenderProof(l) \in ProofId
        /\ CreateOffer(l, NextId(offers), LenderProof(l))
    BY <1>4, <1>a, LenderProofIs DEF Fund, CreateOffer
  <2>2. OfferRoutes
    BY <2>1 DEF OfferRoutes
  <2>3. QED
    BY <2>1, <2>2 DEF Next, CreateOffer
<1>5. CASE CallDue(l)
  <2>1. PICK n \in LoanId : MarkRepaymentDue(l, n)
    BY <1>5 DEF CallDue
  <2>2. LoanRoutes
    BY <2>1 DEF LoanRoutes
  <2>3. QED
    BY <2>1, <2>2 DEF Next, MarkRepaymentDue, SetLoan
<1>6. QED
  BY <1>1, <1>2, <1>3, <1>4, <1>5

LEMMA TabsTakeSteps ==
  ASSUME Server, Tabs, [WorkspacesNext]_all
  PROVE  [Next]_vars /\ parties' = parties
<1> USE DEF server
<1>1. ASSUME NEW x \in Post, Arrives(x) PROVE Next /\ parties' = parties
  <2>1. Names(posts[x])
    BY <1>1 DEF Arrives, Tabs, Named
  <2>2. QED
    BY <1>1, <2>1, PerformIsStep DEF Arrives
<1>2. ASSUME NEW x \in Post, ComesToNothing(x) PROVE UNCHANGED vars
  BY <1>2 DEF ComesToNothing
<1>3. ASSUME NEW l \in Lender,
             \/ \E y \in Policy, v \in Validity : SendPolicy(l, y, v)
             \/ \E k \in CallId : Verify(l, k)
             \/ TakeBack(l) \/ Fund(l) \/ CallDue(l)
      PROVE  Next /\ parties' = parties
  BY <1>3, LenderTakesSteps DEF Tabs
<1>4. ASSUME NEW k \in CallId, Verified(k) PROVE Next /\ parties' = parties
  BY <1>4 DEF Verified, FinishVerify, Next, VerifyRoute
<1>5. CASE Passes
  BY <1>5 DEF Passes, Tick, Next, ServerStep
<1>6. UNCHANGED vars => parties' = parties
  BY DEF vars
<1>7. CASE UNCHANGED all
  BY <1>6, <1>7 DEF all
<1>8. QED
  BY <1>1, <1>2, <1>3, <1>4, <1>5, <1>6, <1>7
     DEF WorkspacesNext, Settles, Connect, WalletRefuses, WalletSigns, ReadEnds, ReadAgain,
         Review, Refresh, CloseDialog, Navigate, Reload, Mount, OpenDialog, Confirm,
         ClickWithdraw, Generate, ProofMade, ProofFails, Pick, BackToMarket

-----------------------------------------------------------------------------
(* Types and calls under way are kept.                                     *)

LEMMA CallsUntouched ==
  ASSUME CallsOK, Named, Asked, UNCHANGED calls
  PROVE  CallsOK' /\ Named' /\ Asked'
  BY DEF calls, CallsOK, Named, Names, Asked, Asks

LEMMA PartsUntouched ==
  ASSUME ViewOK, SnapshotOK, ReadsOK, RestOK
  PROVE  /\ UNCHANGED view => ViewOK'
         /\ UNCHANGED <<snapshot, stored, minted>> => SnapshotOK'
         /\ UNCHANGED <<reads, reviewed>> => ReadsOK'
         /\ UNCHANGED <<mounts, late, picked>> => RestOK'
  BY DEF ViewOK, SnapshotOK, ReadsOK, RestOK

(* Reading the portfolio, reviewing, catching up: no call is touched.      *)
LEMMA ReadingStep ==
  ASSUME Server, Tabs,
         \/ \E k \in Read : Connect(k) \/ WalletRefuses(k) \/ WalletSigns(k) \/ ReadEnds(k)
         \/ ReadAgain \/ Review \/ Refresh
  PROVE  Tabs'
<1>a. ViewOK /\ SnapshotOK /\ ReadsOK /\ CallsOK /\ RestOK /\ Named /\ Asked
  BY TypesAre DEF Tabs
<1>b. TypeOK
  BY DEF Server
<1>1. ASSUME NEW k \in Read, Connect(k) PROVE ViewOK' /\ SnapshotOK' /\ ReadsOK' /\ RestOK'
  BY <1>1, <1>a, PartsUntouched DEF Connect, Reading, ReadsOK
<1>2. ASSUME NEW k \in Read, WalletRefuses(k)
      PROVE  ViewOK' /\ SnapshotOK' /\ ReadsOK' /\ RestOK'
  BY <1>2, <1>a, PartsUntouched DEF WalletRefuses, ReadsOK
<1>3. ASSUME NEW k \in Read, WalletSigns(k)
      PROVE  ViewOK' /\ SnapshotOK' /\ ReadsOK' /\ RestOK'
  <2>1. SnapshotOK'
    BY <1>3, <1>a DEF WalletSigns, SnapshotOK
  <2>2. ReadsOK'
    <3>1. reads[k] \in Reading
      BY <1>3, <1>a DEF WalletSigns, NoRead, ReadsOK
    <3>2. QED
      BY <1>3, <1>a, <3>1 DEF WalletSigns, Reading, ReadsOK
  <2>3. QED
    BY <1>3, <1>a, <2>1, <2>2, PartsUntouched DEF WalletSigns
<1>4. ASSUME NEW k \in Read, ReadEnds(k)
      PROVE  ViewOK' /\ SnapshotOK' /\ ReadsOK' /\ RestOK'
  <2>1. PICK w \in Passport \cup {None} :
          /\ minted' = minted \cup ({w} \ {None}) /\ stored' = w
          /\ \/ /\ snapshot' = [status |-> IF w = None THEN "error" ELSE "ready", held |-> w]
                /\ reviewed' = FALSE /\ UNCHANGED late
             \/ UNCHANGED <<snapshot, reviewed>> /\ late' = TRUE
    BY <1>4 DEF ReadEnds, Written
  <2>2. SnapshotOK'
    <3>1. stored' \in minted' \cup {None} /\ minted' \subseteq Passport
      BY <1>a, <2>1 DEF SnapshotOK
    <3>2. CASE UNCHANGED snapshot
      BY <1>a, <3>1, <3>2 DEF SnapshotOK
    <3>3. CASE snapshot' = [status |-> IF w = None THEN "error" ELSE "ready", held |-> w]
      BY <3>1, <3>3, WorkspacesAssumption DEF SnapshotOK
    <3>4. QED
      BY <2>1, <3>2, <3>3
  <2>3. reads' \in [Read -> Reading \cup {NoRead}]
    <3>1. [reads EXCEPT ![k] = NoRead] \in [Read -> Reading \cup {NoRead}]
      BY <1>a DEF ReadsOK
    <3>2. reads' = WithForm([reads EXCEPT ![k] = NoRead], view, snapshot', reviewed')
      BY <1>4 DEF ReadEnds
    <3>3. QED
      BY <3>1, <3>2, FormsAreTyped
  <2>4. QED
    <3>1. reviewed' \in BOOLEAN /\ late' \in BOOLEAN
      BY <1>a, <2>1 DEF ReadsOK, RestOK
    <3>2. UNCHANGED <<view, mounts, picked>>
      BY <1>4 DEF ReadEnds
    <3>3. QED
      BY <1>a, <2>2, <2>3, <3>1, <3>2 DEF ViewOK, ReadsOK, RestOK
<1>5. ASSUME ReadAgain PROVE ViewOK' /\ SnapshotOK' /\ ReadsOK' /\ RestOK'
  <2>1. snapshot' = Nothing /\ stored' = None /\ minted' = minted
    BY <1>5 DEF ReadAgain
  <2>2. SnapshotOK'
    BY <1>a, <2>1 DEF SnapshotOK, Nothing
  <2>3. UNCHANGED <<view, reads, reviewed, mounts, late, picked>>
    BY <1>5 DEF ReadAgain
  <2>4. QED
    BY <1>a, <2>2, <2>3, PartsUntouched
<1>6. ASSUME Review PROVE ViewOK' /\ SnapshotOK' /\ ReadsOK' /\ RestOK'
  <2>1. /\ UNCHANGED <<view, snapshot, stored, minted, reads, mounts, late, picked>>
        /\ reviewed' \in BOOLEAN
    BY <1>6 DEF Review
  <2>2. QED
    BY <1>a, <2>1, PartsUntouched DEF ReadsOK
<1>7. ASSUME Refresh PROVE ViewOK' /\ SnapshotOK' /\ ReadsOK' /\ RestOK'
  <2>1. ViewOK'
    BY <1>7, <1>b, ProjectionTyped DEF Refresh
  <2>2. reads' \in [Read -> Reading \cup {NoRead}]
    BY <1>7, <1>a, FormsAreTyped DEF Refresh, ReadsOK
  <2>3. UNCHANGED <<snapshot, stored, minted, reviewed, mounts, late, picked>>
    BY <1>7 DEF Refresh
  <2>4. QED
    BY <1>a, <2>1, <2>2, <2>3, PartsUntouched DEF ReadsOK
<1>8. UNCHANGED calls
  <2>1. ASSUME NEW k \in Read, Connect(k) \/ WalletRefuses(k) \/ WalletSigns(k) \/ ReadEnds(k)
        PROVE  UNCHANGED calls
    BY <2>1 DEF Connect, WalletRefuses, WalletSigns, ReadEnds
  <2>2. QED
    BY <2>1 DEF ReadAgain, Review, Refresh
<1>9. ViewOK' /\ SnapshotOK' /\ ReadsOK' /\ RestOK'
  BY <1>1, <1>2, <1>3, <1>4, <1>5, <1>6, <1>7
<1>10. CallsOK' /\ Named' /\ Asked'
  BY <1>a, <1>8, CallsUntouched
<1>11. QED
  BY <1>9, <1>10 DEF Tabs, WorkspacesTypeOK, ViewOK, SnapshotOK, ReadsOK, CallsOK, RestOK

(* The lenders' tabs, and the clock.                                       *)
LEMMA OthersStep ==
  ASSUME Server, Tabs, UNCHANGED tabs, picked' \in [Lender -> RequestId \cup {None}]
  PROVE  Tabs'
<1>a. ViewOK /\ SnapshotOK /\ ReadsOK /\ CallsOK /\ RestOK /\ Named /\ Asked
  BY TypesAre DEF Tabs
<1>1. CallsOK' /\ Named' /\ Asked'
  BY <1>a, CallsUntouched DEF tabs
<1>2. ViewOK' /\ SnapshotOK' /\ ReadsOK' /\ RestOK'
  BY <1>a DEF tabs, applicant, ViewOK, SnapshotOK, ReadsOK, RestOK
<1>3. QED
  BY <1>1, <1>2 DEF Tabs, WorkspacesTypeOK, ViewOK, SnapshotOK, ReadsOK, CallsOK, RestOK

(* The view is mounted anew: no confirmation is open, no call waited for.  *)
LEMMA MountStep ==
  ASSUME Server, Tabs, NEW keptReads, NEW keptPosts, Mount(keptReads, keptPosts)
  PROVE  Tabs'
<1>a. ViewOK /\ SnapshotOK /\ ReadsOK /\ CallsOK /\ RestOK /\ Named /\ Asked
  BY TypesAre DEF Tabs
<1>1. ViewOK'
  BY ProjectionTyped DEF Mount, Server
<1>2. SnapshotOK'
  <2>1. snapshot' = Restored /\ UNCHANGED <<stored, minted>>
    BY DEF Mount
  <2>2. stored \in Passport \cup {None}
    BY <1>a DEF SnapshotOK
  <2>3. QED
    BY <1>a, <2>1, <2>2, WorkspacesAssumption DEF SnapshotOK, Restored, Nothing
<1>3. ReadsOK'
  <2>0. reads' = [k \in Read |-> IF k \in keptReads /\ reads[k] # NoRead
                    THEN [reads[k] EXCEPT !.mounted = FALSE, !.form = FALSE] ELSE NoRead]
    BY DEF Mount
  <2>1. ASSUME NEW k \in Read, reads[k] # NoRead
        PROVE  [reads[k] EXCEPT !.mounted = FALSE, !.form = FALSE] \in Reading
    BY <1>a, <2>1 DEF ReadsOK, Reading
  <2>2. \A k \in Read : reads'[k] \in Reading \cup {NoRead}
    BY <2>0, <2>1
  <2>3. reads' = [k \in Read |-> reads'[k]]
    BY <2>0
  <2>4. reads' \in [Read -> Reading \cup {NoRead}] /\ reviewed' = FALSE
    BY <2>2, <2>3 DEF Mount
  <2>5. QED
    BY <2>4 DEF ReadsOK
<1>b. posts' = [x \in Post |-> IF x \in keptPosts /\ posts[x] # NoPost
                  THEN [posts[x] EXCEPT !.mounted = FALSE] ELSE NoPost]
  BY DEF Mount
<1>4. ASSUME NEW x \in Post, posts'[x] # NoPost
      PROVE  posts'[x] = [posts[x] EXCEPT !.mounted = FALSE] /\ posts[x] # NoPost
  BY <1>b, <1>4
<1>5. \A x \in Post :
        \/ posts'[x] = NoPost
        \/ /\ posts'[x] \in Sent /\ posts[x] \in Sent
           /\ posts'[x].op = posts[x].op /\ posts'[x].id = posts[x].id
           /\ posts'[x].passport = posts[x].passport /\ ~posts'[x].mounted
  BY <1>a, <1>4 DEF CallsOK, Sent
<1>6. CallsOK'
  <2>1. posts' = [x \in Post |-> posts'[x]]
    BY <1>b
  <2>2. posts' \in [Post -> Sent \cup {NoPost}] /\ dialog' = NoDialog
    BY <1>5, <2>1 DEF Mount
  <2>3. QED
    BY <2>2 DEF CallsOK
<1>7. Named'
  <2>1. ASSUME NEW x \in Post, posts'[x].op # "idle" PROVE Names(posts[x])'
    <3>1. posts[x].op # "idle" /\ posts'[x].op = posts[x].op
          /\ posts'[x].id = posts[x].id /\ posts'[x].passport = posts[x].passport
      BY <1>5, <2>1 DEF NoPost, Sent
    <3>2. QED
      BY <1>a, <3>1 DEF Named, Names
  <2>2. QED
    BY <2>1 DEF Named, Mount
<1>8. Asked'
  BY <1>5 DEF Asked, Asks, NoPost
<1>9. RestOK'
  <2>1. mounts < MaxMounts /\ mounts' = mounts + 1 /\ UNCHANGED <<late, picked>>
    BY DEF Mount
  <2>2. QED
    BY <1>a, <2>1, WorkspacesAssumption DEF RestOK
<1>10. QED
  BY <1>1, <1>2, <1>3, <1>6, <1>7, <1>8, <1>9
     DEF Tabs, WorkspacesTypeOK, ViewOK, SnapshotOK, ReadsOK, CallsOK, RestOK

(* Confirmations and the calls they and the page send.                     *)
LEMMA CallingStep ==
  ASSUME Server, Tabs,
         \/ \E a \in Confirmable : OpenDialog(a)
         \/ CloseDialog
         \/ \E x \in Post : \/ Confirm(x) \/ ClickWithdraw(x) \/ Generate(x)
                            \/ ProofMade(x) \/ ProofFails(x)
  PROVE  Tabs'
<1>a. ViewOK /\ SnapshotOK /\ ReadsOK /\ CallsOK /\ RestOK /\ Named /\ Asked
  BY TypesAre DEF Tabs
<1>b. UNCHANGED <<view, applicant, mounts, late, picked>>
  <2>1. ASSUME NEW x \in Post, \/ Confirm(x) \/ ClickWithdraw(x) \/ Generate(x)
                               \/ ProofMade(x) \/ ProofFails(x)
        PROVE  UNCHANGED <<view, applicant, mounts, late, picked>>
    BY <2>1 DEF Confirm, ClickWithdraw, Generate, ProofMade, ProofFails
  <2>2. QED
    BY <2>1 DEF OpenDialog, CloseDialog
<1>c. ViewOK' /\ SnapshotOK' /\ ReadsOK' /\ RestOK'
  BY <1>a, <1>b, PartsUntouched DEF applicant
<1> DEFINE Goal == CallsOK' /\ Named' /\ Asked'
<1>1. ASSUME NEW a \in Confirmable, OpenDialog(a) PROVE Goal
  <2>1. /\ dialog = NoDialog /\ dialog' = [action |-> a, status |-> "ready", effects |-> 0]
        /\ UNCHANGED posts
    BY <1>1 DEF OpenDialog
  <2>2. a \in Action /\ a.op \in {"list", "accept", "draw", "repay"} /\ Names(a)
    BY ConfirmableNames DEF Tabs
  <2>3. dialog' \in Dialog
    BY <2>1, <2>2 DEF Dialog
  <2>4. CallsOK'
    BY <1>a, <2>1, <2>3 DEF CallsOK
  <2>5. Named'
    BY <1>a, <2>1, <2>2 DEF Named, Names
  <2>6. \A x \in Post : ~Asks(x)'
    BY <1>a, <2>1 DEF Asked, Asks
  <2>7. QED
    BY <2>4, <2>5, <2>6 DEF Asked
<1>2. ASSUME CloseDialog PROVE Goal
  <2>1. dialog # NoDialog /\ dialog.status # "running" /\ dialog' = NoDialog /\ UNCHANGED posts
    BY <1>2 DEF CloseDialog
  <2>2. \A x \in Post : ~Asks(x)'
    BY <1>a, <2>1 DEF Asked, Asks
  <2>3. QED
    BY <1>a, <2>1, <2>2 DEF CallsOK, Named, Names, Asked
<1>3. ASSUME NEW x \in Post, Confirm(x) PROVE Goal
  <2>1. /\ dialog \in Dialog /\ dialog.status \in {"ready", "failed"} /\ posts[x] = NoPost
        /\ dialog' = [dialog EXCEPT !.status = "running"]
        /\ Sends(x, dialog.action, "sent", "dialog")
    BY <1>3, <1>a DEF Confirm, CallsOK
  <2>2. /\ dialog' \in Dialog /\ dialog'.action = dialog.action /\ dialog'.status = "running"
        /\ dialog.action \in Action
    BY <2>1 DEF Dialog
  <2>3. /\ posts' \in [Post -> Sent \cup {NoPost}]
        /\ posts'[x].op = dialog.action.op /\ posts'[x].id = dialog.action.id
        /\ posts'[x].passport = dialog.action.passport
        /\ \A y \in Post : y # x => posts'[y] = posts[y]
    BY <1>a, <2>1, <2>2, SendsTypes
  <2>4. dialog # NoDialog /\ dialog' # NoDialog
    BY <1>3, <2>2 DEF Confirm, Dialog
  <2>5. Names(dialog.action) /\ dialog.action.op \in {"list", "accept", "draw", "repay"}
    BY <1>a, <2>4 DEF Named
  <2>6. Named'
    <3>1. Names(posts[x])'
      BY <2>3, <2>5 DEF Names
    <3>2. \A y \in Post : y # x /\ posts'[y].op # "idle" => Names(posts[y])'
      BY <1>a, <2>3 DEF Named, Names
    <3>3. Names(dialog.action)'
      BY <2>2, <2>5 DEF Names
    <3>4. QED
      BY <2>2, <2>5, <3>1, <3>2, <3>3 DEF Named
  <2>7. \A y \in Post : Asks(y)' => y = x
    BY <1>a, <2>1, <2>3 DEF Asked, Asks
  <2>8. Asked'
    BY <2>2, <2>3, <2>4, <2>7 DEF Asked
  <2>9. QED
    BY <2>2, <2>3, <2>6, <2>8 DEF CallsOK
<1>4. ASSUME NEW x \in Post, ClickWithdraw(x) PROVE Goal
  <2> DEFINE a == Does("withdraw", MyRequest(view), None)
  <2>1. MyRequest(view) \in RequestId
    BY <1>4, ViewsAreTyped, MyRequestIs DEF ClickWithdraw, MayWithdraw, Tabs
  <2>2. a \in Action /\ Names(a)
    BY <2>1, WorkspacesAssumption DEF Does, Action, Names
  <2>3. posts[x] = NoPost /\ UNCHANGED dialog /\ Sends(x, a, "sent", "page")
    BY <1>4 DEF ClickWithdraw
  <2> HIDE DEF a
  <2>4. QED
    BY <1>a, <2>2, <2>3, PageSends
<1>5. ASSUME NEW x \in Post, Generate(x) PROVE Goal
  <2> DEFINE a == Does("prove", ChallengeShown(view), snapshot.held)
  <2>1. ChallengeShown(view) \in ChallengeId
    BY <1>5, ViewsAreTyped, ChallengeShownIs DEF Generate, MayProve, Tabs
  <2>2. a \in Action /\ Names(a)
    BY <1>a, <2>1, WorkspacesAssumption DEF Does, Action, Names, SnapshotOK
  <2>3. posts[x] = NoPost /\ UNCHANGED dialog /\ Sends(x, a, "proving", "page")
    BY <1>5 DEF Generate
  <2> HIDE DEF a
  <2>4. QED
    BY <1>a, <2>2, <2>3, PageSends
<1>6. ASSUME NEW x \in Post, ProofMade(x) PROVE Goal
  <2>1. posts' = [posts EXCEPT ![x].step = "sent"] /\ UNCHANGED dialog /\ posts[x] \in Sent
    BY <1>6, <1>a DEF ProofMade, CallsOK, NoPost
  <2>2. /\ posts' \in [Post -> Sent \cup {NoPost}]
        /\ posts'[x].op = posts[x].op /\ posts'[x].id = posts[x].id
        /\ posts'[x].passport = posts[x].passport
        /\ posts'[x].from = posts[x].from /\ posts'[x].mounted = posts[x].mounted
        /\ \A y \in Post : y # x => posts'[y] = posts[y]
    BY <1>a, <2>1 DEF CallsOK, Sent
  <2>3. \A y \in Post :
          \/ posts'[y].op = "idle"
          \/ /\ posts[y].op # "idle"
             /\ posts'[y].op = posts[y].op /\ posts'[y].id = posts[y].id
             /\ posts'[y].passport = posts[y].passport
             /\ posts'[y].from = posts[y].from /\ posts'[y].mounted = posts[y].mounted
    BY <2>1, <2>2 DEF Sent
  <2>4. QED
    BY <1>a, <2>1, <2>2, <2>3, PostsKept DEF CallsOK
<1>7. ASSUME NEW x \in Post, ProofFails(x) PROVE Goal
  <2>1. posts' = [posts EXCEPT ![x] = NoPost] /\ UNCHANGED dialog
    BY <1>7 DEF ProofFails
  <2>2. /\ posts' \in [Post -> Sent \cup {NoPost}]
        /\ posts'[x].op = "idle"
        /\ \A y \in Post : y # x => posts'[y] = posts[y]
    BY <1>a, <2>1 DEF CallsOK, NoPost
  <2>3. QED
    BY <1>a, <2>1, <2>2, PostsKept DEF CallsOK
<1>8. Goal
  BY <1>1, <1>2, <1>3, <1>4, <1>5, <1>6, <1>7
<1>9. QED
  BY <1>c, <1>8 DEF Tabs, WorkspacesTypeOK, ViewOK, SnapshotOK, ReadsOK, CallsOK, RestOK

LEMMA TabsStep ==
  ASSUME Server, Tabs, [WorkspacesNext]_all
  PROVE  Tabs'
<1>a. picked \in [Lender -> RequestId \cup {None}]
  BY DEF Tabs, WorkspacesTypeOK
<1>1. ASSUME NEW x \in Post, Settles(x) PROVE Tabs'
  BY <1>1, AnswerKeeps DEF Settles, Arrives, ComesToNothing
<1>2. ASSUME NEW l \in Lender, NEW r \in RequestId, Pick(l, r) PROVE Tabs'
  <2>1. UNCHANGED tabs /\ picked' \in [Lender -> RequestId \cup {None}]
    BY <1>2, <1>a DEF Pick
  <2>2. QED
    BY <2>1, OthersStep
<1>3. ASSUME NEW l \in Lender, BackToMarket(l) PROVE Tabs'
  <2>1. UNCHANGED tabs /\ picked' \in [Lender -> RequestId \cup {None}]
    BY <1>3, <1>a DEF BackToMarket
  <2>2. QED
    BY <2>1, OthersStep
<1>4. ASSUME UNCHANGED <<tabs, picked>> PROVE Tabs'
  BY <1>4, <1>a, OthersStep
<1>5. ASSUME NEW l \in Lender,
             \/ \E y \in Policy, v \in Validity : SendPolicy(l, y, v)
             \/ \E k \in CallId : Verify(l, k)
             \/ TakeBack(l) \/ Fund(l) \/ CallDue(l)
      PROVE  Tabs'
  BY <1>4, <1>5 DEF SendPolicy, Verify, TakeBack, Fund, CallDue
<1>6. CASE (\E k \in CallId : Verified(k)) \/ Passes
  BY <1>4, <1>6 DEF Verified, Passes
<1>7. CASE UNCHANGED all
  BY <1>4, <1>7 DEF all, tabs
<1>8. CASE Navigate \/ Reload
  BY <1>8, MountStep DEF Navigate, Reload
<1>9. QED
  BY <1>1, <1>2, <1>3, <1>5, <1>6, <1>7, <1>8, ReadingStep, CallingStep DEF WorkspacesNext

LEMMA BothStep ==
  ASSUME Server, Tabs, [WorkspacesNext]_all
  PROVE  Server' /\ Tabs' /\ RowsStay
  BY TabsTakeSteps, ServerKept, TabsStep

-----------------------------------------------------------------------------
(* The snapshot and sessionStorage.                                        *)

(* The steps that do not touch what the tab shows or holds.                *)
LEMMA ShownUntouched ==
  ASSUME WorkspacesNext \/ UNCHANGED all
  PROVE  \/ UNCHANGED <<snapshot, stored, late>>
         \/ \E k \in Read : WalletSigns(k) \/ ReadEnds(k)
         \/ ReadAgain
         \/ \E keptReads, keptPosts : Mount(keptReads, keptPosts)
<1>1. ASSUME NEW k \in Read, Connect(k) \/ WalletRefuses(k)
      PROVE  UNCHANGED <<snapshot, stored, late>>
  BY <1>1 DEF Connect, WalletRefuses
<1>2. ASSUME NEW x \in Post, \/ Confirm(x) \/ ClickWithdraw(x) \/ Generate(x) \/ ProofMade(x)
                             \/ ProofFails(x) \/ Settles(x)
      PROVE  UNCHANGED <<snapshot, stored, late>>
  BY <1>2 DEF Confirm, ClickWithdraw, Generate, ProofMade, ProofFails, Settles, Arrives,
              ComesToNothing, Answer, applicant
<1>3. ASSUME NEW l \in Lender, \/ \E r \in RequestId : Pick(l, r)
                               \/ \E y \in Policy, v \in Validity : SendPolicy(l, y, v)
                               \/ \E k \in CallId : Verify(l, k)
                               \/ BackToMarket(l) \/ TakeBack(l) \/ Fund(l) \/ CallDue(l)
      PROVE  UNCHANGED <<snapshot, stored, late>>
  BY <1>3 DEF Pick, SendPolicy, Verify, BackToMarket, TakeBack, Fund, CallDue, tabs, applicant
<1>4. CASE UNCHANGED all
  BY <1>4 DEF all, applicant
<1>5. CASE \/ Review \/ Refresh \/ CloseDialog \/ Passes
           \/ \E a \in Confirmable : OpenDialog(a)
           \/ \E k \in CallId : Verified(k)
  BY <1>5 DEF Review, Refresh, CloseDialog, OpenDialog, Verified, Passes, tabs, applicant
<1>6. QED
  BY <1>1, <1>2, <1>3, <1>4, <1>5 DEF WorkspacesNext, Navigate, Reload

LEMMA StoredStep ==
  ASSUME StoredIsHeld, [WorkspacesNext]_all
  PROVE  StoredIsHeld'
<1>1. CASE UNCHANGED <<snapshot, stored, late>>
  BY <1>1 DEF StoredIsHeld
<1>2. ASSUME NEW k \in Read, WalletSigns(k) PROVE StoredIsHeld'
  BY <1>2 DEF WalletSigns, StoredIsHeld
<1>3. ASSUME NEW k \in Read, ReadEnds(k) PROVE StoredIsHeld'
  <2>1. PICK w \in Passport \cup {None} :
          /\ stored' = w
          /\ \/ snapshot' = [status |-> IF w = None THEN "error" ELSE "ready", held |-> w]
             \/ late' = TRUE
    BY <1>3 DEF ReadEnds, Written
  <2>2. QED
    BY <2>1 DEF StoredIsHeld
<1>4. CASE ReadAgain
  BY <1>4 DEF ReadAgain, Nothing, StoredIsHeld
<1>5. ASSUME NEW keptReads, NEW keptPosts, Mount(keptReads, keptPosts) PROVE StoredIsHeld'
  BY <1>5 DEF Mount, Restored, Nothing, StoredIsHeld
<1>6. QED
  BY <1>1, <1>2, <1>3, <1>4, <1>5, ShownUntouched

-----------------------------------------------------------------------------
(* Offers and loans only go forward.                                       *)

OfferStays(o) ==
  Exists(offers[o]) =>
    /\ Exists(offers'[o])
    /\ offers'[o].request = offers[o].request
    /\ offers'[o].proof = offers[o].proof
    /\ offers'[o].lender = offers[o].lender
    /\ offers[o].status # "open" => offers'[o].status = offers[o].status

LoanStays(n) ==
  Exists(loans[n]) =>
    /\ Exists(loans'[n])
    /\ loans'[n].request = loans[n].request
    /\ loans[n].status # "funded" => loans'[n].status # "funded"
    /\ loans[n].status = "repaid" => loans'[n].status = "repaid"

LEMMA CascadesKeepOffers ==
  ASSUME TypeOK, NEW b,
         \/ \E r \in RequestId : WithdrawRequest(b, r)
         \/ \E o \in OfferId, n \in LoanId : AcceptOffer(b, o, n)
  PROVE  \A o \in OfferId : OfferStays(o) /\ (Exists(offers'[o]) => Exists(offers[o]))
<1>a. offers \in [OfferId -> OfferRow \cup Blank]
  BY DEF TypeOK
<1>1. ASSUME NEW r \in RequestId, WithdrawRequest(b, r), NEW o \in OfferId
      PROVE  OfferStays(o) /\ (Exists(offers'[o]) => Exists(offers[o]))
  BY <1>a, <1>1 DEF WithdrawRequest, WithdrawOpenOffers, OfferStays, OfferRow, Exists
<1>2. ASSUME NEW x \in OfferId, NEW n \in LoanId, AcceptOffer(b, x, n), NEW o \in OfferId
      PROVE  OfferStays(o) /\ (Exists(offers'[o]) => Exists(offers[o]))
  BY <1>a, <1>2 DEF AcceptOffer, MayAcceptOffer, SettleOffers, OfferStays, OfferRow, Exists
<1>3. QED
  BY <1>1, <1>2

LEMMA OffersStay ==
  ASSUME TypeOK, [Next]_vars, ~EraseState
  PROVE  \A o \in OfferId : OfferStays(o)
<1>1. CASE offers' = offers
  BY <1>1 DEF OfferStays
<1>2. ASSUME NEW l \in Lender, NEW x \in OfferId, NEW p \in ProofId, CreateOffer(l, x, p)
      PROVE  \A o \in OfferId : OfferStays(o)
  BY <1>2 DEF CreateOffer, Unused, TypeOK, OfferStays, Exists, NoRow
<1>3. QED
  BY <1>1, <1>2, OfferWriters, CascadesKeepOffers

LEMMA LoansStay ==
  ASSUME TypeOK, [Next]_vars, ~EraseState
  PROVE  \A n \in LoanId : LoanStays(n)
<1>a. loans \in [LoanId -> LoanRow \cup Blank]
  BY DEF TypeOK
<1>1. CASE loans' = loans
  BY <1>1 DEF LoanStays
<1>2. ASSUME NEW b \in Borrower, NEW o \in OfferId, NEW m \in LoanId, AcceptOffer(b, o, m)
      PROVE  \A n \in LoanId : LoanStays(n)
  BY <1>2, <1>a DEF AcceptOffer, MayAcceptOffer, Unused, LoanStays, Exists, NoRow
<1>3. ASSUME NEW m \in LoanId, NEW status \in {"active", "repayment_due", "repaid"},
             SetLoan(m, status), loans[m].status \in {"funded", "active", "repayment_due"}
      PROVE  \A n \in LoanId : LoanStays(n)
  <2>1. loans[m] \in LoanRow
    BY <1>3, <1>a DEF Blank, NoRow, Wiped
  <2>2. loans' = [loans EXCEPT ![m].status = status]
    BY <1>3 DEF SetLoan
  <2>3. QED
    BY <1>3, <1>a, <2>1, <2>2 DEF LoanStays, LoanRow, Exists
<1>4. ASSUME NEW b \in Borrower, NEW m \in LoanId, DrawLoan(b, m) \/ RepayLoan(b, m)
      PROVE  \A n \in LoanId : LoanStays(n)
  BY <1>3, <1>4 DEF DrawLoan, MayDrawLoan, RepayLoan, MayRepayLoan, Repayable
<1>5. ASSUME NEW l \in Lender, NEW m \in LoanId, MarkRepaymentDue(l, m)
      PROVE  \A n \in LoanId : LoanStays(n)
  BY <1>3, <1>5 DEF MarkRepaymentDue
<1>6. QED
  BY <1>1, <1>2, <1>4, <1>5
     DEF Next, RequestRoutes, ChallengeRoutes, ReceiptRoute, VerifyRoute,
         OfferRoutes, PayoutRoute, LoanRoutes, ServerStep, vars, tables, CreateSession,
         PublishRequest, WithdrawRequest, SubmitProof, CreateChallenge, WithdrawChallenge,
         CreateOffer, BeginVerify, AnnouncePayout, FinishVerify, Reset, Restart, Tick

(* A tab makes an offer by Fund only.                                      *)
LEMMA OffersOnlyFunded ==
  ASSUME Server, Tabs, [WorkspacesNext]_all, ~ \E l \in Lender : Fund(l)
  PROVE  \A o \in OfferId : Exists(offers'[o]) =>
           /\ Exists(offers[o]) /\ offers'[o].proof = offers[o].proof
           /\ offers'[o].lender = offers[o].lender
<1> USE DEF server
<1>a. TypeOK /\ \A o \in OfferId : OfferStays(o)
  BY TabsTakeSteps, NobodyErases, OffersStay DEF Server
<1>1. CASE offers' = offers
  BY <1>1
<1>2. ASSUME \A o \in OfferId : Exists(offers'[o]) => Exists(offers[o])
      PROVE  \A o \in OfferId : Exists(offers'[o]) =>
               /\ Exists(offers[o]) /\ offers'[o].proof = offers[o].proof
               /\ offers'[o].lender = offers[o].lender
  BY <1>a, <1>2 DEF OfferStays
<1>3. ASSUME NEW x \in Post, Arrives(x)
      PROVE  \/ offers' = offers
             \/ \A o \in OfferId : Exists(offers'[o]) => Exists(offers[o])
  <2>1. Perform(posts[x]) /\ Names(posts[x])
    BY <1>3 DEF Arrives, Tabs, Named
  <2>2. \A n : n \in Unused(loans) => n \in LoanId
    BY <1>a DEF Unused, TypeOK
  <2>3. \/ \E r \in RequestId : WithdrawRequest(Applicant, r)
        \/ \E o \in OfferId, n \in LoanId : AcceptOffer(Applicant, o, n)
        \/ offers' = offers
    BY <2>1, <2>2 DEF Perform, Names, PublishRequest, DrawLoan, RepayLoan, SetLoan, SubmitProof,
                      AcceptOffer, MayAcceptOffer
  <2>4. QED
    BY <1>a, <2>3, CascadesKeepOffers
<1>4. ASSUME NEW x \in Post, ComesToNothing(x) PROVE offers' = offers
  BY <1>4 DEF ComesToNothing, vars
<1>5. ASSUME NEW l \in Lender,
             \/ \E y \in Policy, v \in Validity : SendPolicy(l, y, v)
             \/ \E k \in CallId : Verify(l, k)
             \/ TakeBack(l) \/ CallDue(l)
      PROVE  offers' = offers
  BY <1>5 DEF SendPolicy, CreateChallenge, Verify, BeginVerify, TakeBack, WithdrawChallenge,
              CallDue, MarkRepaymentDue, SetLoan, tables
<1>6. CASE (\E k \in CallId : Verified(k)) \/ Passes
  BY <1>1, <1>6 DEF Verified, FinishVerify, Passes, Tick, tables
<1>7. UNCHANGED vars => offers' = offers
  BY DEF vars
<1>8. CASE UNCHANGED all
  BY <1>1, <1>7, <1>8 DEF all
<1>9. QED
  BY <1>1, <1>2, <1>3, <1>4, <1>5, <1>6, <1>7, <1>8
     DEF WorkspacesNext, Settles, Connect, WalletRefuses, WalletSigns, ReadEnds, ReadAgain,
         Review, Refresh, CloseDialog, Navigate, Reload, Mount, OpenDialog, Confirm,
         ClickWithdraw, Generate, ProofMade, ProofFails, Pick, BackToMarket

-----------------------------------------------------------------------------
(* What a lender funds.                                                    *)

LEMMA OwnStep ==
  ASSUME Server, Tabs, FundsItsOwn, [WorkspacesNext]_all
  PROVE  FundsItsOwn'
<1>a. /\ TypeOK /\ Links /\ OfferRestsOnReceipt /\ ProofsBounded
      /\ [Next]_vars /\ RowsStay /\ ~EraseState
  BY TabsTakeSteps, ServerKept, NobodyErases DEF Server, Receipts
<1> SUFFICES ASSUME NEW o \in OfferId, Exists(offers'[o])
             PROVE  challenges'[proofs'[offers'[o].proof].challenge].lender = offers'[o].lender
  BY DEF FundsItsOwn
<1>1. ASSUME NEW p \in ProofId, Exists(proofs[p]), offers'[o].proof = p,
             challenges[proofs[p].challenge].lender = offers'[o].lender
      PROVE  challenges'[proofs'[offers'[o].proof].challenge].lender = offers'[o].lender
  <2>1. proofs[p].challenge \in ChallengeId /\ Exists(challenges[proofs[p].challenge])
    BY <1>a, <1>1, ReceiptType DEF ProofRow, Links, ProofsAnswerTheirChallenge, Exists
  <2>2. QED
    BY <1>a, <1>1, <2>1 DEF RowsStay, ProofKept, ChallengeKept
<1>2. CASE /\ Exists(offers[o]) /\ offers'[o].proof = offers[o].proof
           /\ offers'[o].lender = offers[o].lender
  <2>1. offers[o].proof \in ProofId /\ Exists(proofs[offers[o].proof])
    BY <1>a, <1>2
       DEF TypeOK, Exists, Blank, NoRow, Wiped, OfferRow, OfferRestsOnReceipt
  <2>2. challenges[proofs[offers[o].proof].challenge].lender = offers[o].lender
    BY <1>2 DEF FundsItsOwn
  <2>3. QED
    BY <1>1, <1>2, <2>1, <2>2
<1>3. CASE \E l \in Lender : Fund(l)
  <2>1. PICK l \in Lender : Fund(l)
    BY <1>3
  <2> DEFINE p == LenderProof(l)
  <2>2. /\ p \in ProofId /\ Exists(proofs[p])
        /\ challenges[proofs[p].challenge].lender = l
        /\ CreateOffer(l, NextId(offers), p)
    BY <1>a, <2>1, LenderProofIs, OwnChallengesAre DEF Fund
  <2> HIDE DEF p
  <2>3. CASE o = NextId(offers)
    <3>1. offers'[o].proof = p /\ offers'[o].lender = l
      BY <1>a, <2>2, <2>3 DEF CreateOffer, TypeOK
    <3>2. QED
      BY <1>1, <2>2, <3>1
  <2>4. CASE o # NextId(offers)
    <3>1. offers'[o] = offers[o]
      BY <1>a, <2>2, <2>4 DEF CreateOffer, TypeOK
    <3>2. QED
      BY <1>2, <3>1
  <2>5. QED
    BY <2>3, <2>4
<1>4. CASE ~ \E l \in Lender : Fund(l)
  <2>1. /\ Exists(offers[o]) /\ offers'[o].proof = offers[o].proof
        /\ offers'[o].lender = offers[o].lender
    BY <1>a, <1>4, OffersOnlyFunded
  <2>2. QED
    BY <1>2, <2>1
<1>5. QED
  BY <1>3, <1>4

-----------------------------------------------------------------------------
(* What one confirmation does.                                             *)

(* Once an acceptance, a draw or a repayment has worked, it cannot work    *)
(* again: the row it names is past it.                                     *)
Spent(a) ==
  \/ a.op = "accept" /\ Exists(offers[a.id]) /\ offers[a.id].status # "open"
  \/ a.op = "draw" /\ Exists(loans[a.id]) /\ loans[a.id].status # "funded"
  \/ a.op = "repay" /\ loans[a.id].status = "repaid"

Effects ==
  dialog # NoDialog /\ dialog.action.op # "list" =>
    /\ dialog.effects <= 1
    /\ dialog.effects = 1 => Spent(dialog.action)

LEMMA SpentStays ==
  ASSUME \A o \in OfferId : OfferStays(o), \A n \in LoanId : LoanStays(n),
         NEW a, Names(a), Spent(a)
  PROVE  Spent(a)'
  BY DEF Spent, Names, OfferStays, LoanStays, Exists

LEMMA SpentIsRefused ==
  ASSUME NEW a, Perform(a) PROVE ~Spent(a)
  BY DEF Perform, Spent, AcceptOffer, MayAcceptOffer, DrawLoan, MayDrawLoan, RepayLoan,
         MayRepayLoan, Repayable

LEMMA PerformSpends ==
  ASSUME TypeOK, NEW a, Names(a), Perform(a), a.op \in {"accept", "draw", "repay"}
  PROVE  Spent(a)'
<1>a. /\ offers \in [OfferId -> OfferRow \cup Blank]
      /\ loans \in [LoanId -> LoanRow \cup Blank]
  BY DEF TypeOK
<1>1. CASE a.op = "accept" /\ AcceptOffer(Applicant, a.id, NextId(loans))
  <2>1. a.id \in OfferId /\ offers[a.id] \in OfferRow
    BY <1>1, <1>a DEF Names, AcceptOffer, MayAcceptOffer, Blank, NoRow, Wiped
  <2>2. offers'[a.id].status = "accepted"
    BY <1>1, <2>1 DEF AcceptOffer, SettleOffers, OfferRow
  <2>3. QED
    BY <1>1, <2>2 DEF Spent, Exists
<1>2. CASE a.op = "draw" /\ DrawLoan(Applicant, a.id)
  <2>1. a.id \in LoanId /\ loans[a.id] \in LoanRow
    BY <1>2, <1>a DEF Names, DrawLoan, MayDrawLoan, Blank, NoRow, Wiped
  <2>2. loans'[a.id].status = "active"
    BY <1>2, <1>a, <2>1 DEF DrawLoan, SetLoan, LoanRow
  <2>3. QED
    BY <1>2, <2>2 DEF Spent, Exists
<1>3. CASE a.op = "repay" /\ RepayLoan(Applicant, a.id)
  <2>1. a.id \in LoanId /\ loans[a.id] \in LoanRow
    BY <1>3, <1>a DEF Names, RepayLoan, MayRepayLoan, Repayable, Blank, NoRow, Wiped
  <2>2. loans'[a.id].status = "repaid"
    BY <1>3, <1>a, <2>1 DEF RepayLoan, SetLoan, LoanRow
  <2>3. QED
    BY <1>3, <2>2 DEF Spent
<1>4. QED
  BY <1>1, <1>2, <1>3 DEF Perform

LEMMA DialogWriters ==
  ASSUME [WorkspacesNext]_all
  PROVE  \/ dialog' = dialog \/ dialog' = NoDialog
         \/ \E a \in Confirmable : OpenDialog(a)
         \/ \E x \in Post : Confirm(x) \/ Settles(x)
<1>1. ASSUME NEW k \in Read, Connect(k) \/ WalletRefuses(k) \/ WalletSigns(k) \/ ReadEnds(k)
      PROVE  dialog' = dialog
  BY <1>1 DEF Connect, WalletRefuses, WalletSigns, ReadEnds, calls
<1>2. ASSUME NEW x \in Post, ClickWithdraw(x) \/ Generate(x) \/ ProofMade(x) \/ ProofFails(x)
      PROVE  dialog' = dialog
  BY <1>2 DEF ClickWithdraw, Generate, ProofMade, ProofFails
<1>3. ASSUME NEW l \in Lender, \/ \E r \in RequestId : Pick(l, r)
                               \/ \E y \in Policy, v \in Validity : SendPolicy(l, y, v)
                               \/ \E k \in CallId : Verify(l, k)
                               \/ BackToMarket(l) \/ TakeBack(l) \/ Fund(l) \/ CallDue(l)
      PROVE  dialog' = dialog
  BY <1>3 DEF Pick, SendPolicy, Verify, BackToMarket, TakeBack, Fund, CallDue, tabs, calls
<1>4. CASE UNCHANGED all
  BY <1>4 DEF all, calls
<1>5. CASE \/ ReadAgain \/ Review \/ Refresh \/ Passes
           \/ \E k \in CallId : Verified(k)
  BY <1>5 DEF ReadAgain, Review, Refresh, Verified, Passes, tabs, calls
<1>6. CASE CloseDialog \/ Navigate \/ Reload
  BY <1>6 DEF CloseDialog, Navigate, Reload, Mount
<1>7. QED
  BY <1>1, <1>2, <1>3, <1>4, <1>5, <1>6 DEF WorkspacesNext

LEMMA EffectsStep ==
  ASSUME Server, Tabs, Effects, [WorkspacesNext]_all
  PROVE  Effects'
<1>a. /\ TypeOK
      /\ \A o \in OfferId : OfferStays(o)
      /\ \A n \in LoanId : LoanStays(n)
  BY TabsTakeSteps, NobodyErases, OffersStay, LoansStay DEF Server
<1>b. dialog # NoDialog => /\ dialog \in Dialog /\ dialog.effects \in Nat
                          /\ Names(dialog.action)
                          /\ dialog.action.op \in {"list", "accept", "draw", "repay"}
  BY DEF Tabs, WorkspacesTypeOK, Named, Dialog
(* A confirmation that is about the same thing and counts no more.         *)
<1>c. ASSUME dialog # NoDialog, dialog'.action = dialog.action,
             dialog'.effects = dialog.effects
      PROVE  Effects'
  <2>1. PICK a : a = dialog.action
    OBVIOUS
  <2>2. Spent(a) => Spent(a)'
    BY <1>a, <1>b, <1>c, <2>1, SpentStays
  <2>3. dialog.effects = 1 /\ a.op # "list" => Spent(a)
    BY <1>c, <2>1 DEF Effects
  <2>4. QED
    BY <1>c, <2>1, <2>2, <2>3 DEF Effects, Spent
<1>1. CASE dialog' = dialog
  <2>1. CASE dialog = NoDialog
    BY <1>1, <2>1 DEF Effects
  <2>2. QED
    BY <1>1, <1>c, <2>1
<1>2. CASE dialog' = NoDialog
  BY <1>2 DEF Effects
<1>3. ASSUME NEW a \in Confirmable, OpenDialog(a) PROVE Effects'
  BY <1>3 DEF OpenDialog, Effects
<1>4. ASSUME NEW x \in Post, Confirm(x) PROVE Effects'
  <2>1. dialog # NoDialog /\ dialog' = [dialog EXCEPT !.status = "running"]
    BY <1>4 DEF Confirm
  <2>2. dialog'.action = dialog.action /\ dialog'.effects = dialog.effects
    BY <1>b, <2>1 DEF Dialog
  <2>3. QED
    BY <1>c, <2>1, <2>2
<1>5. ASSUME NEW x \in Post, Settles(x) PROVE Effects'
  <2>1. PICK effects \in {0, 1} :
          /\ \E ok \in BOOLEAN : Answer(x, ok, effects)
          /\ posts[x].op # "idle"
          /\ effects = 1 => Perform(posts[x])
    <3>1. CASE Arrives(x)
      BY <3>1 DEF Arrives
    <3>2. CASE ComesToNothing(x)
      <4>1. \E ok \in BOOLEAN : Answer(x, ok, 0)
        BY <3>2, Zenon DEF ComesToNothing
      <4>2. posts[x].op # "idle" /\ 0 \in {0, 1} /\ 0 # 1
        BY <3>2 DEF ComesToNothing
      <4>3. QED
        BY <4>1, <4>2
    <3>3. QED
      BY <1>5, <3>1, <3>2 DEF Settles
  <2>2. \/ dialog' = dialog
        \/ /\ Asks(x) /\ dialog \in Dialog
           /\ dialog'.action = dialog.action
           /\ dialog'.effects = dialog.effects + effects
    BY <2>1, AnswerKeeps
  <2>3. CASE dialog' # dialog
    <3>1. /\ dialog # NoDialog /\ dialog.effects \in Nat
          /\ posts[x].op = dialog.action.op /\ posts[x].id = dialog.action.id
      BY <1>b, <2>2, <2>3 DEF Tabs, Asked
    <3>2. CASE effects = 0
      BY <1>c, <2>2, <2>3, <3>1, <3>2
    <3>3. CASE effects = 1 /\ dialog.action.op # "list"
      <4>1. PICK a : a = posts[x]
        OBVIOUS
      <4>2. a.op = dialog.action.op /\ a.id = dialog.action.id /\ Perform(a) /\ Names(a)
        BY <2>1, <3>1, <3>3, <4>1 DEF Tabs, Named
      <4>3. ~Spent(a) /\ Spent(a)'
        BY <1>a, <1>b, <3>1, <3>3, <4>2, SpentIsRefused, PerformSpends
      <4>4. ~Spent(dialog.action) /\ dialog.effects <= 1
        BY <3>1, <3>3, <4>2, <4>3 DEF Spent, Effects
      <4>5. dialog.effects = 0
        BY <3>1, <3>3, <4>4 DEF Effects
      <4>6. Spent(dialog.action)'
        BY <2>2, <2>3, <4>2, <4>3 DEF Spent
      <4>7. QED
        BY <2>2, <2>3, <3>3, <4>5, <4>6 DEF Effects
    <3>4. CASE dialog.action.op = "list"
      BY <2>2, <2>3, <3>4 DEF Effects
    <3>5. QED
      BY <3>2, <3>3, <3>4
  <2>4. QED
    BY <1>1, <2>3
<1>6. QED
  BY <1>1, <1>2, <1>3, <1>4, <1>5, DialogWriters

-----------------------------------------------------------------------------
(* The screen goes forward.                                                *)

(* A projection is of a state that was: what it shows of offers and loans  *)
(* is still there, on the same request.                                    *)
ViewIsPast ==
  /\ \A o \in OfferId : Exists(view.offers[o]) =>
       Exists(offers[o]) /\ offers[o].request = view.offers[o].request
  /\ \A n \in LoanId : Exists(view.loans[n]) =>
       Exists(loans[n]) /\ loans[n].request = view.loans[n].request

LEMMA ViewInit == WorkspacesInit => ViewIsPast
  BY ProjectionIs DEF WorkspacesInit, ViewIsPast

LEMMA ViewWriters ==
  ASSUME [WorkspacesNext]_all
  PROVE  view' = view \/ view' = Projection
<1>1. ASSUME NEW k \in Read, Connect(k) \/ WalletRefuses(k) \/ WalletSigns(k) \/ ReadEnds(k)
      PROVE  view' = view
  BY <1>1 DEF Connect, WalletRefuses, WalletSigns, ReadEnds
<1>2. ASSUME NEW x \in Post, \/ Confirm(x) \/ ClickWithdraw(x) \/ Generate(x) \/ ProofMade(x)
                             \/ ProofFails(x) \/ Settles(x)
      PROVE  view' = view
  BY <1>2 DEF Confirm, ClickWithdraw, Generate, ProofMade, ProofFails, Settles, Arrives,
              ComesToNothing, Answer
<1>3. ASSUME NEW l \in Lender, \/ \E r \in RequestId : Pick(l, r)
                               \/ \E y \in Policy, v \in Validity : SendPolicy(l, y, v)
                               \/ \E k \in CallId : Verify(l, k)
                               \/ BackToMarket(l) \/ TakeBack(l) \/ Fund(l) \/ CallDue(l)
      PROVE  view' = view
  BY <1>3 DEF Pick, SendPolicy, Verify, BackToMarket, TakeBack, Fund, CallDue, tabs
<1>4. CASE UNCHANGED all
  BY <1>4 DEF all
<1>5. CASE \/ ReadAgain \/ Review \/ CloseDialog \/ Passes
           \/ \E a \in Confirmable : OpenDialog(a)
           \/ \E k \in CallId : Verified(k)
  BY <1>5 DEF ReadAgain, Review, CloseDialog, OpenDialog, Verified, Passes, tabs
<1>6. CASE Refresh \/ Navigate \/ Reload
  BY <1>6 DEF Refresh, Navigate, Reload, Mount
<1>7. QED
  BY <1>1, <1>2, <1>3, <1>4, <1>5, <1>6 DEF WorkspacesNext

LEMMA ViewStep ==
  ASSUME Server, Tabs, ViewIsPast, [WorkspacesNext]_all
  PROVE  ViewIsPast'
<1>a. /\ \A o \in OfferId : OfferStays(o)
      /\ \A n \in LoanId : LoanStays(n)
  BY TabsTakeSteps, NobodyErases, OffersStay, LoansStay DEF Server
<1>1. CASE view' = view
  BY <1>a, <1>1 DEF ViewIsPast, OfferStays, LoanStays
<1>2. CASE view' = Projection
  BY <1>a, <1>2, ProjectionIs DEF ViewIsPast, OfferStays, LoanStays
<1>3. QED
  BY <1>1, <1>2, ViewWriters

(* With a request on the screen, what it shows depends on the rows only.   *)
LEMMA StepIs ==
  ASSUME NEW v, NEW s, NEW rev, MyRequest(v) # None
  PROVE  Step(v, s, rev) = IF LoanShown(v) # None THEN 5
                           ELSE IF OffersShown(v) # {} THEN 4 ELSE 3
  BY DEF Step

LEMMA LoanStaysOnScreen ==
  ASSUME TypeOK, WorkspacesTypeOK, ViewIsPast, MyRequest(Projection) = MyRequest(view),
         LoanShown(view) # None
  PROVE  LoanShown(Projection) # None
<1>1. LoanShown(view) \in LoanId /\ Exists(view.loans[LoanShown(view)])
      /\ view.loans[LoanShown(view)].request = MyRequest(view)
  BY ViewsAreTyped, LoanShownIs DEF LoanRow, Exists
<1>2. Exists(loans[LoanShown(view)]) /\ loans[LoanShown(view)].request = MyRequest(view)
  BY <1>1 DEF ViewIsPast
<1>3. QED
  BY <1>1, <1>2, ViewsAreTyped, LoanShownIs, ProjectionIs

(* An offer leaves the screen for a loan, or with its request.             *)
LEMMA OfferLeavesForLoan ==
  ASSUME Server, WorkspacesTypeOK, ViewIsPast, MyRequest(Projection) = MyRequest(view),
         OffersShown(view) # {}, OffersShown(Projection) = {}
  PROVE  LoanShown(Projection) # None
<1> DEFINE r == MyRequest(view)
<1>1. PICK o \in OffersShown(view) : TRUE
  OBVIOUS
<1>2. /\ o \in OfferId /\ Exists(offers[o]) /\ offers[o].request = r /\ r # None
  <2>1. /\ o \in OfferId /\ Exists(view.offers[o])
        /\ view.offers[o].request = r /\ r # None
    BY ViewsAreTyped, OffersShownAre DEF Exists
  <2>2. QED
    BY <2>1 DEF ViewIsPast
<1>3. offers[o].status \in {"open", "accepted", "declined", "withdrawn"}
  BY <1>2 DEF Server, TypeOK, OfferRow, Exists, Blank, NoRow, Wiped
<1>4. offers[o].status \notin {"open", "accepted"}
  BY <1>2, ProjectionIs DEF OffersShown, Server, TypeOK
<1>5. r \in RequestId /\ requests[r].status # "withdrawn"
  BY <1>2, ViewsAreTyped, MyRequestIs, ProjectionIs DEF Server
<1>6. LentOn(r)
  BY <1>2, <1>3, <1>4, <1>5 DEF Server, Decided
<1>7. QED
  BY <1>6, ViewsAreTyped, LoanShownIs, ProjectionIs DEF LentOn, Server

LEMMA ScreenStep ==
  ASSUME Server, Tabs, ViewIsPast, [WorkspacesNext]_all,
         MyRequest(view) # None, MyRequest(view') = MyRequest(view)
  PROVE  Step(view', snapshot', reviewed') >= Screen
<1>1. Screen = IF LoanShown(view) # None THEN 5
               ELSE IF OffersShown(view) # {} THEN 4 ELSE 3
  <2>1. Screen = Step(view, snapshot, reviewed)
    BY DEF Screen
  <2>2. QED
    BY <2>1, StepIs
<1>2. Step(view', snapshot', reviewed') =
        IF LoanShown(view') # None THEN 5
        ELSE IF OffersShown(view') # {} THEN 4 ELSE 3
  BY StepIs
<1>3. CASE view' = view
  BY <1>1, <1>2, <1>3
<1>4. CASE view' = Projection
  <2>1. LoanShown(view) # None => LoanShown(Projection) # None
    BY <1>4, LoanStaysOnScreen DEF Server, Tabs
  <2>2. OffersShown(view) # {} /\ OffersShown(Projection) = {}
          => LoanShown(Projection) # None
    BY <1>4, OfferLeavesForLoan DEF Tabs
  <2>3. QED
    BY <1>1, <1>2, <1>4, <2>1, <2>2
<1>5. QED
  BY <1>3, <1>4, ViewWriters

-----------------------------------------------------------------------------
(* The buttons.                                                            *)

LEMMA ApplicantIsParty ==
  ASSUME Server PROVE Applicant \in parties
  BY WorkspacesAssumption DEF Server, Session

LEMMA NewIds ==
  ASSUME TypeOK
  PROVE  /\ Unused(requests) # {} => NextId(requests) \in Unused(requests)
         /\ Unused(proofs) # {} => NextId(proofs) \in Unused(proofs)
         /\ Unused(loans) # {} => NextId(loans) \in Unused(loans)
<1>1. RequestId \subseteq Nat /\ ProofId \subseteq Nat /\ LoanId \subseteq Nat
  BY WorkspacesAssumption
<1>2. QED
  BY <1>1, NextIdIs DEF TypeOK

(* The request on an up-to-date screen is the applicant's, and open for    *)
(* business.                                                               *)
LEMMA ShownIsLive ==
  ASSUME Server, MyRequest(Projection) # None
  PROVE  /\ MyRequest(Projection) \in RequestId
         /\ Live(MyRequest(Projection))
         /\ OwnsRequest(Applicant, MyRequest(Projection))
<1>1. /\ MyRequest(Projection) \in RequestId
      /\ requests[MyRequest(Projection)] \in RequestRow
      /\ requests[MyRequest(Projection)].status # "withdrawn"
      /\ requests[MyRequest(Projection)].borrower = Applicant
  BY ViewsAreTyped, MyRequestIs, ProjectionIs DEF Server
<1>2. QED
  BY <1>1, ApplicantIsParty DEF Live, Exists, OwnsRequest, RequestRow

LEMMA NoLoanNotLent ==
  ASSUME Server, LoanShown(Projection) = None
  PROVE  ~LentOn(MyRequest(Projection))
  BY ViewsAreTyped, LoanShownIs, ProjectionIs DEF LentOn, Server

LEMMA AcceptWorks ==
  ASSUME Server, NEW o \in OffersShown(Projection), LoanShown(Projection) = None,
         Unused(loans) # {}
  PROVE  MayAcceptOffer(Applicant, o, NextId(loans))
<1> DEFINE r == MyRequest(Projection)
<1>1. /\ o \in OfferId /\ offers[o] \in OfferRow
      /\ offers[o].status \in {"open", "accepted"}
      /\ offers[o].request = r /\ r # None
  BY ViewsAreTyped, OffersShownAre, ProjectionIs DEF Server
<1>2. offers[o].status = "open"
  <2>1. ASSUME offers[o].status = "accepted" PROVE LentOn(r)
    <3>1. PICK n \in LoanId : Exists(loans[n]) /\ loans[n].offer = o
      BY <1>1, <2>1 DEF Server, OneLoanPerRequest
    <3>2. loans[n].request = r
      BY <1>1, <3>1 DEF Server, OneLoanPerRequest
    <3>3. QED
      BY <3>1, <3>2 DEF LentOn
  <2>2. QED
    BY <1>1, <2>1, NoLoanNotLent
<1>3. r \in RequestId /\ Live(r) /\ OwnsRequest(Applicant, r)
  BY <1>1, ShownIsLive
<1>4. requests[r].status # "accepted"
  BY <1>3, NoLoanNotLent DEF Server, Decided
<1>5. NextId(loans) \in Unused(loans)
  BY NewIds DEF Server
<1>6. QED
  BY <1>1, <1>2, <1>3, <1>4, <1>5 DEF MayAcceptOffer, Negotiable

LEMMA LoanActionsWork ==
  ASSUME Server, LoanShown(Projection) # None, NEW a,
         \/ a = Does("draw", LoanShown(Projection), None)
            /\ loans[LoanShown(Projection)].status = "funded"
         \/ a = Does("repay", LoanShown(Projection), None)
            /\ loans[LoanShown(Projection)].status = "repayment_due"
  PROVE  MayPerform(a)
<1> DEFINE n == LoanShown(Projection)
<1>1. n \in LoanId /\ loans[n].request = MyRequest(Projection) /\ Exists(loans[n])
  BY ViewsAreTyped, LoanShownIs, ProjectionIs DEF Server, LoanRow, Exists
<1>2. MyRequest(Projection) # None
  <2>1. loans[n].request \in RequestId
    BY <1>1 DEF Server, TypeOK, LoanRow, Exists, Blank, NoRow, Wiped
  <2>2. QED
    BY <1>1, <2>1, WorkspacesAssumption
<1>3. OwnsRequest(Applicant, loans[n].request)
  BY <1>1, <1>2, ShownIsLive
<1>4. QED
  BY <1>3 DEF MayPerform, Does, MayDrawLoan, MayRepayLoan, Repayable

LEMMA PageWorks ==
  ASSUME Server, WorkspacesTypeOK, view = Projection, NEW a \in OnPage, HasId(a)
  PROVE  MayPerform(a)
<1>1. CASE a = Does("withdraw", MyRequest(view), None) /\ MayWithdraw
  <2>1. MyRequest(Projection) # None /\ ~LentOn(MyRequest(Projection))
    BY <1>1, NoLoanNotLent DEF MayWithdraw
  <2>2. MayWithdrawRequest(Applicant, MyRequest(Projection))
    BY <2>1, ShownIsLive DEF Server, Decided, MayWithdrawRequest, Negotiable
  <2>3. QED
    BY <1>1, <2>2 DEF MayPerform, Does
<1>2. CASE a = Does("prove", ChallengeShown(view), snapshot.held) /\ MayProve
  <2> DEFINE c == ChallengeShown(Projection)
  <2>1. /\ c # None /\ challenges[c].expiresAt > now /\ MyRequest(Projection) # None
        /\ a.op = "prove" /\ a.id = c
    BY <1>2, ProjectionIs DEF MayProve, Screen, Step, Does
  <2>2. challenges[c].status \in {"pending", "answered"}
        /\ challenges[c].request = MyRequest(Projection)
    BY <2>1, ViewsAreTyped, ChallengeShownIs, ProjectionIs DEF Server, ChallengeRow
  <2>3. NextId(proofs) \in Unused(proofs)
    BY <2>1, NewIds DEF Server, HasId
  <2>4. MaySubmitProof(Applicant, NextId(proofs), c)
    BY <2>1, <2>2, <2>3, ShownIsLive DEF MaySubmitProof
  <2>5. QED
    BY <2>1, <2>4 DEF MayPerform
<1>3. QED
  BY <1>1, <1>2 DEF OnPage

LEMMA ButtonsHold ==
  ASSUME Server, Tabs
  PROVE  ButtonsWork
<1> SUFFICES ASSUME view = Projection, NEW a \in Confirmable \cup OnPage, HasId(a)
             PROVE  MayPerform(a)
  BY DEF ButtonsWork
<1>1. CASE a \in OnPage
  BY <1>1, PageWorks DEF Tabs
<1>2. CASE a \in Confirmable
  <2>1. CASE Screen = 2
    <3>1. a.op = "list"
      BY <1>2, <2>1 DEF Confirmable, Does
    <3>2. NextId(requests) \in Unused(requests)
      BY <3>1, NewIds DEF Server, HasId
    <3>3. QED
      BY <3>1, <3>2, ApplicantIsParty DEF MayPerform, MayPublishRequest
  <2>2. CASE Screen = 4
    <3>1. PICK o \in OffersShown(Projection) : a = Does("accept", o, None)
      BY <1>2, <2>2 DEF Confirmable
    <3>2. LoanShown(Projection) = None
      BY <2>2 DEF Screen, Step
    <3>3. a.op = "accept" /\ a.id = o
      BY <3>1 DEF Does
    <3>4. MayAcceptOffer(Applicant, o, NextId(loans))
      BY <3>1, <3>2, <3>3, AcceptWorks DEF HasId
    <3>5. QED
      BY <3>3, <3>4 DEF MayPerform
  <2>3. CASE Screen = 5
    <3>1. LoanShown(Projection) # None
      <4>1. LoanShown(view) = None => Screen # 5
        BY DEF Screen, Step
      <4>2. QED
        BY <2>3, <4>1
    <3>2. a \in OffersLoanActions(LoanShown(Projection))
      BY <1>2, <2>3 DEF Confirmable
    <3>3. QED
      BY <3>1, <3>2, LoanActionsWork, ProjectionIs DEF OffersLoanActions
  <2>4. QED
    BY <1>2, <2>1, <2>2, <2>3 DEF Confirmable
<1>3. QED
  BY <1>1, <1>2

-----------------------------------------------------------------------------
(* The theorems.                                                           *)

LEMMA Inductive == WorkspacesSpec => [](Server /\ Tabs)
<1>1. WorkspacesInit => Server /\ Tabs
  BY ServerInit, TabsInit
<1>2. Server /\ Tabs /\ [WorkspacesNext]_all => Server' /\ Tabs'
  BY BothStep
<1>3. QED
  BY <1>1, <1>2, PTL DEF WorkspacesSpec

(* Whatever the tabs do, the store's rows and the tabs' own variables keep *)
(* their types; a snapshot is held exactly when the store says so.         *)
THEOREM TabsTypeCorrect == WorkspacesSpec => [](TypeOK /\ WorkspacesTypeOK)
<1>1. Server /\ Tabs => TypeOK /\ WorkspacesTypeOK
  BY DEF Server, Tabs
<1>2. QED
  BY <1>1, Inductive, PTL

(* No button of the applicant's tab is a dead end: what an up-to-date      *)
(* screen offers, the handler does.                                        *)
THEOREM NoDeadButtons == WorkspacesSpec => []ButtonsWork
<1>1. Server /\ Tabs => ButtonsWork
  BY ButtonsHold
<1>2. QED
  BY <1>1, Inductive, PTL

(* A confirmation retried after lost answers takes effect once: the first  *)
(* call that works leaves the row past what any other asks for.            *)
THEOREM OneEffectOnly == WorkspacesSpec => []OneEffect
<1>1. WorkspacesInit => Effects
  BY DEF WorkspacesInit, Effects
<1>2. Server /\ Tabs /\ Effects /\ [WorkspacesNext]_all => Effects'
  BY EffectsStep
<1>3. Effects => OneEffect
  BY DEF Effects, OneEffect
<1>4. QED
  BY <1>1, <1>2, <1>3, Inductive, PTL DEF WorkspacesSpec

(* The snapshot a tab holds is the one it would restore, as long as no     *)
(* read of a view that was left wrote sessionStorage.                      *)
THEOREM SnapshotSurvives == WorkspacesSpec => []StoredIsHeld
<1>1. WorkspacesInit => StoredIsHeld
  BY DEF WorkspacesInit, StoredIsHeld, Nothing
<1>2. StoredIsHeld /\ [WorkspacesNext]_all => StoredIsHeld'
  BY StoredStep
<1>3. QED
  BY <1>1, <1>2, PTL DEF WorkspacesSpec

(* A lender's tab prices answers to that lender's own policies only.       *)
THEOREM OwnReceiptsFunded == WorkspacesSpec => []FundsItsOwn
<1>1. WorkspacesInit => FundsItsOwn
  BY DEF WorkspacesInit, FundsItsOwn, Exists, NoRow
<1>2. Server /\ Tabs /\ FundsItsOwn /\ [WorkspacesNext]_all => FundsItsOwn'
  BY OwnStep
<1>3. QED
  BY <1>1, <1>2, Inductive, PTL DEF WorkspacesSpec

(* While a request stays on the applicant's screen, newer projections,     *)
(* reloads and answers only ever move the screen on.                       *)
THEOREM NeverBackOnScreen == WorkspacesSpec => ScreenForward
<1> DEFINE Ahead ==
      MyRequest(view) # None /\ MyRequest(view)' = MyRequest(view) => Screen' >= Screen
<1>1. Server /\ Tabs /\ ViewIsPast /\ [WorkspacesNext]_all => Ahead
  <2> SUFFICES ASSUME Server, Tabs, ViewIsPast, [WorkspacesNext]_all,
                      MyRequest(view) # None, MyRequest(view)' = MyRequest(view)
               PROVE  Screen' >= Screen
    OBVIOUS
  <2>1. Step(view', snapshot', reviewed') >= Screen
    BY ScreenStep
  <2>2. QED
    BY <2>1 DEF Screen
<1>2. Server /\ Tabs /\ ViewIsPast /\ [WorkspacesNext]_all => ViewIsPast'
  BY ViewStep
<1>3. QED
  BY <1>1, <1>2, ViewInit, Inductive, PTL DEF WorkspacesSpec, ScreenForward

=============================================================================
