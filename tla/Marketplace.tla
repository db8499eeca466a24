---------------------------- MODULE Marketplace ----------------------------
(***************************************************************************)
(* The credit marketplace: ProtocolStore (backend/src/protocol/store.ts)   *)
(* and the routes of backend/src/routes/api.ts that call it.               *)
(*                                                                         *)
(* The store is one in-memory object in a single-threaded process, so a    *)
(* handler without an await is one action.  The one marketplace handler    *)
(* that awaits, POST /proofs/:id/verify, is two: BeginVerify evaluates the *)
(* bindings and starts the pairing check, FinishVerify runs after it.      *)
(* Whatever other handlers did in between is visible to FinishVerify.      *)
(*                                                                         *)
(* A handler that answers 4xx changes nothing and is a disabled action.    *)
(* Ids are UUIDs: a row that was wiped never comes back under its id, so   *)
(* each table maps every id to a row, NoRow or Wiped.  The version counter *)
(* and the waiters it wakes are modelled in LongPoll.                      *)
(***************************************************************************)
EXTENDS Integers, FiniteSets

CONSTANTS
  Borrower, Lender,      \* session ids, by the role the session was minted with
  RequestId, ChallengeId, ProofId, OfferId, LoanId, PayoutId,
  CallId,                \* bound: verifications in flight at once
  Passport,              \* committed snapshots (the salt included)
  Policy,                \* policies a lender can issue
  Qualifies,             \* the passports that satisfy a policy
  Validity,              \* validity windows a lender can choose
  Expiry,                \* expiries a receipt can name, the challenge's own or not
  MaxClock,              \* bound on the clock
  ResetAllowed,          \* NODE_ENV # "production" or ALLOW_RESET = "1"
  NoProof

ASSUME SessionsAssumption  == Borrower \cap Lender = {}
ASSUME QualifiesAssumption == Qualifies \subseteq (Passport \X Policy)
ASSUME ClockAssumption     ==
  MaxClock \in Nat /\ Validity \subseteq (Nat \ {0}) /\ Expiry \subseteq Nat
ASSUME ResetAssumption     == ResetAllowed \in BOOLEAN
ASSUME NoProofAssumption   == NoProof \notin ProofId

VARIABLES
  parties,      \* sessions the store knows
  retired,      \* session ids it knew before it was wiped
  requests, challenges, proofs, offers, loans, payouts,
  nullifiers,   \* nullifier -> the proof that claimed it first
  verifying,    \* verifications between their two halves
  now

tables == <<requests, challenges, proofs, offers, loans, payouts>>
vars == <<parties, retired, requests, challenges, proofs, offers, loans,
          payouts, nullifiers, verifying, now>>

-----------------------------------------------------------------------------
(* Rows.                                                                   *)

Time == 0 .. MaxClock
Session == Borrower \cup Lender

(* Poseidon(salt, policyHash, verifierCommitment): the salt is fixed by    *)
(* the passport commitment, the commitment by the lender's session.        *)
Nullifier == Passport \X Policy \X Lender

NoRow == [status |-> "none"]
Wiped == [status |-> "wiped"]
Blank == {NoRow, Wiped}
Idle  == [status |-> "idle"]

RequestRow == [status : {"open", "challenged", "proven", "funded", "accepted",
                         "withdrawn"},
               borrower : Borrower, passport : Passport, createdAt : Time]

ChallengeRow == [status : {"pending", "answered", "withdrawn"},
                 request : RequestId, lender : Lender, policy : Policy,
                 createdAt : Time, expiresAt : Nat]

(* `status` is verification.status.  `sound` abstracts what the checks    *)
(* read from the receipt itself: policy hash, commitment, signal [6],      *)
(* layout and the pairing.  All are fixed when the receipt is submitted.   *)
ProofRow == [status : {"pending", "verified", "rejected"},
             request : RequestId, challenge : ChallengeId,
             sound : BOOLEAN, expiry : Nat]

OfferRow == [status : {"open", "accepted", "declined", "withdrawn"},
             request : RequestId, proof : ProofId, lender : Lender]

LoanRow == [status : {"funded", "active", "repayment_due", "repaid"},
            request : RequestId, offer : OfferId]

PayoutRow == [status : {"announced"}, request : RequestId, offer : OfferId]

Call == [status : {"running"}, proof : ProofId, nullifier : Nullifier,
         passed : BOOLEAN]

Exists(row) == row.status \notin {"none", "wiped"}
Unused(table) == {id \in DOMAIN table : table[id] = NoRow}

TypeOK ==
  /\ parties \subseteq Session
  /\ retired \subseteq Session
  /\ requests \in [RequestId -> RequestRow \cup Blank]
  /\ challenges \in [ChallengeId -> ChallengeRow \cup Blank]
  /\ proofs \in [ProofId -> ProofRow \cup Blank]
  /\ offers \in [OfferId -> OfferRow \cup Blank]
  /\ loans \in [LoanId -> LoanRow \cup Blank]
  /\ payouts \in [PayoutId -> PayoutRow \cup Blank]
  /\ nullifiers \in [Nullifier -> ProofId \cup {NoProof}]
  /\ verifying \in [CallId -> Call \cup {Idle}]
  /\ now \in Time

Init ==
  /\ parties = {}
  /\ retired = {}
  /\ requests = [r \in RequestId |-> NoRow]
  /\ challenges = [c \in ChallengeId |-> NoRow]
  /\ proofs = [p \in ProofId |-> NoRow]
  /\ offers = [o \in OfferId |-> NoRow]
  /\ loans = [n \in LoanId |-> NoRow]
  /\ payouts = [a \in PayoutId |-> NoRow]
  /\ nullifiers = [n \in Nullifier |-> NoProof]
  /\ verifying = [k \in CallId |-> Idle]
  /\ now = 0

-----------------------------------------------------------------------------
(* Sessions.                                                               *)

(* createSession with an unknown id or another role mints a fresh party;   *)
(* with a known one it answers the existing party and changes nothing.     *)
CreateSession(s) ==
  /\ s \notin parties \cup retired
  /\ parties' = parties \cup {s}
  /\ UNCHANGED <<retired, tables, nullifiers, verifying, now>>

-----------------------------------------------------------------------------
(* Requests.                                                               *)

Live(r) == Exists(requests[r]) /\ requests[r].status # "withdrawn"
NegotiableAccepted(r) == Live(r)
Negotiable(r) == Live(r) /\ requests[r].status # "accepted"
OwnsRequest(b, r) == b \in parties /\ requests[r].borrower = b

MayPublishRequest(b, r) == b \in parties /\ r \in Unused(requests)
PublishRequest(b, r, w) ==
  /\ MayPublishRequest(b, r)
  /\ requests' = [requests EXCEPT ![r] =
       [status |-> "open", borrower |-> b, passport |-> w, createdAt |-> now]]
  /\ UNCHANGED <<parties, retired, challenges, proofs, offers, loans, payouts,
                 nullifiers, verifying, now>>

(* The cascade of withdrawRequest.                                         *)
WithdrawPendingChallenges(r) ==
  [c \in ChallengeId |->
     IF challenges[c].status = "pending" /\ challenges[c].request = r
     THEN [challenges[c] EXCEPT !.status = "withdrawn"]
     ELSE challenges[c]]

WithdrawOpenOffers(r) ==
  [o \in OfferId |->
     IF offers[o].status = "open" /\ offers[o].request = r
     THEN [offers[o] EXCEPT !.status = "withdrawn"]
     ELSE offers[o]]

MayWithdrawRequest(b, r) == Negotiable(r) /\ OwnsRequest(b, r)
WithdrawRequest(b, r) ==
  /\ MayWithdrawRequest(b, r)
  /\ requests' = [requests EXCEPT ![r].status = "withdrawn"]
  /\ challenges' = WithdrawPendingChallenges(r)
  /\ offers' = WithdrawOpenOffers(r)
  /\ UNCHANGED <<parties, retired, proofs, loans, payouts, nullifiers,
                 verifying, now>>

-----------------------------------------------------------------------------
(* Challenges.                                                             *)

AfterChallengeBackwards(status) == "challenged"
AfterChallenge(status) == IF status = "open" THEN "challenged" ELSE status

CreateChallenge(l, c, r, y, validity) ==
  /\ l \in parties
  /\ c \in Unused(challenges)
  /\ Negotiable(r)
  /\ challenges' = [challenges EXCEPT ![c] =
       [status |-> "pending", request |-> r, lender |-> l, policy |-> y,
        createdAt |-> now, expiresAt |-> now + validity]]
  /\ requests' = [requests EXCEPT ![r].status = AfterChallenge(@)]
  /\ UNCHANGED <<parties, retired, proofs, offers, loans, payouts, nullifiers,
                 verifying, now>>

WithdrawableAnswered(c) == challenges[c].status \in {"pending", "answered"}
Withdrawable(c) == challenges[c].status = "pending"

(* The request keeps its status.                                           *)
WithdrawChallenge(l, c) ==
  /\ l \in parties
  /\ Withdrawable(c)
  /\ challenges[c].lender = l
  /\ challenges' = [challenges EXCEPT ![c].status = "withdrawn"]
  /\ UNCHANGED <<parties, retired, requests, proofs, offers, loans, payouts,
                 nullifiers, verifying, now>>

-----------------------------------------------------------------------------
(* Proofs.                                                                 *)

AfterProof(status) ==
  IF status \in {"open", "challenged"} THEN "proven" ELSE status

(* An answered challenge takes further answers, an accepted request too.   *)
MaySubmitProof(b, p, c) ==
  /\ p \in Unused(proofs)
  /\ challenges[c].status \in {"pending", "answered"}
  /\ OwnsRequest(b, challenges[c].request)
  /\ Live(challenges[c].request)
  /\ challenges[c].expiresAt > now

SubmitProof(b, p, c, sound, expiry) ==
  LET r == challenges[c].request IN
  /\ MaySubmitProof(b, p, c)
  /\ proofs' = [proofs EXCEPT ![p] =
       [status |-> "pending", request |-> r, challenge |-> c, sound |-> sound,
        expiry |-> expiry]]
  /\ challenges' = [challenges EXCEPT ![c].status = "answered"]
  /\ requests' = [requests EXCEPT ![r].status = AfterProof(@)]
  /\ UNCHANGED <<parties, retired, offers, loans, payouts, nullifiers,
                 verifying, now>>

(* A sound receipt names its request's commitment, its challenge's policy  *)
(* hash and its challenge's verifier commitment, and the circuit derives   *)
(* the nullifier and the eligibility bit from those three.                 *)
PassportOf(p) == requests[proofs[p].request].passport
NullifierOf(p) ==
  <<PassportOf(p), challenges[proofs[p].challenge].policy,
    challenges[proofs[p].challenge].lender>>
Eligible(p) ==
  <<PassportOf(p), challenges[proofs[p].challenge].policy>> \in Qualifies

(* Every binding of the verify handler but the nullifier's, for caller l.  *)
BindingsHold(l, p) ==
  LET c == challenges[proofs[p].challenge] IN
  /\ c.status # "withdrawn"
  /\ requests[proofs[p].request].createdAt < c.createdAt
  /\ c.lender = l
  /\ proofs[p].expiry > now
  /\ c.expiresAt > now
  /\ proofs[p].sound

(* Up to the await of verifyGroth16.  Any lender may call it, at any time, *)
(* on a receipt of any status.                                             *)
BeginVerify(l, k, p) ==
  /\ l \in parties
  /\ verifying[k] = Idle
  /\ Exists(proofs[p])
  /\ verifying' = [verifying EXCEPT ![k] =
       [status |-> "running", proof |-> p, nullifier |-> NullifierOf(p),
        passed |-> BindingsHold(l, p)]]
  /\ UNCHANGED <<parties, retired, tables, nullifiers, now>>

(* claimNullifier: the first claim wins, and is idempotent for its owner.  *)
ClaimableAgain(n, p) == TRUE
Claimable(n, p) == nullifiers[n] \in {NoProof, p}

Claims(call) == call.passed

(* After the await: claim last, and only if everything else passed, then   *)
(* overwrite the verification.  A wiped proof answers 404 after the claim. *)
FinishVerify(k) ==
  LET call == verifying[k]
      p    == call.proof
      won  == call.passed /\ Claimable(call.nullifier, p)
  IN
  /\ call.status = "running"
  /\ nullifiers' = IF Claims(call) /\ Claimable(call.nullifier, p)
                   THEN [nullifiers EXCEPT ![call.nullifier] = p]
                   ELSE nullifiers
  /\ proofs' = IF Exists(proofs[p])
               THEN [proofs EXCEPT ![p].status =
                       IF won THEN "verified" ELSE "rejected"]
               ELSE proofs
  /\ verifying' = [verifying EXCEPT ![k] = Idle]
  /\ UNCHANGED <<parties, retired, requests, challenges, offers, loans,
                 payouts, now>>

-----------------------------------------------------------------------------
(* Offers.                                                                 *)

OfferableUnverified(p) == proofs[p].status # "rejected" /\ Eligible(p)
Offerable(p) == proofs[p].status = "verified" /\ Eligible(p)

(* Any lender may price a verified receipt, its issuer or not.             *)
CreateOffer(l, o, p) ==
  LET r == proofs[p].request IN
  /\ l \in parties
  /\ o \in Unused(offers)
  /\ Exists(proofs[p])
  /\ Negotiable(r)
  /\ Offerable(p)
  /\ offers' = [offers EXCEPT ![o] =
       [status |-> "open", request |-> r, proof |-> p, lender |-> l]]
  /\ requests' = [requests EXCEPT ![r].status = "funded"]
  /\ UNCHANGED <<parties, retired, challenges, proofs, loans, payouts,
                 nullifiers, verifying, now>>

SettleOffers(o) ==
  [x \in OfferId |->
     IF x = o THEN [offers[x] EXCEPT !.status = "accepted"]
     ELSE IF offers[x].status = "open" /\ offers[x].request = offers[o].request
     THEN [offers[x] EXCEPT !.status = "declined"]
     ELSE offers[x]]

MayAcceptOffer(b, o, n) ==
  /\ n \in Unused(loans)
  /\ offers[o].status = "open"
  /\ OwnsRequest(b, offers[o].request)
  /\ Negotiable(offers[o].request)

AcceptOffer(b, o, n) ==
  LET r == offers[o].request IN
  /\ MayAcceptOffer(b, o, n)
  /\ offers' = SettleOffers(o)
  /\ requests' = [requests EXCEPT ![r].status = "accepted"]
  /\ loans' = [loans EXCEPT ![n] =
       [status |-> "funded", request |-> r, offer |-> o]]
  /\ UNCHANGED <<parties, retired, challenges, proofs, payouts, nullifiers,
                 verifying, now>>

-----------------------------------------------------------------------------
(* Loans.                                                                  *)

SetLoan(n, status) ==
  /\ loans' = [loans EXCEPT ![n].status = status]
  /\ UNCHANGED <<parties, retired, requests, challenges, proofs, offers,
                 payouts, nullifiers, verifying, now>>

MayDrawLoan(b, n) == loans[n].status = "funded" /\ OwnsRequest(b, loans[n].request)
DrawLoan(b, n) ==
  /\ MayDrawLoan(b, n)
  /\ SetLoan(n, "active")

MarkRepaymentDue(l, n) ==
  /\ loans[n].status = "active"
  /\ l \in parties /\ offers[loans[n].offer].lender = l
  /\ SetLoan(n, "repayment_due")

RepayableRepaid(n) == loans[n].status # "funded"
Repayable(n) == loans[n].status \in {"active", "repayment_due"}

MayRepayLoan(b, n) == Repayable(n) /\ OwnsRequest(b, loans[n].request)
RepayLoan(b, n) ==
  /\ MayRepayLoan(b, n)
  /\ SetLoan(n, "repaid")

-----------------------------------------------------------------------------
(* Payouts.                                                                *)

(* The name in the body must be the request's; the derived address is not  *)
(* checked by the server.  Announcing again is allowed.                    *)
AnnouncePayout(l, o, a) ==
  /\ l \in parties
  /\ a \in Unused(payouts)
  /\ offers[o].status \in {"open", "accepted"}
  /\ offers[o].lender = l
  /\ Live(offers[o].request)
  /\ payouts' = [payouts EXCEPT ![a] =
       [status |-> "announced", request |-> offers[o].request, offer |-> o]]
  /\ UNCHANGED <<parties, retired, requests, challenges, proofs, offers, loans,
                 nullifiers, verifying, now>>

-----------------------------------------------------------------------------
(* The process and its clock.                                              *)

Erase(table) == [id \in DOMAIN table |->
                   IF table[id] = NoRow THEN NoRow ELSE Wiped]

EraseStateKeepingSessions ==
  /\ UNCHANGED <<parties, retired>>
  /\ requests' = Erase(requests)
  /\ challenges' = Erase(challenges)
  /\ proofs' = Erase(proofs)
  /\ offers' = Erase(offers)
  /\ loans' = Erase(loans)
  /\ payouts' = Erase(payouts)
  /\ nullifiers' = [n \in Nullifier |-> NoProof]

(* emptyState().                                                           *)
EraseState ==
  /\ parties' = {}
  /\ retired' = retired \cup parties
  /\ requests' = Erase(requests)
  /\ challenges' = Erase(challenges)
  /\ proofs' = Erase(proofs)
  /\ offers' = Erase(offers)
  /\ loans' = Erase(loans)
  /\ payouts' = Erase(payouts)
  /\ nullifiers' = [n \in Nullifier |-> NoProof]

(* POST /dev/reset.  Handlers waiting on their await survive it.           *)
Reset ==
  /\ ResetAllowed
  /\ EraseState
  /\ UNCHANGED <<verifying, now>>

(* The process dies and starts again: the store and the handlers are lost. *)
Restart ==
  /\ EraseState
  /\ verifying' = [k \in CallId |-> Idle]
  /\ UNCHANGED now

Tick ==
  /\ now < MaxClock
  /\ now' = now + 1
  /\ UNCHANGED <<parties, retired, tables, nullifiers, verifying>>

-----------------------------------------------------------------------------
(* The routes, in the order of api.ts.  The session in the body names the  *)
(* party; a route for one role refuses the other.                          *)
RequestRoutes ==
  \E b \in Borrower, r \in RequestId :
    \/ \E w \in Passport : PublishRequest(b, r, w)
    \/ WithdrawRequest(b, r)

ChallengeRoutes ==
  \E l \in Lender, c \in ChallengeId :
    \/ \E r \in RequestId, y \in Policy, v \in Validity :
         CreateChallenge(l, c, r, y, v)
    \/ WithdrawChallenge(l, c)

ReceiptRoute ==
  \E b \in Borrower, p \in ProofId, c \in ChallengeId,
     sound \in BOOLEAN, e \in Expiry : SubmitProof(b, p, c, sound, e)

VerifyRoute ==
  \/ \E l \in Lender, k \in CallId, p \in ProofId : BeginVerify(l, k, p)
  \/ \E k \in CallId : FinishVerify(k)

OfferRoutes ==
  \E o \in OfferId :
    \/ \E l \in Lender, p \in ProofId : CreateOffer(l, o, p)
    \/ \E b \in Borrower, n \in LoanId : AcceptOffer(b, o, n)

PayoutRoute ==
  \E l \in Lender, o \in OfferId, a \in PayoutId : AnnouncePayout(l, o, a)

LoanRoutes ==
  \E n \in LoanId :
    \/ \E b \in Borrower : DrawLoan(b, n) \/ RepayLoan(b, n)
    \/ \E l \in Lender : MarkRepaymentDue(l, n)

ServerStep ==
  \/ \E s \in Session : CreateSession(s)
  \/ Reset
  \/ Restart
  \/ Tick

Next ==
  \/ RequestRoutes \/ ChallengeRoutes \/ ReceiptRoute \/ VerifyRoute
  \/ OfferRoutes \/ PayoutRoute \/ LoanRoutes
  \/ ServerStep

Spec == Init /\ [][Next]_vars

-----------------------------------------------------------------------------
(* Safety.                                                                 *)

ChallengesOn(r) == {c \in ChallengeId : Exists(challenges[c]) /\ challenges[c].request = r}
ProofsOn(r) == {p \in ProofId : Exists(proofs[p]) /\ proofs[p].request = r}
OffersOn(r) == {o \in OfferId : Exists(offers[o]) /\ offers[o].request = r}
LoansOn(r) == {n \in LoanId : Exists(loans[n]) /\ loans[n].request = r}
HasStatus(table, ids, status) == {id \in ids : table[id].status = status}

(* The one word a request carries agrees with the rows other handlers     *)
(* wrote about it: an open request has no challenge, a challenged one no   *)
(* proof, a proven one a proof and no offer, a funded one an open offer,   *)
(* and open offers are on funded requests only.                            *)
StatusMeaning ==
  \A r \in RequestId :
    /\ requests[r].status = "open" => ChallengesOn(r) = {}
    /\ requests[r].status = "challenged" =>
         ChallengesOn(r) # {} /\ ProofsOn(r) = {}
    /\ requests[r].status = "proven" => ProofsOn(r) # {} /\ OffersOn(r) = {}
    /\ requests[r].status = "funded" <=>
         HasStatus(offers, OffersOn(r), "open") # {}

(* acceptOffer: a request gets at most one loan, whose offer is the one    *)
(* accepted offer of an accepted request; no accepted offer lacks a loan.  *)
OneLoanPerRequest ==
  /\ \A n \in LoanId : Exists(loans[n]) =>
       LET o == loans[n].offer IN
       /\ offers[o].status = "accepted"
       /\ offers[o].request = loans[n].request
       /\ requests[loans[n].request].status = "accepted"
  /\ \A o \in OfferId : offers[o].status = "accepted" =>
       \E n \in LoanId : Exists(loans[n]) /\ loans[n].offer = o
  /\ \A n, m \in LoanId :
       Exists(loans[n]) /\ Exists(loans[m]) /\ loans[n].request = loans[m].request
         => n = m

(* submitProof and withdrawChallenge: an answered challenge can no longer  *)
(* be withdrawn, so the withdrawn branch of the check challenge_exists is  *)
(* never taken and no lender revokes a policy under a running proof.       *)
ProofsAnswerTheirChallenge ==
  \A p \in ProofId : Exists(proofs[p]) =>
    LET c == proofs[p].challenge IN
    /\ challenges[c].status = "answered"
    /\ challenges[c].request = proofs[p].request
    /\ Exists(requests[proofs[p].request])

(* The replay guard across the await: a verified receipt is the owner of   *)
(* its nullifier, so two verified receipts never share one.                *)
VerifiedOwnsNullifier ==
  \A p \in ProofId : proofs[p].status = "verified" =>
    nullifiers[NullifierOf(p)] = p

(* Every offer, for as long as it exists, rests on a sound and eligible    *)
(* receipt for the same request, whose commitment was published before the *)
(* policy existed and whose nullifier that receipt holds, even when a later *)
(* verification overwrote the receipt's status.                            *)
OfferRestsOnReceipt ==
  \A o \in OfferId : Exists(offers[o]) =>
    LET p == offers[o].proof IN
    /\ Exists(proofs[p])
    /\ proofs[p].request = offers[o].request
    /\ proofs[p].sound /\ Eligible(p)
    /\ requests[proofs[p].request].createdAt
         < challenges[proofs[p].challenge].createdAt
    /\ nullifiers[NullifierOf(p)] = p

(* A verification that was waiting when the store was wiped still claims   *)
(* its nullifier afterwards.  Such a claim never blocks a receipt anybody  *)
(* can still present: it names a lender whose session went with the store. *)
NoStrandedNullifier ==
  \A n \in Nullifier : nullifiers[n] # NoProof =>
    \/ /\ Exists(proofs[nullifiers[n]])
       /\ NullifierOf(nullifiers[n]) = n
    \/ n[3] \in retired

(* "Capital never moves against an unchecked claim" (createOffer): every   *)
(* offer that can still become, or has become, a loan is backed by a       *)
(* receipt whose verification stands.                                      *)
LiveOffersStayVerified ==
  \A o \in OfferId : offers[o].status \in {"open", "accepted"} =>
    proofs[offers[o].proof].status = "verified"

-----------------------------------------------------------------------------
(* TypeOK, Links and Receipts are inductive together (MarketplaceProofs).  *)

ChallengesLinked ==
  \A c \in ChallengeId : Exists(challenges[c]) =>
    /\ Exists(requests[challenges[c].request])
    /\ challenges[c].lender \in parties

Links == ChallengesLinked /\ ProofsAnswerTheirChallenge

(* What the bindings establish for good: later steps cannot undo it.       *)
Checked(p) ==
  /\ proofs[p].sound
  /\ requests[proofs[p].request].createdAt
       < challenges[proofs[p].challenge].createdAt

(* A waiting verification carries the nullifier of the receipt it read,    *)
(* unless the store was wiped meanwhile, session of the lender included.   *)
InFlightKnown ==
  \A k \in CallId : verifying[k].status = "running" =>
    LET call == verifying[k] IN
    \/ /\ Exists(proofs[call.proof])
       /\ call.nullifier = NullifierOf(call.proof)
       /\ call.passed => Checked(call.proof)
    \/ proofs[call.proof] = Wiped /\ call.nullifier[3] \in retired

VerifiedWasChecked ==
  \A p \in ProofId : proofs[p].status = "verified" => Checked(p)

Receipts ==
  /\ InFlightKnown
  /\ VerifiedWasChecked
  /\ VerifiedOwnsNullifier
  /\ OfferRestsOnReceipt
  /\ NoStrandedNullifier

-----------------------------------------------------------------------------
(* Action properties.                                                      *)

Rank == [none |-> 0, open |-> 1, challenged |-> 2, proven |-> 3, funded |-> 4,
         accepted |-> 5, withdrawn |-> 5, wiped |-> 6]

(* createChallenge: "must not drag the request backwards through the       *)
(* lifecycle".  No step of anybody moves a request back, and accepted and  *)
(* withdrawn are final until the store is wiped.                           *)
LifecycleForward ==
  [][\A r \in RequestId :
       /\ Rank[requests'[r].status] >= Rank[requests[r].status]
       /\ requests[r].status \in {"accepted", "withdrawn"} =>
            requests'[r] \in {requests[r], Wiped}]_vars

(* claimNullifier: "First claim wins, permanently" - until the store is    *)
(* wiped, a claimed nullifier keeps its owner through every verification.  *)
FirstClaimWins ==
  [][\A n \in Nullifier : nullifiers[n] # NoProof =>
       \/ nullifiers'[n] = nullifiers[n]
       \/ parties' = {} /\ \A p \in ProofId : ~Exists(proofs'[p])]_vars

=============================================================================
