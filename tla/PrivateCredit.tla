--------------------------- MODULE PrivateCredit ---------------------------
(***************************************************************************)
(* The on-chain program solana/programs/private_credit/src/lib.rs.         *)
(*                                                                         *)
(* One action per instruction.  A transaction is atomic: an instruction    *)
(* whose account constraints or require! fail changes nothing, so it is a  *)
(* disabled action.  Its guard is an operator of its own, MayX, because    *)
(* the backend meets the same condition twice, in preflight and on chain.  *)
(* Accounts at program-derived addresses are functions from their seeds;   *)
(* an account that was never created has status "none".                    *)
(*                                                                         *)
(* A receipt that verify_groth16 accepts is a record: the circuit derives  *)
(* its nullifier and eligibility bit.  The passport stands for the two     *)
(* commitments the applicant fixes together, passport and subject.         *)
(***************************************************************************)
EXTENDS Integers, FiniteSets

CONSTANTS
  Key,         \* keys that sign transactions and own token accounts
  Payout,      \* one-time payout addresses
  Mint,        \* the tokens there are
  Request,     \* request ids, the seeds of request, vault and loan
  Passport, Policy, Verifier,
  Qualifies,   \* the passports that satisfy a policy
  Term,        \* loan terms, in days
  Amount,      \* amounts of one transfer
  Apr, Fee,    \* basis points of a loan
  RateBase,    \* basis points times days of a full year: 10_000 * 365
  FeeBase,     \* 10_000
  Supply,      \* tokens of each mint a key starts with
  Expiry,      \* the days receipts expire on
  MaxDay,      \* bound on the cluster clock, in days
  NoRequest

ASSUME KeysAssumption    == Key \cap Payout = {} /\ NoRequest \notin Request
ASSUME AmountsAssumption ==
  /\ Amount \subseteq Nat /\ Term \subseteq (Nat \ {0})
  /\ Apr \subseteq Nat /\ Fee \subseteq Nat
  /\ RateBase \in Nat \ {0} /\ FeeBase \in Nat \ {0}
  /\ Supply \in [Key -> Nat] /\ Expiry \subseteq Nat /\ MaxDay \in Nat

VARIABLES
  configured,  \* the config account exists
  settledCount,\* config.loans_settled
  policies,    \* policy accounts, by their two seeds
  account,     \* request accounts
  vault,       \* tokens in the escrow of a request
  loan,        \* loan accounts
  nullifier,   \* nullifier accounts: the request that spent each
  opened,      \* token accounts, by owner and mint
  tokens,      \* their balances
  day          \* the cluster clock

chain == <<configured, settledCount, policies, account, vault, loan, nullifier,
           opened, tokens, day>>

Day == 0 .. MaxDay
Owner == Key \cup Payout
Receipt == [passport : Passport, policy : Policy, verifier : Verifier, expiry : Expiry]
Nullifier == Passport \X Policy \X Verifier
NullifierOf(p) == <<p.passport, p.policy, p.verifier>>
Eligible(p) == <<p.passport, p.policy>> \in Qualifies

None == [status |-> "none"]
RequestAccount == [status : {"open", "funded", "settled"}, borrower : Key,
                   passport : Passport, term : Term, mint : Mint]
LoanAccount == [status : {"funded", "active", "repaid"}, lender : Key, borrower : Key,
                payout : Payout, receipt : Receipt, principal : Nat, apr : Apr,
                fee : Fee, term : Term, mint : Mint, fundedAt : Day, drawnAt : Day]
Published(r) == account[r].status # "none"
Settled(r) == loan[r].status # "none"

TypeOK ==
  /\ configured \in BOOLEAN
  /\ settledCount \in Nat
  /\ policies \subseteq (Policy \X Verifier)
  /\ account \in [Request -> RequestAccount \cup {None}]
  /\ vault \in [Request -> Nat]
  /\ loan \in [Request -> LoanAccount \cup {None}]
  /\ nullifier \in [Nullifier -> Request \cup {NoRequest}]
  /\ opened \subseteq Owner \X Mint
  /\ tokens \in [Owner \X Mint -> Nat]
  /\ day \in Day

EmptyChain(initialized) ==
  /\ configured = initialized
  /\ settledCount = 0
  /\ policies = {}
  /\ account = [r \in Request |-> None]
  /\ vault = [r \in Request |-> 0]
  /\ loan = [r \in Request |-> None]
  /\ nullifier = [n \in Nullifier |-> NoRequest]
  /\ opened = Key \X Mint
  /\ tokens = [b \in Owner \X Mint |-> IF b[1] \in Key THEN Supply[b[1]] ELSE 0]
  /\ day = 0

ChainInit == EmptyChain(FALSE)

-----------------------------------------------------------------------------
(* Instructions.                                                           *)

Initialize ==
  /\ ~configured
  /\ configured' = TRUE
  /\ UNCHANGED <<settledCount, policies, account, vault, loan, nullifier, opened,
                 tokens, day>>

(* The recomputed hash ties the thresholds to the seed, so the account is  *)
(* its seeds; init refuses a second account under them.                    *)
MayPublishPolicy(y, v) == <<y, v>> \notin policies
PublishPolicy(y, v) ==
  /\ MayPublishPolicy(y, v)
  /\ policies' = policies \cup {<<y, v>>}
  /\ UNCHANGED <<configured, settledCount, account, vault, loan, nullifier, opened,
                 tokens, day>>

MayPublishRequest(r) == ~Published(r)
PublishRequest(k, r, w, term, m) ==
  /\ MayPublishRequest(r)
  /\ account' = [account EXCEPT ![r] =
       [status |-> "open", borrower |-> k, passport |-> w, term |-> term, mint |-> m]]
  /\ UNCHANGED <<configured, settledCount, policies, vault, loan, nullifier, opened,
                 tokens, day>>

(* Allowed in any status, SETTLED included. The vault has one mint, and the *)
(* token program transfers between accounts of one mint only.              *)
MayFundEscrow(k, r, amount) ==
  Published(r) /\ amount > 0 /\ tokens[<<k, account[r].mint>>] >= amount
FundEscrow(k, r, amount) ==
  /\ MayFundEscrow(k, r, amount)
  /\ vault' = [vault EXCEPT ![r] = @ + amount]
  /\ tokens' = [tokens EXCEPT ![<<k, account[r].mint>>] = @ - amount]
  /\ account' = [account EXCEPT ![r].status = "funded"]
  /\ UNCHANGED <<configured, settledCount, policies, loan, nullifier, opened, day>>

(* Anyone may create the token account of an address.                      *)
OpenPayout(a, m) ==
  /\ opened' = opened \cup {<<a, m>>}
  /\ UNCHANGED <<configured, settledCount, policies, account, vault, loan, nullifier,
                 tokens, day>>

NullifierFreeAlways(p) == TRUE
NullifierFree(p) == nullifier[NullifierOf(p)] = NoRequest
LoanFreeAlways(r) == TRUE
LoanFree(r) == ~Settled(r)
BoundToVerifierOnly(r, p) == Eligible(p)
Bound(r, p) == p.passport = account[r].passport /\ Eligible(p)

(* The owner a of the token account is that of the payout account passed   *)
(* along; the payout_address a loan records is an argument of its own.     *)
MayPresent(r, p, a) ==
  /\ configured
  /\ <<p.policy, p.verifier>> \in policies
  /\ Published(r) /\ <<a, account[r].mint>> \in opened
  /\ LoanFree(r) /\ NullifierFree(p)
  /\ Bound(r, p)
  /\ p.expiry > day
  /\ vault[r] > 0

CountLoan == settledCount + 1
PresentAndFund(k, r, p, a, x, apr, fee) ==
  /\ MayPresent(r, p, a)
  /\ nullifier' = [nullifier EXCEPT ![NullifierOf(p)] = r]
  /\ loan' = [loan EXCEPT ![r] =
       [status |-> "funded", lender |-> k, borrower |-> account[r].borrower,
        payout |-> x, receipt |-> p, principal |-> vault[r], apr |-> apr,
        fee |-> fee, term |-> account[r].term, mint |-> account[r].mint,
        fundedAt |-> day, drawnAt |-> 0]]
  /\ tokens' = [tokens EXCEPT ![<<a, account[r].mint>>] = @ + vault[r]]
  /\ vault' = [vault EXCEPT ![r] = 0]
  /\ account' = [account EXCEPT ![r].status = "settled"]
  /\ settledCount' = CountLoan
  /\ UNCHANGED <<configured, policies, opened, day>>

DrawableAgain(r) == Settled(r)
Drawable(r) == loan[r].status = "funded"
Draw(k, r) ==
  /\ Drawable(r)
  /\ loan[r].borrower = k
  /\ loan' = [loan EXCEPT ![r].status = "active", ![r].drawnAt = day]
  /\ UNCHANGED <<configured, settledCount, policies, account, vault, nullifier,
                 opened, tokens, day>>

(* total_repayment: whole days since the draw, or since the funding when   *)
(* the loan was never drawn, capped at the term.                           *)
ElapsedSinceFunding(n, today) ==
  LET days == IF today > n.fundedAt THEN today - n.fundedAt ELSE 0
  IN IF days < n.term THEN days ELSE n.term
Elapsed(n, today) ==
  LET start == IF n.drawnAt > 0 THEN n.drawnAt ELSE n.fundedAt
      days  == IF today > start THEN today - start ELSE 0
  IN IF days < n.term THEN days ELSE n.term
Interest(n, today) == (n.principal * n.apr * Elapsed(n, today)) \div RateBase
TotalRepayment(n, today) ==
  n.principal + Interest(n, today) + (n.principal * n.fee) \div FeeBase

Repayable(r) == Settled(r) /\ loan[r].status # "repaid"

(* Anyone may pay, into a token account of the loan's lender; of which     *)
(* mint is not asked, only that payer and lender are paid in the same.     *)
Repay(k, r, m, amount) ==
  /\ Repayable(r)
  /\ amount >= TotalRepayment(loan[r], day)
  /\ tokens[<<k, m>>] >= amount
  /\ tokens' = [b \in Owner \X Mint |->
       tokens[b] - (IF b = <<k, m>> THEN amount ELSE 0)
                 + (IF b = <<loan[r].lender, m>> THEN amount ELSE 0)]
  /\ loan' = [loan EXCEPT ![r].status = "repaid"]
  /\ UNCHANGED <<configured, settledCount, policies, account, vault, nullifier,
                 opened, day>>

NextDay ==
  /\ day < MaxDay
  /\ day' = day + 1
  /\ UNCHANGED <<configured, settledCount, policies, account, vault, loan, nullifier,
                 opened, tokens>>

-----------------------------------------------------------------------------
ChainNext ==
  \/ Initialize \/ NextDay
  \/ \E y \in Policy, v \in Verifier : PublishPolicy(y, v)
  \/ \E a \in Payout, m \in Mint : OpenPayout(a, m)
  \/ \E k \in Key, r \in Request :
       \/ \E w \in Passport, t \in Term, m \in Mint : PublishRequest(k, r, w, t, m)
       \/ \E x \in Amount : FundEscrow(k, r, x)
       \/ \E p \in Receipt, a \in Owner, x \in Payout, apr \in Apr, fee \in Fee :
            PresentAndFund(k, r, p, a, x, apr, fee)
       \/ Draw(k, r)
  \/ \E k \in Owner, r \in Request, m \in Mint, x \in Amount : Repay(k, r, m, x)

ChainSpec == ChainInit /\ [][ChainNext]_chain

-----------------------------------------------------------------------------
(* present_and_fund is "one atomic step, so there is no window in which a  *)
(* proof is accepted but the money has not moved (or the reverse)": a      *)
(* nullifier is spent exactly by the loan it paid for, over all requests.  *)
SpentByItsLoan ==
  \A n \in Nullifier, r \in Request :
    nullifier[n] = r <=> Settled(r) /\ NullifierOf(loan[r].receipt) = n

(* Every loan was made against a receipt about its own request, for a      *)
(* policy its verifier published, and no receipt paid for two requests.    *)
LoanJustified ==
  \A r \in Request : Settled(r) =>
    LET p == loan[r].receipt IN
    /\ Published(r) /\ p.passport = account[r].passport
    /\ Eligible(p) /\ <<p.policy, p.verifier>> \in policies
    /\ p.expiry > loan[r].fundedAt
    /\ \A q \in Request : Settled(q) /\ NullifierOf(loan[q].receipt) = NullifierOf(p)
         => q = r

(* The escrow is not under the control of whoever funded it: tokens leave  *)
(* a vault only as the principal of the one loan of its request, all at    *)
(* once, into one token account of the request's mint. Nothing empties a   *)
(* vault that was funded again after its loan was made.                    *)
VaultPaysItsLoanOnce ==
  [][\A r \in Request : vault'[r] < vault[r] =>
       /\ ~Settled(r) /\ loan'[r].status = "funded"
       /\ vault'[r] = 0 /\ loan'[r].principal = vault[r]
       /\ \E b \in opened : /\ b[2] = loan'[r].mint
                            /\ tokens'[b] = tokens[b] + vault[r]]_chain

(* What a loan was agreed on never changes, and repaid is its last state.  *)
LoanTermsFixed ==
  [][\A r \in Request : Settled(r) =>
       /\ \A f \in {"lender", "borrower", "payout", "receipt", "principal", "apr",
                    "fee", "term", "mint", "fundedAt"} : loan'[r][f] = loan[r][f]
       /\ loan[r].status = "repaid" => loan'[r] = loan[r]]_chain

(* The interest clock: what is owed on a loan never falls, except that the *)
(* draw starts the clock anew ("the interest clock starts here"), and days *)
(* beyond the term add nothing. A loan that is never drawn bears interest  *)
(* from its funding all the same.                                          *)
WithoutInterest(n) == n.principal + (n.principal * n.fee) \div FeeBase
FullTermInterest(n) == (n.principal * n.apr * n.term) \div RateBase
InterestClock ==
  [][\A r \in Request : Repayable(r) =>
       LET owed == TotalRepayment(loan[r], day)
           owedNext == TotalRepayment(loan'[r], day')
       IN /\ owed <= WithoutInterest(loan[r]) + FullTermInterest(loan[r])
          /\ IF loan'[r].status = "active" /\ loan[r].status = "funded"
             THEN owedNext = WithoutInterest(loan[r])
             ELSE owedNext >= owed]_chain

=============================================================================
