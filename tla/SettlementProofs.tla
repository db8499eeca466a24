-------------------------- MODULE SettlementProofs --------------------------
(***************************************************************************)
(* Theorems about the program and about settling on it.                    *)
(*                                                                         *)
(* Of the program (ChainSpec), for any keys, mints, requests, receipts,    *)
(* amounts and rates: the inductive invariant is the types together with   *)
(* SpentByItsLoan and LoanJustified, since that no receipt pays for two    *)
(* requests follows from the nullifier of a loan naming that loan's        *)
(* request.                                                                *)
(*                                                                         *)
(* Of settling (Spec), for any offers, receipts, payouts, calls running at *)
(* once and transactions on their way: every step of a call, of the        *)
(* network and of the store is an instruction of the program or leaves the *)
(* chain alone (ChainStep), so what the program never takes back (Lasting) *)
(* holds from the preflight of a transaction to its landing, except that a *)
(* receipt may expire meanwhile (Lent). What an escrow holds is followed   *)
(* from the funding step of each call on (Covered), exactly where one call *)
(* settles at a time (Serial, Escrows, Results).                           *)
(***************************************************************************)
EXTENDS Settlement, TLAPS

IInv == TypeOK /\ SpentByItsLoan /\ LoanJustified

(* Any instruction, with any amount: ChainNext takes amounts from a bound, *)
(* Settlement computes them.                                               *)
Instruction ==
  \/ Initialize \/ NextDay
  \/ \E y \in Policy, v \in Verifier : PublishPolicy(y, v)
  \/ \E a \in Payout, m \in Mint : OpenPayout(a, m)
  \/ \E k \in Key, r \in Request :
       \/ \E w \in Passport, t \in Term, m \in Mint : PublishRequest(k, r, w, t, m)
       \/ \E x \in Nat : FundEscrow(k, r, x)
       \/ \E p \in Receipt, a \in Owner, x \in Payout, apr \in Apr, fee \in Fee :
            PresentAndFund(k, r, p, a, x, apr, fee)
       \/ Draw(k, r)
  \/ \E k \in Owner, r \in Request, m \in Mint, x \in Nat : Repay(k, r, m, x)

LEMMA ChainTakesInstructions == [ChainNext]_chain => [Instruction]_chain
  BY AmountsAssumption DEF ChainNext, Instruction

-----------------------------------------------------------------------------
(* Operators.                                                              *)

LEMMA NullifierType ==
  ASSUME NEW p \in Receipt
  PROVE  NullifierOf(p) \in Nullifier
  BY DEF Receipt, NullifierOf, Nullifier

(* Of a loan that was made the account is a loan account, of a request     *)
(* that was published a request account.                                   *)
LEMMA RowTypes ==
  ASSUME TypeOK, NEW r \in Request
  PROVE  /\ Settled(r) => loan[r] \in LoanAccount
         /\ Published(r) => account[r] \in RequestAccount
  BY DEF TypeOK, Settled, Published, None

-----------------------------------------------------------------------------
(* Types.                                                                  *)

LEMMA TypeInit ==
  ASSUME NEW set \in BOOLEAN, EmptyChain(set)
  PROVE  TypeOK
<1> USE DEF EmptyChain
<1>1. tokens \in [Owner \X Mint -> Nat]
  BY AmountsAssumption
<1>2. day \in Day
  BY AmountsAssumption DEF Day
<1>3. /\ account \in [Request -> RequestAccount \cup {None}]
      /\ loan \in [Request -> LoanAccount \cup {None}]
  OBVIOUS
<1>4. opened \subseteq Owner \X Mint
  BY DEF Owner
<1> QED
  BY <1>1, <1>2, <1>3, <1>4 DEF TypeOK

LEMMA TypeStep == TypeOK /\ [Instruction]_chain => TypeOK'
<1> SUFFICES ASSUME TypeOK, [Instruction]_chain PROVE TypeOK'
  OBVIOUS
<1> USE DEF TypeOK
<1>1. CASE Initialize
  BY <1>1 DEF Initialize
<1>2. CASE NextDay
  BY <1>2, AmountsAssumption DEF NextDay, Day
<1>3. ASSUME NEW y \in Policy, NEW v \in Verifier, PublishPolicy(y, v)
      PROVE  TypeOK'
  BY <1>3 DEF PublishPolicy
<1>4. ASSUME NEW a \in Payout, NEW m \in Mint, OpenPayout(a, m)
      PROVE  TypeOK'
  BY <1>4 DEF OpenPayout, Owner
<1>5. ASSUME NEW k \in Key, NEW r \in Request, NEW w \in Passport, NEW t \in Term,
             NEW m \in Mint, PublishRequest(k, r, w, t, m)
      PROVE  TypeOK'
  BY <1>5, AmountsAssumption DEF PublishRequest, RequestAccount
<1>6. ASSUME NEW k \in Key, NEW r \in Request, NEW x \in Nat, FundEscrow(k, r, x)
      PROVE  TypeOK'
  <2> USE <1>6 DEF FundEscrow, MayFundEscrow
  <2>1. account[r] \in RequestAccount
    BY RowTypes
  <2>2. account' \in [Request -> RequestAccount \cup {None}]
    BY <2>1 DEF RequestAccount
  <2>3. vault' \in [Request -> Nat]
    OBVIOUS
  <2>4. tokens' \in [Owner \X Mint -> Nat]
    <3>1. <<k, account[r].mint>> \in Owner \X Mint
      BY <2>1 DEF Owner, RequestAccount
    <3>2. tokens[<<k, account[r].mint>>] - x \in Nat
      BY <3>1
    <3>3. QED
      BY <3>2
  <2> QED
    BY <2>2, <2>3, <2>4
<1>7. ASSUME NEW k \in Key, NEW r \in Request, NEW p \in Receipt, NEW a \in Owner,
             NEW x \in Payout, NEW apr \in Apr, NEW fee \in Fee,
             PresentAndFund(k, r, p, a, x, apr, fee)
      PROVE  TypeOK'
  <2> USE <1>7 DEF PresentAndFund
  <2>1. account[r] \in RequestAccount /\ vault[r] \in Nat /\ day \in Day
    BY RowTypes DEF MayPresent
  <2>2. loan' \in [Request -> LoanAccount \cup {None}]
    BY <2>1, AmountsAssumption DEF LoanAccount, RequestAccount, Day
  <2>3. tokens' \in [Owner \X Mint -> Nat]
    <3> DEFINE b == <<a, account[r].mint>>
    <3>1. b \in Owner \X Mint
      BY <2>1 DEF RequestAccount
    <3>2. tokens[b] + vault[r] \in Nat
      BY <2>1, <3>1
    <3>3. QED
      BY <3>2
  <2>4. account' \in [Request -> RequestAccount \cup {None}]
    BY <2>1 DEF RequestAccount
  <2>5. nullifier' \in [Nullifier -> Request \cup {NoRequest}]
    BY NullifierType
  <2> QED
    BY <2>1, <2>2, <2>3, <2>4, <2>5 DEF CountLoan
<1>8. ASSUME NEW k \in Key, NEW r \in Request, Draw(k, r)
      PROVE  TypeOK'
  <2> USE <1>8 DEF Draw
  <2>1. loan[r] \in LoanAccount
    BY RowTypes DEF Drawable, Settled
  <2>2. loan' \in [Request -> LoanAccount \cup {None}]
    BY <2>1 DEF LoanAccount
  <2> QED
    BY <2>2
<1>9. ASSUME NEW k \in Owner, NEW r \in Request, NEW m \in Mint, NEW x \in Nat,
             Repay(k, r, m, x)
      PROVE  TypeOK'
  <2> USE <1>9 DEF Repay
  <2>1. loan[r] \in LoanAccount /\ x \in Nat
    BY RowTypes, AmountsAssumption DEF Repayable
  <2>2. loan' \in [Request -> LoanAccount \cup {None}]
    BY <2>1 DEF LoanAccount
  <2>3. tokens' \in [Owner \X Mint -> Nat]
    BY <2>1
  <2> QED
    BY <2>2, <2>3
<1>10. CASE UNCHANGED chain
  BY <1>10 DEF chain
<1> QED
  BY <1>1, <1>2, <1>3, <1>4, <1>5, <1>6, <1>7, <1>8, <1>9, <1>10 DEF Instruction

-----------------------------------------------------------------------------
(* Nullifiers and loans.                                                   *)

LEMMA SpentStep == TypeOK /\ SpentByItsLoan /\ [Instruction]_chain => SpentByItsLoan'
<1> SUFFICES ASSUME TypeOK /\ SpentByItsLoan, [Instruction]_chain PROVE SpentByItsLoan'
  OBVIOUS
<1>1. CASE Initialize
  BY <1>1 DEF Initialize, SpentByItsLoan, Settled
<1>2. CASE NextDay
  BY <1>2 DEF NextDay, SpentByItsLoan, Settled
<1>3. ASSUME NEW y \in Policy, NEW v \in Verifier, PublishPolicy(y, v)
      PROVE  SpentByItsLoan'
  BY <1>3 DEF PublishPolicy, SpentByItsLoan, Settled
<1>4. ASSUME NEW a \in Payout, NEW m \in Mint, OpenPayout(a, m)
      PROVE  SpentByItsLoan'
  BY <1>4 DEF OpenPayout, SpentByItsLoan, Settled
<1>5. ASSUME NEW k \in Key, NEW r \in Request, NEW w \in Passport, NEW t \in Term,
             NEW m \in Mint, PublishRequest(k, r, w, t, m)
      PROVE  SpentByItsLoan'
  BY <1>5 DEF PublishRequest, SpentByItsLoan, Settled
<1>6. ASSUME NEW k \in Key, NEW r \in Request, NEW x \in Nat, FundEscrow(k, r, x)
      PROVE  SpentByItsLoan'
  BY <1>6 DEF FundEscrow, SpentByItsLoan, Settled
<1>7. ASSUME NEW k \in Key, NEW r \in Request, NEW p \in Receipt, NEW a \in Owner,
             NEW x \in Payout, NEW apr \in Apr, NEW fee \in Fee,
             PresentAndFund(k, r, p, a, x, apr, fee)
      PROVE  SpentByItsLoan'
  <2> USE <1>7
  <2>1. ~Settled(r) /\ nullifier[NullifierOf(p)] = NoRequest
    BY DEF PresentAndFund, MayPresent, LoanFree, NullifierFree
  <2>2. NullifierOf(p) \in Nullifier
    BY NullifierType
  <2>3. ASSUME NEW n \in Nullifier, NEW s \in Request
        PROVE  nullifier'[n] = s <=> Settled(s)' /\ NullifierOf(loan'[s].receipt) = n
    <3>1. CASE s = r
      <4>1. Settled(r)' /\ loan'[r].receipt = p
        BY DEF PresentAndFund, TypeOK, Settled
      <4>2. nullifier'[n] = r <=> n = NullifierOf(p)
        BY <2>1, <2>2 DEF PresentAndFund, TypeOK, SpentByItsLoan
      <4> QED
        BY <3>1, <4>1, <4>2
    <3>2. CASE s # r
      <4>1. loan'[s] = loan[s]
        BY <3>2 DEF PresentAndFund, TypeOK
      <4>2. nullifier'[n] = s <=> nullifier[n] = s
        BY <2>1, <2>2, <3>2, KeysAssumption DEF PresentAndFund, TypeOK
      <4> QED
        BY <4>1, <4>2 DEF SpentByItsLoan, Settled
    <3> QED
      BY <3>1, <3>2
  <2> QED
    BY <2>3 DEF SpentByItsLoan
<1>8. ASSUME NEW k \in Key, NEW r \in Request, Draw(k, r)
      PROVE  SpentByItsLoan'
  <2>1. \A s \in Request :
         Settled(s)' = Settled(s) /\ (Settled(s) => loan'[s].receipt = loan[s].receipt)
    BY <1>8, RowTypes DEF Draw, Drawable, TypeOK, Settled, LoanAccount
  <2> QED
    BY <1>8, <2>1 DEF Draw, SpentByItsLoan
<1>9. ASSUME NEW k \in Owner, NEW r \in Request, NEW m \in Mint, NEW x \in Nat,
             Repay(k, r, m, x)
      PROVE  SpentByItsLoan'
  <2>1. \A s \in Request :
         Settled(s)' = Settled(s) /\ (Settled(s) => loan'[s].receipt = loan[s].receipt)
    BY <1>9, RowTypes DEF Repay, Repayable, TypeOK, Settled, LoanAccount
  <2> QED
    BY <1>9, <2>1 DEF Repay, SpentByItsLoan
<1>10. CASE UNCHANGED chain
  BY <1>10 DEF chain, SpentByItsLoan, Settled
<1> QED
  BY <1>1, <1>2, <1>3, <1>4, <1>5, <1>6, <1>7, <1>8, <1>9, <1>10 DEF Instruction

LEMMA JustifiedStep ==
  TypeOK /\ TypeOK' /\ SpentByItsLoan' /\ LoanJustified /\ [Instruction]_chain
    => LoanJustified'
<1> SUFFICES ASSUME TypeOK, TypeOK', SpentByItsLoan', LoanJustified, [Instruction]_chain
             PROVE  LoanJustified'
  OBVIOUS
<1>1. CASE Initialize
  BY <1>1 DEF Initialize, LoanJustified, Settled, Published
<1>2. CASE NextDay
  BY <1>2 DEF NextDay, LoanJustified, Settled, Published
<1>3. ASSUME NEW y \in Policy, NEW v \in Verifier, PublishPolicy(y, v)
      PROVE  LoanJustified'
  <2>1. policies \subseteq policies' /\ UNCHANGED <<account, loan>>
    BY <1>3 DEF PublishPolicy
  <2> QED
    BY <2>1 DEF LoanJustified, Settled, Published
<1>4. ASSUME NEW a \in Payout, NEW m \in Mint, OpenPayout(a, m)
      PROVE  LoanJustified'
  BY <1>4 DEF OpenPayout, LoanJustified, Settled, Published
<1>5. ASSUME NEW k \in Key, NEW r \in Request, NEW w \in Passport, NEW t \in Term,
             NEW m \in Mint, PublishRequest(k, r, w, t, m)
      PROVE  LoanJustified'
  <2>1. \A s \in Request : Published(s) =>
         Published(s)' /\ account'[s].passport = account[s].passport
    BY <1>5, RowTypes DEF PublishRequest, MayPublishRequest, TypeOK, Published, RequestAccount
  <2>2. UNCHANGED <<policies, loan>>
    BY <1>5 DEF PublishRequest
  <2> QED
    BY <2>1, <2>2 DEF LoanJustified, Settled
<1>6. ASSUME NEW k \in Key, NEW r \in Request, NEW x \in Nat, FundEscrow(k, r, x)
      PROVE  LoanJustified'
  <2>1. \A s \in Request : Published(s) =>
         Published(s)' /\ account'[s].passport = account[s].passport
    BY <1>6, RowTypes DEF FundEscrow, MayFundEscrow, TypeOK, Published, RequestAccount
  <2>2. UNCHANGED <<policies, loan>>
    BY <1>6 DEF FundEscrow
  <2> QED
    BY <2>1, <2>2 DEF LoanJustified, Settled
<1>7. ASSUME NEW k \in Key, NEW r \in Request, NEW p \in Receipt, NEW a \in Owner,
             NEW x \in Payout, NEW apr \in Apr, NEW fee \in Fee,
             PresentAndFund(k, r, p, a, x, apr, fee)
      PROVE  LoanJustified'
  <2> USE <1>7
  <2>1. /\ Settled(r)' /\ loan'[r].receipt = p /\ loan'[r].fundedAt = day
        /\ \A s \in Request : s # r => loan'[s] = loan[s]
    BY DEF PresentAndFund, TypeOK, Settled
  <2>2. /\ \A s \in Request : Published(s) =>
             Published(s)' /\ account'[s].passport = account[s].passport
        /\ policies' = policies
    BY RowTypes DEF PresentAndFund, MayPresent, TypeOK, Published, RequestAccount
  <2>3. /\ Published(r) /\ p.passport = account[r].passport
        /\ Eligible(p) /\ <<p.policy, p.verifier>> \in policies /\ p.expiry > day
    BY DEF PresentAndFund, MayPresent, Bound
  <2>4. ASSUME NEW s \in Request, NEW q \in Request, Settled(s)', Settled(q)',
               NullifierOf(loan'[q].receipt) = NullifierOf(loan'[s].receipt)
        PROVE  q = s
    <3> DEFINE n == NullifierOf(loan'[s].receipt)
    <3>1. loan'[s].receipt \in Receipt
      BY <2>4 DEF TypeOK, LoanAccount, Settled, None
    <3>2. n \in Nullifier
      BY <3>1, NullifierType
    <3>3. nullifier'[n] = s /\ nullifier'[n] = q
      BY <2>4, <3>2 DEF SpentByItsLoan
    <3> QED
      BY <3>3
  <2>5. ASSUME NEW s \in Request, Settled(s)'
        PROVE  LET z == loan'[s].receipt IN
               /\ Published(s)' /\ z.passport = account'[s].passport
               /\ Eligible(z) /\ <<z.policy, z.verifier>> \in policies'
               /\ z.expiry > loan'[s].fundedAt
    <3>1. CASE s = r
      BY <2>1, <2>2, <2>3, <3>1
    <3>2. CASE s # r
      BY <2>1, <2>2, <2>5, <3>2 DEF LoanJustified, Settled
    <3> QED
      BY <3>1, <3>2
  <2> QED
    BY <2>4, <2>5 DEF LoanJustified
<1>8. ASSUME NEW k \in Key, NEW r \in Request, Draw(k, r)
      PROVE  LoanJustified'
  <2>1. \A s \in Request : Settled(s)' = Settled(s) /\ (Settled(s) =>
         loan'[s].receipt = loan[s].receipt /\ loan'[s].fundedAt = loan[s].fundedAt)
    BY <1>8, RowTypes DEF Draw, Drawable, TypeOK, Settled, LoanAccount
  <2>2. UNCHANGED <<policies, account>>
    BY <1>8 DEF Draw
  <2> QED
    BY <2>1, <2>2 DEF LoanJustified, Published
<1>9. ASSUME NEW k \in Owner, NEW r \in Request, NEW m \in Mint, NEW x \in Nat,
             Repay(k, r, m, x)
      PROVE  LoanJustified'
  <2>1. \A s \in Request : Settled(s)' = Settled(s) /\ (Settled(s) =>
         loan'[s].receipt = loan[s].receipt /\ loan'[s].fundedAt = loan[s].fundedAt)
    BY <1>9, RowTypes DEF Repay, Repayable, TypeOK, Settled, LoanAccount
  <2>2. UNCHANGED <<policies, account>>
    BY <1>9 DEF Repay
  <2> QED
    BY <2>1, <2>2 DEF LoanJustified, Published
<1>10. CASE UNCHANGED chain
  BY <1>10 DEF chain, LoanJustified, Settled, Published
<1> QED
  BY <1>1, <1>2, <1>3, <1>4, <1>5, <1>6, <1>7, <1>8, <1>9, <1>10 DEF Instruction

LEMMA IInvInit ==
  ASSUME NEW set \in BOOLEAN, EmptyChain(set)
  PROVE  IInv
<1>1. \A r \in Request : ~Settled(r)
  BY DEF EmptyChain, Settled, None
<1>2. \A n \in Nullifier, r \in Request : nullifier[n] # r
  BY KeysAssumption DEF EmptyChain
<1>3. SpentByItsLoan /\ LoanJustified
  BY <1>1, <1>2 DEF SpentByItsLoan, LoanJustified
<1> QED
  BY <1>3, TypeInit DEF IInv

LEMMA IInvStep == IInv /\ [Instruction]_chain => IInv'
  BY TypeStep, SpentStep, JustifiedStep DEF IInv

LEMMA Always == ChainSpec => []IInv
<1>1. ChainInit => IInv
  BY IInvInit DEF ChainInit
<1> QED
  BY <1>1, IInvStep, ChainTakesInstructions, PTL DEF ChainSpec

-----------------------------------------------------------------------------
(* Every account is one the instructions can have written.                 *)
THEOREM TypeCorrect == ChainSpec => []TypeOK
  BY Always, PTL DEF IInv

(* A nullifier is spent exactly by the loan it paid for.                   *)
THEOREM ReceiptsSpentOnce == ChainSpec => []SpentByItsLoan
  BY Always, PTL DEF IInv

(* Every loan rests on a receipt about its own request, under a published  *)
(* policy, and on no receipt another loan rests on.                        *)
THEOREM LoansJustified == ChainSpec => []LoanJustified
  BY Always, PTL DEF IInv

-----------------------------------------------------------------------------
(* What a step may do to an escrow and to a loan.                          *)

Paid ==
  \A r \in Request : vault'[r] < vault[r] =>
       /\ ~Settled(r) /\ loan'[r].status = "funded"
       /\ vault'[r] = 0 /\ loan'[r].principal = vault[r]
       /\ \E b \in opened : /\ b[2] = loan'[r].mint
                            /\ tokens'[b] = tokens[b] + vault[r]

LEMMA PaidStep == TypeOK /\ [Instruction]_chain => Paid
<1> SUFFICES ASSUME TypeOK, [Instruction]_chain PROVE Paid
  OBVIOUS
<1>1. CASE Initialize
  BY <1>1 DEF Initialize, TypeOK, Paid
<1>2. CASE NextDay
  BY <1>2 DEF NextDay, TypeOK, Paid
<1>3. ASSUME NEW y \in Policy, NEW v \in Verifier, PublishPolicy(y, v)
      PROVE  Paid
  BY <1>3 DEF PublishPolicy, TypeOK, Paid
<1>4. ASSUME NEW a \in Payout, NEW m \in Mint, OpenPayout(a, m)
      PROVE  Paid
  BY <1>4 DEF OpenPayout, TypeOK, Paid
<1>5. ASSUME NEW k \in Key, NEW r \in Request, NEW w \in Passport, NEW t \in Term,
             NEW m \in Mint, PublishRequest(k, r, w, t, m)
      PROVE  Paid
  BY <1>5 DEF PublishRequest, TypeOK, Paid
<1>6. ASSUME NEW k \in Key, NEW r \in Request, NEW x \in Nat, FundEscrow(k, r, x)
      PROVE  Paid
  <2>1. \A s \in Request : vault[s] \in Nat /\ (vault'[s] = vault[s] \/ vault'[s] = vault[s] + x)
    BY <1>6 DEF FundEscrow, TypeOK
  <2> QED
    BY <2>1, <1>6, AmountsAssumption DEF Paid
<1>7. ASSUME NEW k \in Key, NEW r \in Request, NEW p \in Receipt, NEW a \in Owner,
             NEW x \in Payout, NEW apr \in Apr, NEW fee \in Fee,
             PresentAndFund(k, r, p, a, x, apr, fee)
      PROVE  Paid
  <2> USE <1>7 DEF PresentAndFund
  <2>1. \A s \in Request : s # r => vault'[s] = vault[s] /\ vault[s] \in Nat
    BY DEF TypeOK
  <2>2. /\ ~Settled(r) /\ loan'[r].status = "funded" /\ vault'[r] = 0
        /\ loan'[r].principal = vault[r] /\ loan'[r].mint = account[r].mint
    BY DEF MayPresent, LoanFree, TypeOK
  <2>3. /\ <<a, account[r].mint>> \in opened
        /\ tokens'[<<a, account[r].mint>>] = tokens[<<a, account[r].mint>>] + vault[r]
    BY DEF MayPresent, TypeOK
  <2> QED
    BY <2>1, <2>2, <2>3 DEF Paid
<1>8. ASSUME NEW k \in Key, NEW r \in Request, Draw(k, r)
      PROVE  Paid
  BY <1>8 DEF Draw, TypeOK, Paid
<1>9. ASSUME NEW k \in Owner, NEW r \in Request, NEW m \in Mint, NEW x \in Nat,
             Repay(k, r, m, x)
      PROVE  Paid
  BY <1>9 DEF Repay, TypeOK, Paid
<1>10. CASE UNCHANGED chain
  BY <1>10 DEF chain, TypeOK, Paid
<1> QED
  BY <1>1, <1>2, <1>3, <1>4, <1>5, <1>6, <1>7, <1>8, <1>9, <1>10 DEF Instruction

Terms == {"lender", "borrower", "payout", "receipt", "principal", "apr", "fee",
          "term", "mint", "fundedAt"}
Kept ==
  \A r \in Request : Settled(r) =>
    /\ \A f \in Terms : loan'[r][f] = loan[r][f]
    /\ loan[r].status = "repaid" => loan'[r] = loan[r]

LEMMA KeptStep == TypeOK /\ [Instruction]_chain => Kept
<1> SUFFICES ASSUME TypeOK, [Instruction]_chain PROVE Kept
  OBVIOUS
<1>1. CASE Initialize
  BY <1>1 DEF Initialize, Kept
<1>2. CASE NextDay
  BY <1>2 DEF NextDay, Kept
<1>3. ASSUME NEW y \in Policy, NEW v \in Verifier, PublishPolicy(y, v)
      PROVE  Kept
  BY <1>3 DEF PublishPolicy, Kept
<1>4. ASSUME NEW a \in Payout, NEW m \in Mint, OpenPayout(a, m)
      PROVE  Kept
  BY <1>4 DEF OpenPayout, Kept
<1>5. ASSUME NEW k \in Key, NEW r \in Request, NEW w \in Passport, NEW t \in Term,
             NEW m \in Mint, PublishRequest(k, r, w, t, m)
      PROVE  Kept
  BY <1>5 DEF PublishRequest, Kept
<1>6. ASSUME NEW k \in Key, NEW r \in Request, NEW x \in Nat, FundEscrow(k, r, x)
      PROVE  Kept
  BY <1>6 DEF FundEscrow, Kept
<1>7. ASSUME NEW k \in Key, NEW r \in Request, NEW p \in Receipt, NEW a \in Owner,
             NEW x \in Payout, NEW apr \in Apr, NEW fee \in Fee,
             PresentAndFund(k, r, p, a, x, apr, fee)
      PROVE  Kept
  BY <1>7 DEF PresentAndFund, MayPresent, LoanFree, TypeOK, Kept
<1>8. ASSUME NEW k \in Key, NEW r \in Request, Draw(k, r)
      PROVE  Kept
  <2>1. loan[r] \in LoanAccount /\ loan[r].status # "repaid"
    BY <1>8, RowTypes DEF Draw, Drawable, Settled
  <2>2. \A s \in Request : s # r => loan'[s] = loan[s]
    BY <1>8 DEF Draw, TypeOK
  <2>3. \A f \in Terms : loan'[r][f] = loan[r][f]
    BY <1>8, <2>1 DEF Draw, TypeOK, LoanAccount, Terms
  <2> QED
    BY <2>1, <2>2, <2>3 DEF Kept
<1>9. ASSUME NEW k \in Owner, NEW r \in Request, NEW m \in Mint, NEW x \in Nat,
             Repay(k, r, m, x)
      PROVE  Kept
  <2>1. loan[r] \in LoanAccount /\ loan[r].status # "repaid"
    BY <1>9, RowTypes DEF Repay, Repayable, Settled
  <2>2. \A s \in Request : s # r => loan'[s] = loan[s]
    BY <1>9 DEF Repay, TypeOK
  <2>3. \A f \in Terms : loan'[r][f] = loan[r][f]
    BY <1>9, <2>1 DEF Repay, TypeOK, LoanAccount, Terms
  <2> QED
    BY <2>1, <2>2, <2>3 DEF Kept
<1>10. CASE UNCHANGED chain
  BY <1>10 DEF chain, Kept
<1> QED
  BY <1>1, <1>2, <1>3, <1>4, <1>5, <1>6, <1>7, <1>8, <1>9, <1>10 DEF Instruction

(* Tokens leave an escrow only as the principal of its request's one loan. *)
THEOREM EscrowPaysOnce == ChainSpec => VaultPaysItsLoanOnce
<1>1. TypeOK /\ [Instruction]_chain => [Paid]_chain
  BY PaidStep
<1> QED
  BY <1>1, TypeCorrect, ChainTakesInstructions, PTL DEF ChainSpec, VaultPaysItsLoanOnce, Paid

(* The terms of a loan are fixed and repaid is its last state.             *)
THEOREM TermsFixed == ChainSpec => LoanTermsFixed
<1>1. TypeOK /\ [Instruction]_chain => [Kept]_chain
  BY KeptStep
<1> QED
  BY <1>1, TypeCorrect, ChainTakesInstructions, PTL DEF ChainSpec, LoanTermsFixed, Kept, Terms

-----------------------------------------------------------------------------
(* What the program never takes back: what preflight saw stays true, but   *)
(* for the day and for what a loan of the same request or the same         *)
(* nullifier uses up.                                                      *)
Lasting ==
  /\ configured => configured'
  /\ policies \subseteq policies' /\ opened \subseteq opened'
  /\ day <= day'
  /\ \A r \in Request :
       /\ Published(r) => /\ Published(r)'
                          /\ account'[r].passport = account[r].passport
                          /\ account'[r].mint = account[r].mint
       /\ Settled(r) => /\ Settled(r)'
                        /\ loan'[r].receipt = loan[r].receipt
                        /\ loan'[r].principal = loan[r].principal
       /\ vault'[r] >= vault[r] \/ Settled(r)'

LEMMA LastingStep == TypeOK /\ [Instruction]_chain => Lasting
<1> SUFFICES ASSUME TypeOK, [Instruction]_chain PROVE Lasting
  OBVIOUS
<1>1. day \in Int
  BY AmountsAssumption DEF TypeOK, Day
<1> DEFINE Growing == /\ configured => configured'
                      /\ policies \subseteq policies' /\ opened \subseteq opened'
                      /\ day <= day'
<1>2. ASSUME Initialize PROVE Growing
  BY <1>2, <1>1 DEF Initialize
<1>3. ASSUME NextDay PROVE Growing
  BY <1>3, <1>1 DEF NextDay
<1>4. ASSUME NEW y \in Policy, NEW v \in Verifier, PublishPolicy(y, v) PROVE Growing
  BY <1>4, <1>1 DEF PublishPolicy
<1>5. ASSUME NEW a \in Payout, NEW m \in Mint, OpenPayout(a, m) PROVE Growing
  BY <1>5, <1>1 DEF OpenPayout
<1>6. UNCHANGED <<configured, policies, opened, day>> => Growing
  BY <1>1
<1>7. ASSUME NEW k \in Key, NEW r \in Request
      PROVE  /\ \A w \in Passport, t \in Term, m \in Mint : PublishRequest(k, r, w, t, m) =>
                  UNCHANGED <<configured, policies, opened, day>>
             /\ \A x \in Nat : FundEscrow(k, r, x) =>
                  UNCHANGED <<configured, policies, opened, day>>
             /\ \A p \in Receipt, a \in Owner, x \in Payout, apr \in Apr, fee \in Fee :
                  PresentAndFund(k, r, p, a, x, apr, fee) =>
                    UNCHANGED <<configured, policies, opened, day>>
             /\ Draw(k, r) => UNCHANGED <<configured, policies, opened, day>>
  BY DEF PublishRequest, FundEscrow, PresentAndFund, Draw
<1>8. ASSUME NEW k \in Owner, NEW r \in Request, NEW m \in Mint, NEW x \in Nat, Repay(k, r, m, x)
      PROVE  UNCHANGED <<configured, policies, opened, day>>
  BY <1>8 DEF Repay
<1>9. UNCHANGED chain => UNCHANGED <<configured, policies, opened, day>>
  BY DEF chain
<1>10. \/ UNCHANGED <<configured, policies, opened, day>>
       \/ Initialize \/ NextDay
       \/ \E y \in Policy, v \in Verifier : PublishPolicy(y, v)
       \/ \E a \in Payout, m \in Mint : OpenPayout(a, m)
  BY <1>7, <1>8, <1>9 DEF Instruction
<1> HIDE DEF Growing
<1>11. Growing
  BY <1>2, <1>3, <1>4, <1>5, <1>6, <1>10
<1> USE DEF Growing
<1> DEFINE KeptAccount(r) == /\ Published(r)'
                             /\ account'[r].passport = account[r].passport
                             /\ account'[r].mint = account[r].mint
<1>12. ASSUME NEW r \in Request, Published(r)
      PROVE  KeptAccount(r)
  <2>1. account[r] \in RequestAccount
    BY <1>12, RowTypes
  <2>2. ASSUME NEW k \in Key, NEW s \in Request, NEW w \in Passport, NEW t \in Term,
               NEW m \in Mint, PublishRequest(k, s, w, t, m)
        PROVE  account'[r] = account[r]
    BY <1>12, <2>2 DEF PublishRequest, MayPublishRequest, TypeOK, Published
  <2>3. ASSUME NEW k \in Key, NEW s \in Request, NEW x \in Nat, FundEscrow(k, s, x)
        PROVE  KeptAccount(r)
    BY <1>12, <2>1, <2>3 DEF FundEscrow, TypeOK, Published, RequestAccount
  <2>4. ASSUME NEW k \in Key, NEW s \in Request, NEW p \in Receipt, NEW a \in Owner,
               NEW x \in Payout, NEW apr \in Apr, NEW fee \in Fee,
               PresentAndFund(k, s, p, a, x, apr, fee)
        PROVE  KeptAccount(r)
    BY <1>12, <2>1, <2>4 DEF PresentAndFund, TypeOK, Published, RequestAccount
  <2>5. CASE UNCHANGED account
    BY <1>12, <2>5 DEF Published
  <2> QED
    BY <1>12, <2>2, <2>3, <2>4, <2>5
       DEF Published, Instruction, chain, Initialize, NextDay, PublishPolicy,
           OpenPayout, Draw, Repay
<1>13. ASSUME NEW r \in Request, Settled(r)
      PROVE  /\ Settled(r)'
             /\ loan'[r].receipt = loan[r].receipt
             /\ loan'[r].principal = loan[r].principal
  <2>1. /\ loan'[r].receipt = loan[r].receipt
        /\ loan'[r].principal = loan[r].principal
    BY <1>13, KeptStep DEF Kept, Terms
  <2>2. ASSUME NEW k \in Key, NEW s \in Request, Draw(k, s)
        PROVE  Settled(r)'
    BY <1>13, <2>2, RowTypes DEF Draw, Drawable, TypeOK, Settled, LoanAccount
  <2>3. ASSUME NEW k \in Owner, NEW s \in Request, NEW m \in Mint, NEW x \in Nat, Repay(k, s, m,
            x)
        PROVE  Settled(r)'
    BY <1>13, <2>3, RowTypes DEF Repay, Repayable, TypeOK, Settled, LoanAccount
  <2>4. ASSUME NEW k \in Key, NEW s \in Request, NEW p \in Receipt, NEW a \in Owner,
               NEW x \in Payout, NEW apr \in Apr, NEW fee \in Fee,
               PresentAndFund(k, s, p, a, x, apr, fee)
        PROVE  Settled(r)'
    BY <1>13, <2>4 DEF PresentAndFund, MayPresent, LoanFree, TypeOK, Settled
  <2>5. CASE UNCHANGED loan
    BY <1>13, <2>5 DEF Settled
  <2> QED
    BY <2>1, <2>2, <2>3, <2>4, <2>5
       DEF Instruction, chain, Initialize, NextDay, PublishPolicy, OpenPayout,
           PublishRequest, FundEscrow
<1>14. ASSUME NEW r \in Request
       PROVE  vault'[r] >= vault[r] \/ Settled(r)'
  <2>1. vault[r] \in Nat /\ vault'[r] \in Nat
    BY TypeStep DEF TypeOK
  <2>2. vault'[r] < vault[r] => loan'[r].status = "funded"
    BY PaidStep DEF Paid
  <2> QED
    BY <2>1, <2>2 DEF Settled
<1> QED
  BY <1>11, <1>12, <1>13, <1>14 DEF Lasting

-----------------------------------------------------------------------------
(* The interest clock.                                                     *)

LEMMA Products ==
  ASSUME NEW a \in Nat, NEW b \in Nat, NEW c \in Nat, b <= c
  PROVE  a * b \in Nat /\ a * c \in Nat /\ a * b <= a * c
<1>1. PICK d \in Nat : c = b + d
  BY c - b \in Nat
<1>2. a * c = a * b + a * d
  BY <1>1
<1>3. a * d \in Nat /\ a * b \in Nat /\ a * c \in Nat
  BY Z3
<1> QED
  BY <1>2, <1>3

LEMMA Quotients ==
  ASSUME NEW x \in Nat, NEW y \in Nat, NEW d \in Nat \ {0}, x <= y
  PROVE  x \div d \in Nat /\ y \div d \in Nat /\ x \div d <= y \div d
  BY Z3

(* Interest grows with the days it runs, up to the term.                   *)
LEMMA InterestGrows ==
  ASSUME NEW n \in LoanAccount, NEW d \in Day, NEW e \in Day
  PROVE  /\ WithoutInterest(n) \in Nat /\ Interest(n, d) \in Nat
         /\ Interest(n, d) <= FullTermInterest(n) /\ FullTermInterest(n) \in Nat
         /\ d <= e => Interest(n, d) <= Interest(n, e)
         /\ d <= n.fundedAt /\ n.drawnAt = 0 => Interest(n, d) = 0
         /\ d <= n.drawnAt => Interest(n, d) = 0
         /\ Interest(n, e) \in Nat
<1>1. /\ n.principal \in Nat /\ n.apr \in Nat /\ n.fee \in Nat /\ n.term \in Nat
      /\ n.fundedAt \in Nat /\ n.drawnAt \in Nat /\ d \in Nat /\ e \in Nat
      /\ RateBase \in Nat \ {0} /\ FeeBase \in Nat \ {0}
  <2>1. /\ n.principal \in Nat /\ n.apr \in Apr /\ n.fee \in Fee /\ n.term \in Term
        /\ n.fundedAt \in Day /\ n.drawnAt \in Day
    BY DEF LoanAccount
  <2>2. /\ Apr \subseteq Nat /\ Fee \subseteq Nat /\ Term \subseteq Nat
        /\ RateBase \in Nat \ {0} /\ FeeBase \in Nat \ {0}
    BY AmountsAssumption
  <2>3. Day \subseteq Nat
    BY AmountsAssumption DEF Day
  <2>4. QED
    BY <2>1, <2>2, <2>3
<1>2. /\ Elapsed(n, d) \in Nat /\ Elapsed(n, e) \in Nat /\ Elapsed(n, d) <= n.term
      /\ d <= e => Elapsed(n, d) <= Elapsed(n, e)
      /\ d <= n.fundedAt /\ n.drawnAt = 0 => Elapsed(n, d) = 0
      /\ d <= n.drawnAt => Elapsed(n, d) = 0
  BY <1>1 DEF Elapsed
<1> DEFINE rate == n.principal * n.apr
<1>3. rate \in Nat
  BY <1>1, Products
<1>4. n.principal * n.fee \in Nat
  BY <1>1, Products
<1>5. WithoutInterest(n) \in Nat
  <2>1. (n.principal * n.fee) \div FeeBase \in Nat
    BY <1>1, <1>4, Quotients
  <2>2. QED
    BY <1>1, <2>1 DEF WithoutInterest
<1> HIDE DEF rate
<1>6. /\ rate * Elapsed(n, d) \in Nat /\ rate * n.term \in Nat
      /\ rate * Elapsed(n, d) <= rate * n.term
  BY <1>1, <1>2, <1>3, Products
<1>7. rate * Elapsed(n, e) \in Nat
  BY <1>2, <1>3, Products
<1>8. d <= e => rate * Elapsed(n, d) <= rate * Elapsed(n, e)
  BY <1>2, <1>3, Products
<1>9. Elapsed(n, d) = 0 => (rate * Elapsed(n, d)) \div RateBase = 0
  <2>1. ASSUME Elapsed(n, d) = 0 PROVE rate * Elapsed(n, d) = 0
    BY <1>3, <2>1
  <2>2. 0 \div RateBase = 0
    BY <1>1
  <2>3. QED
    BY <2>1, <2>2
<1>10. /\ Interest(n, d) = (rate * Elapsed(n, d)) \div RateBase
       /\ Interest(n, e) = (rate * Elapsed(n, e)) \div RateBase
       /\ FullTermInterest(n) = (rate * n.term) \div RateBase
  BY DEF Interest, FullTermInterest, rate
<1>11. /\ Interest(n, d) \in Nat /\ FullTermInterest(n) \in Nat
       /\ Interest(n, d) <= FullTermInterest(n)
  BY <1>1, <1>6, <1>10, Quotients
<1>12. Interest(n, e) \in Nat
  BY <1>1, <1>7, <1>10, Quotients
<1>13. d <= e => Interest(n, d) <= Interest(n, e)
  BY <1>1, <1>6, <1>7, <1>8, <1>10, Quotients
<1> QED
  BY <1>2, <1>5, <1>9, <1>10, <1>11, <1>12, <1>13

(* A loan is drawn, is repaid, or stays as it is.                          *)
LEMMA LoanMoves ==
  ASSUME TypeOK, [Instruction]_chain, NEW r \in Request, Settled(r)
  PROVE  \/ loan'[r] = loan[r]
         \/ /\ loan[r].status = "funded" /\ day' = day
            /\ loan'[r] = [loan[r] EXCEPT !.status = "active", !.drawnAt = day]
         \/ /\ loan'[r] = [loan[r] EXCEPT !.status = "repaid"] /\ day' = day
<1>a. loan \in [Request -> LoanAccount \cup {None}]
  BY DEF TypeOK
<1>1. ASSUME NEW k \in Key, NEW s \in Request, Draw(k, s)
      PROVE  \/ loan'[r] = loan[r]
             \/ /\ loan[r].status = "funded" /\ day' = day
                /\ loan'[r] = [loan[r] EXCEPT !.status = "active", !.drawnAt = day]
  BY <1>a, <1>1 DEF Draw, Drawable
<1>2. ASSUME NEW k \in Owner, NEW s \in Request, NEW m \in Mint, NEW x \in Nat,
             Repay(k, s, m, x)
      PROVE  \/ loan'[r] = loan[r]
             \/ loan'[r] = [loan[r] EXCEPT !.status = "repaid"] /\ day' = day
  BY <1>a, <1>2 DEF Repay
<1>3. ASSUME NEW k \in Key, NEW s \in Request, NEW p \in Receipt, NEW a \in Owner,
             NEW x \in Payout, NEW apr \in Apr, NEW fee \in Fee,
             PresentAndFund(k, s, p, a, x, apr, fee)
      PROVE  loan'[r] = loan[r]
  BY <1>a, <1>3 DEF PresentAndFund, MayPresent, LoanFree
<1>4. CASE UNCHANGED loan
  BY <1>4
<1> QED
  BY <1>1, <1>2, <1>3, <1>4
     DEF Instruction, chain, Initialize, NextDay, PublishPolicy, OpenPayout,
         PublishRequest, FundEscrow

Accrues ==
  \A r \in Request : Repayable(r) =>
       LET owed == TotalRepayment(loan[r], day)
           owedNext == TotalRepayment(loan'[r], day')
       IN /\ owed <= WithoutInterest(loan[r]) + FullTermInterest(loan[r])
          /\ IF loan'[r].status = "active" /\ loan[r].status = "funded"
             THEN owedNext = WithoutInterest(loan[r])
             ELSE owedNext >= owed

LEMMA AccruesStep == TypeOK /\ [Instruction]_chain => Accrues
<1> SUFFICES ASSUME TypeOK, [Instruction]_chain, NEW r \in Request, Repayable(r)
    PROVE  /\ TotalRepayment(loan[r], day) <= WithoutInterest(loan[r]) + FullTermInterest(loan[r])
           /\ IF loan'[r].status = "active" /\ loan[r].status = "funded"
              THEN TotalRepayment(loan'[r], day') = WithoutInterest(loan[r])
              ELSE TotalRepayment(loan'[r], day') >= TotalRepayment(loan[r], day)
  BY DEF Accrues
<1>1. Settled(r) /\ loan[r] \in LoanAccount /\ loan'[r] \in LoanAccount
  BY RowTypes, TypeStep, LastingStep DEF Repayable, Lasting, TypeOK, Settled, None
<1>2. day \in Day /\ day' \in Day /\ day <= day'
  BY TypeStep, LastingStep DEF Lasting, TypeOK
<1>3. \A n \in LoanAccount, d \in Day :
        TotalRepayment(n, d) = WithoutInterest(n) + Interest(n, d)
  <2> SUFFICES ASSUME NEW n \in LoanAccount, NEW d \in Day
               PROVE  TotalRepayment(n, d) = WithoutInterest(n) + Interest(n, d)
    OBVIOUS
  <2>1. n.principal \in Nat /\ n.fee \in Nat
    BY AmountsAssumption DEF LoanAccount
  <2>2. (n.principal * n.fee) \div FeeBase \in Nat
    BY <2>1, AmountsAssumption, Products, Quotients
  <2>3. Interest(n, d) \in Nat
    BY InterestGrows
  <2>4. QED
    BY <2>1, <2>2, <2>3 DEF TotalRepayment, WithoutInterest
<1>4. /\ WithoutInterest(loan[r]) \in Nat /\ Interest(loan[r], day) \in Nat
      /\ Interest(loan[r], day') \in Nat /\ FullTermInterest(loan[r]) \in Nat
      /\ Interest(loan[r], day) <= FullTermInterest(loan[r])
      /\ Interest(loan[r], day) <= Interest(loan[r], day')
  BY <1>1, <1>2, InterestGrows
<1>5. TotalRepayment(loan[r], day) <= WithoutInterest(loan[r]) + FullTermInterest(loan[r])
  BY <1>1, <1>2, <1>3, <1>4
<1>6. CASE loan'[r] = loan[r]
  BY <1>1, <1>2, <1>3, <1>4, <1>5, <1>6
<1>7. CASE /\ loan[r].status = "funded" /\ day' = day
           /\ loan'[r] = [loan[r] EXCEPT !.status = "active", !.drawnAt = day]
  <2>1. /\ loan'[r].status = "active" /\ loan'[r].drawnAt = day
        /\ loan'[r].principal = loan[r].principal /\ loan'[r].fee = loan[r].fee
    BY <1>1, <1>7 DEF LoanAccount
  <2>2. WithoutInterest(loan'[r]) = WithoutInterest(loan[r])
    BY <2>1 DEF WithoutInterest
  <2>3. day \in Int
    BY <1>2 DEF Day
  <2>4. Interest(loan'[r], day) = 0
    BY <1>1, <1>2, <2>1, <2>3, InterestGrows
  <2>5. TotalRepayment(loan'[r], day') = WithoutInterest(loan[r])
    BY <1>1, <1>2, <1>3, <1>4, <1>7, <2>2, <2>4
  <2>6. QED
    BY <1>5, <1>7, <2>1, <2>5
<1>8. CASE loan'[r] = [loan[r] EXCEPT !.status = "repaid"] /\ day' = day
  <2>1. /\ loan'[r].status = "repaid" /\ loan'[r].principal = loan[r].principal
        /\ loan'[r].fee = loan[r].fee /\ loan'[r].apr = loan[r].apr
        /\ loan'[r].term = loan[r].term /\ loan'[r].fundedAt = loan[r].fundedAt
        /\ loan'[r].drawnAt = loan[r].drawnAt
    BY <1>1, <1>8 DEF LoanAccount
  <2>2. TotalRepayment(loan'[r], day) = TotalRepayment(loan[r], day)
    BY <2>1 DEF TotalRepayment, Interest, Elapsed
  <2>3. TotalRepayment(loan[r], day) \in Nat
    BY <1>1, <1>2, <1>3, <1>4
  <2>4. QED
    BY <1>5, <1>8, <2>1, <2>2, <2>3
<1> QED
  BY <1>1, <1>6, <1>7, <1>8, LoanMoves

(* What is owed on a loan never falls, but for the draw, which starts the  *)
(* interest clock anew, and never exceeds what the full term costs.        *)
THEOREM InterestRuns == ChainSpec => InterestClock
<1>1. TypeOK /\ [Instruction]_chain => [Accrues]_chain
  BY AccruesStep
<1> QED
  BY <1>1, TypeCorrect, ChainTakesInstructions, PTL DEF ChainSpec, InterestClock, Accrues

-----------------------------------------------------------------------------
(* The chain under the calls.                                              *)

LEMMA CallFields ==
  ASSUME SettlementTypeOK, NEW c \in Call, call[c] # Idle
  PROVE  /\ call[c] \in Running
         /\ call[c].phase \in {"check", "send", "confirm", "landed", "failed", "expired"}
         /\ call[c].replay \in BOOLEAN
         /\ call[c].step \in Step
         /\ call[c].offer \in Offer /\ OfferRequest[call[c].offer] \in Request
         /\ call[c].receipt \in Receipt /\ call[c].payout \in Payout
         /\ call[c].shortfall \in Nat
  BY RowsAssumption DEF SettlementTypeOK, Running

LEMMA TransactionFields ==
  ASSUME SettlementTypeOK, NEW t \in net
  PROVE  /\ t \in Transaction
         /\ t.call \in Call /\ t.step \in Step
         /\ t.offer \in Offer /\ OfferRequest[t.offer] \in Request
         /\ t.receipt \in Receipt /\ t.payout \in Payout /\ t.shortfall \in Nat
  BY RowsAssumption DEF SettlementTypeOK, Transaction

(* A transaction that lands is one instruction.                            *)
LEMMA ExecuteIsInstruction ==
  ASSUME NEW t \in Transaction, Execute(t)
  PROVE  Instruction
<1>1. /\ t.offer \in Offer /\ OfferRequest[t.offer] \in Request /\ TheMint \in Mint
      /\ t.receipt \in Receipt /\ t.payout \in Payout /\ t.shortfall \in Nat
      /\ LenderKey \in Key /\ BorrowerKey \in Key
      /\ t.receipt.policy \in Policy /\ t.receipt.verifier \in Verifier
      /\ t.receipt.passport \in Passport
  BY RowsAssumption DEF Transaction, Receipt
<1>2. CASE PublishPolicy(t.receipt.policy, t.receipt.verifier)
  BY <1>1, <1>2 DEF Instruction
<1>3. CASE \E x \in Term :
        PublishRequest(BorrowerKey, OfferRequest[t.offer], t.receipt.passport, x, TheMint)
  BY <1>1, <1>3 DEF Instruction
<1>4. CASE FundEscrow(LenderKey, OfferRequest[t.offer], t.shortfall)
  BY <1>1, <1>4 DEF Instruction
<1>5. CASE OpenPayout(t.payout, TheMint)
  BY <1>1, <1>5 DEF Instruction
<1>6. CASE \E apr \in Apr, fee \in Fee :
        PresentAndFund(LenderKey, OfferRequest[t.offer], t.receipt, t.payout, t.payout,
                       apr, fee)
  <2>1. t.payout \in Owner
    BY <1>1 DEF Owner
  <2>2. PICK apr \in Apr, fee \in Fee :
          PresentAndFund(LenderKey, OfferRequest[t.offer], t.receipt, t.payout, t.payout,
                         apr, fee)
    BY <1>6
  <2>3. QED
    BY <1>1, <2>1, <2>2 DEF Instruction
<1>7. QED
  BY <1>2, <1>3, <1>4, <1>5, <1>6 DEF Execute

LEMMA ChainStep ==
  ASSUME net \subseteq Transaction, [Next]_vars
  PROVE  [Instruction]_chain
<1>1. ASSUME NEW t \in net, Land(t) PROVE [Instruction]_chain
  BY <1>1, ExecuteIsInstruction DEF Land, Succeed, Refuse
<1>2. CASE Clock
  BY <1>2 DEF Clock, Instruction
<1>3. QED
  BY <1>1, <1>2
     DEF Next, vars, history, Settle, Replay, Replayable, Begin, Advance, Check, Send, Confirm,
         GiveUp,
         Drop, Reset, Crash

-----------------------------------------------------------------------------
(* The invariants.                                                         *)

RequestOf(x) == OfferRequest[x.offer]

(* Only verified receipts of the request itself are presented.             *)
ReceiptsVerified ==
  /\ \A c \in Call : call[c] # Idle => call[c].receipt \in Verified[RequestOf(call[c])]
  /\ \A t \in net : t.receipt \in Verified[RequestOf(t)]
  /\ \A r \in Request : Settled(r) => loan[r].receipt \in Verified[r]
  /\ \A o \in Offer : row[o] # None => row[o].receipt \in Verified[OfferRequest[o]]

(* What preflight saw of a transaction that is on its way.                 *)
Preflighted ==
  /\ configured = TRUE
  /\ \A t \in net : t.step = "present_and_fund" =>
       LET r == RequestOf(t) IN
       /\ <<t.receipt.policy, t.receipt.verifier>> \in policies
       /\ Published(r) /\ <<t.payout, account[r].mint>> \in opened
       /\ Bound(r, t.receipt)
       /\ vault[r] > 0 \/ Settled(r)

(* What a call was told, and what it recorded, has a loan behind it or the *)
(* receipt expired; a replay gets past preflight only with another receipt *)
(* than one that expired.                                                  *)
Lent(r, p) == Settled(r) \/ p.expiry <= day
Displaced(r) == \E p, q \in Verified[r] : p # q /\ p.expiry <= day
Told ==
  \A c \in Call : call[c] # Idle =>
    /\ call[c].phase \in {"landed", "failed"} /\ call[c].step = "present_and_fund" =>
         Lent(RequestOf(call[c]), call[c].receipt)
    /\ call[c].replay = TRUE =>
         /\ call[c].step = "present_and_fund"
         /\ \E p \in Verified[RequestOf(call[c])] : Lent(RequestOf(call[c]), p)
         /\ call[c].phase # "send" => Displaced(RequestOf(call[c]))

(* What settles a request that is not muddled is one call and one          *)
(* transaction of it.                                                      *)
Serial ==
  \A r \in Request \ muddled :
    /\ \A c, d \in Call :
         call[c] # Idle /\ call[d] # Idle /\ RequestOf(call[c]) = r /\ RequestOf(call[d]) = r
           => c = d
    /\ \A t, u \in net : RequestOf(t) = r /\ RequestOf(u) = r => t = u
    /\ \A c \in Call, t \in net :
         call[c] # Idle /\ RequestOf(call[c]) = r /\ RequestOf(t) = r
           => c = t.call /\ Waits(t)

(* Until its loan is made, an escrow holds what a call that is past the    *)
(* funding step needs, and what is sent to it makes it so; a loan is worth *)
(* the offer it was made for.                                              *)
PastFunding(x) ==
  \/ x.step \in {"create_payout_account", "present_and_fund"}
  \/ x.step = "fund_escrow" /\ x.phase = "landed"
Enough(r, o) == r \in short \/ Settled(r) \/ vault[r] >= Principal(o)
EnoughWith(r, o, n) == Settled(r) \/ vault[r] + n >= Principal(o)
Covered ==
  /\ \A c \in Call : call[c] # Idle =>
       /\ PastFunding(call[c]) => Enough(RequestOf(call[c]), call[c].offer)
       /\ call[c].step = "fund_escrow" /\ call[c].phase = "failed" =>
            RequestOf(call[c]) \in short
       /\ call[c].step = "fund_escrow" /\ call[c].phase = "send" =>
            EnoughWith(RequestOf(call[c]), call[c].offer, call[c].shortfall)
  /\ \A t \in net :
       /\ t.step = "fund_escrow" => EnoughWith(RequestOf(t), t.offer, t.shortfall)
       /\ t.step = "present_and_fund" => Enough(RequestOf(t), t.offer)
  /\ \A o \in Offer : row[o].status = "settled" => Enough(OfferRequest[o], o)
  /\ \A o \in made : LET r == OfferRequest[o] IN
       Settled(r) /\ (r \in short \/ loan[r].principal >= Principal(o))

(* Of a request that is not muddled either, it holds exactly that.         *)
Exact(r, x) == vault[r] = Principal(x.offer)
ExactWith(r, x) == vault[r] + x.shortfall = Principal(x.offer)
Escrows ==
  \A r \in Request \ (muddled \cup short) : ~Settled(r) =>
    /\ \A t \in net : RequestOf(t) = r =>
         /\ t.step = "fund_escrow" => ExactWith(r, t)
         /\ t.step = "present_and_fund" => Exact(r, t)
    /\ \A c \in Call : call[c] # Idle /\ RequestOf(call[c]) = r =>
         /\ call[c].step = "fund_escrow" /\ call[c].phase = "send" => ExactWith(r, call[c])
         /\ PastFunding(call[c]) => Exact(r, call[c])

(* And what its call was told of the presentation is what became of it.    *)
Results ==
  \A r \in Request \ muddled :
    /\ \A t \in net : RequestOf(t) = r /\ t.step = "present_and_fund" => ~Settled(r)
    /\ \A c \in Call : call[c] # Idle /\ RequestOf(call[c]) = r
                        /\ call[c].step = "present_and_fund" =>
         /\ call[c].phase = "landed" => call[c].offer \in made
         /\ call[c].phase = "failed" => call[c].receipt.expiry <= day

-----------------------------------------------------------------------------
(* Types.                                                                  *)

LEMMA PrincipalType == \A o \in Offer : Principal(o) \in Nat /\ Principal(o) > 0
  BY RowsAssumption DEF Principal

LEMMA RecordType ==
  ASSUME SettlementTypeOK, NEW c \in Call, call[c] # Idle, NEW ok \in BOOLEAN,
         Record(c, ok)
  PROVE  /\ call' \in [Call -> Running \cup {Idle}]
         /\ row' \in [Offer -> Settlement \cup {None}]
         /\ replayed' \in [Offer -> {"none", "refused", "succeeded"}]
<1>1. call[c].offer \in Offer /\ call[c].payout \in Payout /\ call[c].receipt \in Receipt
  BY CallFields
<1>2. Principal(call[c].offer) \in Nat
  BY <1>1, PrincipalType
<1>3. call' \in [Call -> Running \cup {Idle}]
  BY DEF Record, SettlementTypeOK
<1>4. row' \in [Offer -> Settlement \cup {None}]
  BY <1>1, <1>2 DEF Record, SettlementTypeOK, Settlement, Verdict
<1>5. replayed' \in [Offer -> {"none", "refused", "succeeded"}]
  BY <1>1 DEF Record, SettlementTypeOK
<1>6. QED
  BY <1>3, <1>4, <1>5

LEMMA ProceedType ==
  ASSUME SettlementTypeOK, NEW c \in Call, call[c] # Idle
  PROVE  Proceed(c) \in Running \cup {Idle}
<1>1. call[c] \in Running /\ call[c].step \in Step
  BY CallFields
<1>2. call[c].step # "present_and_fund" => After[call[c].step] \in Step
  BY <1>1 DEF After, Step
<1>3. QED
  BY <1>1, <1>2 DEF Proceed, Running

LEMMA CallsType ==
  ASSUME SettlementTypeOK, [Next]_vars
  PROVE  /\ call' \in [Call -> Running \cup {Idle}]
         /\ row' \in [Offer -> Settlement \cup {None}]
         /\ replayed' \in [Offer -> {"none", "refused", "succeeded"}]
<1> DEFINE Good == /\ call' \in [Call -> Running \cup {Idle}]
                   /\ row' \in [Offer -> Settlement \cup {None}]
                   /\ replayed' \in [Offer -> {"none", "refused", "succeeded"}]
<1>a. /\ call \in [Call -> Running \cup {Idle}]
      /\ row \in [Offer -> Settlement \cup {None}]
      /\ replayed \in [Offer -> {"none", "refused", "succeeded"}]
  BY DEF SettlementTypeOK
<1>1. ASSUME NEW c \in Call, NEW o \in Offer, NEW p \in Receipt, NEW a \in Payout,
             Settle(c, o, p, a) \/ Replay(c, o, p, a)
      PROVE  Good
  <2>1. PICK replay \in BOOLEAN, step \in Step, phase \in {"check", "send"} :
          Begin(c, o, p, a, replay, step, phase)
    BY <1>1 DEF Settle, Replay, Replayable, Step
  <2> DEFINE new == [phase |-> phase, replay |-> replay, step |-> step, offer |-> o,
                     receipt |-> p, payout |-> a, shortfall |-> 0]
  <2>2. new \in Running
    BY DEF Running
  <2>3. call' = [call EXCEPT ![c] = new] /\ UNCHANGED <<row, replayed>>
    BY <2>1 DEF Begin
  <2>4. QED
    BY <1>a, <2>2, <2>3
<1>2. ASSUME NEW c \in Call, Check(c) PROVE Good
  <2> DEFINE r == RequestOf(call[c])
  <2>1. call[c] # Idle
    BY <1>2 DEF Check, Idle
  <2>2. call[c] \in Running /\ call[c].step \in Step /\ r \in Request
    BY <2>1, CallFields DEF RequestOf
  <2>3. CASE call' = [call EXCEPT ![c] = Proceed(c)]
    BY <1>2, <1>a, <2>1, <2>3, ProceedType DEF Check
  <2>4. ASSUME NEW n \in Nat,
               call' = [call EXCEPT ![c].phase = "send", ![c].shortfall = n]
        PROVE  Good
    BY <1>2, <1>a, <2>2, <2>4 DEF Check, Running
  <2>5. vault[r] \in Nat /\ Principal(call[c].offer) \in Nat
    BY <2>1, <2>2, CallFields, PrincipalType DEF SettlementTypeOK, TypeOK
  <2>6. ~OnChain(call[c]) => Shortfall(c, vault[r]) \in Nat
    <3>1. CASE call[c].step = "fund_escrow"
      <4>1. OnChain(call[c]) <=> vault[r] >= Principal(call[c].offer)
        BY <3>1 DEF OnChain, RequestOf
      <4>2. QED
        BY <2>5, <3>1, <4>1 DEF Shortfall
    <3>2. CASE call[c].step # "fund_escrow"
      BY <3>2 DEF Shortfall
    <3>3. QED
      BY <3>1, <3>2
  <2>7. Shortfall(c, 0) \in Nat
    BY <2>5 DEF Shortfall
  <2>8. QED
    BY <1>2, <2>3, <2>4, <2>6, <2>7 DEF Check, RequestOf
<1>3. ASSUME NEW c \in Call, Send(c) PROVE Good
  <2>1. call[c] # Idle
    BY <1>3 DEF Send, Idle
  <2>2. call[c] \in Running
    BY <2>1, CallFields
  <2>3. CASE Record(c, FALSE)
    BY <2>1, <2>3, RecordType
  <2>4. CASE call' = [call EXCEPT ![c].phase = SentPhase] /\ UNCHANGED <<row, replayed>>
    BY <1>a, <2>2, <2>4 DEF Running, SentPhase
  <2>5. QED
    BY <1>3, <2>3, <2>4 DEF Send
<1>4. ASSUME NEW c \in Call, Confirm(c) PROVE Good
  <2>1. call[c] # Idle
    BY <1>4 DEF Confirm, Idle
  <2>2. CASE Record(c, TRUE)
    BY <2>1, <2>2, RecordType
  <2>3. CASE call' = [call EXCEPT ![c] = Proceed(c)] /\ UNCHANGED <<row, replayed>>
    BY <1>a, <2>1, <2>3, ProceedType
  <2>4. QED
    BY <1>4, <2>2, <2>3 DEF Confirm
<1>5. ASSUME NEW c \in Call, GiveUp(c) PROVE Good
  BY <1>5, RecordType DEF GiveUp
<1>6. ASSUME NEW t \in net, Land(t) \/ Drop(t) PROVE Good
  <2>1. t.call \in Call
    BY TransactionFields
  <2>2. PICK phase \in {"landed", "failed", "expired"} : Tell(t, phase)
    BY <1>6 DEF Land, Succeed, Refuse, Drop, Expire
  <2>3. Waits(t) => call[t.call] \in Running
    BY <2>1, CallFields DEF Waits, Idle
  <2>4. UNCHANGED <<row, replayed>>
    BY <1>6 DEF Land, Succeed, Refuse, Drop
  <2>5. QED
    BY <1>a, <2>1, <2>2, <2>3, <2>4 DEF Tell, Running
<1>7. CASE Reset \/ Crash \/ Clock
  BY <1>7, <1>a DEF Reset, Crash, Clock
<1>8. CASE UNCHANGED vars
  BY <1>8, <1>a DEF vars
<1>9. QED
  BY <1>1, <1>2, <1>3, <1>4, <1>5, <1>6, <1>7, <1>8 DEF Next, Advance

(* Who touches the transactions on their way.                              *)
LEMMA NetStep ==
  ASSUME SettlementTypeOK, [Next]_vars
  PROVE  \/ net' = net
         \/ \E c \in Call : /\ call[c].phase = "send" /\ May(call[c])
                            /\ net' = net \cup {TransactionOf(c)}
                            /\ call' = [call EXCEPT ![c].phase = "confirm"]
                            /\ UNCHANGED <<chain, row, replayed, history>>
         \/ \E t \in net : net' = net \ {t} /\ (Land(t) \/ Drop(t))
  BY DEF Next, vars, history, Settle, Replay, Replayable, Begin, Advance, Check, Send,
         Confirm, GiveUp, Land, Drop, Succeed, Refuse, Reset, Crash, Clock, SentPhase

LEMMA SettlementTypeStep ==
  ASSUME SettlementTypeOK, [Next]_vars
  PROVE  SettlementTypeOK'
<1>1. net \subseteq Transaction
  BY DEF SettlementTypeOK
<1>2. TypeOK'
  BY <1>1, ChainStep, TypeStep DEF SettlementTypeOK
<1>3. net' \subseteq Transaction
  <2>1. ASSUME NEW c \in Call, call[c].phase = "send"
        PROVE  TransactionOf(c) \in Transaction
    <3>1. call[c] # Idle
      BY <2>1 DEF Idle
    <3>2. QED
      BY <3>1, CallFields DEF TransactionOf, Transaction
  <2>2. QED
    BY <1>1, <2>1, NetStep
<1>4. up' \in BOOLEAN
  BY DEF SettlementTypeOK, Next, vars, history, Settle, Replay, Replayable, Begin, Advance, Check,
         Send,
         Confirm, GiveUp, Land, Drop, Succeed, Refuse, Reset, Crash, Clock
<1>5. made' \subseteq Offer /\ short' \subseteq Request
  <2>1. ASSUME NEW t \in net, Land(t)
        PROVE  made' \subseteq Offer /\ short' \subseteq Request
    <3>1. t.offer \in Offer /\ OfferRequest[t.offer] \in Request
      BY TransactionFields
    <3>2. QED
      BY <2>1, <3>1 DEF Land, Succeed, Refuse, SettlementTypeOK
  <2>2. QED
    BY <2>1
       DEF SettlementTypeOK, Next, vars, history, Settle, Replay, Replayable, Begin, Advance,
           Check, Send, Confirm, GiveUp, Drop, Reset, Crash, Clock
<1>6. muddled' \subseteq Request
  <2>1. ASSUME NEW c \in Call, Check(c) PROVE muddled' \subseteq Request
    <3>1. call[c] # Idle
      BY <2>1 DEF Check, Idle
    <3>2. QED
      BY <2>1, <3>1, CallFields DEF Check, Muddle, SettlementTypeOK
  <2>2. ASSUME NEW c \in Call, NEW o \in Offer, NEW p \in Receipt, NEW a \in Payout,
               Settle(c, o, p, a) \/ Replay(c, o, p, a)
        PROVE  muddled' \subseteq Request
    BY <2>2, RowsAssumption DEF Settle, Replay, Replayable, Begin, Muddle, SettlementTypeOK
  <2>3. QED
    BY <2>1, <2>2
       DEF SettlementTypeOK, Next, vars, history, Advance, Send, Confirm, GiveUp, Land, Drop,
           Succeed, Refuse, Reset, Crash, Clock
<1>7. QED
  BY <1>2, <1>3, <1>4, <1>5, <1>6, CallsType DEF SettlementTypeOK

-----------------------------------------------------------------------------
(* How a call, a transaction and the chain move.                           *)

LEMMA ChainWriters ==
  ASSUME [Next]_vars
  PROVE  \/ UNCHANGED chain
         \/ NextDay /\ UNCHANGED <<call, net, row, replayed, up, history>>
         \/ \E t \in net : Succeed(t)
  BY DEF Next, vars, history, Settle, Replay, Replayable, Begin, Advance, Check, Send,
         Confirm, GiveUp, Land, Drop, Succeed, Refuse, Reset, Crash, Clock

(* Where a call that runs after the step stood before it.                  *)
Begun(c) ==
  \E o \in Offer, p \in Receipt, a \in Payout :
    Settle(c, o, p, a) \/ Replay(c, o, p, a)
Checked(c) == Check(c) /\ call'[c].phase = "send" /\ call'[c].step = call[c].step
Proceeded(c) ==
  /\ Check(c) \/ Confirm(c)
  /\ call[c].step # "present_and_fund" /\ call'[c] = Proceed(c)
TurnsSent(c) == Send(c) /\ call'[c] = [call[c] EXCEPT !.phase = "confirm"]
WasTold(c) ==
  \E t \in net : /\ t.call = c /\ Waits(t)
                 /\ \/ /\ Succeed(t)
                       /\ call'[c] = [call[c] EXCEPT !.phase = "landed"]
                    \/ /\ Refuse(t)
                       /\ call'[c] = [call[c] EXCEPT !.phase = "failed"]
                    \/ /\ Drop(t)
                       /\ call'[c] = [call[c] EXCEPT !.phase = "expired"]
Same(c) ==
  /\ call[c] # Idle
  /\ call'[c].offer = call[c].offer /\ call'[c].receipt = call[c].receipt
  /\ call'[c].payout = call[c].payout /\ call'[c].replay = call[c].replay

LEMMA RecordEnds ==
  ASSUME SettlementTypeOK, NEW c \in Call, NEW ok \in BOOLEAN, Record(c, ok)
  PROVE  /\ call'[c] = Idle
         /\ \A d \in Call : d # c => call'[d] = call[d]
  BY DEF Record, SettlementTypeOK

LEMMA ProceedIs ==
  ASSUME SettlementTypeOK, NEW c \in Call, call[c] # Idle,
         call[c].step # "present_and_fund"
  PROVE  /\ Proceed(c) # Idle
         /\ Proceed(c).offer = call[c].offer /\ Proceed(c).receipt = call[c].receipt
         /\ Proceed(c).payout = call[c].payout /\ Proceed(c).replay = call[c].replay
         /\ Proceed(c).phase = IF call[c].step = "create_payout_account" THEN "send"
                               ELSE "check"
         /\ Proceed(c).step = After[call[c].step]
         /\ Proceed(c).step # "publish_policy"
         /\ Proceed(c).step = "present_and_fund" <=>
              call[c].step = "create_payout_account"
<1> DEFINE step == call[c].step
           phase == IF step = "create_payout_account" THEN "send" ELSE "check"
<1>1. call[c] \in Running /\ step \in Step
  BY CallFields
<1>2. /\ After[step] # "publish_policy"
      /\ After[step] = "present_and_fund" <=> step = "create_payout_account"
  BY <1>1 DEF After, Step
<1>3. Proceed(c) = [call[c] EXCEPT !.step = After[step], !.phase = phase]
  BY DEF Proceed
<1>4. /\ Proceed(c).offer = call[c].offer /\ Proceed(c).receipt = call[c].receipt
      /\ Proceed(c).payout = call[c].payout /\ Proceed(c).replay = call[c].replay
      /\ Proceed(c).phase = phase /\ Proceed(c).step = After[step]
  BY <1>1, <1>3 DEF Running
<1>5. Proceed(c) # Idle
  BY <1>4 DEF Idle
<1>6. QED
  BY <1>2, <1>4, <1>5

LEMMA CallMoves ==
  ASSUME SettlementTypeOK, [Next]_vars, NEW c \in Call, call'[c] # Idle
  PROVE  \/ Begun(c) /\ call[c] = Idle
         \/ /\ Same(c)
            /\ \/ call'[c] = call[c]
               \/ Checked(c) \/ Proceeded(c) \/ TurnsSent(c) \/ WasTold(c)
<1>a. call \in [Call -> Running \cup {Idle}]
  BY DEF SettlementTypeOK
<1>b. call[c] # Idle => call[c] \in Running
  BY <1>a
<1>c. ASSUME call'[c] = call[c]
      PROVE  Same(c)
  BY <1>c DEF Same
<1>1. ASSUME NEW d \in Call, NEW o \in Offer, NEW p \in Receipt, NEW a \in Payout,
             Settle(d, o, p, a) \/ Replay(d, o, p, a)
      PROVE  \/ Begun(c) /\ call[c] = Idle
             \/ call'[c] = call[c]
  <2>1. CASE d = c
    BY <1>1, <2>1 DEF Begun, Settle, Replay, Replayable, Begin
  <2>2. CASE d # c
    BY <1>1, <1>a, <2>2 DEF Settle, Replay, Replayable, Begin
  <2>3. QED
    BY <2>1, <2>2
<1>2. ASSUME NEW d \in Call, Check(d)
      PROVE  call'[c] = call[c] \/ (Same(c) /\ (Checked(c) \/ Proceeded(c)))
  <2>1. CASE d # c
    BY <1>2, <1>a, <2>1 DEF Check
  <2>2. CASE d = c
    <3>1. call[c] # Idle
      BY <1>2, <2>2 DEF Check, Idle
    <3>2. CASE OnChain(call[c]) /\ call' = [call EXCEPT ![c] = Proceed(c)]
      <4>1. call[c].step # "present_and_fund"
        BY <3>2 DEF OnChain
      <4>2. call'[c] = Proceed(c)
        BY <1>a, <3>2
      <4>3. QED
        BY <1>2, <2>2, <3>1, <4>1, <4>2, ProceedIs DEF Proceeded, Same
    <3>3. ASSUME NEW n,
                 call' = [call EXCEPT ![c].phase = "send", ![c].shortfall = n]
          PROVE  Checked(c) /\ Same(c)
      <4>1. /\ call'[c].phase = "send" /\ call'[c].step = call[c].step
            /\ call'[c].offer = call[c].offer /\ call'[c].receipt = call[c].receipt
            /\ call'[c].payout = call[c].payout /\ call'[c].replay = call[c].replay
        BY <1>a, <1>b, <3>1, <3>3 DEF Running
      <4>2. QED
        BY <1>2, <2>2, <3>1, <4>1 DEF Checked, Same
    <3>4. QED
      BY <1>2, <2>2, <3>2, <3>3 DEF Check
  <2>3. QED
    BY <2>1, <2>2
<1>3. ASSUME NEW d \in Call, Send(d)
      PROVE  call'[c] = call[c] \/ (Same(c) /\ TurnsSent(c))
  <2>1. CASE Record(d, FALSE)
    BY <2>1, RecordEnds
  <2>2. CASE call' = [call EXCEPT ![d].phase = SentPhase]
    <3>1. CASE d = c
      <4>1. call'[c] = [call[c] EXCEPT !.phase = "confirm"]
        BY <1>a, <2>2, <3>1 DEF SentPhase
      <4>2. call[c] # Idle
        BY <1>3, <3>1 DEF Send, Idle
      <4>3. QED
        BY <1>3, <1>b, <3>1, <4>1, <4>2 DEF TurnsSent, Same, Running
    <3>2. CASE d # c
      BY <1>a, <2>2, <3>2
    <3>3. QED
      BY <3>1, <3>2
  <2>3. QED
    BY <1>3, <2>1, <2>2 DEF Send
<1>4. ASSUME NEW d \in Call, Confirm(d)
      PROVE  call'[c] = call[c] \/ (Same(c) /\ Proceeded(c))
  <2>1. CASE Record(d, TRUE)
    BY <2>1, RecordEnds
  <2>2. CASE call[d].step # "present_and_fund" /\ call' = [call EXCEPT ![d] = Proceed(d)]
    <3>1. CASE d = c
      <4>1. call'[c] = Proceed(c) /\ call[c].step # "present_and_fund"
        BY <1>a, <2>2, <3>1
      <4>2. call[c] # Idle
        BY <1>4, <3>1 DEF Confirm, Idle
      <4>3. QED
        BY <1>4, <3>1, <4>1, <4>2, ProceedIs DEF Proceeded, Same
    <3>2. CASE d # c
      BY <1>a, <2>2, <3>2
    <3>3. QED
      BY <3>1, <3>2
  <2>3. QED
    BY <1>4, <2>1, <2>2 DEF Confirm
<1>5. ASSUME NEW d \in Call, GiveUp(d) PROVE call'[c] = call[c]
  BY <1>5, RecordEnds DEF GiveUp
<1>6. ASSUME NEW t \in net, Land(t) \/ Drop(t)
      PROVE  call'[c] = call[c] \/ (Same(c) /\ WasTold(c))
  <2>1. t.call \in Call
    BY TransactionFields
  <2>2. CASE t.call = c /\ Waits(t)
    <3>1. call[c] # Idle /\ call[c] \in Running
      BY <1>b, <2>2 DEF Waits, Idle
    <3>2. \A phase : Tell(t, phase) => call'[c] = [call[c] EXCEPT !.phase = phase]
      BY <1>a, <2>2 DEF Tell
    <3>3. WasTold(c)
      BY <1>6, <2>2, <3>2 DEF WasTold, Land, Succeed, Refuse, Drop, Expire
    <3>4. PICK phase : call'[c] = [call[c] EXCEPT !.phase = phase]
      BY <3>3 DEF WasTold
    <3>5. QED
      BY <3>1, <3>3, <3>4 DEF Same, Running
  <2>3. CASE ~(t.call = c /\ Waits(t))
    <3>1. \A phase : Tell(t, phase) => call'[c] = call[c]
      BY <1>a, <2>1, <2>3 DEF Tell
    <3>2. QED
      BY <1>6, <3>1 DEF Land, Succeed, Refuse, Drop, Expire
  <2>4. QED
    BY <2>2, <2>3
<1>7. ASSUME Reset \/ Crash \/ Clock \/ UNCHANGED vars PROVE call'[c] = call[c]
  BY <1>7 DEF Reset, Crash, Clock, vars
<1>8. QED
  BY <1>c, <1>1, <1>2, <1>3, <1>4, <1>5, <1>6, <1>7 DEF Next, Advance

LEMMA ChainLasts ==
  ASSUME SettlementTypeOK, [Next]_vars
  PROVE  TypeOK /\ TypeOK' /\ Lasting /\ [Instruction]_chain
  BY ChainStep, TypeStep, LastingStep DEF SettlementTypeOK

(* Only present_and_fund makes a loan, out of all that the escrow holds.   *)
LEMMA LoansMade ==
  ASSUME SettlementTypeOK, [Next]_vars, NEW r \in Request, Settled(r)', ~Settled(r)
  PROVE  \E t \in net :
           /\ Succeed(t)
           /\ t.step = "present_and_fund" /\ RequestOf(t) = r
           /\ loan'[r].receipt = t.receipt
           /\ loan'[r].principal = vault[r] /\ vault[r] > 0
<1>1. loan' # loan
  BY DEF Settled
<1>2. PICK t \in net : Succeed(t)
  BY <1>1, ChainWriters DEF chain, NextDay
<1>3. PICK apr \in Apr, fee \in Fee :
        /\ t.step = "present_and_fund"
        /\ PresentAndFund(LenderKey, RequestOf(t), t.receipt, t.payout, t.payout, apr, fee)
  BY <1>1, <1>2
     DEF Succeed, Execute, RequestOf, PublishPolicy, PublishRequest, FundEscrow, OpenPayout
<1>4. RequestOf(t) \in Request /\ loan \in [Request -> LoanAccount \cup {None}]
  BY TransactionFields DEF RequestOf, SettlementTypeOK, TypeOK
<1>5. RequestOf(t) = r
  BY <1>3, <1>4 DEF PresentAndFund, Settled
<1>6. QED
  BY <1>2, <1>3, <1>4, <1>5 DEF PresentAndFund, MayPresent

(* A presentation that goes through makes the loan of its request.         *)
LEMMA PresentedIsMade ==
  ASSUME SettlementTypeOK, NEW t \in net, Succeed(t), t.step = "present_and_fund"
  PROVE  Settled(RequestOf(t))' /\ ~Settled(RequestOf(t)) /\ t.offer \in made'
<1>1. RequestOf(t) \in Request /\ loan \in [Request -> LoanAccount \cup {None}]
  BY TransactionFields DEF RequestOf, SettlementTypeOK, TypeOK
<1>2. PICK apr \in Apr, fee \in Fee :
        PresentAndFund(LenderKey, RequestOf(t), t.receipt, t.payout, t.payout, apr, fee)
  BY DEF Succeed, Execute, RequestOf
<1>3. loan'[RequestOf(t)].status = "funded" /\ ~Settled(RequestOf(t))
  BY <1>1, <1>2 DEF PresentAndFund, MayPresent, LoanFree
<1>4. QED
  BY <1>3 DEF Settled, Succeed

LEMMA ExpiryIsANumber ==
  ASSUME NEW r \in Request, NEW p \in Verified[r]
  PROVE  p.expiry \in Int
<1>1. p \in Receipt
  BY RowsAssumption
<1>2. p.expiry \in Expiry
  BY <1>1 DEF Receipt
<1>3. Expiry \subseteq Nat
  BY AmountsAssumption
<1>4. p.expiry \in Nat
  BY <1>2, <1>3
<1>5. QED
  BY <1>4

(* A presented receipt that cannot be presented (any more) has its loan,   *)
(* or expired: the nullifier is its own and the escrow is emptied by the   *)
(* loan only.                                                              *)
LEMMA Refusal ==
  ASSUME SettlementTypeOK, SpentByItsLoan, ReceiptsVerified, Preflighted,
         NEW t \in net, t.step = "present_and_fund", ~May(t)
  PROVE  Lent(RequestOf(t), t.receipt)
<1> DEFINE r == RequestOf(t)
           p == t.receipt
<1>1. /\ r \in Request /\ p \in Receipt /\ p \in Verified[r]
      /\ p.expiry \in Int /\ day \in Int /\ vault[r] \in Nat
  <2>1. r \in Request /\ p \in Receipt /\ p \in Verified[r]
    BY TransactionFields DEF RequestOf, ReceiptsVerified
  <2>2. day \in Int /\ vault[r] \in Nat
    BY <2>1, AmountsAssumption DEF SettlementTypeOK, TypeOK, Day
  <2>3. QED
    BY <2>1, <2>2, ExpiryIsANumber
<1>2. ~MayPresent(r, p, t.payout)
  BY DEF May, RequestOf
<1>3. \/ Settled(r) \/ ~NullifierFree(p) \/ ~(p.expiry > day)
  BY <1>1, <1>2 DEF MayPresent, LoanFree, Preflighted
<1>4. CASE ~(p.expiry > day)
  BY <1>1, <1>4 DEF Lent
<1>5. CASE ~NullifierFree(p)
  <2>1. NullifierOf(p) \in Nullifier
    BY <1>1, NullifierType
  <2>2. PICK s \in Request : nullifier[NullifierOf(p)] = s
    BY <1>5, <2>1 DEF NullifierFree, SettlementTypeOK, TypeOK
  <2>3. Settled(s) /\ NullifierOf(loan[s].receipt) = NullifierOf(p)
    BY <2>1, <2>2 DEF SpentByItsLoan
  <2>4. loan[s].receipt \in Verified[s]
    BY <2>3 DEF ReceiptsVerified
  <2>5. s = r
    BY <1>1, <2>3, <2>4, StoreAssumption
  <2>6. QED
    BY <2>3, <2>5 DEF Lent
<1>6. QED
  BY <1>3, <1>4, <1>5 DEF Lent

LEMMA LentStays ==
  ASSUME SettlementTypeOK, [Next]_vars, NEW r \in Request
  PROVE  /\ \A p \in Verified[r] : Lent(r, p) => Lent(r, p)'
         /\ \A p \in Verified[r] : p.expiry <= day => p.expiry <= day'
         /\ Displaced(r) => Displaced(r)'
<1>1. Lasting /\ TypeOK /\ TypeOK'
  BY ChainLasts
<1>2. day \in Int /\ day' \in Int /\ day <= day'
  BY <1>1, AmountsAssumption DEF Lasting, TypeOK, Day
<1>3. \A p \in Verified[r] : p.expiry \in Int
  BY ExpiryIsANumber
<1>4. \A p \in Verified[r] : p.expiry <= day => p.expiry <= day'
  BY <1>2, <1>3
<1>5. Displaced(r) => Displaced(r)'
  BY <1>4 DEF Displaced
<1>6. Settled(r) => Settled(r)'
  BY <1>1 DEF Lasting
<1>7. QED
  BY <1>4, <1>5, <1>6 DEF Lent

(* Who writes the rows and the outcomes of replays, and with what.         *)
LEMMA RowWriters ==
  ASSUME SettlementTypeOK, [Next]_vars, NEW o \in Offer
  PROVE  /\ row'[o] # None =>
              \/ row'[o] = row[o]
              \/ \E c \in Call : /\ call[c] # Idle /\ call[c].offer = o
                                 /\ row'[o].receipt = call[c].receipt
         /\ row'[o].status = "settled" =>
              \/ row[o].status = "settled" /\ row'[o] = row[o]
              \/ \E c \in Call : /\ Confirm(c) /\ call[c].step = "present_and_fund"
                                 /\ call[c].replay = FALSE /\ call[c].offer = o
                                 /\ row'[o].receipt = call[c].receipt
         /\ replayed'[o] = "succeeded" =>
              \/ replayed[o] = "succeeded"
              \/ \E c \in Call : /\ Confirm(c) /\ call[c].step = "present_and_fund"
                                 /\ call[c].replay = TRUE /\ call[c].offer = o
<1> DEFINE Good ==
      /\ row'[o] # None =>
              \/ row'[o] = row[o]
              \/ \E c \in Call : /\ call[c] # Idle /\ call[c].offer = o
                                 /\ row'[o].receipt = call[c].receipt
      /\ row'[o].status = "settled" =>
              \/ row[o].status = "settled" /\ row'[o] = row[o]
              \/ \E c \in Call : /\ Confirm(c) /\ call[c].step = "present_and_fund"
                                 /\ call[c].replay = FALSE /\ call[c].offer = o
                                 /\ row'[o].receipt = call[c].receipt
      /\ replayed'[o] = "succeeded" =>
              \/ replayed[o] = "succeeded"
              \/ \E c \in Call : /\ Confirm(c) /\ call[c].step = "present_and_fund"
                                 /\ call[c].replay = TRUE /\ call[c].offer = o
<1>a. row \in [Offer -> Settlement \cup {None}]
      /\ replayed \in [Offer -> {"none", "refused", "succeeded"}]
  BY DEF SettlementTypeOK
<1>1. ASSUME UNCHANGED <<row, replayed>> PROVE Good
  BY <1>1
<1>2. ASSUME NEW c \in Call, call[c] # Idle, Record(c, FALSE) PROVE Good
  <2>1. call[c].replay \in BOOLEAN
    BY <1>2, CallFields
  <2>2. CASE call[c].replay = TRUE
    BY <1>a, <1>2, <2>2 DEF Record
  <2>3. CASE call[c].replay = FALSE
    <3>1. row' = [row EXCEPT ![call[c].offer] =
                    [status |-> "failed", receipt |-> call[c].receipt,
                     payout |-> call[c].payout, principal |-> Principal(call[c].offer)]]
          /\ replayed' = [replayed EXCEPT ![call[c].offer] = "none"]
      BY <1>2, <2>3 DEF Record, Verdict
    <3>2. QED
      BY <1>a, <1>2, <3>1
  <2>4. QED
    BY <2>1, <2>2, <2>3
<1>3. ASSUME NEW c \in Call, Confirm(c), Record(c, TRUE) PROVE Good
  <2>1. call[c] # Idle
    BY <1>3 DEF Confirm, Idle
  <2>2. call[c].replay \in BOOLEAN
    BY <2>1, CallFields
  <2>3. CASE call[c].step # "present_and_fund"
    BY <1>1, <1>3, <2>3 DEF Confirm
  <2>4. CASE call[c].step = "present_and_fund"
    <3>1. CASE call[c].replay = TRUE
      BY <1>a, <1>3, <2>4, <3>1 DEF Record
    <3>2. CASE call[c].replay = FALSE
      <4>1. row' = [row EXCEPT ![call[c].offer] =
                      [status |-> "settled", receipt |-> call[c].receipt,
                       payout |-> call[c].payout, principal |-> Principal(call[c].offer)]]
            /\ replayed' = [replayed EXCEPT ![call[c].offer] = "none"]
        BY <1>3, <3>2 DEF Record, Verdict
      <4>2. QED
        BY <1>a, <1>3, <2>1, <2>4, <3>2, <4>1
    <3>3. QED
      BY <2>2, <3>1, <3>2
  <2>5. QED
    BY <2>3, <2>4
<1>4. ASSUME \A x \in Offer : row'[x] = None /\ replayed'[x] = "none" PROVE Good
  BY <1>4 DEF None
<1>5. ASSUME NEW c \in Call, Send(c) PROVE Good
  <2>1. call[c] # Idle
    BY <1>5 DEF Send, Idle
  <2>2. CASE Record(c, FALSE)
    BY <1>2, <2>1, <2>2
  <2>3. CASE UNCHANGED <<row, replayed>>
    BY <1>1, <2>3
  <2>4. QED
    BY <1>5, <2>2, <2>3 DEF Send
<1>6. ASSUME NEW c \in Call, Confirm(c) PROVE UNCHANGED <<row, replayed>> \/ Record(c, TRUE)
  BY <1>6 DEF Confirm
<1>7. ASSUME Reset \/ Crash PROVE \A x \in Offer : row'[x] = None /\ replayed'[x] = "none"
  BY <1>7 DEF Reset, Crash
<1>8. \/ UNCHANGED <<row, replayed>> \/ Reset \/ Crash
      \/ \E c \in Call : Send(c) \/ Confirm(c) \/ GiveUp(c)
  BY DEF Next, vars, Settle, Replay, Begin, Advance, Check, Land, Succeed, Refuse, Drop, Clock
<1>9. ASSUME NEW c \in Call, GiveUp(c) PROVE Good
  BY <1>2, <1>9 DEF GiveUp
<1> HIDE DEF Good
<1>10. Good
  BY <1>1, <1>3, <1>4, <1>5, <1>6, <1>7, <1>8, <1>9
<1>11. QED
  BY <1>10 DEF Good

LEMMA ReceiptsVerifiedStep ==
  ASSUME SettlementTypeOK, ReceiptsVerified, [Next]_vars
  PROVE  ReceiptsVerified'
<1>1. ASSUME NEW c \in Call, call'[c] # Idle
      PROVE  call'[c].receipt \in Verified[RequestOf(call'[c])]
  <2>1. CASE Begun(c) /\ call[c] = Idle
    <3>1. PICK o \in Offer, p \in Receipt, a \in Payout :
            Settle(c, o, p, a) \/ Replay(c, o, p, a)
      BY <2>1 DEF Begun
    <3>2. /\ call'[c].receipt = p /\ call'[c].offer = o
          /\ p \in Verified[OfferRequest[o]]
      BY <3>1 DEF Settle, Replay, Replayable, Begin, SettlementTypeOK
    <3>3. QED
      BY <3>2 DEF RequestOf
  <2>2. CASE Same(c)
    BY <2>2 DEF Same, ReceiptsVerified, RequestOf
  <2>3. QED
    BY <1>1, <2>1, <2>2, CallMoves
<1>2. ASSUME NEW t \in net'
      PROVE  t.receipt \in Verified[RequestOf(t)]
  <2>1. CASE t \in net
    BY <2>1 DEF ReceiptsVerified
  <2>2. CASE t \notin net
    <3>1. PICK c \in Call : call[c].phase = "send" /\ t = TransactionOf(c)
      BY <1>2, <2>2, NetStep
    <3>2. call[c] # Idle
      BY <3>1 DEF Idle
    <3>3. QED
      BY <3>1, <3>2 DEF ReceiptsVerified, TransactionOf, RequestOf
  <2>3. QED
    BY <2>1, <2>2
<1>3. ASSUME NEW r \in Request, Settled(r)'
      PROVE  loan'[r].receipt \in Verified[r]
  <2>1. CASE Settled(r)
    BY <2>1, ChainLasts DEF Lasting, ReceiptsVerified
  <2>2. CASE ~Settled(r)
    BY <1>3, <2>2, LoansMade DEF ReceiptsVerified
  <2>3. QED
    BY <2>1, <2>2
<1>4. ASSUME NEW o \in Offer, row'[o] # None
      PROVE  row'[o].receipt \in Verified[OfferRequest[o]]
  <2>1. CASE row'[o] = row[o]
    BY <1>4, <2>1 DEF ReceiptsVerified
  <2>2. ASSUME NEW c \in Call, call[c] # Idle, call[c].offer = o,
               row'[o].receipt = call[c].receipt
        PROVE  row'[o].receipt \in Verified[OfferRequest[o]]
    BY <2>2 DEF ReceiptsVerified, RequestOf
  <2>3. \/ row'[o] = row[o]
        \/ \E c \in Call : /\ call[c] # Idle /\ call[c].offer = o
                           /\ row'[o].receipt = call[c].receipt
    BY <1>4, RowWriters
  <2>4. QED
    BY <2>1, <2>2, <2>3
<1>5. QED
  BY <1>1, <1>2, <1>3, <1>4 DEF ReceiptsVerified, RequestOf

LEMMA PreflightedStep ==
  ASSUME SettlementTypeOK, Preflighted, [Next]_vars
  PROVE  Preflighted'
<1>a. Lasting /\ TypeOK'
  BY ChainLasts
<1>1. configured' = TRUE
  BY <1>a DEF Preflighted, Lasting, TypeOK
<1>2. ASSUME NEW t \in net', t.step = "present_and_fund"
      PROVE  LET r == RequestOf(t) IN
             /\ <<t.receipt.policy, t.receipt.verifier>> \in policies
             /\ Published(r) /\ <<t.payout, account[r].mint>> \in opened
             /\ Bound(r, t.receipt)
             /\ vault[r] > 0 \/ Settled(r)
  <2>1. CASE t \in net
    BY <1>2, <2>1 DEF Preflighted
  <2>2. CASE t \notin net
    <3>1. PICK c \in Call : May(call[c]) /\ t = TransactionOf(c)
      BY <1>2, <2>2, NetStep
    <3>2. MayPresent(RequestOf(t), t.receipt, t.payout)
      BY <1>2, <3>1 DEF May, TransactionOf, RequestOf
    <3>3. QED
      BY <3>2 DEF MayPresent
  <2>3. QED
    BY <2>1, <2>2
<1>3. ASSUME NEW t \in net', t.step = "present_and_fund"
      PROVE  /\ <<t.receipt.policy, t.receipt.verifier>> \in policies'
             /\ Published(RequestOf(t))'
             /\ <<t.payout, account'[RequestOf(t)].mint>> \in opened'
             /\ Bound(RequestOf(t), t.receipt)'
             /\ vault'[RequestOf(t)] > 0 \/ Settled(RequestOf(t))'
  <2>1. RequestOf(t) \in Request
    BY SettlementTypeStep, RowsAssumption DEF SettlementTypeOK, Transaction, RequestOf
  <2>2. vault[RequestOf(t)] \in Nat /\ vault'[RequestOf(t)] \in Nat
    BY <1>a, <2>1 DEF SettlementTypeOK, TypeOK
  <2> DEFINE r == RequestOf(t)
  <2>3. /\ Published(r) /\ Published(r)' /\ account'[r].passport = account[r].passport
        /\ account'[r].mint = account[r].mint
        /\ policies \subseteq policies' /\ opened \subseteq opened'
    BY <1>a, <1>2, <1>3, <2>1 DEF Lasting
  <2>4. /\ <<t.receipt.policy, t.receipt.verifier>> \in policies'
        /\ <<t.payout, account'[r].mint>> \in opened'
    BY <1>2, <1>3, <2>3
  <2>5. Bound(r, t.receipt)'
    BY <1>2, <1>3, <2>3 DEF Bound, Eligible
  <2>6. vault'[r] > 0 \/ Settled(r)'
    <3>1. (Settled(r) => Settled(r)') /\ (vault'[r] >= vault[r] \/ Settled(r)')
      BY <1>a, <2>1 DEF Lasting
    <3>2. vault[r] > 0 \/ Settled(r)
      BY <1>2, <1>3
    <3>3. QED
      BY <2>2, <3>1, <3>2
  <2>7. QED
    BY <2>3, <2>4, <2>5, <2>6
<1>4. QED
  BY <1>1, <1>3 DEF Preflighted, RequestOf

LEMMA ToldStep ==
  ASSUME SettlementTypeOK, SpentByItsLoan, ReceiptsVerified, Preflighted, Told,
         SettledHasLoan, [Next]_vars
  PROVE  Told'
<1> SUFFICES ASSUME NEW c \in Call, call'[c] # Idle, NEW q, q = call'[c].receipt,
                    NEW r \in Request, r = RequestOf(call'[c])
             PROVE  /\ call'[c].phase \in {"landed", "failed"}
                         /\ call'[c].step = "present_and_fund" => Lent(r, q)'
                    /\ call'[c].replay = TRUE =>
                         /\ call'[c].step = "present_and_fund"
                         /\ \E p \in Verified[r] : Lent(r, p)'
                         /\ call'[c].phase # "send" => Displaced(r)'
  <2>1. \A c \in Call : call'[c] # Idle => RequestOf(call'[c]) \in Request
    BY SettlementTypeStep, RowsAssumption DEF SettlementTypeOK, Running, RequestOf
  <2>2. ASSUME NEW c \in Call, call'[c] # Idle
        PROVE  /\ call'[c].phase \in {"landed", "failed"}
                    /\ call'[c].step = "present_and_fund"
                    => \/ loan'[RequestOf(call'[c])].status # "none"
                       \/ call'[c].receipt.expiry <= day'
               /\ call'[c].replay = TRUE =>
                    /\ call'[c].step = "present_and_fund"
                    /\ \E p \in Verified[RequestOf(call'[c])] :
                         \/ loan'[RequestOf(call'[c])].status # "none"
                         \/ p.expiry <= day'
                    /\ call'[c].phase # "send" =>
                         \E p, z \in Verified[RequestOf(call'[c])] :
                           p # z /\ p.expiry <= day'
    BY <2>1, <2>2 DEF Lent, Displaced, Settled
  <2>3. QED
    BY <2>2 DEF Told, RequestOf, Lent, Displaced, Settled
<1>1. CASE Begun(c) /\ call[c] = Idle
  <2>1. PICK o \in Offer, p \in Receipt, a \in Payout :
          Settle(c, o, p, a) \/ Replay(c, o, p, a)
    BY <1>1 DEF Begun
  <2>2. CASE Settle(c, o, p, a)
    BY <2>2 DEF Settle, Begin, SettlementTypeOK
  <2>3. CASE Replay(c, o, p, a)
    <3>1. /\ call'[c].step = "present_and_fund" /\ call'[c].phase = "send"
          /\ OfferRequest[o] = r /\ row[o].status = "settled"
      BY <2>3 DEF Replay, Replayable, Begin, SettlementTypeOK, RequestOf
    <3>2. row[o].receipt \in Verified[r] /\ Lent(r, row[o].receipt)
      BY <3>1 DEF ReceiptsVerified, None, SettledHasLoan, Lent
    <3>3. \E z \in Verified[r] : Lent(r, z)'
      BY <3>2, LentStays
    <3>4. QED
      BY <3>1, <3>3
  <2>4. QED
    BY <2>1, <2>2, <2>3
<1>2. CASE Same(c)
  <2>a. r = RequestOf(call[c]) /\ q = call[c].receipt /\ call'[c].replay = call[c].replay
    BY <1>2 DEF Same, RequestOf
  <2>b. q \in Verified[r]
    BY <1>2, <2>a DEF ReceiptsVerified, Same
  <2>d. /\ \A p \in Verified[r] : Lent(r, p) => Lent(r, p)'
        /\ Displaced(r) => Displaced(r)'
    BY LentStays
  <2>e. /\ call[c].phase \in {"landed", "failed"} /\ call[c].step = "present_and_fund"
             => Lent(r, q)
        /\ call[c].replay = TRUE =>
             /\ call[c].step = "present_and_fund"
             /\ \E p \in Verified[r] : Lent(r, p)
             /\ call[c].phase # "send" => Displaced(r)
    BY <1>2, <2>a, <2>b DEF Told, Same
  <2>g. call[c] \in Running
    BY <1>2, CallFields DEF Same
  <2>1. CASE call'[c] = call[c]
    BY <2>1, <2>a, <2>b, <2>d, <2>e
  <2>2. CASE Checked(c)
    BY <2>2, <2>a, <2>b, <2>d, <2>e DEF Checked, Check
  <2>3. CASE Proceeded(c)
    <3>1. call'[c].phase \in {"send", "check"}
      BY <1>2, <2>3, ProceedIs DEF Proceeded, Same
    <3>2. QED
      BY <2>3, <2>a, <2>e, <3>1 DEF Proceeded
  <2>4. CASE TurnsSent(c)
    <3>1. call'[c].phase = "confirm" /\ call'[c].step = call[c].step
      BY <2>4, <2>g DEF TurnsSent, Running
    <3>2. May(call[c])
      <4>1. ~Record(c, FALSE)
        BY <3>1, RecordEnds DEF Idle
      <4>2. QED
        BY <2>4, <4>1 DEF TurnsSent, Send
    <3>3. call[c].step = "present_and_fund" => ~Settled(r) /\ q.expiry > day
      BY <2>a, <2>b, <3>2 DEF May, MayPresent, LoanFree, RequestOf
    <3>4. ASSUME call[c].replay = TRUE PROVE Displaced(r)
      <4>1. PICK p \in Verified[r] : p.expiry <= day
        BY <2>e, <3>3, <3>4 DEF Lent
      <4>2. p # q
        <5>1. q.expiry > day
          BY <2>a, <2>e, <3>3, <3>4
        <5>2. day \in Int /\ p.expiry \in Int
          BY ExpiryIsANumber, AmountsAssumption DEF SettlementTypeOK, TypeOK, Day
        <5>3. QED
          BY <4>1, <5>1, <5>2
      <4>3. QED
        BY <2>b, <4>1, <4>2 DEF Displaced
    <3>5. QED
      BY <2>a, <2>d, <2>e, <3>1, <3>4
  <2>5. CASE WasTold(c)
    <3>1. PICK t \in net :
            /\ t.call = c /\ Waits(t)
            /\ \/ /\ Succeed(t)
                  /\ call'[c] = [call[c] EXCEPT !.phase = "landed"]
               \/ /\ Refuse(t)
                  /\ call'[c] = [call[c] EXCEPT !.phase = "failed"]
               \/ /\ Drop(t)
                  /\ call'[c] = [call[c] EXCEPT !.phase = "expired"]
      BY <2>5 DEF WasTold
    <3>2. /\ call[c].phase = "confirm" /\ t.step = call[c].step /\ RequestOf(t) = r
          /\ t.receipt = q /\ call'[c].step = call[c].step
      BY <2>a, <2>b, <2>g, <3>1 DEF Waits, TransactionOf, RequestOf, Running
    <3>3. call'[c].phase \in {"landed", "failed"} /\ call'[c].step = "present_and_fund"
            => Lent(r, q)'
      <4>1. CASE Succeed(t) /\ t.step = "present_and_fund"
        BY <3>2, <4>1, PresentedIsMade DEF Lent
      <4>2. CASE Refuse(t) /\ t.step = "present_and_fund"
        BY <2>b, <2>d, <3>2, <4>2, Refusal DEF Refuse
      <4>3. CASE Drop(t) /\ call'[c] = [call[c] EXCEPT !.phase = "expired"]
        BY <2>g, <4>3 DEF Running
      <4>4. QED
        BY <3>1, <3>2, <4>1, <4>2, <4>3
    <3>4. QED
      BY <2>a, <2>d, <2>e, <3>2, <3>3
  <2>6. QED
    BY <1>2, <2>1, <2>2, <2>3, <2>4, <2>5, CallMoves
       DEF Same, Begun, Settle, Replay, Begin
<1>3. QED
  BY <1>1, <1>2, CallMoves

LEMMA RowsStep ==
  ASSUME SettlementTypeOK, ReceiptsVerified, Told, SettledHasLoan, ReplayRefused,
         [Next]_vars
  PROVE  SettledHasLoan' /\ ReplayRefused'
<1>1. ASSUME NEW c \in Call, Confirm(c), call[c].step = "present_and_fund"
      PROVE  /\ call[c].receipt \in Verified[RequestOf(call[c])]
             /\ Lent(RequestOf(call[c]), call[c].receipt)
             /\ call[c].replay = TRUE => Displaced(RequestOf(call[c]))
  BY <1>1 DEF Confirm, Idle, Told, ReceiptsVerified
<1>2. ASSUME NEW o \in Offer, row'[o].status = "settled"
      PROVE  Settled(OfferRequest[o])' \/ row'[o].receipt.expiry <= day'
  <2>1. PICK r \in Request : r = OfferRequest[o]
    BY RowsAssumption
  <2>2. PICK p \in Verified[r] : p = row'[o].receipt /\ Lent(r, p)
    <3>1. CASE row[o].status = "settled" /\ row'[o] = row[o]
      BY <2>1, <3>1 DEF ReceiptsVerified, SettledHasLoan, Lent, None
    <3>2. ASSUME NEW c \in Call, Confirm(c), call[c].step = "present_and_fund",
                 call[c].offer = o, row'[o].receipt = call[c].receipt
          PROVE  row'[o].receipt \in Verified[r] /\ Lent(r, row'[o].receipt)
      BY <1>1, <2>1, <3>2 DEF RequestOf
    <3>3. QED
      BY <1>2, <3>1, <3>2, RowWriters
  <2>3. Lent(r, p)'
    BY <2>2, LentStays
  <2>4. QED
    BY <2>1, <2>2, <2>3 DEF Lent
<1>3. ASSUME NEW o \in Offer, replayed'[o] = "succeeded"
      PROVE  Displaced(OfferRequest[o])'
  <2>1. PICK r \in Request : r = OfferRequest[o]
    BY RowsAssumption
  <2>2. Displaced(r)
    <3>1. CASE replayed[o] = "succeeded"
      BY <2>1, <3>1 DEF ReplayRefused, Displaced
    <3>2. CASE \E c \in Call : /\ Confirm(c) /\ call[c].step = "present_and_fund"
                               /\ call[c].replay = TRUE /\ call[c].offer = o
      BY <1>1, <2>1, <3>2 DEF RequestOf
    <3>3. QED
      BY <1>3, <3>1, <3>2, RowWriters
  <2>3. Displaced(r)'
    BY <2>2, LentStays
  <2>4. QED
    BY <2>1, <2>3
<1>4. QED
  BY <1>2, <1>3 DEF SettledHasLoan, ReplayRefused, Displaced, Settled

(* A call that begins stands alone, or its request is muddled.             *)
LEMMA Beginning ==
  ASSUME SettlementTypeOK, NEW c \in Call, Begun(c), call[c] = Idle
  PROVE  /\ UNCHANGED <<chain, net>>
         /\ \A d \in Call : d # c => call'[d] = call[d]
         /\ RequestOf(call'[c]) \in Request
         /\ Busy(RequestOf(call'[c])) => RequestOf(call'[c]) \in muddled'
         /\ \/ call'[c].step = "publish_policy"
            \/ /\ call'[c].step = "present_and_fund" /\ call'[c].phase = "send"
               /\ row[call'[c].offer].status = "settled"
               /\ call'[c].offer \in Offer
               /\ \/ RequestOf(call'[c]) \in muddled'
                  \/ ~(vault[RequestOf(call'[c])] > Principal(call'[c].offer))
         /\ UNCHANGED <<row, made, short>>
         /\ call'[c].step \in {"publish_policy", "present_and_fund"}
<1>1. PICK o \in Offer, p \in Receipt, a \in Payout :
        Settle(c, o, p, a) \/ Replay(c, o, p, a)
  BY DEF Begun
<1>2. call \in [Call -> Running \cup {Idle}]
  BY DEF SettlementTypeOK
<1>3. /\ call'[c].offer = o
      /\ \/ call'[c].step = "publish_policy"
         \/ /\ call'[c].step = "present_and_fund" /\ call'[c].phase = "send"
            /\ row[o].status = "settled"
  BY <1>1, <1>2 DEF Settle, Replay, Replayable, Begin
<1>4. \A d \in Call : d # c => call'[d] = call[d]
  BY <1>1, <1>2 DEF Settle, Replay, Replayable, Begin
<1>5. UNCHANGED <<chain, net, row, made, short>>
  BY <1>1 DEF Settle, Replay, Replayable, Begin
<1>6. Busy(OfferRequest[o]) => OfferRequest[o] \in muddled'
  BY <1>1 DEF Settle, Replay, Replayable, Begin, Muddle
<1>7. call'[c].step = "publish_policy" \/ OfferRequest[o] \in muddled'
        \/ ~(vault[OfferRequest[o]] > Principal(o))
  BY <1>1, <1>2 DEF Settle, Replay, Replayable, Begin, Muddle
<1>8. RequestOf(call'[c]) = OfferRequest[o] /\ OfferRequest[o] \in Request
  BY <1>3, RowsAssumption DEF RequestOf
<1>9. QED
  BY <1>3, <1>4, <1>5, <1>6, <1>7, <1>8

LEMMA HistoryGrows ==
  [Next]_vars => muddled \subseteq muddled' /\ short \subseteq short' /\ made \subseteq made'
  BY DEF Next, vars, history, Settle, Replay, Replayable, Begin, Muddle, Advance, Check, Send,
         Confirm, GiveUp, Land, Drop, Succeed, Refuse, Reset, Crash, Clock

(* A transaction new on its way is the one its call now waits for.         *)
LEMMA NewTransaction ==
  ASSUME SettlementTypeOK, [Next]_vars, NEW t \in net', t \notin net
  PROVE  \E c \in Call :
           /\ call[c] # Idle /\ call[c].phase = "send"
           /\ t.call = c /\ t.step = call[c].step /\ t.offer = call[c].offer
           /\ t.shortfall = call[c].shortfall
           /\ \A u \in net' : u \in net \/ u = t
           /\ Waits(t)'
           /\ UNCHANGED chain
<1>1. PICK c \in Call : /\ call[c].phase = "send"
                        /\ net' = net \cup {TransactionOf(c)}
                        /\ call' = [call EXCEPT ![c].phase = "confirm"]
                        /\ UNCHANGED chain
  BY NetStep
<1>2. t = TransactionOf(c)
  BY <1>1
<1>3. call[c] # Idle
  BY <1>1 DEF Idle
<1>4. call[c] \in Running /\ call \in [Call -> Running \cup {Idle}]
  BY <1>3, CallFields DEF SettlementTypeOK
<1>5. /\ t.call = c /\ t.step = call[c].step /\ t.offer = call[c].offer
      /\ t.shortfall = call[c].shortfall
  BY <1>2 DEF TransactionOf
<1>6. /\ call'[c].phase = "confirm" /\ call'[c].step = call[c].step
      /\ call'[c].offer = call[c].offer /\ call'[c].receipt = call[c].receipt
      /\ call'[c].payout = call[c].payout /\ call'[c].shortfall = call[c].shortfall
  BY <1>1, <1>4 DEF Running
<1>7. Waits(t)'
  BY <1>2, <1>5, <1>6 DEF Waits, TransactionOf
<1>8. QED
  BY <1>1, <1>2, <1>3, <1>5, <1>7

(* What a call waits for stays what it waits for, or comes down.           *)
LEMMA StillWaiting ==
  ASSUME SettlementTypeOK, [Next]_vars, NEW t \in net, t \in net',
         Waits(t), call'[t.call] # Idle, Same(t.call)
  PROVE  Waits(t)'
<1> DEFINE c == t.call
<1>1. c \in Call /\ call[c].phase = "confirm" /\ TransactionOf(c) = t
  BY TransactionFields DEF Waits
<1>2. ~Begun(c) \/ call[c] # Idle
  BY DEF Same
<1>3. ~Checked(c) /\ ~Proceeded(c) /\ ~TurnsSent(c)
  BY <1>1 DEF Checked, Proceeded, TurnsSent, Check, Confirm, Send
<1>4. ASSUME WasTold(c) PROVE FALSE
  <2>1. PICK u \in net : u.call = c /\ Waits(u) /\ (Land(u) \/ Drop(u))
    BY <1>4 DEF WasTold, Land
  <2>2. u = t /\ net' = net \ {u}
    BY <1>1, <2>1 DEF Waits, Land, Succeed, Refuse, Drop
  <2>3. QED
    BY <2>2
<1>5. call'[c] = call[c]
  BY <1>1, <1>2, <1>3, <1>4, CallMoves
<1>6. QED
  BY <1>1, <1>5 DEF Waits, TransactionOf

LEMMA SerialStep ==
  ASSUME SettlementTypeOK, Serial, [Next]_vars
  PROVE  Serial'
<1> SUFFICES ASSUME NEW r \in Request, r \notin muddled'
    PROVE  /\ \A c, d \in Call :
                call'[c] # Idle /\ call'[d] # Idle
                  /\ RequestOf(call'[c]) = r /\ RequestOf(call'[d]) = r => c = d
           /\ \A t, u \in net' : RequestOf(t) = r /\ RequestOf(u) = r => t = u
           /\ \A c \in Call, t \in net' :
                call'[c] # Idle /\ RequestOf(call'[c]) = r /\ RequestOf(t) = r
                  => c = t.call /\ Waits(t)'
  BY DEF Serial, RequestOf
<1>1. r \notin muddled
  BY HistoryGrows
<1>2. ASSUME NEW c \in Call, call'[c] # Idle, RequestOf(call'[c]) = r,
             ~(Begun(c) /\ call[c] = Idle)
      PROVE  Same(c) /\ call[c] # Idle /\ RequestOf(call[c]) = r
  BY <1>2, CallMoves DEF Same, RequestOf
<1>3. ASSUME NEW c \in Call, RequestOf(call'[c]) = r, Begun(c), call[c] = Idle
      PROVE  ~Busy(r) /\ net' = net /\ \A d \in Call : d # c => call'[d] = call[d]
  BY <1>3, Beginning
<1>4. ASSUME NEW c \in Call, NEW d \in Call, call'[c] # Idle, call'[d] # Idle,
             RequestOf(call'[c]) = r, RequestOf(call'[d]) = r
      PROVE  c = d
  <2>1. CASE Begun(c) /\ call[c] = Idle
    BY <1>3, <1>4, <2>1 DEF Busy, RequestOf
  <2>2. CASE Begun(d) /\ call[d] = Idle
    BY <1>3, <1>4, <2>2 DEF Busy, RequestOf
  <2>3. CASE ~(Begun(c) /\ call[c] = Idle) /\ ~(Begun(d) /\ call[d] = Idle)
    <3>1. call[c] # Idle /\ RequestOf(call[c]) = r /\ call[d] # Idle /\ RequestOf(call[d]) = r
      BY <1>2, <1>4, <2>3
    <3>2. QED
      BY <1>1, <3>1 DEF Serial
  <2>4. QED
    BY <2>1, <2>2, <2>3
<1>5. ASSUME NEW t \in net', RequestOf(t) = r, t \notin net
      PROVE  \A u \in net' : RequestOf(u) = r => t = u
  <2>1. PICK c \in Call :
          /\ call[c] # Idle /\ call[c].phase = "send" /\ t.offer = call[c].offer
          /\ \A u \in net' : u \in net \/ u = t
    BY <1>5, NewTransaction
  <2>2. RequestOf(call[c]) = r
    BY <1>5, <2>1 DEF RequestOf
  <2>3. \A u \in net : RequestOf(u) = r => c = u.call /\ Waits(u)
    BY <1>1, <2>1, <2>2 DEF Serial
  <2>4. QED
    BY <2>1, <2>3 DEF Waits
<1>6. ASSUME NEW t \in net', NEW u \in net', RequestOf(t) = r, RequestOf(u) = r
      PROVE  t = u
  <2>1. CASE t \in net /\ u \in net
    BY <1>1, <1>6, <2>1 DEF Serial
  <2>2. QED
    BY <1>5, <1>6, <2>1
<1>7. ASSUME NEW c \in Call, NEW t \in net', call'[c] # Idle,
             RequestOf(call'[c]) = r, RequestOf(t) = r
      PROVE  c = t.call /\ Waits(t)'
  <2>1. CASE Begun(c) /\ call[c] = Idle
    BY <1>3, <1>7, <2>1 DEF Busy, RequestOf
  <2>2. CASE t \in net /\ ~(Begun(c) /\ call[c] = Idle)
    <3>1. Same(c) /\ call[c] # Idle /\ RequestOf(call[c]) = r
      BY <1>2, <1>7, <2>2
    <3>2. c = t.call /\ Waits(t)
      BY <1>1, <1>7, <2>2, <3>1 DEF Serial
    <3>3. QED
      BY <1>7, <2>2, <3>1, <3>2, StillWaiting
  <2>3. CASE t \notin net /\ ~(Begun(c) /\ call[c] = Idle)
    <3>1. PICK d \in Call :
            /\ call[d] # Idle /\ t.call = d /\ t.offer = call[d].offer /\ Waits(t)'
      BY <2>3, NewTransaction
    <3>2. RequestOf(call[d]) = r /\ call[c] # Idle /\ RequestOf(call[c]) = r
      BY <1>2, <1>7, <2>3, <3>1 DEF RequestOf
    <3>3. c = d
      BY <1>1, <3>1, <3>2 DEF Serial
    <3>4. QED
      BY <3>1, <3>3
  <2>4. QED
    BY <2>1, <2>2, <2>3
<1>8. QED
  BY <1>4, <1>6, <1>7
-----------------------------------------------------------------------------
(* Escrows.                                                                *)

LEMMA FundLands ==
  ASSUME SettlementTypeOK, NEW t \in net, Succeed(t), t.step = "fund_escrow"
  PROVE  vault'[RequestOf(t)] = vault[RequestOf(t)] + t.shortfall
<1>1. RequestOf(t) \in Request /\ vault \in [Request -> Nat]
  BY TransactionFields DEF RequestOf, SettlementTypeOK, TypeOK
<1>2. FundEscrow(LenderKey, RequestOf(t), t.shortfall)
  BY DEF Succeed, Execute, RequestOf
<1>3. QED
  BY <1>1, <1>2 DEF FundEscrow

(* What moves a vault is a transaction of its own request.                 *)
LEMMA VaultMoves ==
  ASSUME SettlementTypeOK, [Next]_vars, NEW r \in Request, vault'[r] # vault[r]
  PROVE  \E t \in net : /\ RequestOf(t) = r /\ Succeed(t) /\ t \notin net'
                        /\ t.step = "fund_escrow" \/ Settled(r)'
<1>1. PICK t \in net : Succeed(t)
  BY ChainWriters DEF chain, NextDay
<1>2. RequestOf(t) \in Request /\ vault \in [Request -> Nat]
      /\ loan \in [Request -> LoanAccount \cup {None}]
  BY TransactionFields DEF RequestOf, SettlementTypeOK, TypeOK
<1>3. t \notin net'
  BY <1>1 DEF Succeed
<1>4. CASE t.step = "fund_escrow" /\ FundEscrow(LenderKey, RequestOf(t), t.shortfall)
  BY <1>1, <1>2, <1>3, <1>4 DEF FundEscrow
<1>5. CASE \E apr \in Apr, fee \in Fee :
        PresentAndFund(LenderKey, RequestOf(t), t.receipt, t.payout, t.payout, apr, fee)
  <2>1. vault' = [vault EXCEPT ![RequestOf(t)] = 0]
    BY <1>5 DEF PresentAndFund
  <2>2. RequestOf(t) = r
    BY <1>2, <2>1
  <2>3. loan'[r].status = "funded"
    BY <1>2, <1>5, <2>2 DEF PresentAndFund
  <2>4. Settled(r)'
    BY <2>3 DEF Settled, None
  <2>5. QED
    BY <1>1, <1>3, <2>2, <2>4
<1>6. CASE UNCHANGED vault
  BY <1>6
<1>7. QED
  BY <1>1, <1>4, <1>5, <1>6
     DEF Succeed, Execute, RequestOf, PublishPolicy, PublishRequest, OpenPayout

LEMMA EnoughStays ==
  ASSUME SettlementTypeOK, [Next]_vars, NEW r \in Request, NEW o \in Offer, NEW n \in Nat
  PROVE  /\ Enough(r, o) => r \in short' \/ Settled(r)' \/ vault'[r] >= Principal(o)
         /\ EnoughWith(r, o, n) => Settled(r)' \/ vault'[r] + n >= Principal(o)
<1>1. Lasting /\ TypeOK /\ TypeOK'
  BY ChainLasts
<1>2. vault[r] \in Nat /\ vault'[r] \in Nat /\ Principal(o) \in Nat
  BY <1>1, PrincipalType DEF TypeOK
<1>3. /\ Settled(r) => Settled(r)'
      /\ vault'[r] >= vault[r] \/ Settled(r)'
  BY <1>1 DEF Lasting
<1>4. short \subseteq short'
  BY HistoryGrows
<1>5. QED
  BY <1>2, <1>3, <1>4 DEF Enough, EnoughWith

(* A call that is about to fund an escrow has just read its vault.         *)
LEMMA FundingChecked ==
  ASSUME SettlementTypeOK, [Next]_vars, NEW c \in Call, call'[c] # Idle,
         call'[c].phase = "send", call'[c].step = "fund_escrow"
  PROVE  \/ call'[c] = call[c]
         \/ /\ UNCHANGED chain /\ RequestOf(call'[c]) \in Request
            /\ call'[c].shortfall \in Nat
            /\ vault[RequestOf(call'[c])] + call'[c].shortfall >= Principal(call'[c].offer)
            /\ \/ RequestOf(call'[c]) \in muddled'
               \/ vault[RequestOf(call'[c])] + call'[c].shortfall
                    = Principal(call'[c].offer)
<1> DEFINE r == RequestOf(call[c])
           o == call[c].offer
<1>1. ~(Begun(c) /\ call[c] = Idle)
  BY Beginning
<1>2. Same(c)
  BY <1>1, CallMoves
<1>3. call[c] # Idle /\ call[c] \in Running /\ call[c].step \in Step
  BY <1>2, CallFields DEF Same
<1>4. ~Proceeded(c)
  BY <1>3, ProceedIs DEF Proceeded
<1>5. ~TurnsSent(c)
  BY <1>3 DEF TurnsSent, Running
<1>6. ~WasTold(c)
  BY <1>3 DEF WasTold, Running
<1>7. call'[c] = call[c] \/ Checked(c)
  BY <1>1, <1>4, <1>5, <1>6, CallMoves
<1>8. /\ RequestOf(call'[c]) = r /\ call'[c].offer = o /\ r \in Request
      /\ vault[r] \in Nat /\ Principal(o) \in Nat
  BY <1>2, <1>3, CallFields, PrincipalType DEF Same, RequestOf, SettlementTypeOK, TypeOK
<1>9. ASSUME Checked(c)
      PROVE  /\ UNCHANGED chain /\ call'[c].shortfall \in Nat
             /\ \/ vault[r] + call'[c].shortfall = Principal(o)
                \/ r \in muddled' /\ vault[r] + call'[c].shortfall >= Principal(o)
  <2>1. Check(c) /\ call'[c].phase = "send" /\ call[c].step = "fund_escrow"
    BY <1>9 DEF Checked
  <2>2. call \in [Call -> Running \cup {Idle}]
    BY DEF SettlementTypeOK
  <2>3. call' # [call EXCEPT ![c] = Proceed(c)]
    BY <1>3, <2>1, <2>2, ProceedIs
  <2>4. CASE /\ ~OnChain(call[c])
             /\ call' = [call EXCEPT ![c].phase = "send",
                                     ![c].shortfall = Shortfall(c, vault[r])]
    <3>1. call'[c].shortfall = Principal(o) - vault[r]
      BY <1>3, <2>1, <2>2, <2>4 DEF Running, Shortfall
    <3>2. ~(vault[r] >= Principal(o))
      BY <2>1, <2>4 DEF OnChain, RequestOf
    <3>3. QED
      BY <1>8, <2>1, <3>1, <3>2 DEF Check
  <2>5. CASE /\ call' = [call EXCEPT ![c].phase = "send",
                                     ![c].shortfall = Shortfall(c, 0)]
             /\ Muddle(r, TRUE)
    <3>1. call'[c].shortfall = Principal(o) - 0
      BY <1>3, <2>1, <2>2, <2>5 DEF Running, Shortfall
    <3>2. r \in muddled'
      BY <2>5 DEF Muddle
    <3>3. QED
      BY <1>8, <2>1, <3>1, <3>2 DEF Check
  <2>6. QED
    BY <2>1, <2>3, <2>4, <2>5 DEF Check, RequestOf
<1>10. CASE Checked(c)
  BY <1>8, <1>9, <1>10
<1>11. QED
  BY <1>7, <1>10

(* A call that gets past the funding step has seen the escrow full, or     *)
(* takes what it was told for that.                                        *)
LEMMA PastFundingMoves ==
  ASSUME SettlementTypeOK, [Next]_vars, NEW c \in Call, Same(c), call'[c] # Idle,
         PastFunding(call'[c]), ~PastFunding(call[c])
  PROVE  \/ /\ Check(c) /\ call[c].step = "fund_escrow" /\ call[c].phase = "check"
            /\ OnChain(call[c])
            /\ Muddle(RequestOf(call[c]),
                      vault[RequestOf(call[c])] > Principal(call[c].offer))
         \/ call[c].step = "fund_escrow" /\ call[c].phase = "failed" /\ UNCHANGED chain
         \/ \E t \in net : /\ t.call = c /\ Waits(t) /\ Succeed(t)
                           /\ t.step = "fund_escrow"
<1>1. call[c] # Idle /\ call[c] \in Running /\ call[c].step \in Step
  BY CallFields DEF Same
<1>2. call'[c] # call[c]
  OBVIOUS
<1>3. ~Checked(c)
  BY DEF Checked, PastFunding
<1>4. ~TurnsSent(c)
  BY <1>1 DEF TurnsSent, PastFunding, Running
<1>5. CASE Proceeded(c)
  <2>1. call[c].step # "present_and_fund" /\ call'[c] = Proceed(c)
    BY <1>5 DEF Proceeded
  <2>2. call'[c].step = After[call[c].step] /\ call'[c].phase \in {"send", "check"}
    BY <1>1, <2>1, ProceedIs
  <2>3. call[c].step = "fund_escrow" /\ call[c].phase # "landed"
    BY <1>1, <2>2 DEF PastFunding, Step, After
  <2>4. CASE Confirm(c)
    BY <2>3, <2>4 DEF Confirm
  <2>5. CASE Check(c)
    <3>1. call \in [Call -> Running \cup {Idle}]
      BY DEF SettlementTypeOK
    <3>2. \A n : call' # [call EXCEPT ![c].phase = "send", ![c].shortfall = n]
      <4>1. call'[c].step # call[c].step
        BY <2>2, <2>3 DEF After
      <4>2. QED
        BY <1>1, <3>1, <4>1 DEF Running
    <3>3. OnChain(call[c]) /\ Muddle(OfferRequest[call[c].offer], call[c].step = "fund_escrow"
            /\ vault[OfferRequest[call[c].offer]] > Principal(call[c].offer))
      BY <2>5, <3>2 DEF Check
    <3>4. QED
      BY <2>3, <2>5, <3>3 DEF Check, Muddle, RequestOf
  <2>6. QED
    BY <1>5, <2>4, <2>5 DEF Proceeded
<1>6. CASE WasTold(c)
  <2>1. PICK t \in net :
          /\ t.call = c /\ Waits(t)
          /\ \/ /\ Succeed(t)
                /\ call'[c] = [call[c] EXCEPT !.phase = "landed"]
             \/ /\ Refuse(t)
                /\ call'[c] = [call[c] EXCEPT !.phase = "failed"]
             \/ /\ Drop(t)
                /\ call'[c] = [call[c] EXCEPT !.phase = "expired"]
    BY <1>6 DEF WasTold
  <2>2. call'[c].step = call[c].step /\ t.step = call[c].step
    BY <1>1, <2>1 DEF Running, Waits, TransactionOf
  <2>3. call[c].step = "fund_escrow" /\ call'[c].phase = "landed"
    BY <2>2 DEF PastFunding
  <2>4. Succeed(t)
    BY <1>1, <2>1, <2>3 DEF Running
  <2>5. QED
    BY <2>1, <2>2, <2>3, <2>4
<1>7. QED
  BY <1>1, <1>2, <1>3, <1>4, <1>5, <1>6, CallMoves DEF Begun, Settle, Replay, Begin

LEMMA MadeWriters ==
  ASSUME [Next]_vars, NEW o \in made', o \notin made
  PROVE  \E t \in net : Succeed(t) /\ t.step = "present_and_fund" /\ t.offer = o
BY DEF Next, vars, history, Settle, Replay, Replayable, Begin, Advance, Check, Send,
       Confirm, GiveUp, Land, Drop, Succeed, Refuse, Reset, Crash, Clock

LEMMA CoveredCalls ==
  ASSUME SettlementTypeOK, Covered, [Next]_vars, NEW c \in Call, call'[c] # Idle,
         NEW r \in Request, r = RequestOf(call'[c]), NEW o \in Offer, o = call'[c].offer
  PROVE  /\ PastFunding(call'[c]) =>
              r \in short' \/ Settled(r)' \/ vault'[r] >= Principal(o)
         /\ call'[c].step = "fund_escrow" /\ call'[c].phase = "failed" => r \in short'
         /\ call'[c].step = "fund_escrow" /\ call'[c].phase = "send" =>
              Settled(r)' \/ vault'[r] + call'[c].shortfall >= Principal(o)
<1> DEFINE EnoughNext == r \in short' \/ Settled(r)' \/ vault'[r] >= Principal(o)
<1>b. short \subseteq short'
  BY HistoryGrows
<1>1. CASE Begun(c) /\ call[c] = Idle
  <2>1. \/ call'[c].step = "publish_policy"
        \/ /\ call'[c].step = "present_and_fund" /\ row[o].status = "settled"
    BY <1>1, Beginning
  <2>2. row[o].status = "settled" => EnoughNext
    BY EnoughStays DEF Covered, RequestOf
  <2>3. QED
    BY <2>1, <2>2 DEF PastFunding
<1>2. CASE Same(c)
  <2>1. /\ call[c] # Idle /\ call[c] \in Running /\ RequestOf(call[c]) = r
        /\ call[c].offer = o /\ call[c].shortfall \in Nat
    BY <1>2, CallFields DEF Same, RequestOf
  <2>2. /\ PastFunding(call[c]) => EnoughNext
        /\ call[c].step = "fund_escrow" /\ call[c].phase = "failed" => r \in short'
        /\ call[c].step = "fund_escrow" /\ call[c].phase = "send" =>
             Settled(r)' \/ vault'[r] + call[c].shortfall >= Principal(o)
    BY <1>b, <2>1, EnoughStays DEF Covered
  <2>3. ASSUME NEW t \in net, t.call = c, Waits(t)
        PROVE  RequestOf(t) = r /\ t.offer = o /\ t.step = call[c].step
    BY <2>1, <2>3 DEF Waits, TransactionOf, RequestOf
  <2>4. ASSUME PastFunding(call'[c]), ~PastFunding(call[c])
        PROVE  EnoughNext
    <3>1. CASE Check(c) /\ call[c].step = "fund_escrow" /\ OnChain(call[c])
      <4>1. vault[r] >= Principal(o) /\ vault' = vault
        BY <2>1, <3>1 DEF OnChain, Check, chain, RequestOf
      <4>2. QED
        BY <4>1
    <3>2. CASE call[c].step = "fund_escrow" /\ call[c].phase = "failed"
      BY <2>2, <3>2
    <3>3. CASE \E t \in net : /\ t.call = c /\ Waits(t) /\ Succeed(t)
                              /\ t.step = "fund_escrow"
      <4>1. PICK t \in net : /\ t.call = c /\ Waits(t) /\ Succeed(t)
                             /\ t.step = "fund_escrow"
        BY <3>3
      <4>2. RequestOf(t) = r /\ t.offer = o
        BY <2>3, <4>1
      <4>3. EnoughWith(r, o, t.shortfall) /\ vault'[r] = vault[r] + t.shortfall
        BY <4>1, <4>2, FundLands DEF Covered
      <4>4. Settled(r) => Settled(r)'
        BY ChainLasts DEF Lasting
      <4>5. QED
        BY <4>3, <4>4 DEF EnoughWith
    <3>4. QED
      BY <1>2, <2>4, <3>1, <3>2, <3>3, PastFundingMoves
  <2>5. ASSUME call'[c].step = "fund_escrow", call'[c].phase = "failed", call'[c] # call[c]
        PROVE  r \in short'
    <3>1. ~Checked(c) /\ ~TurnsSent(c)
      BY <2>1, <2>5 DEF Checked, TurnsSent, Running
    <3>2. ~Proceeded(c)
      BY <2>1, <2>5, ProceedIs DEF Proceeded
    <3>3. WasTold(c)
      BY <2>1, <2>5, <3>1, <3>2, CallMoves
    <3>4. PICK t \in net : /\ t.call = c /\ Waits(t) /\ Refuse(t)
                           /\ call'[c] = [call[c] EXCEPT !.phase = "failed"]
      BY <2>1, <2>5, <3>3 DEF WasTold, Running
    <3>5. t.step = "fund_escrow" /\ RequestOf(t) = r
      BY <2>1, <2>3, <2>5, <3>4 DEF Running
    <3>6. QED
      BY <3>4, <3>5 DEF Refuse, RequestOf
  <2>6. ASSUME call'[c].step = "fund_escrow", call'[c].phase = "send"
        PROVE  Settled(r)' \/ vault'[r] + call'[c].shortfall >= Principal(o)
    <3>1. CASE call'[c] = call[c]
      BY <2>2, <2>6, <3>1
    <3>2. CASE UNCHANGED chain /\ vault[r] + call'[c].shortfall >= Principal(o)
      BY <3>2 DEF chain
    <3>3. QED
      BY <2>6, <3>1, <3>2, FundingChecked
  <2>7. QED
    BY <2>2, <2>4, <2>5, <2>6
<1>3. QED
  BY <1>1, <1>2, CallMoves

LEMMA CoveredStep ==
  ASSUME SettlementTypeOK, Covered, [Next]_vars
  PROVE  Covered'
<1>a. short \subseteq short'
  BY HistoryGrows
<1>1. ASSUME NEW t \in net'
      PROVE  LET r == RequestOf(t) IN
             /\ t.step = "fund_escrow" =>
                  Settled(r)' \/ vault'[r] + t.shortfall >= Principal(t.offer)
             /\ t.step = "present_and_fund" =>
                  r \in short' \/ Settled(r)' \/ vault'[r] >= Principal(t.offer)
  <2> DEFINE r == RequestOf(t)
  <2>1. r \in Request /\ t.offer \in Offer /\ t.shortfall \in Nat
    BY SettlementTypeStep, RowsAssumption DEF SettlementTypeOK, Transaction, RequestOf
  <2>2. /\ t.step = "fund_escrow" => EnoughWith(r, t.offer, t.shortfall)
        /\ t.step = "present_and_fund" => Enough(r, t.offer)
    <3>1. CASE t \in net
      BY <3>1 DEF Covered
    <3>2. CASE t \notin net
      <4>1. PICK c \in Call :
              /\ call[c] # Idle /\ call[c].phase = "send"
              /\ t.step = call[c].step /\ t.offer = call[c].offer
              /\ t.shortfall = call[c].shortfall
        BY <3>2, NewTransaction
      <4>2. RequestOf(call[c]) = r
        BY <4>1 DEF RequestOf
      <4>3. QED
        BY <4>1, <4>2 DEF Covered, PastFunding
    <3>3. QED
      BY <3>1, <3>2
  <2>3. QED
    BY <2>1, <2>2, EnoughStays
<1>2. ASSUME NEW o \in Offer, row'[o].status = "settled"
      PROVE  LET r == OfferRequest[o] IN
             r \in short' \/ Settled(r)' \/ vault'[r] >= Principal(o)
  <2>1. OfferRequest[o] \in Request
    BY RowsAssumption
  <2>2. Enough(OfferRequest[o], o)
    <3>1. CASE row[o].status = "settled"
      BY <3>1 DEF Covered
    <3>2. ASSUME NEW c \in Call, Confirm(c), call[c].step = "present_and_fund",
                 call[c].offer = o
          PROVE  Enough(OfferRequest[o], o)
      BY <3>2 DEF Covered, Confirm, Idle, PastFunding, RequestOf
    <3>3. QED
      BY <1>2, <3>1, <3>2, RowWriters
  <2>3. QED
    BY <2>1, <2>2, EnoughStays
<1>3. ASSUME NEW o \in made'
      PROVE  LET r == OfferRequest[o] IN
             Settled(r)' /\ (r \in short' \/ loan'[r].principal >= Principal(o))
  <2> DEFINE r == OfferRequest[o]
  <2>1. o \in Offer /\ r \in Request
    BY SettlementTypeStep, RowsAssumption DEF SettlementTypeOK
  <2>2. CASE o \in made
    BY <1>a, <2>1, <2>2, ChainLasts DEF Covered, Lasting
  <2>3. CASE o \notin made
    <3>1. PICK t \in net : Succeed(t) /\ t.step = "present_and_fund" /\ t.offer = o
      BY <1>3, <2>3, MadeWriters
    <3>2. RequestOf(t) = r
      BY <3>1 DEF RequestOf
    <3>3. Settled(r)' /\ ~Settled(r)
      BY <3>1, <3>2, PresentedIsMade
    <3>4. loan'[r].principal = vault[r]
      BY <2>1, <3>3, LoansMade
    <3>5. Enough(r, o)
      BY <3>1, <3>2 DEF Covered
    <3>6. QED
      BY <1>a, <3>3, <3>4, <3>5 DEF Enough
  <2>4. QED
    BY <2>2, <2>3
<1>4. ASSUME NEW c \in Call, call'[c] # Idle, NEW r \in Request, r = RequestOf(call'[c]),
             NEW o \in Offer, o = call'[c].offer
      PROVE  /\ PastFunding(call'[c]) =>
                  r \in short' \/ Settled(r)' \/ vault'[r] >= Principal(o)
             /\ call'[c].step = "fund_escrow" /\ call'[c].phase = "failed" => r \in short'
             /\ call'[c].step = "fund_escrow" /\ call'[c].phase = "send" =>
                  Settled(r)' \/ vault'[r] + call'[c].shortfall >= Principal(o)
  BY <1>4, CoveredCalls
<1>5. \A c \in Call : call'[c] # Idle =>
        RequestOf(call'[c]) \in Request /\ call'[c].offer \in Offer
  BY SettlementTypeStep, RowsAssumption DEF SettlementTypeOK, Running, RequestOf
<1>6. QED
  BY <1>1, <1>2, <1>3, <1>4, <1>5
     DEF Covered, Enough, EnoughWith, PastFunding, RequestOf, Settled, Principal

LEMMA EscrowsStep ==
  ASSUME SettlementTypeOK, Serial, Covered, Escrows, [Next]_vars
  PROVE  Escrows'
<1> SUFFICES ASSUME NEW r \in Request, r \notin muddled', r \notin short', ~Settled(r)'
    PROVE  /\ \A t \in net' : RequestOf(t) = r =>
                /\ t.step = "fund_escrow" =>
                     vault'[r] + t.shortfall = Principal(t.offer)
                /\ t.step = "present_and_fund" => vault'[r] = Principal(t.offer)
           /\ \A c \in Call : call'[c] # Idle /\ RequestOf(call'[c]) = r =>
                /\ call'[c].step = "fund_escrow" /\ call'[c].phase = "send" =>
                     vault'[r] + call'[c].shortfall = Principal(call'[c].offer)
                /\ PastFunding(call'[c]) => vault'[r] = Principal(call'[c].offer)
  BY DEF Escrows, Exact, ExactWith, PastFunding, RequestOf, Principal, Settled
<1>1. r \notin muddled /\ r \notin short /\ ~Settled(r)
  BY HistoryGrows, ChainLasts DEF Lasting
<1>2. ASSUME vault'[r] # vault[r]
      PROVE  \E t \in net :
               /\ RequestOf(t) = r /\ Succeed(t) /\ t \notin net'
               /\ t.step = "fund_escrow" /\ vault'[r] = Principal(t.offer)
  <2>1. PICK t \in net : /\ RequestOf(t) = r /\ Succeed(t) /\ t \notin net'
                         /\ t.step = "fund_escrow"
    BY <1>2, VaultMoves
  <2>2. vault'[r] = Principal(t.offer)
    BY <1>1, <2>1, FundLands DEF Escrows, ExactWith
  <2>3. QED
    BY <2>1, <2>2
<1>3. ASSUME NEW t \in net', RequestOf(t) = r
      PROVE  /\ t.step = "fund_escrow" => vault'[r] + t.shortfall = Principal(t.offer)
             /\ t.step = "present_and_fund" => vault'[r] = Principal(t.offer)
  <2>1. CASE t \in net
    <3>1. vault'[r] = vault[r]
      BY <1>1, <1>2, <1>3, <2>1 DEF Serial
    <3>2. QED
      BY <1>1, <1>3, <2>1, <3>1 DEF Escrows, Exact, ExactWith
  <2>2. CASE t \notin net
    <3>1. PICK c \in Call :
            /\ call[c] # Idle /\ call[c].phase = "send"
            /\ t.step = call[c].step /\ t.offer = call[c].offer
            /\ t.shortfall = call[c].shortfall /\ UNCHANGED chain
      BY <2>2, NewTransaction
    <3>2. RequestOf(call[c]) = r /\ vault' = vault
      BY <1>3, <3>1 DEF RequestOf, chain
    <3>3. QED
      BY <1>1, <3>1, <3>2 DEF Escrows, Exact, ExactWith, PastFunding
  <2>3. QED
    BY <2>1, <2>2
<1>4. ASSUME NEW c \in Call, call[c] # Idle, RequestOf(call[c]) = r, vault'[r] # vault[r]
      PROVE  /\ call[c].phase = "confirm" /\ call[c].step = "fund_escrow"
             /\ vault'[r] = Principal(call[c].offer)
  <2>1. PICK t \in net :
          RequestOf(t) = r /\ t.step = "fund_escrow" /\ vault'[r] = Principal(t.offer)
    BY <1>2, <1>4
  <2>2. c = t.call /\ Waits(t)
    BY <1>1, <1>4, <2>1 DEF Serial
  <2>3. QED
    BY <2>1, <2>2 DEF Waits, TransactionOf
<1>5. ASSUME NEW c \in Call, call'[c] # Idle, call'[c].phase = "send",
             call'[c].step = "fund_escrow", RequestOf(call'[c]) = r
      PROVE  vault'[r] + call'[c].shortfall = Principal(call'[c].offer)
  <2>1. CASE call'[c] = call[c]
    <3>1. RequestOf(call[c]) = r /\ call[c] # Idle /\ call[c].phase = "send"
          /\ call[c].step = "fund_escrow"
      BY <1>5, <2>1 DEF RequestOf
    <3>2. vault'[r] = vault[r]
      BY <1>4, <3>1
    <3>3. vault[r] + call[c].shortfall = Principal(call[c].offer)
      BY <1>1, <3>1 DEF Escrows, ExactWith
    <3>4. QED
      BY <2>1, <3>2, <3>3
  <2>2. CASE UNCHANGED chain /\ vault[r] + call'[c].shortfall = Principal(call'[c].offer)
    BY <2>2 DEF chain
  <2>3. QED
    BY <1>5, <2>1, <2>2, FundingChecked
<1>6. ASSUME NEW c \in Call, call'[c] # Idle, RequestOf(call'[c]) = r, PastFunding(call'[c])
      PROVE  vault'[r] = Principal(call'[c].offer)
  <2>1. CASE Begun(c) /\ call[c] = Idle
    <3> DEFINE o == call'[c].offer
    <3>1. o \in Offer /\ row[o].status = "settled" /\ vault' = vault
          /\ ~(vault[r] > Principal(o))
      BY <1>6, <2>1, Beginning DEF PastFunding, chain
    <3>2. Enough(r, o)
      BY <1>6, <3>1 DEF Covered, RequestOf
    <3>3. vault[r] \in Nat /\ Principal(o) \in Nat
      BY <3>1, PrincipalType DEF SettlementTypeOK, TypeOK
    <3>4. QED
      BY <1>1, <3>1, <3>2, <3>3 DEF Enough
  <2>2. CASE Same(c)
    <3>1. call[c] # Idle /\ RequestOf(call[c]) = r /\ call'[c].offer = call[c].offer
      BY <1>6, <2>2 DEF Same, RequestOf
    <3>2. CASE PastFunding(call[c])
      <4>1. vault[r] = Principal(call[c].offer)
        BY <1>1, <3>1, <3>2 DEF Escrows, Exact
      <4>2. vault'[r] = vault[r]
        BY <1>4, <3>1, <3>2 DEF PastFunding
      <4>3. QED
        BY <3>1, <4>1, <4>2
    <3>3. CASE ~PastFunding(call[c])
      <4>1. CASE Check(c) /\ call[c].step = "fund_escrow" /\ OnChain(call[c])
                   /\ Muddle(RequestOf(call[c]),
                             vault[RequestOf(call[c])] > Principal(call[c].offer))
        <5>1. vault[r] >= Principal(call[c].offer) /\ vault' = vault
          BY <3>1, <4>1 DEF OnChain, Check, chain, RequestOf
        <5>2. ~(vault[r] > Principal(call[c].offer))
          BY <3>1, <4>1 DEF Muddle
        <5>3. vault[r] \in Nat /\ Principal(call[c].offer) \in Nat
          BY <3>1, CallFields, PrincipalType DEF SettlementTypeOK, TypeOK
        <5>4. QED
          BY <3>1, <5>1, <5>2, <5>3
      <4>2. CASE call[c].step = "fund_escrow" /\ call[c].phase = "failed"
        BY <1>1, <3>1, <4>2 DEF Covered
      <4>3. CASE \E t \in net : /\ t.call = c /\ Waits(t) /\ Succeed(t)
                                /\ t.step = "fund_escrow"
        <5>1. PICK t \in net : /\ t.call = c /\ Waits(t) /\ Succeed(t)
                               /\ t.step = "fund_escrow"
          BY <4>3
        <5>2. RequestOf(t) = r /\ t.offer = call[c].offer
          BY <3>1, <5>1 DEF Waits, TransactionOf, RequestOf
        <5>3. QED
          BY <1>1, <3>1, <5>1, <5>2, FundLands DEF Escrows, ExactWith
      <4>4. QED
        BY <1>6, <2>2, <3>3, <4>1, <4>2, <4>3, PastFundingMoves
    <3>4. QED
      BY <3>2, <3>3
  <2>3. QED
    BY <1>6, <2>1, <2>2, CallMoves
<1>7. QED
  BY <1>3, <1>5, <1>6

LEMMA ResultsStep ==
  ASSUME SettlementTypeOK, SpentByItsLoan, ReceiptsVerified, Preflighted, Serial, Results,
         [Next]_vars
  PROVE  Results'
<1> SUFFICES ASSUME NEW r \in Request, r \notin muddled'
    PROVE  /\ \A t \in net' : RequestOf(t) = r /\ t.step = "present_and_fund" => ~Settled(r)'
           /\ \A c \in Call : call'[c] # Idle /\ RequestOf(call'[c]) = r
                               /\ call'[c].step = "present_and_fund" =>
                /\ call'[c].phase = "landed" => call'[c].offer \in made'
                /\ call'[c].phase = "failed" => call'[c].receipt.expiry <= day'
  BY DEF Results, RequestOf, Settled
<1>1. r \notin muddled /\ made \subseteq made'
  BY HistoryGrows
<1>2. ASSUME NEW t \in net', RequestOf(t) = r, t.step = "present_and_fund"
      PROVE  ~Settled(r)'
  <2>1. CASE t \in net
    <3>1. ~Settled(r)
      BY <1>1, <1>2, <2>1 DEF Results
    <3>2. ASSUME Settled(r)' PROVE FALSE
      <4>1. PICK u \in net : Succeed(u) /\ RequestOf(u) = r
        BY <3>1, <3>2, LoansMade
      <4>2. u = t
        BY <1>1, <1>2, <2>1, <4>1 DEF Serial
      <4>3. QED
        BY <4>1, <4>2 DEF Succeed
    <3>3. QED
      BY <3>2
  <2>2. CASE t \notin net
    <3>1. PICK c \in Call : /\ call[c].phase = "send" /\ May(call[c]) /\ t = TransactionOf(c)
                            /\ UNCHANGED chain
      BY <2>2, NetStep
    <3>2. ~Settled(r)
      BY <1>2, <3>1 DEF May, MayPresent, LoanFree, TransactionOf, RequestOf
    <3>3. QED
      BY <3>1, <3>2 DEF Settled, chain
  <2>3. QED
    BY <2>1, <2>2
<1>3. ASSUME NEW c \in Call, call'[c] # Idle, RequestOf(call'[c]) = r,
             call'[c].step = "present_and_fund", call'[c].phase \in {"landed", "failed"}
      PROVE  /\ call'[c].phase = "landed" => call'[c].offer \in made'
             /\ call'[c].phase = "failed" => call'[c].receipt.expiry <= day'
  <2>1. ~(Begun(c) /\ call[c] = Idle)
    BY <1>3, Beginning
  <2>2. Same(c)
    BY <1>3, <2>1, CallMoves
  <2>3. /\ call[c] # Idle /\ call[c] \in Running /\ RequestOf(call[c]) = r
        /\ call'[c].offer = call[c].offer /\ call'[c].receipt = call[c].receipt
    BY <1>3, <2>2, CallFields DEF Same, RequestOf
  <2>4. PICK p \in Verified[r] : p = call[c].receipt
    BY <2>3 DEF ReceiptsVerified
  <2>5. CASE call'[c] = call[c]
    <3>1. /\ call[c].phase = "landed" => call[c].offer \in made
          /\ call[c].phase = "failed" => p.expiry <= day
      BY <1>1, <1>3, <2>3, <2>4, <2>5 DEF Results
    <3>2. p.expiry <= day => p.expiry <= day'
      BY LentStays
    <3>3. QED
      BY <1>1, <2>4, <2>5, <3>1, <3>2
  <2>6. CASE WasTold(c)
    <3>1. PICK t \in net :
            /\ t.call = c /\ Waits(t)
            /\ \/ /\ Succeed(t)
                  /\ call'[c] = [call[c] EXCEPT !.phase = "landed"]
               \/ /\ Refuse(t)
                  /\ call'[c] = [call[c] EXCEPT !.phase = "failed"]
               \/ /\ Drop(t)
                  /\ call'[c] = [call[c] EXCEPT !.phase = "expired"]
      BY <2>6 DEF WasTold
    <3>2. /\ t.step = "present_and_fund" /\ RequestOf(t) = r
          /\ t.receipt = p /\ t.offer = call[c].offer
      BY <1>3, <2>3, <2>4, <3>1 DEF Waits, TransactionOf, RequestOf, Running
    <3>3. CASE Succeed(t) /\ call'[c] = [call[c] EXCEPT !.phase = "landed"]
      BY <2>3, <3>2, <3>3, PresentedIsMade DEF Running
    <3>4. CASE Refuse(t) /\ call'[c] = [call[c] EXCEPT !.phase = "failed"]
      <4>1. Lent(r, p)
        BY <3>2, <3>4, Refusal DEF Refuse
      <4>2. ~Settled(r)
        BY <1>1, <3>2 DEF Results
      <4>3. p.expiry <= day' /\ day' = day
        BY <3>4, <4>1, <4>2 DEF Lent, Refuse, chain
      <4>4. call'[c].phase # "landed"
        BY <2>3, <3>4 DEF Running
      <4>5. QED
        BY <2>3, <2>4, <4>3, <4>4
    <3>5. CASE Drop(t) /\ call'[c] = [call[c] EXCEPT !.phase = "expired"]
      BY <1>3, <2>3, <3>5 DEF Running
    <3>6. QED
      BY <3>1, <3>3, <3>4, <3>5
  <2>7. ~Checked(c) /\ ~TurnsSent(c)
    BY <1>3, <2>3 DEF Checked, TurnsSent, Running
  <2>8. ~Proceeded(c)
    BY <1>3, <2>3, ProceedIs DEF Proceeded
  <2>9. QED
    BY <1>3, <2>1, <2>5, <2>6, <2>7, <2>8, CallMoves
<1>4. QED
  BY <1>2, <1>3

LEMMA PrincipalStep ==
  ASSUME SettlementTypeOK, ReceiptsVerified, Covered, Covered', Escrows, Results,
         PrincipalExact, [Next]_vars
  PROVE  PrincipalExact'
<1> SUFFICES ASSUME NEW o \in Offer, NEW r \in Request, r = OfferRequest[o]
    PROVE  /\ o \in made' /\ r \notin short' => loan'[r].principal >= Principal(o)
           /\ o \in made' /\ r \notin short' /\ r \notin muddled' =>
                loan'[r].principal = Principal(o)
           /\ row'[o].status = "settled" /\ row'[o].receipt.expiry > day' /\ r \notin muddled'
                => o \in made'
  BY RowsAssumption DEF PrincipalExact, Principal
<1>a. muddled \subseteq muddled' /\ short \subseteq short' /\ made \subseteq made'
  BY HistoryGrows
<1>1. o \in made' /\ r \notin short' => loan'[r].principal >= Principal(o)
  BY DEF Covered, Principal
<1>2. ASSUME o \in made', r \notin short', r \notin muddled'
      PROVE  loan'[r].principal = Principal(o)
  <2>1. CASE o \in made
    <3>1. Settled(r) /\ loan[r].principal = Principal(o)
      BY <1>a, <1>2, <2>1 DEF Covered, PrincipalExact
    <3>2. QED
      BY <3>1, ChainLasts DEF Lasting
  <2>2. CASE o \notin made
    <3>1. PICK t \in net : Succeed(t) /\ t.step = "present_and_fund" /\ t.offer = o
      BY <1>2, <2>2, MadeWriters
    <3>2. RequestOf(t) = r
      BY <3>1 DEF RequestOf
    <3>3. Settled(r)' /\ ~Settled(r)
      BY <3>1, <3>2, PresentedIsMade
    <3>4. loan'[r].principal = vault[r]
      BY <3>3, LoansMade
    <3>5. vault[r] = Principal(o)
      BY <1>a, <1>2, <3>1, <3>2, <3>3 DEF Escrows, Exact
    <3>6. QED
      BY <3>4, <3>5
  <2>3. QED
    BY <2>1, <2>2
<1>3. ASSUME row'[o].status = "settled", row'[o].receipt.expiry > day', r \notin muddled'
      PROVE  o \in made'
  <2>1. day \in Int /\ day' \in Int /\ day <= day'
    BY ChainLasts, AmountsAssumption DEF Lasting, TypeOK, Day
  <2>2. CASE row[o].status = "settled" /\ row'[o] = row[o]
    <3>1. PICK p \in Verified[r] : p = row[o].receipt
      BY <2>2 DEF ReceiptsVerified, None
    <3>2. p.expiry \in Int
      BY ExpiryIsANumber
    <3>3. row[o].receipt.expiry > day
      BY <1>3, <2>1, <2>2, <3>1, <3>2
    <3>4. QED
      BY <1>a, <1>3, <2>2, <3>3 DEF PrincipalExact
  <2>3. ASSUME NEW c \in Call, Confirm(c), call[c].step = "present_and_fund",
               call[c].offer = o, row'[o].receipt = call[c].receipt
        PROVE  o \in made'
    <3>1. call[c] # Idle /\ RequestOf(call[c]) = r /\ call[c].phase \in {"landed", "failed"}
      BY <2>3 DEF Confirm, Idle, RequestOf
    <3>2. PICK p \in Verified[r] : p = call[c].receipt
      BY <3>1 DEF ReceiptsVerified
    <3>3. p.expiry \in Int
      BY ExpiryIsANumber
    <3>4. ~(p.expiry <= day)
      BY <1>3, <2>1, <2>3, <3>2, <3>3
    <3>5. call[c].phase = "landed"
      BY <1>a, <1>3, <2>3, <3>1, <3>2, <3>4 DEF Results
    <3>6. QED
      BY <1>a, <1>3, <2>3, <3>1, <3>5 DEF Results
  <2>4. QED
    BY <1>3, <2>2, <2>3, RowWriters
<1>4. QED
  BY <1>1, <1>2, <1>3

-----------------------------------------------------------------------------
(* The inductive invariant.                                                *)

SettlementInv ==
  /\ SettlementTypeOK /\ IInv
  /\ ReceiptsVerified /\ Preflighted /\ Told /\ SettledHasLoan /\ ReplayRefused
  /\ Serial /\ Covered /\ Escrows /\ Results /\ PrincipalExact

LEMMA SettlementInvInit == Init => SettlementInv
<1> SUFFICES ASSUME Init PROVE SettlementInv
  OBVIOUS
<1>1. IInv
  BY IInvInit DEF Init
<1>2. SettlementTypeOK
  BY <1>1 DEF Init, SettlementTypeOK, IInv
<1>3. \A r \in Request : ~Settled(r)
  BY DEF Init, EmptyChain, Settled, None
<1>4. /\ \A c \in Call : call[c] = Idle
      /\ net = {} /\ made = {} /\ configured = TRUE
      /\ \A o \in Offer : row[o] = None
      /\ \A o \in Offer : row[o].status # "settled" /\ replayed[o] # "succeeded"
  BY DEF Init, EmptyChain, None
<1>5. ReceiptsVerified /\ Preflighted /\ Told
  BY <1>3, <1>4 DEF ReceiptsVerified, Preflighted, Told
<1>6. SettledHasLoan /\ ReplayRefused
  BY <1>4 DEF SettledHasLoan, ReplayRefused
<1>7. Serial /\ Covered /\ Escrows /\ Results
  BY <1>3, <1>4 DEF Serial, Covered, Escrows, Results
<1>8. PrincipalExact
  BY <1>4 DEF PrincipalExact
<1>9. QED
  BY <1>1, <1>2, <1>5, <1>6, <1>7, <1>8 DEF SettlementInv

LEMMA SettlementInvStep == SettlementInv /\ [Next]_vars => SettlementInv'
<1> SUFFICES ASSUME SettlementInv, [Next]_vars PROVE SettlementInv'
  OBVIOUS
<1>a. /\ SettlementTypeOK /\ IInv /\ SpentByItsLoan
      /\ ReceiptsVerified /\ Preflighted /\ Told /\ SettledHasLoan /\ ReplayRefused
      /\ Serial /\ Covered /\ Escrows /\ Results /\ PrincipalExact
  BY DEF SettlementInv, IInv
<1>1. SettlementTypeOK'
  BY <1>a, SettlementTypeStep
<1>2. IInv'
  BY <1>a, ChainLasts, IInvStep
<1>3. ReceiptsVerified'
  BY <1>a, ReceiptsVerifiedStep
<1>4. Preflighted'
  BY <1>a, PreflightedStep
<1>5. Told'
  BY <1>a, ToldStep
<1>6. SettledHasLoan' /\ ReplayRefused'
  BY <1>a, RowsStep
<1>7. Serial'
  BY <1>a, SerialStep
<1>8. Covered'
  BY <1>a, CoveredStep
<1>9. Escrows'
  BY <1>a, EscrowsStep
<1>10. Results'
  BY <1>a, ResultsStep
<1>11. PrincipalExact'
  BY <1>a, <1>8, PrincipalStep
<1>12. QED
  BY <1>1, <1>2, <1>3, <1>4, <1>5, <1>6, <1>7, <1>8, <1>9, <1>10, <1>11 DEF SettlementInv

LEMMA SettlementAlways == Spec => []SettlementInv
  BY SettlementInvInit, SettlementInvStep, PTL DEF Spec

-----------------------------------------------------------------------------
(* Calls, transactions and rows are what the handlers can have written.    *)
THEOREM SettlementTypeCorrect == Spec => []SettlementTypeOK
  BY SettlementAlways, PTL DEF SettlementInv

(* Whatever the server does, the program sees only its own instructions:   *)
(* what is proved of them holds under any number of overlapping calls,     *)
(* lost and late transactions, resets and crashes.                         *)
THEOREM ServerOnlyInstructs == Spec => [][Instruction]_chain /\ []IInv
<1>1. SettlementInv /\ [Next]_vars => [Instruction]_chain
  BY ChainLasts DEF SettlementInv
<1>2. SettlementInv => IInv
  BY DEF SettlementInv
<1> QED
  BY <1>1, <1>2, SettlementAlways, PTL DEF Spec

(* Under any calls, tokens leave a vault once, as the principal of the     *)
(* loan of its request.                                                    *)
THEOREM SettlementPaysOnce == Spec => VaultPaysItsLoanOnce
<1>1. SettlementInv /\ [Next]_vars => [Paid]_chain
  BY ChainLasts, PaidStep DEF SettlementInv
<1> QED
  BY <1>1, SettlementAlways, PTL DEF Spec, VaultPaysItsLoanOnce, Paid

(* A settled row has a loan of its request behind it, or the receipt it    *)
(* was settled with expired: nothing else can make the server record what  *)
(* did not happen, although it never looks at the outcome of a transaction. *)
THEOREM SettledRowsHaveLoans == Spec => []SettledHasLoan
  BY SettlementAlways, PTL DEF SettlementInv

(* The replay of a settled row goes through only where a receipt of the    *)
(* request expired and another one is presented.                           *)
THEOREM ReplaysAreRefused == Spec => []ReplayRefused
  BY SettlementAlways, PTL DEF SettlementInv

(* A loan is worth at least the offer it was made for, unless the escrow   *)
(* was refused on chain, and exactly that, of the offer whose row says so, *)
(* for every request settled by one call after the other, beside no        *)
(* transaction of an earlier call, from a vault that could be read and     *)
(* that no earlier call had filled further.                                *)
THEOREM PrincipalIsOffered == Spec => []PrincipalExact
  BY SettlementAlways, PTL DEF SettlementInv

=============================================================================
