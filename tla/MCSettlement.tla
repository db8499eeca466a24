---------------------------- MODULE MCSettlement ----------------------------
(* Instances of Settlement for TLC: every request has one receipt, which   *)
(* expires when the clock first moves, and one payout address of its own;  *)
(* requests, passports and payout addresses are matched by number.  The    *)
(* lender has three tokens, the two offers on one request are worth one    *)
(* and two.                                                                *)
EXTENDS Settlement, TLC

CONSTANTS r1, r2, w1, w2, a1, a2, y1, v1, o1, o2

PassportOf == r1 :> w1 @@ r2 :> w2
PayoutOf == r1 :> a1 @@ r2 :> a2
ReceiptOf(r) == [passport |-> PassportOf[r], policy |-> y1, verifier |-> v1, expiry |-> 1]

AllQualify == Passport \X Policy
SupplyThree == [k \in Key |-> IF k = LenderKey THEN 3 ELSE 0]
BothOnFirst == [o \in Offer |-> r1]
One == [o \in Offer |-> 1]
OneTwo == [o \in Offer |-> IF o = o1 THEN 1 ELSE 2]
BorrowedOne == [r \in Request |-> 1]
VerifiedOne == [r \in Request |-> {ReceiptOf(r)}]
AnnouncedOne == [r \in Request |-> {PayoutOf[r]}]
CallSymmetry == Permutations(Call) \cup Permutations(Payout)
=============================================================================
