----------------------- MODULE MarketplaceRefinement -----------------------
(* Marketplace implements CreditLifecycle.                                 *)
EXTENDS Marketplace

(* A request is backed once a sound, eligible receipt for it holds its     *)
(* nullifier.                                                              *)
Backing(r) == {p \in ProofsOn(r) : Eligible(p) /\ nullifiers[NullifierOf(p)] = p}

LoanStage == [funded |-> "lent", active |-> "drawn", repayment_due |-> "due",
              repaid |-> "repaid"]
RequestStage == [none |-> "none", wiped |-> "forgotten", withdrawn |-> "closed",
                 open |-> "listed", challenged |-> "listed", proven |-> "listed",
                 funded |-> "listed", accepted |-> "listed"]

StageOf(r) ==
  IF LoansOn(r) = {} THEN RequestStage[requests[r].status]
  ELSE LoanStage[loans[CHOOSE n \in LoansOn(r) : TRUE].status]

Lifecycle == INSTANCE CreditLifecycle WITH
  Credit <- RequestId,
  stage  <- [r \in RequestId |-> StageOf(r)],
  backed <- {r \in RequestId : Backing(r) # {}}

(* Every step of every borrower, lender and of the server is a step of     *)
(* CreditLifecycle or leaves it alone: the many rows and the await inside  *)
(* the verify handler never let a credit be lent twice, lent unbacked, lent*)
(* after its owner closed it, or repaid before it was drawn.               *)
ImplementsCreditLifecycle == Lifecycle!Spec

=============================================================================
