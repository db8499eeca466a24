-------------------------- MODULE CreditLifecycle --------------------------
(***************************************************************************)
(* What the marketplace promises about one credit request, without         *)
(* challenges, proofs, offers or nullifiers: a request is listed, may be   *)
(* backed by a receipt that was checked, is closed by its owner or lent    *)
(* against at most once and only when backed, and the loan then moves      *)
(* forward until it is repaid.  Forgetting is the loss of the in-memory    *)
(* store, the one step that ends every credit.                             *)
(*                                                                         *)
(* Marketplace implements this specification (MarketplaceRefinement).      *)
(***************************************************************************)
CONSTANT Credit

VARIABLES stage, backed

lifecycleVars == <<stage, backed>>

Move(r, from, to) ==
  /\ stage[r] \in from
  /\ stage' = [stage EXCEPT ![r] = to]
  /\ UNCHANGED backed

List(r) == Move(r, {"none"}, "listed")
Close(r) == Move(r, {"listed"}, "closed")
Lend(r) == r \in backed /\ Move(r, {"listed"}, "lent")
Draw(r) == Move(r, {"lent"}, "drawn")
CallDue(r) == Move(r, {"drawn"}, "due")
Repay(r) == Move(r, {"drawn", "due"}, "repaid")

Back(r) ==
  /\ stage[r] \notin {"none", "forgotten"}
  /\ backed' = backed \cup {r}
  /\ UNCHANGED stage

Forget ==
  /\ stage' = [r \in Credit |-> IF stage[r] = "none" THEN "none" ELSE "forgotten"]
  /\ backed' = {}

Init == stage = [r \in Credit |-> "none"] /\ backed = {}

Next ==
  \/ \E r \in Credit : \/ List(r) \/ Close(r) \/ Back(r) \/ Lend(r)
                       \/ Draw(r) \/ CallDue(r) \/ Repay(r)
  \/ Forget

Spec == Init /\ [][Next]_lifecycleVars

=============================================================================
