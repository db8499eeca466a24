----------------------------- MODULE MCPassport -----------------------------
(* Instances of Passport for TLC: two endpoints of which the second does   *)
(* not serve token accounts, and histories that end each branch of a scan  *)
(* of two pages of two signatures with a horizon of three months.          *)
EXTENDS Passport

CONSTANTS a1, a2

Methods == {"getBalance", "getTokenAccountsByOwner", "getSignaturesForAddress"}
SecondBlocksTokens == Endpoint \X Methods \ {<<1, "getTokenAccountsByOwner">>}

Holdings ==
  [a \in Address |->
     [assets |-> IF a = a1 THEN 1 ELSE 0, collateralQuality |-> IF a = a1 THEN 1 ELSE 0,
      restrictedExposure |-> a = a2]]

EveryEnding ==
  [a \in Address |-> IF a = a1 THEN {<<0, 1, 2>>, <<0, 3, 4, 4, 5>>} ELSE {<<>>}]
OneHistory == [a \in Address |-> {<<>>}]

=============================================================================
