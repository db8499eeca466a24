-------------------------- MODULE MCPrivateCredit --------------------------
(* Instances of PrivateCredit for TLC.  A key starts with one of each mint,*)
(* and the bases are 1 so that such small amounts bear interest and fees.  *)
(* One passport qualifies, under the policies of two verifiers, so that    *)
(* two receipts can pay for two requests.                                  *)
EXTENDS PrivateCredit, TLC

OneEach == [k \in Key |-> 1]
Alike == Permutations(Key) \cup Permutations(Mint) \cup Permutations(Request)
  \cup Permutations(Verifier)
OneQualifies == {<<CHOOSE w \in Passport : TRUE, y>> : y \in Policy}

=============================================================================
