------------------------------ MODULE Receipts ------------------------------
(***************************************************************************)
(* What a receipt goes through between the prover and the two verifiers:   *)
(* the named public signals, the ordered array snarkjs proves and checks,  *)
(* the checks the backend makes before the pairing (store.ts, verifier.ts) *)
(* and the encoding the program reads (proofBytes.ts).                     *)
(*                                                                         *)
(* A signal is a number of at most one limb; numbers that differ by a      *)
(* multiple of FieldModulus are one field element, so a receipt can name   *)
(* one value in two ways. A proof is the statement it proves, the key it   *)
(* was made under, the sign of its point A, the coordinate order of B and  *)
(* how its coordinates are written: the parts the conversions change or    *)
(* refuse. The y of A is left out of the last: negating it reduces it.     *)
(***************************************************************************)
EXTENDS Integers, Sequences

CONSTANTS
  Order,         \* signal_layout.json: the signals in the circuit's order
  FieldModulus,  \* r of BN254
  Limb           \* 2^256: what 32 bytes hold

ASSUME ReceiptsAssumption ==
  /\ FieldModulus \in Nat /\ Limb \in Nat /\ 1 < FieldModulus /\ FieldModulus < Limb
  /\ Order \in Seq(STRING)
  /\ \A i, j \in DOMAIN Order : Order[i] = Order[j] => i = j

Signal == {Order[i] : i \in DOMAIN Order}
Numeral == 0 .. Limb - 1
Element == 0 .. FieldModulus - 1

(* A coordinate is written as a number below the modulus of its field, as  *)
(* a larger one that 32 bytes still hold, or as one they do not hold.      *)
Writing == {"reduced", "unreduced", "unfit"}

(* One signal, as the named object and as the array carry it.              *)
EncodeSignal(name, value) ==
  IF name = "eligible" THEN (IF value THEN 1 ELSE 0) ELSE value
DecodeSignal(name, raw) == IF name = "eligible" THEN raw = 1 ELSE raw

(* The generated signalLayout.ts, which also refuses an eligible that is   *)
(* no bit, and verifier.ts's encoder over the same order.                  *)
Decodable(array) ==
  /\ Len(array) = Len(Order)
  /\ \A i \in DOMAIN Order : Order[i] = "eligible" => array[i] \in {0, 1}
DecodePublicSignals(array) ==
  [name \in Signal |->
     DecodeSignal(name, array[CHOOSE i \in DOMAIN Order : Order[i] = name])]
EncodePublicSignals(named) ==
  [i \in DOMAIN Order |-> EncodeSignal(Order[i], named[Order[i]])]

(* toField, and what a hash is reduced by.                                 *)
ToField(n) == n % FieldModulus
Statement(array) == [i \in DOMAIN array |-> ToField(array[i])]

-----------------------------------------------------------------------------
(* The backend's side.                                                     *)

(* assertHexField: reduced already, never reduced here.                    *)
AssertHexField(n) == n < FieldModulus
AssertPublicSignals(named) ==
  \A name \in Signal : name # "eligible" => AssertHexField(named[name])

ParseProofPayload(proof) == proof.protocol = "groth16" /\ proof.curve = "bn128"

CheckSignalOrder(array, named) == array = EncodePublicSignals(named)

(* snarkjs reduces what it is given, and so does not tell two names of one *)
(* element apart, nor two writings of one coordinate.                      *)
SnarkjsVerify(key, array, proof) ==
  /\ proof.key = key /\ proof.a = "plus" /\ proof.b = "c0c1"
  /\ proof.statement = Statement(array)

-----------------------------------------------------------------------------
(* The encoding for the program.                                           *)
AsIs(sign) == sign
Negated(sign) == IF sign = "plus" THEN "minus" ELSE "plus"
Swapped(limbs) == IF limbs = "c0c1" THEN "c1c0" ELSE "c0c1"

(* toSolanaProof throws where a number does not fit 32 bytes, or a signal  *)
(* is not reduced.                                                         *)
Encodable(proof, array) ==
  /\ ParseProofPayload(proof)
  /\ proof.written # "unfit"
  /\ \A i \in DOMAIN array : array[i] < FieldModulus
ToSolanaProof(proof, array) ==
  [key |-> proof.key, statement |-> proof.statement,
   a |-> Negated(proof.a), b |-> Swapped(proof.b), written |-> proof.written,
   signals |-> array]

(* groth16-solana: A negated, c1 before c0, every number reduced.          *)
ProgramVerifies(key, bytes) ==
  /\ bytes.key = key /\ bytes.a = "minus" /\ bytes.b = "c1c0"
  /\ bytes.written = "reduced"
  /\ Len(bytes.signals) = Len(Order)
  /\ \A i \in DOMAIN bytes.signals : bytes.signals[i] < FieldModulus
  /\ bytes.signals = bytes.statement
=============================================================================
