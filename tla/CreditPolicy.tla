---------------------------- MODULE CreditPolicy ----------------------------
(***************************************************************************)
(* The four underwriting comparisons, twice: as evaluatePolicy makes them  *)
(* over the applicant's snapshot (backend/src/protocol/policy.ts and its   *)
(* mirror frontend/src/shared/policy.ts), and as the circuit makes them    *)
(* over the committed inputs (zk/circuits/credit_policy.circom, inputs by  *)
(* frontend/src/borrower/buildProofInput.ts).  Ranges stand for 2^bits.    *)
(***************************************************************************)
EXTENDS Integers

CONSTANTS
  AmountRange,   \* 2^AMOUNT_BITS
  QualityRange,  \* 2^QUALITY_BITS
  MonthRange,    \* 2^MONTH_BITS
  Percent        \* 100

ASSUME RangeAssumption ==
  /\ AmountRange \in Nat \ {0} /\ MonthRange \in Nat \ {0}
  /\ QualityRange \in Nat /\ Percent \in Nat /\ Percent < QualityRange

(* historyMonths is null: the bounded scan could not establish it.         *)
Unknown == -1

Witness ==
  [assets : 0 .. AmountRange - 1, collateralQuality : 0 .. Percent,
   historyMonths : {Unknown} \cup 0 .. MonthRange - 1, restrictedExposure : BOOLEAN]
LendingPolicy ==
  [minimumAssets : 0 .. AmountRange - 1, minimumCollateralQuality : 0 .. Percent,
   minimumHistoryMonths : 0 .. MonthRange - 1, screenRestrictedExposure : BOOLEAN]

-----------------------------------------------------------------------------
AssetsPass(w, p) == w.assets >= p.minimumAssets
QualityPasses(w, p) == w.collateralQuality >= p.minimumCollateralQuality
HistoryPasses(w, p) ==
  \/ p.minimumHistoryMonths = 0
  \/ w.historyMonths # Unknown /\ w.historyMonths >= p.minimumHistoryMonths
ExposurePasses(w, p) == ~p.screenRestrictedExposure \/ ~w.restrictedExposure

(* evaluatePolicy and isEligible                                           *)
Eligible(w, p) ==
  AssetsPass(w, p) /\ QualityPasses(w, p) /\ HistoryPasses(w, p) /\ ExposurePasses(w, p)

-----------------------------------------------------------------------------
(* The circuit.                                                            *)

Bit(b) == IF b THEN 1 ELSE 0

CommittedMonths(months) == IF months = Unknown THEN 0 ELSE months

CircuitInput(w, p) ==
  [assets |-> w.assets, collateralQuality |-> w.collateralQuality,
   historyMonths |-> CommittedMonths(w.historyMonths),
   restrictedExposure |-> Bit(w.restrictedExposure),
   minAssets |-> p.minimumAssets, minCollateralQuality |-> p.minimumCollateralQuality,
   minHistoryMonths |-> p.minimumHistoryMonths,
   screenExposure |-> Bit(p.screenRestrictedExposure)]

(* Num2Bits(n): the constraint that x fits in n bits.                      *)
Fits(x, range) == 0 <= x /\ x < range

(* GreaterEqThan(n): bit n of 2^n + b - (a + 1), complemented; b and a are *)
(* below 2^n, and range is 2^n.                                            *)
GreaterEqThan(range, a, b) == IF range + b - (a + 1) >= range THEN 0 ELSE 1

(* The constraints: without a satisfying assignment there is no proof.     *)
Satisfiable(i) ==
  /\ Fits(i.assets, AmountRange) /\ Fits(i.minAssets, AmountRange)
  /\ Fits(i.collateralQuality, QualityRange) /\ Fits(i.minCollateralQuality, QualityRange)
  /\ Fits(i.historyMonths, MonthRange) /\ Fits(i.minHistoryMonths, MonthRange)
  /\ GreaterEqThan(2 * QualityRange, Percent, i.collateralQuality) = 1
  /\ GreaterEqThan(2 * QualityRange, Percent, i.minCollateralQuality) = 1
  /\ i.restrictedExposure * (i.restrictedExposure - 1) = 0
  /\ i.screenExposure * (i.screenExposure - 1) = 0

(* The output bit eligible.                                                *)
EligibleBit(i) ==
  LET assetsOk == GreaterEqThan(2 * AmountRange, i.assets, i.minAssets)
      qualityOk == GreaterEqThan(2 * QualityRange, i.collateralQuality,
                                 i.minCollateralQuality)
      historyOk == GreaterEqThan(2 * MonthRange, i.historyMonths, i.minHistoryMonths)
      exposureOk == 1 - i.screenExposure * i.restrictedExposure IN
  (assetsOk * qualityOk) * (historyOk * exposureOk)

=============================================================================
