--------------------------- MODULE PassportProofs ---------------------------
(***************************************************************************)
(* Theorems about the passport and the policy it is judged by.             *)
(*                                                                         *)
(* The circuit and evaluatePolicy agree, for every width of the range      *)
(* checks: each comparator is right on inputs that passed them, so the     *)
(* four factors of the eligible bit are the four rows of the screen.       *)
(*                                                                         *)
(* What is served never overstates an age and is never stale, for any      *)
(* number of builds, endpoints, addresses and requests, any page size, cap *)
(* and horizon, and any history on chain.                                  *)
(***************************************************************************)
EXTENDS Passport, WellFoundedInduction, TLAPS

-----------------------------------------------------------------------------
(* The circuit.                                                            *)

(* A comparator one bit wider than its inputs compares them: circomlib's   *)
(* GreaterEqThan is 1 exactly when its first input is not the smaller one. *)
LEMMA ComparatorRight ==
  ASSUME NEW range \in Nat, NEW a \in Nat, NEW b \in Nat, a < range, b < range
  PROVE  /\ a >= b => GreaterEqThan(2 * range, a, b) = 1
         /\ ~(a >= b) => GreaterEqThan(2 * range, a, b) = 0
BY DEF GreaterEqThan

(* The product of bits is the bit of the conjunction.                      *)
LEMMA BitProduct ==
  ASSUME NEW a \in {0, 1}, NEW b \in {0, 1}, NEW c \in {0, 1}, NEW d \in {0, 1}
  PROVE  /\ (a * b) * (c * d) \in {0, 1}
         /\ (a * b) * (c * d) = 1 <=> a = 1 /\ b = 1 /\ c = 1 /\ d = 1
<1>1. a * b \in {0, 1} /\ (a * b = 1 <=> a = 1 /\ b = 1)
  OBVIOUS
<1>2. c * d \in {0, 1} /\ (c * d = 1 <=> c = 1 /\ d = 1)
  OBVIOUS
<1>3. ASSUME NEW x \in {0, 1}, NEW y \in {0, 1}
      PROVE  x * y \in {0, 1} /\ (x * y = 1 <=> x = 1 /\ y = 1)
  OBVIOUS
<1> QED
  BY <1>1, <1>2, <1>3

(* Every snapshot the passport reader can build and every policy in range  *)
(* has a proof: an applicant is never stuck without one, eligible or not.  *)
THEOREM EveryoneCanProve ==
  ASSUME NEW w \in Witness, NEW p \in LendingPolicy
  PROVE  Satisfiable(CircuitInput(w, p))
<1> DEFINE i == CircuitInput(w, p)
<1>1. /\ Fits(i.assets, AmountRange) /\ Fits(i.minAssets, AmountRange)
      /\ Fits(i.collateralQuality, QualityRange) /\ Fits(i.minCollateralQuality, QualityRange)
      /\ Fits(i.historyMonths, MonthRange) /\ Fits(i.minHistoryMonths, MonthRange)
  BY RangeAssumption
  DEF Witness, LendingPolicy, CircuitInput, Fits, CommittedMonths, Unknown
<1>2. /\ GreaterEqThan(2 * QualityRange, Percent, i.collateralQuality) = 1
      /\ GreaterEqThan(2 * QualityRange, Percent, i.minCollateralQuality) = 1
  <2>1. i.collateralQuality \in 0 .. Percent /\ i.minCollateralQuality \in 0 .. Percent
    BY DEF Witness, LendingPolicy, CircuitInput
  <2> QED
    BY <2>1, RangeAssumption, ComparatorRight
<1>3. i.restrictedExposure \in {0, 1} /\ i.screenExposure \in {0, 1}
  BY DEF CircuitInput, Bit
<1> QED
  BY <1>1, <1>2, <1>3 DEF Satisfiable

(* The eligible bit the circuit puts into the receipt is the conjunction   *)
(* of the four comparisons the applicant's screen shows; an unknown        *)
(* history, committed as 0, passes only where no history is asked for.     *)
THEOREM CircuitAgrees ==
  ASSUME NEW w \in Witness, NEW p \in LendingPolicy
  PROVE  EligibleBit(CircuitInput(w, p)) = 1 <=> Eligible(w, p)
<1> DEFINE i == CircuitInput(w, p)
<1> DEFINE assetsOk == GreaterEqThan(2 * AmountRange, i.assets, i.minAssets)
<1> DEFINE qualityOk == GreaterEqThan(2 * QualityRange, i.collateralQuality,
                                      i.minCollateralQuality)
<1> DEFINE historyOk == GreaterEqThan(2 * MonthRange, i.historyMonths, i.minHistoryMonths)
<1> DEFINE exposureOk == 1 - i.screenExposure * i.restrictedExposure
<1>1. assetsOk \in {0, 1} /\ (assetsOk = 1 <=> AssetsPass(w, p))
  <2>1. /\ i.assets \in Nat /\ i.assets < AmountRange /\ i.assets = w.assets
        /\ i.minAssets \in Nat /\ i.minAssets < AmountRange /\ i.minAssets = p.minimumAssets
    BY RangeAssumption DEF Witness, LendingPolicy, CircuitInput
  <2> QED
    BY <2>1, RangeAssumption, ComparatorRight DEF AssetsPass
<1>2. qualityOk \in {0, 1} /\ (qualityOk = 1 <=> QualityPasses(w, p))
  <2>1. /\ i.collateralQuality \in Nat /\ i.collateralQuality < QualityRange
        /\ i.collateralQuality = w.collateralQuality
        /\ i.minCollateralQuality \in Nat /\ i.minCollateralQuality < QualityRange
        /\ i.minCollateralQuality = p.minimumCollateralQuality
    BY RangeAssumption DEF Witness, LendingPolicy, CircuitInput
  <2> QED
    BY <2>1, RangeAssumption, ComparatorRight DEF QualityPasses
<1>3. historyOk \in {0, 1} /\ (historyOk = 1 <=> HistoryPasses(w, p))
  <2>1. /\ i.historyMonths \in Nat /\ i.historyMonths < MonthRange
        /\ i.historyMonths = (IF w.historyMonths = Unknown THEN 0 ELSE w.historyMonths)
        /\ i.minHistoryMonths \in Nat /\ i.minHistoryMonths < MonthRange
        /\ i.minHistoryMonths = p.minimumHistoryMonths
    BY RangeAssumption
    DEF Witness, LendingPolicy, CircuitInput, CommittedMonths, Unknown
  <2>2. historyOk \in {0, 1} /\ (historyOk = 1 <=> i.historyMonths >= i.minHistoryMonths)
    BY <2>1, RangeAssumption, ComparatorRight
  <2>3. i.historyMonths >= i.minHistoryMonths <=> HistoryPasses(w, p)
    BY <2>1 DEF HistoryPasses, Unknown
  <2> QED
    BY <2>2, <2>3
<1>4. exposureOk \in {0, 1} /\ (exposureOk = 1 <=> ExposurePasses(w, p))
  BY DEF Witness, LendingPolicy, CircuitInput, Bit, ExposurePasses
<1>5. EligibleBit(i) = (assetsOk * qualityOk) * (historyOk * exposureOk)
  BY DEF EligibleBit
<1> HIDE DEF assetsOk, qualityOk, historyOk, exposureOk
<1> QED
  BY <1>1, <1>2, <1>3, <1>4, <1>5, BitProduct DEF Eligible

(* Whatever its inputs, a comparator gives a bit, and 1 only if it holds.  *)
LEMMA ComparatorBit ==
  ASSUME NEW range, NEW a, NEW b
  PROVE  GreaterEqThan(range, a, b) \in {0, 1}
  BY DEF GreaterEqThan

LEMMA ComparatorSound ==
  ASSUME NEW range \in Int, NEW a \in Int, NEW b \in Int, GreaterEqThan(range, a, b) = 1
  PROVE  a >= b
  BY DEF GreaterEqThan

(* The history comparison of a proof that says eligible held.              *)
LEMMA EligibleIsOldEnough ==
  ASSUME NEW i, i.historyMonths \in Int, i.minHistoryMonths \in Int,
         i.screenExposure \in {0, 1}, i.restrictedExposure \in {0, 1}, EligibleBit(i) = 1
  PROVE  i.historyMonths >= i.minHistoryMonths
<1> DEFINE assetsOk == GreaterEqThan(2 * AmountRange, i.assets, i.minAssets)
<1> DEFINE qualityOk == GreaterEqThan(2 * QualityRange, i.collateralQuality,
                                      i.minCollateralQuality)
<1> DEFINE historyOk == GreaterEqThan(2 * MonthRange, i.historyMonths, i.minHistoryMonths)
<1> DEFINE exposureOk == 1 - i.screenExposure * i.restrictedExposure
<1>1. assetsOk \in {0, 1} /\ qualityOk \in {0, 1} /\ historyOk \in {0, 1}
  BY ComparatorBit
<1>2. exposureOk \in {0, 1}
  OBVIOUS
<1>3. (assetsOk * qualityOk) * (historyOk * exposureOk) = 1
  BY DEF EligibleBit
<1>4. historyOk = 1
  <2> HIDE DEF assetsOk, qualityOk, historyOk, exposureOk
  <2> QED
    BY <1>1, <1>2, <1>3, BitProduct
<1> QED
  BY <1>4, RangeAssumption, ComparatorSound

-----------------------------------------------------------------------------
(* Ages.                                                                   *)

(* A set of integers with an upper bound has a greatest element.           *)
LEMMA MaxOfBounded ==
  ASSUME NEW S, S \subseteq Int, S # {}, NEW top \in Int, \A x \in S : x <= top
  PROVE  Max(S) \in S /\ \A x \in S : Max(S) >= x
<1> DEFINE T == {top - x : x \in S}
<1>1. T \subseteq Nat /\ T # {}
  OBVIOUS
<1> DEFINE R == {p \in Nat \X Nat : p[1] < p[2]}
<1>a. IsWellFoundedOn(R, Nat)
  BY NatLessThanWellFounded DEF OpToRel
<1>2. PICK d \in T : \A e \in T : ~ (<<e, d>> \in R)
  <2> HIDE DEF R, T
  <2> QED
    BY <1>1, <1>a, WFMin
<1>3. \A e \in T : e >= d
  <2>1. \A e \in T : e \in Nat /\ d \in Nat
    BY <1>1, <1>2
  <2>2. \A e \in T : ~ (<<e, d>>[1] < <<e, d>>[2])
    BY <1>2, <2>1
  <2> HIDE DEF R, T
  <2> QED
    BY <2>1, <2>2
<1>4. PICK m \in S : d = top - m
  BY <1>2
<1>5. \A x \in S : m >= x
  <2>1. ASSUME NEW x \in S PROVE m >= x
    <3>1. top - x \in T
      OBVIOUS
    <3>2. top - x >= top - m
      BY <1>3, <1>4, <3>1
    <3> QED
      BY <3>2
  <2> QED
    BY <2>1
<1>6. \E m1 \in S : \A x \in S : m1 >= x
  BY <1>5
<1> QED
  BY <1>6 DEF Max

-----------------------------------------------------------------------------
(* The invariants.                                                         *)

RequestsAre == request = [r \in Request |-> request[r]]

(* The chain's histories are of the kind assumed.                          *)
Past == \A a \in Address : history[a] \in Histories[a]

(* What a build may carry: prices young enough when it began, no month too *)
(* many.                                                                   *)
Sound(s) ==
  /\ s.started <= now
  /\ s.priced # Never => s.started < s.priced + PriceTtl
  /\ s.oldest <= AgeOf(s.address)
Building == \A b \in Querier : build[b] # NoBuild => Sound(build[b])

(* What a passport may say.                                                *)
Honest(p) ==
  /\ p.priced # Never => p.started < p.priced + PriceTtl
  /\ p.historyMonths <= AgeOf(p.address)
Cached == \A a \in Address : cache[a] # NoEntry => cache[a].address = a /\ Honest(cache[a])

IInv == TypeOK /\ RequestsAre /\ Past /\ Building /\ Cached

(* The steps of a build are told from none.                                *)
LEMMA BuildingNow ==
  ASSUME TypeOK, NEW b \in Querier, build[b].step # "none"
  PROVE  build[b] \in BuildState
  BY DEF TypeOK, NoBuild

LEMMA SnapshotIsBuild == NoBuild \notin BuildState
  BY DEF NoBuild, BuildState, Step

(* Ages of an address: natural numbers, the last signature the oldest.     *)
LEMMA AgeType ==
  ASSUME Past, NEW a \in Address
  PROVE  /\ history[a] \in Seq(Nat)
         /\ AgeOf(a) \in Nat
         /\ \A k \in DOMAIN history[a] : history[a][k] \in Nat /\ history[a][k] <= AgeOf(a)
<1> DEFINE h == history[a]
<1>1. h \in Seq(Nat) /\ \A i, j \in 1 .. Len(h) : i <= j => h[i] <= h[j]
  BY PassportAssumption DEF Past
<1> HIDE DEF h
<1>2. DOMAIN h = 1 .. Len(h) /\ Len(h) \in Nat /\ \A k \in 1 .. Len(h) : h[k] \in Nat
  BY <1>1
<1>3. CASE h = <<>>
  BY <1>1, <1>2, <1>3 DEF AgeOf, h
<1>4. CASE h # <<>>
  <2>1. Len(h) \in 1 .. Len(h)
    BY <1>1, <1>4
  <2>2. AgeOf(a) = h[Len(h)]
    BY <1>4 DEF AgeOf, h
  <2>3. \A k \in 1 .. Len(h) : h[k] <= h[Len(h)]
    BY <1>1, <2>1
  <2> QED
    BY <1>1, <1>2, <2>1, <2>2, <2>3 DEF h
<1> QED
  BY <1>3, <1>4

(* A page raises the greatest age seen, and never above the account's.     *)
LEMMA PageAge ==
  ASSUME IInv, NEW b \in Querier, build[b] \in BuildState, NEW garbled
  PROVE  LET oldest == Max(UsableAges(b, garbled) \cup {build[b].oldest}) IN
         oldest \in Months /\ oldest <= AgeOf(build[b].address)
<1> DEFINE S == UsableAges(b, garbled) \cup {build[b].oldest}
           a == build[b].address
<1>1. a \in Address /\ build[b].oldest \in Months
  BY DEF BuildState
<1>2. AgeOf(a) \in Nat /\
      \A k \in DOMAIN history[a] : history[a][k] \in Nat /\ history[a][k] <= AgeOf(a)
  BY <1>1, AgeType DEF IInv
<1>3. build[b].oldest <= AgeOf(a)
  BY SnapshotIsBuild DEF IInv, Building, Sound
<1>4. \A x \in UsableAges(b, garbled) : x \in Nat /\ x <= AgeOf(a)
  BY <1>2 DEF UsableAges, Positions
<1>5. S \subseteq Months /\ S # {} /\ \A x \in S : x <= AgeOf(a)
  BY <1>1, <1>3, <1>4 DEF Months
<1>6. Months \subseteq Int
  BY DEF Months, Unknown
<1> HIDE DEF S, a
<1>7. Max(S) \in S
  <2>1. S \subseteq Int /\ S # {} /\ \A x \in S : x <= AgeOf(a)
    BY <1>5, <1>6
  <2>2. AgeOf(a) \in Int
    BY <1>2
  <2> QED
    BY <2>1, <2>2, MaxOfBounded
<1> QED
  BY <1>5, <1>7 DEF S, a

-----------------------------------------------------------------------------
(* Types of the client.                                                    *)

LEMMA ModType ==
  ASSUME NEW x \in Nat, NEW n \in Nat \ {0}
  PROVE  x % n \in 0 .. n - 1
  OBVIOUS

LEMMA EndpointType ==
  ASSUME RpcTypeOK, NEW n \in Nat
  PROVE  EndpointAt(n) \in Endpoint
<1>1. preferred \in Nat /\ Endpoints \in Nat \ {0}
  BY RpcAssumption DEF RpcTypeOK, Endpoint
<1>2. preferred + n \in Nat
  BY <1>1
<1>3. (preferred + n) % Endpoints \in 0 .. Endpoints - 1
  BY <1>1, <1>2, ModType
<1> QED
  BY <1>3 DEF Endpoint, EndpointAt

LEMMA FirstAttemptType ==
  ASSUME NEW m \in Method, NEW i \in Endpoint
  PROVE  FirstAttempt(m, i) \in Query
<1>1. 0 \in Endpoint
  BY RpcAssumption DEF Endpoint
<1> QED
  BY <1>1 DEF FirstAttempt, Query

LEMMA MethodType ==
  ASSUME NEW step \in Step, step # "prices"
  PROVE  MethodOf[step] \in Method
  BY PassportAssumption DEF MethodOf, Step

LEMMA RollOverType ==
  ASSUME RpcTypeOK, NEW q \in Querier, RollOver(q)
  PROVE  RpcTypeOK'
<1>1. query[q] \in Query
  BY DEF RollOver, AttemptFails, Asking, RpcTypeOK
<1> DEFINE next == Following(query[q].attempt)
<1>2. next \in Endpoint
  BY <1>1, RpcAssumption DEF RollOver, HasNext, Following, Query, Endpoint
<1>3. EndpointAt(next) \in Endpoint
  BY <1>2, EndpointType DEF Endpoint
<1> DEFINE after == [method |-> query[q].method, attempt |-> next, index |-> EndpointAt(next),
                     asked |-> query[q].asked \cup {EndpointAt(next)}]
<1>4. after \in Query
  <2> HIDE DEF next
  <2> QED
    BY <1>1, <1>2, <1>3 DEF Query
<1>5. query' = [query EXCEPT ![q] = after]
  BY DEF RollOver
<1>6. query' \in [Querier -> Query \cup {NoQuery}]
  <2> HIDE DEF after
  <2> QED
    BY <1>4, <1>5 DEF RpcTypeOK
<1>7. faults' \in 0 .. MaxFaults /\ preferred' \in Endpoint
  BY RpcAssumption DEF RollOver, AttemptFails, RpcTypeOK
<1> QED
  BY <1>6, <1>7 DEF RpcTypeOK

LEMMA AnswersType ==
  ASSUME RpcTypeOK, NEW q \in Querier, Answers(q)
  PROVE  preferred' \in Endpoint /\ faults' \in 0 .. MaxFaults
  BY DEF Answers, Asking, RpcTypeOK, Query

-----------------------------------------------------------------------------
(* The steps of a build.                                                   *)

Outcome(x) ==
  \/ x \in {Idle, [phase |-> "refused"]}
  \/ x \in {Waiting(b) : b \in Querier}
  \/ x \in {Failed(why) : why \in {"exhausted", "error", "prices"}}
  \/ x.phase = "answered" /\ x.passport \in PassportResponse

LEMMA SettleType ==
  ASSUME TypeOK, RequestsAre, NEW r \in Request, NEW x, Outcome(x), Settle(r, x)
  PROVE  RequestsAre' /\ \A q \in Request : Outcome(request'[q])
<1>1. \A q \in Request : Outcome(request[q])
  BY DEF TypeOK, Outcome
<1>2. request' = [request EXCEPT ![r] = x]
  BY DEF Settle
<1>3. DOMAIN request' = Request
  BY <1>2 DEF RequestsAre
<1>4. request' = [q \in Request |-> request'[q]]
  BY <1>2, <1>3 DEF RequestsAre
<1>5. \A q \in Request : request'[q] = x \/ request'[q] = request[q]
  BY <1>2 DEF RequestsAre
<1> QED
  BY <1>1, <1>4, <1>5 DEF RequestsAre

LEMMA ResumeType ==
  ASSUME TypeOK, RequestsAre, NEW b \in Querier, NEW x, Outcome(x), Resume(b, x)
  PROVE  RequestsAre' /\ \A q \in Request : Outcome(request'[q])
<1>1. \A q \in Request : Outcome(request[q])
  BY DEF TypeOK, Outcome
<1>2. \A q \in Request : request'[q] = x \/ request'[q] = request[q]
  BY DEF Resume
<1>3. request' = [q \in Request |-> request'[q]]
  BY DEF Resume
<1> QED
  BY <1>1, <1>2, <1>3 DEF RequestsAre

LEMMA ContinueStep ==
  ASSUME IInv, NEW b \in Querier, NEW s \in BuildState, Sound(s), Continue(b, s),
         preferred' \in Endpoint, faults' \in 0 .. MaxFaults,
         prices' \in Time \cup {Never}, UNCHANGED <<history, now>>
  PROVE  IInv'
<1>1. query' \in [Querier -> Query \cup {NoQuery}]
  <2>1. s.step \in Step
    BY DEF BuildState
  <2>2. s.step # "prices" => FirstAttempt(MethodOf[s.step], preferred') \in Query
    BY <2>1, MethodType, FirstAttemptType
  <2> QED
    BY <2>2 DEF Continue, IInv, TypeOK, RpcTypeOK
<1>2. build' \in [Querier -> BuildState \cup {NoBuild}]
  BY DEF Continue, IInv, TypeOK
<1>3. \A k \in Querier : build'[k] = s \/ build'[k] = build[k]
  BY DEF Continue, IInv, TypeOK
<1>4. TypeOK'
  BY <1>1, <1>2 DEF Continue, IInv, TypeOK, RpcTypeOK
<1>5. \A k \in Querier : build'[k] # NoBuild => Sound(build'[k])
  BY <1>3 DEF IInv, Building
<1>6. Building'
  BY <1>5 DEF Building, Sound, AgeOf
<1>7. RequestsAre' /\ Past' /\ Cached'
  BY DEF Continue, IInv, RequestsAre, Past, Cached, Honest, AgeOf
<1> QED
  BY <1>4, <1>6, <1>7 DEF IInv

LEMMA RejectStep ==
  ASSUME IInv, NEW b \in Querier, NEW why \in {"exhausted", "error", "prices"},
         Reject(b, why), UNCHANGED preferred, faults' \in 0 .. MaxFaults
  PROVE  IInv'
<1>1. Outcome(Failed(why))
  BY DEF Outcome
<1>2. RequestsAre' /\ \A q \in Request : Outcome(request'[q])
  BY <1>1, ResumeType DEF Reject, IInv
<1>3. /\ build' \in [Querier -> BuildState \cup {NoBuild}]
      /\ query' \in [Querier -> Query \cup {NoQuery}]
      /\ inFlight' \in [Address -> Querier \cup {NoneInFlight}]
  BY DEF Reject, Landed, IInv, TypeOK, RpcTypeOK
<1>4. TypeOK'
  <2>1. \A r \in Request :
       \/ request'[r] \in {Idle, [phase |-> "refused"]}
       \/ request'[r] \in {Waiting(q) : q \in Querier}
       \/ request'[r] \in {Failed(w) : w \in {"exhausted", "error", "prices"}}
       \/ request'[r].phase = "answered" /\ request'[r].passport \in PassportResponse
    BY <1>2 DEF Outcome
  <2> QED
    BY <1>3, <2>1 DEF Reject, IInv, TypeOK, RpcTypeOK
<1>5. \A k \in Querier : build'[k] = NoBuild \/ build'[k] = build[k]
  BY DEF Reject, IInv, TypeOK
<1>6. Building'
  BY <1>5 DEF Reject, IInv, Building, Sound, AgeOf
<1>7. Past' /\ Cached'
  BY DEF Reject, IInv, Past, Cached, Honest, AgeOf
<1> QED
  BY <1>2, <1>4, <1>6, <1>7 DEF IInv

LEMMA FinishStep ==
  ASSUME IInv, NEW b \in Querier, build[b] \in BuildState,
         NEW months \in Months, months <= AgeOf(build[b].address),
         Finish(b, months), preferred' \in Endpoint, faults' \in 0 .. MaxFaults,
         UNCHANGED <<history, now, prices>>
  PROVE  IInv'
<1> DEFINE p0 == [address |-> build[b].address, historyMonths |-> months,
                  started |-> build[b].started, finished |-> now,
                  priced |-> build[b].priced]
<1>1. PICK p : p = p0
  OBVIOUS
<1>2. p \in PassportResponse /\ p.address \in Address /\ Honest(p)
  <2>1. Sound(build[b])
    BY SnapshotIsBuild DEF IInv, Building
  <2>2. now \in Time
    BY DEF IInv, TypeOK
  <2> QED
    BY <1>1, <2>1, <2>2 DEF BuildState, PassportResponse, Sound, Honest
<1>3. /\ build' = [build EXCEPT ![b] = NoBuild] /\ query' = [query EXCEPT ![b] = NoQuery]
      /\ inFlight' = Landed(b) /\ cache' = [cache EXCEPT ![p.address] = p]
      /\ Resume(b, Answered(p))
  BY <1>1 DEF Finish
<1> HIDE DEF p0
<1>4. Outcome(Answered(p))
  BY <1>2 DEF Outcome, Answered
<1>5. RequestsAre' /\ \A q \in Request : Outcome(request'[q])
  BY <1>3, <1>4, ResumeType DEF IInv
<1>6. /\ build' \in [Querier -> BuildState \cup {NoBuild}]
      /\ query' \in [Querier -> Query \cup {NoQuery}]
      /\ inFlight' \in [Address -> Querier \cup {NoneInFlight}]
      /\ cache' \in [Address -> PassportResponse \cup {NoEntry}]
  BY <1>2, <1>3 DEF Landed, IInv, TypeOK, RpcTypeOK
<1>7. TypeOK'
  <2>1. \A r \in Request :
       \/ request'[r] \in {Idle, [phase |-> "refused"]}
       \/ request'[r] \in {Waiting(q) : q \in Querier}
       \/ request'[r] \in {Failed(w) : w \in {"exhausted", "error", "prices"}}
       \/ request'[r].phase = "answered" /\ request'[r].passport \in PassportResponse
    BY <1>5 DEF Outcome
  <2> QED
    BY <1>6, <2>1 DEF IInv, TypeOK, RpcTypeOK
<1>8. Building'
  <2>1. \A k \in Querier : build'[k] = NoBuild \/ build'[k] = build[k]
    BY <1>3 DEF IInv, TypeOK
  <2> QED
    BY <2>1 DEF IInv, Building, Sound, AgeOf
<1>9. Cached'
  <2>1. \A a \in Address : cache'[a] = IF a = p.address THEN p ELSE cache[a]
    BY <1>2, <1>3 DEF IInv, TypeOK
  <2>2. \A a \in Address : cache'[a] # NoEntry => cache'[a].address = a /\ Honest(cache'[a])
    BY <1>2, <2>1 DEF IInv, Cached
  <2> QED
    BY <2>2 DEF Cached, Honest, AgeOf
<1>10. Past'
  BY DEF IInv, Past
<1> QED
  BY <1>5, <1>7, <1>8, <1>9, <1>10 DEF IInv

LEMMA BalancesStep ==
  ASSUME IInv, NEW b \in Querier, Balances(b)
  PROVE  IInv'
<1>1. build[b].step \in {"balance", "tokens"}
  BY DEF Balances, After
<1>2. build[b] \in BuildState /\ Sound(build[b])
  BY <1>1, BuildingNow, SnapshotIsBuild DEF IInv, Building
<1>3. PICK s : s = [build[b] EXCEPT !.step = After[@]]
  OBVIOUS
<1>4. s \in BuildState /\ Sound(s)
  BY <1>1, <1>2, <1>3 DEF BuildState, Sound, After, Step
<1> QED
  BY <1>3, <1>4, ContinueStep, AnswersType DEF Balances, IInv, TypeOK

LEMMA LookUpStep ==
  ASSUME IInv, NEW b \in Querier, LookUpPrices(b)
  PROVE  IInv'
<1>1. build[b].step = "tokens2022" /\ Answers(b) /\ UNCHANGED <<history, now, prices>>
  BY DEF LookUpPrices
<1>2. build[b] \in BuildState /\ Sound(build[b])
  BY <1>1, BuildingNow, SnapshotIsBuild DEF IInv, Building
<1>3. preferred' \in Endpoint /\ faults' \in 0 .. MaxFaults
  BY <1>1, AnswersType DEF IInv, TypeOK
<1>4. ASSUME Continue(b, [build[b] EXCEPT !.step = "history"]) PROVE IInv'
  <2>1. PICK s : s = [build[b] EXCEPT !.step = "history"]
    OBVIOUS
  <2>2. s \in BuildState /\ Sound(s)
    BY <1>2, <2>1 DEF BuildState, Sound, Step
  <2> QED
    BY <1>1, <1>3, <1>4, <2>1, <2>2, ContinueStep DEF IInv, TypeOK
<1>5. ASSUME PricesFresh, Continue(b, [build[b] EXCEPT !.step = "history", !.priced = prices])
      PROVE  IInv'
  <2>1. PICK s : s = [build[b] EXCEPT !.step = "history", !.priced = prices]
    OBVIOUS
  <2>2. s \in BuildState
    BY <1>2, <2>1 DEF BuildState, Step, IInv, TypeOK
  <2>3. Sound(s)
    <3>1. /\ s.started = build[b].started /\ s.oldest = build[b].oldest
          /\ s.address = build[b].address /\ s.priced = prices
      BY <1>2, <2>1 DEF BuildState
    <3>2. prices \in Int /\ now \in Int /\ build[b].started \in Int /\ PriceTtl \in Int
      BY <1>2, PassportAssumption DEF IInv, TypeOK, Time, Never, BuildState
    <3> QED
      BY <1>2, <1>5, <3>1, <3>2 DEF Sound, PricesFresh
  <2> QED
    BY <1>1, <1>3, <1>5, <2>1, <2>2, <2>3, ContinueStep DEF IInv, TypeOK
<1>6. ASSUME Continue(b, [build[b] EXCEPT !.step = "prices"]) PROVE IInv'
  <2>1. PICK s : s = [build[b] EXCEPT !.step = "prices"]
    OBVIOUS
  <2>2. s \in BuildState /\ Sound(s)
    BY <1>2, <2>1 DEF BuildState, Sound, Step
  <2> QED
    BY <1>1, <1>3, <1>6, <2>1, <2>2, ContinueStep DEF IInv, TypeOK
<1> QED
  BY <1>4, <1>5, <1>6 DEF LookUpPrices

LEMMA FetchStep ==
  ASSUME IInv, NEW b \in Querier, FetchPrices(b)
  PROVE  IInv'
<1>1. build[b].step = "prices" /\ UNCHANGED <<history, now, preferred, faults>> /\ prices' = now
  BY DEF FetchPrices
<1>2. build[b] \in BuildState /\ Sound(build[b])
  BY <1>1, BuildingNow, SnapshotIsBuild DEF IInv, Building
<1>3. PICK s : s = [build[b] EXCEPT !.step = "history", !.priced = now]
  OBVIOUS
<1>4. now \in Time
  BY DEF IInv, TypeOK
<1>5. s \in BuildState
  BY <1>2, <1>3, <1>4 DEF BuildState, Step
<1>6. Sound(s)
  <2>1. /\ s.started = build[b].started /\ s.oldest = build[b].oldest
        /\ s.address = build[b].address /\ s.priced = now
    BY <1>2, <1>3 DEF BuildState
  <2>2. now \in Int /\ build[b].started \in Int /\ PriceTtl \in Nat \ {0}
    BY <1>2, <1>4, PassportAssumption DEF Time, BuildState
  <2> QED
    BY <1>2, <2>1, <2>2 DEF Sound
<1>7. preferred' \in Endpoint /\ faults' \in 0 .. MaxFaults /\ prices' \in Time \cup {Never}
  BY <1>1, <1>4 DEF IInv, TypeOK, RpcTypeOK
<1> QED
  BY <1>1, <1>3, <1>5, <1>6, <1>7, ContinueStep DEF FetchPrices

LEMMA FailsStep ==
  ASSUME IInv, NEW b \in Querier, PricesFail(b) \/ QueryFails(b)
  PROVE  IInv'
<1>1. CASE PricesFail(b)
  <2>1. faults' \in 0 .. MaxFaults
    BY <1>1, RpcAssumption DEF PricesFail, IInv, TypeOK, RpcTypeOK
  <2> QED
    BY <1>1, <2>1, RejectStep DEF PricesFail
<1>2. CASE Exhausts(b) /\ Reject(b, "exhausted")
  <2>1. UNCHANGED preferred /\ faults' \in 0 .. MaxFaults
    BY <1>2, RpcAssumption DEF Exhausts, AttemptFails, IInv, TypeOK, RpcTypeOK
  <2> QED
    BY <1>2, <2>1, RejectStep
<1>3. CASE Refuses(b) /\ Reject(b, "error")
  <2>1. UNCHANGED preferred /\ faults' \in 0 .. MaxFaults
    BY <1>3, RpcAssumption DEF Refuses, IInv, TypeOK, RpcTypeOK
  <2> QED
    BY <1>3, <2>1, RejectStep
<1> QED
  BY <1>1, <1>2, <1>3 DEF QueryFails

(* Wherever the scan ends, what it reports is not above the account's age. *)
LEMMA ScanStep ==
  ASSUME IInv, NEW b \in Querier, NEW garbled, ScanPage(b, garbled)
  PROVE  IInv'
<1> DEFINE page == Positions(b)
           oldest == Max(UsableAges(b, garbled) \cup {build[b].oldest})
           pages == Scanned(b)
           age == AgeOf(build[b].address)
<1>1. build[b].step = "history" /\ Answers(b) /\ UNCHANGED <<history, now, prices>>
  BY DEF ScanPage
<1>2. build[b] \in BuildState /\ Sound(build[b])
  BY <1>1, BuildingNow, SnapshotIsBuild DEF IInv, Building
<1>3. preferred' \in Endpoint /\ faults' \in 0 .. MaxFaults
  BY <1>1, AnswersType DEF IInv, TypeOK
<1>4. oldest \in Months /\ oldest <= age
  BY <1>2, PageAge
<1>5. age \in Nat
  BY <1>2, AgeType DEF IInv, BuildState
<1>6. ASSUME NEW months \in Months, months <= age, Finish(b, months) PROVE IInv'
  BY <1>1, <1>2, <1>3, <1>6, FinishStep
<1>7. CASE page = {} /\ pages = 1 /\ Finish(b, 0)
  BY <1>5, <1>6, <1>7 DEF Months
<1>8. CASE Finish(b, oldest)
  <2>1. PICK months : months = oldest
    OBVIOUS
  <2> QED
    BY <1>4, <1>6, <1>8, <2>1
<1>9. CASE oldest >= Horizon /\ Finish(b, Horizon)
  <2>1. Horizon \in Nat
    BY PassportAssumption
  <2>2. Horizon \in Months
    BY <2>1 DEF Months
  <2>3. Horizon <= age
    <3>1. oldest \in Int
      BY <1>4 DEF Months, Unknown
    <3> HIDE DEF oldest, age
    <3> QED
      BY <1>4, <1>5, <1>9, <2>1, <3>1
  <2> QED
    BY <1>6, <1>9, <2>2, <2>3
<1>10. CASE Finish(b, Unknown)
  <2>1. Unknown \in Months /\ Unknown <= age
    BY <1>5 DEF Months, Unknown
  <2> QED
    BY <1>6, <1>10, <2>1
<1>11. CASE pages < PageCap /\ Continue(b, [build[b] EXCEPT !.pages = pages, !.oldest = oldest])
  <2>1. PICK n : n = pages
    OBVIOUS
  <2>2. PICK old : old = oldest
    OBVIOUS
  <2>3. n \in 0 .. PageCap
    BY <1>2, <1>11, <2>1, PassportAssumption DEF Scanned, BuildState
  <2>4. PICK s : s = [build[b] EXCEPT !.pages = n, !.oldest = old]
    OBVIOUS
  <2>5. old \in Months /\ old <= age
    BY <1>4, <2>2
  <2>6. s \in BuildState /\ Sound(s)
    BY <1>2, <2>3, <2>4, <2>5 DEF BuildState, Sound
  <2>7. Continue(b, s)
    BY <1>11, <2>1, <2>2, <2>4
  <2> QED
    BY <1>1, <1>3, <2>6, <2>7, ContinueStep DEF IInv, TypeOK
<1> QED
  BY <1>7, <1>8, <1>9, <1>10, <1>11 DEF ScanPage

LEMMA RetryStep ==
  ASSUME IInv, NEW b \in Querier, Retry(b)
  PROVE  IInv'
<1>1. RpcTypeOK'
  BY RollOverType DEF Retry, IInv, TypeOK
<1>2. UNCHANGED <<history, now, prices, passports>>
  BY DEF Retry
<1> QED
  BY <1>1, <1>2 DEF passports, IInv, TypeOK, RequestsAre, Past, Building, Sound, Cached,
     Honest, AgeOf

LEMMA TickStep ==
  ASSUME IInv, Tick
  PROVE  IInv'
<1>1. now' = now + 1 /\ now' \in Time /\ now \in Nat
  BY PassportAssumption DEF Tick, IInv, TypeOK, Time
<1>2. UNCHANGED <<history, preferred, query, faults, prices, build, inFlight, cache, request>>
  BY DEF Tick, rpc, passports
<1>3. TypeOK'
  BY <1>1, <1>2 DEF IInv, TypeOK, RpcTypeOK
<1>4. Building'
  <2>1. \A b \in Querier : build[b] # NoBuild => build[b].started \in Nat
    BY DEF IInv, TypeOK, BuildState, Time
  <2> QED
    BY <1>1, <1>2, <2>1 DEF IInv, Building, Sound, AgeOf
<1>5. RequestsAre' /\ Past' /\ Cached'
  BY <1>2 DEF IInv, RequestsAre, Past, Cached, Honest, AgeOf
<1> QED
  BY <1>3, <1>4, <1>5 DEF IInv

(* A request that only waits or is answered leaves the rest alone.         *)
LEMMA SettleStep ==
  ASSUME IInv, NEW r \in Request, NEW x, Outcome(x), Settle(r, x),
         UNCHANGED <<rpc, history, now, prices, build, inFlight, cache>>
  PROVE  IInv'
<1>1. RequestsAre' /\ \A q \in Request : Outcome(request'[q])
  BY SettleType DEF IInv
<1>2. \A q \in Request :
       \/ request'[q] \in {Idle, [phase |-> "refused"]}
       \/ request'[q] \in {Waiting(b) : b \in Querier}
       \/ request'[q] \in {Failed(w) : w \in {"exhausted", "error", "prices"}}
       \/ request'[q].phase = "answered" /\ request'[q].passport \in PassportResponse
  BY <1>1 DEF Outcome
<1> QED
  BY <1>1, <1>2 DEF rpc, IInv, TypeOK, RpcTypeOK, Past, Building, Sound, Cached, Honest, AgeOf

LEMMA StartStep ==
  ASSUME IInv, NEW r \in Request, NEW a \in Address, StartBuild(r, a),
         UNCHANGED <<history, now, prices, cache>>
  PROVE  IInv'
<1>1. PICK b \in Querier :
        /\ build' = [build EXCEPT ![b] =
             [step |-> "balance", address |-> a, started |-> now, priced |-> Never,
              pages |-> 0, oldest |-> Unknown]]
        /\ query' = [query EXCEPT ![b] = FirstAttempt(MethodOf["balance"], preferred)]
        /\ inFlight' = [inFlight EXCEPT ![a] = b]
        /\ Settle(r, Waiting(b))
  BY DEF StartBuild, Free
<1>2. PICK s : s = [step |-> "balance", address |-> a, started |-> now, priced |-> Never,
                    pages |-> 0, oldest |-> Unknown]
  OBVIOUS
<1>3. s \in BuildState /\ Sound(s)
  <2>1. AgeOf(a) \in Nat
    BY AgeType DEF IInv
  <2>2. now \in Time /\ now \in Int
    BY DEF IInv, TypeOK, Time
  <2> QED
    BY <1>2, <2>1, <2>2, PassportAssumption DEF BuildState, Step, Months, Unknown, Sound
<1>4. \A k \in Querier : build'[k] = s \/ build'[k] = build[k]
  BY <1>1, <1>2 DEF IInv, TypeOK
<1>5. build' \in [Querier -> BuildState \cup {NoBuild}]
  BY <1>1, <1>2, <1>3 DEF IInv, TypeOK
<1>6. FirstAttempt(MethodOf["balance"], preferred) \in Query
  BY MethodType, FirstAttemptType DEF Step, IInv, TypeOK, RpcTypeOK
<1>7. query' \in [Querier -> Query \cup {NoQuery}]
  BY <1>1, <1>6 DEF IInv, TypeOK, RpcTypeOK
<1>8. inFlight' \in [Address -> Querier \cup {NoneInFlight}]
  BY <1>1 DEF IInv, TypeOK
<1>9. Outcome(Waiting(b))
  BY DEF Outcome
<1>10. RequestsAre' /\ \A q \in Request : Outcome(request'[q])
  BY <1>1, <1>9, SettleType DEF IInv
<1>11. UNCHANGED <<preferred, faults>>
  BY DEF StartBuild
<1>12. TypeOK'
  <2>1. \A q \in Request :
       \/ request'[q] \in {Idle, [phase |-> "refused"]}
       \/ request'[q] \in {Waiting(k) : k \in Querier}
       \/ request'[q] \in {Failed(w) : w \in {"exhausted", "error", "prices"}}
       \/ request'[q].phase = "answered" /\ request'[q].passport \in PassportResponse
    BY <1>10 DEF Outcome
  <2> QED
    BY <1>5, <1>7, <1>8, <1>11, <2>1 DEF IInv, TypeOK, RpcTypeOK
<1>13. Building'
  <2>1. \A k \in Querier : build'[k] # NoBuild => Sound(build'[k])
    BY <1>3, <1>4 DEF IInv, Building
  <2> QED
    BY <2>1 DEF Building, Sound, AgeOf
<1>14. Past' /\ Cached'
  BY DEF IInv, Past, Cached, Honest, AgeOf
<1> QED
  BY <1>10, <1>12, <1>13, <1>14 DEF IInv

LEMMA PostStep ==
  ASSUME IInv, NEW r \in Request, NEW a \in Address, NEW issued, NEW g, Post(r, a, issued, g)
  PROVE  IInv'
<1>1. UNCHANGED <<history, now, prices, cache>>
  BY DEF Post
<1>2. CASE Refuse(r, issued, g)
  <2>1. Outcome([phase |-> "refused"])
    BY DEF Outcome
  <2> QED
    BY <1>1, <1>2, <2>1, SettleStep DEF Refuse
<1>3. CASE ServeCached(r, a)
  <2>1. PICK p : p = cache[a]
    OBVIOUS
  <2>2. p \in PassportResponse
    BY <1>3, <2>1 DEF ServeCached, Fresh, IInv, TypeOK
  <2>3. Outcome(Answered(p))
    BY <2>2 DEF Outcome, Answered
  <2>4. Settle(r, Answered(p))
    BY <1>3, <2>1 DEF ServeCached
  <2> QED
    BY <1>1, <1>3, <2>3, <2>4, SettleStep DEF ServeCached
<1>4. CASE Join(r, a)
  <2>1. PICK b : b = inFlight[a]
    OBVIOUS
  <2>2. b \in Querier
    BY <1>4, <2>1 DEF Join, IInv, TypeOK
  <2>3. Outcome(Waiting(b))
    BY <2>2 DEF Outcome
  <2> QED
    BY <1>1, <1>4, <2>1, <2>3, SettleStep DEF Join
<1>5. CASE StartBuild(r, a)
  BY <1>1, <1>5, StartStep
<1> QED
  BY <1>2, <1>3, <1>4, <1>5 DEF Post

LEMMA IInvInit == Init => IInv
<1> SUFFICES ASSUME Init PROVE IInv
  OBVIOUS
<1>1. 0 \in Endpoint /\ 0 \in 0 .. MaxFaults /\ 0 \in Time
  BY RpcAssumption, PassportAssumption DEF Endpoint, Time
<1>2. TypeOK
  BY <1>1 DEF Init, RpcInit, TypeOK, RpcTypeOK
<1>3. RequestsAre /\ Past /\ Building /\ Cached
  BY DEF Init, RequestsAre, Past, Building, Cached
<1> QED
  BY <1>2, <1>3 DEF IInv

LEMMA IInvStep == IInv /\ [Next]_vars => IInv'
<1> SUFFICES ASSUME IInv, [Next]_vars PROVE IInv'
  OBVIOUS
<1>1. ASSUME NEW b \in Querier, Progress(b) PROVE IInv'
  BY <1>1, BalancesStep, LookUpStep, FetchStep, FailsStep, ScanStep, RetryStep DEF Progress
<1>2. CASE UNCHANGED vars
  BY <1>2 DEF vars, rpc, passports, IInv, TypeOK, RpcTypeOK, RequestsAre, Past, Building,
     Sound, Cached, Honest, AgeOf
<1> QED
  BY <1>1, <1>2, PostStep, TickStep DEF Next

LEMMA Always == Spec => []IInv
  BY IInvInit, IInvStep, PTL DEF Spec

-----------------------------------------------------------------------------
(* The theorems.                                                           *)

(* Every variable keeps its type, the endpoint preferred among them, which *)
(* the builds move under one another.                                      *)
THEOREM TypeCorrect == Spec => []TypeOK
<1>1. IInv => TypeOK
  BY DEF IInv
<1> QED
  BY <1>1, Always, PTL

(* Whatever block times the nodes garble and wherever the scan gives up,   *)
(* a cached age is the account's or less, and so is the age of an account  *)
(* whose receipt says eligible: "account age fails closed", to the bit.    *)
THEOREM AgeFailsClosed == Spec => []AgeNeverOverstated
<1>1. ASSUME IInv, NEW a \in Address, cache[a] # NoEntry
      PROVE  /\ cache[a].historyMonths <= AgeOf(a)
             /\ \A p \in LendingPolicy :
                  EligibleBit(CircuitInput(WitnessOf(cache[a]), p)) = 1 =>
                    p.minimumHistoryMonths <= AgeOf(a)
  <2>1. cache[a] \in PassportResponse /\ cache[a].address = a /\ Honest(cache[a])
    BY <1>1 DEF IInv, TypeOK, Cached
  <2>2. cache[a].historyMonths <= AgeOf(a) /\ AgeOf(a) \in Nat
    BY <1>1, <2>1, AgeType DEF IInv, Honest
  <2>3. ASSUME NEW p \in LendingPolicy,
               EligibleBit(CircuitInput(WitnessOf(cache[a]), p)) = 1
        PROVE  p.minimumHistoryMonths <= AgeOf(a)
    <3>1. PICK i : i = CircuitInput(WitnessOf(cache[a]), p)
      OBVIOUS
    <3>2. /\ i.historyMonths = CommittedMonths(cache[a].historyMonths)
          /\ i.minHistoryMonths = p.minimumHistoryMonths
          /\ i.screenExposure \in {0, 1} /\ i.restrictedExposure \in {0, 1}
      BY <3>1 DEF CircuitInput, WitnessOf, Bit
    <3>3. cache[a].historyMonths \in Int /\ p.minimumHistoryMonths \in Nat
      BY <2>1, RangeAssumption DEF PassportResponse, Months, Unknown, LendingPolicy
    <3>4. i.historyMonths \in Int /\ i.historyMonths <= AgeOf(a)
      BY <2>2, <3>2, <3>3 DEF CommittedMonths
    <3>5. i.historyMonths >= i.minHistoryMonths
      BY <2>3, <3>1, <3>2, <3>3, <3>4, EligibleIsOldEnough
    <3> QED
      BY <2>2, <3>2, <3>3, <3>4, <3>5
  <2> QED
    BY <2>2, <2>3
<1>2. IInv => AgeNeverOverstated
  BY <1>1 DEF AgeNeverOverstated
<1> QED
  BY <1>2, Always, PTL

LEMMA FinishFresh ==
  ASSUME IInv, NEW b \in Querier, build[b] \in BuildState, NEW months, Finish(b, months),
         NEW r \in Request, request[r].phase # "answered", request'[r].phase = "answered"
  PROVE  LET p == request'[r].passport IN
         /\ now < p.finished + PassportTtl
         /\ p.priced # Never => p.started < p.priced + PriceTtl
<1>1. PICK p : p = [address |-> build[b].address, historyMonths |-> months,
                    started |-> build[b].started, finished |-> now,
                    priced |-> build[b].priced]
  OBVIOUS
<1>2. request'[r] = Answered(p)
  <2>1. Resume(b, Answered(p))
    BY <1>1 DEF Finish
  <2> QED
    BY <2>1 DEF Resume
<1>3. request'[r].passport = p
  BY <1>2 DEF Answered
<1>4. p.finished = now /\ now \in Nat /\ PassportTtl \in Nat \ {0}
  BY <1>1, PassportAssumption DEF IInv, TypeOK, Time
<1>5. p.priced # Never => p.started < p.priced + PriceTtl
  BY <1>1, SnapshotIsBuild DEF IInv, Building, Sound
<1> QED
  BY <1>3, <1>4, <1>5

LEMMA RejectAnswersNobody ==
  ASSUME NEW b \in Querier, NEW why, Reject(b, why), NEW r \in Request,
         request[r].phase # "answered"
  PROVE  request'[r].phase # "answered"
  BY DEF Reject, Resume, Failed

LEMMA PostFresh ==
  ASSUME IInv, NEW r \in Request, NEW a \in Address, NEW issued, NEW g, Post(r, a, issued, g),
         NEW q \in Request, request[q].phase # "answered", request'[q].phase = "answered"
  PROVE  LET p == request'[q].passport IN
         /\ now < p.finished + PassportTtl
         /\ p.priced # Never => p.started < p.priced + PriceTtl
<1>1. ASSUME NEW x, Settle(r, x), x.phase # "answered" PROVE FALSE
  BY <1>1 DEF Settle, IInv, RequestsAre
<1>2. CASE Refuse(r, issued, g)
  BY <1>1, <1>2 DEF Refuse
<1>3. CASE Join(r, a)
  <2>1. Waiting(inFlight[a]).phase # "answered"
    BY DEF Waiting
  <2>2. PICK x : x = Waiting(inFlight[a])
    OBVIOUS
  <2> QED
    BY <1>1, <1>3, <2>1, <2>2 DEF Join
<1>4. CASE StartBuild(r, a)
  <2>1. PICK b : Settle(r, Waiting(b))
    BY <1>4 DEF StartBuild
  <2> QED
    BY <1>1, <2>1 DEF Waiting
<1>5. CASE ServeCached(r, a)
  <2>1. request' = [request EXCEPT ![r] = Answered(cache[a])]
    BY <1>5 DEF ServeCached, Settle
  <2>2. request'[q] = Answered(cache[a])
    BY <2>1 DEF IInv, RequestsAre
  <2>3. request'[q].passport = cache[a]
    BY <2>2 DEF Answered
  <2>4. now < cache[a].finished + PassportTtl
    BY <1>5 DEF ServeCached, Fresh
  <2>5. cache[a].priced # Never => cache[a].started < cache[a].priced + PriceTtl
    BY <1>5 DEF ServeCached, Fresh, IInv, Cached, Honest
  <2> QED
    BY <2>3, <2>4, <2>5
<1> QED
  BY <1>2, <1>3, <1>4, <1>5 DEF Post

(* Nobody is handed a passport past its time, nor one valued at prices     *)
(* that were past theirs when its build began - whether it comes from the  *)
(* cache, from the build that was awaited or from one that was joined.     *)
THEOREM NothingStaleServed == Spec => ServedFresh
<1>1. ASSUME IInv, [Next]_vars, NEW r \in Request,
             request[r].phase # "answered", request'[r].phase = "answered"
      PROVE  LET p == request'[r].passport IN
             /\ now < p.finished + PassportTtl
             /\ p.priced # Never => p.started < p.priced + PriceTtl
  <2>1. request'[r] # request[r]
    BY <1>1
  <2>2. ASSUME NEW b \in Querier, Progress(b)
        PROVE  LET p == request'[r].passport IN
               /\ now < p.finished + PassportTtl
               /\ p.priced # Never => p.started < p.priced + PriceTtl
    <3>1. ~ UNCHANGED request
      BY <2>1
    <3>2. ASSUME NEW why PROVE ~ Reject(b, why)
      BY <1>1, <3>2, RejectAnswersNobody
    <3>3. PICK garbled : build[b].step = "history" /\ ScanPage(b, garbled)
      BY <2>2, <3>1, <3>2
         DEF Progress, Balances, LookUpPrices, FetchPrices, PricesFail, Retry, QueryFails,
             Continue, passports
    <3>4. build[b] \in BuildState
      BY <1>1, <3>3, BuildingNow DEF IInv
    <3>5. \E months : Finish(b, months)
      BY <3>1, <3>3 DEF ScanPage, Continue
    <3> QED
      BY <1>1, <3>4, <3>5, FinishFresh
  <2>3. CASE Tick \/ UNCHANGED vars
    BY <2>1, <2>3 DEF Tick, vars, passports
  <2> QED
    BY <1>1, <2>2, <2>3, PostFresh DEF Next
<1>2. IInv /\ [Next]_vars =>
        [\A r \in Request :
          request[r].phase # "answered" /\ request'[r].phase = "answered" =>
            LET p == request'[r].passport IN
            /\ now < p.finished + PassportTtl
            /\ p.priced # Never => p.started < p.priced + PriceTtl]_vars
  BY <1>1
<1> QED
  BY <1>2, Always, PTL DEF Spec, ServedFresh

=============================================================================
