------------------------------ MODULE Passport ------------------------------
(***************************************************************************)
(* POST /api/passport: the signed request, the cache and the reads in      *)
(* flight (backend/src/routes/passport.ts), the witness builder and its    *)
(* bounded history scan (adapters/solanaPortfolio.ts), the price cache     *)
(* (adapters/prices.ts), all over the failing-over client of RpcFailover.  *)
(*                                                                         *)
(* The process is one thread, so what happens between two awaits is one    *)
(* step; builds of several addresses interleave at every await.  A record  *)
(* of builds is used again once a build is over.  Time is in ticks, ages   *)
(* are in months.  What an address holds is fixed and valued as a whole.   *)
(***************************************************************************)
EXTENDS RpcFailover, CreditPolicy, Sequences, FiniteSetsExt

CONSTANTS
  Address, Request,
  Snapshot,   \* assets, collateralQuality and restrictedExposure of an address
  Histories,  \* the histories an address may have: ages of signatures, newest first
  PageSize, PageCap, Horizon,  \* SIGNATURE_PAGE_SIZE, PAGE_CAP, HISTORY_HORIZON_MONTHS
  PassportTtl, PriceTtl, AuthWindow, AuthSkew,
  MaxNow      \* bound on time

ASSUME PassportAssumption ==
  /\ Method = {"getBalance", "getTokenAccountsByOwner", "getSignaturesForAddress"}
  /\ {PageSize, PageCap, PassportTtl, PriceTtl} \subseteq Nat \ {0}
  /\ {Horizon, AuthWindow, AuthSkew, MaxNow} \subseteq Nat
  /\ \A a \in Address : \A h \in Histories[a] :
       h \in Seq(Nat) /\ \A i, j \in 1 .. Len(h) : i <= j => h[i] <= h[j]

VARIABLES
  history,    \* of each address, on chain
  now,
  build,      \* the buildWitness calls under way
  inFlight,   \* the build of an address others may await
  cache,      \* the passport of an address
  prices,     \* when the cached prices were fetched
  request     \* the POSTs

rpc == <<preferred, query, faults>>
passports == <<build, inFlight, cache, request>>
vars == <<history, now, rpc, prices, passports>>

Never == -1
NoBuild == [step |-> "none"]
NoneInFlight == "none"
NoEntry == [finished |-> Never]
Idle == [phase |-> "idle"]
Waiting(b) == [phase |-> "waiting", on |-> b]
Answered(p) == [phase |-> "answered", passport |-> p]
Failed(why) == [phase |-> "failed", why |-> why]

Step == {"balance", "tokens", "tokens2022", "prices", "history"}
MethodOf == [balance |-> "getBalance", tokens |-> "getTokenAccountsByOwner",
             tokens2022 |-> "getTokenAccountsByOwner",
             history |-> "getSignaturesForAddress"]
After == [balance |-> "tokens", tokens |-> "tokens2022"]

Time == 0 .. MaxNow
Months == {Unknown} \cup Nat
BuildState == [step : Step, address : Address, started : Time, priced : Time \cup {Never},
               pages : 0 .. PageCap, oldest : Months]
PassportResponse == [address : Address, historyMonths : Months, started : Time,
                     finished : Time, priced : Time \cup {Never}]

TypeOK ==
  /\ RpcTypeOK
  /\ now \in Time
  /\ build \in [Querier -> BuildState \cup {NoBuild}]
  /\ inFlight \in [Address -> Querier \cup {NoneInFlight}]
  /\ cache \in [Address -> PassportResponse \cup {NoEntry}]
  /\ prices \in Time \cup {Never}
  /\ \A r \in Request :
       \/ request[r] \in {Idle, [phase |-> "refused"]}
       \/ request[r] \in {Waiting(b) : b \in Querier}
       \/ request[r] \in {Failed(why) : why \in {"exhausted", "error", "prices"}}
       \/ request[r].phase = "answered" /\ request[r].passport \in PassportResponse

Init ==
  /\ RpcInit
  /\ history \in [Address -> UNION {Histories[a] : a \in Address}]
  /\ \A a \in Address : history[a] \in Histories[a]
  /\ now = 0
  /\ build = [b \in Querier |-> NoBuild]
  /\ inFlight = [a \in Address |-> NoneInFlight]
  /\ cache = [a \in Address |-> NoEntry]
  /\ prices = Never
  /\ request = [r \in Request |-> Idle]

-----------------------------------------------------------------------------
(* The route.                                                              *)

Authorised(issued, genuine) ==
  genuine /\ now - issued <= AuthWindow /\ issued - now <= AuthSkew

FreshForever(a) == cache[a] # NoEntry
Fresh(a) == cache[a] # NoEntry /\ now < cache[a].finished + PassportTtl

Settle(r, outcome) == request' = [request EXCEPT ![r] = outcome]

Refuse(r, issued, genuine) ==
  /\ ~Authorised(issued, genuine)
  /\ Settle(r, [phase |-> "refused"])
  /\ UNCHANGED <<rpc, build, inFlight>>

ServeCached(r, a) ==
  /\ Fresh(a)
  /\ Settle(r, Answered(cache[a]))
  /\ UNCHANGED <<rpc, build, inFlight>>

Join(r, a) ==
  /\ ~Fresh(a) /\ inFlight[a] # NoneInFlight
  /\ Settle(r, Waiting(inFlight[a]))
  /\ UNCHANGED <<rpc, build, inFlight>>

Free == {b \in Querier : build[b] = NoBuild}

StartBuild(r, a) ==
  /\ ~Fresh(a) /\ inFlight[a] = NoneInFlight
  /\ Free # {}
  /\ LET b == CHOOSE x \in Free : TRUE IN
     /\ build' = [build EXCEPT ![b] =
          [step |-> "balance", address |-> a, started |-> now, priced |-> Never,
           pages |-> 0, oldest |-> Unknown]]
     /\ query' = [query EXCEPT ![b] = FirstAttempt(MethodOf["balance"], preferred)]
     /\ inFlight' = [inFlight EXCEPT ![a] = b]
     /\ Settle(r, Waiting(b))
  /\ UNCHANGED <<preferred, faults>>

Post(r, a, issued, genuine) ==
  /\ request[r] = Idle
  /\ \/ Refuse(r, issued, genuine)
     \/ /\ Authorised(issued, genuine)
        /\ ServeCached(r, a) \/ Join(r, a) \/ StartBuild(r, a)
  /\ UNCHANGED <<history, now, prices, cache>>

-----------------------------------------------------------------------------
(* A build ends: everybody awaiting it resumes before anything else runs.  *)

Resume(b, outcome) ==
  request' = [r \in Request |-> IF request[r] = Waiting(b) THEN outcome ELSE request[r]]

Landed(b) == [inFlight EXCEPT ![build[b].address] = NoneInFlight]

Finish(b, months) ==
  LET p == [address |-> build[b].address, historyMonths |-> months,
            started |-> build[b].started, finished |-> now, priced |-> build[b].priced] IN
  /\ build' = [build EXCEPT ![b] = NoBuild]
  /\ query' = [query EXCEPT ![b] = NoQuery]
  /\ inFlight' = Landed(b)
  /\ cache' = [cache EXCEPT ![p.address] = p]
  /\ Resume(b, Answered(p))

Reject(b, why) ==
  /\ build' = [build EXCEPT ![b] = NoBuild]
  /\ query' = [query EXCEPT ![b] = NoQuery]
  /\ inFlight' = Landed(b)
  /\ Resume(b, Failed(why))
  /\ UNCHANGED <<history, now, cache, prices>>

(* The build goes on to a step; the endpoint now preferred is asked first. *)
Continue(b, state) ==
  /\ build' = [build EXCEPT ![b] = state]
  /\ query' = [query EXCEPT ![b] =
       IF state.step = "prices" THEN NoQuery
       ELSE FirstAttempt(MethodOf[state.step], preferred')]
  /\ UNCHANGED <<inFlight, cache, request>>

-----------------------------------------------------------------------------
(* buildWitness.                                                           *)

Balances(b) ==
  /\ build[b].step \in DOMAIN After
  /\ Answers(b)
  /\ Continue(b, [build[b] EXCEPT !.step = After[@]])
  /\ UNCHANGED <<history, now, prices>>

Unpriced(a) == Snapshot[a].assets = 0
PricesFresh == prices # Never /\ now < prices + PriceTtl

(* getPrices: nothing to price, prices from the cache, or a request.       *)
LookUpPrices(b) ==
  /\ build[b].step = "tokens2022"
  /\ Answers(b)
  /\ \/ /\ Unpriced(build[b].address)
        /\ Continue(b, [build[b] EXCEPT !.step = "history"])
     \/ /\ ~Unpriced(build[b].address) /\ PricesFresh
        /\ Continue(b, [build[b] EXCEPT !.step = "history", !.priced = prices])
     \/ /\ ~Unpriced(build[b].address) /\ ~PricesFresh
        /\ Continue(b, [build[b] EXCEPT !.step = "prices"])
  /\ UNCHANGED <<history, now, prices>>

FetchPrices(b) ==
  /\ build[b].step = "prices"
  /\ prices' = now
  /\ UNCHANGED <<history, now, preferred, faults>>
  /\ Continue(b, [build[b] EXCEPT !.step = "history", !.priced = now])

PricesFail(b) ==
  /\ build[b].step = "prices"
  /\ faults < MaxFaults /\ faults' = faults + 1
  /\ Reject(b, "prices")
  /\ UNCHANGED preferred

Positions(b) ==
  LET first == build[b].pages * PageSize + 1
      last == build[b].pages * PageSize + PageSize IN
  {k \in DOMAIN history[build[b].address] : first <= k /\ k <= last}

AgeIfTrusted(b, k, garbled) ==
  IF k \in garbled THEN Horizon ELSE history[build[b].address][k]
TrustedAges(b, garbled) == {AgeIfTrusted(b, k, garbled) : k \in Positions(b)}
UsableAges(b, garbled) ==
  {history[build[b].address][k] : k \in Positions(b) \ garbled}

ScannedStill(b) == build[b].pages
Scanned(b) == build[b].pages + 1

(* One page, on which the block times of some signatures are unusable.     *)
ScanPage(b, garbled) ==
  LET page == Positions(b)
      oldest == Max(UsableAges(b, garbled) \cup {build[b].oldest})
      pages == Scanned(b) IN
  /\ build[b].step = "history"
  /\ Answers(b)
  /\ \/ page = {} /\ pages = 1 /\ Finish(b, 0)
     \/ /\ Cardinality(page) < PageSize /\ ~(page = {} /\ pages = 1)
        /\ Finish(b, oldest)
     \/ /\ Cardinality(page) = PageSize /\ oldest >= Horizon
        /\ Finish(b, Horizon)
     \/ /\ Cardinality(page) = PageSize /\ oldest < Horizon /\ pages = PageCap
        /\ Finish(b, Unknown)
     \/ /\ Cardinality(page) = PageSize /\ oldest < Horizon /\ pages < PageCap
        /\ Continue(b, [build[b] EXCEPT !.pages = pages, !.oldest = oldest])
  /\ UNCHANGED <<history, now, prices>>

Retry(b) == RollOver(b) /\ UNCHANGED <<history, now, prices, passports>>

QueryFails(b) ==
  \/ Exhausts(b) /\ Reject(b, "exhausted")
  \/ Refuses(b) /\ Reject(b, "error")

Tick == now < MaxNow /\ now' = now + 1 /\ UNCHANGED <<history, rpc, prices, passports>>

-----------------------------------------------------------------------------
Progress(b) ==
  \/ Balances(b) \/ LookUpPrices(b) \/ FetchPrices(b) \/ PricesFail(b)
  \/ build[b].step = "history" /\ \E garbled \in SUBSET Positions(b) : ScanPage(b, garbled)
  \/ Retry(b) \/ QueryFails(b)

Next ==
  \/ \E r \in Request, a \in Address, issued \in 0 .. MaxNow + AuthSkew + 1, g \in BOOLEAN :
       Post(r, a, issued, g)
  \/ \E b \in Querier : Progress(b)
  \/ Tick

Spec == Init /\ [][Next]_vars

(* Every fetch has a timeout, so every await of a build settles.           *)
FairSpec == Spec /\ \A b \in Querier : WF_vars(Progress(b))

-----------------------------------------------------------------------------
(* A passport is handed out for less than PassportTtl after it was         *)
(* finished, and its prices are older than its build by less than PriceTtl.*)
ServedFresh ==
  [][\A r \in Request :
       request[r].phase # "answered" /\ request'[r].phase = "answered" =>
         LET p == request'[r].passport IN
         /\ now < p.finished + PassportTtl
         /\ p.priced # Never => p.started < p.priced + PriceTtl]_vars

AgeOf(a) == IF history[a] = <<>> THEN 0 ELSE history[a][Len(history[a])]

(* The snapshot an applicant gets.                                         *)
WitnessOf(p) ==
  [assets |-> Snapshot[p.address].assets,
   collateralQuality |-> Snapshot[p.address].collateralQuality,
   historyMonths |-> p.historyMonths,
   restrictedExposure |-> Snapshot[p.address].restrictedExposure]

(* "Account age fails closed", from the scan to the bit the lender sees:   *)
(* whatever block times the nodes garble and wherever the scan gives up,   *)
(* an account is never reported older than it is, and one the circuit      *)
(* finds eligible under a policy on age is that old.                       *)
AgeNeverOverstated ==
  \A a \in Address : cache[a] # NoEntry =>
    /\ cache[a].historyMonths <= AgeOf(a)
    /\ \A p \in LendingPolicy :
         EligibleBit(CircuitInput(WitnessOf(cache[a]), p)) = 1 =>
           p.minimumHistoryMonths <= AgeOf(a)

(* A query given up as failed on all endpoints was put to every one.       *)
AllFailedMeansAllAsked ==
  [][\A r \in Request :
       request[r].phase = "waiting" /\ request'[r] = Failed("exhausted") =>
         query[request[r].on].asked = Endpoint]_vars

(* Every read ends, and with it the wait of every request that joined it.  *)
EveryReadEnds == \A b \in Querier : build[b] # NoBuild ~> build[b] = NoBuild

=============================================================================
