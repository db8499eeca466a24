----------------------------- MODULE Settlement -----------------------------
(***************************************************************************)
(* Settling an offer on chain: POST /settlements and /settlements/:id/     *)
(* replay (backend/src/routes/api.ts) and settleOnChain and replayOnChain  *)
(* (backend/src/adapters/solanaSettlement.ts), running against the program *)
(* of PrivateCredit.                                                       *)
(*                                                                         *)
(* A call is a chain of awaits: per step it looks whether the account is   *)
(* there (check), sends a transaction unless preflight refuses it (send)   *)
(* and waits for it (confirm).  Calls for one offer or one request may     *)
(* overlap, nothing keeps them apart.  The network lands a transaction     *)
(* once, late, or never; a call can lose touch with it at every await.     *)
(* The rows of the store a call reads are fixed before it starts.          *)
(***************************************************************************)
EXTENDS PrivateCredit

CONSTANTS
  LenderKey, BorrowerKey,  \* the operator's two keypairs
  TheMint,                 \* the mint of .solana/deployment.json
  Offer, Call,             \* offers; calls running at once (bound)
  OfferRequest, Deposit,   \* the rows of the offers
  Borrowed,                \* request.amount
  Verified,                \* the receipts the server verified, per request
  Announced,               \* the payout addresses announced, per request
  LateLanding,             \* a call may end before its transaction's fate is known
  ReadsFail,               \* reading the vault may fail
  MaxUnderway              \* bound on transactions of a call on their way at once

ASSUME RowsAssumption ==
  /\ {LenderKey, BorrowerKey} \subseteq Key /\ TheMint \in Mint
  /\ OfferRequest \in [Offer -> Request] /\ Deposit \in [Offer -> Nat]
  /\ Borrowed \in [Request -> Nat \ {0}]
  /\ Verified \in [Request -> SUBSET Receipt]
  /\ Announced \in [Request -> SUBSET Payout]
(* The request names one passport; the store's replay guard (the invariant  *)
(* VerifiedOwnsNullifier of Marketplace) lets one receipt have a nullifier.  *)
ASSUME StoreAssumption ==
  \A r, s \in Request : \A p \in Verified[r], q \in Verified[s] :
    /\ r = s => p.passport = q.passport
    /\ NullifierOf(p) = NullifierOf(q) => r = s /\ p = q
ASSUME NetworkAssumption ==
  LateLanding \in BOOLEAN /\ ReadsFail \in BOOLEAN /\ MaxUnderway \in Nat \ {0}

VARIABLES
  call,       \* the handlers running
  net,        \* transactions on their way
  row,        \* settlements, by the offer their id is made of
  replayed,   \* outcome of the replay_attempt step of a row
  up,         \* the store holds the rows calls start from
  made,       \* history: the offers whose present_and_fund made the loan
  short,      \* history: requests a fund_escrow of which landed and failed
  muddled     \* history: requests settled by two calls at once, beside a
              \* transaction of an earlier one, after a vault that could not be
              \* read, or out of one an earlier offer had filled further

history == <<made, short, muddled>>
vars == <<chain, call, net, row, replayed, up, history>>

Step == {"publish_policy", "publish_request", "fund_escrow",
         "create_payout_account", "present_and_fund"}
After == [publish_policy |-> "publish_request", publish_request |-> "fund_escrow",
          fund_escrow |-> "create_payout_account",
          create_payout_account |-> "present_and_fund"]

Idle == [phase |-> "idle"]
Running == [phase : {"check", "send", "confirm", "landed", "failed", "expired"},
            replay : BOOLEAN, step : Step, offer : Offer, receipt : Receipt,
            payout : Payout, shortfall : Nat]
Settlement == [status : {"settled", "failed"}, receipt : Receipt, payout : Payout,
               principal : Nat]
Transaction == [call : Call, step : Step, offer : Offer, receipt : Receipt,
                payout : Payout, shortfall : Nat]

SettlementTypeOK ==
  /\ TypeOK
  /\ call \in [Call -> Running \cup {Idle}]
  /\ net \subseteq Transaction
  /\ row \in [Offer -> Settlement \cup {None}]
  /\ replayed \in [Offer -> {"none", "refused", "succeeded"}]
  /\ up \in BOOLEAN
  /\ made \subseteq Offer /\ short \subseteq Request /\ muddled \subseteq Request

Init ==
  /\ EmptyChain(TRUE)
  /\ call = [c \in Call |-> Idle]
  /\ net = {}
  /\ row = [o \in Offer |-> None]
  /\ replayed = [o \in Offer |-> "none"]
  /\ up = TRUE
  /\ made = {} /\ short = {} /\ muddled = {}

-----------------------------------------------------------------------------
(* What the call sends.                                                    *)

Principal(o) == IF Deposit[o] # 0 THEN Deposit[o] ELSE Borrowed[OfferRequest[o]]

OnChain(x) ==
  LET r == OfferRequest[x.offer] IN
  CASE x.step = "publish_policy"  -> <<x.receipt.policy, x.receipt.verifier>> \in policies
    [] x.step = "publish_request" -> Published(r)
    [] x.step = "fund_escrow"     -> vault[r] >= Principal(x.offer)
    [] x.step = "create_payout_account" -> <<x.payout, TheMint>> \in opened
    [] x.step = "present_and_fund" -> FALSE

May(x) ==
  LET r == OfferRequest[x.offer] IN
  CASE x.step = "publish_policy"  -> MayPublishPolicy(x.receipt.policy, x.receipt.verifier)
    [] x.step = "publish_request" -> MayPublishRequest(r)
    [] x.step = "fund_escrow"     -> MayFundEscrow(LenderKey, r, x.shortfall)
    [] x.step = "create_payout_account" -> TRUE
    [] x.step = "present_and_fund" -> MayPresent(r, x.receipt, x.payout)

(* The commitments on the request are those of the receipt being settled.  *)
Execute(x) ==
  LET r == OfferRequest[x.offer] IN
  \/ x.step = "publish_policy" /\ PublishPolicy(x.receipt.policy, x.receipt.verifier)
  \/ /\ x.step = "publish_request"
     /\ \E t \in Term : PublishRequest(BorrowerKey, r, x.receipt.passport, t, TheMint)
  \/ x.step = "fund_escrow" /\ FundEscrow(LenderKey, r, x.shortfall)
  \/ x.step = "create_payout_account" /\ OpenPayout(x.payout, TheMint)
  \/ /\ x.step = "present_and_fund"
     /\ \E apr \in Apr, fee \in Fee :
          PresentAndFund(LenderKey, r, x.receipt, x.payout, x.payout, apr, fee)

TransactionOf(c) ==
  [call |-> c, step |-> call[c].step, offer |-> call[c].offer,
   receipt |-> call[c].receipt, payout |-> call[c].payout,
   shortfall |-> call[c].shortfall]

-----------------------------------------------------------------------------
(* The handlers.                                                           *)

Busy(r) ==
  \/ \E c \in Call : call[c] # Idle /\ OfferRequest[call[c].offer] = r
  \/ \E t \in net : OfferRequest[t.offer] = r

Muddle(r, b) == muddled' = IF b THEN muddled \cup {r} ELSE muddled

Begin(c, o, p, a, replay, step, phase) ==
  /\ up
  /\ call[c] = Idle
  /\ p \in Verified[OfferRequest[o]]
  /\ a \in Announced[OfferRequest[o]]
  /\ call' = [call EXCEPT ![c] =
       [phase |-> phase, replay |-> replay, step |-> step, offer |-> o,
        receipt |-> p, payout |-> a, shortfall |-> 0]]
  /\ LET r == OfferRequest[o] IN Muddle(r, Busy(r) \/ (replay /\ vault[r] > Principal(o)))
  /\ UNCHANGED <<chain, net, row, replayed, up, made, short>>

(* collectSettleInput asks neither whether the offer was accepted nor      *)
(* whether the receipt and the payout are the ones the offer was made for. *)
Settle(c, o, p, a) == Begin(c, o, p, a, FALSE, "publish_policy", "check")

(* The handler refuses unless the row is settled; replayOnChain then sends *)
(* present_and_fund as it was, and looks at nothing before.                *)
Replayable(o) == row[o].status = "settled"

Replay(c, o, p, a) ==
  /\ Replayable(o)
  /\ Begin(c, o, p, a, TRUE, "present_and_fund", "send")

Proceed(c) ==
  IF call[c].step = "present_and_fund" THEN Idle
  ELSE [call[c] EXCEPT !.step = After[@],
          !.phase = IF call[c].step = "create_payout_account" THEN "send" ELSE "check"]

(* An error reading the vault is taken for an empty vault.                 *)
ShortfallWhole(c, seen) ==
  IF call[c].step = "fund_escrow" THEN Principal(call[c].offer) ELSE 0
Shortfall(c, seen) ==
  IF call[c].step = "fund_escrow" THEN Principal(call[c].offer) - seen ELSE 0

Check(c) ==
  LET r == OfferRequest[call[c].offer] IN
  /\ call[c].phase = "check"
  /\ \/ /\ OnChain(call[c])
        /\ call' = [call EXCEPT ![c] = Proceed(c)]
        /\ Muddle(r, call[c].step = "fund_escrow" /\ vault[r] > Principal(call[c].offer))
     \/ /\ ~OnChain(call[c])
        /\ call' = [call EXCEPT ![c].phase = "send",
                                ![c].shortfall = Shortfall(c, vault[r])]
        /\ Muddle(r, FALSE)
     \/ /\ ReadsFail /\ call[c].step = "fund_escrow"
        /\ call' = [call EXCEPT ![c].phase = "send",
                                ![c].shortfall = Shortfall(c, 0)]
        /\ Muddle(r, TRUE)
  /\ UNCHANGED <<chain, net, row, replayed, up, made, short>>

VerdictAlwaysSettled(ok) == "settled"
Verdict(ok) == IF ok THEN "settled" ELSE "failed"

(* recordSettlement writes the whole row; a replay appends its step to the  *)
(* row, if that is still there.                                            *)
Record(c, ok) ==
  LET o == call[c].offer IN
  /\ call' = [call EXCEPT ![c] = Idle]
  /\ IF call[c].replay
     THEN /\ replayed' = IF row[o] = None THEN replayed
                         ELSE [replayed EXCEPT ![o] = IF ok THEN "succeeded" ELSE "refused"]
          /\ UNCHANGED row
     ELSE /\ row' = [row EXCEPT ![o] =
               [status |-> Verdict(ok), receipt |-> call[c].receipt,
                payout |-> call[c].payout, principal |-> Principal(o)]]
          /\ replayed' = [replayed EXCEPT ![o] = "none"]

Sent(c) == {t \in net : t.call = c}

SentPhaseUnconfirmed == "landed"
SentPhase == "confirm"

Send(c) ==
  /\ call[c].phase = "send"
  /\ \/ /\ May(call[c])
        /\ Cardinality(Sent(c)) < MaxUnderway
        /\ net' = net \cup {TransactionOf(c)}
        /\ call' = [call EXCEPT ![c].phase = SentPhase]
        /\ UNCHANGED <<row, replayed>>
     \/ /\ ~May(call[c])
        /\ Record(c, FALSE)
        /\ UNCHANGED net
  /\ UNCHANGED <<chain, up, history>>

(* confirmTransaction returned; what it returned is not looked at.         *)
Confirm(c) ==
  /\ call[c].phase \in {"landed", "failed"}
  /\ IF call[c].step = "present_and_fund"
     THEN Record(c, TRUE)
     ELSE /\ call' = [call EXCEPT ![c] = Proceed(c)]
          /\ UNCHANGED <<row, replayed>>
  /\ UNCHANGED <<chain, net, up, history>>

(* An await may throw: an RPC error anywhere but in the read of the vault,  *)
(* or the blockhash expired.                                               *)
Throws(c) ==
  /\ ~(call[c].phase = "check" /\ call[c].step = "fund_escrow")
  /\ call[c].phase = "confirm" => LateLanding

GiveUp(c) ==
  /\ call[c] # Idle
  /\ Throws(c)
  /\ Record(c, FALSE)
  /\ UNCHANGED <<chain, net, up, history>>

(* POST /dev/reset: the rows are gone, the calls that read them go on.      *)
Reset ==
  /\ up
  /\ up' = FALSE
  /\ row' = [o \in Offer |-> None]
  /\ replayed' = [o \in Offer |-> "none"]
  /\ UNCHANGED <<chain, call, net, history>>

(* The process ends; its successor knows none of these rows.               *)
Crash ==
  /\ up' = FALSE
  /\ call' = [c \in Call |-> Idle]
  /\ row' = [o \in Offer |-> None]
  /\ replayed' = [o \in Offer |-> "none"]
  /\ UNCHANGED <<chain, net, history>>

-----------------------------------------------------------------------------
(* The network.                                                            *)

Waits(t) == call[t.call].phase = "confirm" /\ TransactionOf(t.call) = t
Tell(t, phase) ==
  call' = IF Waits(t) THEN [call EXCEPT ![t.call].phase = phase] ELSE call

Expire(t) == Tell(t, "expired")

Succeed(t) ==
  /\ Execute(t) /\ Tell(t, "landed")
  /\ made' = IF t.step = "present_and_fund" THEN made \cup {t.offer} ELSE made
  /\ net' = net \ {t}
  /\ UNCHANGED <<row, replayed, up, short, muddled>>

Refuse(t) ==
  /\ ~May(t) /\ Tell(t, "failed")
  /\ short' = IF t.step = "fund_escrow" THEN short \cup {OfferRequest[t.offer]} ELSE short
  /\ net' = net \ {t}
  /\ UNCHANGED <<chain, row, replayed, up, made, muddled>>

Land(t) == Succeed(t) \/ Refuse(t)

Drop(t) ==
  /\ net' = net \ {t}
  /\ Expire(t)
  /\ UNCHANGED <<chain, row, replayed, up, history>>

Clock == NextDay /\ UNCHANGED <<call, net, row, replayed, up, history>>

-----------------------------------------------------------------------------
Advance(c) == Check(c) \/ Send(c) \/ Confirm(c) \/ GiveUp(c)

Next ==
  \/ \E c \in Call, o \in Offer, p \in Receipt, a \in Payout :
       Settle(c, o, p, a) \/ Replay(c, o, p, a)
  \/ \E c \in Call : Advance(c)
  \/ \E t \in net : Land(t) \/ Drop(t)
  \/ Reset
  \/ Crash
  \/ Clock

Spec == Init /\ [][Next]_vars

-----------------------------------------------------------------------------
(* A settled row is backed by a loan on chain, or its receipt has expired. *)
(* The result of confirmTransaction is ignored, so what makes this true is *)
(* preflight, and that nothing but a loan of the same request and the      *)
(* clock can undo what preflight saw. The clock does: a receipt that       *)
(* expires between preflight and landing is recorded as settled.           *)
SettledHasLoan ==
  \A o \in Offer : row[o].status = "settled" =>
    Settled(OfferRequest[o]) \/ row[o].receipt.expiry <= day

(* "The expected outcome is a failure": presenting a settled receipt again *)
(* does not go through, however calls, losses and late landings interleave *)
(* - except after that expiry, and then only with another receipt of the   *)
(* request.                                                                *)
ReplayRefused ==
  \A o \in Offer : replayed[o] = "succeeded" =>
    \E p, q \in Verified[OfferRequest[o]] : p # q /\ p.expiry <= day

(* "A client cannot settle a different amount than the offer it points     *)
(* at". Whatever overlaps, a loan is worth at least the offer it was made  *)
(* for, unless the escrow was refused on chain. It is worth exactly that,  *)
(* and a settled row is of the offer the loan was made for, when calls     *)
(* came one after the other, the vault was read before it was funded, and  *)
(* no earlier call had filled it for a larger offer and then failed.       *)
PrincipalExact ==
  \A o \in Offer : LET r == OfferRequest[o] IN
    /\ o \in made /\ r \notin short => loan[r].principal >= Principal(o)
    /\ o \in made /\ r \notin short \cup muddled => loan[r].principal = Principal(o)
    /\ row[o].status = "settled" /\ row[o].receipt.expiry > day /\ r \notin muddled =>
         o \in made

(* The sequence "is idempotent": settling again what is settled moves no   *)
(* tokens into an escrow that nothing can empty any more.                  *)
NothingFundedAfterLoan ==
  [][\A r \in Request : Settled(r) => vault'[r] = vault[r]]_vars

=============================================================================
