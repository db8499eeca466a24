----------------------------- MODULE Workspaces -----------------------------
(***************************************************************************)
(* The two workspaces of the web client on top of the marketplace: the     *)
(* applicant's tab (BorrowerView, witnessStore, ConnectAccount,            *)
(* PassportReview, ChallengeResponse, WalletActionDialog) and the lenders' *)
(* tabs (LenderView, PolicyBuilder, VerificationPanel).                    *)
(*                                                                         *)
(* Every call a tab makes is a marketplace operation. The applicant's tab  *)
(* is modelled with its lag: its screen shows the projection it was last   *)
(* sent, a call reaches the server some time after the click, its answer   *)
(* may be lost, and the tab may be reloaded or leave the page meanwhile.   *)
(* A lender's tab acts on the rows as they are; LongPoll shows that tabs   *)
(* catch up. Identity is EnsIdentity's part and taken as ready.            *)
(***************************************************************************)
EXTENDS Marketplace

CONSTANTS
  Applicant,  \* the session of the applicant's tab
  Read,       \* portfolio reads that may be under way at once
  Post,       \* calls of the applicant's tab that may be under way at once
  MaxMounts,  \* bound on how often the tab is reloaded or left
  None

ASSUME WorkspacesAssumption ==
  /\ Applicant \in Borrower /\ MaxMounts \in Nat
  /\ RequestId \cup ChallengeId \cup ProofId \cup OfferId \cup LoanId \subseteq Nat
  /\ None \notin Passport \cup Nat
  /\ \A t \in Time, v \in Validity : t + v \in Expiry

VARIABLES
  view,      \* the projection the applicant's tab shows
  snapshot,  \* the witness store: its status and the snapshot it holds
  stored,    \* the snapshot in sessionStorage, or None
  minted,    \* snapshots read so far: a salt never comes twice
  reads,     \* reads of the portfolio under way
  reviewed,  \* step 2 was reached
  dialog,    \* the open confirmation, or NoDialog
  posts,     \* calls under way
  mounts,
  late,      \* has a read of a view that was left written sessionStorage
  picked     \* picked[l]: the request lender l chose in the inbox, or None

server == vars
applicant == <<snapshot, stored, minted, reads, reviewed>>
calls == <<dialog, posts>>
all == <<vars, view, applicant, calls, mounts, late, picked>>

-----------------------------------------------------------------------------
(* What a tab sees of the rows.                                            *)
Projection == [requests |-> requests, challenges |-> challenges, proofs |-> proofs,
               offers |-> offers, loans |-> loans]

(* newest(): the latest createdAt, the first row of that time.             *)
Newest(ids, table) ==
  IF ids = {} THEN None
  ELSE CHOOSE x \in ids : \A y \in ids :
         \/ table[x].createdAt > table[y].createdAt
         \/ table[x].createdAt = table[y].createdAt /\ x <= y

Kept(table, status) == {id \in DOMAIN table : Exists(table[id]) /\ table[id].status # status}
FirstOf(ids) == IF ids = {} THEN None ELSE CHOOSE x \in ids : \A y \in ids : x <= y

MyRequest(v) ==
  Newest({r \in Kept(v.requests, "withdrawn") : v.requests[r].borrower = Applicant},
         v.requests)

ChallengeShown(v) ==
  LET r == MyRequest(v) IN
  Newest({c \in Kept(v.challenges, "withdrawn") : v.challenges[c].request = r}, v.challenges)

(* A receipt has no time in the model: the last one is the greatest id.    *)
ProofShown(v, c) ==
  LET on == {p \in DOMAIN v.proofs : Exists(v.proofs[p]) /\ v.proofs[p].challenge = c} IN
  IF on = {} THEN None ELSE CHOOSE p \in on : \A q \in on : q <= p

OffersShown(v) ==
  {o \in DOMAIN v.offers : /\ v.offers[o].status \in {"open", "accepted"}
                           /\ v.offers[o].request = MyRequest(v)}

LoanUnpaidShown(v) ==
  FirstOf({n \in Kept(v.loans, "repaid") : v.loans[n].request = MyRequest(v)})
LoanShown(v) ==
  FirstOf({n \in DOMAIN v.loans : Exists(v.loans[n]) /\ v.loans[n].request = MyRequest(v)})

(* The screen: portfolio, review, terms, prove, offers, loan.              *)
Step(v, s, rev) ==
  IF LoanShown(v) # None THEN 5
  ELSE IF OffersShown(v) # {} THEN 4
  ELSE IF MyRequest(v) # None THEN 3
  ELSE IF s.status # "ready" THEN 0
  ELSE IF rev THEN 2 ELSE 1

Screen == Step(view, snapshot, reviewed)

-----------------------------------------------------------------------------
NoRead == [step |-> "idle"]
NoPost == [op |-> "idle"]
NoDialog == [status |-> "closed"]

(* A confirmation keeps what was on the screen when it was opened.         *)
Action == [op : {"list", "withdraw", "accept", "draw", "repay", "prove"},
           id : Nat \cup {None}, passport : Passport \cup {None}]
Does(op, id, w) == [op |-> op, id |-> id, passport |-> w]

Dialog == [action : Action, status : {"ready", "running", "done", "failed"}, effects : Nat]
Sent == [op : {"list", "withdraw", "accept", "draw", "repay", "prove"},
         id : Nat \cup {None}, passport : Passport \cup {None},
         step : {"proving", "sent"}, from : {"dialog", "page"}, mounted : BOOLEAN]
Reading == [step : {"wallet", "fetch"}, form : BOOLEAN, mounted : BOOLEAN]

WorkspacesTypeOK ==
  /\ view \in [requests : [RequestId -> RequestRow \cup Blank],
               challenges : [ChallengeId -> ChallengeRow \cup Blank],
               proofs : [ProofId -> ProofRow \cup Blank],
               offers : [OfferId -> OfferRow \cup Blank],
               loans : [LoanId -> LoanRow \cup Blank]]
  /\ snapshot \in [status : {"empty", "loading", "ready", "error"},
                   held : Passport \cup {None}]
  /\ snapshot.held # None <=> snapshot.status = "ready"
  /\ stored \in minted \cup {None} /\ minted \subseteq Passport
  /\ reads \in [Read -> Reading \cup {NoRead}] /\ reviewed \in BOOLEAN
  /\ dialog \in Dialog \cup {NoDialog}
  /\ posts \in [Post -> Sent \cup {NoPost}]
  /\ mounts \in 0 .. MaxMounts /\ late \in BOOLEAN
  /\ picked \in [Lender -> RequestId \cup {None}]

Nothing == [status |-> "empty", held |-> None]

WorkspacesInit ==
  /\ parties = Session /\ retired = {}
  /\ requests = [r \in RequestId |-> NoRow]
  /\ challenges = [c \in ChallengeId |-> NoRow]
  /\ proofs = [p \in ProofId |-> NoRow]
  /\ offers = [o \in OfferId |-> NoRow]
  /\ loans = [n \in LoanId |-> NoRow]
  /\ payouts = [a \in PayoutId |-> NoRow]
  /\ nullifiers = [n \in Nullifier |-> NoProof]
  /\ verifying = [k \in CallId |-> Idle]
  /\ now = 0
  /\ view = Projection
  /\ snapshot = Nothing /\ stored = None /\ minted = {}
  /\ reads = [k \in Read |-> NoRead] /\ reviewed = FALSE
  /\ dialog = NoDialog /\ posts = [x \in Post |-> NoPost]
  /\ mounts = 0 /\ late = FALSE
  /\ picked = [l \in Lender |-> None]

-----------------------------------------------------------------------------
(* Reading the portfolio. The form is gone once the screen is another one, *)
(* and with it the phase that disables its button.                         *)
Loading == snapshot.status = "loading"
Prompting == \E k \in Read : reads[k].step = "wallet" /\ reads[k].form

WithForm(rs, v, s, rev) ==
  IF Step(v, s, rev) = 0 THEN rs
  ELSE [k \in Read |-> IF rs[k] = NoRead THEN NoRead ELSE [rs[k] EXCEPT !.form = FALSE]]

Connect(k) ==
  /\ Screen = 0 /\ ~Loading /\ ~Prompting /\ reads[k] = NoRead
  /\ reads' = [reads EXCEPT ![k] = [step |-> "wallet", form |-> TRUE, mounted |-> TRUE]]
  /\ UNCHANGED <<server, view, snapshot, stored, minted, reviewed, calls, mounts, late, picked>>

WalletRefuses(k) ==
  /\ reads[k].step = "wallet"
  /\ reads' = [reads EXCEPT ![k] = NoRead]
  /\ UNCHANGED <<server, view, snapshot, stored, minted, reviewed, calls, mounts, late, picked>>

(* load(): the store forgets the snapshot it holds, sessionStorage not yet. *)
WalletSigns(k) ==
  /\ reads[k].step = "wallet"
  /\ reads' = [reads EXCEPT ![k].step = "fetch"]
  /\ snapshot' = IF reads[k].mounted THEN [status |-> "loading", held |-> None] ELSE snapshot
  /\ UNCHANGED <<server, view, stored, minted, reviewed, calls, mounts, late, picked>>

WrittenNever(w) == stored
Written(w) == w

(* The answer reaches the store of the view that asked; sessionStorage     *)
(* belongs to the tab and is written whether that view is there or not.    *)
ReadEnds(k) ==
  /\ reads[k].step = "fetch"
  /\ \E w \in Passport \cup {None} :
       /\ w \notin minted
       /\ minted' = minted \cup ({w} \ {None})
       /\ stored' = Written(w)
       /\ IF reads[k].mounted
          THEN /\ snapshot' = [status |-> IF w = None THEN "error" ELSE "ready", held |-> w]
               /\ reviewed' = FALSE
               /\ UNCHANGED late
          ELSE UNCHANGED <<snapshot, reviewed>> /\ late' = TRUE
  /\ reads' = WithForm([reads EXCEPT ![k] = NoRead], view, snapshot', reviewed')
  /\ UNCHANGED <<server, view, calls, mounts, picked>>

ReadAgain ==
  /\ Screen = 1 /\ dialog = NoDialog
  /\ snapshot' = Nothing /\ stored' = None
  /\ UNCHANGED <<server, view, minted, reads, reviewed, calls, mounts, late, picked>>

Review ==
  /\ dialog = NoDialog
  /\ \/ Screen = 1 /\ reviewed' = TRUE
     \/ Screen = 2 /\ reviewed' = FALSE
  /\ UNCHANGED <<server, view, snapshot, stored, minted, reads, calls, mounts, late, picked>>

-----------------------------------------------------------------------------
(* What the screen offers for confirmation.                                *)
Withdrawing == \E x \in Post : posts[x].op = "withdraw" /\ posts[x].mounted
Submitting(r) ==
  \E x \in Post : /\ posts[x].op = "prove" /\ posts[x].mounted
                  /\ challenges[posts[x].id].request = r

OffersLoanActions(n) ==
  (IF view.loans[n].status = "funded" THEN {Does("draw", n, None)} ELSE {})
  \cup IF view.loans[n].status = "repayment_due" THEN {Does("repay", n, None)} ELSE {}

Confirmable ==
  CASE Screen = 2 -> {Does("list", None, snapshot.held)}
    [] Screen = 4 -> {Does("accept", o, None) : o \in OffersShown(view)}
    [] Screen = 5 -> OffersLoanActions(LoanShown(view))
    [] OTHER -> {}

MayWithdrawListed == MyRequest(view) # None
MayWithdraw == MyRequest(view) # None /\ LoanShown(view) = None

MayProve ==
  LET c == ChallengeShown(view) IN
  /\ Screen = 3 /\ c # None /\ ProofShown(view, c) = None
  /\ snapshot.status = "ready" /\ view.challenges[c].expiresAt > now

OpenDialog(a) ==
  /\ dialog = NoDialog /\ ~Withdrawing
  /\ a \in Confirmable
  /\ dialog' = [action |-> a, status |-> "ready", effects |-> 0]
  /\ UNCHANGED <<server, view, applicant, posts, mounts, late, picked>>

Sends(x, a, step, from) ==
  posts' = [posts EXCEPT ![x] = [op |-> a.op, id |-> a.id, passport |-> a.passport,
                                 step |-> step, from |-> from, mounted |-> TRUE]]

(* Confirm, or try again after a failure.                                  *)
Confirm(x) ==
  /\ dialog # NoDialog /\ dialog.status \in {"ready", "failed"} /\ posts[x] = NoPost
  /\ dialog' = [dialog EXCEPT !.status = "running"]
  /\ Sends(x, dialog.action, "sent", "dialog")
  /\ UNCHANGED <<server, view, applicant, mounts, late, picked>>

CloseDialog ==
  /\ dialog # NoDialog /\ dialog.status # "running"
  /\ dialog' = NoDialog
  /\ UNCHANGED <<server, view, applicant, posts, mounts, late, picked>>

ClickWithdraw(x) ==
  /\ dialog = NoDialog /\ ~Withdrawing /\ MayWithdraw /\ posts[x] = NoPost
  /\ Sends(x, Does("withdraw", MyRequest(view), None), "sent", "page")
  /\ UNCHANGED <<server, view, applicant, dialog, mounts, late, picked>>

(* generate(): challenge and snapshot are those of the click.              *)
Generate(x) ==
  /\ dialog = NoDialog /\ MayProve /\ ~Submitting(MyRequest(view)) /\ posts[x] = NoPost
  /\ Sends(x, Does("prove", ChallengeShown(view), snapshot.held), "proving", "page")
  /\ UNCHANGED <<server, view, applicant, dialog, mounts, late, picked>>

ProofMade(x) ==
  /\ posts[x].op = "prove" /\ posts[x].step = "proving"
  /\ posts' = [posts EXCEPT ![x].step = "sent"]
  /\ UNCHANGED <<server, view, applicant, dialog, mounts, late, picked>>

ProofFails(x) ==
  /\ posts[x].op = "prove" /\ posts[x].step = "proving"
  /\ posts' = [posts EXCEPT ![x] = NoPost]
  /\ UNCHANGED <<server, view, applicant, dialog, mounts, late, picked>>

-----------------------------------------------------------------------------
(* A call arrives: what the server does with it.                           *)
NextId(table) == FirstOf(Unused(table))

MayPerform(a) ==
  \/ a.op = "list" /\ MayPublishRequest(Applicant, NextId(requests))
  \/ a.op = "withdraw" /\ MayWithdrawRequest(Applicant, a.id)
  \/ a.op = "accept" /\ MayAcceptOffer(Applicant, a.id, NextId(loans))
  \/ a.op = "draw" /\ MayDrawLoan(Applicant, a.id)
  \/ a.op = "repay" /\ MayRepayLoan(Applicant, a.id)
  \/ a.op = "prove" /\ MaySubmitProof(Applicant, NextId(proofs), a.id)

Perform(a) ==
  \/ a.op = "list" /\ PublishRequest(Applicant, NextId(requests), a.passport)
  \/ a.op = "withdraw" /\ WithdrawRequest(Applicant, a.id)
  \/ a.op = "accept" /\ AcceptOffer(Applicant, a.id, NextId(loans))
  \/ a.op = "draw" /\ DrawLoan(Applicant, a.id)
  \/ a.op = "repay" /\ RepayLoan(Applicant, a.id)
  \/ /\ a.op = "prove"
     /\ SubmitProof(Applicant, NextId(proofs), a.id,
                    requests[challenges[a.id].request].passport = a.passport,
                    challenges[a.id].expiresAt)

VerdictUncaught(ok) == IF ok THEN "done" ELSE "running"
Verdict(ok) == IF ok THEN "done" ELSE "failed"

(* The answer of a call whose view is gone changes nothing. A withdrawal   *)
(* that worked brings the terms back.                                      *)
Answer(x, ok, effects) ==
  LET post == posts[x] IN
  /\ posts' = [posts EXCEPT ![x] = NoPost]
  /\ dialog' = IF post.mounted /\ post.from = "dialog"
               THEN [dialog EXCEPT !.status = Verdict(ok), !.effects = @ + effects]
               ELSE dialog
  /\ reviewed' = (reviewed \/ (ok /\ post.op = "withdraw" /\ post.mounted))
  /\ UNCHANGED <<view, snapshot, stored, minted, reads, mounts, late, picked>>

Arrives(x) ==
  /\ posts[x].op # "idle" /\ posts[x].step = "sent"
  /\ Perform(posts[x])
  /\ \E ok \in BOOLEAN : Answer(x, ok, 1)

(* Refused, or lost before it arrived.                                     *)
ComesToNothing(x) ==
  /\ posts[x].op # "idle" /\ posts[x].step = "sent"
  /\ Answer(x, FALSE, 0)
  /\ UNCHANGED server

(* A newer projection arrives.                                             *)
Refresh ==
  /\ view # Projection
  /\ view' = Projection
  /\ reads' = WithForm(reads, Projection, snapshot, reviewed)
  /\ UNCHANGED <<server, snapshot, stored, minted, reviewed, calls, mounts, late, picked>>

(* The view is mounted anew and starts from sessionStorage. Navigation     *)
(* leaves what is under way running, a reload ends it in the tab.          *)
Restored == IF stored = None THEN Nothing ELSE [status |-> "ready", held |-> stored]

Mount(keptReads, keptPosts) ==
  /\ mounts < MaxMounts
  /\ mounts' = mounts + 1
  /\ snapshot' = Restored /\ reviewed' = FALSE /\ dialog' = NoDialog
  /\ view' = Projection
  /\ reads' = [k \in Read |-> IF k \in keptReads /\ reads[k] # NoRead
                 THEN [reads[k] EXCEPT !.mounted = FALSE, !.form = FALSE] ELSE NoRead]
  /\ posts' = [x \in Post |-> IF x \in keptPosts /\ posts[x] # NoPost
                 THEN [posts[x] EXCEPT !.mounted = FALSE] ELSE NoPost]
  /\ UNCHANGED <<server, stored, minted, late, picked>>

SentPosts == {x \in Post : posts[x].op # "idle" /\ posts[x].step = "sent"}
Navigate == Mount(Read, Post)
Reload == Mount({}, SentPosts)

-----------------------------------------------------------------------------
(* A lender's tab: the request picked in the inbox, or the one its newest  *)
(* challenge is on.                                                        *)
AllChallenges(l) == Kept(challenges, "withdrawn")
OwnChallenges(l) == {c \in Kept(challenges, "withdrawn") : challenges[c].lender = l}
Landing(l) ==
  LET c == Newest(OwnChallenges(l), challenges) IN
  IF c = None THEN None ELSE challenges[c].request

RequestShown(l) ==
  LET r == IF picked[l] # None /\ Live(picked[l]) THEN picked[l] ELSE Landing(l) IN
  IF r # None /\ Live(r) THEN r ELSE None

LenderChallenge(l) ==
  Newest({c \in OwnChallenges(l) : challenges[c].request = RequestShown(l)}, challenges)
LenderProof(l) ==
  IF LenderChallenge(l) = None THEN None ELSE ProofShown(Projection, LenderChallenge(l))
LenderOffers(l) ==
  {o \in OfferId : /\ offers[o].status \in {"open", "accepted"} /\ offers[o].lender = l
                   /\ offers[o].request = RequestShown(l)}
Underwriting(l) == RequestShown(l) # None /\ LenderOffers(l) = {}
Verifying(l) ==
  \E k \in CallId : verifying[k] # Idle /\ verifying[k].proof = LenderProof(l)

tabs == <<view, applicant, calls, mounts, late>>

Pick(l, r) ==
  /\ RequestShown(l) = None /\ Live(r)
  /\ picked' = [picked EXCEPT ![l] = r]
  /\ UNCHANGED <<server, tabs>>

BackToMarket(l) ==
  /\ picked[l] # None
  /\ picked' = [picked EXCEPT ![l] = None]
  /\ UNCHANGED <<server, tabs>>

SendPolicy(l, y, validity) ==
  /\ Underwriting(l) /\ LenderChallenge(l) = None
  /\ CreateChallenge(l, NextId(challenges), RequestShown(l), y, validity)
  /\ UNCHANGED <<tabs, picked>>

TakeBack(l) ==
  /\ Underwriting(l) /\ LenderChallenge(l) # None /\ ~Verifying(l)
  /\ WithdrawChallenge(l, LenderChallenge(l))
  /\ UNCHANGED <<tabs, picked>>

Verify(l, k) ==
  /\ Underwriting(l) /\ LenderProof(l) # None /\ ~Verifying(l)
  /\ proofs[LenderProof(l)].status # "verified"
  /\ BeginVerify(l, k, LenderProof(l))
  /\ UNCHANGED <<tabs, picked>>

Fund(l) ==
  /\ Underwriting(l) /\ LenderProof(l) # None /\ ~Verifying(l)
  /\ CreateOffer(l, NextId(offers), LenderProof(l))
  /\ UNCHANGED <<tabs, picked>>

CallDue(l) ==
  \E o \in LenderOffers(l), n \in LoanId :
    /\ Exists(loans[n]) /\ loans[n].offer = o
    /\ MarkRepaymentDue(l, n)
    /\ UNCHANGED <<tabs, picked>>

Verified(k) == FinishVerify(k) /\ UNCHANGED <<tabs, picked>>
Passes == Tick /\ UNCHANGED <<tabs, picked>>

-----------------------------------------------------------------------------
Settles(x) == Arrives(x) \/ ComesToNothing(x)

WorkspacesNext ==
  \/ \E k \in Read : Connect(k) \/ WalletRefuses(k) \/ WalletSigns(k) \/ ReadEnds(k)
  \/ ReadAgain \/ Review \/ Refresh \/ CloseDialog \/ Navigate \/ Reload
  \/ \E a \in Confirmable : OpenDialog(a)
  \/ \E x \in Post : \/ Confirm(x) \/ ClickWithdraw(x) \/ Generate(x) \/ ProofMade(x)
                     \/ ProofFails(x) \/ Settles(x)
  \/ \E l \in Lender :
       \/ \E r \in RequestId : Pick(l, r)
       \/ \E y \in Policy, v \in Validity : SendPolicy(l, y, v)
       \/ \E k \in CallId : Verify(l, k)
       \/ BackToMarket(l) \/ TakeBack(l) \/ Fund(l) \/ CallDue(l)
  \/ \E k \in CallId : Verified(k)
  \/ Passes

(* apiClient sets no time limit: that a call is answered or fails is the    *)
(* fairness of the browser's fetch and of a backend whose handlers answer.  *)
WorkspacesSpec ==
  /\ WorkspacesInit /\ [][WorkspacesNext]_all
  /\ \A x \in Post : WF_all(Settles(x))

-----------------------------------------------------------------------------
(* What the screen offers on a projection that is up to date, the server   *)
(* does (MayX is all that a handler asks before it acts): no button of the *)
(* applicant is a dead end, as long as there are ids for new rows.         *)
HasId(a) ==
  /\ a.op = "list" => Unused(requests) # {}
  /\ a.op = "accept" => Unused(loans) # {}
  /\ a.op = "prove" => Unused(proofs) # {}
OnPage ==
  {a \in {Does("withdraw", MyRequest(view), None)} : MayWithdraw} \cup
  {a \in {Does("prove", ChallengeShown(view), snapshot.held)} : MayProve}
ButtonsWork ==
  view = Projection => \A a \in Confirmable \cup OnPage : HasId(a) => MayPerform(a)

(* One confirmation has one effect at most, however often it is tried      *)
(* again after a lost answer - but for a listing, which nothing tells from *)
(* a second one.                                                           *)
OneEffect ==
  dialog # NoDialog /\ dialog.action.op # "list" => dialog.effects <= 1

(* While a request stays the one on the screen, the screen never goes back. *)
ScreenForward ==
  [][MyRequest(view) # None /\ MyRequest(view)' = MyRequest(view) => Screen' >= Screen]_all

(* The snapshot survives a reload: what sessionStorage holds is what the   *)
(* tab holds, unless a read of a view that was left has written it since.  *)
StoredIsHeld == snapshot.status = "ready" /\ ~late => stored = snapshot.held

(* A lender funds receipts that answer its own policy only, although the   *)
(* server lets it price any.                                               *)
FundsItsOwn ==
  \A o \in OfferId : Exists(offers[o]) =>
    challenges[proofs[offers[o].proof].challenge].lender = offers[o].lender

(* A confirmation that was sent is answered.                               *)
DialogsEnd == (dialog # NoDialog /\ dialog.status = "running")
                ~> (dialog = NoDialog \/ dialog.status # "running")

=============================================================================
