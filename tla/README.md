# ZKredit: a verification project

TLA+ modules, TLC runs and TLAPS proofs for the ZKredit monorepo: a credit
marketplace in which a borrower publishes a commitment to a private portfolio,
lenders answer with a lending policy, the borrower proves in zero knowledge that
the portfolio satisfies it, and a lender funds a loan against the verified
receipt, off chain in an in-memory store and on chain through the Solana program
`private_credit`.

`PROJECT.json` lists the components, the runs, the mutants (for every property a
plausible bug of the code that breaks it), the source lines behind every
definition, the hazards and the theorems.

## 1. Inventory

| Part | Source | State it keeps | Operations |
| --- | --- | --- | --- |
| Protocol store | `backend/src/protocol/store.ts` | tables of parties, requests, challenges, proofs, offers, loans, payouts, settlements; claimed nullifiers; a version; waiting long polls | createSession, publish/withdrawRequest, create/withdrawChallenge, submitProof, recordVerification, claimNullifier, createOffer, acceptOffer, drawLoan, markRepaymentDue, repayLoan, announcePayout, recordSettlement, appendSettlementStep, waitForChange, reset |
| Marketplace routes | `backend/src/routes/api.ts` | none but the handlers waiting on an `await` | one handler per store operation; `GET /state` (long poll), `POST /proofs/:id/verify`, `POST /settlements`, `POST /settlements/:id/replay`, `POST /dev/reset` |
| Settlement adapter | `backend/src/adapters/solanaSettlement.ts` | the operator's key and token accounts | settleOnChain (publish_policy, publish_request, fund_escrow, create_payout_account, present_and_fund), replayOnChain, settlementConfig |
| On-chain program | `solana/programs/private_credit/src/lib.rs` | config, policy, request, loan and nullifier accounts, one vault per request | initialize, publish_policy, publish_request, fund_escrow, present_and_fund, draw, repay |
| Shared-state client | `frontend/src/shared/useProtocolState.ts`, `session.ts`, `apiClient.ts` | session id in the tab, last snapshot, `since` | claim a session, long poll, back off, re-claim after 404/410 |
| Prover | `frontend/src/borrower/useProver.ts`, `proverWorker.ts`, `buildProofInput.ts` | one shared worker with a reference count and a teardown timer, pending proofs, cached artifacts | acquire, retain, release, prove, worker messages and errors |
| Passport | `backend/src/routes/passport.ts`, `adapters/solanaPortfolio.ts`, `prices.ts`, `mints.ts` | 60 s cache and in-flight table per wallet, price cache | read a portfolio, scan its history, price it |
| RPC failover | `backend/src/adapters/solanaRpc.ts` | preferred endpoint | call with failover |
| Policy, hashing, circuit | `backend/src/protocol/policy.ts`, `hashing.ts`, `zk/circuits/credit_policy.circom`, `frontend/src/shared/policy.ts` | none | evaluate a policy, commitment, nullifier |
| Receipt checks and encoding | `backend/src/protocol/verifier.ts`, `adapters/proofBytes.ts`, `frontend/src/shared/signalLayout.ts` | the loaded verifying key and what boot found of the artifacts | load the layout and the key, compare the browser's copies, signal order, pairing check, byte encodings |
| Applicant identity | `frontend/src/borrower/ensIdentity.tsx`, `EnsIdentityPanel.tsx` | wallet, name, resolution, payout record, viewing key, publishing | set a name, look up, connect, sign the viewing key, publish the record, restore after a reload |
| ENS client and payout | `frontend/src/shared/ensClient.ts`, `ensPayout.ts`, `lender/PayoutDerivation.tsx`, `borrower/PayoutRecovery.tsx` | the announcement in the store | read two registries, derive a one-time address, announce, recover |
| Witness store | `frontend/src/borrower/witnessStore.tsx`, `ConnectAccount.tsx` | snapshot, salt and commitment in the tab and in `sessionStorage` | read a portfolio, forget it, restore it |
| Wallets | `frontend/src/shared/wallets.ts` | the extensions' own | connect, sign, send a record |
| Workspaces | `frontend/src/components/BorrowerView.tsx`, `LenderView.tsx`, `WalletActionDialog.tsx`, `lender/*` | which screen, the open confirmation, the picked request | the applicant's six screens and their confirmations; a lender's inbox, policy, verification, offer, call |
| Circuit build | `zk/build.mjs`, `zk/emit-program-vk.mjs` | `zk/build`, `frontend/public/zk`, `vk.rs`, `vk_hash.json` | preflight, compile, ceremony, value check, copies; emit the program's key |
| Deployment scripts | `scripts/solana.mjs`, `scripts/solana-setup.mjs` | a local chain, `.solana/deployment.json` | up, down, build, deploy, setup |
| Server shell | `backend/src/index.ts`, `app.ts` | none | boot, serve, shut down |
| Fixtures, end-to-end scripts, prototype, content pages | `zk/*.test.mjs`, `scripts/*`, `prototype/` | none | sequential checks and static pages |

**How they interact.** Browsers call the API over HTTP and learn of changes by the
long poll; the routes call the store synchronously, and only `verify`,
`/settlements`, `/replay`, the long poll and the passport await anything, so those
five are where handlers interleave in the single-threaded backend. The settlement
adapter reads rows collected from the store, sends one transaction per step to the
program and hands one finished row back. The store knows nothing of the chain and
the program nothing of the store: the receipt is what both check.

**What is hard.** Handlers that resume after an `await` in a store that moved on
or was wiped; two settlements of one offer; transactions whose outcome is not
known; a restart of a backend with all its state in memory; clients whose
session id outlives the store; a worker shared by components that mount and
unmount; reads of one wallet that several callers share; clocks (challenge
validity, receipt expiry, loan terms, caches); a screen drawn from rows that have
moved on, whose confirmation is answered late, twice or never; look-ups of ENS names
that overlap in one form and fall back between two registries; one key that five
scripts copy from file to file, each of which may be stopped between two.

**What makes each part correct.**

- store and routes: a request is lent against once, only on a checked, eligible
  receipt that owns its nullifier, whatever verifications are in flight; a
  withdrawal leaves nothing behind; statuses agree with rows and only go forward;
- program: a nullifier is spent exactly by one loan; an escrow pays only that loan;
- settlement: what is recorded as settled is a loan on chain with those terms,
  every call is answered, and no token is sent where nothing can move it;
- long poll: no lost wakeup, no rows of a store that is gone, every tab catches up;
- prover: one worker, never torn down under a mounted screen, every proof settles,
  the button tells the truth;
- passport: one read per wallet at a time, all of them end, what is served is
  fresh, an account is never reported older than it is, and the circuit's verdict
  is the one the applicant was shown;
- identity: nothing stays disabled, the viewing key is the connected wallet's, and
  who owns the listed name is the one who recovers what a lender pays it;
- workspaces: a button drawn from current rows works, a confirmation acts once, a
  request's screen only goes forward, the witness survives a reload, a lender funds
  receipts for its own policy;
- release: what a ready backend verifies is what a browser can prove, under a circuit
  that passed its build, and what the program accepts; a recorded deployment works.

## 2. Modules

```
CreditLifecycle <-- MarketplaceRefinement --> Marketplace
                    MarketplaceRefinement <-- MarketplaceProofs
PrivateCredit   <-- Settlement     <-- SettlementProofs
LongPoll        <-- LongPollProofs ,  Prover        <-- ProverProofs
RpcFailover, CreditPolicy <-- Passport <-- PassportProofs
EnsIdentity     <-- EnsIdentityProofs
Marketplace     <-- Workspaces
                    Workspaces, MarketplaceProofs <-- WorkspacesProofs
Receipts        <-- Release        <-- ReleaseProofs
```

`MCx` extends `x` with the constants and symmetry of its runs. Operators that a
run's mutant puts in place of another stand just before it.

### Marketplace: the store and its routes

The tables of `store.ts` are functions from ids to rows, `NoRow` or `Wiped` (ids
are UUIDs and never come back). A handler that never awaits is one action and a
handler that answers 4xx a disabled one. `POST /proofs/:id/verify` is two:
`BeginVerify` evaluates the bindings up to the pairing check, `FinishVerify` claims
the nullifier and overwrites the verdict in whatever store it then finds. `Reset` is
`POST /dev/reset`, which waiting handlers survive; `Restart` ends the process and
them. A nullifier is the triple it is hashed from; `sound` stands for the checks
that read only the receipt. The conditions under which a handler answers at all are
operators `MayX` where a screen depends on them. The version and its waiters are in
`LongPoll`. `Next` is the disjunction of `RequestRoutes`, `ChallengeRoutes`,
`ReceiptRoute`, `VerifyRoute`, `OfferRoutes`, `PayoutRoute`, `LoanRoutes`, grouped as in
`api.ts`, and `ServerStep`.

`CreditLifecycle` is what all this promises about one request: listed, backed by a
checked receipt, closed or lent against at most once and only when backed, then
drawn, called, repaid. `MarketplaceRefinement` maps the rows to it: a request is
*backed* while a sound eligible receipt on it owns its nullifier, and *lent* from
the moment it has a loan.

### PrivateCredit: the program

One action per instruction, its guard an operator `MayX` of its own because the
backend meets it twice, in preflight and on chain. Accounts at derived addresses are
functions from their seeds, token accounts from their owner and mint. Amounts,
interest (`Elapsed`, `Interest`, `TotalRepayment`) and the clock are numbers; the
pairing check is that a receipt is a record at all. As in the code, the address a loan
records (`payout_address`, an argument) and the owner of the account that is paid (tied
to the `payout` account only) are chosen apart in `PresentAndFund`, and `Repay` takes
any mint.

### Settlement: the adapter running against the program

A call goes through `check`, `send`, `confirm` for each step, as `settleOnChain`
awaits; a transaction lies in `net` until it lands or is dropped. Calls overlap
freely, no lock keeps them apart. `Send` has the preflight condition, `Succeed` and
`Refuse` (together `Land`) the condition at execution; `Confirm` ignores which of the
two outcomes it was told, as the code does. Any offer of a request may be settled,
whatever became of it, and the clock may pass a receipt's expiry anywhere. `Record` is
`recordSettlement` or, for a replay, `appendSettlementStep`; `Replayable` is what a row
must say for `Replay` to begin.
Which receipt and payout a call takes is fixed by the store's rows: `StoreAssumption`
states what `Marketplace` guarantees about them. Three variables are history, read by
`PrincipalExact` only: `made`, the offers whose last step made the loan; `short`, the
requests one of whose fundings was refused on chain; `muddled`, the requests that two
calls settled at once, or whose vault could not be read or held more than the offer.

### LongPoll: the store's version, `GET /state` and the client's loop

A store is a generation and a version in it. `ServeState` is `requireParty` and the
branch that answers or holds; `WakeAll` is `#bump` draining its waiters. The tab's
loop is `Claim`, `ServeClaim`, `Claimed`, `Poll`, `ServeState`, `Receive`,
`ReceiveGone`, `Resume`; `Refresh` aborts a poll, `Fault` loses a message, `Remount`
is a reload or React's second run of the effect.

### Prover: the shared worker

`Render`, `Mount`, `Rerender`, `Hide`, `Discard` are what React does with the
provider; `ShareCurrent`, `RefsAfterRelease`, `Teardown` the singleton, its count and
grace timer; `Start`, `Load`, `Finish`, `JobFails` the worker; `Receive`, `Fail` the
client's message and error handling; `Generate`, `Prove` the button, whose input is
built across an `await`.

### Passport, RpcFailover, CreditPolicy: from the chain to the verdict

`RpcFailover` has one attempt per step and reads `preferred` again before each, as
the loop does. `Passport` is the route (`Post`: refuse, cached, join, start), the
builder step by step, the price cache, and the page scan with its outcomes (short
page, horizon reached, page cap, no signature); `garbled` are the signatures whose
block times the node left out or zeroed. `CreditPolicy` has the four comparisons as
the screens make them and as the circuit does, down to the comparator's bit, with
the range checks; `2^bits` are constants. `AgeNeverOverstated` runs all three
together, from the page scan to the circuit's bit.

### EnsIdentity: a name, its record and the payout

Every call of the store (`lookup`, `connect`, `sign`, `publish`) is a task that goes
from await to await: `ResolveName`, `ReadRecord`, `PrimaryName`, `PublishChecked` and
`Mined` are what the node answers, `Connected`, `Signed`, `SendSetText` what the wallet
does. Two tasks may be under way, as the panel's own guards (`Editable`, `Busy`,
`Switchable`) allow; the recovery screen's pickers (`TriesAnother`) connect another
account while the wallet may still be asked something (`AtWallet`), and `overtaken`
remembers that one did. `Answers` is the order of the registries, with what an error
makes of it: `findResolverV2` takes any for "not in v2". `OpenDialog` and
`CloseDialog` list a request under the name the dialog was opened with;
`ReadForPayout`, `Announce` and `Recovers` are the lender's derivation and the
applicant's recovery, where a viewing key is the account it is derived from and an
address the triple it is derived from. `Reload` forgets all but wallet and name.

### Workspaces: the screens on top of the marketplace

Extends `Marketplace`: a call a tab makes *is* a store operation. The applicant's tab
shows `view`, the projection it was last sent, and everything on its screen is
computed from that (`MyRequest`, `ChallengeShown`, `OffersShown`, `LoanShown`,
`Screen`). A confirmation is `OpenDialog`, `Confirm`, then `Arrives` (the server
acts, and the answer may be lost) or `ComesToNothing`, then `CloseDialog` or another
`Confirm`. `Connect`, `WalletSigns`, `ReadEnds` are the witness store's `load()`, two of
which may overlap. `Navigate` unmounts the view under its calls, `Reload` the whole
tab. The lenders' screens (`RequestShown`, `LenderChallenge`, `LenderProof`,
`Underwriting`) act on the rows as they are. `MayPerform` asks the handler behind a
button (`MayX` of `Marketplace`) whether it would do what the button says.

### Receipts, Release: one key through five scripts

`Receipts` has the conversions as operators: named signals to the array and back, the
field checks, what snarkjs compares (reduced), what `toSolanaProof` changes (the sign
of A, the limbs of B) or refuses (a number of more than 32 bytes) and what the program
reads (not reduced). A proof is the statement it proves, the key it was made under and
how its coordinates are written (`Writing`), which is up to the client.

`Release` moves a key through `zk:build` (`StartBuild` to `Copy`, one action per file
copied, `StopBuild` anywhere), the SPA build, `solana:build`, the deployment
and `solana:setup` (stopped anywhere, run again, on a chain that may be reset under
it), then boots a backend (`BootKey`, `BootCompare`), lets a tab fetch wasm and zkey
separately, prove and submit (the coordinates `Rewritten` as it likes). `since` records
what was written after the boot or the setup looked at it: no check of the code can
speak of that.

## 3. Runs

Every bound is a constant of a `.cfg`. Two of a kind is where the conflicts are: two
lenders for one request, two requests for one passport, two calls for one offer, two
tabs, two proofs, two builds; nothing in the code treats a third differently.

| Run | Instance | What it shows |
| --- | --- | --- |
| `market` | two lenders, one request, one passport, two challenges, proofs, offers and loans, two verifications in flight, clock 0..2, resets and restarts | status and rows agree (`StatusMeaning`), one loan (`OneLoanPerRequest`), no policy revoked under a proof (`ProofsAnswerTheirChallenge`), offers rest on a checked receipt (`OfferRestsOnReceipt`), a verified receipt owns its nullifier and a claim made after a wipe blocks nobody (`VerifiedOwnsNullifier`, `NoStrandedNullifier`, `FirstClaimWins`), no request goes back (`LifecycleForward`); `Marketplace` implements `CreditLifecycle` |
| `program` | two requests, two keys with one token of each of two mints, two passports of which one qualifies, two verifiers (so two receipts can pay), amounts 1 and 2, days 0..2, receipts expiring on the last | nullifiers and loans correspond one to one (`SpentByItsLoan`), loans are justified (`LoanJustified`), escrows pay once and whole (`VaultPaysItsLoanOnce`), terms are fixed (`LoanTermsFixed`), what is owed runs as the draw and the cap say (`InterestClock`) |
| `settlement` | two calls on two offers of different amounts on one request, one receipt that expires as the clock first moves, late and lost transactions, reads that fail, resets, a crash | a settled row has a loan unless its receipt expired (`SettledHasLoan`), a replay never succeeds (`ReplayRefused`), a loan is worth at least its offer and, undisturbed, exactly it (`PrincipalExact`) |
| `polling` | two tabs, three versions, three generations, one lost message, one reload | no lost wakeup, no stale rows, every tab catches up |
| `proving` | two proofs, three workers, two failures | one worker, never leaked nor torn down under a screen, honest status, every proof settles |
| `reading` | two wallets, three requests, two endpoints of which the second refuses token accounts, one fault, clock 0..1, pages of two | fresh passports and prices, no overstated age from scan to circuit, every read ends |
| `identity` | two accounts, two names, two tasks at once, in the panel or on the recovery screen, one failed read (v2's resolver included) or receipt, one reload, two ephemeral keys | nothing stays disabled (`BusyIsServed`), `ViewingIsTheWallets`, `OwnerRecovers`, `LookUpsEnd` |
| `workspaces` | an applicant and two lenders, two portfolio snapshots, two reads at once, one call at a time, one row of each table, one reload or navigation | `ButtonsWork`, `OneEffect`, `StoredIsHeld`, `FundsItsOwn`, `ScreenForward`, `DialogsEnd` |
| `release` | two ceremonies, two mints, circuits that are good, revised (also good), drifted (hashes differ) and reordered (signals differ), two signals, a field of two elements in numbers up to 3, coordinates written in all three ways | `ReadyIsProvable`, `AcceptedIsSound`, `AcceptedIsPresentable`, `DeploymentIsUsable` |
| `reverify`, `resettled`, `failover` | the smallest that shows it | see section 5 |

Ids are numbers in `workspaces`, drawn in order, so that "newest" has a last word
when two rows have one timestamp; `Expiry` are the expiries a receipt may name, the
challenge's own among them.

Two ceremonies are what it takes for files of different builds to meet, a field
smaller than the numbers for a receipt to name one element twice; one row of each
table in `workspaces` still has an applicant and two lenders race for it, and
`market` has two of each.

`CHECK_DEADLOCK FALSE` stands where the system may stop: every call made and
answered and every bound reached (`settlement`, `resettled`, `proving`, `reading`,
`failover`, `identity`, `workspaces`, `release`). Sessions, ids, calls and the two good
circuits are interchangeable and symmetric where no liveness is checked.

Type invariants (`TypeOK`, `SettlementTypeOK`; `ReleaseTypes` in `ReleaseProofs`) are
proved for `Marketplace`, `PrivateCredit`, `Settlement`, `LongPoll`, `Prover`, `Passport`
(with `RpcFailover`), `EnsIdentity`, `Release` and `Workspaces`, so no run repeats them.

What the code does not deliver, a property names as its exception rather than the run
leaving it out. `SettledHasLoan` and `ReplayRefused` except a receipt that expired:
one that does so between preflight and landing is recorded as settled. For one receipt
of a request, as in the run, nothing of that exception is left for `ReplayRefused`; the
other half, a second receipt presented after the first expired, is proved only.
`PrincipalExact` promises the exact amount, and that a settled row is of the offer the
loan was made for, only where calls did not overlap on a request, the vault was read
and held no more than the offer (`muddled` marks the others); the lower bound holds
everywhere, but for fundings refused on chain (`short`). `ViewingIsTheWallets` excepts
the account that overtook a signature, and says that only the recovery screen lets it;
`OwnerRecovers` speaks of the registry that was read and promises the right one only
until a read fails; `AcceptedIsPresentable` is an equivalence with reduced coordinates
on its other side. `StoredIsHeld` likewise excludes what a read of a view that was left wrote
(`late`), and `OneEffect` listings.

### Fairness

- `polling`: weak fairness of each tab's loop including the server's part in it.
  Messages that are not lost arrive, the server answers in the same turn of its
  event loop, and back-offs are timers. `CatchesUp` needs no fairness of mutations,
  nor that a held poll expires.
- `proving`: of workers, of the teardown timer, of React rendering a mounted tree
  again. The button is fair too, which the property does not need.
- `reading`: of each build. Every fetch has an abort timer.
- `identity`: of what a node answers: `ensClient` sets a timeout and retries on its
  transport, and waiting for a receipt is bounded too. Wallets are not fair: a person
  may never answer, so only a look-up is promised to end.
- `workspaces`: of a call's end. `apiClient` sets no time limit of its own; what makes
  this fair is the browser's `fetch`, which settles when its connection ends, and
  that every handler of the backend answers.
- `settlement`, `release`: none, their properties are safety.

Losses, faults, wipes and reloads are never fair, only bounded, so liveness is
claimed for what follows when they stop.

## 4. Proofs

All are checked by TLAPS for every value of the constants, from the named
assumptions on constants (`...Assumption` in each module).

- **`MarketplaceProofs`.** `TypeCorrect`, `ProofsAnswer`, `ReplayGuard`,
  `OffersRest`, `NoneStranded`, `FirstClaimHolds`. The invariants are not inductive
  on their own: that a verified receipt owns its nullifier depends on what a
  verification in flight carries across its await. The invariant is
  `TypeOK /\ Links /\ Receipts`, where `Links` says that rows point at rows that
  exist and challenges at lenders the store knows, and `Receipts` adds
  `InFlightKnown` (a waiting verification carries the nullifier of the receipt it
  read, or its lender's session was wiped with the store) and `VerifiedWasChecked`.
  The two halves of the argument are that a submitted proof's challenge and request
  never change, so its nullifier is fixed while the row exists, and that claims are
  only ever made on unclaimed nullifiers. `KeptOrErased` and
  the lemmas named `...Writers` say once which step can touch which table; each
  conjunct then has a lemma for the steps that can disturb it.

  On top of it: `StatusMeans` (the status word agrees with the rows that other handlers
  wrote), `LentOnce` (`OneLoanPerRequest`, which needs `StatusMeaning`: `acceptOffer`
  looks at the request's status, not at its loans), `NeverBackwards`
  (`LifecycleForward`). `Implements` is the refinement: `StageIs` reads the abstract stage
  of a request off its rows, `BackedStep`, `LendStep`, `LoanStageStep` and `ForgetStep`
  give the abstract step of each kind of handler, `RefineStep` puts them together. It
  takes `SessionsGone` besides: the sessions a wiped store gave out never return, so a
  claim made late by a verification of the old store backs no request of the new one.
- **`SettlementProofs`**, the program first. `TypeCorrect`, `ReceiptsSpentOnce`,
  `LoansJustified`, `EscrowPaysOnce`, `TermsFixed` and `InterestRuns` hold of `ChainSpec`,
  the program on its own, from `TypeOK /\ SpentByItsLoan /\ LoanJustified`: that no
  receipt pays for two requests needs the nullifier table to be exactly the inverse of
  the loans' receipts. The steps are proved of `Instruction`, any instruction of the
  program whoever sends it, so that they serve the adapter as well. `InterestRuns` is
  `InterestClock`: `InterestGrows` says that interest is monotone in the days elapsed
  and at most that of the term (`Products`, `Quotients` are the arithmetic), `LoanMoves`
  which steps move a loan's clock.

  Then the adapter. `ServerOnlyInstructs`: whatever calls, losses, resets and crashes do,
  the chain makes no step but an instruction of the program, so the program's invariant
  holds here too and a vault pays once (`SettlementPaysOnce`). `SettledRowsHaveLoans`,
  `ReplaysAreRefused` and `PrincipalIsOffered` are the three properties of the run, for
  any number of calls, offers, requests and receipts and any clock; no hypothesis keeps
  a receipt from expiring.

  `SettlementInv` follows a call through its awaits. `ReceiptsVerified` says that calls
  and transactions carry the receipt the store verified for that request;
  `Preflighted`, that a last step on its way finds the accounts that the steps before it
  made, and tokens in the vault unless the loan is made; `Told`, that a call which was
  told how its last step ended has a loan behind it or an expired receipt (`Lent`), and
  that a replay gets past preflight only where another receipt expired (`Displaced`).
  `Refusal` is the step at its centre: a preflighted last step can be refused on chain
  only because the loan is made or the receipt expired, since the store's replay guard
  keeps its nullifier for this request.

  For the principal, `Covered` says of every call past its funding, of what it sends and
  of every settled row that the vault covers that offer or the loan is made, or a
  funding was refused: it gives the lower bound under any overlap. `Serial` says that a
  request which is not `muddled` has at most one call and one transaction under way,
  `Escrows` that what this call sends makes the vault exactly its offer's, and `Results`
  that a call told of success is the one that made the loan, and one told of failure has
  an expired receipt. `PrincipalExact` is then inductive.
- **`LongPollProofs`.** `TypeCorrect`, `NoLostWakeup`, `RowsAreFresh`. The invariant
  `TabInv` follows a session, a reply and `since` through each phase of the loop: a
  reply is of no generation before the session it answers, and while the session is
  good `since` is a version the store has reached, so a poll that the server holds can
  only name the current version.
- **`ProverProofs`.** `TypeCorrect`, `OneWorker`, `StatusIsHonest`, for any number of
  workers, proofs and failures. `OneShared` says that a worker lives only while it is
  the shared one, that the count is that of the trees mounted, that a mounted tree holds
  the shared worker and that the teardown timer is armed once nothing does; `Viewed`,
  that what a rendered tree shows is a worker that was made; `StatusInv`, that nothing
  was asked of a worker before it runs (`Untouched`), that a running one has `Loaded` its
  artifacts or was asked for no proof yet, and that its client's status is `Honest` about
  both; `Asked`, that whoever asked for a proof asked a client that exists.
- **`PassportProofs`.** `CircuitAgrees`: for every snapshot, policy and range the
  circuit's bit is the conjunction the applicant was shown, unknown history included.
  `EveryoneCanProve`: every snapshot and policy in range satisfies the constraints.
  From a lemma on the comparator (sound one bit above the range) and one on products
  of bits. `AgeFailsClosed` runs from the page scan to the circuit's bit: `Sound` says
  that the age a build has seen so far is the account's or less, `Honest` the same of a
  cached passport, and `EligibleIsOldEnough` carries it through
  the comparator. `MaxOfBounded` (a bounded set of ages has a greatest member) is by
  well-foundedness, since the module takes a maximum. `NothingStaleServed` is
  `ServedFresh`, from `Building` and `Cached`, which keep `started`, `finished` and
  `priced` in order while a build waits.
- **`EnsIdentityProofs`.** `BusyServed`, `ViewingKeysMatch`, `RecordsAreTheOwners` (a
  payout record in a registry is the key of the account that owns the name there) and
  `PaidToTheOwner` (`OwnerRecovers`), whatever fails. `UnderWay` is the invariant of the
  tasks: each carries what it was started with (`Kinds`), a publishing task is the one
  the panel shows (`PublishServed`), and what is shown as busy has a task that will end
  it (`Served`). `WalletAsked` has two halves: until an account overtakes an unanswered
  question, the wallet is asked on behalf of the connected account; and before anything
  is announced, one question is open at a time and the panel is busy with it, which is
  why only the recovery screen lets an account overtake. `ReadFrom` and `LenderReads` say
  which registry a lender's record came from, and that it was the right one until a read
  failed; with `OwnersRecords` that is whose key it holds.
- **`ReleaseProofs`.** All four properties of `release`, for any number of builds and
  mints, any circuits and any signal layout: `ReadyIsProvableHolds`,
  `AcceptedIsSoundHolds`, `AcceptedIsPresentableHolds`, `DeploymentIsUsableHolds`.
  `ReadyIsProvable` is the one that needs an argument, for the backend compares
  verification keys while a browser uses the files beside them. `ServeInv` says that a
  directory with the key of `zk/build` has the wasm and the zkey of that build too:
  while files are copied its key is still an older one, since the key is copied last
  and no ceremony draws an earlier key again. `BuildInv` ties a key in `zk/build` to its
  ceremony, and to both assertions once the layout is written; `AcceptInv` carries that
  through boot to the receipts. Receipts rest on lemmas about the conversions:
  `ReadsAsReduced` (what passed the checks is reduced and of the layout's length) and
  `DecodeEncode` (the layout names every signal once); the coordinates are what remains,
  and `AcceptedIsPresentable` says that they are all that remains.

- **`WorkspacesProofs`.** `TabsTypeCorrect`, `NoDeadButtons` (`ButtonsWork`),
  `OneEffectOnly` (`OneEffect`), `SnapshotSurvives` (`StoredIsHeld`),
  `OwnReceiptsFunded` (`FundsItsOwn`) and `NeverBackOnScreen` (`ScreenForward`), for any
  number of sessions, rows, calls, reads, reloads and lost answers. `TabsTakeSteps` says
  that a step of a tab is a step of `Marketplace` or leaves the rows alone, so the
  invariants of `MarketplaceProofs` hold under the tabs; every party is signed in
  throughout, so nothing wipes the store and ids, once given, stay.

  The invariant is `Server /\ Tabs`. A button is drawn from the status of one row while
  the handler looks at several, so `Server` adds to `Links`, `Receipts` and
  `StatusMeaning` what a decided row says of the others (`Decided`): an offer was
  declined because its request has a loan, withdrawn because its request was, and an
  accepted request has been lent on. With that, an open offer on the screen has an open
  request behind it and its acceptance is not refused. `Tabs` says that a call names a
  row of its kind (`Named`) and that an open confirmation waits for one call at most,
  which is about what it confirms (`Asked`).

  `OneEffect` needs more than a count: `Effects` says that once a confirmation worked,
  its row is past what it asks for (`Spent`), which no step takes back (`SpentStays`) and
  every handler refuses (`SpentIsRefused`), so it is the server, not the dialog, that
  makes a retry harmless. `ScreenForward` compares two projections: `ViewIsPast` says
  that the one on the screen shows rows that still exist on the same request, so a newer
  one can only move it on.

Model-checked only: the liveness properties `CatchesUp`, `EveryProofSettles`,
`EveryReadEnds`, `LookUpsEnd` and `DialogsEnd`, since fairness is beyond the prover.
Every other property that a passing run checks is a theorem, without hypotheses beyond
the named assumptions on constants.

## 5. Where the code and its words part

Runs that TLC refutes, each with the line it contradicts in `PROJECT.json`:

- **`reverify`**: `recordVerification` overwrites the verdict whoever calls and
  whenever, so a later verification (by another lender, or after the expiry) leaves an
  open or accepted offer on a *rejected* receipt. The receipt was sound and still owns
  its nullifier (`OfferRestsOnReceipt` holds, and is proved), but "capital never moves
  against an unchecked claim" reads the stored verdict, which no longer stands, and
  settlement then refuses.
- **`resettled`**: a retry after the loan was made finds the vault empty and funds it
  again; no instruction can take those tokens out.
- **`failover`**: a query reads the shared preferred endpoint before every attempt, so
  a query beside it can make it ask one endpoint twice, the healthy one never, and
  report that all failed.

Read in the code and not turned into runs of their own.

Settlement and program:

- `send` awaits `confirmTransaction` and never looks at `value.err`
  (`solanaSettlement.ts:539`): a last step that passes preflight and fails on chain, a
  receipt that expires in between, is recorded as settled. `settlement` reaches that
  row; it is the exception `SettledHasLoan` names;
- "a client cannot settle a different amount than the offer it points at"
  (`types.ts:634`), but a settlement can end with another principal. Two overlapping
  calls can each fund the escrow before either presents, and the loan is the sum; alone,
  a larger offer whose call funded the escrow and then failed is what a smaller one
  settles, since a full vault skips the funding (`solanaSettlement.ts:830`). The row
  names the smaller amount;
- a call that loses touch with its last transaction records `failed` although the loan
  was made;
- `collectSettleInput` (`api.ts:1062`) does not ask whether the offer was accepted, as
  `types.ts:632` has it, and `LenderView` shows the settlement panel at the offer step,
  so an open offer can settle;
- "constrained here to actually belong to the address recorded on the loan"
  (`lib.rs:812`): the constraint ties `payout_tokens` to the `payout` account, and
  `payout_address` (239), which the loan records (390), is an argument that nothing ties
  to either. The backend sends one address as both;
- `repay` asks for no mint: a loan is repaid in any token both accounts are of
  (`lib.rs:848`);
- "the interest clock starts here", says the draw (`lib.rs:421`), but a loan that was
  never drawn bears interest from its funding (`lib.rs:568`), as `InterestClock` states.

Screens and the applicant's tab:

- `App.tsx:110` says a reset "reloads so the in-memory witness goes with them": the
  copy in `sessionStorage` survives it;
- a read of a view that was left, or one overtaken by "Read again", still writes
  `sessionStorage` (`witnessStore.tsx:159`), and `ChallengeResponse` compares with the
  witness's own commitment, not with the request's;
- `WalletActionDialog` says nothing changed also when the answer was lost; confirming
  a listing again then lists twice;
- "Back to the market" leads back to the same request while the lender has a challenge
  on it, "Withdraw challenge" is offered for answered ones and refused, and a lender
  whose receipt was rejected stays there until the applicant withdraws;
- the applicant sees the newest challenge only, and none once there is an offer,
  though the pages say that lenders compete (`HomeView.tsx:302`);
- a failed warmup leaves the prover's status at `error` although a later proof could
  load the key: the button stays disabled for the life of that worker.

Reading the chain and ENS:

- prices come from a cache of 60 s although the header of `solanaPortfolio.ts` says
  every value comes from a call made while the request was in flight;
- going back 24 months from 29 February lands on 1 March, so an age can be one day
  short of its months;
- the registries are read "v1 only when v2 has no resolver" (`ensClient.ts:30`), but an
  *error* finding the v2 resolver falls back too (`ensClient.ts:380`), so a lender can
  read, and pay to, the record of the old registry's owner. `identity` reaches that, and
  `OwnerRecovers` promises the right registry only until a read fails;
- "drop the old key" (`ensIdentity.tsx:261`) when another account connects, but on the
  recovery screen "Sign to re-derive" can be pressed twice (`PayoutRecovery.tsx:134`):
  the first signature brings the picker back, another account connects, and the second
  leaves the first account's key under it. Nothing is published from there; a reload
  clears it;
- "a resolution belongs to the name it was made for", but a look-up that is answered
  after the name was changed leaves the record of the old name beside the new one, so a
  name without a record can be listed: `ListedIsPayable` of `EnsIdentity` is refuted.

Receipts:

- `be32` "refuses to truncate" a number that "is always a bug upstream"
  (`proofBytes.ts:61`), and no check upstream is about the coordinates of a proof
  (`verifier.ts:426`): written unreduced they pass the backend, and the receipt cannot
  be presented; `AcceptedIsPresentable` names that exception.

Build and deployment:

- `solana-setup.mjs` writes the `vkHash` of `vk_hash.json` although the program that is
  deployed, and the config account's hash (written once, by `initialize`), may be of an
  older key: `settlementConfig` compares files only;
- after a reset of the chain `settlementConfig` still finds `deployment.json`, whose
  mint is gone, until `solana:setup` ran again (`since` has `"chain"` meanwhile);
- `emit-program-vk.mjs` takes the key of a build that failed its value assertion;
- a `zk:build` after the backend's boot leaves the old key in its memory: proofs of the
  new one are refused until it is restarted.

## 6. What is not modelled

- Field, curve and hash arithmetic: commitments and hashes are injective, a pairing
  check is the equality of a key and a statement, key derivation, view tags and base58
  are abstract. Reason: nothing in them depends on an order of steps.
- A payout account among the program's own addresses (a vault, a request), and tokens
  sent to a vault by a plain transfer: the backend sends neither.
- `vite build` copies `frontend/public` file by file; `BuildSpa` is one step, so a copy
  that overlaps `zk:build`'s own, or stops half way, is not in the model.
- Which mints count, liquidity floors and the sums over holdings in the passport's
  builder are one value per wallet; calendar months are integers.
- Fixtures, end-to-end scripts, `ens-setup` and the prototype: sequential programs with
  no state that another process sees between two steps.
- Content pages, the header, layout and wording; the settlement panel's rendering (its
  calls are `Settlement`'s).
- Provider discovery in `wallets.ts`, and of switching the chain all but its refusal
  (`ConnectRefused`): their state belongs to the extensions; `clear()` of the identity
  store, which nothing calls; `checkAvailability` and `probeContracts`, used by scripts
  only.
- CORS, body parsing and the mapping of errors to statuses in the server shell.

## 7. Plan

Done, in this order: `Marketplace` with its abstraction and proofs; `PrivateCredit`
and `Settlement`; `LongPoll`; `Prover`; `RpcFailover`, `CreditPolicy`, `Passport`;
`EnsIdentity`; `Workspaces`; `Receipts` and `Release` with their proofs; the proofs of
the rest of `Marketplace` and of its refinement, of `Settlement`, `EnsIdentity`, `Prover`
and `Passport`; the proofs of `Workspaces` and of the interest clock.

Left: a row that reads the confirmation's result, should `send` come to look at it; the
copies of `vite build`, file by file.
