------------------------------ MODULE EnsIdentity ------------------------------
(***************************************************************************)
(* The applicant's ENS identity: the store of the tab with its wallet,     *)
(* viewing key, name and publishing (ensIdentity.tsx), the panel whose     *)
(* buttons drive it (EnsIdentityPanel.tsx), the reads of the two ENS       *)
(* registries (ensClient.ts), the lender who derives a payout address from *)
(* the listed name (PayoutDerivation.tsx) and its recovery.                *)
(*                                                                         *)
(* A viewing key is derived from a signature that is the same whenever the *)
(* same account signs, so a key is the account it comes from. Every call   *)
(* the store makes is a task, and every await of it a step that ends when  *)
(* the wallet or the node answers.                                         *)
(***************************************************************************)
EXTENDS Naturals

CONSTANTS
  Account,      \* wallet accounts
  Name,         \* ENS names
  Task,         \* calls that may be under way in the tab at once
  Resolver,     \* Resolver[reg]: the names that have a resolver there
  Owner,        \* Owner[reg][n]: the account that may write n's records there
  Primary,      \* Primary[a]: the name a's reverse record gives, or None
  MaxFaults,    \* reads and receipts that fail
  MaxReloads,
  Draw,         \* ephemeral keys a lender draws (bound)
  None

Registry == {"ensv2", "ensv1"}

ASSUME IdentityAssumption ==
  /\ Resolver \in [Registry -> SUBSET Name]
  /\ Owner \in [Registry -> [Name -> Account]]
  /\ Primary \in [Account -> Name \cup {None}]
  /\ MaxFaults \in Nat /\ MaxReloads \in Nat
  /\ None \notin Account \cup Name

VARIABLES
  text,          \* text[reg][n]: the key in n's payout record, or None
  wallet, walletStatus, viewing,
  name, status, resolution, payoutRecord, publishStatus,
  task,
  dialog,        \* the name in the open listing confirmation, or None
  listing,       \* the name the request was listed under, or None
  lender,        \* what the lender's derivation has read, or None
  payouts,       \* announced addresses
  faults, reloads,
  overtaken      \* an account connected while the wallet was asked something else

tab == <<wallet, walletStatus, viewing, name, status, resolution, payoutRecord,
         publishStatus>>
market == <<dialog, listing, lender, payouts>>
vars == <<text, tab, task, market, faults, reloads, overtaken>>

Read == [name : Name, registry : Registry, key : Account \cup {None}]
Payout == [name : Name, registry : Registry, ephemeral : Draw,
           address : (Draw \X Account) \X Name]
Resolution == [name : Name, registry : Registry]
Idle == [step |-> "idle"]
Started == [kind : {"lookup", "connect", "sign", "publish"},
            step : {"name", "record", "connect", "sign", "primary", "check",
                    "send", "mine"},
            target : Name \cup {None}, account : Account \cup {None},
            registry : Registry, sent : BOOLEAN]

TypeOK ==
  /\ text \in [Registry -> [Name -> Account \cup {None}]]
  /\ wallet \in Account \cup {None} /\ viewing \in Account \cup {None}
  /\ walletStatus \in {"disconnected", "connecting", "signing", "connected"}
  /\ name \in Name \cup {None}
  /\ status \in {"empty", "resolving", "resolved", "error"}
  /\ resolution \in Resolution \cup {None} /\ payoutRecord \in Read \cup {None}
  /\ publishStatus \in {"idle", "sending", "confirming"}
  /\ task \in [Task -> Started \cup {Idle}]
  /\ dialog \in Name \cup {None} /\ listing \in Name \cup {None}
  /\ lender \in Read \cup {None} /\ payouts \subseteq Payout
  /\ faults \in 0..MaxFaults /\ reloads \in 0..MaxReloads /\ overtaken \in BOOLEAN

(* Owners may have published with the same wallet before; those of the old *)
(* registry have.                                                          *)
PublishedBefore(r, n) ==
  IF n \notin Resolver[r] THEN {None}
  ELSE {Owner[r][n]} \cup IF r = "ensv2" THEN {None} ELSE {}

Init ==
  /\ text \in [Registry -> [Name -> Account \cup {None}]]
  /\ \A r \in Registry, n \in Name : text[r][n] \in PublishedBefore(r, n)
  /\ wallet = None /\ walletStatus = "disconnected" /\ viewing = None
  /\ name = None /\ status = "empty" /\ resolution = None
  /\ payoutRecord = None /\ publishStatus = "idle"
  /\ task = [k \in Task |-> Idle]
  /\ dialog = None /\ listing = None /\ lender = None /\ payouts = {}
  /\ faults = 0 /\ reloads = 0 /\ overtaken = FALSE

-----------------------------------------------------------------------------
(* Reading ENS. The v2 registry is asked first; no resolver found there, or *)
(* an error finding it, sends the read to v1.                              *)
Authority(n) == IF n \in Resolver["ensv2"] THEN "ensv2" ELSE "ensv1"

MayFault == faults < MaxFaults

Answer(reg, failed) == [registry |-> reg, failed |-> failed]
AnswersLegacyFirst(n) ==
  {Answer(IF n \in Resolver["ensv1"] THEN "ensv1" ELSE "ensv2", FALSE)}
Answers(n) ==
  {Answer(Authority(n), FALSE)} \cup IF MayFault THEN {Answer("ensv1", TRUE)} ELSE {}

CountFault(failed) == faults' = IF failed THEN faults + 1 ELSE faults

PayoutRecord(n, reg) == [name |-> n, registry |-> reg, key |-> text[reg][n]]

KeysAgree == payoutRecord # None /\ payoutRecord.key # None
             /\ payoutRecord.key = viewing
Ready == name # None /\ KeysAgree

Go(k, step) == task' = [task EXCEPT ![k].step = step]
End(k) == task' = [task EXCEPT ![k] = Idle]

StartTask(k, kind, step, n, a) ==
  task' = [task EXCEPT ![k] = [kind |-> kind, step |-> step, target |-> n,
             account |-> a, registry |-> "ensv2", sent |-> FALSE]]

(* resolve: the name, then its payout record. A publish goes on after it.  *)
AfterResolve(k) ==
  IF task[k].kind = "publish" /\ ~task[k].sent
  THEN Go(k, "check") /\ UNCHANGED publishStatus
  ELSE /\ End(k)
       /\ publishStatus' = IF task[k].kind = "publish" THEN "idle" ELSE publishStatus

ResolveName(k) ==
  /\ task[k].step = "name"
  /\ \/ \E ans \in Answers(task[k].target) :
          /\ resolution' = [name |-> task[k].target, registry |-> ans.registry]
          /\ CountFault(ans.failed)
          /\ Go(k, "record")
          /\ UNCHANGED <<status, publishStatus>>
     \/ /\ MayFault /\ CountFault(TRUE)
        /\ status' = "error"
        /\ AfterResolve(k)
        /\ UNCHANGED resolution
  /\ UNCHANGED <<text, wallet, walletStatus, viewing, name, payoutRecord, market, reloads,
                 overtaken>>

(* A record that cannot be read leaves the name resolved, without a key.   *)
StatusAfterReadKept == status
StatusAfterRead == "resolved"

ReadRecord(k) ==
  LET n == task[k].target IN
  /\ task[k].step = "record"
  /\ \/ \E ans \in Answers(n) :
          /\ payoutRecord' = IF n \in Resolver[ans.registry]
                              THEN PayoutRecord(n, ans.registry) ELSE None
          /\ CountFault(ans.failed)
     \/ MayFault /\ CountFault(TRUE) /\ payoutRecord' = None
  /\ status' = StatusAfterRead
  /\ AfterResolve(k)
  /\ UNCHANGED <<text, wallet, walletStatus, viewing, name, resolution, market, reloads,
                 overtaken>>

-----------------------------------------------------------------------------
(* x25519 of the lender's r with the record's key is that of the viewing   *)
(* key with the announced R; hashed with the request it is the address.    *)
SharedSecret(r, key) == <<r, key>>
PayoutAddress(r, key, n) == <<SharedSecret(r, key), n>>

(* PayoutRecovery: the address a key derives is the announced one.         *)
Recovered(key, p) == PayoutAddress(p.ephemeral, key, p.name)
Recovers(key, p) == Recovered(key, p) = p.address

(* The panel, shown until the identity is ready and the request listed. A  *)
(* dialog covers it.                                                       *)
Panel == ~Ready /\ dialog = None /\ listing = None
Busy == walletStatus \in {"connecting", "signing"}
Editable == Panel /\ wallet # None /\ status # "resolving" /\ publishStatus = "idle"

ForgetName ==
  status' = "empty" /\ resolution' = None /\ payoutRecord' = None

SetName(n) ==
  /\ Editable
  /\ name' = n
  /\ ForgetName
  /\ UNCHANGED <<text, wallet, walletStatus, viewing, publishStatus, task, market,
                 faults, reloads, overtaken>>

LookUp(k) ==
  /\ Editable /\ name # None /\ task[k] = Idle
  /\ StartTask(k, "lookup", "name", name, None)
  /\ status' = "resolving"
  /\ UNCHANGED <<text, wallet, walletStatus, viewing, name, resolution, payoutRecord,
                 publishStatus, market, faults, reloads, overtaken>>

Switchable ==
  wallet # None /\ payoutRecord # None /\ payoutRecord.key # None /\ viewing # None

(* The recovery screen offers wallets to who has no key to try, and to who *)
(* has one that an announced address does not answer to.                   *)
TriesAnother ==
  /\ payouts # {}
  /\ IF viewing = None THEN wallet = None ELSE \E p \in payouts : ~Recovers(viewing, p)

ConnectWallet(k) ==
  /\ ~Busy /\ task[k] = Idle
  /\ (Panel /\ (wallet = None \/ Switchable)) \/ TriesAnother
  /\ StartTask(k, "connect", "connect", None, wallet)
  /\ walletStatus' = "connecting"
  /\ UNCHANGED <<text, wallet, viewing, name, status, resolution, payoutRecord,
                 publishStatus, market, faults, reloads, overtaken>>

AtWallet(k) == task[k].step \in {"connect", "sign"}

KeptKeyAlways(was, a) == viewing
KeptKey(was, a) == IF was \notin {None, a} THEN None ELSE viewing

Connected(k, a) ==
  /\ task[k].step = "connect"
  /\ wallet' = a
  /\ viewing' = KeptKey(task[k].account, a)
  /\ walletStatus' = "signing"
  /\ task' = [task EXCEPT ![k].step = "sign", ![k].account = a]
  /\ overtaken' = (overtaken \/ \E j \in Task \ {k} : AtWallet(j))
  /\ UNCHANGED <<text, name, status, resolution, payoutRecord, publishStatus, market,
                 faults, reloads>>

ConnectRefused(k) ==
  /\ task[k].step = "connect"
  /\ walletStatus' = IF task[k].account = None THEN "disconnected" ELSE "connected"
  /\ End(k)
  /\ UNCHANGED <<text, wallet, viewing, name, status, resolution, payoutRecord,
                 publishStatus, market, faults, reloads, overtaken>>

(* On the recovery screen the button asks nothing of walletStatus.         *)
SignViewingKey(k) ==
  /\ wallet # None /\ viewing = None /\ task[k] = Idle
  /\ (Panel /\ ~Busy) \/ payouts # {}
  /\ StartTask(k, "sign", "sign", None, wallet)
  /\ walletStatus' = "signing"
  /\ UNCHANGED <<text, wallet, viewing, name, status, resolution, payoutRecord,
                 publishStatus, market, faults, reloads, overtaken>>

(* personal_sign answers, with a signature or a refusal.                   *)
Signed(k) ==
  /\ task[k].step = "sign"
  /\ viewing' \in {viewing, task[k].account}
  /\ walletStatus' = "connected"
  /\ IF task[k].kind = "connect" THEN Go(k, "primary") ELSE End(k)
  /\ UNCHANGED <<text, wallet, name, status, resolution, payoutRecord, publishStatus,
                 market, faults, reloads, overtaken>>

(* The wallet's primary name, when it has one, takes the place of what the *)
(* panel holds by then.                                                    *)
PrimaryName(k) ==
  LET n == Primary[task[k].account] IN
  /\ task[k].step = "primary"
  /\ \/ /\ n # None
        /\ name' = n /\ status' = "resolving"
        /\ task' = [task EXCEPT ![k].step = "name", ![k].target = n]
        /\ UNCHANGED faults
     \/ /\ n = None \/ MayFault
        /\ CountFault(n # None)
        /\ End(k)
        /\ UNCHANGED <<name, status>>
  /\ UNCHANGED <<text, wallet, walletStatus, viewing, resolution, payoutRecord,
                 publishStatus, market, reloads, overtaken>>

-----------------------------------------------------------------------------
(* Publishing the record: setText from the connected wallet.               *)
MaySend(res) == res # None /\ res.name \in Resolver[res.registry]

Sending(k, a) ==
  /\ task' = [task EXCEPT ![k] = [kind |-> "publish", step |-> "send",
       target |-> resolution.name, account |-> a, registry |-> resolution.registry,
       sent |-> TRUE]]
  /\ publishStatus' = "sending"

PublishRecord(k) ==
  /\ Panel /\ wallet # None /\ viewing # None /\ publishStatus = "idle"
  /\ resolution # None /\ task[k] = Idle
  /\ IF resolution.name = name
     THEN MaySend(resolution) /\ Sending(k, viewing) /\ UNCHANGED status
     ELSE /\ StartTask(k, "publish", "name", name, viewing)
          /\ status' = "resolving"
          /\ UNCHANGED publishStatus
  /\ UNCHANGED <<text, wallet, walletStatus, viewing, name, resolution, payoutRecord,
                 market, faults, reloads, overtaken>>

PublishChecked(k) ==
  /\ task[k].step = "check"
  /\ IF MaySend(resolution) THEN Sending(k, task[k].account)
     ELSE End(k) /\ UNCHANGED publishStatus
  /\ UNCHANGED <<text, wallet, walletStatus, viewing, name, status, resolution,
                 payoutRecord, market, faults, reloads, overtaken>>

PublishEndsBusy(k) == End(k) /\ UNCHANGED publishStatus
PublishEnds(k) == End(k) /\ publishStatus' = "idle"

SendSetText(k) ==
  /\ task[k].step = "send"
  /\ \/ Go(k, "mine") /\ publishStatus' = "confirming"
     \/ PublishEnds(k)
  /\ UNCHANGED <<text, wallet, walletStatus, viewing, name, status, resolution,
                 payoutRecord, market, faults, reloads, overtaken>>

(* The transaction is mined: it reverts unless the account may write the   *)
(* name. The receipt may be what is lost, and the record written anyway.   *)
Mined(k) ==
  LET t == task[k] IN
  /\ t.step = "mine"
  /\ IF Owner[t.registry][t.target] = t.account
     THEN /\ text' = [text EXCEPT ![t.registry][t.target] = t.account]
          /\ \/ /\ name' = t.target /\ status' = "resolving"
                /\ Go(k, "name")
                /\ UNCHANGED <<publishStatus, faults>>
             \/ MayFault /\ CountFault(TRUE) /\ PublishEnds(k) /\ UNCHANGED <<name, status>>
     ELSE PublishEnds(k) /\ UNCHANGED <<text, name, status, faults>>
  /\ UNCHANGED <<wallet, walletStatus, viewing, resolution, payoutRecord, market, reloads,
                 overtaken>>

-----------------------------------------------------------------------------
(* The listing and who pays it.                                            *)
OpenDialog ==
  /\ Ready /\ listing = None /\ dialog = None
  /\ dialog' = name
  /\ UNCHANGED <<text, tab, task, listing, lender, payouts, faults, reloads, overtaken>>

CloseDialog ==
  /\ dialog # None
  /\ dialog' = None
  /\ listing' \in {listing, dialog}
  /\ UNCHANGED <<text, tab, task, lender, payouts, faults, reloads, overtaken>>

ReadForPayout ==
  /\ listing # None /\ lender = None
  /\ \E ans \in Answers(listing) :
       /\ listing \in Resolver[ans.registry] /\ text[ans.registry][listing] # None
       /\ lender' = PayoutRecord(listing, ans.registry)
       /\ CountFault(ans.failed)
  /\ UNCHANGED <<text, tab, task, dialog, listing, payouts, reloads, overtaken>>

Announce ==
  /\ lender # None
  /\ \E r \in Draw :
       /\ \A p \in payouts : p.ephemeral # r
       /\ payouts' = payouts \cup
            {[name |-> lender.name, registry |-> lender.registry, ephemeral |-> r,
              address |-> PayoutAddress(r, lender.key, lender.name)]}
  /\ lender' = None
  /\ UNCHANGED <<text, tab, task, dialog, listing, faults, reloads, overtaken>>

(* A reload keeps the wallet, the name and what is listed; the viewing key *)
(* is gone, and the name is read again.                                    *)
Reload ==
  /\ reloads < MaxReloads
  /\ reloads' = reloads + 1
  /\ walletStatus' = IF wallet = None THEN "disconnected" ELSE "connected"
  /\ viewing' = None /\ resolution' = None /\ payoutRecord' = None
  /\ overtaken' = FALSE
  /\ publishStatus' = "idle" /\ dialog' = None
  /\ status' = IF name = None THEN "empty" ELSE "resolving"
  /\ \E k \in Task :
       task' = [j \in Task |-> IF j = k /\ name # None
                  THEN [kind |-> "lookup", step |-> "name", target |-> name,
                        account |-> None, registry |-> "ensv2", sent |-> FALSE]
                  ELSE Idle]
  /\ UNCHANGED <<text, wallet, name, listing, lender, payouts, faults>>

Answered(k) ==
  \/ ResolveName(k) \/ ReadRecord(k) \/ PrimaryName(k) \/ PublishChecked(k) \/ Mined(k)

Next ==
  \/ \E n \in Name : SetName(n)
  \/ \E k \in Task :
       \/ LookUp(k) \/ ConnectWallet(k) \/ (\E a \in Account : Connected(k, a))
       \/ ConnectRefused(k) \/ SignViewingKey(k) \/ Signed(k) \/ PublishRecord(k)
       \/ SendSetText(k) \/ Answered(k)
  \/ OpenDialog \/ CloseDialog \/ ReadForPayout \/ Announce \/ Reload

(* Nodes answer or time out; wallets wait for a person as long as it takes. *)
Spec == Init /\ [][Next]_vars /\ \A k \in Task : WF_vars(Answered(k))

-----------------------------------------------------------------------------
(* Whatever the panel shows as under way is under way: no field stays      *)
(* disabled after the call that would enable it has ended.                 *)
BusyIsServed ==
  /\ status = "resolving" => \E k \in Task : task[k].step \in {"name", "record"}
  /\ Busy => \E k \in Task : task[k].step \in {"connect", "sign"}
  /\ publishStatus # "idle" => \E k \in Task : task[k] # Idle /\ task[k].kind = "publish"

(* The viewing key is that of the connected account, whatever accounts     *)
(* were connected and refused before: a payout record is signed for by the *)
(* wallet that pays for writing it.  The exception is an account connected *)
(* while the wallet was still asked something else: the late signature is  *)
(* the other account's.  That takes the recovery screen, never the panel.  *)
ViewingIsTheWallets ==
  /\ viewing # None /\ ~overtaken => viewing = wallet
  /\ overtaken => payouts # {}

(* Whatever a lender announced, the owner of the listed name in the        *)
(* registry that was read recovers with the key its wallet derives, and    *)
(* nobody else; it is the registry the name is kept in unless a read       *)
(* failed, when an error finding a v2 resolver sends the lender to v1.     *)
OwnerRecovers ==
  \A p \in payouts :
    /\ p.name = listing
    /\ \A a \in Account : Recovers(a, p) <=> a = Owner[p.registry][p.name]
    /\ faults = 0 => p.registry = Authority(p.name)

(* "A resolution belongs to the name it was made for": a listed name has a *)
(* record to pay to.  Not kept, a look-up can be answered after SetName.   *)
ListedIsPayable ==
  listing # None => text[Authority(listing)][listing] # None

(* A look-up always ends, also when others run beside it.                  *)
LookUpsEnd == status = "resolving" ~> status # "resolving"

===============================================================================
