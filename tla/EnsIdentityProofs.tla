-------------------------- MODULE EnsIdentityProofs --------------------------
(***************************************************************************)
(* Theorems about the applicant's ENS identity, for any accounts, names,   *)
(* registries, calls under way at once, faults and reloads.                *)
(***************************************************************************)
EXTENDS EnsIdentity, TLAPS

-----------------------------------------------------------------------------
(* The invariants.                                                         *)

(* Only a publish has sent a transaction, and it alone is between sending  *)
(* and reading back.                                                       *)
Kinds ==
  \A k \in Task : task[k] # Idle =>
    /\ task[k].sent = TRUE => /\ task[k].kind = "publish"
                              /\ task[k].step \in {"name", "record", "send", "mine"}
    /\ task[k].step \in {"send", "mine"} => task[k].sent = TRUE

PublishServed ==
  publishStatus # "idle" => \E k \in Task : task[k] # Idle /\ task[k].sent = TRUE

Served ==
  /\ status = "resolving" => \E k \in Task : task[k].step \in {"name", "record"}
  /\ Busy => \E k \in Task : task[k].step \in {"connect", "sign"}

(* Nobody is paid before the request is listed, which ends the panel and   *)
(* the dialog.                                                             *)
Listed ==
  /\ dialog # None => listing = None
  /\ lender # None \/ payouts # {} => listing # None

(* Until an account overtakes a question the wallet has not answered, the  *)
(* wallet is asked on behalf of the connected account.  In the panel only  *)
(* one question is open, and the buttons are disabled while it is.         *)
WalletAsked ==
  /\ ~overtaken => \A k \in Task : AtWallet(k) => task[k].account = wallet
  /\ payouts = {} =>
       /\ \A k \in Task : AtWallet(k) => Busy
       /\ \A j, k \in Task : AtWallet(j) /\ AtWallet(k) => j = k

(* Only the owner's key stands in a payout record.                         *)
OwnersRecords ==
  \A r \in Registry, n \in Name : text[r][n] \in {None, Owner[r][n]}

(* What a lender reads and announces is the record of the name's owner in  *)
(* the registry that answered: where the name is registered, until a read  *)
(* fails.                                                                  *)
ReadFrom(r, n) ==
  r \in Registry /\ (faults = 0 => r = Authority(n))
LenderReads ==
  /\ lender # None =>
       /\ lender.name = listing /\ ReadFrom(lender.registry, listing)
       /\ lender.key = Owner[lender.registry][listing]
  /\ \A p \in payouts :
       /\ p.name = listing /\ ReadFrom(p.registry, listing)
       /\ p.address = PayoutAddress(p.ephemeral, Owner[p.registry][listing], listing)

-----------------------------------------------------------------------------
(* Types.                                                                  *)

LEMMA AuthorityType == \A n \in Name : Authority(n) \in Registry
  BY DEF Authority, Registry

LEMMA PayoutAddressType ==
  ASSUME NEW r \in Draw, NEW a \in Account, NEW n \in Name
  PROVE  PayoutAddress(r, a, n) \in (Draw \X Account) \X Name
  BY DEF PayoutAddress, SharedSecret

LEMMA PayoutAddressKey ==
  ASSUME NEW r, NEW a, NEW b, NEW n, PayoutAddress(r, a, n) = PayoutAddress(r, b, n)
  PROVE  a = b
  BY DEF PayoutAddress, SharedSecret

(* The calls of the tab.                                                   *)
Tasks == [Task -> Started \cup {Idle}]

LEMMA TaskFields ==
  ASSUME TypeOK, NEW k \in Task, task[k] # Idle
  PROVE  /\ task[k] \in Started
         /\ task[k].kind \in {"lookup", "connect", "sign", "publish"}
         /\ task[k].target \in Name \cup {None}
         /\ task[k].account \in Account \cup {None}
         /\ task[k].registry \in Registry /\ task[k].sent \in BOOLEAN
  BY DEF TypeOK, Started

LEMMA StartType ==
  ASSUME TypeOK, NEW k \in Task, NEW kind, NEW step, NEW n \in Name \cup {None},
         NEW a \in Account \cup {None},
         kind \in {"lookup", "connect", "sign", "publish"},
         step \in {"name", "record", "connect", "sign", "primary", "check", "send", "mine"},
         StartTask(k, kind, step, n, a)
  PROVE  task' \in Tasks
<1>1. [kind |-> kind, step |-> step, target |-> n, account |-> a,
       registry |-> "ensv2", sent |-> FALSE] \in Started
  BY DEF Started, Registry
<1> QED
  BY <1>1 DEF TypeOK, Tasks, StartTask

LEMMA GoType ==
  ASSUME TypeOK, NEW k \in Task, task[k] # Idle, NEW step,
         step \in {"name", "record", "connect", "sign", "primary", "check", "send", "mine"},
         Go(k, step)
  PROVE  task' \in Tasks
  BY TaskFields DEF TypeOK, Tasks, Go, Started

LEMMA EndType ==
  ASSUME TypeOK, NEW k \in Task, End(k)
  PROVE  task' \in Tasks
  BY DEF TypeOK, Tasks, End

LEMMA SendingType ==
  ASSUME TypeOK, NEW k \in Task, NEW a \in Account \cup {None}, resolution # None,
         Sending(k, a)
  PROVE  task' \in Tasks /\ publishStatus' = "sending"
<1>1. resolution.name \in Name /\ resolution.registry \in Registry
  BY DEF TypeOK, Resolution
<1>2. [kind |-> "publish", step |-> "send", target |-> resolution.name, account |-> a,
       registry |-> resolution.registry, sent |-> TRUE] \in Started
  BY <1>1 DEF Started
<1> QED
  BY <1>2 DEF TypeOK, Tasks, Sending
LEMMA FaultsType ==
  ASSUME TypeOK, NEW failed, failed => MayFault, CountFault(failed)
  PROVE  faults' \in 0..MaxFaults
  BY IdentityAssumption DEF TypeOK, CountFault, MayFault

(* A read is answered by the registry the name is kept in, or, after a     *)
(* failure, by the older one.                                              *)
LEMMA AnswerIs ==
  ASSUME NEW n \in Name, NEW ans \in Answers(n)
  PROVE  /\ ans.registry \in Registry /\ ans.failed \in BOOLEAN
         /\ ans.failed => MayFault
         /\ ~ans.failed => ans.registry = Authority(n)
<1>1. CASE ans = Answer(Authority(n), FALSE)
  BY <1>1, AuthorityType DEF Answer
<1>2. CASE ans = Answer("ensv1", TRUE) /\ MayFault
  BY <1>2 DEF Answer, Registry
<1> QED
  BY <1>1, <1>2 DEF Answers

LEMMA PayoutRecordType ==
  ASSUME TypeOK, NEW n \in Name, NEW reg \in Registry
  PROVE  PayoutRecord(n, reg) \in Read
  BY DEF TypeOK, PayoutRecord, Read

LEMMA AfterResolveType ==
  ASSUME TypeOK, NEW k \in Task, task[k] # Idle, AfterResolve(k)
  PROVE  task' \in Tasks /\ publishStatus' \in {"idle", "sending", "confirming"}
<1>1. CASE Go(k, "check") /\ UNCHANGED publishStatus
  BY <1>1, GoType DEF TypeOK
<1>2. CASE End(k) /\ publishStatus' \in {"idle", publishStatus}
  BY <1>2, EndType DEF TypeOK
<1> QED
  BY <1>1, <1>2 DEF AfterResolve

(* What is looked up, and what is written, is a name, and the panel then    *)
(* holds one; who signs, and whose key a lender has read, is an account.    *)
Targets ==
  /\ \A k \in Task :
       /\ task[k].step \in {"name", "record", "send", "mine"} =>
            task[k].target \in Name /\ name \in Name
       /\ task[k].step \in {"sign", "primary"} => task[k].account \in Account
  /\ resolution # None => name \in Name
  /\ lender # None => lender.key \in Account

(* The other calls are where they were.                                    *)
OthersKept(k) == \A j \in Task : j # k => task'[j] = task[j]

LEMMA GoIs ==
  ASSUME TypeOK, NEW k \in Task, task[k] # Idle, NEW step, Go(k, step)
  PROVE  /\ OthersKept(k) /\ task'[k] # Idle
         /\ task'[k].step = step /\ task'[k].kind = task[k].kind
         /\ task'[k].target = task[k].target /\ task'[k].account = task[k].account
         /\ task'[k].registry = task[k].registry /\ task'[k].sent = task[k].sent
<1>1. task[k] \in Started /\ task'[k] = [task[k] EXCEPT !.step = step]
  BY TaskFields DEF Go, TypeOK
<1> QED
  BY <1>1 DEF Go, TypeOK, OthersKept, Started, Idle

LEMMA EndIs ==
  ASSUME TypeOK, NEW k \in Task, End(k)
  PROVE  OthersKept(k) /\ task'[k] = Idle /\ task'[k].step = "idle"
  BY DEF End, TypeOK, OthersKept, Idle

LEMMA SendingIs ==
  ASSUME TypeOK, NEW k \in Task, NEW a, Sending(k, a)
  PROVE  /\ OthersKept(k) /\ task'[k] # Idle
         /\ task'[k].step = "send" /\ task'[k].kind = "publish"
         /\ task'[k].target = resolution.name /\ task'[k].account = a
         /\ task'[k].sent = TRUE
         /\ publishStatus' = "sending"
  BY DEF Sending, TypeOK, OthersKept, Idle

(* A resolved or failed look-up ends its call, or takes a publish that has *)
(* not sent yet to its check.                                              *)
LEMMA AfterResolveIs ==
  ASSUME TypeOK, NEW k \in Task, task[k] # Idle, AfterResolve(k)
  PROVE  /\ OthersKept(k)
         /\ \/ /\ task'[k] # Idle /\ task'[k].step = "check"
               /\ task'[k].account = task[k].account
               /\ task'[k].sent = task[k].sent /\ task[k].sent # TRUE
               /\ UNCHANGED publishStatus
            \/ /\ task'[k] = Idle /\ task'[k].step = "idle"
               /\ publishStatus' = IF task[k].kind = "publish" THEN "idle"
                                   ELSE publishStatus
<1>1. CASE task[k].kind = "publish" /\ ~task[k].sent
  BY <1>1, GoIs DEF AfterResolve
<1>2. CASE ~(task[k].kind = "publish" /\ ~task[k].sent)
  BY <1>2, EndIs DEF AfterResolve
<1> QED
  BY <1>1, <1>2

LEMMA IdleStep ==
  ASSUME NEW k \in Task, task[k].step # "idle"
  PROVE  task[k] # Idle
  BY DEF Idle
-----------------------------------------------------------------------------
(* Types: one step per action.                                             *)

LEMMA TypeInit == Init => TypeOK /\ Targets
<1> SUFFICES ASSUME Init PROVE TypeOK /\ Targets
  OBVIOUS
<1>1. \A k \in Task : task[k].step = "idle"
  BY DEF Init, Idle
<1>2. 0 \in 0..MaxFaults /\ 0 \in 0..MaxReloads
  BY IdentityAssumption
<1> QED
  BY <1>1, <1>2 DEF Init, TypeOK, Targets

LEMMA ResolveNameType ==
  ASSUME TypeOK, Targets, NEW k \in Task, ResolveName(k)
  PROVE  TypeOK' /\ Targets'
<1> DEFINE n == task[k].target
<1>1. task[k] # Idle /\ task[k].step = "name" /\ n \in Name /\ name \in Name
  BY IdleStep DEF ResolveName, Targets
<1>2. ASSUME NEW ans \in Answers(n),
             resolution' = [name |-> n, registry |-> ans.registry],
             CountFault(ans.failed), Go(k, "record"),
             UNCHANGED <<status, publishStatus>>
      PROVE  TypeOK' /\ Targets'
  <2>1. task' \in Tasks
    BY <1>1, <1>2, GoType
  <2>2. OthersKept(k) /\ task'[k].step = "record" /\ task'[k].target \in Name
    BY <1>1, <1>2, GoIs
  <2>3. faults' \in 0..MaxFaults
    BY <1>1, <1>2, AnswerIs, FaultsType
  <2>4. resolution' \in Resolution
    BY <1>1, <1>2, AnswerIs DEF Resolution
  <2> QED
    BY <1>1, <1>2, <2>1, <2>2, <2>3, <2>4
       DEF ResolveName, TypeOK, Tasks, Targets, OthersKept, market
<1>3. ASSUME MayFault, CountFault(TRUE), status' = "error", AfterResolve(k),
             UNCHANGED resolution
      PROVE  TypeOK' /\ Targets'
  <2>1. task' \in Tasks /\ publishStatus' \in {"idle", "sending", "confirming"}
    BY <1>1, <1>3, AfterResolveType
  <2>2. OthersKept(k) /\ task'[k].step \in {"check", "idle"}
    BY <1>1, <1>3, AfterResolveIs
  <2>3. faults' \in 0..MaxFaults
    BY <1>3, FaultsType
  <2> QED
    BY <1>1, <1>3, <2>1, <2>2, <2>3
       DEF ResolveName, TypeOK, Tasks, Targets, OthersKept, market
<1> QED
  BY <1>2, <1>3 DEF ResolveName

LEMMA ReadRecordType ==
  ASSUME TypeOK, Targets, NEW k \in Task, ReadRecord(k)
  PROVE  TypeOK' /\ Targets'
<1> DEFINE n == task[k].target
<1>1. task[k] # Idle /\ task[k].step = "record" /\ n \in Name /\ name \in Name
  BY IdleStep DEF ReadRecord, Targets
<1>2. task' \in Tasks /\ publishStatus' \in {"idle", "sending", "confirming"}
  BY <1>1, AfterResolveType DEF ReadRecord
<1>3. OthersKept(k) /\ task'[k].step \in {"check", "idle"}
  BY <1>1, AfterResolveIs DEF ReadRecord
<1>4. ASSUME NEW ans \in Answers(n), CountFault(ans.failed),
             payoutRecord' = IF n \in Resolver[ans.registry]
                             THEN PayoutRecord(n, ans.registry) ELSE None
      PROVE  faults' \in 0..MaxFaults /\ payoutRecord' \in Read \cup {None}
  <2>1. faults' \in 0..MaxFaults
    BY <1>1, <1>4, AnswerIs, FaultsType
  <2>2. PayoutRecord(n, ans.registry) \in Read
    BY <1>1, AnswerIs, PayoutRecordType
  <2> QED
    BY <1>4, <2>1, <2>2
<1>5. ASSUME MayFault, CountFault(TRUE), payoutRecord' = None
      PROVE  faults' \in 0..MaxFaults /\ payoutRecord' \in Read \cup {None}
  BY <1>5, FaultsType
<1>6. faults' \in 0..MaxFaults /\ payoutRecord' \in Read \cup {None}
  BY <1>4, <1>5 DEF ReadRecord
<1> QED
  BY <1>1, <1>2, <1>3, <1>6
     DEF ReadRecord, TypeOK, Tasks, Targets, OthersKept, market, StatusAfterRead

LEMMA PanelType ==
  ASSUME TypeOK, Targets, NEW k \in Task,
         \/ LookUp(k) \/ ConnectWallet(k) \/ SignViewingKey(k)
         \/ \E n \in Name : SetName(n)
  PROVE  TypeOK' /\ Targets'
<1>1. ASSUME NEW n \in Name, SetName(n) PROVE TypeOK' /\ Targets'
  BY <1>1 DEF SetName, ForgetName, TypeOK, Targets, market
<1>2. ASSUME LookUp(k) PROVE TypeOK' /\ Targets'
  <2>1. name \in Name
    BY <1>2 DEF LookUp, TypeOK
  <2>2. task' \in Tasks
    BY <1>2, <2>1, StartType DEF LookUp
  <2>3. OthersKept(k) /\ task'[k].step = "name" /\ task'[k].target = name
    BY <1>2 DEF LookUp, StartTask, OthersKept, TypeOK
  <2> QED
    BY <1>2, <2>1, <2>2, <2>3 DEF LookUp, TypeOK, Tasks, Targets, OthersKept, market
<1>3. ASSUME ConnectWallet(k) PROVE TypeOK' /\ Targets'
  <2>1. task' \in Tasks
    BY <1>3, StartType DEF ConnectWallet, TypeOK
  <2>2. OthersKept(k) /\ task'[k].step = "connect"
    BY <1>3 DEF ConnectWallet, StartTask, OthersKept, TypeOK
  <2> QED
    BY <1>3, <2>1, <2>2 DEF ConnectWallet, TypeOK, Tasks, Targets, OthersKept, market
<1>4. ASSUME SignViewingKey(k) PROVE TypeOK' /\ Targets'
  <2>1. wallet \in Account
    BY <1>4 DEF SignViewingKey, TypeOK
  <2>2. task' \in Tasks
    BY <1>4, <2>1, StartType DEF SignViewingKey
  <2>3. OthersKept(k) /\ task'[k].step = "sign" /\ task'[k].account = wallet
    BY <1>4 DEF SignViewingKey, StartTask, OthersKept, TypeOK
  <2> QED
    BY <1>4, <2>1, <2>2, <2>3
       DEF SignViewingKey, TypeOK, Tasks, Targets, OthersKept, market
<1> QED
  BY <1>1, <1>2, <1>3, <1>4

LEMMA WalletType ==
  ASSUME TypeOK, Targets, NEW k \in Task,
         \/ ConnectRefused(k) \/ Signed(k) \/ \E a \in Account : Connected(k, a)
  PROVE  TypeOK' /\ Targets'
<1>1. ASSUME NEW a \in Account, Connected(k, a) PROVE TypeOK' /\ Targets'
  <2>1. task[k] \in Started
    BY <1>1, IdleStep, TaskFields DEF Connected
  <2>2. task'[k] \in Started /\ task'[k].step = "sign" /\ task'[k].account = a
    BY <1>1, <2>1 DEF Connected, Started, TypeOK
  <2>3. task' \in Tasks /\ OthersKept(k)
    BY <1>1, <2>2 DEF Connected, Tasks, TypeOK, OthersKept
  <2>4. viewing' \in Account \cup {None}
    BY <1>1 DEF Connected, KeptKey, TypeOK
  <2> QED
    BY <1>1, <2>2, <2>3, <2>4 DEF Connected, TypeOK, Tasks, Targets, OthersKept, market
<1>2. ASSUME ConnectRefused(k) PROVE TypeOK' /\ Targets'
  <2>1. task' \in Tasks /\ OthersKept(k) /\ task'[k].step = "idle"
    BY <1>2, EndType, EndIs DEF ConnectRefused
  <2> QED
    BY <1>2, <2>1 DEF ConnectRefused, TypeOK, Tasks, Targets, OthersKept, market
<1>3. ASSUME Signed(k) PROVE TypeOK' /\ Targets'
  <2>1. task[k] # Idle /\ task[k].step = "sign" /\ task[k].account \in Account
    BY <1>3, IdleStep DEF Signed, Targets
  <2>2. task' \in Tasks
    BY <1>3, <2>1, GoType, EndType DEF Signed
  <2>3. /\ OthersKept(k)
        /\ \/ task'[k].step = "primary" /\ task'[k].account = task[k].account
           \/ task'[k].step = "idle"
    BY <1>3, <2>1, GoIs, EndIs DEF Signed
  <2> QED
    BY <1>3, <2>1, <2>2, <2>3 DEF Signed, TypeOK, Tasks, Targets, OthersKept, market
<1> QED
  BY <1>1, <1>2, <1>3
LEMMA PrimaryNameType ==
  ASSUME TypeOK, Targets, NEW k \in Task, PrimaryName(k)
  PROVE  TypeOK' /\ Targets'
<1> DEFINE n == Primary[task[k].account]
<1>1. /\ task[k] # Idle /\ task[k].step = "primary" /\ task[k].account \in Account
      /\ n \in Name \cup {None}
  BY IdleStep, IdentityAssumption DEF PrimaryName, Targets
<1>2. CASE /\ n # None /\ name' = n /\ status' = "resolving"
           /\ task' = [task EXCEPT ![k].step = "name", ![k].target = n]
           /\ UNCHANGED faults
  <2>1. task[k] \in Started
    BY <1>1, TaskFields
  <2>2. task'[k] \in Started /\ task'[k].step = "name" /\ task'[k].target = n
    BY <1>1, <1>2, <2>1 DEF Started, TypeOK
  <2>3. task' \in Tasks /\ OthersKept(k)
    BY <1>2, <2>2 DEF Tasks, TypeOK, OthersKept
  <2> QED
    BY <1>1, <1>2, <2>2, <2>3
       DEF PrimaryName, TypeOK, Tasks, Targets, OthersKept, market
<1>3. CASE /\ n = None \/ MayFault
           /\ CountFault(n # None) /\ End(k) /\ UNCHANGED <<name, status>>
  <2>1. task' \in Tasks /\ OthersKept(k) /\ task'[k].step = "idle"
    BY <1>3, EndType, EndIs
  <2>2. faults' \in 0..MaxFaults
    BY <1>3, FaultsType
  <2> QED
    BY <1>1, <1>3, <2>1, <2>2 DEF PrimaryName, TypeOK, Tasks, Targets, OthersKept, market
<1> QED
  BY <1>2, <1>3 DEF PrimaryName

LEMMA PublishType ==
  ASSUME TypeOK, Targets, NEW k \in Task,
         PublishRecord(k) \/ PublishChecked(k) \/ SendSetText(k)
  PROVE  TypeOK' /\ Targets'
<1>1. ASSUME NEW a \in Account \cup {None}, MaySend(resolution), Sending(k, a),
             UNCHANGED <<text, wallet, walletStatus, viewing, name, status, resolution,
                         payoutRecord, market, faults, reloads, overtaken>>
      PROVE  TypeOK' /\ Targets'
  <2>1. resolution # None /\ resolution.name \in Name /\ name \in Name
    BY <1>1 DEF MaySend, TypeOK, Resolution, Targets
  <2>2. task' \in Tasks /\ publishStatus' = "sending"
    BY <1>1, <2>1, SendingType
  <2>3. OthersKept(k) /\ task'[k].step = "send" /\ task'[k].target = resolution.name
    BY <1>1, SendingIs
  <2> QED
    BY <1>1, <2>1, <2>2, <2>3 DEF TypeOK, Tasks, Targets, OthersKept, market
<1>2. ASSUME PublishRecord(k) PROVE TypeOK' /\ Targets'
  <2>1. viewing \in Account \cup {None} /\ name \in Name
    BY <1>2 DEF PublishRecord, TypeOK, Targets
  <2>2. CASE resolution.name = name
    BY <1>1, <1>2, <2>1, <2>2 DEF PublishRecord
  <2>3. CASE resolution.name # name
    <3>1. task' \in Tasks
      BY <1>2, <2>1, <2>3, StartType DEF PublishRecord
    <3>2. OthersKept(k) /\ task'[k].step = "name" /\ task'[k].target = name
      BY <1>2, <2>3 DEF PublishRecord, StartTask, OthersKept, TypeOK
    <3> QED
      BY <1>2, <2>1, <2>3, <3>1, <3>2
         DEF PublishRecord, TypeOK, Tasks, Targets, OthersKept, market
  <2> QED
    BY <2>2, <2>3
<1>3. ASSUME PublishChecked(k) PROVE TypeOK' /\ Targets'
  <2>1. task[k].account \in Account \cup {None}
    BY <1>3, IdleStep, TaskFields DEF PublishChecked
  <2>2. CASE MaySend(resolution)
    BY <1>1, <1>3, <2>1, <2>2 DEF PublishChecked
  <2>3. CASE ~MaySend(resolution)
    <3>1. task' \in Tasks /\ OthersKept(k) /\ task'[k].step = "idle"
      BY <1>3, <2>3, EndType, EndIs DEF PublishChecked
    <3> QED
      BY <1>3, <2>3, <3>1 DEF PublishChecked, TypeOK, Tasks, Targets, OthersKept, market
  <2> QED
    BY <2>2, <2>3
<1>4. ASSUME SendSetText(k) PROVE TypeOK' /\ Targets'
  <2>1. task[k] # Idle /\ task[k].target \in Name /\ name \in Name
    BY <1>4, IdleStep DEF SendSetText, Targets
  <2>2. task' \in Tasks
    BY <1>4, <2>1, GoType, EndType DEF SendSetText, PublishEnds
  <2>3. /\ OthersKept(k)
        /\ \/ task'[k].step = "mine" /\ task'[k].target \in Name
           \/ task'[k].step = "idle"
    BY <1>4, <2>1, GoIs, EndIs DEF SendSetText, PublishEnds
  <2>4. publishStatus' \in {"idle", "confirming"}
    BY <1>4 DEF SendSetText, PublishEnds
  <2> QED
    BY <1>4, <2>1, <2>2, <2>3, <2>4
       DEF SendSetText, TypeOK, Tasks, Targets, OthersKept, market
<1> QED
  BY <1>2, <1>3, <1>4

LEMMA MinedType ==
  ASSUME TypeOK, Targets, NEW k \in Task, Mined(k)
  PROVE  TypeOK' /\ Targets'
<1> DEFINE t == task[k]
<1>1. task[k] # Idle /\ t.target \in Name /\ t.registry \in Registry /\ name \in Name
  BY IdleStep, TaskFields DEF Mined, Targets
<1>2. text' \in [Registry -> [Name -> Account \cup {None}]]
  <2>1. Owner[t.registry][t.target] \in Account
    BY <1>1, IdentityAssumption
  <2>2. CASE UNCHANGED text
    BY <2>2 DEF TypeOK
  <2>3. CASE /\ Owner[t.registry][t.target] = t.account
             /\ text' = [text EXCEPT ![t.registry][t.target] = t.account]
    <3>1. t.account \in Account
      BY <2>1, <2>3
    <3> HIDE DEF t
    <3> QED
      BY <1>1, <2>3, <3>1 DEF TypeOK
  <2> QED
    BY <2>2, <2>3 DEF Mined
<1>3. CASE /\ name' = t.target /\ status' = "resolving" /\ Go(k, "name")
           /\ UNCHANGED <<publishStatus, faults>>
  <2>1. task' \in Tasks
    BY <1>1, <1>3, GoType
  <2>2. OthersKept(k) /\ task'[k].step = "name" /\ task'[k].target \in Name
    BY <1>1, <1>3, GoIs
  <2> QED
    BY <1>1, <1>2, <1>3, <2>1, <2>2
       DEF Mined, TypeOK, Tasks, Targets, OthersKept, market
<1>4. CASE /\ PublishEnds(k) /\ UNCHANGED <<name, status>>
           /\ UNCHANGED faults \/ (MayFault /\ CountFault(TRUE))
  <2>1. task' \in Tasks /\ OthersKept(k) /\ task'[k].step = "idle"
    BY <1>4, EndType, EndIs DEF PublishEnds
  <2>2. faults' \in 0..MaxFaults
    BY <1>4, FaultsType DEF TypeOK
  <2> QED
    BY <1>1, <1>2, <1>4, <2>1, <2>2
       DEF Mined, PublishEnds, TypeOK, Tasks, Targets, OthersKept, market
<1> QED
  BY <1>3, <1>4 DEF Mined

LEMMA MarketType ==
  ASSUME TypeOK, Targets, OpenDialog \/ CloseDialog \/ ReadForPayout \/ Announce
  PROVE  TypeOK' /\ Targets'
<1>1. ASSUME OpenDialog \/ CloseDialog PROVE TypeOK' /\ Targets'
  BY <1>1 DEF OpenDialog, CloseDialog, TypeOK, Targets, tab
<1>2. ASSUME ReadForPayout PROVE TypeOK' /\ Targets'
  <2>1. listing \in Name
    BY <1>2 DEF ReadForPayout, TypeOK
  <2>2. PICK ans \in Answers(listing) :
          /\ text[ans.registry][listing] # None
          /\ lender' = PayoutRecord(listing, ans.registry) /\ CountFault(ans.failed)
    BY <1>2 DEF ReadForPayout
  <2>3. lender' \in Read
    BY <2>1, <2>2, AnswerIs, PayoutRecordType
  <2>4. lender'.key \in Account
    BY <1>2, <2>2, <2>3 DEF PayoutRecord, Read
  <2>5. faults' \in 0..MaxFaults
    BY <2>1, <2>2, AnswerIs, FaultsType
  <2> QED
    BY <1>2, <2>3, <2>4, <2>5 DEF ReadForPayout, TypeOK, Targets, tab
<1>3. ASSUME Announce PROVE TypeOK' /\ Targets'
  <2>1. PICK r \in Draw :
          payouts' = payouts \cup
            {[name |-> lender.name, registry |-> lender.registry, ephemeral |-> r,
              address |-> PayoutAddress(r, lender.key, lender.name)]}
    BY <1>3 DEF Announce
  <2>2. lender.name \in Name /\ lender.registry \in Registry /\ lender.key \in Account
    BY <1>3 DEF Announce, TypeOK, Read, Targets
  <2>3. payouts' \subseteq Payout
    BY <1>3, <2>1, <2>2, PayoutAddressType DEF Payout, TypeOK
  <2> QED
    BY <1>3, <2>3 DEF Announce, TypeOK, Targets, tab
<1> QED
  BY <1>1, <1>2, <1>3
LEMMA ReloadType ==
  ASSUME TypeOK, Targets, Reload
  PROVE  TypeOK' /\ Targets'
<1>1. PICK k \in Task :
        task' = [j \in Task |-> IF j = k /\ name # None
                  THEN [kind |-> "lookup", step |-> "name", target |-> name,
                        account |-> None, registry |-> "ensv2", sent |-> FALSE]
                  ELSE Idle]
  BY DEF Reload
<1>2. name # None => [kind |-> "lookup", step |-> "name", target |-> name,
                      account |-> None, registry |-> "ensv2", sent |-> FALSE] \in Started
  BY DEF TypeOK, Started, Registry
<1>3. task' \in Tasks
  BY <1>1, <1>2 DEF Tasks
<1>4. \A j \in Task : \/ task'[j].step = "idle"
                      \/ /\ name \in Name /\ task'[j].step = "name"
                         /\ task'[j].target = name
  BY <1>1 DEF Idle, TypeOK
<1>5. reloads' \in 0..MaxReloads
  BY IdentityAssumption DEF Reload, TypeOK
<1> QED
  BY <1>3, <1>4, <1>5 DEF Reload, TypeOK, Tasks, Targets

LEMMA TypeStep == TypeOK /\ Targets /\ [Next]_vars => TypeOK' /\ Targets'
<1> SUFFICES ASSUME TypeOK, Targets, [Next]_vars PROVE TypeOK' /\ Targets'
  OBVIOUS
<1>1. CASE UNCHANGED vars
  BY <1>1 DEF vars, tab, market, TypeOK, Targets
<1>2. CASE \E n \in Name : SetName(n)
  BY <1>2 DEF SetName, ForgetName, TypeOK, Targets, market
<1>3. ASSUME NEW k \in Task, Answered(k) PROVE TypeOK' /\ Targets'
  BY <1>3, ResolveNameType, ReadRecordType, PrimaryNameType, PublishType, MinedType
     DEF Answered
<1> QED
  BY <1>1, <1>2, <1>3, PanelType, WalletType, PublishType, MarketType, ReloadType DEF Next
-----------------------------------------------------------------------------
(* What is under way is under way.                                         *)

UnderWay == Kinds /\ PublishServed /\ Served

(* A step of one call that leaves the others where they were.              *)
LEMMA OneCall ==
  ASSUME TypeOK, UnderWay, NEW k \in Task, OthersKept(k),
         task'[k] # Idle =>
           /\ task'[k].sent = TRUE => /\ task'[k].kind = "publish"
                                      /\ task'[k].step \in {"name", "record", "send", "mine"}
           /\ task'[k].step \in {"send", "mine"} => task'[k].sent = TRUE,
         \/ publishStatus' = "idle"
         \/ task'[k] # Idle /\ task'[k].sent = TRUE
         \/ publishStatus' = publishStatus /\ (task[k] = Idle \/ task[k].sent # TRUE),
         \/ status' # "resolving"
         \/ task'[k].step \in {"name", "record"}
         \/ status' = status /\ task[k].step \notin {"name", "record"},
         \/ walletStatus' \notin {"connecting", "signing"}
         \/ task'[k].step \in {"connect", "sign"}
         \/ walletStatus' = walletStatus /\ task[k].step \notin {"connect", "sign"}
  PROVE  UnderWay'
<1>1. Kinds'
  BY DEF UnderWay, Kinds, OthersKept
<1>2. PublishServed'
  BY DEF UnderWay, PublishServed, OthersKept
<1>3. Served'
  BY DEF UnderWay, Served, Busy, OthersKept
<1> QED
  BY <1>1, <1>2, <1>3 DEF UnderWay

LEMMA PanelUnderWay ==
  ASSUME TypeOK, UnderWay, NEW k \in Task, LookUp(k) \/ ConnectWallet(k) \/ SignViewingKey(k)
  PROVE  UnderWay'
<1>1. /\ task[k] = Idle /\ OthersKept(k) /\ task'[k].sent = FALSE
      /\ publishStatus' = publishStatus
  BY DEF LookUp, ConnectWallet, SignViewingKey, StartTask, OthersKept, TypeOK
<1>2. \/ task'[k].step = "name" /\ walletStatus' = walletStatus /\ status' = "resolving"
      \/ task'[k].step \in {"connect", "sign"} /\ status' = status
  BY DEF LookUp, ConnectWallet, SignViewingKey, StartTask, TypeOK
<1>3. task[k].step = "idle"
  BY <1>1 DEF Idle
<1> QED
  BY <1>1, <1>2, <1>3, OneCall

LEMMA WalletUnderWay ==
  ASSUME TypeOK, Targets, UnderWay, NEW k \in Task,
         \/ ConnectRefused(k) \/ Signed(k) \/ PrimaryName(k)
         \/ \E a \in Account : Connected(k, a)
  PROVE  UnderWay'
<1>1. /\ task[k] # Idle /\ task[k].step \in {"connect", "sign", "primary"}
      /\ publishStatus' = publishStatus
  BY IdleStep DEF ConnectRefused, Signed, PrimaryName, Connected
<1>2. task[k].sent # TRUE /\ task[k] \in Started
  BY <1>1, TaskFields DEF UnderWay, Kinds
<1>3. ASSUME NEW a \in Account, Connected(k, a) PROVE UnderWay'
  <2>1. OthersKept(k) /\ task'[k].sent = task[k].sent /\ task'[k].step = "sign"
    BY <1>2, <1>3 DEF Connected, OthersKept, TypeOK, Started
  <2>2. status' = status /\ walletStatus' = "signing" /\ task[k].step = "connect"
    BY <1>3 DEF Connected
  <2> QED
    BY <1>1, <1>2, <2>1, <2>2, OneCall
<1>4. ASSUME ConnectRefused(k) PROVE UnderWay'
  <2>1. OthersKept(k) /\ task'[k] = Idle
    BY <1>4, EndIs DEF ConnectRefused
  <2>2. status' = status /\ walletStatus' \in {"disconnected", "connected"}
        /\ task[k].step = "connect"
    BY <1>4 DEF ConnectRefused
  <2> QED
    BY <1>1, <1>2, <2>1, <2>2, OneCall
<1>5. ASSUME Signed(k) PROVE UnderWay'
  <2>1. OthersKept(k) /\ (task'[k] = Idle \/ (task'[k].sent = task[k].sent
                                              /\ task'[k].step = "primary"))
    BY <1>1, <1>5, EndIs, GoIs DEF Signed
  <2>2. status' = status /\ walletStatus' = "connected" /\ task[k].step = "sign"
    BY <1>5 DEF Signed
  <2> QED
    BY <1>1, <1>2, <2>1, <2>2, OneCall
<1>6. ASSUME PrimaryName(k) PROVE UnderWay'
  <2>1. walletStatus' = walletStatus /\ task[k].step = "primary"
    BY <1>6 DEF PrimaryName
  <2>2. CASE status' = "resolving" /\
             task' = [task EXCEPT ![k].step = "name",
                                  ![k].target = Primary[task[k].account]]
    <3>1. OthersKept(k) /\ task'[k].sent = task[k].sent /\ task'[k].step = "name"
      BY <1>2, <2>2 DEF OthersKept, TypeOK, Started
    <3> QED
      BY <1>1, <1>2, <2>1, <2>2, <3>1, OneCall
  <2>3. CASE End(k) /\ UNCHANGED status
    <3>1. OthersKept(k) /\ task'[k] = Idle
      BY <2>3, EndIs
    <3> QED
      BY <1>1, <1>2, <2>1, <2>3, <3>1, OneCall
  <2> QED
    BY <1>6, <2>2, <2>3 DEF PrimaryName
<1> QED
  BY <1>3, <1>4, <1>5, <1>6

LEMMA LookUpUnderWay ==
  ASSUME TypeOK, UnderWay, NEW k \in Task, ResolveName(k) \/ ReadRecord(k)
  PROVE  UnderWay'
<1>1. /\ task[k] # Idle /\ task[k].step \in {"name", "record"}
      /\ walletStatus' = walletStatus
  BY IdleStep DEF ResolveName, ReadRecord
<1>2. /\ task[k].sent = TRUE => task[k].kind = "publish"
  BY <1>1 DEF UnderWay, Kinds
<1>3. CASE Go(k, "record") /\ UNCHANGED <<status, publishStatus>>
  <2>1. /\ OthersKept(k) /\ task'[k] # Idle /\ task'[k].step = "record"
        /\ task'[k].kind = task[k].kind /\ task'[k].sent = task[k].sent
    BY <1>1, <1>3, GoIs
  <2> QED
    BY <1>1, <1>2, <1>3, <2>1, OneCall
<1>4. CASE AfterResolve(k) /\ status' \in {"error", "resolved"}
  <2>1. /\ OthersKept(k)
        /\ \/ /\ task'[k].step = "check" /\ task'[k].sent # TRUE /\ task[k].sent # TRUE
              /\ UNCHANGED publishStatus
           \/ /\ task'[k] = Idle
              /\ publishStatus' = IF task[k].kind = "publish" THEN "idle"
                                  ELSE publishStatus
    BY <1>1, <1>4, AfterResolveIs
  <2> QED
    BY <1>1, <1>2, <1>4, <2>1, OneCall
<1> QED
  BY <1>3, <1>4 DEF ResolveName, ReadRecord, StatusAfterRead

LEMMA PublishUnderWay ==
  ASSUME TypeOK, UnderWay, NEW k \in Task,
         PublishRecord(k) \/ PublishChecked(k) \/ SendSetText(k) \/ Mined(k)
  PROVE  UnderWay'
<1>a. task[k] = Idle => task[k].step = "idle"
  BY DEF Idle
<1>b. task[k].step \in {"idle", "check", "send", "mine"}
  BY <1>a DEF PublishRecord, PublishChecked, SendSetText, Mined
<1>c. walletStatus' = walletStatus
  BY DEF PublishRecord, PublishChecked, SendSetText, Mined
<1>1. /\ task[k].step \in {"idle", "check", "send", "mine"}
      /\ walletStatus' = walletStatus
  BY <1>b, <1>c
<1>2. ASSUME NEW a, Sending(k, a), UNCHANGED status PROVE UnderWay'
  <2>1. /\ OthersKept(k) /\ task'[k] # Idle /\ task'[k].sent = TRUE
        /\ task'[k].step = "send" /\ task'[k].kind = "publish"
    BY <1>2, SendingIs
  <2> QED
    BY <1>1, <1>2, <2>1, OneCall
<1>3. ASSUME PublishRecord(k) PROVE UnderWay'
  <2>1. CASE resolution.name = name
    BY <1>2, <1>3, <2>1 DEF PublishRecord
  <2>2. CASE resolution.name # name
    <3>1. /\ task[k] = Idle /\ OthersKept(k) /\ task'[k].sent = FALSE
          /\ task'[k].step = "name" /\ publishStatus' = publishStatus
      BY <1>3, <2>2 DEF PublishRecord, StartTask, OthersKept, TypeOK
    <3> QED
      BY <1>1, <3>1, OneCall
  <2> QED
    BY <2>1, <2>2
<1>4. ASSUME PublishEnds(k), UNCHANGED status PROVE UnderWay'
  <2>1. OthersKept(k) /\ task'[k] = Idle /\ publishStatus' = "idle"
    BY <1>4, EndIs DEF PublishEnds
  <2> QED
    BY <1>1, <1>4, <2>1, OneCall
<1>5. ASSUME PublishChecked(k) PROVE UnderWay'
  <2>1. CASE End(k) /\ UNCHANGED publishStatus
    <3>1. task[k] # Idle /\ task[k].step = "check"
      BY <1>5, IdleStep DEF PublishChecked
    <3>2. task[k].sent # TRUE
      BY <3>1 DEF UnderWay, Kinds
    <3>3. OthersKept(k) /\ task'[k] = Idle
      BY <2>1, EndIs
    <3>4. UNCHANGED status
      BY <1>5 DEF PublishChecked
    <3> QED
      BY <1>1, <2>1, <3>2, <3>3, <3>4, OneCall
  <2> QED
    BY <1>2, <1>5, <2>1 DEF PublishChecked
<1>s. task[k].step \in {"send", "mine"} =>
        task[k] # Idle /\ task[k].sent = TRUE /\ task[k].kind = "publish"
  BY IdleStep DEF UnderWay, Kinds
<1>6. ASSUME SendSetText(k), Go(k, "mine") PROVE UnderWay'
  <2>1. task[k].step = "send" /\ UNCHANGED status
    BY <1>6 DEF SendSetText
  <2>2. /\ OthersKept(k) /\ task'[k] # Idle /\ task'[k].step = "mine"
        /\ task'[k].kind = "publish" /\ task'[k].sent = TRUE
    BY <1>6, <1>s, <2>1, GoIs
  <2> QED
    BY <1>1, <2>1, <2>2, OneCall
<1>9. ASSUME Mined(k), Go(k, "name"), status' = "resolving" PROVE UnderWay'
  <2>1. task[k].step = "mine"
    BY <1>9 DEF Mined
  <2>2. /\ OthersKept(k) /\ task'[k] # Idle /\ task'[k].step = "name"
        /\ task'[k].kind = "publish" /\ task'[k].sent = TRUE
    BY <1>9, <1>s, <2>1, GoIs
  <2> QED
    BY <1>1, <1>9, <2>1, <2>2, OneCall
<1>7. ASSUME SendSetText(k) PROVE UnderWay'
  <2>1. task[k].step = "send" /\ UNCHANGED status
    BY <1>7 DEF SendSetText
  <2>2. CASE Go(k, "mine")
    BY <1>6, <1>7, <2>2
  <2>3. CASE PublishEnds(k)
    BY <1>4, <2>1, <2>3
  <2> QED
    BY <1>7, <2>2, <2>3 DEF SendSetText
<1>8. ASSUME Mined(k) PROVE UnderWay'
  <2>2. CASE Go(k, "name") /\ status' = "resolving"
    BY <1>8, <1>9, <2>2
  <2>3. CASE PublishEnds(k) /\ UNCHANGED status
    BY <1>4, <2>3
  <2> QED
    BY <1>8, <2>2, <2>3 DEF Mined
<1> QED
  BY <1>3, <1>5, <1>7, <1>8

LEMMA UnderWayStep == TypeOK /\ Targets /\ UnderWay /\ [Next]_vars => UnderWay'
<1> SUFFICES ASSUME TypeOK, Targets, UnderWay, [Next]_vars PROVE UnderWay'
  OBVIOUS
<1>1. ASSUME UNCHANGED <<task, walletStatus, publishStatus>>,
             UNCHANGED status \/ status' = "empty"
      PROVE  UnderWay'
  BY <1>1 DEF UnderWay, Kinds, PublishServed, Served, Busy
<1>2. CASE Reload
  <2>1. PICK k \in Task :
          task' = [j \in Task |-> IF j = k /\ name # None
                  THEN [kind |-> "lookup", step |-> "name", target |-> name,
                        account |-> None, registry |-> "ensv2", sent |-> FALSE]
                  ELSE Idle]
    BY <1>2 DEF Reload
  <2>2. \A j \in Task : task'[j] # Idle =>
          task'[j].sent = FALSE /\ task'[j].step = "name"
    BY <2>1
  <2>3. /\ publishStatus' = "idle" /\ walletStatus' \in {"disconnected", "connected"}
        /\ status' = IF name = None THEN "empty" ELSE "resolving"
    BY <1>2 DEF Reload
  <2>4. name # None => task'[k].step = "name"
    BY <2>1
  <2> QED
    BY <2>2, <2>3, <2>4 DEF UnderWay, Kinds, PublishServed, Served, Busy
<1>3. CASE UNCHANGED vars \/ \E n \in Name : SetName(n)
  BY <1>1, <1>3 DEF vars, tab, SetName, ForgetName
<1>4. CASE OpenDialog \/ CloseDialog \/ ReadForPayout \/ Announce
  BY <1>1, <1>4 DEF OpenDialog, CloseDialog, ReadForPayout, Announce, tab
<1>5. ASSUME NEW k \in Task, Answered(k) PROVE UnderWay'
  BY <1>5, LookUpUnderWay, WalletUnderWay, PublishUnderWay DEF Answered
<1> QED
  BY <1>2, <1>3, <1>4, <1>5, PanelUnderWay, WalletUnderWay, PublishUnderWay DEF Next
-----------------------------------------------------------------------------
(* The wallet and whose key it derives.                                    *)

(* Who asks the wallet, and who changes what it answered.                  *)
WalletWriter ==
  \/ \E k \in Task :
       \/ ConnectWallet(k) \/ (\E a \in Account : Connected(k, a))
       \/ ConnectRefused(k) \/ SignViewingKey(k) \/ Signed(k)
  \/ Reload

LEMMA Elsewhere ==
  ASSUME TypeOK, [Next]_vars, ~WalletWriter
  PROVE  /\ UNCHANGED <<wallet, walletStatus, viewing, overtaken>>
         /\ \A k \in Task : AtWallet(k)' => task'[k] = task[k]
<1>1. UNCHANGED <<wallet, walletStatus, viewing, overtaken>>
  BY DEF WalletWriter, Next, Answered, vars, tab, SetName, LookUp, PublishRecord,
         SendSetText, ResolveName, ReadRecord, PrimaryName, PublishChecked, Mined,
         OpenDialog, CloseDialog, ReadForPayout, Announce
<1> DEFINE Kept == \A k \in Task : AtWallet(k)' => task'[k] = task[k]
<1>2. ASSUME NEW j \in Task, OthersKept(j), task'[j].step \notin {"connect", "sign"}
      PROVE  Kept
  BY <1>2 DEF OthersKept, AtWallet
<1>3. ASSUME UNCHANGED task PROVE Kept
  BY <1>3
<1>4. ASSUME NEW j \in Task, End(j) PROVE Kept
  BY <1>2, <1>4, EndIs
<1>5. ASSUME NEW j \in Task, NEW step, step \in {"name", "record", "check", "mine"},
             task[j].step # "idle", Go(j, step)
      PROVE  Kept
  <2>1. OthersKept(j) /\ task'[j].step = step
    BY <1>5, IdleStep, GoIs
  <2> QED
    BY <1>2, <1>5, <2>1
<1>6. ASSUME NEW j \in Task, NEW a, Sending(j, a) PROVE Kept
  <2>1. OthersKept(j) /\ task'[j].step = "send"
    BY <1>6, SendingIs
  <2> QED
    BY <1>2, <2>1
<1>7. ASSUME NEW j \in Task, task[j].step # "idle", AfterResolve(j) PROVE Kept
  BY <1>2, <1>7, IdleStep, AfterResolveIs
<1>8. ASSUME NEW j \in Task, NEW kind, NEW n, NEW a, StartTask(j, kind, "name", n, a)
      PROVE  Kept
  <2>1. OthersKept(j) /\ task'[j].step = "name"
    BY <1>8 DEF StartTask, OthersKept, TypeOK
  <2> QED
    BY <1>2, <2>1
<1>9. ASSUME NEW j \in Task, LookUp(j) PROVE Kept
  BY <1>8, <1>9 DEF LookUp
<1>10. ASSUME NEW j \in Task, ResolveName(j) PROVE Kept
  <2>1. CASE Go(j, "record")
    BY <1>5, <1>10, <2>1 DEF ResolveName
  <2>2. CASE AfterResolve(j)
    BY <1>7, <1>10, <2>2 DEF ResolveName
  <2> QED
    BY <1>10, <2>1, <2>2 DEF ResolveName
<1>11. ASSUME NEW j \in Task, ReadRecord(j) PROVE Kept
  BY <1>7, <1>11 DEF ReadRecord
<1>12. ASSUME NEW j \in Task, PrimaryName(j) PROVE Kept
  <2>1. CASE task' = [task EXCEPT ![j].step = "name",
                                  ![j].target = Primary[task[j].account]]
    <3>1. task[j] \in Started
      BY <1>12, IdleStep, TaskFields DEF PrimaryName
    <3>2. OthersKept(j) /\ task'[j].step = "name"
      BY <2>1, <3>1 DEF OthersKept, TypeOK, Started
    <3> QED
      BY <1>2, <3>2
  <2> QED
    BY <1>4, <1>12, <2>1 DEF PrimaryName
<1>13. ASSUME NEW j \in Task, PublishRecord(j) PROVE Kept
  <2>1. Sending(j, viewing) \/ StartTask(j, "publish", "name", name, viewing)
    BY <1>13 DEF PublishRecord
  <2> QED
    BY <1>6, <1>8, <2>1
<1>14. ASSUME NEW j \in Task, PublishChecked(j) PROVE Kept
  <2>1. Sending(j, task[j].account) \/ End(j)
    BY <1>14 DEF PublishChecked
  <2> QED
    BY <1>4, <1>6, <2>1
<1>15. ASSUME NEW j \in Task, SendSetText(j) PROVE Kept
  <2>1. task[j].step # "idle" /\ (Go(j, "mine") \/ End(j))
    BY <1>15 DEF SendSetText, PublishEnds
  <2> QED
    BY <1>4, <1>5, <2>1
<1>16. ASSUME NEW j \in Task, Mined(j) PROVE Kept
  <2>1. task[j].step # "idle" /\ (Go(j, "name") \/ End(j))
    BY <1>16 DEF Mined, PublishEnds
  <2> QED
    BY <1>4, <1>5, <2>1
<1>17. ASSUME \/ UNCHANGED vars \/ (\E n \in Name : SetName(n))
              \/ OpenDialog \/ CloseDialog \/ ReadForPayout \/ Announce
       PROVE  Kept
  BY <1>3, <1>17 DEF vars, SetName, OpenDialog, CloseDialog, ReadForPayout, Announce
<1> HIDE DEF Kept
<1>18. \/ UNCHANGED vars \/ (\E n \in Name : SetName(n))
       \/ OpenDialog \/ CloseDialog \/ ReadForPayout \/ Announce
       \/ \E j \in Task :
            \/ LookUp(j) \/ ResolveName(j) \/ ReadRecord(j) \/ PrimaryName(j)
            \/ PublishRecord(j) \/ PublishChecked(j) \/ SendSetText(j) \/ Mined(j)
  BY DEF Next, Answered, WalletWriter
<1>19. Kept
  BY <1>18, <1>9, <1>10, <1>11, <1>12, <1>13, <1>14, <1>15, <1>16, <1>17
<1> QED
  BY <1>1, <1>19 DEF Kept

LEMMA ListedStep ==
  ASSUME Listed, [Next]_vars
  PROVE  Listed' /\ (payouts # {} => payouts' # {})
<1>1. CASE OpenDialog \/ CloseDialog \/ ReadForPayout \/ Announce \/ Reload
  BY <1>1 DEF Listed, OpenDialog, CloseDialog, ReadForPayout, Announce, Reload
<1>2. CASE UNCHANGED market
  BY <1>2 DEF market, Listed
<1> QED
  BY <1>1, <1>2
     DEF Next, Answered, vars, SetName, LookUp, ConnectWallet, Connected, ConnectRefused,
         SignViewingKey, Signed, PublishRecord, SendSetText, ResolveName, ReadRecord,
         PrimaryName, PublishChecked, Mined

LEMMA WalletStep ==
  ASSUME TypeOK, Targets, Listed, WalletAsked, ViewingIsTheWallets, [Next]_vars
  PROVE  WalletAsked' /\ ViewingIsTheWallets'
<1>a. payouts # {} => payouts' # {}
  BY ListedStep
<1>b. None \notin Account
  BY IdentityAssumption
<1>1. CASE ~WalletWriter
  <2>1. /\ UNCHANGED <<wallet, walletStatus, viewing, overtaken>>
        /\ \A k \in Task : AtWallet(k)' => task'[k] = task[k]
    BY <1>1, Elsewhere
  <2>2. \A k \in Task : AtWallet(k)' => AtWallet(k) /\ task'[k].account = task[k].account
    BY <2>1 DEF AtWallet
  <2>3. Busy' <=> Busy
    BY <2>1 DEF Busy
  <2> QED
    BY <1>a, <2>1, <2>2, <2>3 DEF WalletAsked, ViewingIsTheWallets
<1>2. CASE Reload
  <2>1. \A k \in Task : ~AtWallet(k)'
    BY <1>2 DEF Reload, Idle, AtWallet
  <2>2. viewing' = None /\ overtaken' = FALSE
    BY <1>2 DEF Reload
  <2> QED
    BY <2>1, <2>2 DEF WalletAsked, ViewingIsTheWallets
<1>3. ASSUME NEW k \in Task, ConnectWallet(k) \/ SignViewingKey(k)
      PROVE  WalletAsked' /\ ViewingIsTheWallets'
  <2>1. payouts = {} => ~Busy
    BY <1>3 DEF ConnectWallet, SignViewingKey, TriesAnother
  <2>2. /\ OthersKept(k) /\ task'[k].account = wallet
        /\ walletStatus' \in {"connecting", "signing"}
        /\ UNCHANGED <<wallet, viewing, overtaken, payouts>>
    BY <1>3 DEF ConnectWallet, SignViewingKey, StartTask, OthersKept, TypeOK, market
  <2>3. \A j \in Task : AtWallet(j)' => j = k \/ (AtWallet(j) /\ task'[j] = task[j])
    BY <2>2 DEF OthersKept, AtWallet
  <2>4. payouts = {} => \A j \in Task : ~AtWallet(j)
    BY <2>1 DEF WalletAsked
  <2> QED
    BY <2>2, <2>3, <2>4 DEF WalletAsked, ViewingIsTheWallets, Busy
<1>4. ASSUME NEW k \in Task, NEW a \in Account, Connected(k, a)
      PROVE  WalletAsked' /\ ViewingIsTheWallets'
  <2>1. /\ AtWallet(k) /\ wallet' = a /\ viewing' = KeptKey(task[k].account, a)
        /\ walletStatus' = "signing" /\ UNCHANGED payouts
        /\ overtaken' = (overtaken \/ \E j \in Task \ {k} : AtWallet(j))
    BY <1>4 DEF Connected, AtWallet, market
  <2>2. OthersKept(k) /\ task'[k].account = a
    <3>1. task[k] \in Started
      BY <2>1, IdleStep, TaskFields DEF AtWallet
    <3> QED
      BY <1>4, <3>1 DEF Connected, OthersKept, TypeOK, Started
  <2>3. \A j \in Task : AtWallet(j)' => j = k \/ AtWallet(j)
    BY <2>2 DEF OthersKept, AtWallet
  <2>4. payouts = {} => \A j \in Task \ {k} : ~AtWallet(j)
    BY <2>1 DEF WalletAsked
  <2>5. ~overtaken' /\ viewing' # None => viewing' = a
    BY <1>b, <2>1 DEF WalletAsked, ViewingIsTheWallets, KeptKey
  <2> QED
    BY <2>1, <2>2, <2>3, <2>4, <2>5 DEF WalletAsked, ViewingIsTheWallets, Busy
<1>5. ASSUME NEW k \in Task, ConnectRefused(k) \/ Signed(k)
      PROVE  WalletAsked' /\ ViewingIsTheWallets'
  <2>1. /\ AtWallet(k) /\ UNCHANGED <<wallet, overtaken, payouts>>
        /\ viewing' \in {viewing, task[k].account}
    BY <1>5 DEF ConnectRefused, Signed, AtWallet, market
  <2>2. OthersKept(k) /\ task'[k].step \in {"primary", "idle"}
    BY <1>5, IdleStep, GoIs, EndIs DEF ConnectRefused, Signed
  <2>3. \A j \in Task : AtWallet(j)' => j # k /\ AtWallet(j) /\ task'[j] = task[j]
    BY <2>2 DEF OthersKept, AtWallet
  <2>4. payouts = {} => \A j \in Task : ~AtWallet(j)'
    BY <2>1, <2>3 DEF WalletAsked
  <2>5. ~overtaken => task[k].account = wallet
    BY <2>1 DEF WalletAsked
  <2> QED
    BY <2>1, <2>3, <2>4, <2>5 DEF WalletAsked, ViewingIsTheWallets
<1> QED
  BY <1>1, <1>2, <1>3, <1>4, <1>5 DEF WalletWriter
-----------------------------------------------------------------------------
(* The records and who is paid.                                            *)

LEMMA OwnersRecordsStep ==
  ASSUME TypeOK, Targets, OwnersRecords, [Next]_vars
  PROVE  OwnersRecords'
<1>1. ASSUME NEW k \in Task, Mined(k) PROVE OwnersRecords'
  <2>1. task[k].target \in Name /\ task[k].registry \in Registry
    BY <1>1, IdleStep, TaskFields DEF Mined, Targets
  <2>2. CASE UNCHANGED text
    BY <2>2 DEF OwnersRecords
  <2>3. CASE /\ Owner[task[k].registry][task[k].target] = task[k].account
             /\ text' = [text EXCEPT ![task[k].registry][task[k].target] = task[k].account]
    <3>1. ASSUME NEW r \in Registry, NEW n \in Name
          PROVE  text'[r][n] \in {None, Owner[r][n]}
      <4>1. CASE r = task[k].registry /\ n = task[k].target
        BY <2>1, <2>3, <4>1 DEF TypeOK
      <4>2. CASE ~(r = task[k].registry /\ n = task[k].target)
        <5>1. text'[r][n] = text[r][n]
          BY <2>1, <2>3, <4>2 DEF TypeOK
        <5> QED
          BY <5>1 DEF OwnersRecords
      <4> QED
        BY <4>1, <4>2
    <3> QED
      BY <3>1 DEF OwnersRecords
  <2> QED
    BY <1>1, <2>2, <2>3 DEF Mined
<1>2. CASE UNCHANGED text
  BY <1>2 DEF OwnersRecords
<1> QED
  BY <1>1, <1>2
     DEF Next, Answered, vars, SetName, LookUp, ConnectWallet, Connected, ConnectRefused,
         SignViewingKey, Signed, PublishRecord, SendSetText, ResolveName, ReadRecord,
         PrimaryName, PublishChecked, OpenDialog, CloseDialog, ReadForPayout, Announce,
         Reload

(* Faults are only ever counted up.                                        *)
LEMMA FaultsStep ==
  ASSUME TypeOK, [Next]_vars
  PROVE  faults' = 0 => faults = 0
<1>1. ASSUME NEW failed, CountFault(failed) PROVE faults' = 0 => faults = 0
  BY <1>1 DEF CountFault, TypeOK
<1> QED
  BY <1>1
     DEF Next, Answered, vars, SetName, LookUp, ConnectWallet, Connected, ConnectRefused,
         SignViewingKey, Signed, PublishRecord, SendSetText, ResolveName, ReadRecord,
         PrimaryName, PublishChecked, Mined, OpenDialog, CloseDialog, ReadForPayout,
         Announce, Reload

LEMMA LenderStep ==
  ASSUME TypeOK, Listed, OwnersRecords, LenderReads, [Next]_vars
  PROVE  LenderReads'
<1>f. \A r, n : ReadFrom(r, n) => ReadFrom(r, n)'
  BY FaultsStep DEF ReadFrom, Authority
<1>1. CASE ReadForPayout
  <2>1. PICK ans \in Answers(listing) :
          /\ text[ans.registry][listing] # None
          /\ lender' = PayoutRecord(listing, ans.registry) /\ CountFault(ans.failed)
    BY <1>1 DEF ReadForPayout
  <2>2. UNCHANGED <<listing, payouts>> /\ listing \in Name
    BY <1>1 DEF ReadForPayout, TypeOK
  <2>3. /\ ans.registry \in Registry
        /\ ~ans.failed => ans.registry = Authority(listing)
    BY <2>2, AnswerIs
  <2>4. text[ans.registry][listing] = Owner[ans.registry][listing]
    BY <2>1, <2>2, <2>3 DEF OwnersRecords
  <2>5. faults' = 0 => ~ans.failed
    BY <2>1 DEF CountFault, TypeOK
  <2>6. /\ lender'.name = listing /\ lender'.registry = ans.registry
        /\ lender'.key = Owner[ans.registry][listing]
    BY <2>1, <2>4 DEF PayoutRecord
  <2>7. ReadFrom(ans.registry, listing)'
    BY <2>2, <2>3, <2>5 DEF ReadFrom, Authority
  <2> QED
    BY <1>f, <2>2, <2>6, <2>7 DEF LenderReads
<1>2. CASE Announce
  <2>1. PICK r \in Draw :
          payouts' = payouts \cup
            {[name |-> lender.name, registry |-> lender.registry, ephemeral |-> r,
              address |-> PayoutAddress(r, lender.key, lender.name)]}
    BY <1>2 DEF Announce
  <2>2. /\ lender.name = listing /\ ReadFrom(lender.registry, listing)
        /\ lender.key = Owner[lender.registry][listing]
        /\ lender' = None /\ UNCHANGED listing
    BY <1>2 DEF Announce, LenderReads
  <2> QED
    BY <1>f, <2>1, <2>2 DEF LenderReads
<1>3. CASE OpenDialog \/ CloseDialog \/ Reload
  <2>1. UNCHANGED <<lender, payouts>> /\ (lender # None \/ payouts # {} => listing' = listing)
    BY <1>3 DEF Listed, OpenDialog, CloseDialog, Reload
  <2>2. CASE lender # None \/ payouts # {}
    BY <1>f, <2>1, <2>2 DEF LenderReads
  <2>3. CASE lender = None /\ payouts = {}
    BY <2>1, <2>3 DEF LenderReads
  <2> QED
    BY <2>2, <2>3
<1>4. CASE UNCHANGED market
  BY <1>f, <1>4 DEF market, LenderReads
<1> QED
  BY <1>1, <1>2, <1>3, <1>4
     DEF Next, Answered, vars, SetName, LookUp, ConnectWallet, Connected, ConnectRefused,
         SignViewingKey, Signed, PublishRecord, SendSetText, ResolveName, ReadRecord,
         PrimaryName, PublishChecked, Mined

-----------------------------------------------------------------------------
(* The inductive invariant.                                                *)

IInv ==
  /\ TypeOK /\ Targets /\ UnderWay /\ Listed /\ WalletAsked /\ ViewingIsTheWallets
  /\ OwnersRecords

LEMMA IInvInit == Init => IInv
<1> SUFFICES ASSUME Init PROVE IInv
  OBVIOUS
<1>1. \A k \in Task : task[k] = Idle /\ task[k].step = "idle"
  BY DEF Init, Idle
<1>2. UnderWay
  BY <1>1 DEF Init, UnderWay, Kinds, PublishServed, Served, Busy
<1>3. Listed /\ WalletAsked /\ ViewingIsTheWallets
  BY <1>1 DEF Init, Listed, WalletAsked, AtWallet, ViewingIsTheWallets
<1>4. OwnersRecords
  <2>1. \A r \in Registry, n \in Name : text[r][n] \in PublishedBefore(r, n)
    BY DEF Init
  <2> QED
    BY <2>1 DEF OwnersRecords, PublishedBefore
<1> QED
  BY <1>2, <1>3, <1>4, TypeInit DEF IInv

LEMMA IInvStep == IInv /\ [Next]_vars => IInv'
  BY TypeStep, UnderWayStep, ListedStep, WalletStep, OwnersRecordsStep DEF IInv

LEMMA Always == Spec => []IInv
  BY IInvInit, IInvStep, PTL DEF Spec

-----------------------------------------------------------------------------
(* Every field is one the store, the panel and the lender can have written. *)
THEOREM TypeCorrect == Spec => []TypeOK
  BY Always, PTL DEF IInv

(* Whatever the panel shows as under way is served by a call, however many *)
(* calls overlap, fail or die with a reload.                               *)
THEOREM BusyServed == Spec => []BusyIsServed
<1>1. IInv => BusyIsServed
  <2> SUFFICES ASSUME IInv PROVE BusyIsServed
    OBVIOUS
  <2>1. Served /\ PublishServed /\ Kinds
    BY DEF IInv, UnderWay
  <2>2. publishStatus # "idle" => \E k \in Task : task[k] # Idle /\ task[k].kind = "publish"
    BY <2>1 DEF PublishServed, Kinds
  <2> QED
    BY <2>1, <2>2 DEF BusyIsServed, Served
<1> QED
  BY <1>1, Always, PTL

(* The viewing key is that of the connected account, over every sequence   *)
(* of connecting, switching, refusing and signing again, until on the      *)
(* recovery screen an account overtakes an unanswered signature.           *)
THEOREM ViewingKeysMatch == Spec => []ViewingIsTheWallets
  BY Always, PTL DEF IInv

(* Nobody but the owner of a name in a registry ever has a key in its      *)
(* payout record there.                                                    *)
THEOREM RecordsAreTheOwners == Spec => []OwnersRecords
  BY Always, PTL DEF IInv

LEMMA LenderAlways == Spec => []LenderReads
<1>1. Init => LenderReads
  BY DEF Init, LenderReads
<1>2. IInv /\ LenderReads /\ [Next]_vars => LenderReads'
  BY LenderStep DEF IInv
<1> QED
  BY <1>1, <1>2, Always, PTL DEF Spec

(* Whatever a lender announced, the owner of the listed name in the        *)
(* registry that was read recovers, and nobody else; and until a read      *)
(* failed that is the registry the name is kept in.                        *)
THEOREM PaidToTheOwner == Spec => []OwnerRecovers
<1>1. TypeOK /\ LenderReads => OwnerRecovers
  <2> SUFFICES ASSUME TypeOK, LenderReads, NEW p \in payouts
               PROVE  /\ p.name = listing
                      /\ \A a \in Account :
                           Recovers(a, p) <=> a = Owner[p.registry][p.name]
                      /\ faults = 0 => p.registry = Authority(p.name)
    BY DEF OwnerRecovers
  <2>1. /\ p.name = listing /\ ReadFrom(p.registry, listing)
        /\ p.address = PayoutAddress(p.ephemeral, Owner[p.registry][p.name], p.name)
    BY DEF LenderReads
  <2>2. \A a \in Account : Recovers(a, p) <=> a = Owner[p.registry][p.name]
    BY <2>1, PayoutAddressKey DEF Recovers, Recovered
  <2> QED
    BY <2>1, <2>2 DEF ReadFrom
<1>2. Spec => []LenderReads
  BY LenderAlways
<1> QED
  BY <1>1, <1>2, TypeCorrect, PTL

=============================================================================
