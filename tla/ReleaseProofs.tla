---------------------------- MODULE ReleaseProofs ----------------------------
(***************************************************************************)
(* What the runs of Release check on two builds, for any number of builds, *)
(* circuits and mints and any signal layout.                               *)
(***************************************************************************)
EXTENDS Release, TLAPS

(* A reduced number is the field element it names: the two readings of a   *)
(* receipt differ on unreduced numbers only.                               *)
LEMMA ReducedIsItself ==
  ASSUME NEW n \in Nat, n < FieldModulus
  PROVE  ToField(n) = n
  BY ReceiptsAssumption DEF ToField

(* The array of a receipt that passed both checks of the backend is made   *)
(* of reduced signals, one for each of the layout.                         *)
LEMMA ReadsAsReduced ==
  ASSUME NEW named \in Named, NEW array \in Arrays, ReadsAs(named, array)
  PROVE  /\ array = EncodePublicSignals(named)
         /\ DOMAIN array = DOMAIN Order /\ Len(array) = Len(Order)
         /\ \A i \in DOMAIN array : array[i] \in Nat /\ array[i] < FieldModulus
<1>1. array = EncodePublicSignals(named)
  BY DEF ReadsAs, CheckSignalOrder
<1>2. DOMAIN array = DOMAIN Order
  BY DEF Arrays
<1>3. ASSUME NEW i \in DOMAIN array
      PROVE  array[i] \in Nat /\ array[i] < FieldModulus
  <2>1. Order[i] \in Signal
    BY <1>2, <1>3 DEF Signal
  <2>2. array[i] = EncodeSignal(Order[i], named[Order[i]])
    BY <1>1, <1>2, <1>3 DEF EncodePublicSignals
  <2>3. CASE Order[i] = "eligible"
    BY <2>2, <2>3, ReceiptsAssumption DEF EncodeSignal
  <2>4. CASE Order[i] # "eligible"
    <3>1. named[Order[i]] < FieldModulus
      BY <2>1, <2>4 DEF ReadsAs, AssertPublicSignals, AssertHexField
    <3>2. array[i] \in Numeral
      BY <1>2, <1>3 DEF Arrays
    <3> QED BY <2>2, <2>4, <3>1, <3>2, ReceiptsAssumption DEF EncodeSignal, Numeral
  <2> QED BY <2>3, <2>4
<1>4. Len(array) = Len(Order)
  <2>1. array \in Seq(Numeral) /\ DOMAIN array = 1 .. Len(Order)
    BY <1>2, ReceiptsAssumption DEF Arrays
  <2> QED BY <2>1, ReceiptsAssumption
<1> QED BY <1>1, <1>2, <1>3, <1>4

(* So the statement that verified is the array itself.                     *)
LEMMA StatementOfReduced ==
  ASSUME NEW array, array = [i \in DOMAIN array |-> array[i]],
         \A i \in DOMAIN array : array[i] \in Nat /\ array[i] < FieldModulus
  PROVE  Statement(array) = array
  BY ReducedIsItself DEF Statement

(* Decoding undoes encoding: a layout names every signal once.             *)
LEMMA DecodeEncode ==
  ASSUME NEW named \in Named
  PROVE  DecodePublicSignals(EncodePublicSignals(named)) = named
<1> DEFINE array == EncodePublicSignals(named)
<1>1. ASSUME NEW name \in Signal
      PROVE  DecodeSignal(name, array[CHOOSE i \in DOMAIN Order : Order[i] = name]) = named[name]
  <2> DEFINE i == CHOOSE j \in DOMAIN Order : Order[j] = name
  <2>1. i \in DOMAIN Order /\ Order[i] = name
    BY <1>1 DEF Signal
  <2>2. array[i] = EncodeSignal(name, named[name])
    BY <2>1 DEF EncodePublicSignals
  <2>3. name = "eligible" => named[name] \in BOOLEAN
    BY <1>1 DEF Named
  <2> HIDE DEF i, array
  <2>4. DecodeSignal(name, EncodeSignal(name, named[name])) = named[name]
    BY <2>3 DEF DecodeSignal, EncodeSignal
  <2>5. DecodeSignal(name, array[i]) = named[name]
    BY <2>2, <2>4
  <2> QED BY <2>5 DEF i
<1>2. named = [name \in Signal |-> named[name]]
  BY DEF Named
<1> QED BY <1>1, <1>2 DEF DecodePublicSignals

-----------------------------------------------------------------------------
(* The shape of the state that every argument below relies on: keys are    *)
(* those of ceremonies that were run, and copies follow CopyOrder.         *)
RanKeys == 0 .. Len(ceremony)
Files == [wasm : Circuit \cup {None}, zkey : RanKeys, vkey : RanKeys]
ReleaseTypes ==
  /\ ceremony \in Seq(Circuit)
  /\ step \in {"off", "compile", "ceremony", "check", "copy"}
  /\ copies \in {<< >>, <<"vkey">>, <<"zkey", "vkey">>, CopyOrder}
  /\ step = "copy" => copies # << >>
  /\ step = "ceremony" => zk.wasm \in Documented
  /\ DOMAIN zk = {"wasm", "zkey", "vkey", "layout", "hash"}
  /\ zk.wasm \in Circuit \cup {None} /\ zk.zkey \in RanKeys /\ zk.vkey \in RanKeys
  /\ public \in Files /\ dist \in Files
  /\ DOMAIN api = {"phase", "key", "ready", "served"} /\ api.key \in RanKeys
  /\ tab \in [wasm : Circuit \cup {None}, zkey : RanKeys]
ChainTypes ==
  /\ so \in Nat
  /\ chain \in [program : Nat, config : BOOLEAN, mints : SUBSET Nat, funded : SUBSET Nat]
  /\ setup \in [step : {"off", "fund", "initialize", "write"}, mint : Nat]
  /\ deployment \in Nat

(* Appending a ceremony leaves the keys of the earlier ones what they were. *)
LEMMA CeremonyAppends ==
  ASSUME ReleaseTypes, Ceremony
  PROVE  /\ ceremony' \in Seq(Circuit)
         /\ Len(ceremony') = Len(ceremony) + 1
         /\ \A g \in 1 .. Len(ceremony) : ceremony'[g] = ceremony[g]
         /\ ceremony'[Len(ceremony')] = zk.wasm
  BY ReleaseAssumption DEF ReleaseTypes, Ceremony

(* The three copies, one after the other.                                   *)
LEMMA CopyTails ==
  /\ Head(CopyOrder) = "wasm" /\ Tail(CopyOrder) = <<"zkey", "vkey">>
  /\ Head(<<"zkey", "vkey">>) = "zkey" /\ Tail(<<"zkey", "vkey">>) = <<"vkey">>
  /\ Head(<<"vkey">>) = "vkey" /\ Tail(<<"vkey">>) = << >>
  /\ CopyOrder # << >> /\ <<"zkey", "vkey">> # << >> /\ <<"vkey">> # << >>
  /\ CopyOrder # <<"vkey">> /\ <<"zkey", "vkey">> # <<"vkey">>
<1>1. /\ Head(CopyOrder) = "wasm" /\ Head(<<"zkey", "vkey">>) = "zkey"
      /\ Head(<<"vkey">>) = "vkey"
  BY DEF CopyOrder
<1>2. Tail(CopyOrder) = <<"zkey", "vkey">>
  BY DEF CopyOrder
<1>3. Tail(<<"zkey", "vkey">>) = <<"vkey">>
  OBVIOUS
<1>4. Tail(<<"vkey">>) = << >>
  OBVIOUS
<1>5. CopyOrder # << >> /\ <<"zkey", "vkey">> # << >> /\ <<"vkey">> # << >>
  BY DEF CopyOrder
<1>6. CopyOrder # <<"vkey">> /\ <<"zkey", "vkey">> # <<"vkey">>
  BY DEF CopyOrder
<1> QED BY <1>1, <1>2, <1>3, <1>4, <1>5, <1>6

LEMMA InitTypes == Init => ReleaseTypes /\ ChainTypes
  BY DEF Init, ReleaseTypes, ChainTypes, RanKeys, Files, EmptyBuild, NoArtifacts, DownApi,
         EmptyTab, EmptyChain

(* What each action does to the files, the key in memory and the tab.      *)
LEMMA TypesKept ==
  ASSUME ReleaseTypes, [Next]_vars
  PROVE  ReleaseTypes'
<1>1. CASE StartBuild
  BY <1>1 DEF ReleaseTypes, RanKeys, Files, StartBuild, Preflight, EmptyBuild, proving
<1>2. CASE \E circuit \in Circuit : Compile(circuit)
  BY <1>2 DEF ReleaseTypes, RanKeys, Files, Compile, proving
<1>3. CASE Ceremony
  <2>1. /\ ceremony' \in Seq(Circuit) /\ Len(ceremony') = Len(ceremony) + 1
    BY <1>3, CeremonyAppends
  <2>2. RanKeys \subseteq RanKeys' /\ Len(ceremony') \in RanKeys'
    BY <2>1 DEF RanKeys
  <2>3. /\ zk' = [zk EXCEPT !.zkey = Len(ceremony'), !.vkey = Len(ceremony')]
        /\ step' = "check"
        /\ UNCHANGED <<copies, public, dist, program, api, proving, since>>
    BY <1>3 DEF Ceremony
  <2>4. /\ public' \in Files' /\ dist' \in Files'
    BY <2>2, <2>3 DEF ReleaseTypes, Files
  <2>5. /\ DOMAIN zk' = {"wasm", "zkey", "vkey", "layout", "hash"}
        /\ zk'.wasm \in Circuit \cup {None} /\ zk'.zkey \in RanKeys' /\ zk'.vkey \in RanKeys'
    BY <2>2, <2>3 DEF ReleaseTypes
  <2>6. /\ DOMAIN api' = {"phase", "key", "ready", "served"} /\ api'.key \in RanKeys'
        /\ tab' \in [wasm : Circuit \cup {None}, zkey : RanKeys']
    BY <2>2, <2>3 DEF ReleaseTypes, proving
  <2> QED BY <2>1, <2>3, <2>4, <2>5, <2>6 DEF ReleaseTypes
<1>4. CASE CheckValues
  BY CopyTails, <1>4 DEF ReleaseTypes, RanKeys, Files, CheckValues, proving
<1>5. CASE Copy
  <2>1. \/ copies = CopyOrder /\ copies' = <<"zkey", "vkey">>
        \/ copies = <<"zkey", "vkey">> /\ copies' = <<"vkey">>
        \/ copies = <<"vkey">> /\ copies' = << >>
    BY <1>5, CopyTails DEF ReleaseTypes, Copy
  <2>2. public' \in Files
    BY <1>5, <2>1 DEF ReleaseTypes, Files, Copy
  <2> QED BY <1>5, <2>1, <2>2 DEF ReleaseTypes, RanKeys, Files, Copy, proving
<1>6. CASE StopBuild
  BY <1>6 DEF ReleaseTypes, RanKeys, Files, StopBuild, proving
<1>7. CASE BuildSpa
  BY <1>7 DEF ReleaseTypes, RanKeys, Files, BuildSpa, building, proving
<1>8. CASE SolanaBuild
  BY <1>8 DEF ReleaseTypes, RanKeys, Files, SolanaBuild, proving
<1>9. CASE Deploy
  BY <1>9 DEF ReleaseTypes, RanKeys, Files, Deploy, building, proving
<1>10. CASE ResetValidator
  BY <1>10 DEF ReleaseTypes, RanKeys, Files, ResetValidator, building, proving
<1>11. CASE SolanaSetup
  BY <1>11 DEF ReleaseTypes, RanKeys, Files, SolanaSetup, SetupMint, SetupFund, SetupInitialize,
     SetupWrite, StopSetup, building, proving
<1>12. CASE BootKey
  BY <1>12 DEF ReleaseTypes, RanKeys, Files, BootKey, DownApi, building, proving
<1>13. CASE BootCompare
  BY <1>13 DEF ReleaseTypes, RanKeys, Files, BootCompare, building, proving
<1>14. CASE Shutdown
  BY <1>14 DEF ReleaseTypes, RanKeys, Files, Shutdown, DownApi, building
<1>15. CASE OpenTab
  BY <1>15 DEF ReleaseTypes, RanKeys, Files, OpenTab, EmptyTab, building
<1>16. CASE \E from \in {public, dist} : FetchWasm(from) \/ FetchZkey(from)
  BY <1>16 DEF ReleaseTypes, RanKeys, Files, FetchWasm, FetchZkey, building
<1>17. CASE Submit
  BY <1>17 DEF ReleaseTypes, RanKeys, Files, Submit, building
<1>18. CASE UNCHANGED vars
  BY <1>18 DEF ReleaseTypes, RanKeys, Files, vars, building, proving
<1> QED
  BY <1>1, <1>2, <1>3, <1>4, <1>5, <1>6, <1>7, <1>8, <1>9, <1>10, <1>11, <1>12, <1>13, <1>14,
     <1>15, <1>16, <1>17, <1>18 DEF Next, ZkBuild, Backend, Browser
-----------------------------------------------------------------------------
(* zk:build: a key is in zk/build together with the zkey and the wasm of   *)
(* its ceremony, and with the layout file only if both assertions passed.  *)
BuildInv ==
  /\ step \in {"compile", "ceremony"} => zk.vkey = 0
  /\ step \in {"compile", "ceremony", "check"} => zk.layout = FALSE
  /\ zk.vkey # 0 => zk.zkey = zk.vkey /\ zk.wasm = ceremony[zk.vkey]
  /\ step \in {"check", "copy"} => zk.vkey # 0 /\ zk.wasm \in Documented
  /\ zk.layout = TRUE => Sound(zk.vkey)

(* The copies: whatever a build stopped between two of them leaves behind, *)
(* a directory with the key of zk/build holds the rest of that build too,  *)
(* for the key is copied last; and what the backend compared at boot stays *)
(* so until somebody copies again.                                         *)
SameBuild(a) == a.wasm = zk.wasm /\ a.zkey = zk.zkey
ServeInv ==
  /\ zk.vkey # 0 /\ public.vkey = zk.vkey => SameBuild(public)
  /\ zk.vkey # 0 /\ dist.vkey = zk.vkey => SameBuild(dist)
  /\ step \in {"check", "copy"} => public.vkey # zk.vkey
  /\ step = "copy" /\ copies # CopyOrder => public.wasm = zk.wasm
  /\ step = "copy" /\ copies = <<"vkey">> => public.zkey = zk.zkey
  /\ api.key # 0 /\ "public" \notin since /\ public.vkey = api.key => OneBuild(public)
  /\ api.key # 0 /\ "dist" \notin since /\ dist.vkey = api.key => OneBuild(dist)
  /\ api.ready = TRUE => api.key # 0
  /\ api.ready = TRUE /\ "public" \notin since => public.vkey = api.key
  /\ api.ready = TRUE /\ api.served = TRUE /\ "dist" \notin since => dist.vkey = api.key

(* What the backend verified was read as the array it was sent.            *)
ReceiptOf(r) ==
  /\ r.named \in Named /\ r.array \in Arrays /\ ReadsAs(r.named, r.array)
  /\ r.proof.statement = Statement(r.array)
  /\ r.proof.a = "plus" /\ r.proof.b = "c0c1" /\ r.proof.written \in Writing
  /\ ParseProofPayload(r.proof)
AcceptInv ==
  /\ api.key # 0 => Sound(api.key)
  /\ api.ready = TRUE => api.key # 0
  /\ accepted # None =>
       /\ accepted.proof.key \in RanKeys /\ Sound(accepted.proof.key)
       /\ ReceiptOf(accepted)

SetupInv ==
  /\ setup.step \in {"initialize", "write"} => setup.mint \in chain.funded
  /\ setup.step = "write" => chain.config = TRUE
  /\ setup.step # "off" => chain.program # 0
  /\ deployment # 0 /\ "chain" \notin since =>
       deployment \in chain.funded /\ chain.config = TRUE /\ chain.program # 0

(* The statement of such a receipt is its array, encoded from its names.   *)
LEMMA ReceiptStatement ==
  ASSUME NEW r, ReceiptOf(r)
  PROVE  /\ r.proof.statement = r.array /\ r.array = EncodePublicSignals(r.named)
         /\ Len(r.array) = Len(Order)
         /\ \A i \in DOMAIN r.array : r.array[i] < FieldModulus
<1>1. r.named \in Named /\ r.array \in Arrays /\ ReadsAs(r.named, r.array)
  BY DEF ReceiptOf
<1>2. /\ r.array = EncodePublicSignals(r.named) /\ Len(r.array) = Len(Order)
      /\ \A i \in DOMAIN r.array : r.array[i] \in Nat /\ r.array[i] < FieldModulus
  BY <1>1, ReadsAsReduced
<1>3. r.array = [i \in DOMAIN r.array |-> r.array[i]]
  BY <1>1 DEF Arrays
<1>4. Statement(r.array) = r.array
  BY <1>2, <1>3, StatementOfReduced
<1> QED BY <1>2, <1>4 DEF ReceiptOf

(* Stopped anywhere, a build leaves no key without its ceremony.           *)
LEMMA BuildKept ==
  ASSUME ReleaseTypes, BuildInv, [Next]_vars
  PROVE  BuildInv'
<1>1. CASE StartBuild
  BY <1>1 DEF BuildInv, StartBuild, Preflight, EmptyBuild
<1>2. CASE \E circuit \in Circuit : Compile(circuit)
  BY <1>2 DEF BuildInv, Compile
<1>3. CASE Ceremony
  BY <1>3 DEF ReleaseTypes, BuildInv, Ceremony
<1>4. CASE CheckValues
  BY <1>4 DEF ReleaseTypes, BuildInv, Sound, CheckValues, ValuesAgree
<1>5. CASE Copy
  BY <1>5 DEF BuildInv, Sound, Copy
<1>6. CASE StopBuild
  BY <1>6 DEF BuildInv, Sound, StopBuild
<1>7. CASE BuildSpa
  BY <1>7 DEF BuildInv, Sound, BuildSpa, building
<1>8. CASE SolanaBuild
  BY <1>8 DEF BuildInv, Sound, SolanaBuild
<1>9. CASE Deploy
  BY <1>9 DEF BuildInv, Sound, Deploy, building
<1>10. CASE ResetValidator
  BY <1>10 DEF BuildInv, Sound, ResetValidator, EmptyChain, building
<1>11. CASE SolanaSetup
  BY <1>11 DEF BuildInv, Sound, SolanaSetup, SetupMint, SetupFund, SetupInitialize, SetupWrite,
     StopSetup, building
<1>12. CASE BootKey
  BY <1>12 DEF BuildInv, Sound, BootKey, DownApi, building
<1>13. CASE BootCompare
  BY <1>13 DEF BuildInv, Sound, BootCompare, building
<1>14. CASE Shutdown
  BY <1>14 DEF BuildInv, Sound, Shutdown, DownApi, building
<1>15. CASE OpenTab
  BY <1>15 DEF BuildInv, Sound, OpenTab, building
<1>16. CASE \E from \in {public, dist} : FetchWasm(from) \/ FetchZkey(from)
  BY <1>16 DEF BuildInv, Sound, FetchWasm, FetchZkey, building
<1>17. CASE Submit
  BY <1>17 DEF BuildInv, Sound, Submit, building
<1>18. CASE UNCHANGED vars
  BY <1>18 DEF BuildInv, Sound, vars, building
<1> QED
  BY <1>1, <1>2, <1>3, <1>4, <1>5, <1>6, <1>7, <1>8, <1>9, <1>10, <1>11, <1>12, <1>13, <1>14,
     <1>15, <1>16, <1>17, <1>18 DEF Next, ZkBuild, Backend, Browser

(* The copies and the boot.                                                *)
LEMMA ServeKept ==
  ASSUME ReleaseTypes, BuildInv, ServeInv, [Next]_vars
  PROVE  ServeInv'
<1>1. CASE StartBuild
  BY <1>1 DEF ServeInv, OneBuild, Provable, StartBuild, Preflight, EmptyBuild
<1>2. CASE \E circuit \in Circuit : Compile(circuit)
  BY <1>2 DEF BuildInv, ServeInv, OneBuild, Provable, Compile
<1>3. CASE Ceremony
  BY <1>3 DEF ReleaseTypes, RanKeys, Files, ServeInv, OneBuild, Provable, Ceremony
<1>4. CASE CheckValues
  BY CopyTails, <1>4 DEF ReleaseTypes, ServeInv, SameBuild, OneBuild, Provable, CheckValues
<1>5. CASE Copy
  BY CopyTails, <1>5 DEF ReleaseTypes, Files, ServeInv, SameBuild, OneBuild, Provable, Copy
<1>6. CASE StopBuild
  BY <1>6 DEF ServeInv, SameBuild, OneBuild, Provable, StopBuild
<1>7. CASE BuildSpa
  BY <1>7 DEF ServeInv, SameBuild, OneBuild, Provable, BuildSpa, building
<1>8. CASE SolanaBuild
  BY <1>8 DEF ServeInv, SameBuild, OneBuild, Provable, SolanaBuild
<1>9. CASE Deploy
  BY <1>9 DEF ServeInv, SameBuild, OneBuild, Provable, Deploy, building
<1>10. CASE ResetValidator
  BY <1>10 DEF ServeInv, SameBuild, OneBuild, Provable, ResetValidator, EmptyChain, building
<1>11. CASE SolanaSetup
  BY <1>11 DEF ServeInv, SameBuild, OneBuild, Provable, SolanaSetup, SetupMint, SetupFund,
     SetupInitialize, SetupWrite, StopSetup, building
<1>12. CASE BootKey
  BY <1>12 DEF BuildInv, ServeInv, SameBuild, OneBuild, Provable, BootKey, DownApi, building
<1>13. CASE BootCompare
  BY ReleaseAssumption, <1>13 DEF ReleaseTypes, ServeInv, SameBuild, OneBuild, Provable,
     BootCompare, ArtifactsAgree, ServedArtifactsAgree, building
<1>14. CASE Shutdown
  BY <1>14 DEF ServeInv, SameBuild, Shutdown, DownApi, building
<1>15. CASE OpenTab
  BY <1>15 DEF ServeInv, SameBuild, OneBuild, Provable, OpenTab, building
<1>16. CASE \E from \in {public, dist} : FetchWasm(from) \/ FetchZkey(from)
  BY <1>16 DEF ServeInv, SameBuild, OneBuild, Provable, FetchWasm, FetchZkey, building
<1>17. CASE Submit
  BY <1>17 DEF ServeInv, SameBuild, OneBuild, Provable, Submit, building
<1>18. CASE UNCHANGED vars
  BY <1>18 DEF ServeInv, SameBuild, OneBuild, Provable, vars, building
<1> QED
  BY <1>1, <1>2, <1>3, <1>4, <1>5, <1>6, <1>7, <1>8, <1>9, <1>10, <1>11, <1>12, <1>13, <1>14,
     <1>15, <1>16, <1>17, <1>18 DEF Next, ZkBuild, Backend, Browser

(* The checks of the backend.                                              *)
LEMMA AcceptKept ==
  ASSUME ReleaseTypes, BuildInv, AcceptInv, [Next]_vars
  PROVE  AcceptInv'
<1>1. CASE StartBuild
  BY <1>1 DEF RanKeys, AcceptInv, Sound, StartBuild, Preflight, EmptyBuild, proving
<1>2. CASE \E circuit \in Circuit : Compile(circuit)
  BY <1>2 DEF RanKeys, AcceptInv, Sound, Compile, proving
<1>3. CASE Ceremony
  BY <1>3 DEF ReleaseTypes, RanKeys, AcceptInv, Sound, Ceremony, proving
<1>4. CASE CheckValues
  BY <1>4 DEF RanKeys, AcceptInv, Sound, CheckValues, proving
<1>5. CASE Copy
  BY <1>5 DEF RanKeys, AcceptInv, Sound, Copy, proving
<1>6. CASE StopBuild
  BY <1>6 DEF RanKeys, AcceptInv, Sound, StopBuild, proving
<1>7. CASE BuildSpa
  BY <1>7 DEF RanKeys, AcceptInv, Sound, BuildSpa, building, proving
<1>8. CASE SolanaBuild
  BY <1>8 DEF RanKeys, AcceptInv, Sound, SolanaBuild, proving
<1>9. CASE Deploy
  BY <1>9 DEF RanKeys, AcceptInv, Sound, Deploy, building, proving
<1>10. CASE ResetValidator
  BY <1>10 DEF RanKeys, AcceptInv, Sound, ResetValidator, EmptyChain, building, proving
<1>11. CASE SolanaSetup
  BY <1>11 DEF RanKeys, AcceptInv, Sound, SolanaSetup, SetupMint, SetupFund, SetupInitialize,
     SetupWrite, StopSetup, building, proving
<1>12. CASE BootKey
  BY <1>12 DEF RanKeys, BuildInv, AcceptInv, Sound, BootKey, DownApi, building, proving
<1>13. CASE BootCompare
  BY <1>13 DEF ReleaseTypes, RanKeys, AcceptInv, Sound, BootCompare, building, proving
<1>14. CASE Shutdown
  BY <1>14 DEF AcceptInv, Shutdown, DownApi
<1>15. CASE OpenTab
  BY <1>15 DEF RanKeys, AcceptInv, Sound, OpenTab, building
<1>16. CASE \E from \in {public, dist} : FetchWasm(from) \/ FetchZkey(from)
  BY <1>16 DEF RanKeys, AcceptInv, Sound, FetchWasm, FetchZkey, building
<1>17. CASE Submit
  <2>1. PICK named \in Named, array \in Arrays, statement \in Statements,
             writing \in Writing :
          /\ ReadsAs(named, array)
          /\ VerifyGroth16(array, Rewritten(ProofOf(statement), writing))
          /\ accepted' = [named |-> named, array |-> array,
                          proof |-> Rewritten(ProofOf(statement), writing)]
    BY <1>17 DEF Submit
  <2>2. UNCHANGED <<ceremony, api>>
    BY <1>17 DEF Submit, building
  <2>3. Rewritten(ProofOf(statement), writing).key = api.key /\ api.ready = TRUE
    BY <2>1 DEF VerifyGroth16, SnarkjsVerify
  <2>4. ReceiptOf(accepted')
    BY <2>1 DEF ReceiptOf, VerifyGroth16, SnarkjsVerify, ProofOf, Rewritten
  <2>5. accepted'.proof.key = api.key
    BY <2>1, <2>3
  <2> QED BY <2>2, <2>3, <2>4, <2>5 DEF AcceptInv, Sound, ReleaseTypes, RanKeys
<1>18. CASE UNCHANGED vars
  BY <1>18 DEF RanKeys, AcceptInv, Sound, vars, building, proving
<1> QED
  BY <1>1, <1>2, <1>3, <1>4, <1>5, <1>6, <1>7, <1>8, <1>9, <1>10, <1>11, <1>12, <1>13, <1>14,
     <1>15, <1>16, <1>17, <1>18 DEF Next, ZkBuild, Backend, Browser

(* The deployment, with a chain that is wiped under it.                    *)
LEMMA SetupKept ==
  ASSUME ReleaseTypes, ChainTypes, SetupInv, [Next]_vars
  PROVE  (ChainTypes /\ SetupInv)'
<1>1. CASE StartBuild
  BY <1>1 DEF ChainTypes, SetupInv, StartBuild, Preflight, EmptyBuild, program
<1>2. CASE \E circuit \in Circuit : Compile(circuit)
  BY <1>2 DEF ChainTypes, SetupInv, Compile, program
<1>3. CASE Ceremony
  BY <1>3 DEF ChainTypes, SetupInv, Ceremony, program
<1>4. CASE CheckValues
  BY <1>4 DEF ChainTypes, SetupInv, CheckValues, program
<1>5. CASE Copy
  BY <1>5 DEF ChainTypes, SetupInv, Copy, program
<1>6. CASE StopBuild
  BY <1>6 DEF ChainTypes, SetupInv, StopBuild, program
<1>7. CASE BuildSpa
  BY <1>7 DEF ChainTypes, SetupInv, BuildSpa, program
<1>8. CASE SolanaBuild
  <2>1. zk.vkey \in Nat
    BY DEF ReleaseTypes, RanKeys
  <2> QED BY <1>8, <2>1 DEF ChainTypes, SetupInv, SolanaBuild
<1>9. CASE Deploy
  BY <1>9 DEF ChainTypes, SetupInv, Deploy
<1>10. CASE ResetValidator
  BY <1>10 DEF ChainTypes, SetupInv, ResetValidator, EmptyChain
<1>11. CASE SolanaSetup
  <2>1. ASSUME NEW m \in Mints, SetupMint(m)
        PROVE  (ChainTypes /\ SetupInv)'
    BY <2>1 DEF ChainTypes, SetupInv, SetupMint, Mints
  <2>2. CASE SetupFund
    BY <2>2 DEF ChainTypes, SetupInv, SetupFund
  <2>3. CASE SetupInitialize
    BY <2>3 DEF ChainTypes, SetupInv, SetupInitialize
  <2>4. CASE SetupWrite
    BY <2>4 DEF ChainTypes, SetupInv, SetupWrite
  <2>5. CASE StopSetup
    BY <2>5 DEF ChainTypes, SetupInv, StopSetup
  <2> QED BY <1>11, <2>1, <2>2, <2>3, <2>4, <2>5 DEF SolanaSetup
<1>12. CASE BootKey
  BY <1>12 DEF ChainTypes, SetupInv, BootKey, DownApi, program
<1>13. CASE BootCompare
  BY <1>13 DEF ChainTypes, SetupInv, BootCompare, program
<1>14. CASE Shutdown
  BY <1>14 DEF ChainTypes, SetupInv, Shutdown, DownApi, program
<1>15. CASE OpenTab
  BY <1>15 DEF ChainTypes, SetupInv, OpenTab, program
<1>16. CASE \E from \in {public, dist} : FetchWasm(from) \/ FetchZkey(from)
  BY <1>16 DEF ChainTypes, SetupInv, FetchWasm, FetchZkey, program
<1>17. CASE Submit
  BY <1>17 DEF ChainTypes, SetupInv, Submit, program
<1>18. CASE UNCHANGED vars
  BY <1>18 DEF ChainTypes, SetupInv, vars, program
<1> QED
  BY <1>1, <1>2, <1>3, <1>4, <1>5, <1>6, <1>7, <1>8, <1>9, <1>10, <1>11, <1>12, <1>13, <1>14,
     <1>15, <1>16, <1>17, <1>18 DEF Next, ZkBuild, Backend, Browser

LEMMA InvInit == Init => BuildInv /\ ServeInv /\ AcceptInv /\ SetupInv
  BY DEF Init, BuildInv, ServeInv, AcceptInv, SetupInv, EmptyBuild, NoArtifacts, DownApi,
     EmptyTab,
         EmptyChain

-----------------------------------------------------------------------------
(* However a build, an SPA build and a boot interleave, and wherever they  *)
(* are stopped, a ready backend and the files the browser is served are of *)
(* one build, unless files were copied since it booted.                    *)
THEOREM ReadyIsProvableHolds == Spec => []ReadyIsProvable
<1> DEFINE I == ReleaseTypes /\ BuildInv /\ ServeInv
<1>1. Init => I
  BY InitTypes, InvInit
<1>2. I /\ [Next]_vars => I'
  BY TypesKept, BuildKept, ServeKept
<1>3. I => ReadyIsProvable
  BY DEF ServeInv, ReadyIsProvable
<1> QED BY <1>1, <1>2, <1>3, PTL DEF Spec

(* An accepted receipt proves, under a circuit with the documented layout  *)
(* and poseidon-lite's hashes, the named signals it carries.               *)
THEOREM AcceptedIsSoundHolds == Spec => []AcceptedIsSound
<1> DEFINE I == ReleaseTypes /\ BuildInv /\ AcceptInv
<1>1. Init => I
  BY InitTypes, InvInit
<1>2. I /\ [Next]_vars => I'
  BY TypesKept, BuildKept, AcceptKept
<1>3. I => AcceptedIsSound
  <2> SUFFICES ASSUME AcceptInv, accepted # None
               PROVE  /\ Sound(accepted.proof.key)
                      /\ DecodePublicSignals(accepted.proof.statement) = accepted.named
    BY DEF AcceptedIsSound
  <2>1. ReceiptOf(accepted) /\ Sound(accepted.proof.key)
    BY DEF AcceptInv
  <2>2. accepted.proof.statement = EncodePublicSignals(accepted.named)
    BY <2>1, ReceiptStatement
  <2> QED BY <2>1, <2>2, DecodeEncode DEF ReceiptOf
<1> QED BY <1>1, <1>2, <1>3, PTL DEF Spec

(* Whatever the backend accepted, the program verifies exactly if it was   *)
(* built from the same key and the coordinates were written reduced.       *)
THEOREM AcceptedIsPresentableHolds == Spec => []AcceptedIsPresentable
<1> DEFINE I == ReleaseTypes /\ BuildInv /\ AcceptInv
<1>1. Init => I
  BY InitTypes, InvInit
<1>2. I /\ [Next]_vars => I'
  BY TypesKept, BuildKept, AcceptKept
<1>3. I => AcceptedIsPresentable
  <2> SUFFICES ASSUME AcceptInv, accepted # None
               PROVE  Presentable(accepted) <=>
                        /\ chain.program = accepted.proof.key
                        /\ accepted.proof.written = "reduced"
    BY DEF AcceptedIsPresentable
  <2>1. ReceiptOf(accepted)
    BY DEF AcceptInv
  <2>2. /\ accepted.proof.statement = accepted.array
        /\ Len(accepted.array) = Len(Order)
        /\ \A i \in DOMAIN accepted.array : accepted.array[i] < FieldModulus
    BY <2>1, ReceiptStatement
  <2> QED BY <2>1, <2>2
          DEF ReceiptOf, Presentable, Encodable, ProgramVerifies, ToSolanaProof, Negated,
              Swapped
<1> QED BY <1>1, <1>2, <1>3, PTL DEF Spec

(* Wherever solana:setup was stopped, and on however many chains it ran:   *)
(* the mint it recorded is funded and the program it talks to initialized. *)
THEOREM DeploymentIsUsableHolds == Spec => []DeploymentIsUsable
<1> DEFINE I == ReleaseTypes /\ ChainTypes /\ SetupInv
<1>1. Init => I
  BY InitTypes, InvInit
<1>2. I /\ [Next]_vars => I'
  BY TypesKept, SetupKept
<1>3. I => DeploymentIsUsable
  BY DEF SetupInv, DeploymentIsUsable
<1> QED BY <1>1, <1>2, <1>3, PTL DEF Spec
=============================================================================
