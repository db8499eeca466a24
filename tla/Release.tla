------------------------------- MODULE Release ------------------------------
(***************************************************************************)
(* The keys of one circuit on their way through the repository: zk:build   *)
(* (build.mjs) runs the ceremony and copies its artifacts to the browser,  *)
(* the SPA build copies them again, zk:programvk (emit-program-vk.mjs) and *)
(* anchor build compile them into the program, solana:setup records them,  *)
(* and the backend (verifier.ts) decides at boot whether they are of one   *)
(* build. A tab proves with what it was served; a receipt the backend      *)
(* accepts is meant for the program.                                       *)
(*                                                                         *)
(* Every script is a process of its own that writes file after file and    *)
(* may be stopped between two of them. A key is the number of its          *)
(* ceremony; 0 stands for a file that is not there. A wasm is the circuit  *)
(* it was compiled from, or None.                                          *)
(***************************************************************************)
EXTENDS Receipts

CONSTANTS
  Circuit,     \* versions of credit_policy.circom
  Documented,  \* those whose public signals have the documented layout
  Agreeing,    \* those whose hashes are poseidon-lite's
  MaxBuild,    \* bound on ceremonies
  MaxMint,     \* bound on mints solana:setup creates
  None

ASSUME ReleaseAssumption ==
  /\ Documented \subseteq Circuit /\ Agreeing \subseteq Circuit
  /\ None \notin Circuit /\ None \notin BOOLEAN /\ MaxBuild \in Nat /\ MaxMint \in Nat

VARIABLES
  ceremony,    \* ceremony[g]: the circuit of the g-th ceremony
  step,        \* where zk:build is
  copies,      \* the artifacts it has still to copy
  zk,          \* zk/build
  public,      \* frontend/public/zk
  dist,        \* frontend/dist/zk
  so,          \* the key in vk.rs and in the private_credit.so built with it
  chain,       \* the deployed program, its config account, the mints
  setup,       \* where solana:setup is
  deployment,  \* the mint .solana/deployment.json names, or 0
  api,         \* the backend and what it found at boot
  tab,         \* the artifacts a tab holds
  accepted,    \* a receipt the backend verified, or None
  since        \* history: what was written after it was last checked

building == <<ceremony, step, copies, zk, public>>
program == <<so, chain, setup, deployment>>
proving == <<tab, accepted>>
vars == <<building, dist, program, api, proving, since>>

Build == 1 .. MaxBuild
Key == Build \cup {0}
Artifacts == [wasm : Circuit \cup {None}, zkey : Key, vkey : Key]
NoArtifacts == [wasm |-> None, zkey |-> 0, vkey |-> 0]
EmptyBuild == [wasm |-> None, zkey |-> 0, vkey |-> 0, layout |-> FALSE, hash |-> FALSE]
EmptyChain == [program |-> 0, config |-> FALSE, mints |-> {}, funded |-> {}]
EmptyTab == [wasm |-> None, zkey |-> 0]
DownApi == [phase |-> "down", key |-> 0, ready |-> FALSE, served |-> None]

Init ==
  /\ ceremony = << >>
  /\ step = "off" /\ copies = << >> /\ zk = EmptyBuild
  /\ public = NoArtifacts /\ dist = NoArtifacts
  /\ so = 0
  /\ chain = EmptyChain /\ setup = [step |-> "off", mint |-> 0]
  /\ deployment = 0 /\ api = DownApi
  /\ tab = EmptyTab /\ accepted = None
  /\ since = {}

-----------------------------------------------------------------------------
(* zk:build, of the circuit as it is in the tree.                          *)
(* "A stale build directory is a liability": the build starts from nothing.*)
Preflight == EmptyBuild
StartBuild ==
  /\ step = "off" /\ Len(ceremony) < MaxBuild
  /\ step' = "compile" /\ zk' = Preflight
  /\ UNCHANGED <<ceremony, copies, public, dist, program, api, proving, since>>

Compile(circuit) ==
  /\ step = "compile" /\ zk' = [zk EXCEPT !.wasm = circuit]
  /\ step' = IF circuit \in Documented THEN "ceremony" ELSE "off"
  /\ UNCHANGED <<ceremony, copies, public, dist, program, api, proving, since>>

(* Both phases with fresh entropy: every ceremony makes a key of its own.  *)
Ceremony ==
  /\ step = "ceremony" /\ step' = "check"
  /\ ceremony' = Append(ceremony, zk.wasm)
  /\ zk' = [zk EXCEPT !.zkey = Len(ceremony'), !.vkey = Len(ceremony')]
  /\ UNCHANGED <<copies, public, dist, program, api, proving, since>>

(* The known witness is proved, and its signals compared with what         *)
(* poseidon-lite computes. The layout file is the last one of zk/build.    *)
ValuesUnchecked(circuit) == TRUE
ValuesAgree(circuit) == circuit \in Agreeing
CopyKeyFirst == <<"vkey", "wasm", "zkey">>
CopyOrder == <<"wasm", "zkey", "vkey">>
CheckValues ==
  /\ step = "check"
  /\ IF ValuesAgree(zk.wasm)
       THEN step' = "copy" /\ copies' = CopyOrder /\ zk' = [zk EXCEPT !.layout = TRUE]
       ELSE step' = "off" /\ UNCHANGED <<copies, zk>>
  /\ UNCHANGED <<ceremony, public, dist, program, api, proving, since>>

(* The artifacts are copied one by one.                                    *)
Copy ==
  /\ step = "copy"
  /\ public' = [public EXCEPT ![Head(copies)] = zk[Head(copies)]]
  /\ copies' = Tail(copies)
  /\ step' = IF copies' = << >> THEN "off" ELSE "copy"
  /\ since' = since \cup {"public"}
  /\ UNCHANGED <<ceremony, zk, dist, program, api, proving>>

StopBuild ==
  /\ step # "off" /\ step' = "off" /\ copies' = << >>
  /\ UNCHANGED <<ceremony, zk, public, dist, program, api, proving, since>>

(* npm run build takes frontend/public as it is.                           *)
BuildSpa ==
  /\ public # NoArtifacts /\ dist' = public /\ since' = since \cup {"dist"}
  /\ UNCHANGED <<building, program, api, proving>>

-----------------------------------------------------------------------------
(* solana:build emits vk.rs and vk_hash.json from whatever key zk/build    *)
(* holds and compiles the program with it.                                 *)
SolanaBuild ==
  /\ zk.vkey # 0 /\ so' = zk.vkey /\ zk' = [zk EXCEPT !.hash = TRUE]
  /\ UNCHANGED <<ceremony, step, copies, public, dist, chain, setup, deployment, api,
                 proving, since>>

Deploy ==
  /\ so # 0 /\ chain' = [chain EXCEPT !.program = so]
  /\ UNCHANGED <<building, dist, so, setup, deployment, api, proving, since>>

(* solana:down and solana:up: the local chain starts from nothing.         *)
ResetValidator ==
  /\ chain # EmptyChain /\ chain' = EmptyChain
  /\ setup' = [setup EXCEPT !.step = "off"] /\ since' = since \cup {"chain"}
  /\ UNCHANGED <<building, dist, so, deployment, api, proving>>

(* solana:setup is run again until nothing is missing: the mint of the     *)
(* last deployment.json if the chain has it, a supply for the lender, the  *)
(* config account, and the record of it all at the end.                    *)
Mints == 1 .. MaxMint
NewMints ==
  LET fresh == Mints \ (chain.mints \cup {deployment}) IN
  {m \in fresh : \A n \in fresh : m <= n}
KnownMint == IF deployment \in chain.mints THEN deployment ELSE 0
SetupMintRecordedFirst(m) ==
  /\ setup.step = "off" /\ chain.program # 0
  /\ m \in IF KnownMint # 0 THEN {KnownMint} ELSE NewMints
  /\ setup' = [step |-> "fund", mint |-> m]
  /\ chain' = [chain EXCEPT !.mints = @ \cup {m}]
  /\ deployment' = m /\ since' = since \ {"chain"}
  /\ UNCHANGED <<building, dist, so, api, proving>>
SetupMint(m) ==
  /\ setup.step = "off" /\ chain.program # 0
  /\ m \in IF KnownMint # 0 THEN {KnownMint} ELSE NewMints
  /\ setup' = [step |-> "fund", mint |-> m]
  /\ chain' = [chain EXCEPT !.mints = @ \cup {m}]
  /\ UNCHANGED <<building, dist, so, deployment, api, proving, since>>
SetupFund ==
  /\ setup.step = "fund" /\ setup' = [setup EXCEPT !.step = "initialize"]
  /\ chain' = [chain EXCEPT !.funded = @ \cup {setup.mint}]
  /\ UNCHANGED <<building, dist, so, deployment, api, proving, since>>
SetupInitialize ==
  /\ setup.step = "initialize" /\ zk.hash
  /\ setup' = [setup EXCEPT !.step = "write"] /\ chain' = [chain EXCEPT !.config = TRUE]
  /\ UNCHANGED <<building, dist, so, deployment, api, proving, since>>
SetupWrite ==
  /\ setup.step = "write" /\ setup' = [step |-> "off", mint |-> 0]
  /\ deployment' = setup.mint
  /\ since' = since \ {"chain"}
  /\ UNCHANGED <<building, dist, so, chain, api, proving>>
StopSetup ==
  /\ setup.step # "off" /\ setup' = [step |-> "off", mint |-> 0]
  /\ UNCHANGED <<building, dist, so, chain, deployment, api, proving, since>>

-----------------------------------------------------------------------------
(* The backend's boot: the layout and the key, then the browser's copies.  *)
BootKey ==
  /\ api.phase = "down"
  /\ api' = [DownApi EXCEPT !.phase = "boot", !.key = IF zk.layout THEN zk.vkey ELSE 0]
  /\ since' = since \ {"public", "dist"}
  /\ UNCHANGED <<building, dist, program, proving>>

ArtifactsAgree == public.vkey # 0 /\ public.vkey = api.key
ServedArtifactsAgree == IF dist.vkey = 0 THEN None ELSE dist.vkey = api.key
BootCompare ==
  /\ api.phase = "boot"
  /\ api' = [api EXCEPT !.phase = "up", !.ready = api.key # 0 /\ ArtifactsAgree,
                        !.served = ServedArtifactsAgree]
  /\ UNCHANGED <<building, dist, program, proving, since>>

(* A restart forgets the key and every receipt.                            *)
Shutdown ==
  /\ api.phase # "down" /\ api' = DownApi /\ accepted' = None
  /\ UNCHANGED <<building, dist, program, tab, since>>

-----------------------------------------------------------------------------
(* A tab. Its worker fetches the wasm and the zkey side by side, from the  *)
(* dev server's public directory or from the SPA the backend serves, and   *)
(* keeps them until the page is loaded again.                              *)
OpenTab ==
  /\ tab # EmptyTab /\ tab' = EmptyTab
  /\ UNCHANGED <<building, dist, program, api, accepted, since>>
FetchWasm(from) ==
  /\ tab.wasm = None /\ from.wasm # None /\ tab' = [tab EXCEPT !.wasm = from.wasm]
  /\ UNCHANGED <<building, dist, program, api, accepted, since>>
FetchZkey(from) ==
  /\ tab.zkey = 0 /\ from.zkey # 0 /\ tab' = [tab EXCEPT !.zkey = from.zkey]
  /\ UNCHANGED <<building, dist, program, api, accepted, since>>

(* A zkey proves what its circuit states; with the wasm of another circuit *)
(* the proof is one no key accepts.                                        *)
Provable(a) == a.zkey # 0 /\ a.wasm = ceremony[a.zkey]
ProofOf(statement) ==
  [protocol |-> "groth16", curve |-> "bn128", statement |-> statement,
   key |-> IF Provable(tab) THEN tab.zkey ELSE 0, a |-> "plus", b |-> "c0c1",
   written |-> "reduced"]
Rewritten(proof, writing) == [proof EXCEPT !.written = writing]
Statements == {s \in [DOMAIN Order -> Element] :
                 \A i \in DOMAIN Order : Order[i] = "eligible" => s[i] \in {0, 1}}

Named == {[name \in Signal |-> IF name = "eligible" THEN yes ELSE values[name]] :
            yes \in BOOLEAN, values \in [Signal \ {"eligible"} -> Numeral]}
Arrays == [DOMAIN Order -> Numeral]

(* A proof is made, submitted (POST /proofs) and verified. The named       *)
(* signals, the array and the writing of the coordinates come from the     *)
(* client, whatever they say; the receipt is accepted only if every check  *)
(* passes, and no check is about a coordinate's size.                      *)
ReadsAs(named, array) == AssertPublicSignals(named) /\ CheckSignalOrder(array, named)
VerifyGroth16(array, proof) ==
  api.ready /\ ParseProofPayload(proof) /\ SnarkjsVerify(api.key, array, proof)
Submit ==
  /\ tab.wasm # None /\ tab.zkey # 0 /\ api.ready /\ accepted = None
  /\ \E named \in Named, array \in Arrays :
       /\ ReadsAs(named, array)
       /\ \E statement \in Statements, writing \in Writing :
            LET proof == Rewritten(ProofOf(statement), writing) IN
            /\ VerifyGroth16(array, proof)
            /\ accepted' = [named |-> named, array |-> array, proof |-> proof]
  /\ UNCHANGED <<building, dist, program, api, tab, since>>

ZkBuild ==
  \/ \E circuit \in Circuit : Compile(circuit)
  \/ StartBuild \/ Ceremony \/ CheckValues \/ Copy \/ StopBuild
SolanaSetup ==
  \/ \E m \in Mints : SetupMint(m)
  \/ SetupFund \/ SetupInitialize \/ SetupWrite \/ StopSetup
Backend == BootKey \/ BootCompare \/ Shutdown
Browser ==
  \/ OpenTab
  \/ \E from \in {public, dist} : FetchWasm(from) \/ FetchZkey(from)
  \/ Submit
Next ==
  ZkBuild \/ BuildSpa \/ SolanaBuild \/ Deploy \/ ResetValidator \/ SolanaSetup
    \/ Backend \/ Browser
Spec == Init /\ [][Next]_vars

-----------------------------------------------------------------------------
Keys == {g \in Build : g <= Len(ceremony)} \cup {0}
Sound(g) == g # 0 /\ ceremony[g] \in Documented \cap Agreeing

TypeOK ==
  /\ ceremony \in Seq(Circuit) /\ Len(ceremony) <= MaxBuild
  /\ step \in {"off", "compile", "ceremony", "check", "copy"}
  /\ public \in Artifacts /\ dist \in Artifacts
  /\ {zk.vkey, zk.zkey, public.zkey, public.vkey, api.key, tab.zkey} \subseteq Keys

(* A backend that found itself ready at boot accepts what a browser can    *)
(* prove: unless a file was copied since it began to look, the zkey and    *)
(* the wasm that are served are those of its key, although it compared the *)
(* verification keys only, and so is the built SPA unless it warned.       *)
(* (checkArtifactsAgree, checkServedArtifacts and the order of build.mjs's *)
(* copies, with builds stopped anywhere.)                                  *)
OneBuild(a) == Provable(a) /\ a.zkey = api.key
ReadyIsProvable ==
  api.ready =>
    /\ "public" \notin since => OneBuild(public)
    /\ api.served = TRUE /\ "dist" \notin since => OneBuild(dist)

(* An accepted receipt proves, under a circuit that passed both assertions *)
(* of the build, exactly what its named signals say.                       *)
AcceptedIsSound ==
  accepted # None =>
    /\ Sound(accepted.proof.key)
    /\ DecodePublicSignals(accepted.proof.statement) = accepted.named

(* The deployed program accepts what the backend accepted exactly if it    *)
(* was built from the same key and the client wrote the coordinates        *)
(* reduced, as a prover does: toSolanaProof does not throw on the receipt  *)
(* and encodes it into what groth16-solana verifies.  The signals need no  *)
(* such exception: the backend bounds them.                                *)
Presentable(r) ==
  /\ Encodable(r.proof, r.array)
  /\ ProgramVerifies(chain.program, ToSolanaProof(r.proof, r.array))
AcceptedIsPresentable ==
  accepted # None =>
    (Presentable(accepted) <=>
       chain.program = accepted.proof.key /\ accepted.proof.written = "reduced")

(* However often solana:setup was stopped and run again: once it wrote     *)
(* deployment.json, the mint that names has its supply and the program its *)
(* config account, until the chain is wiped.                               *)
DeploymentIsUsable ==
  deployment # 0 /\ "chain" \notin since =>
    deployment \in chain.funded /\ chain.config /\ chain.program # 0
=============================================================================
