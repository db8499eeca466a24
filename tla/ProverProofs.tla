---------------------------- MODULE ProverProofs ----------------------------
(***************************************************************************)
(* Theorems about the prover worker, for any number of workers, proofs and *)
(* failures, whatever trees are rendered, mounted, hidden and discarded.   *)
(***************************************************************************)
EXTENDS Prover, FiniteSetTheorems, TLAPS

-----------------------------------------------------------------------------
(* The invariants.                                                         *)

Alive == {"starting", "running", "broken"}

(* A worker lives while it is the shared one, which was the last created.  *)
OneShared ==
  /\ \A i \in Client : worker[i] \in Alive => i = shared
  /\ \A i \in Client : i > born => worker[i] = "unborn"
  /\ shared # NoClient => worker[shared] \in Alive /\ shared <= born
  /\ refs = IF view.phase = "mounted" THEN 1 ELSE 0
  /\ view.phase = "mounted" => view.held = shared /\ shared # NoClient
  /\ refs = 0 /\ shared # NoClient => armed = TRUE

(* Nothing was asked of a worker that does not run yet.                    *)
Untouched(i) ==
  /\ client[i].status = "loading" /\ client[i].pending = {}
  /\ jobs[i] = {} /\ replies[i] = <<>>
  /\ \A d \in Id : caller[d] # i

(* A running worker was asked for a proof, is at one or has answered one   *)
(* only after the key was loaded.                                          *)
Loaded(i) ==
  \/ i \in artifacts
  \/ /\ client[i].pending = {} /\ client[i].status \notin {"ready", "proving"}
     /\ jobs[i] \subseteq {Warmup}
     /\ \A d \in Id : caller[d] = i => call[d] # "building"
     /\ \A n \in 1 .. Len(replies[i]) :
          replies[i][n].type = "ready" \/
          (replies[i][n].type = "error" /\ replies[i][n].job = Warmup)

Honest(i) ==
  /\ client[i].status = "ready" => i \in artifacts /\ client[i].pending = {}
  /\ client[i].status = "proving" => client[i].pending # {}

-----------------------------------------------------------------------------
(* Types.                                                                  *)

LEMMA ClientType == Client \subseteq Nat \ {0} /\ NoClient \notin Client /\ IsFiniteSet(Client)
<1>1. Client \subseteq Nat \ {0} /\ NoClient \notin Client
  BY BoundsAssumption DEF Client, NoClient
<1>2. IsFiniteSet(Client)
  BY FS_Interval, BoundsAssumption DEF Client
<1> QED
  BY <1>1, <1>2

LEMMA TypeInit == Init => TypeOK
<1> SUFFICES ASSUME Init PROVE TypeOK
  OBVIOUS
<1>1. 0 \in 0 .. MaxClients /\ 0 \in 0 .. MaxFailures
  BY BoundsAssumption
<1>2. view \in [phase : {"none", "rendered", "mounted", "hidden"},
                value : Client \cup {NoClient}, held : Client \cup {NoClient}]
  BY DEF Init
<1>3. replies \in [Client -> Seq(Message)]
  BY DEF Init
<1>4. client \in [Client -> [status : {"loading", "ready", "proving", "error"},
                             pending : SUBSET Id]]
  BY DEF Init
<1> QED
  BY <1>1, <1>2, <1>3, <1>4 DEF Init, TypeOK

LEMMA ShareType ==
  ASSUME TypeOK, OneShared, ShareCurrent
  PROVE  /\ shared' \in Client /\ shared' = Current /\ born' \in 0 .. MaxClients
         /\ worker' \in [Client -> {"unborn", "starting", "running", "broken", "terminated"}]
         /\ worker'[shared'] \in Alive /\ shared' <= born'
         /\ \A i \in Client : worker'[i] \in Alive => i = shared'
         /\ \A i \in Client : i > born' => worker'[i] = "unborn"
         /\ \A i \in Client : worker'[i] \in {"unborn", "starting"} =>
              worker[i] \in {"unborn", "starting"}
         /\ \A i \in Client : worker'[i] = "running" => worker[i] = "running"
<1>a. born \in Nat /\ MaxClients \in Nat
  BY BoundsAssumption DEF TypeOK
<1>1. CASE shared = NoClient
  <2>1. /\ born + 1 \in Client /\ shared' = born + 1 /\ born' = born + 1
        /\ worker' = [worker EXCEPT ![born + 1] = "starting"]
    BY <1>1, <1>a DEF ShareCurrent, Current, Client
  <2>2. worker[born + 1] = "unborn"
    BY <1>a, <2>1 DEF OneShared
  <2>3. \A i \in Client : worker[i] \notin Alive
    BY <1>1, ClientType DEF OneShared
  <2>4. \A i \in Client : worker'[i] = IF i = born + 1 THEN "starting" ELSE worker[i]
    BY <2>1 DEF TypeOK
  <2>5. \A i \in Client : i > born + 1 => worker[i] = "unborn" /\ i # born + 1
    BY <1>a, ClientType DEF OneShared
  <2>6. born' \in 0 .. MaxClients /\ shared' <= born'
    BY <1>a, <2>1 DEF Client
  <2>7. worker' \in [Client -> {"unborn", "starting", "running", "broken", "terminated"}]
    BY <2>1 DEF TypeOK
  <2> QED
    BY <1>1, <2>1, <2>2, <2>3, <2>4, <2>5, <2>6, <2>7 DEF Current, Alive
<1>2. CASE shared # NoClient
  <2>1. shared \in Client /\ shared' = shared /\ born' = born /\ worker' = worker
    BY <1>2 DEF ShareCurrent, Current, TypeOK
  <2> QED
    BY <1>2, <2>1 DEF OneShared, TypeOK, Current
<1> QED
  BY <1>1, <1>2

LEMMA AnsweredType ==
  ASSUME TypeOK, NEW i \in Client, NEW j, NEW status, NEW outcome,
         status \in {"loading", "ready", "proving", "error"},
         outcome \in Settled, Answered(i, j, status, outcome)
  PROVE  /\ client' \in [Client -> [status : {"loading", "ready", "proving", "error"},
                                    pending : SUBSET Id]]
         /\ call' \in [Id -> {"idle", "building", "pending"} \cup Settled]
<1>1. client[i].pending \subseteq Id
  BY DEF TypeOK
<1>2. [status |-> status, pending |-> client[i].pending \ {j}] \in
        [status : {"loading", "ready", "proving", "error"}, pending : SUBSET Id]
  BY <1>1
<1>3. client' = [client EXCEPT ![i] = [status |-> status,
                                       pending |-> client[i].pending \ {j}]]
  BY DEF Answered
<1>4. client' \in [Client -> [status : {"loading", "ready", "proving", "error"},
                              pending : SUBSET Id]]
  BY <1>2, <1>3 DEF TypeOK
<1>5. call' \in [Id -> {"idle", "building", "pending"} \cup Settled]
  BY <1>1 DEF Answered, TypeOK
<1> QED
  BY <1>4, <1>5

(* The messages of a worker are messages.                                  *)
LEMMA MessageType ==
  ASSUME TypeOK, NEW i \in Client, replies[i] # <<>>
  PROVE  /\ Head(replies[i]) \in Message
         /\ Tail(replies[i]) \in Seq(Message)
         /\ Head(replies[i]) = replies[i][1]
         /\ Len(replies[i]) \in Nat /\ Len(replies[i]) >= 1
         /\ Len(Tail(replies[i])) = Len(replies[i]) - 1
         /\ \A n \in 1 .. Len(Tail(replies[i])) : Tail(replies[i])[n] = replies[i][n + 1]
  BY DEF TypeOK

LEMMA PostType ==
  ASSUME TypeOK, NEW i \in Client, NEW type, NEW j, [type |-> type, job |-> j] \in Message,
         Post(i, type, j)
  PROVE  /\ replies' \in [Client -> Seq(Message)]
         /\ replies'[i] = Append(replies[i], [type |-> type, job |-> j])
         /\ \A k \in Client : k # i => replies'[k] = replies[k]
  BY DEF TypeOK, Post

LEMMA FailType ==
  ASSUME TypeOK, NEW i \in Client, Fail(i)
  PROVE  /\ client' \in [Client -> [status : {"loading", "ready", "proving", "error"},
                                    pending : SUBSET Id]]
         /\ call' \in [Id -> {"idle", "building", "pending"} \cup Settled]
         /\ client'[i].status = "error" /\ client'[i].pending = {}
         /\ \A k \in Client : k # i => client'[k] = client[k]
         /\ \A d \in Id : call'[d] = "building" => call[d] = "building"
<1>1. [status |-> "error", pending |-> {}] \in
        [status : {"loading", "ready", "proving", "error"}, pending : SUBSET Id]
  OBVIOUS
<1>2. client' \in [Client -> [status : {"loading", "ready", "proving", "error"},
                              pending : SUBSET Id]]
  BY <1>1 DEF Fail, TypeOK
<1>3. call' \in [Id -> {"idle", "building", "pending"} \cup Settled]
  BY DEF Fail, CallsAfterFail, TypeOK, Settled
<1>4. /\ client'[i].status = "error" /\ client'[i].pending = {}
      /\ \A k \in Client : k # i => client'[k] = client[k]
  BY DEF Fail, TypeOK
<1>5. \A d \in Id : call'[d] = "building" => call[d] = "building"
  BY DEF Fail, CallsAfterFail
<1> QED
  BY <1>2, <1>3, <1>4, <1>5

LEMMA TreeType ==
  ASSUME TypeOK, OneShared,
         Render \/ Mount \/ Rerender \/ Hide \/ Discard \/ Teardown
  PROVE  TypeOK'
<1>1. CASE Render
  <2>1. shared' \in Client /\ Current = shared' /\ born' \in 0 .. MaxClients
        /\ worker' \in [Client -> {"unborn", "starting", "running", "broken", "terminated"}]
    BY <1>1, ShareType DEF Render
  <2>2. view' \in [phase : {"none", "rendered", "mounted", "hidden"},
                   value : Client \cup {NoClient}, held : Client \cup {NoClient}]
    BY <1>1, <2>1 DEF Render
  <2>3. armed' \in BOOLEAN
    BY <1>1 DEF Render, RenderArms
  <2> QED
    BY <1>1, <2>1, <2>2, <2>3 DEF Render, TypeOK
<1>2. CASE Mount
  <2>1. shared' \in Client /\ Current = shared' /\ born' \in 0 .. MaxClients
        /\ worker' \in [Client -> {"unborn", "starting", "running", "broken", "terminated"}]
    BY <1>2, ShareType DEF Mount
  <2>2. view' \in [phase : {"none", "rendered", "mounted", "hidden"},
                   value : Client \cup {NoClient}, held : Client \cup {NoClient}]
    BY <1>2, <2>1 DEF Mount, HeldAfterMount, TypeOK
  <2>3. refs' = 1
    BY <1>2 DEF Mount, OneShared
  <2> QED
    BY <1>2, <2>1, <2>2, <2>3 DEF Mount, TypeOK
<1>3. CASE Rerender
  <2>1. view' \in [phase : {"none", "rendered", "mounted", "hidden"},
                   value : Client \cup {NoClient}, held : Client \cup {NoClient}]
    BY <1>3 DEF Rerender, TypeOK
  <2> QED
    BY <1>3, <2>1 DEF Rerender, TypeOK
<1>4. CASE Hide
  <2>1. view' \in [phase : {"none", "rendered", "mounted", "hidden"},
                   value : Client \cup {NoClient}, held : Client \cup {NoClient}]
    BY <1>4 DEF Hide, TypeOK
  <2>2. refs' \in {0, 1}
    BY <1>4 DEF Hide, RefsAfterRelease, TypeOK
  <2>3. armed' = TRUE \/ armed' = armed
    BY <1>4 DEF Hide
  <2>4. armed' \in BOOLEAN
    BY <2>3 DEF TypeOK
  <2> QED
    BY <1>4, <2>1, <2>2, <2>4 DEF Hide, TypeOK
<1>5. CASE Discard
  <2>1. view' \in [phase : {"none", "rendered", "mounted", "hidden"},
                   value : Client \cup {NoClient}, held : Client \cup {NoClient}]
    BY <1>5 DEF Discard
  <2> QED
    BY <1>5, <2>1 DEF Discard, TypeOK
<1>6. CASE Teardown
  <2>1. CASE refs = 0 /\ shared # NoClient
    <3>1. shared \in Client
      BY <2>1 DEF TypeOK
    <3>2. Fail(shared)
      BY <1>6, <2>1 DEF Teardown
    <3>3. /\ client' \in [Client -> [status : {"loading", "ready", "proving", "error"},
                                     pending : SUBSET Id]]
          /\ call' \in [Id -> {"idle", "building", "pending"} \cup Settled]
      BY <3>1, <3>2, FailType
    <3>4. replies' \in [Client -> Seq(Message)]
      <4>1. <<>> \in Seq(Message)
        OBVIOUS
      <4>2. replies' = [replies EXCEPT ![shared] = <<>>]
        BY <1>6, <2>1 DEF Teardown
      <4>3. replies \in [Client -> Seq(Message)]
        BY DEF TypeOK
      <4> QED
        BY <3>1, <4>1, <4>2, <4>3
    <3> QED
      BY <1>6, <2>1, <3>3, <3>4 DEF Teardown, TypeOK, WorkerAfterTerminate
  <2>2. CASE ~(refs = 0 /\ shared # NoClient)
    BY <1>6, <2>2 DEF Teardown, TypeOK
  <2> QED
    BY <2>1, <2>2
<1> QED
  BY <1>1, <1>2, <1>3, <1>4, <1>5, <1>6

LEMMA WorkType ==
  ASSUME TypeOK, NEW i \in Client, Work(i)
  PROVE  TypeOK'
<1>1. CASE Start(i)
  <2>1. [type |-> "ready", job |-> Warmup] \in Message
    BY DEF Message
  <2>2. replies' \in [Client -> Seq(Message)]
    BY <1>1, <2>1, PostType DEF Start
  <2> QED
    BY <1>1, <2>2 DEF Start, TypeOK, main
<1>2. CASE StartFails(i)
  <2>1. /\ client' \in [Client -> [status : {"loading", "ready", "proving", "error"},
                                     pending : SUBSET Id]]
        /\ call' \in [Id -> {"idle", "building", "pending"} \cup Settled]
    BY <1>2, FailType DEF StartFails
  <2>2. failures' \in 0 .. MaxFailures
    BY <1>2, BoundsAssumption DEF StartFails, TypeOK
  <2> QED
    BY <1>2, <2>1, <2>2 DEF StartFails, TypeOK, main
<1>3. CASE Load(i)
  BY <1>3 DEF Load, TypeOK, main
<1>4. ASSUME NEW j \in jobs[i], Finish(i, j) PROVE TypeOK'
  <2>1. j \in Id \cup {Warmup}
    BY <1>4 DEF TypeOK
  <2>2. [type |-> IF j = Warmup THEN "warm" ELSE "proved", job |-> j] \in Message
    BY <2>1 DEF Message
  <2>3. replies' \in [Client -> Seq(Message)]
    BY <1>4, <2>2, PostType DEF Finish
  <2> QED
    BY <1>4, <2>3 DEF Finish, TypeOK, main
<1>5. ASSUME NEW j \in jobs[i], JobFails(i, j) PROVE TypeOK'
  <2>1. [type |-> "error", job |-> j] \in Message
    BY DEF Message, TypeOK
  <2>2. replies' \in [Client -> Seq(Message)]
    BY <1>5, <2>1, PostType DEF JobFails
  <2>3. failures' \in 0 .. MaxFailures
    BY <1>5, BoundsAssumption DEF JobFails, TypeOK
  <2> QED
    BY <1>5, <2>2, <2>3 DEF JobFails, TypeOK, main
<1>6. CASE Receive(i)
  <2> DEFINE m == Head(replies[i])
             left == client[i].pending \ {m.job}
  <2>1. replies[i] # <<>> /\ replies' = [replies EXCEPT ![i] = Tail(@)]
    BY <1>6 DEF Receive
  <2>2. replies' \in [Client -> Seq(Message)]
    BY <2>1, MessageType DEF TypeOK
  <2>3. jobs' \in [Client -> SUBSET (Id \cup {Warmup})]
    BY <1>6 DEF Receive, Answered, TypeOK
  <2>4. /\ client' \in [Client -> [status : {"loading", "ready", "proving", "error"},
                                    pending : SUBSET Id]]
        /\ call' \in [Id -> {"idle", "building", "pending"} \cup Settled]
    <3>1. client[i].status \in {"loading", "ready", "proving", "error"}
      BY DEF TypeOK
    <3>2. /\ StatusAfterAnswer(left) \in {"loading", "ready", "proving", "error"}
          /\ StatusAfterProved(i, left) \in {"loading", "ready", "proving", "error"}
      BY <3>1 DEF StatusAfterAnswer, StatusAfterProved
    <3>3. CASE UNCHANGED <<client, call>>
      BY <3>3 DEF TypeOK
    <3>4. CASE Answered(i, m.job, StatusAfterAnswer(left), "resolved")
      BY <3>2, <3>4, AnsweredType DEF Settled
    <3>5. CASE Answered(i, m.job, StatusAfterProved(i, left), "resolved")
      BY <3>2, <3>5, AnsweredType DEF Settled
    <3>6. CASE Answered(i, m.job, "error", "rejected")
      BY <3>6, AnsweredType DEF Settled
    <3>7. CASE Answered(i, m.job, StatusAfterAnswer(left), "rejected")
      BY <3>2, <3>7, AnsweredType DEF Settled
    <3> QED
      BY <1>6, <3>3, <3>4, <3>5, <3>6, <3>7 DEF Receive
  <2> QED
    BY <1>6, <2>2, <2>3, <2>4 DEF Receive, TypeOK, main
<1> QED
  BY <1>1, <1>2, <1>3, <1>4, <1>5, <1>6 DEF Work

(* Whoever asked for a proof asked a client that exists.                   *)
Asked == \A d \in Id : call[d] = "building" => caller[d] \in Client

LEMMA AskType ==
  ASSUME TypeOK, OneShared, Asked, NEW d \in Id, Generate(d) \/ Prove(d)
  PROVE  TypeOK'
<1>1. CASE Generate(d)
  <2>1. view.value \in Client \cup {NoClient}
    BY DEF TypeOK
  <2> QED
    BY <1>1, <2>1 DEF Generate, TypeOK, main
<1>2. CASE Prove(d)
  <2> DEFINE i == caller[d]
  <2>1. i \in Client
    BY <1>2 DEF Prove, Asked
  <2>2. [status |-> "proving", pending |-> client[i].pending \cup {d}] \in
          [status : {"loading", "ready", "proving", "error"}, pending : SUBSET Id]
    BY <2>1 DEF TypeOK
  <2>3. client' \in [Client -> [status : {"loading", "ready", "proving", "error"},
                                    pending : SUBSET Id]]
    BY <1>2, <2>1, <2>2 DEF Prove, TypeOK
  <2>4. jobs' \in [Client -> SUBSET (Id \cup {Warmup})]
    BY <1>2, <2>1 DEF Prove, TypeOK
  <2>5. call' \in [Id -> {"idle", "building", "pending"} \cup Settled]
    BY <1>2 DEF Prove, TypeOK
  <2> QED
    BY <1>2, <2>3, <2>4, <2>5 DEF Prove, TypeOK, main
<1> QED
  BY <1>1, <1>2

-----------------------------------------------------------------------------
(* One worker.                                                             *)

LEMMA OneSharedStep ==
  ASSUME TypeOK, OneShared, [Next]_vars
  PROVE  OneShared'
<1>a. NoClient \notin Client /\ born \in Nat /\ Client \subseteq Nat \ {0}
  BY ClientType DEF TypeOK
<1>1. CASE Render
  <2>1. /\ shared' \in Client /\ worker'[shared'] \in Alive /\ shared' <= born'
        /\ \A i \in Client : worker'[i] \in Alive => i = shared'
        /\ \A i \in Client : i > born' => worker'[i] = "unborn"
    BY <1>1, ShareType DEF Render
  <2>2. refs = 0 /\ refs' = 0 /\ view'.phase = "rendered"
    BY <1>1 DEF Render, OneShared
  <2>3. armed' = TRUE
    BY <1>1, <2>2 DEF Render, RenderArms
  <2> QED
    BY <2>1, <2>2, <2>3 DEF OneShared
<1>2. CASE Mount
  <2>1. /\ shared' \in Client /\ worker'[shared'] \in Alive /\ shared' <= born'
        /\ \A i \in Client : worker'[i] \in Alive => i = shared'
        /\ \A i \in Client : i > born' => worker'[i] = "unborn"
        /\ Current = shared'
    BY <1>2, ShareType DEF Mount
  <2>2. refs' = 1
    BY <1>2 DEF Mount, OneShared
  <2>3. view'.phase = "mounted" /\ view'.held = shared'
    BY <1>2, <2>1 DEF Mount, HeldAfterMount, TypeOK
  <2> QED
    BY <1>a, <2>1, <2>2, <2>3 DEF OneShared
<1>3. CASE Rerender
  BY <1>3 DEF Rerender, OneShared, TypeOK
<1>4. CASE Hide
  <2>1. refs = 1 /\ refs' = 0 /\ view'.phase = "hidden"
        /\ UNCHANGED <<shared, born, worker>>
    BY <1>4 DEF Hide, RefsAfterRelease, OneShared, TypeOK
  <2>2. shared # NoClient => armed' = TRUE
    BY <1>4, <2>1 DEF Hide
  <2> QED
    BY <2>1, <2>2 DEF OneShared
<1>5. CASE Discard
  BY <1>5 DEF Discard, OneShared
<1>6. CASE Teardown
  <2>1. UNCHANGED <<refs, born, view>>
    BY <1>6 DEF Teardown
  <2>2. CASE refs = 0 /\ shared # NoClient
    <3>1. /\ shared \in Client /\ shared' = NoClient
          /\ worker' = [worker EXCEPT ![shared] = "terminated"]
      BY <1>6, <2>2 DEF Teardown, WorkerAfterTerminate, TypeOK
    <3>2. \A i \in Client : worker'[i] = IF i = shared THEN "terminated" ELSE worker[i]
      BY <3>1 DEF TypeOK
    <3>3. shared <= born
      BY <2>2 DEF OneShared
    <3>4. \A i \in Client : worker'[i] \notin Alive
      BY <3>2 DEF OneShared, Alive
    <3>5. \A i \in Client : i > born => worker'[i] = "unborn"
      BY <1>a, <3>1, <3>2, <3>3 DEF OneShared
    <3>6. view.phase # "mounted"
      BY <2>2 DEF OneShared
    <3> QED
      BY <2>1, <3>1, <3>4, <3>5, <3>6 DEF OneShared
  <2>3. CASE ~(refs = 0 /\ shared # NoClient)
    BY <1>6, <2>1, <2>3 DEF Teardown, OneShared
  <2> QED
    BY <2>2, <2>3
<1>7. ASSUME NEW i \in Client, worker[i] = "starting",
             worker' = [worker EXCEPT ![i] = "running"] \/
             worker' = [worker EXCEPT ![i] = "broken"],
             UNCHANGED main
      PROVE  OneShared'
  <2>1. \A k \in Client : worker'[k] \in Alive <=> worker[k] \in Alive
    BY <1>7 DEF Alive, TypeOK
  <2>2. \A k \in Client : worker[k] = "unborn" => worker'[k] = "unborn"
    BY <1>7 DEF TypeOK
  <2>3. shared # NoClient => shared \in Client
    BY DEF TypeOK
  <2> QED
    BY <1>7, <2>1, <2>2, <2>3 DEF OneShared, main
<1>8. CASE UNCHANGED <<main, worker>>
  BY <1>8 DEF OneShared, main
<1> QED
  BY <1>1, <1>2, <1>3, <1>4, <1>5, <1>6, <1>7, <1>8
     DEF Next, vars, Work, Start, StartFails, Load, Finish, JobFails, Receive, Generate, Prove

-----------------------------------------------------------------------------
(* What the button reads.                                                  *)

(* What a step does to the clients it does not touch.                      *)
Kept(i) ==
  /\ worker'[i] = worker[i] /\ client'[i] = client[i]
  /\ jobs'[i] = jobs[i] /\ replies'[i] = replies[i]
  /\ i \in artifacts => i \in artifacts'
  /\ \A d \in Id : /\ caller'[d] = i => caller[d] = i
                   /\ caller'[d] = i /\ call'[d] = "building" => call[d] = "building"

LEMMA KeptStep ==
  ASSUME NEW i \in Client, Kept(i)
  PROVE  /\ Untouched(i) => Untouched(i)'
         /\ Loaded(i) => Loaded(i)'
         /\ Loaded(i) /\ Honest(i) => Honest(i)'
  BY DEF Kept, Untouched, Loaded, Honest

StatusInv ==
  /\ \A i \in Client : worker[i] \in {"unborn", "starting"} => Untouched(i)
  /\ \A i \in Client : worker[i] = "running" => Loaded(i) /\ Honest(i)
  /\ Asked

LEMMA TreeStatus ==
  ASSUME TypeOK, OneShared, StatusInv,
         Render \/ Mount \/ Rerender \/ Hide \/ Discard \/ Teardown
  PROVE  StatusInv'
<1>1. ASSUME Render \/ Mount PROVE StatusInv'
  <2>1. /\ \A i \in Client : worker'[i] \in {"unborn", "starting"} =>
              worker[i] \in {"unborn", "starting"}
        /\ \A i \in Client : worker'[i] = "running" => worker[i] = "running"
    BY <1>1, ShareType DEF Render, Mount
  <2>2. UNCHANGED <<client, artifacts, jobs, replies, call, caller>>
    BY <1>1 DEF Render, Mount
  <2> QED
    BY <2>1, <2>2 DEF StatusInv, Untouched, Loaded, Honest, Asked
<1>2. ASSUME UNCHANGED <<worker, client, artifacts, jobs, replies, call, caller>>
      PROVE  StatusInv'
  BY <1>2 DEF StatusInv, Untouched, Loaded, Honest, Asked
<1>3. ASSUME Teardown, refs = 0, shared # NoClient PROVE StatusInv'
  <2>1. shared \in Client
    BY <1>3 DEF TypeOK
  <2>2. /\ worker' = [worker EXCEPT ![shared] = "terminated"] /\ Fail(shared)
        /\ jobs' = [jobs EXCEPT ![shared] = {}]
        /\ replies' = [replies EXCEPT ![shared] = <<>>]
        /\ UNCHANGED <<artifacts, caller>>
    BY <1>3 DEF Teardown, WorkerAfterTerminate
  <2>3. worker'[shared] = "terminated"
    BY <2>1, <2>2 DEF TypeOK
  <2>4. \A i \in Client : i # shared => Kept(i)
    BY <2>1, <2>2, FailType DEF TypeOK, Kept
  <2>5. Asked'
    BY <2>1, <2>2, FailType DEF StatusInv, Asked
  <2> QED
    BY <2>3, <2>4, <2>5, KeptStep DEF StatusInv, Kept
<1> QED
  BY <1>1, <1>2, <1>3 DEF Rerender, Hide, Discard, Teardown


(* What a tree that was rendered shows is a client.                        *)
Viewed == view.phase # "none" => view.value \in Client /\ view.held \in Client

LEMMA ViewedStep ==
  ASSUME TypeOK, OneShared, Viewed, [Next]_vars
  PROVE  Viewed'
<1>1. CASE Render
  <2>1. Current \in Client
    BY <1>1, ShareType DEF Render
  <2> QED
    BY <1>1, <2>1 DEF Render, Viewed
<1>2. CASE Mount
  <2>1. Current \in Client
    BY <1>2, ShareType DEF Mount
  <2>2. view'.value = view.value /\ view'.held = Current
    BY <1>2 DEF Mount, HeldAfterMount, TypeOK
  <2> QED
    BY <1>2, <2>1, <2>2 DEF Mount, Viewed
<1>4. CASE Rerender
  <2>1. view'.value = view.held /\ view'.held = view.held /\ view'.phase = view.phase
    BY <1>4 DEF Rerender, TypeOK
  <2> QED
    BY <2>1 DEF Viewed
<1>5. CASE Hide
  <2>1. view'.value = view.value /\ view'.held = view.held /\ view.phase = "mounted"
    BY <1>5 DEF Hide, TypeOK
  <2> QED
    BY <2>1 DEF Viewed
<1>6. CASE Discard
  BY <1>6 DEF Discard, Viewed
<1>3. CASE UNCHANGED view
  BY <1>3 DEF Viewed
<1> QED
  BY <1>1, <1>2, <1>3, <1>4, <1>5, <1>6
     DEF Next, vars, main, Teardown, Work, Start, StartFails, Load, Finish,
         JobFails, Receive, Generate, Prove

(* It is enough to look at the one client a step touches.                  *)
LEMMA OneTouched ==
  ASSUME StatusInv, NEW i \in Client, \A k \in Client : k # i => Kept(k),
         worker'[i] \in {"unborn", "starting"} => Untouched(i)',
         worker'[i] = "running" => Loaded(i)' /\ Honest(i)',
         Asked'
  PROVE  StatusInv'
<1>1. \A k \in Client : k # i /\ worker'[k] \in {"unborn", "starting"} => Untouched(k)'
  BY KeptStep DEF StatusInv, Kept
<1>2. \A k \in Client : k # i /\ worker'[k] = "running" => Loaded(k)' /\ Honest(k)'
  BY KeptStep DEF StatusInv, Kept
<1> QED
  BY <1>1, <1>2 DEF StatusInv

LEMMA StartStatus ==
  ASSUME TypeOK, StatusInv, NEW i \in Client, Start(i) \/ StartFails(i)
  PROVE  StatusInv'
<1>1. Untouched(i)
  BY DEF Start, StartFails, StatusInv
<1>2. CASE Start(i)
  <2>1. /\ worker'[i] = "running" /\ \A k \in Client : k # i => worker'[k] = worker[k]
        /\ UNCHANGED <<client, artifacts, jobs, call, caller>>
    BY <1>2 DEF Start, TypeOK
  <2>2. [type |-> "ready", job |-> Warmup] \in Message
    BY DEF Message
  <2>3. /\ replies'[i] = Append(<<>>, [type |-> "ready", job |-> Warmup])
        /\ \A k \in Client : k # i => replies'[k] = replies[k]
    BY <1>1, <1>2, <2>2, PostType DEF Start, Untouched
  <2>4. replies'[i] = <<[type |-> "ready", job |-> Warmup]>>
    BY <2>3
  <2>5. Loaded(i)' /\ Honest(i)'
    BY <1>1, <2>1, <2>4 DEF Untouched, Loaded, Honest
  <2>6. \A k \in Client : k # i => Kept(k)
    BY <2>1, <2>3 DEF Kept
  <2> QED
    BY <2>1, <2>5, <2>6, OneTouched DEF StatusInv, Asked
<1>3. CASE StartFails(i)
  <2>1. /\ worker'[i] = "broken" /\ \A k \in Client : k # i => worker'[k] = worker[k]
        /\ UNCHANGED <<artifacts, jobs, replies, caller>> /\ Fail(i)
    BY <1>3 DEF StartFails, TypeOK
  <2>2. \A k \in Client : k # i => Kept(k)
    BY <2>1, FailType DEF Kept
  <2>3. Asked'
    BY <2>1, FailType DEF StatusInv, Asked
  <2> QED
    BY <2>1, <2>2, <2>3, OneTouched
<1> QED
  BY <1>2, <1>3

LEMMA JobStatus ==
  ASSUME TypeOK, StatusInv, NEW i \in Client, NEW j \in jobs[i],
         Load(i) \/ Finish(i, j) \/ JobFails(i, j)
  PROVE  StatusInv'
<1>1. worker[i] \notin {"unborn", "starting"}
  BY DEF StatusInv, Untouched
<1>2. UNCHANGED <<worker, client, call, caller>>
  BY DEF Load, Finish, JobFails
<1>3. Asked'
  BY <1>2 DEF StatusInv, Asked
<1>4. CASE Load(i)
  <2>1. /\ UNCHANGED <<jobs, replies>> /\ artifacts \subseteq artifacts' /\ i \in artifacts'
    BY <1>4 DEF Load
  <2> QED
    BY <1>1, <1>2, <1>3, <2>1, OneTouched DEF Kept, StatusInv, Loaded, Honest
<1>5. CASE Finish(i, j)
  <2>1. j \in Id \cup {Warmup}
    BY DEF TypeOK
  <2>2. [type |-> IF j = Warmup THEN "warm" ELSE "proved", job |-> j] \in Message
    BY <2>1 DEF Message
  <2>3. \A k \in Client : k # i => replies'[k] = replies[k]
    BY <1>5, <2>2, PostType DEF Finish
  <2>4. /\ \A k \in Client : k # i => jobs'[k] = jobs[k]
        /\ i \in artifacts /\ artifacts' = artifacts
    BY <1>5 DEF Finish, TypeOK
  <2> QED
    BY <1>1, <1>2, <1>3, <2>3, <2>4, OneTouched DEF Kept, StatusInv, Loaded, Honest
<1>6. CASE JobFails(i, j)
  <2>1. [type |-> "error", job |-> j] \in Message
    BY DEF Message, TypeOK
  <2>2. /\ replies'[i] = Append(replies[i], [type |-> "error", job |-> j])
        /\ \A k \in Client : k # i => replies'[k] = replies[k]
    BY <1>6, <2>1, PostType DEF JobFails
  <2>3. /\ \A k \in Client : k # i => jobs'[k] = jobs[k]
        /\ jobs'[i] = jobs[i] \ {j} /\ artifacts' = artifacts
    BY <1>6 DEF JobFails, TypeOK
  <2>4. \A k \in Client : k # i => Kept(k)
    BY <1>2, <2>2, <2>3 DEF Kept
  <2>5. ASSUME worker'[i] = "running" PROVE Loaded(i)' /\ Honest(i)'
    <3>1. Loaded(i) /\ Honest(i)
      BY <1>2, <2>5 DEF StatusInv
    <3>2. Honest(i)'
      BY <1>2, <2>3, <3>1 DEF Honest
    <3>3. CASE i \in artifacts
      BY <2>3, <3>2, <3>3 DEF Loaded
    <3>4. CASE i \notin artifacts
      <4>1. j = Warmup
        BY <3>1, <3>4 DEF Loaded
      <4>2. replies[i] \in Seq(Message)
        BY DEF TypeOK
      <4>3. \A n \in 1 .. Len(replies'[i]) :
              replies'[i][n].type = "ready" \/
              (replies'[i][n].type = "error" /\ replies'[i][n].job = Warmup)
        BY <2>1, <2>2, <3>1, <3>4, <4>1, <4>2 DEF Loaded
      <4>4. jobs'[i] \subseteq {Warmup}
        BY <2>3, <3>1, <3>4 DEF Loaded
      <4> QED
        BY <1>2, <3>1, <3>2, <3>4, <4>3, <4>4 DEF Loaded
    <3> QED
      BY <3>3, <3>4
  <2> QED
    BY <1>1, <1>2, <1>3, <2>4, <2>5, OneTouched
<1> QED
  BY <1>4, <1>5, <1>6

LEMMA ReceiveStatus ==
  ASSUME TypeOK, StatusInv, NEW i \in Client, Receive(i)
  PROVE  StatusInv'
<1> DEFINE m == Head(replies[i])
           left == client[i].pending \ {m.job}
<1>1. /\ replies[i] # <<>> /\ replies' = [replies EXCEPT ![i] = Tail(@)]
      /\ UNCHANGED <<worker, artifacts, caller>>
  BY DEF Receive
<1>2. /\ replies'[i] = Tail(replies[i])
      /\ \A k \in Client : k # i => replies'[k] = replies[k]
  BY <1>1 DEF TypeOK
<1>3. worker[i] \notin {"unborn", "starting"}
  BY <1>1 DEF StatusInv, Untouched
<1>4. /\ m \in Message /\ m = replies[i][1]
      /\ \A n \in 1 .. Len(replies'[i]) :
           n + 1 \in 1 .. Len(replies[i]) /\ replies'[i][n] = replies[i][n + 1]
      /\ 1 \in 1 .. Len(replies[i])
  <2> DEFINE q == replies[i]
             t == Tail(replies[i])
  <2>1. /\ m \in Message /\ m = q[1] /\ Len(q) \in Nat /\ Len(q) >= 1
        /\ Len(t) = Len(q) - 1 /\ \A n \in 1 .. Len(t) : t[n] = q[n + 1]
    BY <1>1, MessageType
  <2>2. replies'[i] = t
    BY <1>2
  <2> HIDE DEF q, t, m
  <2>3. \A n \in 1 .. Len(t) : n + 1 \in 1 .. Len(q) /\ t[n] = q[n + 1]
    BY <2>1
  <2> QED
    BY <2>1, <2>2, <2>3 DEF q, m
<1>5. ASSUME m.type = "ready", jobs' = [jobs EXCEPT ![i] = @ \cup {Warmup}],
             UNCHANGED <<client, call>>
      PROVE  StatusInv'
  <2>1. /\ \A k \in Client : k # i => jobs'[k] = jobs[k]
        /\ jobs'[i] = jobs[i] \cup {Warmup}
    BY <1>5 DEF TypeOK
  <2>2. \A k \in Client : k # i => Kept(k)
    BY <1>1, <1>2, <1>5, <2>1 DEF Kept
  <2>3. Loaded(i) => Loaded(i)'
    BY <1>1, <1>4, <1>5, <2>1 DEF Loaded
  <2>4. Honest(i) => Honest(i)'
    BY <1>1, <1>5 DEF Honest
  <2>5. Asked'
    BY <1>1, <1>5 DEF StatusInv, Asked
  <2> QED
    BY <1>1, <1>3, <2>2, <2>3, <2>4, <2>5, OneTouched DEF StatusInv
<1>6. ASSUME NEW status, NEW outcome \in Settled, m.type # "ready",
             Answered(i, m.job, status, outcome),
             status \in {"ready", "proving", "error"} \cup {client[i].status},
             Loaded(i) /\ i \notin artifacts => status = "error",
             Honest(i) /\ status = "ready" => left = {},
             Honest(i) /\ status = "proving" => left # {}
      PROVE  StatusInv'
  <2>1. /\ client' = [client EXCEPT ![i] = [status |-> status, pending |-> left]]
        /\ call' = IF m.job \in client[i].pending THEN [call EXCEPT ![m.job] = outcome]
                   ELSE call
        /\ jobs' = jobs
    BY <1>6 DEF Answered
  <2>2. /\ client'[i].status = status /\ client'[i].pending = left
        /\ \A k \in Client : k # i => client'[k] = client[k]
    BY <2>1 DEF TypeOK
  <2>3. \A d \in Id : call'[d] = "building" => call[d] = "building"
    BY <1>6, <2>1 DEF TypeOK, Settled
  <2>4. \A k \in Client : k # i => Kept(k)
    BY <1>1, <1>2, <2>1, <2>2, <2>3 DEF Kept
  <2>5. ASSUME worker'[i] = "running" PROVE Loaded(i)' /\ Honest(i)'
    <3>1. Loaded(i) /\ Honest(i)
      BY <1>1, <2>5 DEF StatusInv
    <3>2. CASE i \in artifacts
      BY <1>1, <1>6, <2>2, <3>1, <3>2 DEF Loaded, Honest
    <3>3. CASE i \notin artifacts
      <4>1. status = "error" /\ left = {}
        BY <1>6, <3>1, <3>3 DEF Loaded
      <4> QED
        BY <1>1, <1>4, <2>1, <2>2, <2>3, <3>1, <3>3, <4>1 DEF Loaded, Honest
    <3> QED
      BY <3>2, <3>3
  <2>6. Asked'
    BY <1>1, <2>3 DEF StatusInv, Asked
  <2> QED
    BY <1>1, <1>3, <2>4, <2>5, <2>6, OneTouched
<1>7. Loaded(i) /\ i \notin artifacts /\ m.type # "ready" =>
        m.type = "error" /\ m.job = Warmup
  BY <1>4 DEF Loaded
<1>8. CASE m.type = "warm" /\ Answered(i, m.job, StatusAfterAnswer(left), "resolved")
  BY <1>6, <1>7, <1>8 DEF StatusAfterAnswer, Settled
<1>9. CASE m.type = "proved" /\ Answered(i, m.job, StatusAfterProved(i, left), "resolved")
  BY <1>6, <1>7, <1>9 DEF StatusAfterProved, Settled, Honest
<1>10. CASE m.type = "error" /\ m.job = Warmup /\ Answered(i, m.job, "error", "rejected")
  BY <1>6, <1>7, <1>10 DEF Settled
<1>11. CASE /\ m.type = "error" /\ m.job # Warmup
            /\ Answered(i, m.job, StatusAfterAnswer(left), "rejected")
  BY <1>6, <1>7, <1>11 DEF StatusAfterAnswer, Settled
<1> QED
  BY <1>5, <1>8, <1>9, <1>10, <1>11 DEF Receive

LEMMA AskStatus ==
  ASSUME TypeOK, OneShared, Viewed, StatusInv, NEW d \in Id, Generate(d) \/ Prove(d)
  PROVE  StatusInv'
<1>1. CASE Generate(d)
  <2>1. PICK i \in Client : i = view.value /\ client[i].status \in {"ready", "proving"}
    BY <1>1 DEF Generate, Viewed, ProverReady
  <2>2. UNCHANGED <<worker, client, artifacts, jobs, replies>>
    BY <1>1 DEF Generate, main
  <2>3. /\ call'[d] = "building" /\ caller'[d] = i
        /\ \A e \in Id : e # d => call'[e] = call[e] /\ caller'[e] = caller[e]
    BY <1>1, <2>1 DEF Generate, TypeOK
  <2>4. \A k \in Client : k # i => Kept(k)
    BY <2>2, <2>3 DEF Kept
  <2>5. worker[i] \notin {"unborn", "starting"}
    BY <2>1 DEF StatusInv, Untouched
  <2>6. worker[i] = "running" => Loaded(i)' /\ Honest(i)'
    BY <2>1, <2>2 DEF StatusInv, Loaded, Honest
  <2>7. Asked'
    BY <2>1, <2>3 DEF StatusInv, Asked
  <2> QED
    BY <2>1, <2>2, <2>4, <2>5, <2>6, <2>7, OneTouched
<1>2. CASE Prove(d)
  <2> DEFINE i == caller[d]
  <2>1. i \in Client /\ call[d] = "building"
    BY <1>2 DEF Prove, StatusInv, Asked
  <2>2. UNCHANGED <<worker, artifacts, replies, caller>>
    BY <1>2 DEF Prove, main
  <2>3. /\ client'[i] = [status |-> "proving", pending |-> client[i].pending \cup {d}]
        /\ \A k \in Client : k # i => client'[k] = client[k]
    BY <1>2, <2>1 DEF Prove, TypeOK
  <2>4. \A k \in Client : k # i => jobs'[k] = jobs[k]
    BY <1>2, <2>1 DEF Prove, TypeOK
  <2>5. \A e \in Id : call'[e] = "building" => call[e] = "building"
    BY <1>2 DEF Prove, TypeOK
  <2>6. \A k \in Client : k # i => Kept(k)
    BY <2>2, <2>3, <2>4, <2>5 DEF Kept
  <2>7. worker[i] \notin {"unborn", "starting"}
    BY <2>1 DEF StatusInv, Untouched
  <2>8. worker[i] = "running" => i \in artifacts
    BY <2>1 DEF StatusInv, Loaded
  <2>9. worker[i] = "running" => Loaded(i)' /\ Honest(i)'
    BY <2>2, <2>3, <2>8 DEF Loaded, Honest
  <2>10. Asked'
    BY <2>2, <2>5 DEF StatusInv, Asked
  <2> QED
    BY <2>1, <2>2, <2>6, <2>7, <2>9, <2>10, OneTouched
<1> QED
  BY <1>1, <1>2

LEMMA StatusInvStep ==
  ASSUME TypeOK, OneShared, Viewed, StatusInv, [Next]_vars
  PROVE  StatusInv'
<1>1. CASE Render \/ Mount \/ Rerender \/ Hide \/ Discard \/ Teardown
  BY <1>1, TreeStatus
<1>2. ASSUME NEW i \in Client, Work(i) PROVE StatusInv'
  <2>1. CASE Load(i)
    <3>1. PICK j \in jobs[i] : TRUE
      BY <2>1 DEF Load
    <3> QED
      BY <2>1, <3>1, JobStatus
  <2> QED
    BY <1>2, <2>1, StartStatus, JobStatus, ReceiveStatus DEF Work
<1>3. ASSUME NEW d \in Id, Generate(d) \/ Prove(d) PROVE StatusInv'
  BY <1>3, AskStatus
<1>4. CASE UNCHANGED vars
  BY <1>4 DEF vars, main, StatusInv, Untouched, Loaded, Honest, Asked
<1> QED
  BY <1>1, <1>2, <1>3, <1>4 DEF Next

-----------------------------------------------------------------------------
(* The theorems.                                                           *)

LEMMA TypeStep ==
  ASSUME TypeOK, OneShared, Asked, [Next]_vars
  PROVE  TypeOK'
<1>1. CASE UNCHANGED vars
  BY <1>1 DEF vars, main, TypeOK
<1> QED
  BY <1>1, TreeType, WorkType, AskType DEF Next

IInv == TypeOK /\ OneShared /\ Viewed /\ StatusInv

LEMMA IInvInit == Init => IInv
<1> SUFFICES ASSUME Init PROVE IInv
  OBVIOUS
<1>1. \A i \in Client : i > 0
  BY ClientType
<1>2. NoClient = 0 /\ \A d \in Id : caller[d] = NoClient
  BY DEF Init, NoClient
<1>3. OneShared
  BY <1>1 DEF Init, OneShared, Alive
<1>4. StatusInv
  BY <1>2, ClientType DEF Init, StatusInv, Untouched, Asked
<1> QED
  BY <1>3, <1>4, TypeInit DEF Init, IInv, Viewed

LEMMA IInvStep == IInv /\ [Next]_vars => IInv'
  BY TypeStep, OneSharedStep, ViewedStep, StatusInvStep DEF IInv, StatusInv

LEMMA Always == Spec => []IInv
  BY IInvInit, IInvStep, PTL DEF Spec

(* Every variable keeps its type: the counter of references stays 0 or 1   *)
(* though nothing in the provider counts to one, and no client past the    *)
(* last created is ever written.                                           *)
THEOREM TypeCorrect == Spec => []TypeOK
<1>1. IInv => TypeOK
  BY DEF IInv
<1> QED
  BY <1>1, Always, PTL

(* Exactly one worker and no leak, however often trees are rendered,       *)
(* hidden, discarded and mounted again.                                    *)
THEOREM OneWorker == Spec => []OneWorkerNoLeak
<1>1. ASSUME IInv PROVE OneWorkerNoLeak
  <2> DEFINE alive == {i \in Client : worker[i] \in {"starting", "running", "broken"}}
  <2>1. alive \subseteq {shared}
    BY <1>1 DEF IInv, OneShared, Alive
  <2>2. IsFiniteSet({shared}) /\ Cardinality({shared}) = 1
    BY FS_Singleton
  <2>3. IsFiniteSet(alive) /\ Cardinality(alive) <= Cardinality({shared})
    BY <2>1, <2>2, FS_Subset
  <2>4. Cardinality(alive) <= 1
    BY <2>2, <2>3
  <2>5. refs = 0 /\ shared # NoClient => armed
    BY <1>1 DEF IInv, OneShared
  <2>6. view.phase = "mounted" =>
          refs = 1 /\ view.held = shared /\ worker[shared] # "terminated"
    BY <1>1 DEF IInv, OneShared, Alive
  <2> QED
    BY <2>4, <2>5, <2>6 DEF OneWorkerNoLeak
<1> QED
  BY <1>1, Always, PTL

(* The status the button reads is true of the worker behind it.            *)
THEOREM StatusIsHonest == Spec => []StatusHonest
<1>1. IInv => StatusHonest
  BY DEF IInv, StatusInv, Honest, StatusHonest
<1> QED
  BY <1>1, Always, PTL

=============================================================================
