------------------------------- MODULE Prover -------------------------------
(***************************************************************************)
(* The one prover worker of the applicant's workspace: the singleton, its  *)
(* reference count and grace timer, the provider that renders and mounts   *)
(* around it (frontend/src/borrower/useProver.ts), the worker behind it    *)
(* (proverWorker.ts) and the proofs ChallengeResponse.tsx asks of it.      *)
(*                                                                         *)
(* React renders a tree before it mounts it, may discard it, and runs the  *)
(* cleanup and the effect of a mounted tree again (hidden), so the worker  *)
(* a tree was rendered with need not be the one it mounts with.  Messages  *)
(* of a worker arrive in order.  Clients are numbered as they are created. *)
(***************************************************************************)
EXTENDS Integers, Sequences, FiniteSets

CONSTANTS
  Id,            \* proofs asked for
  MaxClients,    \* bound on workers created
  MaxFailures    \* bound on failing starts, fetches and proofs

ASSUME BoundsAssumption == MaxClients \in Nat \ {0} /\ MaxFailures \in Nat

VARIABLES
  shared, refs, armed,  \* the singleton, its references, the teardown timer
  born,       \* clients created so far
  view,       \* the provider: its phase, the client children see, the one held
  client,     \* ProverClient: status and proofs pending
  worker,     \* the workers
  artifacts,  \* the workers that have the proving key
  jobs,       \* what each worker is at
  replies,    \* messages from each worker
  call,       \* the proofs asked for
  caller,     \* the client each was asked of
  failures

main == <<shared, refs, armed, born, view>>
vars == <<main, client, worker, artifacts, jobs, replies, call, caller, failures>>

Client == 1 .. MaxClients
NoClient == 0
Warmup == "warmup"
Settled == {"resolved", "rejected"}
Message == [type : {"ready", "warm", "proved", "error"}, job : Id \cup {Warmup}]

TypeOK ==
  /\ shared \in Client \cup {NoClient}
  /\ refs \in {0, 1} /\ armed \in BOOLEAN /\ born \in 0 .. MaxClients
  /\ view \in [phase : {"none", "rendered", "mounted", "hidden"},
               value : Client \cup {NoClient}, held : Client \cup {NoClient}]
  /\ client \in [Client -> [status : {"loading", "ready", "proving", "error"},
                            pending : SUBSET Id]]
  /\ worker \in [Client -> {"unborn", "starting", "running", "broken", "terminated"}]
  /\ artifacts \subseteq Client
  /\ jobs \in [Client -> SUBSET (Id \cup {Warmup})]
  /\ replies \in [Client -> Seq(Message)]
  /\ call \in [Id -> {"idle", "building", "pending"} \cup Settled]
  /\ caller \in [Id -> Client \cup {NoClient}]
  /\ failures \in 0 .. MaxFailures

Init ==
  /\ shared = NoClient /\ refs = 0 /\ armed = FALSE /\ born = 0
  /\ view = [phase |-> "none", value |-> NoClient, held |-> NoClient]
  /\ client = [i \in Client |-> [status |-> "loading", pending |-> {}]]
  /\ worker = [i \in Client |-> "unborn"]
  /\ artifacts = {}
  /\ jobs = [i \in Client |-> {}]
  /\ replies = [i \in Client |-> <<>>]
  /\ call = [d \in Id |-> "idle"]
  /\ caller = [d \in Id |-> NoClient]
  /\ failures = 0

-----------------------------------------------------------------------------
(* The singleton.                                                          *)

Current == IF shared = NoClient THEN born + 1 ELSE shared

ShareCurrent ==
  /\ Current <= MaxClients
  /\ shared' = Current
  /\ born' = IF shared = NoClient THEN born + 1 ELSE born
  /\ worker' = IF shared = NoClient THEN [worker EXCEPT ![born + 1] = "starting"]
               ELSE worker

RenderArms == refs = 0

(* acquireProver, for the first render of a tree.                          *)
Render ==
  /\ view.phase = "none"
  /\ ShareCurrent
  /\ armed' = RenderArms
  /\ view' = [phase |-> "rendered", value |-> Current, held |-> Current]
  /\ UNCHANGED <<refs, client, artifacts, jobs, replies, call, caller, failures>>

HeldFromRender == view.held
HeldAfterMount == Current

(* retainProver, from the effect; the children keep the value rendered.    *)
Mount ==
  /\ view.phase \in {"rendered", "hidden"}
  /\ ShareCurrent
  /\ armed' = FALSE
  /\ refs' = refs + 1
  /\ view' = [view EXCEPT !.phase = "mounted", !.held = HeldAfterMount]
  /\ UNCHANGED <<client, artifacts, jobs, replies, call, caller, failures>>

Rerender ==
  /\ view.phase # "none"
  /\ view' = [view EXCEPT !.value = view.held]
  /\ UNCHANGED <<shared, refs, armed, born, client, worker, artifacts, jobs, replies,
                 call, caller, failures>>

RefsAfterRelease == IF refs = 0 THEN 0 ELSE refs - 1

(* releaseProver, from the cleanup.                                        *)
Hide ==
  /\ view.phase = "mounted"
  /\ refs' = RefsAfterRelease
  /\ armed' = IF refs' = 0 /\ shared # NoClient THEN TRUE ELSE armed
  /\ view' = [view EXCEPT !.phase = "hidden"]
  /\ UNCHANGED <<shared, born, client, worker, artifacts, jobs, replies, call, caller,
                 failures>>

(* A tree that never mounted, or was unmounted, is gone.                   *)
Discard ==
  /\ view.phase \in {"rendered", "hidden"}
  /\ view' = [phase |-> "none", value |-> NoClient, held |-> NoClient]
  /\ UNCHANGED <<shared, refs, armed, born, client, worker, artifacts, jobs, replies,
                 call, caller, failures>>

CallsKept(i) == call
CallsAfterFail(i) ==
  [d \in Id |-> IF d \in client[i].pending THEN "rejected" ELSE call[d]]

(* #fail *)
Fail(i) ==
  /\ client' = [client EXCEPT ![i] = [status |-> "error", pending |-> {}]]
  /\ call' = CallsAfterFail(i)

WorkerAfterTerminate(i) == "terminated"

Teardown ==
  /\ armed
  /\ armed' = FALSE
  /\ IF refs = 0 /\ shared # NoClient
     THEN /\ worker' = [worker EXCEPT ![shared] = WorkerAfterTerminate(shared)]
          /\ Fail(shared)
          /\ jobs' = [jobs EXCEPT ![shared] = {}]
          /\ replies' = [replies EXCEPT ![shared] = <<>>]
          /\ shared' = NoClient
     ELSE UNCHANGED <<worker, client, call, jobs, replies, shared>>
  /\ UNCHANGED <<refs, born, view, artifacts, caller, failures>>

-----------------------------------------------------------------------------
(* The worker.                                                             *)

Post(i, type, j) == replies' = [replies EXCEPT ![i] = Append(@, [type |-> type, job |-> j])]

Start(i) ==
  /\ worker[i] = "starting"
  /\ worker' = [worker EXCEPT ![i] = "running"]
  /\ Post(i, "ready", Warmup)
  /\ UNCHANGED <<main, client, artifacts, jobs, call, caller, failures>>

StartFails(i) ==
  /\ worker[i] = "starting" /\ failures < MaxFailures
  /\ failures' = failures + 1
  /\ worker' = [worker EXCEPT ![i] = "broken"]
  /\ Fail(i)
  /\ UNCHANGED <<main, artifacts, jobs, replies, caller>>

Load(i) ==
  /\ jobs[i] # {} /\ i \notin artifacts
  /\ artifacts' = artifacts \cup {i}
  /\ UNCHANGED <<main, client, worker, jobs, replies, call, caller, failures>>

Finish(i, j) ==
  /\ j \in jobs[i] /\ i \in artifacts
  /\ Post(i, IF j = Warmup THEN "warm" ELSE "proved", j)
  /\ jobs' = [jobs EXCEPT ![i] = @ \ {j}]
  /\ UNCHANGED <<main, client, worker, artifacts, call, caller, failures>>

(* Fetching the key failed, and is forgotten, or proving threw.            *)
JobFails(i, j) ==
  /\ j \in jobs[i] /\ failures < MaxFailures
  /\ failures' = failures + 1
  /\ Post(i, "error", j)
  /\ jobs' = [jobs EXCEPT ![i] = @ \ {j}]
  /\ UNCHANGED <<main, client, worker, artifacts, call, caller>>

-----------------------------------------------------------------------------
(* ProverClient.                                                           *)

StatusAfterAnswer(left) == IF left = {} THEN "ready" ELSE "proving"
ReadyAfterProved(i, left) == "ready"
StatusAfterProved(i, left) ==
  IF left = {} /\ client[i].status = "proving" THEN "ready" ELSE client[i].status

Answered(i, j, status, outcome) ==
  /\ client' = [client EXCEPT ![i] = [status |-> status, pending |-> @.pending \ {j}]]
  /\ call' = IF j \in client[i].pending THEN [call EXCEPT ![j] = outcome] ELSE call
  /\ UNCHANGED jobs

(* #receive; after "ready" it asks for the warmup.                         *)
Receive(i) ==
  /\ replies[i] # <<>>
  /\ replies' = [replies EXCEPT ![i] = Tail(@)]
  /\ LET m == Head(replies[i])
         left == client[i].pending \ {m.job} IN
     \/ /\ m.type = "ready"
        /\ jobs' = [jobs EXCEPT ![i] = @ \cup {Warmup}]
        /\ UNCHANGED <<client, call>>
     \/ m.type = "warm" /\ Answered(i, m.job, StatusAfterAnswer(left), "resolved")
     \/ m.type = "proved" /\ Answered(i, m.job, StatusAfterProved(i, left), "resolved")
     \/ m.type = "error" /\ m.job = Warmup /\ Answered(i, m.job, "error", "rejected")
     \/ /\ m.type = "error" /\ m.job # Warmup
        /\ Answered(i, m.job, StatusAfterAnswer(left), "rejected")
  /\ UNCHANGED <<main, worker, artifacts, caller, failures>>

(* The button is enabled while the prover is ready or proving.             *)
ProverReady(i) == client[i].status \in {"ready", "proving"}

Generate(d) ==
  /\ view.phase = "mounted" /\ call[d] = "idle"
  /\ ProverReady(view.value)
  /\ call' = [call EXCEPT ![d] = "building"]
  /\ caller' = [caller EXCEPT ![d] = view.value]
  /\ UNCHANGED <<main, client, worker, artifacts, jobs, replies, failures>>

(* The input is built; the client is still the one that was clicked on. A  *)
(* message to a worker that is gone is lost.                               *)
Prove(d) ==
  LET i == caller[d] IN
  /\ call[d] = "building"
  /\ call' = [call EXCEPT ![d] = "pending"]
  /\ client' = [client EXCEPT ![i] = [status |-> "proving", pending |-> @.pending \cup {d}]]
  /\ jobs' = IF worker[i] = "running" THEN [jobs EXCEPT ![i] = @ \cup {d}] ELSE jobs
  /\ UNCHANGED <<main, worker, artifacts, replies, caller, failures>>

-----------------------------------------------------------------------------
Work(i) ==
  \/ Start(i) \/ StartFails(i) \/ Load(i) \/ Receive(i)
  \/ \E j \in jobs[i] : Finish(i, j) \/ JobFails(i, j)

Next ==
  \/ Render \/ Mount \/ Rerender \/ Hide \/ Discard \/ Teardown
  \/ \E i \in Client : Work(i)
  \/ \E d \in Id : Generate(d) \/ Prove(d)

Spec == Init /\ [][Next]_vars

(* Workers and the event loop go on, timers fire, a mounted tree is        *)
(* rendered again, and the applicant presses a button that stays enabled.  *)
Fairness ==
  /\ \A i \in Client : WF_vars(Work(i))
  /\ \A d \in Id : WF_vars(Prove(d)) /\ WF_vars(Generate(d))
  /\ WF_vars(Teardown) /\ WF_vars(Rerender)

FairSpec == Spec /\ Fairness

-----------------------------------------------------------------------------
(* "Exactly one worker, no leak", whatever trees React renders, mounts,    *)
(* discards and mounts again: never two workers; one that no mounted tree  *)
(* holds is on its way out; a mounted tree holds the shared client, and    *)
(* that is not terminated.                                                 *)
OneWorkerNoLeak ==
  /\ Cardinality({i \in Client : worker[i] \in {"starting", "running", "broken"}}) <= 1
  /\ refs = 0 /\ shared # NoClient => armed
  /\ view.phase = "mounted" =>
       refs = 1 /\ view.held = shared /\ worker[shared] # "terminated"

(* What the button reads is true: ready means the key is loaded and no     *)
(* proof is pending, proving that one is.                                  *)
StatusHonest ==
  \A i \in Client : worker[i] = "running" =>
    /\ client[i].status = "ready" => i \in artifacts /\ client[i].pending = {}
    /\ client[i].status = "proving" => client[i].pending # {}

(* A proof asked of a running worker is delivered or refused, even when    *)
(* the worker is torn down under it.                                       *)
EveryProofSettles ==
  \A d \in Id, i \in Client :
    d \in client[i].pending /\ worker[i] = "running" ~> call[d] \in Settled

=============================================================================
