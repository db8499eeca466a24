------------------------------ MODULE LongPoll ------------------------------
(***************************************************************************)
(* How every tab follows the store: GET /api/state holds a poll until the  *)
(* version moves (store.ts: #bump, waitForChange, reset; api.ts: requireParty, *)
(* /session, /state), and each tab loops over it with a session it claims  *)
(* again whenever the server forgot it (frontend useProtocolState.ts).     *)
(*                                                                         *)
(* What the store holds is named by a generation, a new one for every      *)
(* reset or restart, and its version in it.  A session id is named by the  *)
(* generation that issued it, 0 standing for none: it is good exactly in   *)
(* that one.  A tab has at most one request under way; one it aborted or   *)
(* lost is answered to nobody and is left out.                             *)
(***************************************************************************)
EXTENDS Integers

CONSTANTS
  Tab,
  MaxVersion, MaxGeneration,  \* bounds on mutations, and on resets and restarts
  MaxFaults, MaxRemounts      \* bounds on lost messages and on reloads of a tab

ASSUME BoundsAssumption ==
  /\ MaxVersion \in Nat /\ MaxGeneration \in Nat
  /\ MaxFaults \in Nat /\ MaxRemounts \in Nat

VARIABLES
  generation, version,  \* of the store
  phase,      \* where the loop of a tab is
  stored,     \* the session id in the tab's sessionStorage
  session,    \* the session the tab runs with
  since,      \* the version the next poll names
  reply,      \* what the answer on its way says
  shown,      \* the projection on the tab's screen
  mutated,    \* a mutation of the tab went through and it will refresh
  faults, remounts

server == <<generation, version>>
client == <<stored, session, since, shown>>
budget == <<faults, remounts>>
vars == <<server, phase, client, reply, mutated, budget>>

NoSession == 0
Nothing == [gen |-> 0, version |-> 0]
Snapshot == [gen |-> generation, version |-> version]
InFlight == {"asked", "held", "answered", "gone"}
Phase == {"claim", "claiming", "claimed", "poll", "asleep"} \cup InFlight

TypeOK ==
  /\ generation \in Nat \ {0} /\ version \in Nat \ {0}
  /\ phase \in [Tab -> Phase]
  /\ stored \in [Tab -> Nat] /\ session \in [Tab -> Nat] /\ since \in [Tab -> Nat]
  /\ reply \in [Tab -> [gen : Nat, version : Nat]]
  /\ shown \in [Tab -> [gen : Nat, version : Nat]]
  /\ mutated \in [Tab -> BOOLEAN]
  /\ faults \in Nat /\ remounts \in Nat

Init ==
  /\ generation = 1 /\ version = 1
  /\ phase = [t \in Tab |-> "claim"]
  /\ stored = [t \in Tab |-> NoSession]
  /\ session = [t \in Tab |-> NoSession]
  /\ since = [t \in Tab |-> 0]
  /\ reply = [t \in Tab |-> Nothing]
  /\ shown = [t \in Tab |-> Nothing]
  /\ mutated = [t \in Tab |-> FALSE]
  /\ faults = 0 /\ remounts = 0

Goto(t, p) == phase' = [phase EXCEPT ![t] = p]
Answer(t, p, s) == Goto(t, p) /\ reply' = [reply EXCEPT ![t] = s]

-----------------------------------------------------------------------------
(* The server.                                                             *)

(* createSession gives a good id back and replaces any other; either way   *)
(* the session is one of this generation, and the version does not move.   *)
ServeClaim(t) ==
  /\ phase[t] = "claiming"
  /\ Answer(t, "claimed", Snapshot)
  /\ UNCHANGED <<server, client, mutated, budget>>

(* requireParty, then an answer at once or a poll that is held.            *)
ServeState(t) ==
  /\ phase[t] = "asked"
  /\ \/ /\ session[t] # generation
        /\ Answer(t, "gone", Nothing)
     \/ /\ session[t] = generation /\ version > since[t]
        /\ Answer(t, "answered", Snapshot)
     \/ /\ session[t] = generation /\ version <= since[t]
        /\ Answer(t, "held", Nothing)
  /\ UNCHANGED <<server, client, mutated, budget>>

(* Every poll held is answered, with what the store says now; the session  *)
(* is not asked for again.                                                 *)
WakeAll(s) ==
  /\ phase' = [t \in Tab |-> IF phase[t] = "held" THEN "answered" ELSE phase[t]]
  /\ reply' = [t \in Tab |-> IF phase[t] = "held" THEN s ELSE reply[t]]

HoldExpires(t) ==
  /\ phase[t] = "held"
  /\ Answer(t, "answered", Snapshot)
  /\ UNCHANGED <<server, client, mutated, budget>>

(* Any mutation the tab's session may make.                                *)
Mutate(t) ==
  /\ session[t] = generation
  /\ version < MaxVersion
  /\ version' = version + 1
  /\ WakeAll([gen |-> generation, version |-> version + 1])
  /\ mutated' = [mutated EXCEPT ![t] = TRUE]
  /\ UNCHANGED <<generation, client, budget>>

(* The new state starts at version 1, and reset bumps it.                  *)
Reset ==
  /\ generation < MaxGeneration
  /\ generation' = generation + 1
  /\ version' = 2
  /\ WakeAll([gen |-> generation + 1, version |-> 2])
  /\ UNCHANGED <<client, mutated, budget>>

(* A poll the old process held fails with its connection.                  *)
Restart ==
  /\ generation < MaxGeneration
  /\ generation' = generation + 1
  /\ version' = 1
  /\ phase' = [t \in Tab |-> IF phase[t] = "held" THEN "asleep" ELSE phase[t]]
  /\ UNCHANGED <<client, reply, mutated, budget>>

-----------------------------------------------------------------------------
(* The loop of a tab.                                                      *)

Claim(t) ==
  /\ phase[t] = "claim"
  /\ Goto(t, "claiming")
  /\ UNCHANGED <<server, client, reply, mutated, budget>>

SinceKept(t) == since[t]
SinceAfterClaim(t) == 0

Claimed(t) ==
  /\ phase[t] = "claimed"
  /\ Goto(t, "poll")
  /\ stored' = [stored EXCEPT ![t] = reply[t].gen]
  /\ session' = [session EXCEPT ![t] = reply[t].gen]
  /\ since' = [since EXCEPT ![t] = SinceAfterClaim(t)]
  /\ UNCHANGED <<server, shown, reply, mutated, budget>>

Poll(t) ==
  /\ phase[t] = "poll"
  /\ Goto(t, "asked")
  /\ UNCHANGED <<server, client, reply, mutated, budget>>

Receive(t) ==
  /\ phase[t] = "answered"
  /\ Goto(t, "poll")
  /\ since' = [since EXCEPT ![t] = reply[t].version]
  /\ shown' = [shown EXCEPT ![t] = reply[t]]
  /\ UNCHANGED <<server, stored, session, reply, mutated, budget>>

RowsKept(t) == shown[t]
RowsAfterGone(t) == Nothing
SessionKept(t) == session[t]
SessionAfterGone(t) == NoSession

(* 410: forget the session and the rows, wait, claim again.                *)
ReceiveGone(t) ==
  /\ phase[t] = "gone"
  /\ Goto(t, "asleep")
  /\ stored' = [stored EXCEPT ![t] = NoSession]
  /\ session' = [session EXCEPT ![t] = SessionAfterGone(t)]
  /\ shown' = [shown EXCEPT ![t] = RowsAfterGone(t)]
  /\ UNCHANGED <<server, since, reply, mutated, budget>>

(* The backoff is over.                                                    *)
Resume(t) ==
  /\ phase[t] = "asleep"
  /\ Goto(t, IF session[t] = NoSession THEN "claim" ELSE "poll")
  /\ UNCHANGED <<server, client, reply, mutated, budget>>

(* refresh() aborts the poll under way, if there is one; the loop asks     *)
(* again at once with the same since.                                      *)
Refresh(t) ==
  /\ mutated[t]
  /\ mutated' = [mutated EXCEPT ![t] = FALSE]
  /\ phase' = IF phase[t] \in InFlight THEN [phase EXCEPT ![t] = "poll"] ELSE phase
  /\ UNCHANGED <<server, client, reply, budget>>

(* A request or its answer is lost.                                        *)
Fault(t) ==
  /\ phase[t] \in {"claiming", "claimed"} \cup InFlight
  /\ faults < MaxFaults
  /\ faults' = faults + 1
  /\ Goto(t, "asleep")
  /\ UNCHANGED <<server, client, reply, mutated, remounts>>

(* The page is reloaded, or the effect runs a second time: only            *)
(* sessionStorage survives.                                                *)
Remount(t) ==
  /\ remounts < MaxRemounts
  /\ remounts' = remounts + 1
  /\ Goto(t, "claim")
  /\ session' = [session EXCEPT ![t] = NoSession]
  /\ since' = [since EXCEPT ![t] = 0]
  /\ shown' = [shown EXCEPT ![t] = Nothing]
  /\ mutated' = [mutated EXCEPT ![t] = FALSE]
  /\ UNCHANGED <<server, stored, reply, faults>>

-----------------------------------------------------------------------------
Progress(t) ==
  \/ Claim(t) \/ ServeClaim(t) \/ Claimed(t)
  \/ Poll(t) \/ ServeState(t) \/ Receive(t) \/ ReceiveGone(t) \/ Resume(t)

Next ==
  \/ \E t \in Tab :
       \/ Progress(t) \/ HoldExpires(t) \/ Mutate(t)
       \/ Refresh(t) \/ Fault(t) \/ Remount(t)
  \/ Reset \/ Restart

Spec == Init /\ [][Next]_vars

(* Messages that are not lost arrive, the server serves what arrives, and  *)
(* timers fire.  A held poll need never expire.                            *)
Fairness == \A t \in Tab : WF_vars(Progress(t))

FairSpec == Spec /\ Fairness

-----------------------------------------------------------------------------
(* No lost wakeup: a poll is held only while its tab has the very version  *)
(* the store is at, in the very generation: resets and restarts start      *)
(* counting again, and no tab waits for a version of an earlier count.     *)
HeldIsCurrent ==
  \A t \in Tab : phase[t] = "held" =>
    session[t] = generation /\ since[t] = version

(* "Drop the stale projection so the UI does not keep rendering rows that  *)
(* are gone": no tab shows rows of a generation before its session's.      *)
NoStaleRows ==
  \A t \in Tab : session[t] # NoSession /\ shown[t] # Nothing =>
    shown[t].gen >= session[t]

(* Without refreshing by hand every tab ends up showing what the store     *)
(* holds, once mutations, wipes, losses and reloads have stopped.          *)
CatchesUp == \A t \in Tab : <>[](shown[t] = Snapshot)

=============================================================================
