--------------------------- MODULE LongPollProofs ---------------------------
(***************************************************************************)
(* The safety properties of LongPoll, for any number of tabs and any       *)
(* bounds.  That a held poll is current needs to be known all the way      *)
(* round the loop: what a tab's session, since and reply say while a       *)
(* request travels, so that none of it outlives the generation it is from. *)
(***************************************************************************)
EXTENDS LongPoll, TLAPS

(* A tab without a session shows nothing; it claims only without one and   *)
(* polls only with one.                                                    *)
SessionPhases(t) ==
  /\ session[t] <= generation
  /\ session[t] = NoSession => shown[t] = Nothing
  /\ phase[t] \in {"claim", "claiming", "claimed"} => session[t] = NoSession
  /\ phase[t] \in InFlight \cup {"poll"} => session[t] # NoSession

(* A reply is of the store's past, and of no generation before the session *)
(* it answers.                                                             *)
ReplyKnown(t) ==
  /\ phase[t] = "claimed" => reply[t].gen \in 1 .. generation
  /\ phase[t] = "answered" =>
       /\ reply[t].gen \in session[t] .. generation
       /\ session[t] = generation => reply[t].version <= version

(* While the session is good, since is a version the store has reached.    *)
SinceReached(t) == session[t] = generation => since[t] <= version

Held(t) == phase[t] = "held" => session[t] = generation /\ since[t] = version
Fresh(t) == session[t] # NoSession /\ shown[t] # Nothing => shown[t].gen >= session[t]

TabInv(t) ==
  SessionPhases(t) /\ ReplyKnown(t) /\ SinceReached(t) /\ Held(t) /\ Fresh(t)

IInv == TypeOK /\ \A t \in Tab : TabInv(t)

-----------------------------------------------------------------------------
LEMMA InitIInv == Init => IInv
  BY DEF Init, IInv, TypeOK, TabInv, SessionPhases, ReplyKnown, SinceReached, Held,
         Fresh, NoSession, Nothing, Phase, InFlight

(* Every step keeps the types.                                             *)
LEMMA StepTypes == TypeOK /\ [Next]_vars => TypeOK'
<1> SUFFICES ASSUME TypeOK, [Next]_vars PROVE TypeOK'
  OBVIOUS
<1> USE DEF TypeOK, Phase, InFlight, Nothing, NoSession, Snapshot, Goto, Answer
<1>1. ASSUME NEW t \in Tab, Progress(t) PROVE TypeOK'
  <2>1. CASE Claim(t)
    BY <2>1 DEF Claim, server, client, budget
  <2>2. CASE ServeClaim(t)
    BY <2>2 DEF ServeClaim, server, client, budget
  <2>3. CASE Claimed(t)
    BY <2>3 DEF Claimed, SinceAfterClaim, server, client, budget
  <2>4. CASE Poll(t)
    BY <2>4 DEF Poll, server, client, budget
  <2>5. CASE ServeState(t)
    <3>1. Nothing \in [gen : Nat, version : Nat] /\ Snapshot \in [gen : Nat, version : Nat]
      OBVIOUS
    <3>2. ASSUME NEW p \in Phase, NEW s \in [gen : Nat, version : Nat],
                 Answer(t, p, s), UNCHANGED <<server, client, mutated, budget>>
          PROVE  TypeOK'
      BY <3>2 DEF server, client, budget
    <3> HIDE DEF TypeOK, Snapshot, Nothing, Answer
    <3> QED
      BY <2>5, <3>1, <3>2 DEF ServeState
  <2>6. CASE Receive(t)
    BY <2>6 DEF Receive, server, client, budget
  <2>7. CASE ReceiveGone(t)
    BY <2>7 DEF ReceiveGone, SessionAfterGone, RowsAfterGone, server, client, budget
  <2>8. CASE Resume(t)
    BY <2>8 DEF Resume, server, client, budget
  <2> QED
    BY <1>1, <2>1, <2>2, <2>3, <2>4, <2>5, <2>6, <2>7, <2>8 DEF Progress
<1>2. ASSUME NEW t \in Tab, HoldExpires(t) PROVE TypeOK'
  BY <1>2 DEF HoldExpires, server, client, budget
<1>3. ASSUME NEW t \in Tab, Mutate(t) PROVE TypeOK'
  BY <1>3 DEF Mutate, WakeAll, client, budget
<1>4. ASSUME NEW t \in Tab, Refresh(t) PROVE TypeOK'
  BY <1>4 DEF Refresh, server, client, budget
<1>5. ASSUME NEW t \in Tab, Fault(t) PROVE TypeOK'
  BY <1>5 DEF Fault, server, client
<1>6. ASSUME NEW t \in Tab, Remount(t) PROVE TypeOK'
  BY <1>6 DEF Remount, server
<1>7. CASE Reset
  BY <1>7 DEF Reset, WakeAll, client, budget
<1>8. CASE Restart
  BY <1>8 DEF Restart, client, budget
<1>9. CASE UNCHANGED vars
  BY <1>9 DEF vars, server, client, budget
<1> QED
  BY <1>1, <1>2, <1>3, <1>4, <1>5, <1>6, <1>7, <1>8, <1>9 DEF Next

(* Every step keeps what holds of one tab, whichever tab it is a step of.  *)
LEMMA StepTab == ASSUME IInv, [Next]_vars, NEW u \in Tab PROVE TabInv(u)'
<1> USE DEF TypeOK, Phase, InFlight, Nothing, NoSession, Snapshot, Goto, Answer
<1>0. TypeOK /\ TabInv(u)
  BY DEF IInv
<1> USE DEF TabInv, SessionPhases, ReplyKnown, SinceReached, Held, Fresh
<1>1. ASSUME NEW t \in Tab, Progress(t) PROVE TabInv(u)'
  <2>1. CASE Claim(t)
    BY <1>0, <2>1 DEF Claim, server, client, budget
  <2>2. CASE ServeClaim(t)
    BY <1>0, <2>2 DEF ServeClaim, server, client, budget
  <2>3. CASE Claimed(t)
    BY <1>0, <2>3 DEF Claimed, SinceAfterClaim, server, client, budget
  <2>4. CASE Poll(t)
    BY <1>0, <2>4 DEF Poll, server, client, budget
  <2>5. CASE ServeState(t)
    <3>1. UNCHANGED <<server, client, mutated, budget>>
      BY <2>5 DEF ServeState
    <3>2. CASE session[t] # generation /\ Answer(t, "gone", Nothing)
      BY <1>0, <2>5, <3>1, <3>2 DEF ServeState, server, client, budget
    <3>3. CASE session[t] = generation /\ version > since[t]
                 /\ Answer(t, "answered", Snapshot)
      BY <1>0, <2>5, <3>1, <3>3 DEF ServeState, server, client, budget
    <3>4. CASE session[t] = generation /\ version <= since[t]
                 /\ Answer(t, "held", Nothing)
      <4>1. CASE u # t
        BY <1>0, <3>1, <3>4, <4>1 DEF server, client, budget
      <4>2. CASE u = t
        <5>1. since[u] = version
          <6>1. since[u] \in Nat /\ version \in Nat
            BY <1>0
          <6>2. since[u] <= version
            BY <1>0, <3>4, <4>2
          <6>3. version <= since[u]
            BY <3>4, <4>2
          <6> QED
            BY <6>1, <6>2, <6>3
        <5>2. phase'[u] = "held"
          BY <1>0, <3>4, <4>2
        <5> QED
          BY <1>0, <2>5, <3>1, <3>4, <4>2, <5>1, <5>2 DEF ServeState, server, client, budget
      <4> QED
        BY <4>1, <4>2
    <3> QED
      BY <2>5, <3>2, <3>3, <3>4 DEF ServeState
  <2>6. CASE Receive(t)
    BY <1>0, <2>6 DEF Receive, server, client, budget
  <2>7. CASE ReceiveGone(t)
    BY <1>0, <2>7 DEF ReceiveGone, SessionAfterGone, RowsAfterGone, server, client, budget
  <2>8. CASE Resume(t)
    BY <1>0, <2>8 DEF Resume, server, client, budget
  <2> QED
    BY <1>1, <2>1, <2>2, <2>3, <2>4, <2>5, <2>6, <2>7, <2>8 DEF Progress
<1>2. ASSUME NEW t \in Tab, HoldExpires(t) PROVE TabInv(u)'
  BY <1>0, <1>2 DEF HoldExpires, server, client, budget
<1>3. ASSUME NEW t \in Tab, Mutate(t) PROVE TabInv(u)'
  BY <1>0, <1>3 DEF Mutate, WakeAll, client, budget
<1>4. ASSUME NEW t \in Tab, Refresh(t) PROVE TabInv(u)'
  BY <1>0, <1>4 DEF Refresh, server, client, budget
<1>5. ASSUME NEW t \in Tab, Fault(t) PROVE TabInv(u)'
  BY <1>0, <1>5 DEF Fault, server, client
<1>6. ASSUME NEW t \in Tab, Remount(t) PROVE TabInv(u)'
  BY <1>0, <1>6 DEF Remount, server
<1>7. CASE Reset
  BY <1>0, <1>7 DEF Reset, WakeAll, client, budget
<1>8. CASE Restart
  BY <1>0, <1>8 DEF Restart, client, budget
<1>9. CASE UNCHANGED vars
  BY <1>0, <1>9 DEF vars, server, client, budget
<1> QED
  BY <1>1, <1>2, <1>3, <1>4, <1>5, <1>6, <1>7, <1>8, <1>9 DEF Next

LEMMA StepIInv == IInv /\ [Next]_vars => IInv'
<1> SUFFICES ASSUME IInv, [Next]_vars PROVE IInv'
  OBVIOUS
<1>1. TypeOK'
  BY StepTypes DEF IInv
<1>2. \A u \in Tab : TabInv(u)'
  BY StepTab
<1> QED
  BY <1>1, <1>2 DEF IInv

LEMMA Always == Spec => []IInv
  BY InitIInv, StepIInv, PTL DEF Spec

-----------------------------------------------------------------------------
(* Tabs and store only ever reach well-formed states.                      *)
THEOREM TypeCorrect == Spec => []TypeOK
<1>1. IInv => TypeOK
  BY DEF IInv
<1> QED
  BY <1>1, Always, PTL

(* No wakeup is lost: a poll waits only for a version after the one its    *)
(* tab has, in the generation its session is of.                           *)
THEOREM NoLostWakeup == Spec => []HeldIsCurrent
<1>1. IInv => HeldIsCurrent
  BY DEF IInv, TabInv, Held, HeldIsCurrent
<1> QED
  BY <1>1, Always, PTL

(* No tab keeps rows of a store that went before its session was issued.   *)
THEOREM RowsAreFresh == Spec => []NoStaleRows
<1>1. IInv => NoStaleRows
  BY DEF IInv, TabInv, Fresh, NoStaleRows
<1> QED
  BY <1>1, Always, PTL

=============================================================================
