-------------------------- MODULE AdapterGateProofs --------------------------
(***************************************************************************)
(* Proofs about AdapterGate for every set of callers, number of attempts,  *)
(* failure threshold, release delay, cooldown and number of restarts.      *)
(***************************************************************************)
EXTENDS AdapterGate, TLAPS

USE GateConstants DEF Recovery

\* Constants of the type invariant that most leaves need.
LEMMA PlacesFacts ==
    /\ OnAir \subseteq Holding
    /\ Holding \subseteq Places
    /\ "idle" \notin Holding /\ "waiting" \notin Holding
    /\ "pausing" \in Holding \ OnAir /\ "recovering" \in Holding \ OnAir
    /\ "opening" \in OnAir /\ "operating" \in OnAir /\ "closing" \in OnAir
BY DEF OnAir, Holding, Places

\* Removing a waiter from the queue of the lock leaves a queue of callers.
LEMMA RemoveAtType ==
    ASSUME NEW S, NEW s \in Seq(S), NEW i \in DOMAIN s
    PROVE  RemoveAt(s, i) \in Seq(S)
<1>1. i \in 1 .. Len(s) /\ Len(s) \in Nat
  OBVIOUS
<1>2. SubSeq(s, 1, i - 1) \in Seq(S)
  BY <1>1
<1>3. SubSeq(s, i + 1, Len(s)) \in Seq(S)
  BY <1>1
<1>4. QED
  BY <1>2, <1>3 DEF RemoveAt

\* The gate starts idle, unlocked and long after any session.
LEMMA InitGateInv == Init => GateInv
<1> SUFFICES ASSUME Init PROVE GateInv
  OBVIOUS
<1>1. TypeOK
  <2>1. pc \in [Caller -> Places] /\ result \in [Caller -> Results \cup {"none"}]
    BY DEF Init, Places
  <2>2. attempt \in [Caller -> 0 .. Recovery] /\ wake \in [Caller -> 0 .. ReleaseDelay]
    BY DEF Init
  <2>3. waiters \in Seq(Caller)
    BY DEF Init
  <2>4. closed_age \in 0 .. ReleaseDelay /\ recovery_age \in 0 .. RecoveryCooldown
    BY DEF Init
  <2>5. failures \in 0 .. RecoveryFailures /\ restarts \in 0 .. MaxRestarts
    BY DEF Init
  <2>6. QED
    BY <2>1, <2>2, <2>3, <2>4, <2>5 DEF Init, TypeOK, Outcomes
<1>2. MutualExclusion /\ NoLeakedLock /\ PauseCoversRelease
  BY PlacesFacts DEF Init, MutualExclusion, NoLeakedLock, PauseCoversRelease
<1>3. SessionAddress /\ ReleasedBeforeOpen
  BY PlacesFacts DEF Init, SessionAddress, ReleasedBeforeOpen
<1>4. RecoveryIsEarned
  BY PlacesFacts DEF Init, RecoveryIsEarned
<1>5. QED
  BY <1>1, <1>2, <1>3, <1>4 DEF GateInv

-----------------------------------------------------------------------------
(* Type correctness.                                                       *)

\* What the two ways an async_run goes on assign has the right type.
LEMMA LeaveType ==
    ASSUME TypeOK, NEW c \in Caller, NEW how \in Outcomes, Leave(c, how)
    PROVE  /\ pc' \in [Caller -> Places]
           /\ attempt' \in [Caller -> 0 .. Recovery]
           /\ wake' \in [Caller -> 0 .. ReleaseDelay]
           /\ result' \in [Caller -> Results \cup {"none"}]
           /\ locked' \in BOOLEAN
           /\ outcome' \in Outcomes
<1>1. "idle" \in Places /\ 0 \in 0 .. Recovery /\ 0 \in 0 .. ReleaseDelay
  BY PlacesFacts DEF Places
<1>2. QED
  BY <1>1 DEF TypeOK, Leave, Go

LEMMA ContinueType ==
    ASSUME TypeOK, NEW c \in Caller, NEW n \in 1 .. Recovery,
           NEW place \in Places, NEW pause \in 0 .. ReleaseDelay,
           Continue(c, n, place, pause)
    PROVE  /\ pc' \in [Caller -> Places]
           /\ attempt' \in [Caller -> 0 .. Recovery]
           /\ wake' \in [Caller -> 0 .. ReleaseDelay]
           /\ result' \in [Caller -> Results \cup {"none"}]
           /\ locked' \in BOOLEAN
           /\ outcome' \in Outcomes
BY DEF TypeOK, Continue, Go

LEMMA StartAttemptType ==
    ASSUME TypeOK, NEW c \in Caller, NEW n \in 1 .. Recovery,
           StartAttempt(c, n)
    PROVE  /\ pc' \in [Caller -> Places]
           /\ attempt' \in [Caller -> 0 .. Recovery]
           /\ wake' \in [Caller -> 0 .. ReleaseDelay]
           /\ result' \in [Caller -> Results \cup {"none"}]
           /\ locked' \in BOOLEAN
           /\ outcome' \in Outcomes
           /\ active_address' \in Caller \cup {NoAddress}
<1>0. "pausing" \in Places /\ "opening" \in Places
  BY PlacesFacts
<1>1. CASE closed_age < ReleaseDelay
  <2>1. ReleaseDelay - closed_age \in 0 .. ReleaseDelay
    BY <1>1 DEF TypeOK
  <2>2. Continue(c, n, "pausing", ReleaseDelay - closed_age)
    BY <1>1 DEF StartAttempt
  <2>3. active_address' = active_address
    BY <1>1 DEF StartAttempt
  <2>4. QED
    BY <1>0, <2>1, <2>2, <2>3, ContinueType DEF TypeOK
<1>2. CASE ~(closed_age < ReleaseDelay)
  <2>1. Continue(c, n, "opening", 0) /\ active_address' = c
    BY <1>2 DEF StartAttempt
  <2>2. 0 \in 0 .. ReleaseDelay
    OBVIOUS
  <2>3. QED
    BY <1>0, <2>1, <2>2, ContinueType
<1>3. QED
  BY <1>1, <1>2

\* Whatever async_run decides at the end of a session.
LEMMA SettleType ==
    ASSUME TypeOK, NEW c \in Caller, NEW r \in Results \cup {"none"},
           Settle(c, r)
    PROVE  TypeOK'
<1> DEFINE Decided == PassOn(c, r) \/ Succeed(c, r) \/ AnsweredInError(c, r)
                     \/ Unreachable(c, r) \/ RecoveryFailed(c, r)
                     \/ RecoveredInError(c, r) \/ Retry(c, r)
<1>1. /\ waiters' \in Seq(Caller) /\ daylight' \in BOOLEAN
      /\ restarts' \in 0 .. MaxRestarts
      /\ active_address' \in Caller \cup {NoAddress}
      /\ closed_age' \in 0 .. ReleaseDelay
  BY DEF Settle, TypeOK
<1>2. OneMoreFailure \in 0 .. RecoveryFailures
  BY DEF OneMoreFailure, TypeOK
<1>3. /\ failures' \in 0 .. RecoveryFailures
      /\ recovery_age' \in 0 .. RecoveryCooldown
      /\ recovery_issue_open' \in BOOLEAN
      /\ issue' \in BOOLEAN
  <2>1. Decided
    BY DEF Settle
  <2>2. recovery_age' \in 0 .. RecoveryCooldown
    BY <2>1 DEF TypeOK, PassOn, Succeed, AnsweredInError, Unreachable,
       RecoveryFailed, RecoveredInError, Retry
  <2>3. failures' \in 0 .. RecoveryFailures
    BY <1>2, <2>1 DEF TypeOK, PassOn, Succeed, AnsweredInError, Unreachable,
       RecoveryFailed, RecoveredInError, Retry, ClearRecoveryFailure
  <2>4. recovery_issue_open' \in BOOLEAN /\ issue' \in BOOLEAN
    BY <2>1 DEF TypeOK, PassOn, Succeed, AnsweredInError, Unreachable,
       RecoveryFailed, RecoveredInError, Retry, ClearRecoveryFailure,
       RaiseRecoveryIssue, KeepIssue
  <2>5. QED
    BY <2>2, <2>3, <2>4
<1>4. /\ pc' \in [Caller -> Places]
      /\ attempt' \in [Caller -> 0 .. Recovery]
      /\ wake' \in [Caller -> 0 .. ReleaseDelay]
      /\ result' \in [Caller -> Results \cup {"none"}]
      /\ locked' \in BOOLEAN
      /\ outcome' \in Outcomes
  <2>1. r \in Outcomes /\ "transport" \in Outcomes
    BY DEF Outcomes, Results
  <2>2. CASE Leave(c, r) \/ Leave(c, "transport")
    BY <2>1, <2>2, LeaveType
  <2>3. CASE Retry(c, r)
    <3>1. attempt[c] + 1 \in 1 .. Recovery
      BY <2>3 DEF Retry, TypeOK
    <3>2. QED
      BY <2>3, <3>1, ContinueType, PlacesFacts DEF Retry
  <2>4. CASE Continue(c, Recovery, "recovering", 0)
    BY <2>4, ContinueType, PlacesFacts
  <2>5. QED
    BY <2>2, <2>3, <2>4 DEF Settle, PassOn, Succeed, AnsweredInError,
       Unreachable, RecoveryFailed, RecoveredInError
<1>5. QED
  BY <1>1, <1>3, <1>4 DEF TypeOK

\* Every step of the gate keeps the variables typed.
LEMMA NextTypeOK == TypeOK /\ [Next]_vars => TypeOK'
<1> SUFFICES ASSUME TypeOK, [Next]_vars PROVE TypeOK'
  OBVIOUS
<1>f. /\ "daylight" \in Outcomes /\ "cancelled" \in Outcomes
      /\ "transport" \in Outcomes /\ "none" \in Outcomes
      /\ Results \subseteq Outcomes
      /\ "transport" \in Results /\ "cancelled" \in Results
  BY DEF Outcomes, Results
<1>1. ASSUME NEW c \in Caller, Call(c) PROVE TypeOK'
  <2>1. pc' \in [Caller -> Places] /\ outcome' \in Outcomes
    BY <1>1, <1>f DEF Call, Go, TypeOK, Places
  <2>2. waiters' \in Seq(Caller)
    <3>1. waiters' = Append(waiters, c) \/ waiters' = waiters
      BY <1>1 DEF Call
    <3>2. waiters \in Seq(Caller) => Append(waiters, c) \in Seq(Caller)
      OBVIOUS
    <3>3. QED
      BY <3>1, <3>2 DEF TypeOK
  <2>3. QED
    BY <1>1, <2>1, <2>2 DEF Call, TypeOK, gateVars
<1>2. ASSUME NEW c \in Caller, Acquire(c) PROVE TypeOK'
  <2>1. waiters' \in Seq(Caller)
    BY <1>2 DEF Acquire, TypeOK
  <2>2. 1 \in 1 .. Recovery
    OBVIOUS
  <2>3. CASE Leave(c, "daylight") /\ UNCHANGED active_address
    BY <1>2, <1>f, <2>1, <2>3, LeaveType DEF Acquire, TypeOK, gateVars
  <2>4. CASE StartAttempt(c, 1)
    BY <1>2, <2>1, <2>2, <2>4, StartAttemptType DEF Acquire, TypeOK, gateVars
  <2>5. QED
    BY <1>2, <2>3, <2>4 DEF Acquire
<1>3. ASSUME NEW c \in Caller, Wake(c) PROVE TypeOK'
  <2>1. CASE Leave(c, "daylight") /\ UNCHANGED active_address
    BY <1>3, <1>f, <2>1, LeaveType DEF Wake, TypeOK, gateVars
  <2>2. CASE Continue(c, attempt[c], "opening", 0) /\ active_address' = c
    <3>1. /\ pc' \in [Caller -> Places]
          /\ attempt' \in [Caller -> 0 .. Recovery]
          /\ wake' \in [Caller -> 0 .. ReleaseDelay]
          /\ result' \in [Caller -> Results \cup {"none"}]
          /\ locked' \in BOOLEAN
          /\ outcome' \in Outcomes
      BY <2>2, PlacesFacts DEF Continue, Go, TypeOK
    <3>2. QED
      BY <1>3, <2>2, <3>1 DEF Wake, TypeOK, gateVars
  <2>3. QED
    BY <1>3, <2>1, <2>2 DEF Wake
<1>4. ASSUME NEW c \in Caller, NEW r \in Results, StopSession(c, r)
      PROVE  TypeOK'
  BY <1>4, PlacesFacts DEF StopSession, Go, TypeOK, gateVars
<1>5. ASSUME NEW c \in Caller, Opened(c) PROVE TypeOK'
  BY <1>5, PlacesFacts DEF Opened, Go, TypeOK, gateVars
<1>6. ASSUME NEW c \in Caller,
             OpeningFails(c) \/ OperationEnds(c) \/ LoggedOff(c) \/ Deadline(c)
      PROVE  TypeOK'
  BY <1>6, <1>4, <1>f, SettleType
     DEF OpeningFails, OperationEnds, LoggedOff, Deadline, TypeOK
<1>7. ASSUME NEW c \in Caller, Recovered(c) PROVE TypeOK'
  <2>1. Recovery \in 1 .. Recovery
    OBVIOUS
  <2>2. CASE Leave(c, "daylight") /\ UNCHANGED active_address
    BY <1>7, <1>f, <2>2, LeaveType DEF Recovered, TypeOK, gateVars
  <2>3. CASE StartAttempt(c, Recovery)
    BY <1>7, <2>1, <2>3, StartAttemptType DEF Recovered, TypeOK, gateVars
  <2>4. QED
    BY <1>7, <2>2, <2>3 DEF Recovered
<1>8. ASSUME NEW c \in Caller, RecoveryRaises(c) PROVE TypeOK'
  BY <1>8, <1>f, LeaveType
     DEF RecoveryRaises, RecoveryFailed, RaiseRecoveryIssue, TypeOK
<1>9. ASSUME NEW c \in Caller, Cancel(c) PROVE TypeOK'
  <2>1. CASE /\ pc[c] = "waiting"
             /\ \E i \in DOMAIN waiters :
                  waiters[i] = c /\ waiters' = RemoveAt(waiters, i)
             /\ Go(c, "idle")
             /\ outcome' = "cancelled"
             /\ UNCHANGED <<attempt, wake, result, locked, active_address,
                            gateVars, daylight, restarts>>
    <3>1. waiters' \in Seq(Caller)
      BY <2>1, RemoveAtType DEF TypeOK
    <3>2. pc' \in [Caller -> Places]
      BY <2>1 DEF Go, Places, TypeOK
    <3>3. QED
      BY <2>1, <3>1, <3>2, <1>f DEF TypeOK, gateVars
  <2>2. CASE /\ pc[c] \in {"pausing", "recovering"}
             /\ Leave(c, "cancelled")
             /\ UNCHANGED <<waiters, active_address, gateVars, daylight,
                            restarts>>
    BY <2>2, <1>f, LeaveType DEF TypeOK, gateVars
  <2>3. CASE Settle(c, "cancelled")
    BY <2>3, <1>f, SettleType
  <2>4. CASE StopSession(c, "cancelled")
    BY <2>4, <1>4, <1>f
  <2>5. QED
    BY <1>9, <2>1, <2>2, <2>3, <2>4 DEF Cancel
<1>10. CASE Tick
  BY <1>10 DEF Tick, Older, TypeOK
<1>11. CASE Sun
  BY <1>11 DEF Sun, TypeOK, gateVars
<1>12. CASE Restart
  <2>1. pc' \in [Caller -> Places] /\ result' \in [Caller -> Results \cup {"none"}]
    BY <1>12 DEF Restart, Places
  <2>2. /\ attempt' \in [Caller -> 0 .. Recovery]
        /\ wake' \in [Caller -> 0 .. ReleaseDelay]
    BY <1>12 DEF Restart
  <2>3. waiters' \in Seq(Caller)
    BY <1>12 DEF Restart
  <2>4. /\ closed_age' \in 0 .. ReleaseDelay
        /\ recovery_age' \in 0 .. RecoveryCooldown
        /\ failures' \in 0 .. RecoveryFailures
        /\ restarts' \in 0 .. MaxRestarts
    BY <1>12 DEF Restart, TypeOK
  <2>5. QED
    BY <1>12, <1>f, <2>1, <2>2, <2>3, <2>4 DEF Restart, TypeOK
<1>13. CASE UNCHANGED vars
  BY <1>13 DEF vars, gateVars, TypeOK
<1>14. QED
  BY <1>1, <1>2, <1>3, <1>5, <1>6, <1>7, <1>8, <1>9, <1>10, <1>11, <1>12, <1>13
     DEF Next, CallerNext

\* Every state the gate reaches is typed, for every instance.
THEOREM GateTypeCorrect == Spec => []TypeOK
<1>1. Init => TypeOK
  BY InitGateInv DEF GateInv
<1>2. QED
  BY <1>1, NextTypeOK, PTL DEF Spec

-----------------------------------------------------------------------------
(* The inductive invariant. Every action of a caller either ends its call, *)
(* lets it go on as the one lock holder, or leaves who holds the lock alone. *)

Others(c) == Caller \ {c}

\* While a caller is in the body of async_run, nobody else is.
LEMMA HolderIsAlone ==
    ASSUME GateInv, NEW c \in Caller, pc[c] \in Holding
    PROVE  \A d \in Others(c) : pc[d] \notin Holding
BY DEF GateInv, MutualExclusion, Others

\* The holder returns or raises.
LEMMA LeaveInv ==
    ASSUME GateInv, NEW c \in Caller, NEW how, Leave(c, how),
           \A d \in Others(c) : pc[d] \notin Holding,
           active_address' \in {active_address, NoAddress},
           pc[c] \in OnAir => active_address' = NoAddress,
           TypeOK'
    PROVE  GateInv'
<1>1. \A d \in Caller : pc'[d] \notin Holding
  BY PlacesFacts DEF Leave, Go, Others, GateInv, TypeOK
<1>2. \A d \in Caller : pc'[d] \notin OnAir /\ pc'[d] \notin {"pausing", "recovering"}
  BY <1>1, PlacesFacts
<1>3. active_address' \notin Caller
  <2>1. CASE pc[c] \in OnAir
    BY <2>1
  <2>2. CASE pc[c] \notin OnAir
    <3>1. \A d \in Caller : pc[d] \notin OnAir
      BY <2>2, PlacesFacts DEF Others
    <3>2. active_address \notin Caller
      BY <3>1 DEF GateInv, SessionAddress
    <3>3. QED
      BY <3>2
  <2>3. QED
    BY <2>1, <2>2
<1>4. locked' = FALSE
  BY DEF Leave
<1>5. MutualExclusion' /\ NoLeakedLock' /\ RecoveryIsEarned'
  BY <1>1, <1>2, <1>4 DEF MutualExclusion, NoLeakedLock, RecoveryIsEarned
<1>6. SessionAddress' /\ ReleasedBeforeOpen' /\ PauseCoversRelease'
  BY <1>2, <1>3 DEF SessionAddress, ReleasedBeforeOpen, PauseCoversRelease
<1>7. QED
  BY <1>5, <1>6 DEF GateInv

\* The holder goes on: with a pause, a session or a power cycle.
LEMMA ContinueInv ==
    ASSUME GateInv, NEW c \in Caller, NEW n \in 1 .. Recovery,
           NEW place \in Holding, NEW pause \in 0 .. ReleaseDelay,
           Continue(c, n, place, pause),
           \A d \in Others(c) : pc[d] \notin Holding,
           place = "pausing" => closed_age' + pause >= ReleaseDelay,
           place \in OnAir => active_address' = c /\ closed_age' = ReleaseDelay,
           place \notin OnAir => active_address' \notin Caller,
           place = "recovering" => n = Recovery,
           n = Recovery => failures' = RecoveryFailures,
           TypeOK'
    PROVE  GateInv'
<1>1. /\ pc'[c] = place /\ attempt'[c] = n /\ wake'[c] = pause
      /\ \A d \in Others(c) : pc'[d] \notin Holding
      /\ locked' = TRUE
  BY DEF Continue, Go, Others, GateInv, TypeOK
<1>2. \A d \in Caller : pc'[d] \in Holding <=> d = c
  BY <1>1 DEF Others
<1>3. \A d \in Caller : pc'[d] \in OnAir => d = c /\ place \in OnAir
  BY <1>1, <1>2, PlacesFacts
<1>4. MutualExclusion' /\ NoLeakedLock'
  BY <1>1, <1>2 DEF MutualExclusion, NoLeakedLock
<1>5. SessionAddress' /\ ReleasedBeforeOpen'
  BY <1>1, <1>3 DEF SessionAddress, ReleasedBeforeOpen
<1>6. PauseCoversRelease'
  BY <1>1, <1>2, PlacesFacts DEF PauseCoversRelease
<1>7. RecoveryIsEarned'
  BY <1>1, <1>2, PlacesFacts DEF RecoveryIsEarned
<1>8. QED
  BY <1>4, <1>5, <1>6, <1>7 DEF GateInv

\* An attempt that starts sleeps until the radio is released, or finds it
\* released.
LEMMA StartAttemptInv ==
    ASSUME GateInv, NEW c \in Caller, NEW n \in 1 .. Recovery,
           StartAttempt(c, n),
           \A d \in Others(c) : pc[d] \notin Holding,
           pc[c] \notin OnAir,
           UNCHANGED <<closed_age, failures>>,
           n = Recovery => failures = RecoveryFailures,
           TypeOK'
    PROVE  GateInv'
<1>1. CASE closed_age < ReleaseDelay
  <2>1. /\ ReleaseDelay - closed_age \in 0 .. ReleaseDelay
        /\ closed_age + (ReleaseDelay - closed_age) >= ReleaseDelay
    BY <1>1 DEF GateInv, TypeOK
  <2>2. /\ Continue(c, n, "pausing", ReleaseDelay - closed_age)
        /\ active_address' = active_address
    BY <1>1 DEF StartAttempt
  <2>3. active_address \notin Caller
    BY PlacesFacts DEF GateInv, SessionAddress, Others
  <2>4. QED
    BY <2>1, <2>2, <2>3, ContinueInv, PlacesFacts
<1>2. CASE ~(closed_age < ReleaseDelay)
  <2>1. closed_age = ReleaseDelay
    BY <1>2 DEF GateInv, TypeOK
  <2>2. Continue(c, n, "opening", 0) /\ active_address' = c
    BY <1>2 DEF StartAttempt
  <2>3. 0 \in 0 .. ReleaseDelay
    OBVIOUS
  <2>4. QED
    BY <2>1, <2>2, <2>3, ContinueInv, PlacesFacts
<1>3. QED
  BY <1>1, <1>2

\* A step that leaves every caller in or out of the lock, on or off the air,
\* and the gate untouched.
LEMMA SamePlacesInv ==
    ASSUME GateInv, NEW c \in Caller, NEW place \in Places, Go(c, place),
           pc[c] \in OnAir <=> place \in OnAir,
           pc[c] \in Holding <=> place \in Holding,
           place \notin {"pausing", "recovering"},
           UNCHANGED <<attempt, wake, locked, active_address, gateVars>>,
           TypeOK'
    PROVE  GateInv'
<1>1. \A d \in Caller : /\ pc'[d] \in Holding <=> pc[d] \in Holding
                        /\ pc'[d] \in OnAir <=> pc[d] \in OnAir
                        /\ pc'[d] = "pausing" => pc[d] = "pausing"
                        /\ pc'[d] = "recovering" => pc[d] = "recovering"
  BY DEF Go, GateInv, TypeOK
<1>2. MutualExclusion' /\ NoLeakedLock' /\ SessionAddress'
  BY <1>1 DEF GateInv, MutualExclusion, NoLeakedLock, SessionAddress
<1>3. ReleasedBeforeOpen' /\ PauseCoversRelease' /\ RecoveryIsEarned'
  BY <1>1 DEF GateInv, ReleasedBeforeOpen, PauseCoversRelease, RecoveryIsEarned,
     gateVars
<1>4. QED
  BY <1>2, <1>3 DEF GateInv

\* The end of a session, in whichever of its seven ways.
LEMMA SettleInv ==
    ASSUME GateInv, NEW c \in Caller, NEW r, pc[c] \in OnAir, Settle(c, r),
           TypeOK'
    PROVE  GateInv'
<1>1. \A d \in Others(c) : pc[d] \notin Holding
  BY HolderIsAlone, PlacesFacts
<1>2. active_address' = NoAddress /\ closed_age' = 0
  BY DEF Settle
<1>3. CASE \E how : Leave(c, how)
  BY <1>1, <1>2, <1>3, LeaveInv
<1>4. CASE Retry(c, r)
  <2>1. attempt[c] + 1 \in 1 .. Recovery /\ attempt[c] + 1 # Recovery
    <3>1. attempt[c] \in 0 .. Recovery
      BY DEF GateInv, TypeOK
    <3>2. attempt[c] < Attempts
      BY <1>4 DEF Retry
    <3>3. QED
      BY <3>1, <3>2
  <2>2. ReleaseDelay \in 0 .. ReleaseDelay /\ 0 + ReleaseDelay >= ReleaseDelay
    OBVIOUS
  <2>3. Continue(c, attempt[c] + 1, "pausing", ReleaseDelay)
    BY <1>4 DEF Retry
  <2>4. QED
    BY <1>1, <1>2, <2>1, <2>2, <2>3, ContinueInv, PlacesFacts
<1>5. CASE Unreachable(c, r) /\ Continue(c, Recovery, "recovering", 0)
  <2>1. Recovery \in 1 .. Recovery /\ 0 \in 0 .. ReleaseDelay
    OBVIOUS
  <2>2. failures' = RecoveryFailures
    <3>1. OneMoreFailure >= RecoveryFailures
      <4>1. pc'[c] = "recovering"
        BY <1>5 DEF Continue, Go, GateInv, TypeOK
      <4>2. ~Leave(c, r)
        BY <4>1 DEF Leave, Go, GateInv, TypeOK
      <4>3. QED
        BY <1>5, <4>2 DEF Unreachable
    <3>2. failures' = OneMoreFailure
      BY <1>5 DEF Unreachable
    <3>3. QED
      BY <3>1, <3>2 DEF OneMoreFailure, GateInv, TypeOK
  <2>3. QED
    BY <1>1, <1>2, <1>5, <2>1, <2>2, ContinueInv, PlacesFacts
<1>6. QED
  BY <1>3, <1>4, <1>5 DEF Settle, PassOn, Succeed, AnsweredInError,
     Unreachable, RecoveryFailed, RecoveredInError

\* Every step keeps the invariant.
LEMMA NextGateInv == GateInv /\ [Next]_vars => GateInv'
<1> SUFFICES ASSUME GateInv, [Next]_vars PROVE GateInv'
  OBVIOUS
<1>t. TypeOK'
  BY NextTypeOK DEF GateInv
<1>p. /\ "closing" \notin {"pausing", "recovering"}
      /\ "operating" \notin {"pausing", "recovering"}
      /\ "idle" \notin OnAir /\ "waiting" \notin OnAir
      /\ "idle" \in Places /\ "waiting" \in Places
  BY DEF OnAir, Places
<1>1. ASSUME NEW c \in Caller, Call(c) PROVE GateInv'
  <2>1. CASE Go(c, "waiting")
    BY <1>1, <1>p, <1>t, <2>1, SamePlacesInv, PlacesFacts DEF Call
  <2>2. CASE UNCHANGED pc
    BY <1>1, <1>t, <2>2 DEF Call, gateVars, GateInv, MutualExclusion, NoLeakedLock,
       SessionAddress, ReleasedBeforeOpen, PauseCoversRelease, RecoveryIsEarned
  <2>3. QED
    BY <1>1, <2>1, <2>2 DEF Call
<1>2. ASSUME NEW c \in Caller, Acquire(c) PROVE GateInv'
  <2>1. /\ \A d \in Others(c) : pc[d] \notin Holding
        /\ pc[c] \notin OnAir
    BY <1>2, <1>p DEF Acquire, GateInv, NoLeakedLock, Others
  <2>2. CASE Leave(c, "daylight") /\ UNCHANGED active_address
    BY <1>t, <2>1, <2>2, LeaveInv
  <2>3. CASE StartAttempt(c, 1)
    <3>1. 1 \in 1 .. Recovery /\ 1 # Recovery
      OBVIOUS
    <3>2. UNCHANGED <<closed_age, failures>>
      BY <1>2 DEF Acquire, gateVars
    <3>3. QED
      BY <1>t, <2>1, <2>3, <3>1, <3>2, StartAttemptInv
  <2>4. QED
    BY <1>2, <2>2, <2>3 DEF Acquire
<1>3. ASSUME NEW c \in Caller, Wake(c) PROVE GateInv'
  <2>1. /\ pc[c] = "pausing" /\ pc[c] \in Holding /\ pc[c] \notin OnAir
        /\ \A d \in Others(c) : pc[d] \notin Holding
    BY <1>3, HolderIsAlone, PlacesFacts DEF Wake
  <2>2. CASE Leave(c, "daylight") /\ UNCHANGED active_address
    BY <1>t, <2>1, <2>2, LeaveInv
  <2>3. CASE Continue(c, attempt[c], "opening", 0) /\ active_address' = c
    <3>1. attempt[c] \in 1 .. Recovery
      BY <2>1 DEF GateInv, RecoveryIsEarned
    <3>2. attempt[c] = Recovery => failures = RecoveryFailures
      BY <2>1 DEF GateInv, RecoveryIsEarned
    <3>3. closed_age = ReleaseDelay
      <4>1. closed_age + wake[c] >= ReleaseDelay /\ wake[c] = 0
        BY <1>3, <2>1 DEF Wake, GateInv, PauseCoversRelease
      <4>2. closed_age \in 0 .. ReleaseDelay
        BY DEF GateInv, TypeOK
      <4>3. QED
        BY <4>1, <4>2
    <3>4. UNCHANGED <<closed_age, failures>>
      BY <1>3 DEF Wake, gateVars
    <3>5. 0 \in 0 .. ReleaseDelay
      OBVIOUS
    <3>6. QED
      BY <1>t, <2>1, <2>3, <3>1, <3>2, <3>3, <3>4, <3>5, ContinueInv, PlacesFacts
  <2>4. QED
    BY <1>3, <2>2, <2>3 DEF Wake
<1>4. ASSUME NEW c \in Caller, NEW r, pc[c] \in OnAir, StopSession(c, r)
      PROVE  GateInv'
  BY <1>4, <1>p, <1>t, SamePlacesInv, PlacesFacts DEF StopSession
<1>5. ASSUME NEW c \in Caller, Opened(c) PROVE GateInv'
  BY <1>5, <1>p, <1>t, SamePlacesInv, PlacesFacts DEF Opened
<1>6. ASSUME NEW c \in Caller,
             OpeningFails(c) \/ OperationEnds(c) \/ LoggedOff(c) \/ Deadline(c)
      PROVE  GateInv'
  BY <1>6, <1>4, <1>t, SettleInv, PlacesFacts
     DEF OpeningFails, OperationEnds, LoggedOff, Deadline
<1>7. ASSUME NEW c \in Caller, Recovered(c) PROVE GateInv'
  <2>1. /\ pc[c] = "recovering" /\ pc[c] \in Holding /\ pc[c] \notin OnAir
        /\ \A d \in Others(c) : pc[d] \notin Holding
    BY <1>7, HolderIsAlone, PlacesFacts DEF Recovered
  <2>2. CASE Leave(c, "daylight") /\ UNCHANGED active_address
    BY <1>t, <2>1, <2>2, LeaveInv
  <2>3. CASE StartAttempt(c, Recovery)
    <3>1. Recovery \in 1 .. Recovery
      OBVIOUS
    <3>2. failures = RecoveryFailures
      BY <2>1 DEF GateInv, RecoveryIsEarned
    <3>3. UNCHANGED <<closed_age, failures>>
      BY <1>7 DEF Recovered, gateVars
    <3>4. QED
      BY <1>t, <2>1, <2>3, <3>1, <3>2, <3>3, StartAttemptInv
  <2>4. QED
    BY <1>7, <2>2, <2>3 DEF Recovered
<1>8. ASSUME NEW c \in Caller, RecoveryRaises(c) PROVE GateInv'
  <2>1. /\ pc[c] \in Holding /\ pc[c] \notin OnAir
        /\ \A d \in Others(c) : pc[d] \notin Holding
    BY <1>8, HolderIsAlone, PlacesFacts DEF RecoveryRaises
  <2>2. Leave(c, "transport") /\ UNCHANGED active_address
    BY <1>8 DEF RecoveryRaises, RecoveryFailed
  <2>3. QED
    BY <1>t, <2>1, <2>2, LeaveInv
<1>9. ASSUME NEW c \in Caller, Cancel(c) PROVE GateInv'
  <2>1. CASE /\ pc[c] = "waiting"
             /\ Go(c, "idle")
             /\ UNCHANGED <<attempt, wake, locked, active_address, gateVars>>
    BY <1>p, <1>t, <2>1, SamePlacesInv, PlacesFacts
  <2>2. CASE /\ pc[c] \in {"pausing", "recovering"}
             /\ Leave(c, "cancelled")
             /\ UNCHANGED active_address
    <3>1. /\ pc[c] \in Holding /\ pc[c] \notin OnAir
          /\ \A d \in Others(c) : pc[d] \notin Holding
      BY <2>2, HolderIsAlone, PlacesFacts
    <3>2. QED
      BY <1>t, <2>2, <3>1, LeaveInv
  <2>3. CASE pc[c] \in {"opening", "closing"} /\ Settle(c, "cancelled")
    BY <1>t, <2>3, SettleInv, PlacesFacts
  <2>4. CASE pc[c] = "operating" /\ StopSession(c, "cancelled")
    BY <1>4, <2>4, PlacesFacts
  <2>5. QED
    BY <1>9, <2>1, <2>2, <2>3, <2>4 DEF Cancel
<1>10. CASE Tick
  <2>1. /\ UNCHANGED <<pc, attempt, locked, active_address, failures>>
        /\ closed_age' = Older(closed_age, ReleaseDelay)
        /\ \A c \in Caller : wake'[c] = IF wake[c] > 0 THEN wake[c] - 1 ELSE 0
    BY <1>10 DEF Tick
  <2>2. closed_age \in 0 .. ReleaseDelay /\ \A c \in Caller : wake[c] \in 0 .. ReleaseDelay
    BY DEF GateInv, TypeOK
  <2>3. ReleasedBeforeOpen'
    BY <2>1, <2>2 DEF GateInv, ReleasedBeforeOpen, Older
  <2>4. PauseCoversRelease'
    BY <2>1, <2>2 DEF GateInv, PauseCoversRelease, Older
  <2>5. MutualExclusion' /\ NoLeakedLock' /\ SessionAddress' /\ RecoveryIsEarned'
    BY <2>1 DEF GateInv, MutualExclusion, NoLeakedLock, SessionAddress,
       RecoveryIsEarned
  <2>6. QED
    BY <1>t, <2>3, <2>4, <2>5 DEF GateInv
<1>11. CASE Sun \/ UNCHANGED vars
  <2>1. UNCHANGED <<pc, attempt, wake, locked, active_address, closed_age, failures>>
    BY <1>11 DEF Sun, vars, gateVars
  <2>2. QED
    BY <1>t, <2>1 DEF GateInv, MutualExclusion, NoLeakedLock, SessionAddress,
       ReleasedBeforeOpen, PauseCoversRelease, RecoveryIsEarned
<1>12. CASE Restart
  <2>1. \A c \in Caller : pc'[c] = "idle"
    BY <1>12 DEF Restart
  <2>2. locked' = FALSE /\ active_address' \notin Caller
    BY <1>12 DEF Restart
  <2>3. QED
    BY <1>t, <1>p, <2>1, <2>2, PlacesFacts DEF GateInv, MutualExclusion,
       NoLeakedLock, SessionAddress, ReleasedBeforeOpen, PauseCoversRelease,
       RecoveryIsEarned
<1>13. QED
  BY <1>1, <1>2, <1>3, <1>5, <1>6, <1>7, <1>8, <1>9, <1>10, <1>11, <1>12
     DEF Next, CallerNext

\* The invariant holds in every reachable state.
THEOREM GateInvariant == Spec => []GateInv
BY InitGateInv, NextGateInv, PTL DEF Spec

\* The radio is never used by two calls at once.
THEOREM GateMutualExclusion == Spec => []MutualExclusion
<1>1. GateInv => MutualExclusion
  BY DEF GateInv
<1>2. QED
  BY <1>1, GateInvariant, PTL

\* The lock is never left behind, and never missing, on any path.
THEOREM GateNoLeakedLock == Spec => []NoLeakedLock
<1>1. GateInv => NoLeakedLock
  BY DEF GateInv
<1>2. QED
  BY <1>1, GateInvariant, PTL

-----------------------------------------------------------------------------
(* The gate implements the lease of the radio.                             *)

Sessions == {c \in Caller : pc[c] \in OnAir}
Cycling == {c \in Caller : pc[c] = "recovering"}

\* The holder's place decides what the lease sees.
LEMMA LeaseView ==
    ASSUME NEW c \in Caller, \A d \in Others(c) : pc[d] \notin Holding
    PROVE  /\ pc[c] \in OnAir => Sessions = {c}
           /\ pc[c] \notin OnAir => Sessions = {}
           /\ pc[c] = "recovering" => Cycling = {c}
           /\ pc[c] # "recovering" => Cycling = {}
BY PlacesFacts DEF Sessions, Cycling, Others

\* And so does the place it moves to.
LEMMA LeaseViewAfter ==
    ASSUME TypeOK, NEW c \in Caller, NEW place, Go(c, place),
           \A d \in Others(c) : pc[d] \notin Holding
    PROVE  /\ place \in OnAir => Sessions' = {c}
           /\ place \notin OnAir => Sessions' = {}
           /\ place = "recovering" => Cycling' = {c}
           /\ place # "recovering" => Cycling' = {}
<1>1. /\ pc'[c] = place
      /\ \A d \in Others(c) : pc'[d] \notin Holding
  BY DEF Go, TypeOK, Others
<1>2. QED
  BY <1>1, PlacesFacts DEF Sessions, Cycling, Others

\* A caller that moves without touching the radio is not seen.
LEMMA LeaseUnseen ==
    ASSUME TypeOK, NEW c \in Caller, NEW place, Go(c, place),
           pc[c] \in OnAir <=> place \in OnAir,
           pc[c] # "recovering", place # "recovering"
    PROVE  UNCHANGED <<Sessions, Cycling>>
<1>1. \A d \in Caller : /\ pc'[d] \in OnAir <=> pc[d] \in OnAir
                        /\ pc'[d] = "recovering" <=> pc[d] = "recovering"
  BY DEF Go, TypeOK
<1>2. QED
  BY <1>1 DEF Sessions, Cycling

LEMMA LeaseInitStep == Init => Lease!LeaseInit
BY PlacesFacts DEF Init, Lease!LeaseInit

\* The seven ways a session ends are a close, or a close followed by a cycle.
LEMMA SettleLease ==
    ASSUME GateInv, NEW c \in Caller, NEW r, pc[c] \in OnAir, Settle(c, r)
    PROVE  Lease!LeaseNext
<1>1. \A d \in Others(c) : pc[d] \notin Holding
  BY HolderIsAlone, PlacesFacts
<1>2. Sessions = {c} /\ Cycling = {}
  BY <1>1, LeaseView, PlacesFacts
<1>3. closed_age' = 0 /\ UNCHANGED <<daylight, restarts>>
  BY DEF Settle
<1>4. TypeOK
  BY DEF GateInv
<1>5. CASE /\ \/ \E how : Leave(c, how)
              \/ Continue(c, attempt[c] + 1, "pausing", ReleaseDelay)
           /\ UNCHANGED recovery_age
  <2>1. Go(c, "idle") \/ Go(c, "pausing")
    BY <1>5 DEF Leave, Continue
  <2>2. Sessions' = {} /\ Cycling' = {}
    BY <1>1, <1>4, <2>1, LeaseViewAfter, PlacesFacts
  <2>3. Lease!Close(c)
    BY <1>2, <1>3, <1>5, <2>2 DEF Lease!Close, Sessions, Cycling
  <2>4. QED
    BY <2>3 DEF Lease!LeaseNext
<1>6. CASE /\ ~CoolingDown
           /\ recovery_age' = 0
           /\ Continue(c, Recovery, "recovering", 0)
  <2>1. Sessions' = {} /\ Cycling' = {c}
    BY <1>1, <1>4, <1>6, LeaseViewAfter, PlacesFacts DEF Continue
  <2>2. recovery_age = RecoveryCooldown
    BY <1>4, <1>6 DEF CoolingDown, TypeOK
  <2>3. Lease!CloseAndCycle(c)
    BY <1>2, <1>3, <1>6, <2>1, <2>2 DEF Lease!CloseAndCycle, Sessions, Cycling
  <2>4. QED
    BY <2>3 DEF Lease!LeaseNext
<1>7. QED
  BY <1>5, <1>6 DEF Settle, PassOn, Succeed, Retry, AnsweredInError,
     Unreachable, RecoveryFailed, RecoveredInError

\* An attempt that starts by day opens a session or only pauses; before it,
\* the caller held nothing or the adapter it was cycling.
LEMMA StartAttemptLease ==
    ASSUME GateInv, NEW c \in Caller, NEW n, StartAttempt(c, n), daylight,
           \A d \in Others(c) : pc[d] \notin Holding,
           pc[c] \notin OnAir,
           UNCHANGED <<gateVars, daylight, restarts>>
    PROVE  Lease!LeaseNext \/ UNCHANGED Lease!leaseVars
<1>1. TypeOK /\ UNCHANGED <<closed_age, recovery_age, daylight, restarts>>
  BY DEF GateInv, gateVars
<1>2. Sessions = {}
  BY LeaseView
<1>3. CASE closed_age < ReleaseDelay
  <2>1. Go(c, "pausing")
    BY <1>3 DEF StartAttempt, Continue
  <2>2. Sessions' = {} /\ Cycling' = {}
    BY <1>1, <2>1, LeaseViewAfter, PlacesFacts
  <2>3. CASE pc[c] = "recovering"
    <3>1. Cycling = {c}
      BY <2>3, LeaseView
    <3>2. Lease!EndCycle(c)
      BY <1>1, <1>2, <2>2, <3>1 DEF Lease!EndCycle, Sessions, Cycling
    <3>3. QED
      BY <3>2 DEF Lease!LeaseNext
  <2>4. CASE pc[c] # "recovering"
    <3>1. Cycling = {}
      BY <2>4, LeaseView
    <3>2. QED
      BY <1>1, <1>2, <2>2, <3>1 DEF Lease!leaseVars, Sessions, Cycling
  <2>5. QED
    BY <2>3, <2>4
<1>4. CASE ~(closed_age < ReleaseDelay)
  <2>1. Go(c, "opening") /\ closed_age = ReleaseDelay
    BY <1>1, <1>4 DEF StartAttempt, Continue, TypeOK
  <2>2. Sessions' = {c} /\ Cycling' = {}
    BY <1>1, <2>1, LeaseViewAfter, PlacesFacts
  <2>3. CASE pc[c] = "recovering"
    <3>1. Cycling = {c}
      BY <2>3, LeaseView
    <3>2. Lease!EndCycleAndOpen(c)
      BY <1>1, <1>2, <2>1, <2>2, <3>1 DEF Lease!EndCycleAndOpen, Sessions, Cycling
    <3>3. QED
      BY <3>2 DEF Lease!LeaseNext
  <2>4. CASE pc[c] # "recovering"
    <3>1. Cycling = {}
      BY <2>4, LeaseView
    <3>2. Lease!Open(c)
      BY <1>1, <1>2, <2>1, <2>2, <3>1
         DEF Lease!Open, Lease!Unused, Sessions, Cycling
    <3>3. QED
      BY <3>2 DEF Lease!LeaseNext
  <2>5. QED
    BY <2>3, <2>4
<1>5. QED
  BY <1>3, <1>4

\* A caller that gives up during a power cycle ends it, and one that gives up
\* anywhere else off the air is not seen.
LEMMA GiveUpLease ==
    ASSUME GateInv, NEW c \in Caller, NEW how, Leave(c, how),
           \A d \in Others(c) : pc[d] \notin Holding,
           pc[c] \notin OnAir,
           UNCHANGED <<closed_age, recovery_age, daylight, restarts>>
    PROVE  Lease!LeaseNext \/ UNCHANGED Lease!leaseVars
<1>1. Go(c, "idle") /\ TypeOK
  BY DEF Leave, GateInv
<1>2. Sessions = {} /\ Sessions' = {} /\ Cycling' = {}
  BY <1>1, LeaseView, LeaseViewAfter, PlacesFacts
<1>3. CASE pc[c] = "recovering"
  <2>1. Cycling = {c}
    BY <1>3, LeaseView
  <2>2. Lease!EndCycle(c)
    BY <1>2, <2>1 DEF Lease!EndCycle, Sessions, Cycling
  <2>3. QED
    BY <2>2 DEF Lease!LeaseNext
<1>4. CASE pc[c] # "recovering"
  <2>1. Cycling = {}
    BY <1>4, LeaseView
  <2>2. QED
    BY <1>2, <2>1 DEF Lease!leaseVars, Sessions, Cycling
<1>5. QED
  BY <1>3, <1>4

\* Every step of the gate is a step of the lease, or none.
LEMMA LeaseStep ==
    GateInv /\ [Next]_vars => Lease!LeaseNext \/ UNCHANGED Lease!leaseVars
<1> SUFFICES ASSUME GateInv, [Next]_vars
             PROVE  Lease!LeaseNext \/ UNCHANGED Lease!leaseVars
  OBVIOUS
<1>t. TypeOK
  BY DEF GateInv
<1>p. /\ "idle" \notin OnAir /\ "waiting" \notin OnAir
      /\ "closing" # "recovering" /\ "operating" # "recovering"
  BY DEF OnAir
<1>u. ASSUME UNCHANGED <<Sessions, Cycling, closed_age, recovery_age, daylight,
                         restarts>>
      PROVE  UNCHANGED Lease!leaseVars
  BY <1>u DEF Lease!leaseVars, Sessions, Cycling
<1>1. ASSUME NEW c \in Caller, Call(c)
      PROVE  Lease!LeaseNext \/ UNCHANGED Lease!leaseVars
  <2>1. CASE Go(c, "waiting")
    BY <1>1, <1>p, <1>t, <1>u, <2>1, LeaseUnseen DEF Call, gateVars
  <2>2. CASE UNCHANGED pc
    BY <1>1, <1>u, <2>2 DEF Call, gateVars, Sessions, Cycling
  <2>3. QED
    BY <1>1, <2>1, <2>2 DEF Call
<1>2. ASSUME NEW c \in Caller, Acquire(c)
      PROVE  Lease!LeaseNext \/ UNCHANGED Lease!leaseVars
  <2>1. /\ \A d \in Others(c) : pc[d] \notin Holding
        /\ pc[c] \notin OnAir
        /\ UNCHANGED <<gateVars, closed_age, recovery_age, daylight, restarts>>
    BY <1>2, <1>p DEF Acquire, GateInv, NoLeakedLock, Others, gateVars
  <2>2. CASE Leave(c, "daylight")
    BY <2>1, <2>2, GiveUpLease
  <2>3. CASE daylight /\ StartAttempt(c, 1)
    BY <2>1, <2>3, StartAttemptLease
  <2>4. QED
    BY <1>2, <2>2, <2>3 DEF Acquire
<1>3. ASSUME NEW c \in Caller, Wake(c)
      PROVE  Lease!LeaseNext \/ UNCHANGED Lease!leaseVars
  <2>1. /\ pc[c] = "pausing" /\ pc[c] \in Holding /\ pc[c] \notin OnAir
        /\ \A d \in Others(c) : pc[d] \notin Holding
        /\ UNCHANGED <<closed_age, recovery_age, daylight, restarts>>
    BY <1>3, HolderIsAlone, PlacesFacts DEF Wake, gateVars
  <2>2. CASE Leave(c, "daylight")
    BY <2>1, <2>2, GiveUpLease
  <2>3. CASE daylight /\ Continue(c, attempt[c], "opening", 0)
    <3>1. closed_age = ReleaseDelay
      <4>1. closed_age + wake[c] >= ReleaseDelay /\ wake[c] = 0
        BY <1>3, <2>1 DEF Wake, GateInv, PauseCoversRelease
      <4>2. closed_age \in 0 .. ReleaseDelay
        BY <1>t DEF TypeOK
      <4>3. QED
        BY <4>1, <4>2
    <3>2. Sessions = {} /\ Cycling = {}
      BY <2>1, LeaseView
    <3>3. Sessions' = {c} /\ Cycling' = {}
      BY <1>t, <2>1, <2>3, LeaseViewAfter, PlacesFacts DEF Continue
    <3>4. Lease!Open(c)
      BY <2>1, <2>3, <3>1, <3>2, <3>3
         DEF Lease!Open, Lease!Unused, Sessions, Cycling
    <3>5. QED
      BY <3>4 DEF Lease!LeaseNext
  <2>4. QED
    BY <1>3, <2>2, <2>3 DEF Wake
<1>4. ASSUME NEW c \in Caller, NEW r, pc[c] = "operating", StopSession(c, r)
      PROVE  UNCHANGED Lease!leaseVars
  BY <1>4, <1>p, <1>t, <1>u, LeaseUnseen, PlacesFacts DEF StopSession, gateVars
<1>5. ASSUME NEW c \in Caller, Opened(c)
      PROVE  UNCHANGED Lease!leaseVars
  <2>1. Go(c, "operating") /\ pc[c] \in OnAir /\ pc[c] # "recovering"
    BY <1>5, PlacesFacts DEF Opened
  <2>2. QED
    BY <1>5, <1>p, <1>t, <1>u, <2>1, LeaseUnseen, PlacesFacts DEF Opened, gateVars
<1>6. ASSUME NEW c \in Caller,
             OpeningFails(c) \/ OperationEnds(c) \/ LoggedOff(c) \/ Deadline(c)
      PROVE  Lease!LeaseNext \/ UNCHANGED Lease!leaseVars
  BY <1>6, <1>4, SettleLease, PlacesFacts
     DEF OpeningFails, OperationEnds, LoggedOff, Deadline
<1>7. ASSUME NEW c \in Caller, Recovered(c) \/ RecoveryRaises(c)
      PROVE  Lease!LeaseNext \/ UNCHANGED Lease!leaseVars
  <2>1. /\ pc[c] \in Holding /\ pc[c] \notin OnAir
        /\ \A d \in Others(c) : pc[d] \notin Holding
    BY <1>7, HolderIsAlone, PlacesFacts DEF Recovered, RecoveryRaises
  <2>2. CASE Recovered(c) /\ Leave(c, "daylight")
    BY <2>1, <2>2, GiveUpLease DEF Recovered, gateVars
  <2>3. CASE Recovered(c) /\ daylight /\ StartAttempt(c, Recovery)
    <3>1. UNCHANGED <<gateVars, daylight, restarts>>
      BY <2>3 DEF Recovered
    <3>2. QED
      BY <2>1, <2>3, <3>1, StartAttemptLease
  <2>4. CASE RecoveryRaises(c)
    <3>1. /\ Leave(c, "transport")
          /\ UNCHANGED <<closed_age, recovery_age, daylight, restarts>>
      BY <2>4 DEF RecoveryRaises, RecoveryFailed
    <3>2. QED
      BY <2>1, <3>1, GiveUpLease
  <2>5. QED
    BY <1>7, <2>2, <2>3, <2>4 DEF Recovered
<1>8. ASSUME NEW c \in Caller, Cancel(c)
      PROVE  Lease!LeaseNext \/ UNCHANGED Lease!leaseVars
  <2>1. CASE /\ pc[c] = "waiting" /\ Go(c, "idle")
             /\ UNCHANGED <<gateVars, daylight, restarts>>
    BY <1>p, <1>t, <1>u, <2>1, LeaseUnseen DEF gateVars
  <2>2. CASE /\ pc[c] \in {"pausing", "recovering"}
             /\ Leave(c, "cancelled")
             /\ UNCHANGED <<gateVars, daylight, restarts>>
    <3>1. /\ pc[c] \notin OnAir
          /\ \A d \in Others(c) : pc[d] \notin Holding
      BY <2>2, HolderIsAlone, PlacesFacts
    <3>2. QED
      BY <2>2, <3>1, GiveUpLease DEF gateVars
  <2>3. CASE pc[c] \in {"opening", "closing"} /\ Settle(c, "cancelled")
    BY <2>3, SettleLease, PlacesFacts
  <2>4. CASE pc[c] = "operating" /\ StopSession(c, "cancelled")
    BY <2>4, <1>4
  <2>5. QED
    BY <1>8, <2>1, <2>2, <2>3, <2>4 DEF Cancel
<1>9. CASE Tick
  BY <1>9 DEF Tick, Older, Lease!LeaseNext, Lease!LeaseTick
<1>10. CASE Sun
  BY <1>10 DEF Sun, gateVars, Lease!LeaseNext, Lease!SunTurns
<1>11. CASE Restart
  <2>1. Sessions' = {} /\ Cycling' = {}
    BY <1>11, <1>p DEF Restart, Sessions, Cycling
  <2>2. Lease!Forget
    BY <1>11, <2>1 DEF Restart, Lease!Forget, Sessions, Cycling
  <2>3. QED
    BY <2>2 DEF Lease!LeaseNext
<1>12. CASE UNCHANGED vars
  BY <1>12, <1>u DEF vars, gateVars, Sessions, Cycling
<1>13. QED
  BY <1>1, <1>2, <1>3, <1>5, <1>6, <1>7, <1>8, <1>9, <1>10, <1>11, <1>12
     DEF Next, CallerNext

\* The gate implements the lease of the radio: exclusive use, daylight, release
\* delay and power-cycle cooldown hold in every instance.
THEOREM GateImplementsLease == Spec => ImplementsLease
<1>1. Init => Lease!LeaseInit
  BY LeaseInitStep
<1>2. GateInv /\ [Next]_vars => [Lease!LeaseNext]_Lease!leaseVars
  BY LeaseStep
<1>3. QED
  BY <1>1, <1>2, GateInvariant, PTL DEF Spec, ImplementsLease, Lease!LeaseSpec

-----------------------------------------------------------------------------
(* The Repairs issue.                                                      *)

\* What a step may do to the issue and to the flag that remembers it.
LEMMA IssueStep ==
    TypeOK /\ IssueKnown /\ [Next]_vars => IssueKnown'
<1> SUFFICES ASSUME TypeOK, IssueKnown, [Next]_vars PROVE IssueKnown'
  OBVIOUS
<1>1. ASSUME UNCHANGED <<recovery_issue_open, issue, restarts>>
      PROVE  IssueKnown'
  BY <1>1 DEF IssueKnown
<1>2. ASSUME NEW c \in Caller, NEW r, Settle(c, r) PROVE IssueKnown'
  <2>1. KeepIssue \/ RaiseRecoveryIssue \/ ClearRecoveryFailure
    BY <1>2 DEF Settle, PassOn, Succeed, Retry, AnsweredInError, Unreachable,
       RecoveryFailed, RecoveredInError
  <2>2. UNCHANGED restarts
    BY <1>2 DEF Settle
  <2>3. CASE KeepIssue
    BY <1>1, <2>2, <2>3 DEF KeepIssue
  <2>4. CASE RaiseRecoveryIssue
    BY <2>4 DEF RaiseRecoveryIssue, IssueKnown
  <2>5. CASE ClearRecoveryFailure
    <3>1. recovery_issue_open' = FALSE
      BY <2>5 DEF ClearRecoveryFailure
    <3>2. restarts = 0 => ~issue'
      <4>1. issue' => issue /\ ~recovery_issue_open
        BY <2>5, Zenon DEF ClearRecoveryFailure
      <4>2. QED
        BY <4>1 DEF IssueKnown
    <3>3. QED
      BY <2>2, <3>1, <3>2 DEF IssueKnown
  <2>6. QED
    BY <2>1, <2>3, <2>4, <2>5
<1>3. ASSUME NEW c \in Caller, CallerNext(c) PROVE IssueKnown'
  <2>1. CASE Call(c) \/ Acquire(c) \/ Wake(c) \/ Opened(c) \/ Recovered(c)
    BY <1>1, <2>1 DEF Call, Acquire, Wake, Opened, Recovered, gateVars
  <2>2. ASSUME NEW r, StopSession(c, r) PROVE IssueKnown'
    BY <1>1, <2>2 DEF StopSession, gateVars
  <2>3. CASE OpeningFails(c) \/ OperationEnds(c) \/ LoggedOff(c) \/ Deadline(c)
    BY <1>2, <2>2, <2>3 DEF OpeningFails, OperationEnds, LoggedOff, Deadline
  <2>4. CASE RecoveryRaises(c)
    BY <2>4
       DEF RecoveryRaises, RecoveryFailed, RaiseRecoveryIssue, IssueKnown, TypeOK
  <2>5. CASE Cancel(c)
    <3>1. CASE UNCHANGED <<gateVars, restarts>>
      BY <1>1, <3>1 DEF gateVars
    <3>2. CASE \E r : StopSession(c, r) \/ Settle(c, r)
      BY <1>2, <2>2, <3>2
    <3>3. QED
      BY <2>5, <3>1, <3>2 DEF Cancel
  <2>6. QED
    BY <1>3, <2>1, <2>3, <2>4, <2>5 DEF CallerNext
<1>4. CASE Restart
  <2>1. restarts' # 0 /\ recovery_issue_open' = FALSE
    BY <1>4 DEF Restart, TypeOK
  <2>2. QED
    BY <2>1 DEF IssueKnown
<1>5. CASE Tick \/ Sun \/ UNCHANGED vars
  BY <1>1, <1>5 DEF Tick, Sun, vars, gateVars
<1>6. QED
  BY <1>3, <1>4, <1>5 DEF Next

\* The flag in memory and the issue registry agree until a restart, and the
\* flag is never ahead of the registry.
THEOREM GateIssueKnown == Spec => []IssueKnown
<1>1. Init => IssueKnown
  BY DEF Init, IssueKnown
<1>2. QED
  BY <1>1, IssueStep, GateTypeCorrect, PTL DEF Spec

\* A call that ends with a transport failure at the threshold has raised the
\* issue in the same step, whichever action it ends in.
LEMMA ReportStep ==
    ASSUME TypeOK, [Next]_vars, NEW c \in Caller, Finishes(c),
           outcome' = "transport", failures' = RecoveryFailures
    PROVE  issue'
<1>1. ASSUME NEW d \in Caller, NEW place, Go(d, place) PROVE d = c /\ place = "idle"
  BY <1>1 DEF Go, Finishes, TypeOK
<1>2. ASSUME NEW d \in Caller, NEW how, Leave(d, how) PROVE how = "transport"
  BY <1>2 DEF Leave
<1>3. ASSUME NEW d \in Caller, NEW r, Settle(d, r) PROVE issue'
  <2>1. CASE PassOn(d, r)
    BY <1>2, <2>1 DEF PassOn
  <2>2. CASE Succeed(d, r) \/ AnsweredInError(d, r) \/ RecoveredInError(d, r)
    BY <1>2, <2>2 DEF Succeed, AnsweredInError, RecoveredInError
  <2>3. CASE Retry(d, r)
    BY <1>1, <2>3 DEF Retry, Continue
  <2>4. CASE Unreachable(d, r)
    <3>1. ~(OneMoreFailure < RecoveryFailures)
      BY <2>4 DEF Unreachable
    <3>2. ~Continue(d, Recovery, "recovering", 0)
      BY <1>1 DEF Continue
    <3>3. RaiseRecoveryIssue
      BY <2>4, <3>1, <3>2 DEF Unreachable
    <3>4. QED
      BY <3>3 DEF RaiseRecoveryIssue
  <2>5. CASE RecoveryFailed(d, r)
    BY <2>5 DEF RecoveryFailed, RaiseRecoveryIssue
  <2>6. QED
    BY <1>3, <2>1, <2>2, <2>3, <2>4, <2>5 DEF Settle
<1>4. ASSUME NEW d \in Caller, NEW r, StopSession(d, r) PROVE FALSE
  BY <1>1, <1>4 DEF StopSession
<1>5. ASSUME NEW d \in Caller, NEW n, StartAttempt(d, n) PROVE FALSE
  BY <1>1, <1>5 DEF StartAttempt, Continue
<1>6. ASSUME NEW d \in Caller, CallerNext(d) PROVE issue'
  <2>1. CASE Call(d)
    BY <1>1, <2>1 DEF Call, Finishes
  <2>2. CASE Acquire(d) \/ Recovered(d)
    BY <1>2, <1>5, <2>2 DEF Acquire, Recovered
  <2>3. CASE Wake(d)
    BY <1>1, <1>2, <2>3 DEF Wake, Continue
  <2>4. CASE Opened(d)
    BY <1>1, <2>4 DEF Opened
  <2>5. CASE OpeningFails(d) \/ OperationEnds(d) \/ LoggedOff(d) \/ Deadline(d)
    BY <1>3, <1>4, <2>5 DEF OpeningFails, OperationEnds, LoggedOff, Deadline
  <2>6. CASE RecoveryRaises(d)
    BY <2>6 DEF RecoveryRaises, RecoveryFailed, RaiseRecoveryIssue
  <2>7. CASE Cancel(d)
    BY <1>2, <1>3, <1>4, <2>7 DEF Cancel
  <2>8. QED
    BY <1>6, <2>1, <2>2, <2>3, <2>4, <2>5, <2>6, <2>7 DEF CallerNext
<1>7. CASE Restart
  BY <1>7 DEF Restart
<1>8. CASE Tick \/ Sun \/ UNCHANGED vars
  BY <1>8 DEF Tick, Sun, vars, Finishes
<1>9. QED
  BY <1>6, <1>7, <1>8 DEF Next

\* Past the threshold, no transport failure is reported to a caller only.
THEOREM GatePersistentFailureReported == Spec => PersistentFailureReported
<1>1. TypeOK /\ [Next]_vars =>
         [\A c \in Caller :
            Finishes(c) /\ outcome' = "transport" /\ failures' = RecoveryFailures
                => issue']_vars
  BY ReportStep
<1>2. QED
  BY <1>1, GateTypeCorrect, PTL DEF Spec, PersistentFailureReported
=============================================================================
