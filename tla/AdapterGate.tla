----------------------------- MODULE AdapterGate -----------------------------
(***************************************************************************)
(* SMAAdapterGate (gateway.py): the one gate through which polls, archive  *)
(* reads, clock checks and configuration probes of every config entry      *)
(* share Home Assistant's Bluetooth Classic adapter.                       *)
(*                                                                         *)
(* A caller is one task inside async_run. Between two awaits the code is   *)
(* atomic, so an action runs from one await to the next. A caller is       *)
(*                                                                         *)
(*   idle        not inside async_run                                      *)
(*   waiting     queued on the asyncio.Lock                                *)
(*   pausing     asleep in _async_release_pause                            *)
(*   opening     connecting, initialising and authenticating the client    *)
(*   operating   inside operation(client)                                  *)
(*   closing     inside async_stop_session, the client still connected     *)
(*   recovering  inside _async_recover_adapter                             *)
(*                                                                         *)
(* Timestamps are kept as ages that stop at the only value they are        *)
(* compared with; a timestamp that is None takes the branch of an old one. *)
(***************************************************************************)
EXTENDS Naturals, Sequences, SequencesExt

CONSTANTS
    Caller,             \* tasks that may call async_run
    Attempts,           \* RFCOMM_SESSION_ATTEMPTS
    RecoveryFailures,   \* RFCOMM_RECOVERY_FAILURES
    ReleaseDelay,       \* RFCOMM_RELEASE_DELAY, in ticks
    RecoveryCooldown,   \* RFCOMM_RECOVERY_COOLDOWN, in ticks
    MaxRestarts,        \* bound: restarts of the Home Assistant process
    NoAddress           \* self.active_address is None

ASSUME GateConstants ==
    /\ Attempts \in Nat \ {0}
    /\ RecoveryFailures \in Nat \ {0}
    /\ ReleaseDelay \in Nat \ {0}
    /\ RecoveryCooldown \in Nat \ {0}
    /\ MaxRestarts \in Nat
    /\ NoAddress \notin Caller

VARIABLES
    pc,                 \* where each caller is
    attempt,            \* its loop counter; Attempts + 1 is the recovery retry
    wake,               \* ticks left of its release pause
    result,             \* what its session will report once it is closed
    locked,             \* self.lock._locked
    waiters,            \* self.lock._waiters, in FIFO order
    closed_age,         \* time since self.last_connection_closed
    recovery_age,       \* time since self.last_recovery_attempt
    failures,           \* self.consecutive_transport_failures
    active_address,     \* self.active_address: the caller that set it
    recovery_issue_open,\* self.recovery_issue_open
    issue,              \* bluetooth_recovery_failed is in the issue registry
    outcome,            \* how the latest finished call ended
    daylight,           \* daylight_schedule(hass).active
    restarts

gateVars == <<closed_age, recovery_age, failures, recovery_issue_open, issue>>
vars == <<pc, attempt, wake, result, locked, waiters, active_address,
          gateVars, outcome, daylight, restarts>>

\* What a session, or a call, can end with. "config" stands for
\* SMAConfigurationError and SMANetworkModeError, "protocol" for any other
\* SMAProtocolError the inverter answered with, "other" for an exception
\* outside the library's hierarchy.
Answers == {"ok", "auth", "config", "protocol"}
Results == Answers \cup {"transport", "other", "cancelled"}
Outcomes == Results \cup {"none", "daylight"}

OnAir == {"opening", "operating", "closing"}
Holding == OnAir \cup {"pausing", "recovering"}
Places == Holding \cup {"idle", "waiting"}

Recovery == Attempts + 1

Init ==
    /\ pc = [c \in Caller |-> "idle"]
    /\ attempt = [c \in Caller |-> 0]
    /\ wake = [c \in Caller |-> 0]
    /\ result = [c \in Caller |-> "none"]
    /\ locked = FALSE
    /\ waiters = <<>>
    /\ closed_age = ReleaseDelay
    /\ recovery_age = RecoveryCooldown
    /\ failures = 0
    /\ active_address = NoAddress
    /\ recovery_issue_open = FALSE
    /\ issue = FALSE
    /\ outcome = "none"
    /\ daylight \in BOOLEAN
    /\ restarts = 0

-----------------------------------------------------------------------------
(* What the handlers below are made of.                                    *)

Go(c, place) == pc' = [pc EXCEPT ![c] = place]

\* async_run returns or raises: the lock is released.
Leave(c, how) ==
    /\ Go(c, "idle")
    /\ attempt' = [attempt EXCEPT ![c] = 0]
    /\ wake' = [wake EXCEPT ![c] = 0]
    /\ result' = [result EXCEPT ![c] = "none"]
    /\ locked' = FALSE
    /\ outcome' = how

\* The lock holder goes on with attempt n at the given place.
Continue(c, n, place, pause) ==
    /\ Go(c, place)
    /\ attempt' = [attempt EXCEPT ![c] = n]
    /\ wake' = [wake EXCEPT ![c] = pause]
    /\ result' = [result EXCEPT ![c] = "none"]
    /\ locked' = TRUE
    /\ UNCHANGED outcome

\* Mutant: the elapsed time is added to the delay instead of subtracted.
StartAttemptSignError(c, n) ==
    IF closed_age < ReleaseDelay
    THEN /\ Continue(c, n, "pausing", ReleaseDelay + closed_age)
         /\ UNCHANGED active_address
    ELSE /\ Continue(c, n, "opening", 0)
         /\ active_address' = c

\* Mutant: an elapsed time of one tick is taken for a whole release delay.
StartAttemptShortPause(c, n) ==
    IF closed_age < 1
    THEN /\ Continue(c, n, "pausing", ReleaseDelay - closed_age)
         /\ UNCHANGED active_address
    ELSE /\ Continue(c, n, "opening", 0)
         /\ active_address' = c

\* _async_release_pause as an attempt starts: sleep for the rest of the
\* delay, or open the session at once.
StartAttempt(c, n) ==
    IF closed_age < ReleaseDelay
    THEN /\ Continue(c, n, "pausing", ReleaseDelay - closed_age)
         /\ UNCHANGED active_address
    ELSE /\ Continue(c, n, "opening", 0)
         /\ active_address' = c

\* Mutant: the flag is reset although the issue was not looked at.
ClearRecoveryFailureFlagOnly ==
    /\ failures' = 0
    /\ recovery_issue_open' = FALSE
    /\ UNCHANGED issue

ClearRecoveryFailure ==
    /\ failures' = 0
    /\ recovery_issue_open' = FALSE
    /\ issue' = (issue /\ ~recovery_issue_open)

RaiseRecoveryIssue ==
    /\ issue' = TRUE
    /\ recovery_issue_open' = TRUE

KeepIssue == UNCHANGED <<recovery_issue_open, issue>>

\* failures only matters below the threshold, where it stops.
OneMoreFailure == IF failures < RecoveryFailures THEN failures + 1 ELSE failures

CoolingDown == recovery_age < RecoveryCooldown

-----------------------------------------------------------------------------
(* What async_run does with the end of a session: r is what              *)
(* _async_execute_once returned or raised for the attempt of caller c.     *)

\* Authentication and configuration errors and cancellation are raised at
\* once, as is an unexpected exception outside the recovery retry.
PassOn(c, r) ==
    /\ \/ r \in {"auth", "config", "cancelled"}
       \/ r = "other" /\ attempt[c] <= Attempts
    /\ Leave(c, r)
    /\ UNCHANGED <<failures, recovery_age>> /\ KeepIssue

Succeed(c, r) ==
    /\ r = "ok"
    /\ ClearRecoveryFailure
    /\ Leave(c, r)
    /\ UNCHANGED recovery_age

Retry(c, r) ==
    /\ r \in {"protocol", "transport"}
    /\ attempt[c] < Attempts
    /\ Continue(c, attempt[c] + 1, "pausing", ReleaseDelay)
    /\ UNCHANGED <<failures, recovery_age>> /\ KeepIssue

\* The inverter answered the last attempt, with an error.
AnsweredInError(c, r) ==
    /\ r = "protocol"
    /\ attempt[c] = Attempts
    /\ failures' = 0
    /\ Leave(c, r)
    /\ UNCHANGED recovery_age /\ KeepIssue

\* Mutant: a recovery refused for the cooldown raises no issue.
UnreachableSilent(c, r) ==
    /\ r = "transport"
    /\ attempt[c] = Attempts
    /\ failures' = OneMoreFailure
    /\ \/ /\ OneMoreFailure < RecoveryFailures \/ CoolingDown
          /\ Leave(c, r)
          /\ UNCHANGED recovery_age /\ KeepIssue
       \/ /\ OneMoreFailure >= RecoveryFailures
          /\ ~CoolingDown
          /\ recovery_age' = 0
          /\ Continue(c, Recovery, "recovering", 0)
          /\ KeepIssue

Unreachable(c, r) ==
    /\ r = "transport"
    /\ attempt[c] = Attempts
    /\ failures' = OneMoreFailure
    /\ \/ /\ OneMoreFailure < RecoveryFailures
          /\ Leave(c, r)
          /\ UNCHANGED recovery_age /\ KeepIssue
       \/ /\ OneMoreFailure >= RecoveryFailures
          /\ CoolingDown
          /\ RaiseRecoveryIssue
          /\ Leave(c, r)
          /\ UNCHANGED recovery_age
       \/ /\ OneMoreFailure >= RecoveryFailures
          /\ ~CoolingDown
          /\ recovery_age' = 0
          /\ Continue(c, Recovery, "recovering", 0)
          /\ KeepIssue

RecoveryFailed(c, r) ==
    /\ r \in {"transport", "other"}
    /\ attempt[c] = Recovery
    /\ RaiseRecoveryIssue
    /\ Leave(c, "transport")
    /\ UNCHANGED <<failures, recovery_age>>

RecoveredInError(c, r) ==
    /\ r = "protocol"
    /\ attempt[c] = Recovery
    /\ ClearRecoveryFailure
    /\ Leave(c, r)
    /\ UNCHANGED recovery_age

\* Mutant: a cancelled session does not record when it closed.
SettleUnlessCancelled(c, r) ==
    /\ active_address' = NoAddress
    /\ closed_age' = IF r = "cancelled" THEN closed_age ELSE 0
    /\ \/ PassOn(c, r) \/ Succeed(c, r) \/ Retry(c, r)
       \/ AnsweredInError(c, r) \/ Unreachable(c, r)
       \/ RecoveryFailed(c, r) \/ RecoveredInError(c, r)
    /\ UNCHANGED <<waiters, daylight, restarts>>

\* _async_run_once leaves its finally block and async_run decides, with no
\* await in between.
Settle(c, r) ==
    /\ active_address' = NoAddress
    /\ closed_age' = 0
    /\ \/ PassOn(c, r) \/ Succeed(c, r) \/ Retry(c, r)
       \/ AnsweredInError(c, r) \/ Unreachable(c, r)
       \/ RecoveryFailed(c, r) \/ RecoveredInError(c, r)
    /\ UNCHANGED <<waiters, daylight, restarts>>

-----------------------------------------------------------------------------
(* The actions of a caller.                                                *)

\* async_run is entered: refused at night, queued on the lock by day.
Call(c) ==
    /\ pc[c] = "idle"
    /\ IF daylight
       THEN /\ Go(c, "waiting")
            /\ waiters' = Append(waiters, c)
            /\ UNCHANGED outcome
       ELSE /\ outcome' = "daylight"
            /\ UNCHANGED <<pc, waiters>>
    /\ UNCHANGED <<attempt, wake, result, locked, active_address, gateVars,
                   daylight, restarts>>

\* The lock is free and c is first in line; the sun may have set meanwhile.
Acquire(c) ==
    /\ pc[c] = "waiting"
    /\ ~locked
    /\ waiters # <<>> /\ c = Head(waiters)
    /\ waiters' = Tail(waiters)
    /\ \/ ~daylight /\ Leave(c, "daylight") /\ UNCHANGED active_address
       \/ daylight /\ StartAttempt(c, 1)
    /\ UNCHANGED <<gateVars, daylight, restarts>>

\* Mutant: a call refused after its pause forgets the lock.
WakeKeepsLock(c) ==
    /\ pc[c] = "pausing"
    /\ wake[c] = 0
    /\ \/ /\ ~daylight
          /\ Go(c, "idle")
          /\ outcome' = "daylight"
          /\ UNCHANGED <<attempt, wake, result, locked, active_address>>
       \/ /\ daylight
          /\ Continue(c, attempt[c], "opening", 0)
          /\ active_address' = c
    /\ UNCHANGED <<waiters, gateVars, daylight, restarts>>

\* The release pause is over; the sun may have set during the sleep.
Wake(c) ==
    /\ pc[c] = "pausing"
    /\ wake[c] = 0
    /\ \/ /\ ~daylight
          /\ Leave(c, "daylight")
          /\ UNCHANGED active_address
       \/ /\ daylight
          /\ Continue(c, attempt[c], "opening", 0)
          /\ active_address' = c
    /\ UNCHANGED <<waiters, gateVars, daylight, restarts>>

\* __aenter__ and async_start_session are through.
Opened(c) ==
    /\ pc[c] = "opening"
    /\ Go(c, "operating")
    /\ UNCHANGED <<attempt, wake, result, locked, waiters, active_address,
                   gateVars, outcome, daylight, restarts>>

\* Connecting or starting the session fails: no logical session to log off
\* from, the socket is closed and the attempt is over.
OpeningFails(c) ==
    /\ pc[c] = "opening"
    /\ \E r \in Results \ {"ok", "cancelled"} : Settle(c, r)

\* The inner finally block: async_stop_session starts, r is kept for later.
StopSession(c, r) ==
    /\ Go(c, "closing")
    /\ result' = [result EXCEPT ![c] = r]
    /\ UNCHANGED <<attempt, wake, locked, waiters, active_address, gateVars,
                   outcome, daylight, restarts>>

\* operation(client) returns or raises.
OperationEnds(c) ==
    /\ pc[c] = "operating"
    /\ \E r \in Results \ {"cancelled"} : StopSession(c, r)

\* The logoff is sent, or fails with an error that is only logged.
LoggedOff(c) ==
    /\ pc[c] = "closing"
    /\ Settle(c, result[c])

\* asyncio.timeout expires. It cuts a logoff short as well, and what the
\* operation returned is lost; a task cancelled before stays cancelled.
Deadline(c) ==
    \/ pc[c] = "opening" /\ Settle(c, "transport")
    \/ pc[c] = "operating" /\ StopSession(c, "transport")
    \/ /\ pc[c] = "closing"
       /\ Settle(c, IF result[c] = "cancelled" THEN "cancelled" ELSE "transport")

\* _async_recover_adapter returns True or False: both retry once.
Recovered(c) ==
    /\ pc[c] = "recovering"
    /\ \/ ~daylight /\ Leave(c, "daylight") /\ UNCHANGED active_address
       \/ daylight /\ StartAttempt(c, Recovery)
    /\ UNCHANGED <<waiters, gateVars, daylight, restarts>>

\* _async_recover_adapter raises.
RecoveryRaises(c) ==
    /\ pc[c] = "recovering"
    /\ RecoveryFailed(c, "other")
    /\ UNCHANGED <<waiters, active_address, closed_age, daylight, restarts>>

\* Mutant: a caller cancelled in the queue releases a lock it never had.
CancelReleases(c) ==
    \/ /\ pc[c] = "waiting"
       /\ \E i \in DOMAIN waiters :
             waiters[i] = c /\ waiters' = RemoveAt(waiters, i)
       /\ Leave(c, "cancelled")
       /\ UNCHANGED <<active_address, gateVars, daylight, restarts>>
    \/ /\ pc[c] \in {"pausing", "recovering"}
       /\ Leave(c, "cancelled")
       /\ UNCHANGED <<waiters, active_address, gateVars, daylight, restarts>>
    \/ pc[c] \in {"opening", "closing"} /\ Settle(c, "cancelled")
    \/ pc[c] = "operating" /\ StopSession(c, "cancelled")

\* The calling task is cancelled, at whatever await it is in.
Cancel(c) ==
    \/ /\ pc[c] = "waiting"
       /\ \E i \in DOMAIN waiters :
             waiters[i] = c /\ waiters' = RemoveAt(waiters, i)
       /\ Go(c, "idle")
       /\ outcome' = "cancelled"
       /\ UNCHANGED <<attempt, wake, result, locked, active_address, gateVars,
                      daylight, restarts>>
    \/ /\ pc[c] \in {"pausing", "recovering"}
       /\ Leave(c, "cancelled")
       /\ UNCHANGED <<waiters, active_address, gateVars, daylight, restarts>>
    \/ pc[c] \in {"opening", "closing"} /\ Settle(c, "cancelled")
    \/ pc[c] = "operating" /\ StopSession(c, "cancelled")

-----------------------------------------------------------------------------
(* The surroundings.                                                       *)

Older(age, limit) == IF age < limit THEN age + 1 ELSE age

Tick ==
    /\ closed_age' = Older(closed_age, ReleaseDelay)
    /\ recovery_age' = Older(recovery_age, RecoveryCooldown)
    /\ wake' = [c \in Caller |-> IF wake[c] > 0 THEN wake[c] - 1 ELSE 0]
    /\ UNCHANGED <<pc, attempt, result, locked, waiters, active_address,
                   failures, recovery_issue_open, issue, outcome, daylight,
                   restarts>>

Sun ==
    /\ daylight' = ~daylight
    /\ UNCHANGED <<pc, attempt, wake, result, locked, waiters, active_address,
                   gateVars, outcome, restarts>>

\* Home Assistant restarts: the gate object is new, the operating system has
\* closed the sockets, and the issue registry still holds the persistent issue.
Restart ==
    /\ restarts < MaxRestarts
    /\ restarts' = restarts + 1
    /\ pc' = [c \in Caller |-> "idle"]
    /\ attempt' = [c \in Caller |-> 0]
    /\ wake' = [c \in Caller |-> 0]
    /\ result' = [c \in Caller |-> "none"]
    /\ locked' = FALSE
    /\ waiters' = <<>>
    /\ closed_age' = ReleaseDelay
    /\ recovery_age' = RecoveryCooldown
    /\ failures' = 0
    /\ active_address' = NoAddress
    /\ recovery_issue_open' = FALSE
    /\ outcome' = "none"
    /\ UNCHANGED <<issue, daylight>>

Step(c) ==
    \/ Acquire(c) \/ Wake(c) \/ LoggedOff(c) \/ Deadline(c)
    \/ Recovered(c) \/ RecoveryRaises(c)

CallerNext(c) ==
    \/ Call(c) \/ Acquire(c) \/ Wake(c)
    \/ Opened(c) \/ OpeningFails(c) \/ OperationEnds(c) \/ LoggedOff(c)
    \/ Deadline(c) \/ Recovered(c) \/ RecoveryRaises(c) \/ Cancel(c)

Next == (\E c \in Caller : CallerNext(c)) \/ Tick \/ Sun \/ Restart

Spec == Init /\ [][Next]_vars

\* The event loop runs a task that is ready, timers fire, and every call in
\* the integration passes a timeout. Nothing is assumed of the inverter.
Fairness == WF_vars(Tick) /\ \A c \in Caller : WF_vars(Step(c))

FairSpec == Spec /\ Fairness

-----------------------------------------------------------------------------
(* What must hold.                                                         *)

TypeOK ==
    /\ pc \in [Caller -> Places]
    /\ attempt \in [Caller -> 0 .. Recovery]
    /\ wake \in [Caller -> 0 .. ReleaseDelay]
    /\ result \in [Caller -> Results \cup {"none"}]
    /\ locked \in BOOLEAN
    /\ waiters \in Seq(Caller)
    /\ closed_age \in 0 .. ReleaseDelay
    /\ recovery_age \in 0 .. RecoveryCooldown
    /\ failures \in 0 .. RecoveryFailures
    /\ active_address \in Caller \cup {NoAddress}
    /\ recovery_issue_open \in BOOLEAN
    /\ issue \in BOOLEAN
    /\ outcome \in Outcomes
    /\ daylight \in BOOLEAN
    /\ restarts \in 0 .. MaxRestarts

\* Two calls never use the radio at once: no second session is open while one
\* connects, reads, logs off, waits for the release pause between its attempts
\* or power-cycles the adapter (async with self.lock around all of async_run).
MutualExclusion ==
    \A c, d \in Caller : pc[c] \in Holding /\ pc[d] \in Holding => c = d

\* The lock is held exactly while a call is in its body: no error, refusal,
\* cancellation or recovery path leaves it locked with nobody inside.
NoLeakedLock == locked <=> \E c \in Caller : pc[c] \in Holding

\* active_address, which diagnostics report, is the address of the session
\* that is open, and None when none is, whichever way the last one ended.
SessionAddress == \A c \in Caller : active_address = c <=> pc[c] \in OnAir

\* While a session is open the adapter had its whole release interval since
\* the session before it closed, on every path: first attempt, retry, retry
\* after a power cycle, queue behind another caller.
ReleasedBeforeOpen ==
    \A c \in Caller : pc[c] \in OnAir => closed_age = ReleaseDelay

\* The sleep a call has left covers what is left of the release interval.
PauseCoversRelease ==
    \A c \in Caller : pc[c] = "pausing" => closed_age + wake[c] >= ReleaseDelay

\* Only a call whose attempts are exhausted cycles the adapter, and only when
\* enough transport failures are counted.
RecoveryIsEarned ==
    \A c \in Caller : /\ pc[c] \in Holding => attempt[c] \in 1 .. Recovery
                      /\ pc[c] = "recovering" => attempt[c] = Recovery
                      /\ pc[c] \in Holding /\ attempt[c] = Recovery
                            => failures = RecoveryFailures

\* The inductive invariant of the gate: what a call relies on when it opens
\* a session after an await (_async_release_pause, _async_recover_adapter).
GateInv ==
    /\ TypeOK
    /\ MutualExclusion
    /\ NoLeakedLock
    /\ SessionAddress
    /\ ReleasedBeforeOpen
    /\ PauseCoversRelease
    /\ RecoveryIsEarned

\* The flag in memory never claims an issue the registry does not show, and
\* until a restart it knows of every issue the registry shows.
IssueKnown ==
    /\ recovery_issue_open => issue
    /\ restarts = 0 => (issue => recovery_issue_open)

Finishes(c) == pc[c] # "idle" /\ pc'[c] = "idle"

\* A call that reports a transport failure when the failures have reached the
\* recovery threshold leaves a Repairs issue behind: the user hears of it
\* whether recovery was skipped for the cooldown, raised, or did not help.
PersistentFailureReported ==
    [][\A c \in Caller :
          Finishes(c) /\ outcome' = "transport" /\ failures' = RecoveryFailures
              => issue']_vars

\* A call that succeeds leaves no Bluetooth recovery issue behind
\* (_clear_recovery_failure: "Clear failure state and a previously raised
\* Repairs issue").
IssueClearedBySuccess ==
    [][\A c \in Caller : Finishes(c) /\ outcome' = "ok" => ~issue']_vars

\* Every call returns or raises, whatever the inverter does: no caller starves
\* in the queue, and neither retries nor recovery go on forever.
EveryCallEnds == \A c \in Caller : pc[c] # "idle" ~> pc[c] = "idle"

-----------------------------------------------------------------------------
(* The gate implements the lease of the radio.                             *)

Lease == INSTANCE RadioLease WITH
            sessions <- {c \in Caller : pc[c] \in OnAir},
            cycling  <- {c \in Caller : pc[c] = "recovering"},
            quiet    <- closed_age,
            cooled   <- recovery_age

\* Exclusive use, release pause, daylight and power-cycle cooldown together,
\* over every interleaving of calls, failures, cancellations and restarts.
ImplementsLease == Lease!LeaseSpec
=============================================================================
