-------------------------- MODULE CoordinatorProofs --------------------------
(***************************************************************************)
(* Proofs about Coordinator for every retry interval and any number of     *)
(* days and restarts.                                                      *)
(***************************************************************************)
EXTENDS Coordinator, TLAPS

USE CoordinatorConstants

\* Before the entry is set up there is no data, nothing to show and nobody
\* who uses the radio for it but the first refresh.
UnloadedIsBlank ==
    IF loaded THEN data # "none"
    ELSE /\ last_ok /\ ~sunset_due
         /\ data = "none" /\ shown = "unavailable"
         /\ task = "none" /\ service = "idle"

\* last_update_success does not change while a refresh is under way: what it
\* was at the start decides whether the listeners hear of a failure.
PreviousKept == poll # "idle" => previous_ok = last_ok

\* The two windows in which values of an earlier day may be on display.
Window ==
    \/ ~daylight /\ (sunset_due \/ timer = "day")
    \/ daylight /\ poll # "idle"

\* What any listener call would write then, and only then.
StaleDataHidden == data = "stale" /\ last_ok /\ ~sleeping => Window

\* The inductive invariant.
CoordinatorInv ==
    /\ TypeOK /\ UnloadedIsBlank /\ PreviousKept
    /\ FailureHidden /\ StaleDataHidden /\ StaleIsTransient
    /\ NextRefreshKnown

\* The conjuncts other than the types.
Meaning ==
    /\ UnloadedIsBlank /\ PreviousKept
    /\ FailureHidden /\ StaleDataHidden /\ StaleIsTransient
    /\ NextRefreshKnown

-----------------------------------------------------------------------------
(* Listeners.                                                              *)

\* A listener call writes what is data's, or hides it, and at most starts the
\* archive task.
LEMMA ListenersEffect ==
    ASSUME TypeOK, UpdateListeners, daylight' = daylight, today' = today
    PROVE  /\ shown' = IF last_ok' /\ ~sleeping' THEN data' ELSE "unavailable"
           /\ task' \in Tasks /\ target' \in 0 .. MaxDays
           /\ attempt_age' \in 0 .. RetryInterval
<1>1. shown' = IF last_ok' /\ ~sleeping' THEN data' ELSE "unavailable"
  BY DEF UpdateListeners, WriteStates
<1>2. Yesterday \in 0 .. MaxDays /\ 0 \in 0 .. RetryInterval
  BY DEF TypeOK, Yesterday
<1>3. task' \in Tasks /\ target' \in 0 .. MaxDays /\ attempt_age' \in 0 .. RetryInterval
  BY <1>2 DEF UpdateListeners, ScheduleArchiveReconcile, archiveVars, TypeOK, Tasks
<1>4. QED
  BY <1>1, <1>3

\* Quiet listeners change nothing.
LEMMA QuietEffect ==
    ASSUME TypeOK, QuietListeners
    PROVE  /\ shown' = shown /\ task' = task
           /\ task' \in Tasks /\ target' \in 0 .. MaxDays
           /\ attempt_age' \in 0 .. RetryInterval
BY DEF QuietListeners, archiveVars, TypeOK

-----------------------------------------------------------------------------
(* The refresh.                                                            *)

\* The end of a refresh keeps the invariant: what it publishes is of the day,
\* or the night is on and the timer is armed for it, or it failed and the
\* listeners heard of it, now or when the failure began.
LEMMA RefreshedKeeps ==
    ASSUME CoordinatorInv,
           NEW ok \in BOOLEAN, NEW values, NEW asleep \in BOOLEAN, NEW was_ok,
           Refreshed(ok, values, asleep, was_ok),
           was_ok = last_ok,
           IF ok THEN values \in {"live", "stale", "identity"} ELSE values = data,
           ok /\ values = "stale" => asleep \/ ~daylight,
           previous_ok' \in BOOLEAN,
           UNCHANGED <<skyVars, reauth, reconciled, service, restarts>>
    PROVE  CoordinatorInv'
<1>0. /\ TypeOK /\ Meaning
      /\ UNCHANGED <<daylight, sunset_due, today, reauth, reconciled, service, restarts>>
  BY DEF CoordinatorInv, Meaning, skyVars
<1>1. CASE loaded \/ ok
  <2>1. /\ loaded' = TRUE /\ last_ok' = ok /\ data' = values /\ poll' = "idle"
        /\ sleeping' = asleep /\ timer' = (IF asleep THEN "night" ELSE "day")
        /\ IF ok \/ was_ok THEN UpdateListeners ELSE QuietListeners
    BY <1>1 DEF Refreshed
  <2>2. data' \in {"live", "stale", "identity"}
    BY <1>0, <1>1, <2>1 DEF TypeOK, Values, Meaning, UnloadedIsBlank
  <2>3. /\ shown' = IF ok /\ ~asleep THEN values ELSE "unavailable"
        /\ task' \in Tasks /\ target' \in 0 .. MaxDays
        /\ attempt_age' \in 0 .. RetryInterval
    <3>1. CASE ok \/ was_ok
      BY <1>0, <2>1, <3>1, ListenersEffect
    <3>2. CASE ~(ok \/ was_ok)
      BY <1>0, <2>1, <3>2, QuietEffect DEF Meaning, FailureHidden
    <3>3. QED
      BY <3>1, <3>2
  <2>4. shown' \in Shown /\ data' \in Values
    BY <2>1, <2>2, <2>3 DEF Shown, Values
  <2>5. TypeOK'
    BY <1>0, <2>1, <2>3, <2>4 DEF TypeOK
  <2>6. Meaning'
    BY <1>0, <2>1, <2>2, <2>3
    DEF Meaning, UnloadedIsBlank, PreviousKept, FailureHidden, StaleDataHidden,
        StaleIsTransient, Window, NextRefreshKnown
  <2>7. QED
    BY <2>5, <2>6 DEF CoordinatorInv, Meaning
<1>2. CASE ~(loaded \/ ok)
  <2>1. /\ last_ok' = TRUE /\ data' = "none" /\ sleeping' = FALSE /\ poll' = "idle"
        /\ UNCHANGED <<loaded, timer>> /\ QuietListeners
    BY <1>2 DEF Refreshed
  <2>2. /\ shown' = shown /\ task' = task
        /\ task' \in Tasks /\ target' \in 0 .. MaxDays
        /\ attempt_age' \in 0 .. RetryInterval
    BY <1>0, <2>1, QuietEffect
  <2>3. TypeOK'
    BY <1>0, <2>1, <2>2 DEF TypeOK, Values
  <2>4. Meaning'
    BY <1>0, <1>2, <2>1, <2>2
    DEF Meaning, UnloadedIsBlank, PreviousKept, FailureHidden, StaleDataHidden,
        StaleIsTransient, NextRefreshKnown
  <2>5. QED
    BY <2>3, <2>4 DEF CoordinatorInv, Meaning
<1>3. QED
  BY <1>1, <1>2

\* The night pause keeps it, whenever it is taken.
LEMMA NightKeeps ==
    ASSUME CoordinatorInv, NEW was_ok, was_ok = last_ok, NightData(was_ok),
           previous_ok' \in BOOLEAN,
           UNCHANGED <<skyVars, reauth, reconciled, service, restarts>>
    PROVE  CoordinatorInv'
<1>1. TypeOK /\ UnloadedIsBlank
  BY DEF CoordinatorInv
<1>2. CASE last_ok
  <2>1. Refreshed(TRUE, Cached, TRUE, was_ok)
    BY <1>2 DEF NightData
  <2>2. Cached \in {"live", "stale", "identity"}
    BY <1>1 DEF Cached, TypeOK, Values
  <2> HIDE DEF Cached
  <2>3. QED
    BY <2>1, <2>2, RefreshedKeeps
<1>3. CASE ~last_ok
  <2>1. Refreshed(FALSE, data, TRUE, was_ok)
    BY <1>3 DEF NightData
  <2>2. QED
    BY <2>1, RefreshedKeeps
<1>4. QED
  BY <1>2, <1>3

\* The start of a refresh keeps it: by day the timer is used up while the
\* refresh is queued, at night the pause is taken at once.
LEMMA StartKeeps ==
    ASSUME CoordinatorInv, poll = "idle", StartRefresh,
           UNCHANGED <<skyVars, reauth, reconciled, service, restarts>>
    PROVE  CoordinatorInv'
<1>0. TypeOK /\ Meaning
  BY DEF CoordinatorInv, Meaning
<1>1. previous_ok' = last_ok /\ previous_ok' \in BOOLEAN
  BY <1>0 DEF StartRefresh, TypeOK
<1>2. CASE ~daylight
  <2>1. NightData(last_ok)
    BY <1>2 DEF StartRefresh
  <2>2. QED
    BY <1>1, <2>1, NightKeeps
<1>3. CASE daylight
  <2>1. /\ poll' = "queued" /\ sleeping' = FALSE /\ timer' = "off"
        /\ UNCHANGED <<loaded, last_ok, data>> /\ QuietListeners
        /\ UNCHANGED <<daylight, sunset_due, today, reauth, reconciled, service, restarts>>
    BY <1>3 DEF StartRefresh, skyVars
  <2>2. /\ shown' = shown /\ task' = task
        /\ task' \in Tasks /\ target' \in 0 .. MaxDays
        /\ attempt_age' \in 0 .. RetryInterval
    BY <1>0, <2>1, QuietEffect
  <2>3. TypeOK'
    BY <1>0, <1>1, <2>1, <2>2 DEF TypeOK
  <2>4. Meaning'
    BY <1>0, <1>1, <1>3, <2>1, <2>2
    DEF Meaning, UnloadedIsBlank, PreviousKept, FailureHidden, StaleDataHidden,
        StaleIsTransient, Window, NextRefreshKnown
  <2>5. QED
    BY <2>3, <2>4 DEF CoordinatorInv, Meaning
<1>4. QED
  BY <1>2, <1>3

\* A wrong password is a failure like others for what is shown; the next
\* refresh waits for the user.
LEMMA AuthKeeps ==
    ASSUME CoordinatorInv, PollRefused
    PROVE  CoordinatorInv'
<1>0. /\ TypeOK /\ Meaning /\ previous_ok = last_ok
      /\ poll' = "idle" /\ reauth' = TRUE /\ AuthFailed
      /\ UNCHANGED <<daylight, sunset_due, today, previous_ok, reconciled, service,
                     restarts, loaded, timer>>
  BY DEF CoordinatorInv, Meaning, PollRefused, AuthFailed, skyVars, PreviousKept
<1>1. CASE loaded
  <2>1. /\ last_ok' = FALSE /\ UNCHANGED <<data, sleeping>>
        /\ IF previous_ok THEN UpdateListeners ELSE QuietListeners
    BY <1>0, <1>1 DEF AuthFailed
  <2>2. /\ shown' = "unavailable" /\ task' \in Tasks /\ target' \in 0 .. MaxDays
        /\ attempt_age' \in 0 .. RetryInterval
    <3>1. CASE previous_ok
      BY <1>0, <2>1, <3>1, ListenersEffect
    <3>2. CASE ~previous_ok
      BY <1>0, <2>1, <3>2, QuietEffect DEF Meaning, FailureHidden
    <3>3. QED
      BY <3>1, <3>2
  <2>3. TypeOK'
    BY <1>0, <2>1, <2>2 DEF TypeOK, Shown
  <2>4. Meaning'
    BY <1>0, <1>1, <2>1, <2>2
    DEF Meaning, UnloadedIsBlank, PreviousKept, FailureHidden, StaleDataHidden,
        StaleIsTransient, NextRefreshKnown
  <2>5. QED
    BY <2>3, <2>4 DEF CoordinatorInv, Meaning
<1>2. CASE ~loaded
  <2>1. /\ last_ok' = TRUE /\ data' = "none" /\ sleeping' = FALSE /\ QuietListeners
    BY <1>0, <1>2 DEF AuthFailed
  <2>2. /\ shown' = shown /\ task' = task
        /\ task' \in Tasks /\ target' \in 0 .. MaxDays
        /\ attempt_age' \in 0 .. RetryInterval
    BY <1>0, <2>1, QuietEffect
  <2>3. TypeOK'
    BY <1>0, <2>1, <2>2 DEF TypeOK, Values
  <2>4. Meaning'
    BY <1>0, <1>2, <2>1, <2>2
    DEF Meaning, UnloadedIsBlank, PreviousKept, FailureHidden, StaleDataHidden,
        StaleIsTransient, NextRefreshKnown
  <2>5. QED
    BY <2>3, <2>4 DEF CoordinatorInv, Meaning
<1>3. QED
  BY <1>1, <1>2

\* The steps of a refresh.
LEMMA PollKeeps ==
    ASSUME CoordinatorInv, Refresh \/ PollStarts \/ PollEnds
    PROVE  CoordinatorInv'
<1>0. TypeOK /\ Meaning
  BY DEF CoordinatorInv, Meaning
<1>1. CASE Refresh
  BY <1>1, StartKeeps DEF Refresh, SetupEntry, TimerFires
<1>2. CASE PollStarts /\ daylight
  <2>1. /\ poll' = "session" /\ poll = "queued" /\ QuietListeners
        /\ UNCHANGED <<loaded, previous_ok, timer, last_ok, sleeping, data, daylight,
                       sunset_due, today, reauth, reconciled, service, restarts>>
    BY <1>2 DEF PollStarts, skyVars
  <2>2. /\ shown' = shown /\ task' = task
        /\ task' \in Tasks /\ target' \in 0 .. MaxDays
        /\ attempt_age' \in 0 .. RetryInterval
    BY <1>0, <2>1, QuietEffect
  <2>3. TypeOK'
    BY <1>0, <2>1, <2>2 DEF TypeOK
  <2>4. Meaning'
    BY <1>0, <1>2, <2>1, <2>2
    DEF Meaning, UnloadedIsBlank, PreviousKept, FailureHidden, StaleDataHidden,
        StaleIsTransient, Window, NextRefreshKnown
  <2>5. QED
    BY <2>3, <2>4 DEF CoordinatorInv, Meaning
<1>3. CASE PollStarts /\ ~daylight
  <2>1. previous_ok = last_ok /\ previous_ok' \in BOOLEAN
    BY <1>0, <1>3 DEF PollStarts, Meaning, PreviousKept, TypeOK
  <2>2. QED
    BY <1>3, <2>1, NightKeeps DEF PollStarts
<1>4. CASE PollSucceeds \/ PollFails \/ PollPaused
  <2>1. previous_ok = last_ok /\ previous_ok' \in BOOLEAN /\ sleeping \in BOOLEAN
    BY <1>0, <1>4
    DEF PollSucceeds, PollFails, PollPaused, Meaning, PreviousKept, TypeOK
  <2>2. CASE PollSucceeds
    <3> DEFINE values == IF daylight THEN "live" ELSE "stale"
    <3>1. Refreshed(TRUE, values, sleeping, previous_ok)
      BY <2>2 DEF PollSucceeds
    <3>2. values \in {"live", "stale", "identity"} /\ (values = "stale" => ~daylight)
      OBVIOUS
    <3> HIDE DEF values
    <3>3. UNCHANGED <<skyVars, reauth, reconciled, service, restarts>>
      BY <2>2 DEF PollSucceeds
    <3>4. QED
      BY <2>1, <3>1, <3>2, <3>3, RefreshedKeeps
  <2>3. CASE PollFails
    BY <2>1, <2>3, RefreshedKeeps DEF PollFails
  <2>4. CASE PollPaused
    BY <2>1, <2>4, NightKeeps DEF PollPaused
  <2>5. QED
    BY <1>4, <2>2, <2>3, <2>4
<1>5. CASE PollRefused
  BY <1>5, AuthKeeps
<1>6. QED
  BY <1>1, <1>2, <1>3, <1>4, <1>5 DEF PollEnds

\* The sunset callback hides what is shown, and keeps the timer.
LEMMA EnterNightKeeps ==
    ASSUME CoordinatorInv, EnterNight
    PROVE  CoordinatorInv'
<1>0. /\ TypeOK /\ Meaning /\ loaded /\ data # "none"
      /\ sunset_due' = FALSE /\ sleeping' = TRUE /\ UpdateListeners
      /\ UNCHANGED <<daylight, today, loaded, poll, previous_ok, reauth, reconciled,
                     service, restarts, last_ok>>
  BY DEF CoordinatorInv, Meaning, EnterNight, UnloadedIsBlank
<1>1. /\ shown' = "unavailable" /\ task' \in Tasks /\ target' \in 0 .. MaxDays
      /\ attempt_age' \in 0 .. RetryInterval
  BY <1>0, ListenersEffect
<1>2. data' = data /\ timer' \in {timer, "night"}
  BY <1>0 DEF EnterNight, Cached
<1>3. TypeOK'
  BY <1>0, <1>1, <1>2 DEF TypeOK, Shown
<1>4. Meaning'
  BY <1>0, <1>1, <1>2
  DEF Meaning, UnloadedIsBlank, PreviousKept, FailureHidden, StaleDataHidden,
      StaleIsTransient, NextRefreshKnown
<1>5. QED
  BY <1>3, <1>4 DEF CoordinatorInv, Meaning

-----------------------------------------------------------------------------
(* The archive task, the service and the surroundings.                     *)

\* What a task or a service call writes is what a poll would have written.
LEMMA TaskKeeps ==
    ASSUME CoordinatorInv, TaskSession \/ TaskStep
    PROVE  CoordinatorInv'
<1>0. TypeOK /\ Meaning /\ loaded /\ data \in {"live", "stale", "identity"}
  BY DEF CoordinatorInv, Meaning, UnloadedIsBlank, TypeOK, Values, TaskSession,
         TaskStep, ClockChecked, ArchiveRead, TaskFails, Recorded
<1>1. /\ UNCHANGED <<daylight, sunset_due, today, loaded, poll, previous_ok, timer,
                     last_ok, sleeping, data, reauth, target, attempt_age, service,
                     restarts>>
      /\ task' \in Tasks /\ reconciled' \in {target, reconciled}
      /\ \/ shown' = shown
         \/ shown' = IF last_ok /\ ~sleeping THEN data ELSE "unavailable"
  BY DEF skyVars, refreshVars, Tasks, TaskSession, TaskStep, ClockChecked,
         ArchiveRead, TaskFails, Recorded, WriteStates
<1>2. shown' \in Shown
  BY <1>0, <1>1 DEF TypeOK, Shown
<1>3. TypeOK'
  BY <1>0, <1>1, <1>2 DEF TypeOK
<1>4. Meaning'
  BY <1>0, <1>1
  DEF Meaning, UnloadedIsBlank, PreviousKept, FailureHidden, StaleDataHidden,
      StaleIsTransient, Window, NextRefreshKnown
<1>5. QED
  BY <1>3, <1>4 DEF CoordinatorInv, Meaning

\* A service call does so too.
LEMMA ServiceKeeps ==
    ASSUME CoordinatorInv, ServiceCalled \/ ServiceSession \/ ServiceEnds
    PROVE  CoordinatorInv'
<1>0. TypeOK /\ Meaning /\ loaded /\ data \in {"live", "stale", "identity"}
  BY DEF CoordinatorInv, Meaning, UnloadedIsBlank, TypeOK, Values,
         ServiceCalled, ServiceSession, ServiceEnds
<1>1. /\ UNCHANGED <<daylight, sunset_due, today, loaded, poll, previous_ok, timer,
                     last_ok, sleeping, data, reauth, reconciled, restarts>>
      /\ service' \in {"idle", "queued", "session"}
  BY DEF skyVars, refreshVars, ServiceCalled, ServiceSession, ServiceEnds
<1>2. /\ \/ shown' = shown
         \/ shown' = IF last_ok /\ ~sleeping THEN data ELSE "unavailable"
      /\ task' \in Tasks /\ target' \in 0 .. MaxDays
      /\ attempt_age' \in 0 .. RetryInterval
  <2>1. CASE UpdateListeners
    BY <1>0, <1>1, <2>1, ListenersEffect
  <2>2. CASE QuietListeners \/ UNCHANGED <<shown, archiveVars>>
    BY <1>0, <2>2, QuietEffect DEF QuietListeners
  <2>3. QED
    BY <2>1, <2>2 DEF ServiceCalled, ServiceSession, ServiceEnds
<1>3. shown' \in Shown
  BY <1>0, <1>2 DEF TypeOK, Shown
<1>4. TypeOK'
  BY <1>0, <1>1, <1>2, <1>3 DEF TypeOK
<1>5. Meaning'
  BY <1>0, <1>1, <1>2
  DEF Meaning, UnloadedIsBlank, PreviousKept, FailureHidden, StaleDataHidden,
      StaleIsTransient, Window, NextRefreshKnown
<1>6. QED
  BY <1>4, <1>5 DEF CoordinatorInv, Meaning

\* The sun, the clock, the user and Home Assistant's restart.
LEMMA SurroundingsKeep ==
    ASSUME CoordinatorInv,
           Sunset \/ Midnight \/ Sunrise \/ Tick \/ Reauthenticated \/ Restart
    PROVE  CoordinatorInv'
<1>0. TypeOK /\ Meaning
  BY DEF CoordinatorInv, Meaning
<1>1. CASE Sunset
  <2>1. /\ UNCHANGED <<today, loaded, poll, previous_ok, timer, last_ok, sleeping,
                       reauth, task, target, attempt_age, reconciled, service, restarts>>
        /\ daylight /\ daylight' = FALSE /\ sunset_due' = loaded
        /\ data' = IF data = "live" THEN "stale" ELSE data
        /\ shown' = IF shown = "live" THEN "stale" ELSE shown
    BY <1>1 DEF Sunset, Older, archiveVars
  <2>2. data' \in Values /\ shown' \in Shown /\ sunset_due' \in BOOLEAN
    BY <1>0, <2>1 DEF TypeOK, Values, Shown
  <2>3. TypeOK'
    BY <1>0, <2>1, <2>2 DEF TypeOK
  <2>4. Meaning'
    BY <1>0, <2>1
    DEF Meaning, UnloadedIsBlank, PreviousKept, FailureHidden, StaleDataHidden,
        StaleIsTransient, Window, NextRefreshKnown
  <2>5. QED
    BY <2>3, <2>4 DEF CoordinatorInv, Meaning
<1>2. CASE Midnight \/ Sunrise \/ Tick
  <2>1. /\ UNCHANGED <<sunset_due, loaded, poll, previous_ok, timer, last_ok, sleeping,
                       data, shown, reauth, task, target, reconciled, service, restarts>>
        /\ daylight' = daylight \/ (daylight' = TRUE /\ ~sunset_due /\ poll = "idle"
                                      /\ timer # "day")
        /\ today' \in 2 .. MaxDays + 1
        /\ attempt_age' \in 0 .. RetryInterval
    BY <1>0, <1>2
    DEF Midnight, Sunrise, Tick, skyVars, refreshVars, archiveVars, TypeOK
  <2>2. TypeOK'
    BY <1>0, <2>1 DEF TypeOK
  <2>3. Meaning'
    BY <1>0, <2>1
    DEF Meaning, UnloadedIsBlank, PreviousKept, FailureHidden, StaleDataHidden,
        StaleIsTransient, Window, NextRefreshKnown
  <2>4. QED
    BY <2>2, <2>3 DEF CoordinatorInv, Meaning
<1>3. CASE Reauthenticated \/ Restart
  <2>1. /\ loaded' = FALSE /\ sunset_due' = FALSE /\ poll' = "idle" /\ timer' = "off"
        /\ last_ok' = TRUE /\ sleeping' = FALSE /\ data' = "none"
        /\ shown' = "unavailable" /\ task' = "none" /\ attempt_age' = RetryInterval
        /\ service' = "idle" /\ reauth' = FALSE
        /\ restarts' \in 0 .. MaxRestarts
        /\ UNCHANGED <<daylight, today, previous_ok, target, reconciled>>
    BY <1>0, <1>3 DEF Reauthenticated, Restart, TypeOK
  <2>2. TypeOK'
    <3>1. attempt_age' \in 0 .. RetryInterval
      BY <2>1
    <3>2. data' \in Values /\ shown' \in Shown /\ task' \in Tasks
      BY <2>1 DEF Values, Shown, Tasks
    <3>3. /\ loaded' \in BOOLEAN /\ sunset_due' \in BOOLEAN /\ last_ok' \in BOOLEAN
          /\ sleeping' \in BOOLEAN /\ reauth' \in BOOLEAN
      BY <2>1
    <3>4. QED
      BY <1>0, <2>1, <3>1, <3>2, <3>3 DEF TypeOK
  <2>3. Meaning'
    BY <2>1
    DEF Meaning, UnloadedIsBlank, PreviousKept, FailureHidden, StaleDataHidden,
        StaleIsTransient, NextRefreshKnown
  <2>4. QED
    BY <2>2, <2>3 DEF CoordinatorInv, Meaning
<1>4. QED
  BY <1>1, <1>2, <1>3

\* Home Assistant starts without a coordinator.
LEMMA CoordinatorInitInv == Init => CoordinatorInv
<1> SUFFICES ASSUME Init PROVE CoordinatorInv
  OBVIOUS
<1>1. TypeOK
  <2>1. /\ today \in 2 .. MaxDays + 1 /\ target \in 0 .. MaxDays
        /\ reconciled \in 0 .. MaxDays /\ attempt_age \in 0 .. RetryInterval
        /\ restarts \in 0 .. MaxRestarts
    BY DEF Init
  <2>2. data \in Values /\ shown \in Shown /\ task \in Tasks
    BY DEF Init, Values, Shown, Tasks
  <2>3. /\ daylight \in BOOLEAN /\ sunset_due \in BOOLEAN /\ loaded \in BOOLEAN
        /\ previous_ok \in BOOLEAN /\ last_ok \in BOOLEAN /\ sleeping \in BOOLEAN
        /\ reauth \in BOOLEAN
    BY DEF Init
  <2>4. QED
    BY <2>1, <2>2, <2>3 DEF Init, TypeOK
<1>2. Meaning
  BY DEF Init, Meaning, UnloadedIsBlank, PreviousKept, FailureHidden,
         StaleDataHidden, StaleIsTransient, NextRefreshKnown
<1>3. QED
  BY <1>1, <1>2 DEF CoordinatorInv, Meaning

\* Every step keeps the invariant.
LEMMA CoordinatorNextInv ==
    ASSUME CoordinatorInv, [Next]_vars
    PROVE  CoordinatorInv'
<1>1. CASE UNCHANGED vars
  <2>1. TypeOK'
    BY <1>1 DEF CoordinatorInv, TypeOK, vars, skyVars, refreshVars, archiveVars
  <2>2. Meaning'
    BY <1>1
    DEF CoordinatorInv, Meaning, vars, skyVars, refreshVars, archiveVars,
        UnloadedIsBlank, PreviousKept, FailureHidden, StaleDataHidden,
        StaleIsTransient, Window, NextRefreshKnown
  <2>3. QED
    BY <2>1, <2>2 DEF CoordinatorInv, Meaning
<1>2. CASE Refresh \/ PollStarts \/ PollEnds
  BY <1>2, PollKeeps
<1>3. CASE EnterNight
  BY <1>3, EnterNightKeeps
<1>4. CASE TaskSession \/ TaskStep
  BY <1>4, TaskKeeps
<1>5. CASE ServiceCalled \/ ServiceSession \/ ServiceEnds
  BY <1>5, ServiceKeeps
<1>6. CASE Sunset \/ Midnight \/ Sunrise \/ Tick \/ Reauthenticated \/ Restart
  BY <1>6, SurroundingsKeep
<1>7. QED
  BY <1>1, <1>2, <1>3, <1>4, <1>5, <1>6 DEF Next

-----------------------------------------------------------------------------
(* The theorems.                                                           *)

\* The inductive invariant holds in every run.
THEOREM CoordinatorInvariant == Spec => []CoordinatorInv
<1>1. Init => CoordinatorInv
  BY CoordinatorInitInv
<1>2. CoordinatorInv /\ [Next]_vars => CoordinatorInv'
  BY CoordinatorNextInv
<1>3. QED
  BY <1>1, <1>2, PTL DEF Spec

\* The coordinator's attributes and options keep their types.
THEOREM CoordinatorTypeCorrect == Spec => []TypeOK
<1>1. CoordinatorInv => TypeOK
  BY DEF CoordinatorInv
<1>2. QED
  BY <1>1, CoordinatorInvariant, PTL

\* While a connection fails nothing is shown as measured.
THEOREM CoordinatorFailureHidden == Spec => []FailureHidden
<1>1. CoordinatorInv => FailureHidden
  BY DEF CoordinatorInv
<1>2. QED
  BY <1>1, CoordinatorInvariant, PTL

\* Values of an earlier day are on display only in the two windows.
THEOREM CoordinatorStaleIsTransient == Spec => []StaleIsTransient
<1>1. CoordinatorInv => StaleIsTransient
  BY DEF CoordinatorInv
<1>2. QED
  BY <1>1, CoordinatorInvariant, PTL

\* A loaded entry always has its next refresh, or waits for a password.
THEOREM CoordinatorNextRefreshKnown == Spec => []NextRefreshKnown
<1>1. CoordinatorInv => NextRefreshKnown
  BY DEF CoordinatorInv
<1>2. QED
  BY <1>1, CoordinatorInvariant, PTL

\* What RecoveryIsReal asks of one step.
RecoveryStep == ~last_ok /\ last_ok' => poll = "session" \/ ~loaded'

\* The night pause publishes no recovery: without data that is current it
\* keeps the failure.
LEMMA NightIsNoRecovery ==
    ASSUME NEW was_ok, NightData(was_ok)
    PROVE  RecoveryStep
<1>1. CASE last_ok
  BY <1>1 DEF RecoveryStep
<1>2. CASE ~last_ok
  <2>1. Refreshed(FALSE, data, TRUE, was_ok)
    BY <1>2 DEF NightData
  <2>2. QED
    BY <2>1 DEF Refreshed, RecoveryStep
<1>3. QED
  BY <1>1, <1>2

\* Only a poll with an open session makes a failed entry healthy.
LEMMA NextRecovers ==
    ASSUME CoordinatorInv, [Next]_vars
    PROVE  RecoveryStep
<1>1. CASE UNCHANGED vars
  BY <1>1 DEF vars, refreshVars, RecoveryStep
<1>2. CASE Refresh \/ PollStarts
  <2>1. \/ last_ok' = last_ok
        \/ \E was_ok \in {last_ok, previous_ok} : NightData(was_ok)
    BY <1>2 DEF Refresh, SetupEntry, TimerFires, StartRefresh, PollStarts
  <2>2. QED
    BY <2>1, NightIsNoRecovery DEF RecoveryStep
<1>3. CASE PollEnds
  BY <1>3 DEF PollEnds, PollSucceeds, PollFails, PollPaused, PollRefused, RecoveryStep
<1>4. CASE EnterNight \/ TaskSession \/ TaskStep
  BY <1>4 DEF EnterNight, TaskSession, TaskStep, ClockChecked, ArchiveRead,
              TaskFails, Recorded, refreshVars, RecoveryStep
<1>5. CASE ServiceCalled \/ ServiceSession \/ ServiceEnds
  BY <1>5 DEF ServiceCalled, ServiceSession, ServiceEnds, refreshVars, RecoveryStep
<1>6. CASE Sunset \/ Midnight \/ Sunrise \/ Tick \/ Reauthenticated \/ Restart
  BY <1>6 DEF Sunset, Midnight, Sunrise, Tick, Reauthenticated, Restart,
              refreshVars, RecoveryStep
<1>7. QED
  BY <1>1, <1>2, <1>3, <1>4, <1>5, <1>6 DEF Next

\* Cached night-time data never counts as recovery from a daytime failure.
THEOREM CoordinatorRecoveryIsReal == Spec => RecoveryIsReal
<1>1. CoordinatorInv /\ [Next]_vars => [RecoveryStep]_vars
  BY NextRecovers
<1>2. QED
  BY <1>1, CoordinatorInvariant, PTL DEF Spec, RecoveryIsReal, RecoveryStep
=============================================================================
