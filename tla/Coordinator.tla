----------------------------- MODULE Coordinator -----------------------------
(***************************************************************************)
(* SMABluetoothCoordinator of one config entry (coordinator.py) with the   *)
(* code around it: its set-up, the sunset callback and the reconciliation  *)
(* of the archive (__init__.py), and what its entities show (sensor.py).   *)
(* Home Assistant's DataUpdateCoordinator, which schedules the refreshes   *)
(* and calls the listeners, is modelled from how this code relies on it.   *)
(*                                                                         *)
(* Three tasks of the entry use the radio: the refresh, the archive task   *)
(* and a service call. The adapter gate (AdapterGate) lets one of them     *)
(* open a session at a time, by day only, and ends every session; how it   *)
(* retries is not repeated here. A refresh is                              *)
(*                                                                         *)
(*   idle      waiting for its timer                                       *)
(*   queued    inside async_run, before its session                        *)
(*   session   in its session; the sun may set meanwhile                   *)
(*                                                                         *)
(* and the archive task is none, clock_queued, clock_session,              *)
(* import_queued, import_session or recording (in the recorder's jobs).    *)
(***************************************************************************)
EXTENDS Naturals

CONSTANTS
    RetryInterval,  \* ARCHIVE_RETRY_INTERVAL, in ticks
    MaxDays,        \* bound: days that pass
    MaxRestarts     \* bound: restarts of Home Assistant

ASSUME CoordinatorConstants ==
    /\ RetryInterval \in Nat \ {0}
    /\ MaxDays \in Nat \ {0}
    /\ MaxRestarts \in Nat

VARIABLES
    daylight,       \* daylight_schedule(hass).active
    sunset_due,     \* the sunset callback's task has not run yet
    today,          \* the local date, a number from 2 on
    loaded,         \* the entry is set up: platforms and listeners exist
    poll,           \* where the refresh is
    previous_ok,    \* last_update_success as the refresh started
    timer,          \* the armed refresh: "off", or the interval it was given
    last_ok,        \* last_update_success
    sleeping,       \* coordinator.sleeping, and update_interval with it
    data,           \* coordinator.data: what its values are
    shown,          \* what the entities last wrote as their state
    reauth,         \* Home Assistant asks for a new password
    task,           \* where the archive task is
    target,         \* the day the archive task reconciles
    reconciled,     \* options["last_archive_reconcile_date"], 0 if never
    attempt_age,    \* time since coordinator.archive_last_attempt
    service,        \* where an archive service call is
    restarts

skyVars == <<daylight, sunset_due, today>>
refreshVars == <<poll, previous_ok, timer, last_ok, sleeping, data>>
archiveVars == <<task, target, attempt_age>>
vars == <<skyVars, loaded, refreshVars, shown, reauth, archiveVars, reconciled,
          service, restarts>>

\* Values of the day that is on, values of an earlier one, an identity
\* snapshot without values, or no data yet.
Values == {"live", "stale", "identity", "none"}
Shown == {"live", "stale", "identity", "unavailable"}
Tasks == {"none", "clock_queued", "clock_session", "import_queued",
          "import_session", "recording"}

TypeOK ==
    /\ daylight \in BOOLEAN /\ sunset_due \in BOOLEAN
    /\ today \in 2 .. MaxDays + 1
    /\ loaded \in BOOLEAN
    /\ poll \in {"idle", "queued", "session"}
    /\ previous_ok \in BOOLEAN /\ last_ok \in BOOLEAN
    /\ timer \in {"off", "day", "night"}
    /\ sleeping \in BOOLEAN
    /\ data \in Values
    /\ shown \in Shown
    /\ reauth \in BOOLEAN
    /\ task \in Tasks
    /\ target \in 0 .. MaxDays
    /\ reconciled \in 0 .. MaxDays
    /\ attempt_age \in 0 .. RetryInterval
    /\ service \in {"idle", "queued", "session"}
    /\ restarts \in 0 .. MaxRestarts

Init ==
    /\ daylight \in BOOLEAN /\ sunset_due = FALSE /\ today = 2
    /\ loaded = FALSE
    /\ poll = "idle" /\ previous_ok = TRUE /\ timer = "off"
    /\ last_ok = TRUE /\ sleeping = FALSE /\ data = "none"
    /\ shown = "unavailable"
    /\ reauth = FALSE
    /\ task = "none" /\ target = 0 /\ attempt_age = RetryInterval
    /\ reconciled = 0
    /\ service = "idle"
    /\ restarts = 0

-----------------------------------------------------------------------------
(* Listeners. They read the state an update has just written.              *)

RadioFree ==
    /\ poll # "session"
    /\ task \notin {"clock_session", "import_session"}
    /\ service # "session"

Yesterday == today - 1

\* Mutant: an entity of a failing coordinator keeps its last state.
WriteStatesIfHealthy ==
    shown' = IF ~last_ok' THEN shown
             ELSE IF sleeping' THEN "unavailable" ELSE data'

\* SMASensor.available and SMAInverterEvent.available.
WriteStates ==
    shown' = IF last_ok' /\ ~sleeping' THEN data' ELSE "unavailable"

\* Mutant: an attempt is not made again on the same day.
ScheduleArchiveReconcileOnce ==
    IF /\ daylight
       /\ reconciled # Yesterday
       /\ task = "none"
       /\ target # Yesterday
    THEN /\ task' = "clock_queued"
         /\ target' = Yesterday
         /\ attempt_age' = 0
    ELSE UNCHANGED archiveVars

\* Mutant: the day that is not over yet is reconciled.
ScheduleArchiveReconcileToday ==
    IF /\ daylight
       /\ reconciled # today
       /\ task = "none"
       /\ attempt_age = RetryInterval
    THEN /\ task' = "clock_queued"
         /\ target' = today
         /\ attempt_age' = 0
    ELSE UNCHANGED archiveVars

\* _schedule_archive_reconcile: the task starts at once and computes the day
\* it is about; a task that is running, or was started less than the retry
\* interval ago, is left alone.
ScheduleArchiveReconcile ==
    IF /\ daylight
       /\ reconciled # Yesterday
       /\ task = "none"
       /\ attempt_age = RetryInterval
    THEN /\ task' = "clock_queued"
         /\ target' = Yesterday
         /\ attempt_age' = 0
    ELSE UNCHANGED archiveVars

\* async_update_listeners outside the archive task.
UpdateListeners == WriteStates /\ ScheduleArchiveReconcile

QuietListeners == UNCHANGED <<shown, archiveVars>>

-----------------------------------------------------------------------------
(* The refresh.                                                            *)

\* DataUpdateCoordinator._async_refresh once _async_update_data is through:
\* the next refresh is armed with the interval set last, and the listeners
\* hear of every update but a repeated failure. Before the platforms exist
\* there is nobody to tell: a first refresh that fails leaves no coordinator
\* behind, one that succeeds loads the entry.
Refreshed(ok, values, asleep, was_ok) ==
    /\ poll' = "idle"
    /\ IF loaded \/ ok
       THEN /\ loaded' = TRUE
            /\ last_ok' = ok
            /\ data' = values
            /\ sleeping' = asleep
            /\ timer' = IF asleep THEN "night" ELSE "day"
            /\ IF ok \/ was_ok THEN UpdateListeners ELSE QuietListeners
       ELSE /\ last_ok' = TRUE /\ data' = "none" /\ sleeping' = FALSE
            /\ QuietListeners
            /\ UNCHANGED <<loaded, timer>>

\* ConfigEntryAuthFailed: the user is asked for a password, no refresh armed.
AuthFailed ==
    /\ poll' = "idle"
    /\ reauth' = TRUE
    /\ IF loaded
       THEN /\ last_ok' = FALSE
            /\ UNCHANGED <<data, sleeping>>
            /\ IF previous_ok THEN UpdateListeners ELSE QuietListeners
       ELSE /\ last_ok' = TRUE /\ data' = "none" /\ sleeping' = FALSE
            /\ QuietListeners
    /\ UNCHANGED <<loaded, timer>>

\* self.data or self._known_inverters
Cached == IF data = "none" THEN "identity" ELSE data

\* Mutant: the night pause keeps the entities awake.
NightDataAwake(was_ok) ==
    IF last_ok THEN Refreshed(TRUE, Cached, FALSE, was_ok)
    ELSE Refreshed(FALSE, data, FALSE, was_ok)

\* _night_data.
NightData(was_ok) ==
    IF last_ok THEN Refreshed(TRUE, Cached, TRUE, was_ok)
    ELSE Refreshed(FALSE, data, TRUE, was_ok)

\* Mutant: only a finished poll ends the sleep.
StartRefreshAsleep ==
    /\ previous_ok' = last_ok
    /\ IF daylight
       THEN /\ poll' = "queued"
            /\ timer' = "off"
            /\ QuietListeners
            /\ UNCHANGED <<loaded, last_ok, sleeping, data>>
       ELSE NightData(last_ok)

\* _async_update_data up to the gate. The timer, if it fired, is used up.
StartRefresh ==
    /\ previous_ok' = last_ok
    /\ IF daylight
       THEN /\ poll' = "queued"
            /\ sleeping' = FALSE
            /\ timer' = "off"
            /\ QuietListeners
            /\ UNCHANGED <<loaded, last_ok, data>>
       ELSE NightData(last_ok)

\* async_setup_entry, by Home Assistant's start or its next try.
SetupEntry ==
    /\ ~loaded /\ ~reauth
    /\ poll = "idle"
    /\ StartRefresh
    /\ UNCHANGED <<skyVars, reauth, reconciled, service, restarts>>

TimerFires ==
    /\ loaded
    /\ poll = "idle"
    /\ timer # "off"
    /\ StartRefresh
    /\ UNCHANGED <<skyVars, reauth, reconciled, service, restarts>>

\* The gate gives the adapter to the refresh, or refuses it after sunset.
PollStarts ==
    /\ poll = "queued"
    /\ RadioFree
    /\ \/ /\ daylight
          /\ poll' = "session"
          /\ QuietListeners
          /\ UNCHANGED <<loaded, previous_ok, timer, last_ok, sleeping, data>>
       \/ /\ ~daylight
          /\ NightData(previous_ok)
          /\ UNCHANGED previous_ok
    /\ UNCHANGED <<skyVars, reauth, reconciled, service, restarts>>

\* The inverters answered.
PollSucceeds ==
    /\ poll = "session"
    /\ Refreshed(TRUE, IF daylight THEN "live" ELSE "stale", sleeping,
                 previous_ok)
    /\ UNCHANGED <<skyVars, previous_ok, reauth, reconciled, service,
                   restarts>>

\* UpdateFailed or ConfigEntryError: unreachable, or another topology.
PollFails ==
    /\ poll = "session"
    /\ Refreshed(FALSE, data, sleeping, previous_ok)
    /\ UNCHANGED <<skyVars, previous_ok, reauth, reconciled, service,
                   restarts>>

\* An attempt failed, and the gate refuses the next one: the sun has set.
PollPaused ==
    /\ poll = "session"
    /\ ~daylight
    /\ NightData(previous_ok)
    /\ UNCHANGED <<skyVars, previous_ok, reauth, reconciled, service,
                   restarts>>

\* ConfigEntryAuthFailed.
PollRefused ==
    /\ poll = "session"
    /\ AuthFailed
    /\ UNCHANGED <<skyVars, previous_ok, reconciled, service, restarts>>

\* Mutant: sunset publishes the cached data whatever happened before.
EnterNightAlways ==
    /\ sunset_due
    /\ sunset_due' = FALSE
    /\ sleeping' = TRUE
    /\ data' = Cached
    /\ last_ok' = TRUE
    /\ timer' = "night"
    /\ UpdateListeners
    /\ UNCHANGED <<daylight, today, loaded, poll, previous_ok, reauth,
                   reconciled, service, restarts>>

\* Mutant: a failing entry loses its timer at sunset.
EnterNightUnscheduled ==
    /\ sunset_due
    /\ sunset_due' = FALSE
    /\ sleeping' = TRUE
    /\ IF last_ok
       THEN data' = Cached /\ timer' = "night"
       ELSE timer' = "off" /\ UNCHANGED data
    /\ UNCHANGED last_ok
    /\ UpdateListeners
    /\ UNCHANGED <<daylight, today, loaded, poll, previous_ok, reauth,
                   reconciled, service, restarts>>

\* Mutant: sunset publishes cached data without putting the entry to sleep.
EnterNightAwake ==
    /\ sunset_due
    /\ sunset_due' = FALSE
    /\ IF last_ok
       THEN data' = Cached /\ timer' = "night"
       ELSE UNCHANGED <<data, timer>>
    /\ UNCHANGED <<last_ok, sleeping>>
    /\ UpdateListeners
    /\ UNCHANGED <<daylight, today, loaded, poll, previous_ok, reauth,
                   reconciled, service, restarts>>

\* async_enter_night. async_set_updated_data arms the timer anew, also while
\* a refresh is under way.
EnterNight ==
    /\ sunset_due
    /\ sunset_due' = FALSE
    /\ sleeping' = TRUE
    /\ IF last_ok
       THEN data' = Cached /\ timer' = "night"
       ELSE UNCHANGED <<data, timer>>
    /\ UNCHANGED last_ok
    /\ UpdateListeners
    /\ UNCHANGED <<daylight, today, loaded, poll, previous_ok, reauth,
                   reconciled, service, restarts>>

-----------------------------------------------------------------------------
(* The archive task, _async_reconcile_previous_day.                        *)

\* The gate opens the next session of the task; after sunset it refuses with
\* an SMAProtocolError, and the task gives up.
TaskSession ==
    /\ task \in {"clock_queued", "import_queued"}
    /\ RadioFree
    /\ task' = IF ~daylight THEN "none"
               ELSE IF task = "clock_queued" THEN "clock_session"
               ELSE "import_session"
    /\ UNCHANGED <<skyVars, loaded, refreshVars, shown, reauth, target,
                   attempt_age, reconciled, service, restarts>>

\* async_sync_clock succeeded, whatever it found; the import is requested.
ClockChecked ==
    /\ task = "clock_session"
    /\ task' = IF daylight THEN "import_queued" ELSE "none"
    /\ UNCHANGED refreshVars
    /\ WriteStates
    /\ UNCHANGED <<skyVars, loaded, reauth, target, attempt_age, reconciled,
                   service, restarts>>

\* The archive was read. An incomplete series ends the task.
ArchiveRead ==
    /\ task = "import_session"
    /\ task' \in {"recording", "none"}
    /\ UNCHANGED refreshVars
    /\ WriteStates
    /\ UNCHANGED <<skyVars, loaded, reauth, target, attempt_age, reconciled,
                   service, restarts>>

\* A session raised an SMAProtocolError, of whatever kind.
TaskFails ==
    /\ task \in {"clock_session", "import_session"}
    /\ task' = "none"
    /\ UNCHANGED <<skyVars, loaded, refreshVars, shown, reauth, target,
                   attempt_age, reconciled, service, restarts>>

\* The statistics are written and the day is done, unless the owned serials
\* changed while the recorder was busy.
Recorded ==
    /\ task = "recording"
    /\ task' = "none"
    /\ reconciled' \in {target, reconciled}
    /\ UNCHANGED <<skyVars, loaded, refreshVars, shown, reauth, target,
                   attempt_age, service, restarts>>

-----------------------------------------------------------------------------
(* A service call, get_archive or import_archive.                          *)

ServiceCalled ==
    /\ loaded /\ daylight
    /\ service = "idle"
    /\ service' = "queued"
    /\ UNCHANGED <<skyVars, loaded, refreshVars, shown, reauth, archiveVars,
                   reconciled, restarts>>

ServiceSession ==
    /\ service = "queued"
    /\ RadioFree
    /\ service' = IF daylight THEN "session" ELSE "idle"
    /\ UNCHANGED <<skyVars, loaded, refreshVars, shown, reauth, archiveVars,
                   reconciled, restarts>>

\* async_read_archive calls the listeners when it succeeded.
ServiceEnds ==
    /\ service = "session"
    /\ service' = "idle"
    /\ UNCHANGED refreshVars
    /\ UpdateListeners \/ QuietListeners
    /\ UNCHANGED <<skyVars, loaded, reauth, reconciled, restarts>>

-----------------------------------------------------------------------------
(* The surroundings.                                                       *)

Older(values) == IF values = "live" THEN "stale" ELSE values

\* Values measured by day are stale once the night has begun. The callback is
\* tracked from set-up on.
Sunset ==
    /\ daylight
    /\ daylight' = FALSE
    /\ sunset_due' = loaded
    /\ data' = Older(data) /\ shown' = Older(shown)
    /\ UNCHANGED <<today, loaded, poll, previous_ok, timer, last_ok, sleeping,
                   reauth, archiveVars, reconciled, service, restarts>>

Midnight ==
    /\ ~daylight
    /\ today <= MaxDays
    /\ today' = today + 1
    /\ UNCHANGED <<daylight, sunset_due, loaded, refreshVars, shown, reauth,
                   archiveVars, reconciled, service, restarts>>

\* A night outlasts a poll and the longest scan interval.
Sunrise ==
    /\ ~daylight /\ ~sunset_due
    /\ poll = "idle" /\ timer # "day"
    /\ daylight' = TRUE
    /\ UNCHANGED <<sunset_due, today, loaded, refreshVars, shown, reauth,
                   archiveVars, reconciled, service, restarts>>

Tick ==
    /\ attempt_age < RetryInterval
    /\ attempt_age' = attempt_age + 1
    /\ UNCHANGED <<skyVars, loaded, refreshVars, shown, reauth, task, target,
                   reconciled, service, restarts>>

\* The user enters the new password: the entry is reloaded.
Reauthenticated ==
    /\ reauth
    /\ reauth' = FALSE
    /\ loaded' = FALSE
    /\ sunset_due' = FALSE
    /\ poll = "idle"
    /\ timer' = "off" /\ last_ok' = TRUE /\ sleeping' = FALSE /\ data' = "none"
    /\ shown' = "unavailable"
    /\ task' = "none" /\ attempt_age' = RetryInterval
    /\ service = "idle"
    /\ UNCHANGED <<daylight, today, poll, previous_ok, target, reconciled,
                   service, restarts>>

\* Home Assistant restarts. Options survive, the coordinator does not.
Restart ==
    /\ restarts < MaxRestarts
    /\ restarts' = restarts + 1
    /\ loaded' = FALSE
    /\ sunset_due' = FALSE
    /\ poll' = "idle" /\ timer' = "off" /\ last_ok' = TRUE
    /\ sleeping' = FALSE /\ data' = "none"
    /\ shown' = "unavailable"
    /\ reauth' = FALSE
    /\ task' = "none" /\ attempt_age' = RetryInterval
    /\ service' = "idle"
    /\ UNCHANGED <<daylight, today, previous_ok, target, reconciled>>

Refresh == SetupEntry \/ TimerFires
PollEnds == PollSucceeds \/ PollFails \/ PollPaused \/ PollRefused
TaskStep == ClockChecked \/ ArchiveRead \/ TaskFails \/ Recorded

Next ==
    \/ Refresh \/ PollStarts \/ PollEnds \/ EnterNight
    \/ TaskSession \/ TaskStep
    \/ ServiceCalled \/ ServiceSession \/ ServiceEnds
    \/ Sunset \/ Midnight \/ Sunrise \/ Tick \/ Reauthenticated \/ Restart

Spec == Init /\ [][Next]_vars

\* Timers fire and tasks that are ready run; the lock of the gate is FIFO, so
\* a queued task gets its turn however often others come in between, and every
\* session ends (EveryCallEnds of AdapterGate).
Fairness ==
    /\ WF_vars(Refresh) /\ WF_vars(EnterNight) /\ WF_vars(Tick)
    /\ SF_vars(PollStarts) /\ WF_vars(PollEnds)
    /\ SF_vars(TaskSession) /\ WF_vars(TaskStep)
    /\ SF_vars(ServiceSession) /\ WF_vars(ServiceEnds)

FairSpec == Spec /\ Fairness

-----------------------------------------------------------------------------
(* What must hold.                                                         *)

\* While a connection fails nothing is shown as measured, whichever listener
\* call wrote the states last (README: "unavailable overnight, while a
\* connection fails").
FailureHidden == ~last_ok => shown = "unavailable"

\* Values of an earlier day are on display only in the two windows the code
\* leaves: after dusk until the sunset callback or the next refresh runs, and
\* in the morning while the first poll is under way and another task calls the
\* listeners.
StaleIsTransient ==
    shown = "stale" =>
        \/ ~daylight /\ (sunset_due \/ timer = "day")
        \/ daylight /\ poll # "idle"

\* A loaded entry is never left without a next refresh, unless it waits for
\* a new password: no path through sunset, failures and the night pause loses
\* the timer.
NextRefreshKnown == loaded /\ poll = "idle" => timer # "off" \/ reauth

\* "Cached night-time data does not count as recovery from a preceding
\* daytime failure": a failed entry becomes healthy only by a poll that
\* reached the inverters, or with a new coordinator.
RecoveryIsReal ==
    [][~last_ok /\ last_ok' => poll = "session" \/ ~loaded']_vars

\* "Live measurements and events are unavailable overnight": once the sunset
\* callback has run, or had no reason to.
UnavailableOvernight == ~daylight /\ ~sunset_due => shown = "unavailable"

\* After dusk the measurements are hidden, also when the callback was missed.
HiddenInTheEnd == ~daylight ~> (shown = "unavailable" \/ daylight)

\* Every morning the entities come back with values of the day, or the failure
\* is visible, or the password is asked for.
MorningComesAlive ==
    daylight /\ loaded ~> \/ ~daylight \/ ~loaded \/ shown = "live"
                          \/ ~last_ok \/ reauth

\* A day whose reconciliation failed is taken up again by a later poll.
ReconcileRetried ==
    daylight /\ loaded /\ reconciled # Yesterday
        ~> \/ task # "none" \/ reconciled = Yesterday
           \/ ~daylight \/ ~loaded \/ ~last_ok \/ reauth
=============================================================================
