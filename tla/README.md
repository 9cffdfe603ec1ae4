# A verification model of sma-net2-bluetooth

TLA+ modules, TLC configurations and TLAPS proofs for the Home Assistant
integration `sma_bluetooth` and its client library `sma-net2`. Paths without a
directory are under `src/custom_components/sma_bluetooth/`, except
`protocol.py` and `discovery.py`, which are under
`src/packages/sma-net2/src/sma_net2/`.

Contents: [the system](#the-system), [modules](#modules-and-how-they-correspond-to-the-code),
[runs](#what-is-checked), [bounds](#bounds), [fairness](#fairness),
[proofs](#what-is-proved), [disagreements](#where-code-and-documentation-disagree),
[not modelled](#what-is-not-modelled), [what is left](#what-is-left).

To repeat a run: `tlc -config gate.cfg MCAdapterGate.tla` (each run's module and
cfg are in `PROJECT.json`). To repeat the proofs: `tlapm AdapterGateProofs.tla`
and likewise for the other seven modules named `*Proofs`.

## The system

SMA inverters with Bluetooth Classic are polled by Home Assistant through one
RFCOMM adapter. Everything runs in one asyncio event loop, so code between two
`await`s is atomic and the hard behaviour is what may happen *at* an `await`.

| Component | State | Operations | Talks to |
| --- | --- | --- | --- |
| adapter gate, `gateway.py` | lock and its queue, time of the last close, active address, failure counter, time of the last recovery, issue flag | `async_run` and the steps inside it | client, adapter recovery, issue registry; called by coordinators and config flows |
| daylight, `daylight.py` | none | `daylight_schedule` | Home Assistant's sun; called by all |
| ownership, `ownership.py` | none of its own: options of entries, entity and device registry, issue registry | `async_reconcile_ownership`, `async_refresh_overlap_issues`, `async_transfer_departing_entry`, NetID issues | called by coordinator, lifecycle and config flows |
| coordinator, `coordinator.py` | data, last success, sleeping, interval, copies of the entry's topology, owned serials | `_async_update_data`, `_apply_session_metadata`, `async_enter_night`, `async_read_archive`, `async_sync_clock` | gate, ownership, listeners |
| lifecycle, `__init__.py` | options `last_archive_*`, `last_clock_*`, the archive task | migration, set-up, unload, removal, device removal, archive scheduling, two services | coordinator, recorder |
| config flows, `config_flow.py` | pending probe of each flow | discover, probe, confirm, reconfigure, reauthenticate | gate, discovery, ownership |
| entities, `sensor.py`, `event.py`, `entity.py` | last written state, keys already added | add entities, availability | coordinator |
| client, `protocol.py` | socket, devices, packet id, authenticated or not | session, queries, clock, archive | inverters |
| discovery, `discovery.py` | D-Bus connection, adapters it has started | `async_discover_sma_devices` | BlueZ; not through the gate |
| archive helpers, `archive.py` | none | hourly values, cumulative sums, completeness | lifecycle |

What is hard, and what makes each part correct:

* **Gate.** Several tasks, cancellation and a deadline at every await, sunset
  while queued or asleep, three attempts, a power cycle with a cooldown, a
  restart with a persistent issue. Correct: one session at a time, the release
  pause before each, nothing opened at night, the lock never leaked, the user
  told of a persistent failure, every call ends.
* **Ownership.** Entries decide alone, at their own polls, from registry rows
  and snapshots that flows, removals and other polls change. Correct: overlaps
  are always shown, an entry owns only what it claims, history is not taken
  from a claimant, entries agree in the end.
* **Coordinator.** Sunset callbacks, polls that cross sunset, listeners called
  by other tasks, cached data at night. Correct: a failure hides values and is
  not undone by the cache, stale values are not shown, the timer is never lost.
* **Topology.** What an entry stores, what its coordinator copied, what a flow
  is about to confirm and what the plant is may all differ. Correct: unique ids
  stay distinct, a confirmed NetID is not overwritten, the NetID issues agree
  with the plant in the end, no inquiry is left running.
* **Archive.** An import reads the archive, then the rows around its range, and
  its own rows are applied later by another thread. Correct: sums are
  continuous, a recorded day is in the Recorder, `complete` means complete.
* **Client.** Answers of several inverters on one connection, late, twice or
  out of order; a clock that a retry must not set again. Correct: no answer
  stands in for another, a session that succeeds is complete, a clock is said
  to be adjusted only when it is, logoff exactly when logged on.

The hazards are listed in `PROJECT.json`, each with its line and the properties
aimed at it.

## Modules and how they correspond to the code

| Module | Role |
| --- | --- |
| `RadioLease` | abstract specification: what the gate promises about the radio |
| `AdapterGate` | `gateway.py`, one action per stretch between awaits |
| `Ownership` | `ownership.py` with its callers in coordinator, lifecycle, flows and platforms |
| `Coordinator` | `coordinator.py`, archive scheduling in `__init__.py`, entity states |
| `Discovery` | `discovery.py` with BlueZ's inquiries |
| `ConfigFlow` | `config_flow.py`, the session checks of `coordinator.py`, the NetID repairs of `ownership.py`, migration to removal of an entry; extends `Discovery` |
| `ArchiveImport` | `archive.py`, the import and read operations of `__init__.py`, the Recorder |
| `SessionView` | abstract specification: a client session as the gate depends on it |
| `ClientSession` | the sessions of `SMAClassicClient` in one call of the gate |
| `AdapterGateProofs`, `OwnershipProofs`, `CoordinatorProofs`, `ConfigFlowProofs`, `ConfigTypeProofs`, `ArchiveProofs`, `ArchiveSumsProofs`, `ClientSessionProofs` | theorems and their proofs |
| `MCAdapterGate`, `MCOwnership`, `MCCoordinator`, `MCConfigFlow`, `MCArchiveImport`, `MCClientSession` | instances for TLC |

`PROJECT.json` maps every definition to the lines it stands for. What one module
takes for granted another one shows: `ClientSession` implements `SessionView`,
whose three places `opening`, `operating` and `closing` are the places of a
caller in `AdapterGate`; `Coordinator`, `ConfigFlow` and `ArchiveImport` have
one session on the radio at a time and sessions that end, which is
`MutualExclusion` and `EveryCallEnds` of the gate.

**AdapterGate.** A caller is a task inside `async_run`; `pc` names the await it
is at. `Call` is the entry up to the lock, `Acquire` the lock with the second
daylight check and the first release pause, `Wake` the end of a pause,
`Opened`/`OpeningFails` the end of connecting and logging on, `OperationEnds`
the end of `operation(client)` and the start of the logoff, `LoggedOff` the end
of that. `Deadline` is `asyncio.timeout` and `Cancel` cancellation, at every
await they can hit. `Settle` is the `finally` of `_async_run_once` with what
`async_run` then does, one disjunct per branch (`PassOn`, `Succeed`, `Retry`,
`AnsweredInError`, `Unreachable`, `RecoveryFailed`, `RecoveredInError`).
Timestamps are ages that stop at the limit they are compared with; exceptions
are members of `Results`. The failure counter stops at the recovery threshold,
above which the code never looks.

**Ownership.** `known` is the snapshot in an entry's options, `data` the
serials of its coordinator's data, `rows[s]` the entries with registry rows of
`s` (several, because rows are per measurement), `overlap` the issues,
`pending` probes that wait for confirmation, `visible` the physical plant.
`Poll` is the tail of a successful `_async_update_data`, `SetupEntry` the
first refresh by day or night with the reconciliation after it. `failing` are
the entries no refresh succeeds for from now on: `Fails` puts an entry there at
any time (out of reach, another NetID, a refused password, a set-up that ended
in an error and is not repeated, a disabled entry), `Recovers` takes it out.
Such an entry keeps its snapshot and its rows and with them its claims.
`Remove` is `async_remove_entry` after Home Assistant has dropped the entry,
then the removal of its rows. `ConfirmReconfigure` writes the new snapshot and
unloads in one step; that a coordinator of the old data goes on until the reload
(config_flow.py:399) is in `ConfigFlow`, not here.

**Coordinator.** `poll` and `task` say where the refresh and the archive task
are; the gate is reduced to `RadioFree`, one session at a time. `Refreshed` and
`AuthFailed` are Home Assistant's `DataUpdateCoordinator` as this code relies on
it. `EnterNight` is `async_enter_night`, `ScheduleArchiveReconcile` the
listener of the same name, `WriteStates` what entities write when listeners are
called. `data` and `shown` hold `live`, `stale`, `identity` (a snapshot without
values) or nothing; `Sunset` turns `live` into `stale`.

**ConfigFlow.** `netid` is the plant, `entry` the stored data and options, `copy`
what a coordinator took of them when it was built, `issues` the NetID issues,
`reload` the reloads Home Assistant has yet to run, `flow` the config flows and
`radio` the session in progress with what it found. A session is three steps:
it opens (`PollOpens`, `ProbeOpens`; `PollRefused` where the network mode meets
NetID 1), `_apply_session_metadata` accepts it or raises (`SessionAccepted`,
`NetIdChangeSeen`, `OtherInverterSeen`), and the operation ends or fails
(`OperationEnds`, `OperationFails`). What is learned goes to the entry's present
data but is decided by the copies, as in coordinator.py:283. `StartFlow` to
`Confirm`, `ConfirmReconfigure` and `Reauthenticated` are the steps of a flow,
`Migrate`, `SetupStarts`, `Reload` and `Remove` the life of an entry. After a
refused password a loaded entry is `unpolled`: Home Assistant arms no refresh
until the entry is reloaded, by a reauthentication, a reconfiguration or the
user (`PasswordRefused`; at most one reauthentication is open per entry). A
set-up that ends in `ConfigEntryError` or with a refused password is `error` or
`refused` and not repeated either.

**Discovery.** Every await of `async_discover_sma_devices` may fail or be
cancelled: while an adapter is started (`StartFails`, whether or not BlueZ did
start it), during the wait (`Waited`), inside the loop that stops them
(`StopDiscovery` leaves an adapter that refuses, `StopCancelled` the loop).
`Disconnect` is the `finally` that closes the D-Bus connection.

**ArchiveImport.** Time is counted in slots, hours and days of unequal length.
A task waits for the adapter, reads (`ReadEnds`, `ReadFails`), reads the rows before and after its range in either order (`ReadBefore`,
`ReadAfter`), hands its rows to the Recorder (`HandOver`), whose thread applies
them in order (`Apply`), and ends (`FinishReconcile`, `FinishImport`).
`get_archive` has its records in `GetRead` and judges them in `GetAnswered`,
once its session is closed: hours, and midnight, may pass in between. The
records themselves are fixed at one moment. The functions of `archive.py` are operators with the same names. The Recorder's own
hourly rows (`HourPasses`) are external.

**ClientSession.** `asked` records the requests with an id; `Answer(d, r)`
allows any inverter to answer any request it was sent, at any later time and any
number of times, and `FromRequest` is the filter on the request id. `position`
counts queries class by class and inverter by inverter as the two loops do; an
archive read does the same over periods. The clock has no request id: `heard`
holds the readings an answer may still bring, `in_flight` a command that may
land at any time. After a failure `Again` starts over with a new client, as the
gate does.

## What is checked

| Run | Result | What it shows |
| --- | --- | --- |
| `gate` | passes, 401 064 states | inductive invariant, exclusion, no leaked lock, issue known, persistent failure reported, refinement of `RadioLease`, every call ends |
| `ownership` | passes, 662 704 states | no hidden overlap, owned is claimed, rows follow a sole claimant, resolved issues cleared, one working owner in the end, or none under an issue while a failing entry claims the serial |
| `coordinator` | passes, 153 028 states | failures hidden, stale values only in two named windows, timer never lost, recovery is real; hidden after dusk, live or failed in the morning, reconciliation retried |
| `config` | passes, 647 372 states | unique ids distinct, no inquiry left, confirmed NetID kept; mismatches reported and matches cleared in the end |
| `archive` | passes, 5 218 563 states | continuous sums unless imports overtake each other, joined to history, recorded days imported, `complete` right on either side of midnight |
| `client` | passes, 853 026 states | identification, completeness, a verified clock set once, refinement of `SessionView` |
| `gate_restart_issue`, `ownership_transfer`, `coordinator_overnight`, `config_learned`, `archive_race`, `client_faults` | violated | the disagreements below |

Every property of a passing run has a mutant: an operator next to the
definition it changes, with a plausible bug (a dropped check, a wrong sign, a
missing reset), under which the run finds the property violated.

How to read some of them:

* `StaleIsTransient` names two windows the code leaves: between dusk and the
  sunset callback, and in the morning from `sleeping = False`
  (coordinator.py:180) until the poll is through, when the archive task or a
  service calls the listeners.
* `RowsFollowSoleClaimant` is about the integration's own steps; user changes
  are what `ownership_transfer` looks at.
* `ConfirmedTopologyKept` has an exception for a coordinator that was built
  before the entry had a NetID. `config_learned` is that exception: the session
  may be older than the confirmation.
* `ContinuousUnlessRaced` is conditional on a history variable, `raced`, which
  collects how imports have overtaken each other: `"read"` when rows are written
  between another import's reads and its own rows, `"order"` when a later day is
  written before an import of earlier days. Nothing in the code excludes either.
  In the second case the earlier days, computed later, are joined to the row
  before them and therefore not to the later day. `archive_race` drops the condition.
* `JoinsHistory` is about single imports and needs only the first of the two.
* `OneOwnerInTheEnd` says of every serial that a working entry reads that exactly
  one of the working entries owns it, or none does: that is allowed only while an entry that does not
  work claims the serial too, and then the issue of the overlap is shown. The
  code does no better: see "Met while reading". `ResolvedIssueCleared` asks for
  one entry that works, because only a poll clears issues.
* `MismatchReported` and `MatchClears` leave out entries that wait for a
  password (`unpolled` or `refused`): no refresh of theirs is to come, so they
  neither see a mismatch nor clear an issue. `MatchClears` leaves out `error` as
  well: Home Assistant does not repeat a set-up that ended in
  `ConfigEntryError`, so an entry whose NetID was turned back stays in error,
  with its issue, until the user reloads it.
* `PastAnswerRight` relates two moments of a `get_archive`: a range of days over
  before its records were read is called complete exactly with every slot; a
  range that was not over then but is when it is judged, because midnight has
  passed in between, is never called complete.
* `EveryCallEnds`, `HiddenInTheEnd`, `MorningComesAlive`, `ReconcileRetried`,
  `OneOwnerInTheEnd`, `ResolvedIssueCleared`, `MismatchReported` and
  `MatchClears` are liveness or stability properties under the fairness below.

### Bounds

* Gate: three callers (poll, archive task, probe of a flow) so that one holds,
  one waits and a third overtakes nobody; the code's three attempts and
  threshold two; a release delay of two ticks, so that ages between zero and
  the limit exist, and a cooldown of nine, which three attempts with their
  pauses do not exhaust, so that a recovery is refused for it; one restart.
* Ownership: two entries and two serials, so that snapshots overlap in part and
  each entry can be the older one; `Created` orders entries differently from
  their ids, because the code uses both orders; three changes by user or plant
  (`MaxChanges`), the least for two creations and a change after them. Entry ids
  are not reused. Three entries, the least for a transfer to a successor while
  another entry claims the serial, are in `ownership_transfer`.
* Coordinator: two nights (`MaxDays` 3) and a retry interval of two ticks. Only
  "the previous day or not" matters of a date. One restart.
* ConfigFlow: two inverters on different NetIDs, an entry of the old schema and
  one that a flow may create, connection mode `auto` (the migration adds
  `network`), one flow at a time and two in all, one wheel turned or one reload
  or removal. Between them a reconfiguration can follow a migration and overtake
  a session. One adapter for discovery.
* ArchiveImport: four days of one, two, one and one hours with two records each,
  so that a day differs from 86 400 seconds both ways and an import of one day
  can overtake one of the two days before it; the meter of one inverter starts
  again at zero in the second and in the last day; a lookback of two hours, shorter than a gap
  two nights without rows make; two calls; one change of ownership. `ReadsApart`
  lets `get_archive` run alone: it writes nothing, and imports only delay it.
* Client: two inverters of a network, a third in range that may or may not be
  in the topology, two query classes or periods, all three connection modes,
  three tries of a query, three sessions.

The theorems lift these bounds for the properties they are about.
`CHECK_DEADLOCK FALSE` is set where the modelled system ends: a client's call
is over, the bounded days, calls and user changes run out.

### Fairness

* Gate: the event loop runs ready tasks and timers fire (weak
  fairness on `Tick` and on each caller's `Step`). `Step` has the deadline, since
  every call in the integration passes a timeout, and the end of
  `_async_recover_adapter`, whose D-Bus calls have timeouts of their own. Nothing
  is assumed of the inverter, the sun or the user: `Opened`, `OperationEnds` and
  `Cancel` are not fair.
* Ownership: Home Assistant sets up, again if need be, and polls the entries that
  are not `failing`. Of the others nothing is assumed: `Fails` may hit any entry
  at any time and nothing makes it recover, so that set-ups that are not
  repeated (coordinator.py:188-203), disabled entries and inverters out of reach
  are all in the run.
* Coordinator: timers fire and ready tasks run (weak); a task in the gate's FIFO
  queue gets its turn however often others come in between (strong); sessions
  end, which is `EveryCallEnds` of the gate. `Sunrise` waits until no poll is
  under way and no daytime timer is armed: a night outlasts both. Nothing makes
  the sun rise or set.
* ConfigFlow: Home Assistant migrates, sets up and reloads entries and sessions
  end (weak); an entry that polls again and again gets a session, or is refused
  one for its mode, again and again (strong on `PollOpens` and `PollRefused`:
  the gate's queue is FIFO, and a plant that is never reached proves nothing
  about its NetID). Both need an entry that is loaded or set up: one that is
  `unpolled` has no timer and gets no session. Users need not go on with a flow,
  and need not give a password.

## What is proved

For every value of the constants that the named assumptions (`GateConstants`,
`OwnershipConstants`, `CoordinatorConstants`, `ConfigAssumption`,
`ArchiveAssumption`, `ClientConstants`) allow:

| Module | Invariant | Properties |
| --- | --- | --- |
| `AdapterGateProofs` | `GateInv`, with `TypeOK` | `MutualExclusion`, `NoLeakedLock`, `IssueKnown`, `PersistentFailureReported`, `Spec => Lease!LeaseSpec` |
| `OwnershipProofs` | `OwnershipInv`, with `TypeOK` | `NoHiddenOverlap`, `OwnedIsClaimed`, `RowsFollowSoleClaimant` |
| `CoordinatorProofs` | `CoordinatorInv`, with `TypeOK` | `FailureHidden`, `StaleIsTransient`, `NextRefreshKnown`, `RecoveryIsReal` |
| `ConfigFlowProofs` | `ConfigInv` | `UniqueIdsDistinct`, `NoInquiryLeftBehind`, `ConfirmedTopologyKept` |
| `ConfigTypeProofs` | `TypeInv`, with `TypeOK` | |
| `ArchiveProofs` | `ArchiveInv` | `RecordedDayImported`, `PastAnswerRight` |
| `ArchiveSumsProofs` | `SumsInv`, with `ArchiveInv` | `TypeOK`, `ContinuousUnlessRaced`, `JoinsHistory` |
| `ClientSessionProofs` | `ClientInv`, with `TypeOK` | `IdentifiedAll`, `CompleteOnSuccess`, `AdjustedIsVerified`, `WrittenOnce`, `Spec => View!ViewSpec` |

Each module proves `Init => Inv` and `Inv /\ [Next]_vars => Inv'` action by
action and derives the rest. Why the strengthenings are needed:

* **Gate.** Mutual exclusion is not inductive: a second caller may only enter
  because the lock is free, and a free lock must mean nobody is inside
  (`NoLeakedLock`). That a session opens only after the release delay needs,
  for a caller asleep, that its remaining sleep and the age of the last close
  add up (`PauseCoversRelease`), and that the age stays at its limit while a
  session is open (`ReleasedBeforeOpen`); that in turn needs `MutualExclusion`,
  since only the end of *another* session could reset the age.
  `RecoveryIsEarned` ties the attempt after recovery to the counter, from which
  `PersistentFailureReported` follows in the branches of the last attempt. The
  refinement maps callers in `OnAir` to sessions and `recovering` to a power
  cycle, and shows each action to be a step of the lease or a stutter, `Settle`
  into recovery being `CloseAndCycle`.
* **Ownership.** An entry owns what it claims only through its coordinator's
  data, because the removal of a device writes the snapshot anew from them:
  `DataClaimed` is that link. A flow adds no overlap because it checks again
  when it is confirmed (`UnclaimedAddsNone`).
* **Coordinator.** What is on display follows from what the last listener call
  saw: `StaleDataHidden` says that stale data would be hidden by any call but in
  the two windows, `PreviousKept` that a refresh knows whether the failure it
  reports is new, `UnloadedIsBlank` what a set-up starts from.
* **ConfigFlow.** `Shapes` keeps every field of an entry where updates expect
  it; unique ids are written by migration-free creation and by confirmations
  only, each of which looks at all other entries, so `UniqueIdsDistinct` is
  inductive with it. `NoInquiryLeftBehind` is inductive because every way out
  of a discovery goes through `Disconnect`. `NetWriters` finds the three
  actions that change a NetID. The type invariant takes more (`TypeInv`): that
  a confirmed flow has an address and the result of a session that was answered,
  that a coordinator at work was built from an entry with an address, and that
  the session on the radio belongs to an entry that polls or a flow that probes.
  It needs flows and entries to have different names (`ConfigAssumption`).
* **Archive.** `RowsAreMeters` is stronger than what the reconciliation needs:
  every row, the Recorder's own or imported, has the meter's state at the end of
  its hour, so nothing that is applied later can spoil a recorded day. It rests
  on `HourlyStates`: the last record of an hour in a range of whole hours is the
  hour's last slot. `DayOK` follows one day through the phases of the task.
  `PastAnswerRight` has an invariant of its own, `GetInv`: what a read has
  delivered, and what it is judged for, was asked for before it was read, no
  slot later than the hour of the read is among it, and days do not go back.
* **Archive sums.** That the history is continuous is not inductive: rows are
  computed two steps before they are written, from a row that was read two steps
  before that. `NotesOK` says that the row a task has noted is still the last one
  before its range, `JobOK` that the rows it hands over continue each other and
  fit that row; both hold while nothing was written in between (`"read"`). Rows
  go behind everything imported so far (`InOrder`, while not `"order"`) and only
  completed days are imported (`ImportedPast`), so the Recorder's own rows, which
  are of the present hour, change no row before a range or in it. A new row therefore
  has at most one imported neighbour outside its range, the one before.
  On the way there are facts about the operators alone: `SumsJoin`
  (`cumulative_statistic_sums` keeps the promise of its docstring for a range of
  any length), `CompletedDays` and, in `ArchiveProofs`, `ArchiveChunksCover`
  (the periods of an import and the chunks of `get_archive` have every slot once).
  `increments` is recursive over the hours of a range. The library's induction
  theorems take an operator as a parameter, so `IncrementsAdd` argues by the least
  counterexample instead: `LeastNatural` finds it, and it contradicts the
  definition one hour earlier.
* **Client.** A query that is over was answered (`Querying`), which needs that
  the current request is the one of the current position, and, since the
  operation walks `devices`, that they are the topology without repetition
  (`Identification`). `Clocking` bounds what a late reading can show: one that is
  right can only be of the clock after the command.

Only model-checked: the eight liveness and stability properties (`EveryCallEnds`,
`HiddenInTheEnd`, `MorningComesAlive`, `ReconcileRetried`, `OneOwnerInTheEnd`,
`ResolvedIssueCleared`, `MismatchReported`, `MatchClears`). They rest on fairness,
and fairness on `ENABLED`, which the prover does not reason about. Every other
property of the passing runs is a theorem. The properties of the runs that find a
disagreement are false, so there is nothing to prove of them. No module uses a
RECURSIVE operator.

## Where code and documentation disagree

| Run | Code | Says otherwise |
| --- | --- | --- |
| `gate_restart_issue` | gateway.py:77: after a restart the persistent issue is never deleted | gateway.py:75 |
| `ownership_transfer` | ownership.py:325: rows are moved whoever else claims the serial | strings.json:127 |
| `coordinator_overnight` | \_\_init\_\_.py:553: no callback for a sunset during the first refresh | src/README.md:226 |
| `config_learned` | coordinator.py:283: a session older than a reconfiguration overwrites what was confirmed | src/README.md:205 |
| `archive_race` | \_\_init\_\_.py:160: two imports read each other's neighbouring rows before they are written, or a later day is written first | archive.py:59 |
| `client_faults` | protocol.py:635: transport errors in a query become protocol errors | API.md:133 |

Met while reading, without a run of their own:

* NetID issues of an entry that is removed are never deleted (\_\_init\_\_.py:594
  refreshes overlaps only; repairs.py:16 then closes on a stale issue only when
  the issue is gone), while strings.json tells the user to "Submit again after
  both actions."
* Two failures with an answered call between them, such as a wrong password,
  count as consecutive ones and power-cycle the adapter (gateway.py:213-216; the
  log at 119-120 says "consecutive").
* The archive task is also started by a failed poll's listener call
  (\_\_init\_\_.py:304; the docstring at 225 says after a successful one).
* `complete` of `get_archive` does not look for gaps in a range that ends today
  (\_\_init\_\_.py:477-483; src/README.md:272-273).
* Discovery does not pass the gate (config_flow.py:80; src/README.md:241-242).
* The reauthentication of a migrated entry, whose unique id has the old form, or
  of a network whose least serial does not answer, is aborted as another plant
  (config_flow.py:353-356; src/README.md:213-216).
* A reconciliation compares the number of serials, not the serials
  (\_\_init\_\_.py:273), so a swap of ownership in between passes;
  `RecordedDayImported` is about those that were managed throughout.
* An entry that cannot be polled, failed its set-up for good or is disabled keeps
  its snapshot and its rows, and ownership.py:202-209 keeps choosing it: a
  serial that another entry reads at every poll then has live entities nowhere
  until the user removes or mends the first one. The issue of the overlap is shown.
* A first reconciliation on a fresh install has no neighbouring row and starts
  its sums at zero; later rows of the Recorder are not joined to it.
* When the clock was set but its verification failed, the next attempt reports
  `within_tolerance` and `last_clock_sync_at` stays as it was.
* After a restart in the night the first poll may report a grid event from an
  unknown status (event.py:62-63, 92-104).

## What is not modelled

* Framing, escaping, checksums and record contents (`protocol.py` `_l1`,
  `_unescape`, `_parse_records`): an answer is whole, damaged or late, and its
  data are a model value. After a timeout inside a packet the client is modelled
  to read no answer at all: the rest of the packet is no header
  (protocol.py:409-413) and the session or query ends in an error. A timeout
  between two L1 fragments, after which the next one is taken for a packet of
  its own (protocol.py:434-437), is not told apart from that.
* In `ConfigFlow`, the sessions of the archive task, the clock and the services,
  which make the same checks as a poll's. In `ClientSession`, one clock for the
  plant: an answer of another inverter cannot be told from one of the same.
* That a deadline strikes while an operation that has succeeded logs off, and
  the gate repeats it: `AdapterGate` repeats the call without its operation,
  `ClientSession` has the operation without a deadline.
* In `Ownership`, a set-up that fails after its reconciliation, while the
  platforms are added (\_\_init\_\_.py:536-540).
* Single sensor values, diagnostic sensors and event transitions (`event.py`
  compares a value with the one before).
* Services over several entries: each is modelled for one. An entry that is
  unloaded while the walk is at another one has no `runtime_data`
  (\_\_init\_\_.py:437).
* Daylight interval arithmetic; schemas, defaults and wording of forms; the
  repairs flow, which changes no state of the integration; diagnostics, device
  registration, value types; tests and tools.
* Home Assistant's own handling of unique ids of entities: `AddEntities` adds a
  row for the entry and leaves others alone.
* A scan interval longer than a night: `Coordinator.Sunrise` waits for the
  daytime timer, and config_flow.py:168 bounds the interval only from below.
* What an inquiry does to an open RFCOMM connection, which is the controller's.
* Guards of device removal on the state of the last update: more behaviours are
  allowed than the code has.

## What is left

1. Framing: L1 packets and L2 fragments of several inverters, packets lost or
   cut by a timeout, below `ClientSession`.
2. Services over entries that are unloaded meanwhile.
3. A composition of `Coordinator` with `AdapterGate` in one module, instead of
   the two properties one takes from the other.
