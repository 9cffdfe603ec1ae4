--------------------------- MODULE ArchiveImport ---------------------------
(***************************************************************************
  The archive of the inverters and the statistics of the Recorder: the
  automatic reconciliation of the previous day, the import service and the
  read service of one entry, over the helpers of archive.py.

  Time is counted in slots, the five-minute records of the archive; an hour
  has SlotsPerHour of them and a local day starts at the hour DayStart[d],
  so a day may be longer or shorter than FullDay (daylight saving).  The
  Recorder keeps one row per serial and hour, the meter's state and a running
  sum.  Live rows are the Recorder's own (external); an import replaces the
  rows of its range.  An import is several steps: the archive read, which
  holds the adapter, two reads of neighbouring rows in the executor, the job
  handed to the Recorder, and the Recorder's thread that applies it.
 ***************************************************************************)
EXTENDS Integers, Sequences, FiniteSets, FiniteSetsExt

CONSTANTS
    Serial,        \* inverters the coordinator polls
    SlotsPerHour,  \* archive records of an hour
    FullDay,       \* hours in 86400 seconds
    DayStart,      \* [0..n -> hour]: local midnights, in order
    MeterValue,    \* [Serial -> [slot -> Nat]]: the meters' archive
    Lookback,      \* STATISTICS_ANCHOR_LOOKBACK, in hours
    MaxDays,       \* MAX_ARCHIVE_DAYS
    MaxCalls,      \* bound on the imports and reads of a behaviour
    MaxMoves       \* bound on the changes of ownership

Days == {d \in DOMAIN DayStart : d + 1 \in DOMAIN DayStart}
Hour(slot) == slot \div SlotsPerHour
SlotsOf(from, to) == from * SlotsPerHour .. to * SlotsPerHour - 1
LastHour == Max({DayStart[d] : d \in DOMAIN DayStart})
Hours == 0 .. LastHour - 1
Today(h) == Max({d \in DOMAIN DayStart : DayStart[d] <= h})

ASSUME ArchiveAssumption ==
    /\ SlotsPerHour \in Nat \ {0} /\ FullDay \in Nat \ {0}
    /\ Lookback \in Nat \ {0} /\ MaxDays \in Nat \ {0} /\ MaxCalls \in Nat /\ MaxMoves \in Nat
    /\ \E n \in DOMAIN DayStart : n \in Nat \ {0} /\ DOMAIN DayStart = 0..n
    /\ \A d \in DOMAIN DayStart : DayStart[d] \in Nat
    /\ \A c, d \in DOMAIN DayStart : c < d => DayStart[c] < DayStart[d]
    /\ MeterValue \in [Serial -> [SlotsOf(0, LastHour) -> Nat]]

Task == {"reconcile", "import", "get"}
Importing == {"reconcile", "import"}
Nothing == [none |-> TRUE]         \* Python's None
Free == "free"
Never == -1                        \* no date in the entry's options

VARIABLES
    hour,       \* the current hour
    rows,       \* Recorder statistics: [Serial -> [Hours -> row or Nothing]]
    live,       \* the Recorder's last own row of each serial
    queue,      \* jobs handed to the Recorder's thread, in order
    radio,      \* the task that holds the adapter, or Free
    owned,      \* coordinator.owned_serials
    task,       \* the tasks
    reconciled, \* options["last_archive_reconcile_date"]
    imported,   \* history: hours last written by an import
    raced,      \* history: how imports have overtaken each other
    calls,      \* bound: calls so far
    moves       \* bound: changes of ownership so far

vars == <<hour, rows, live, queue, radio, owned, task, reconciled,
          imported, raced, calls, moves>>
recorder == <<rows, live, imported>>
ownership == <<owned, moves>>

----------------------------------------------------------------------------
(* archive.py *)

Period(from, to) == [start |-> from, end |-> to]

\* Completed days before `today`, oldest first, by the wall clock: a period
\* is as long as its day.
completed_day_periods(today, days) ==
    [i \in 1..days |-> Period(DayStart[today - days + i - 1], DayStart[today - days + i])]

\* The read service cuts its range into pieces of 86400 seconds.
chunks(start, end) ==
    [i \in 1..((end - start + FullDay - 1) \div FullDay) |->
        Period(start + (i - 1) * FullDay,
               IF start + i * FullDay < end THEN start + i * FullDay ELSE end)]

expected_timestamps(periods) ==
    UNION {SlotsOf(periods[i].start, periods[i].end) : i \in DOMAIN periods}

\* The last value of every hour that has a record.
hourly_last_values(s, timestamps) ==
    [h \in {Hour(t) : t \in timestamps} |->
        MeterValue[s][Max({t \in timestamps : Hour(t) = h})]]

timestamp_series_complete(series, start, end, require_all_slots) ==
    LET reference == UNION series
    IN  /\ reference # {}
        /\ \A timestamps \in series : timestamps = reference
        /\ require_all_slots => reference = SlotsOf(start, end)

increase(old, new) == IF new >= old THEN new - old ELSE new

\* Mutant: the row after the range is preferred to the row before it.
first_sumFollowing(previous, following, first, last, total) ==
    IF following # Nothing
    THEN following.sum - (total + increase(last, following.state))
    ELSE IF previous # Nothing THEN previous.sum + increase(previous.state, first) ELSE 0

\* Mutant: the energy between the last hour and the row after it is left out.
first_sumUpToLast(previous, following, first, last, total) ==
    IF previous # Nothing THEN previous.sum + increase(previous.state, first)
    ELSE IF following # Nothing THEN following.sum - total ELSE 0

\* The sum of the first hour: joined to the row before the range, else such
\* that the last hour is joined to the row after it, else zero.
first_sum(previous, following, first, last, total) ==
    IF previous # Nothing THEN previous.sum + increase(previous.state, first)
    ELSE IF following # Nothing
    THEN following.sum - (total + increase(last, following.state))
    ELSE 0

\* What the meter counted since the first hour of the range.
increments(states) ==
    LET hs == DOMAIN states
        total[h \in hs] ==
            IF h = Min(hs) THEN 0
            ELSE LET prior == Max({g \in hs : g < h})
                 IN  total[prior] + increase(states[prior], states[h])
    IN  total

\* Running sums of the states of the hours of a range.
cumulative_statistic_sums(states, previous, following) ==
    LET hs    == DOMAIN states
        total == increments(states)
    IN  [h \in hs |-> total[h] +
            first_sum(previous, following, states[Min(hs)], states[Max(hs)], total[Max(hs)])]

----------------------------------------------------------------------------
(* The Recorder *)

RowsIn(s, from, to) == {h \in Hours : from <= h /\ h < to /\ rows[s][h] # Nothing}
LastRow(s, from, to) ==
    LET hs == RowsIn(s, from, to) IN IF hs = {} THEN Nothing ELSE rows[s][Max(hs)]
FirstRow(s, from, to) ==
    LET hs == RowsIn(s, from, to) IN IF hs = {} THEN Nothing ELSE rows[s][Min(hs)]

\* An hour ends: the Recorder writes rows of the entities that have a state,
\* all of the entry's or, at night or after a failure, none of them.
HourPasses ==
    /\ hour < LastHour
    /\ hour' = hour + 1
    /\ \E available \in {{}, owned} :
         LET state(s) == MeterValue[s][(hour + 1) * SlotsPerHour - 1]
             sum(s)   == IF live[s] = Nothing THEN 0
                         ELSE live[s].sum + increase(live[s].state, state(s))
             row(s)   == [state |-> state(s), sum |-> sum(s)]
         IN  /\ rows' = [s \in Serial |->
                  IF s \in available THEN [rows[s] EXCEPT ![hour] = row(s)] ELSE rows[s]]
             /\ live' = [s \in Serial |-> IF s \in available THEN row(s) ELSE live[s]]
             /\ imported' = [s \in Serial |->
                  IF s \in available THEN imported[s] \ {hour} ELSE imported[s]]
    /\ UNCHANGED <<queue, radio, ownership, task, reconciled, raced, calls>>

----------------------------------------------------------------------------
(* Tasks *)

Idle == [phase |-> "idle"]
Begun(periods) == [phase |-> "waiting", periods |-> periods]
Active(k) == task[k].phase # "idle"
Start(k) == task[k].periods[1].start
End(k) == task[k].periods[Len(task[k].periods)].end

Init ==
    /\ hour = DayStart[1]
    /\ rows = [s \in Serial |-> [h \in Hours |-> Nothing]]
    /\ live = [s \in Serial |-> Nothing]
    /\ queue = <<>> /\ radio = Free
    /\ owned \in SUBSET Serial
    /\ task = [k \in Task |-> Idle]
    /\ reconciled = Never
    /\ imported = [s \in Serial |-> {}]
    /\ raced = {} /\ calls = 0 /\ moves = 0

Begin(k, periods) ==
    /\ ~Active(k) /\ calls < MaxCalls
    /\ calls' = calls + 1
    /\ task' = [task EXCEPT ![k] = Begun(periods)]
    /\ UNCHANGED <<hour, queue, radio, ownership, reconciled, raced, recorder>>

\* A listener call of the coordinator schedules yesterday's reconciliation
\* unless it is recorded or running.
ScheduleReconcile ==
    /\ reconciled # Today(hour) - 1
    /\ Begin("reconcile", completed_day_periods(Today(hour), 1))

ImportCalled ==
    \E days \in 1..MaxDays :
        /\ days <= Today(hour)
        /\ Begin("import", completed_day_periods(Today(hour), days))

\* A range of get_archive: here from a midnight to any hour.
GetCalled ==
    \E d \in Days : \E end \in DayStart[d] + 1 .. LastHour :
        Begin("get", chunks(DayStart[d], end))

\* The adapter's lock and the session of the read.
ReadStarts(k) ==
    /\ task[k].phase = "waiting" /\ radio = Free
    /\ radio' = k
    /\ task' = [task EXCEPT ![k].phase = "reading"]
    /\ UNCHANGED <<hour, queue, ownership, reconciled, raced, calls, recorder>>

\* A poll of the entry decides anew which serials it owns.
Poll ==
    /\ radio = Free /\ moves < MaxMoves
    /\ moves' = moves + 1
    /\ owned' \in SUBSET Serial
    /\ UNCHANGED <<hour, queue, radio, task, reconciled, raced, calls, recorder>>

\* What a session can deliver: the records that exist, or all but one.
Delivered(periods) ==
    LET existing == {t \in expected_timestamps(periods) : Hour(t) < hour}
    IN  {existing} \cup {existing \ {t} : t \in existing}

\* Mutant: the adapter stays with a read that failed.
ReadFailsHolding(k) ==
    /\ task[k].phase \in {"reading", "closing"}
    /\ task' = [task EXCEPT ![k] = Idle]
    /\ UNCHANGED <<hour, queue, radio, ownership, reconciled, raced, calls, recorder>>

\* The session fails, the archive is incomplete for a managed serial, or one
\* has no registered total-energy entity. get_archive also fails when the
\* inverters delivered different timestamps.
ReadFails(k) ==
    /\ task[k].phase \in {"reading", "closing"}
    /\ radio' = Free
    /\ task' = [task EXCEPT ![k] = Idle]
    /\ UNCHANGED <<hour, queue, ownership, reconciled, raced, calls, recorder>>

\* Mutant: a day is imported from whatever the archive returned of it.
CompleteNonEmpty(periods, archive) == \A s \in owned : archive[s] # {}

\* require_complete: every slot for every serial managed now.
Complete(periods, archive) ==
    \A s \in owned : archive[s] = expected_timestamps(periods)

\* The archive is complete for every serial managed now: those are imported.
\* Without any, there is nothing to read or write.
ReadEnds(k) ==
    /\ k \in Importing /\ task[k].phase = "reading"
    /\ \E archive \in [Serial -> Delivered(task[k].periods)] :
         /\ Complete(task[k].periods, archive)
         /\ task' = [task EXCEPT ![k] =
              [phase   |-> IF owned = {} THEN "applied" ELSE "anchors",
               periods |-> @.periods,
               serials |-> owned,
               hourly  |-> [s \in owned |-> hourly_last_values(s, archive[s])],
               before  |-> Nothing, after |-> Nothing, read    |-> {}]]
    /\ radio' = Free
    /\ UNCHANGED <<hour, queue, ownership, reconciled, raced, calls, recorder>>

\* Two executor jobs, in either order, read the rows around the range.
ReadBefore(k) ==
    /\ task[k].phase = "anchors" /\ "before" \notin task[k].read
    /\ LET neighbours == [s \in task[k].serials |-> LastRow(s, Start(k) - Lookback, Start(k))]
       IN  task' = [task EXCEPT ![k] =
                      [@ EXCEPT !.read = task[k].read \cup {"before"}, !.before = neighbours]]
    /\ UNCHANGED <<hour, queue, radio, ownership, reconciled, raced, calls, recorder>>

ReadAfter(k) ==
    /\ task[k].phase = "anchors" /\ "after" \notin task[k].read
    /\ LET neighbours == [s \in task[k].serials |-> FirstRow(s, End(k), End(k) + Lookback)]
       IN  task' = [task EXCEPT ![k] =
                      [@ EXCEPT !.read = task[k].read \cup {"after"}, !.after = neighbours]]
    /\ UNCHANGED <<hour, queue, radio, ownership, reconciled, raced, calls, recorder>>

\* async_import_statistics: the rows are computed and handed over.
HandOver(k) ==
    /\ task[k].phase = "anchors" /\ task[k].read = {"before", "after"}
    /\ queue' = Append(queue, k)
    /\ task' = [task EXCEPT ![k] =
         [phase   |-> "queued",
          periods |-> @.periods,
          serials |-> @.serials,
          after   |-> @.after,
          rows    |-> [s \in @.serials |->
            LET sums == cumulative_statistic_sums(@.hourly[s], @.before[s], @.after[s])
            IN  [h \in DOMAIN @.hourly[s] |-> [state |-> @.hourly[s][h], sum |-> sums[h]]]]]]
    /\ UNCHANGED <<hour, radio, ownership, reconciled, raced, calls, recorder>>

\* The rows of k are written between the reads of another import and its own
\* rows ("read"), or before those of an import of earlier days ("order").
Unwritten == {"waiting", "reading", "anchors", "queued"}
Overtaken(k) ==
    {r \in {"read", "order"} : \E j \in Importing \ {k} :
        \/ r = "read" /\ task[j].phase = "queued"
        \/ r = "read" /\ task[j].phase = "anchors" /\ task[j].read # {}
        \/ r = "order" /\ task[j].phase \in Unwritten /\ End(j) < End(k)}

\* The Recorder's thread runs the next job; async_block_till_done waits for it.
Apply ==
    /\ queue # <<>>
    /\ LET k == Head(queue)
           new == task[k].rows
       IN  /\ rows' = [s \in Serial |->
                IF s \in task[k].serials
                THEN [h \in Hours |-> IF h \in DOMAIN new[s] THEN new[s][h] ELSE rows[s][h]]
                ELSE rows[s]]
           /\ imported' = [s \in Serial |->
                IF s \in task[k].serials THEN imported[s] \cup DOMAIN new[s] ELSE imported[s]]
           /\ raced' = raced \cup Overtaken(k)
           /\ task' = [task EXCEPT ![k] =
                [phase |-> "applied", periods |-> @.periods, serials |-> @.serials]]
    /\ queue' = Tail(queue)
    /\ UNCHANGED <<hour, live, radio, ownership, reconciled, calls>>

\* Back in the task: every managed serial must have been imported, which the
\* code decides by counting; the date recorded is the one asked for.
FinishReconcile ==
    /\ task["reconcile"].phase = "applied"
    /\ reconciled' = IF Cardinality(task["reconcile"].serials) = Cardinality(owned)
                     THEN CHOOSE d \in Days : DayStart[d] = Start("reconcile")
                     ELSE reconciled
    /\ task' = [task EXCEPT !["reconcile"] = Idle]
    /\ UNCHANGED <<hour, queue, radio, ownership, raced, calls, recorder>>

FinishImport ==
    /\ task["import"].phase = "applied"
    /\ task' = [task EXCEPT !["import"] = Idle]
    /\ UNCHANGED <<hour, queue, radio, ownership, reconciled, raced, calls, recorder>>

\* The operation of get_archive's session ends: from here on the records are
\* fixed. The session is closed, and the adapter kept, for a while longer.
GetRead ==
    /\ task["get"].phase = "reading"
    /\ \E archive \in [Serial -> Delivered(task["get"].periods)] :
         task' = [task EXCEPT !["get"] =
                    [phase |-> "closing", periods |-> @.periods, archive |-> archive,
                     read_at |-> hour]]                             \* history
    /\ UNCHANGED <<hour, queue, radio, ownership, reconciled, raced, calls, recorder>>

\* Mutant: judged by the date of the day the records were read.
require_all_slotsAtRead(end) == end <= DayStart[Today(task["get"].read_at)]

\* Judged when the answer is put together: no slot may miss in past ranges.
require_all_slots(end) == end <= DayStart[Today(hour)]

\* The adapter is free, and get_archive answers with what was delivered when
\* all inverters delivered the same; the date of now decides which slots were
\* to be expected.
GetAnswered ==
    /\ task["get"].phase = "closing"
    /\ LET start   == Start("get")
           end     == End("get")
           series  == {task["get"].archive[s] : s \in Serial}
       IN  \E slots \in series :
             /\ series = {slots}
             /\ task' = [task EXCEPT !["get"] =
                  [phase    |-> "answered",
                   start    |-> start, end |-> end, read_at |-> @.read_at,
                   slots    |-> slots,
                   complete |-> timestamp_series_complete(series, start, end,
                                    require_all_slots(end))]]
    /\ radio' = Free
    /\ UNCHANGED <<hour, queue, ownership, reconciled, raced, calls, recorder>>

GetReturned ==
    /\ task["get"].phase = "answered"
    /\ task' = [task EXCEPT !["get"] = Idle]
    /\ UNCHANGED <<hour, queue, radio, ownership, reconciled, raced, calls, recorder>>

Next ==
    \/ HourPasses \/ Poll \/ Apply
    \/ ScheduleReconcile \/ ImportCalled \/ GetCalled
    \/ \E k \in Task :
         \/ ReadStarts(k) \/ ReadFails(k) \/ ReadEnds(k)
         \/ ReadBefore(k) \/ ReadAfter(k) \/ HandOver(k)
    \/ FinishReconcile \/ FinishImport \/ GetRead \/ GetAnswered \/ GetReturned

Spec == Init /\ [][Next]_vars

----------------------------------------------------------------------------
(* Properties *)

Row == [state : Nat, sum : Int] \cup {Nothing}

\* Every task is in one of its phases, the adapter is held by the task that
\* reads, the Recorder's queue holds the tasks that wait for it.
TypeOK ==
    /\ hour \in DayStart[1] .. LastHour
    /\ rows \in [Serial -> [Hours -> Row]] /\ live \in [Serial -> Row]
    /\ imported \in [Serial -> SUBSET Hours]
    /\ owned \subseteq Serial
    /\ \A k \in Task : radio = k <=> task[k].phase \in {"reading", "closing"}
    /\ \A k \in Task : k \in {queue[i] : i \in DOMAIN queue} <=> task[k].phase = "queued"
    /\ Len(queue) <= Cardinality(Importing)
    /\ reconciled \in {Never} \cup Days
    /\ raced \subseteq {"read", "order"} /\ calls \in 0..MaxCalls /\ moves \in 0..MaxMoves

\* Two rows of a serial without a row between them are joined when the
\* difference of their sums is the energy the meter counted between them.
Adjacent(s, g, h) == g < h /\ rows[s][g] # Nothing /\ RowsIn(s, g + 1, h) = {} /\ rows[s][h] # Nothing
Joined(s, g, h) == rows[s][h].sum - rows[s][g].sum = increase(rows[s][g].state, rows[s][h].state)
ImportedJoined ==
    \A s \in Serial : \A g, h \in imported[s] :
        Adjacent(s, g, h) /\ h - g <= Lookback => Joined(s, g, h)

\* However imports of one day and of several days, nights without rows, late
\* rows of the Recorder and changes of ownership follow each other: as long
\* as no import writes between another's reads and its rows, or writes a later
\* day before another has written its earlier ones, the imported history is
\* continuous (archive.py:59 "Build continuous Recorder sums").
ContinuousUnlessRaced == raced = {} => ImportedJoined

\* The same claim without the condition, once the Recorder's thread has run.
ImportedSumsContinuous == queue = <<>> => ImportedJoined

\* An import whose neighbours nobody rewrites joins its first row to the row
\* before its range; only where history starts inside the range it joins its
\* last row to the row after it (archive.py:61-63).
JoinsHistory ==
    [][\A k \in Importing :
         task[k].phase = "queued" /\ task'[k].phase = "applied" /\ "read" \notin raced =>
           \A s \in task[k].serials :
             LET earlier == RowsIn(s, Start(k) - Lookback, Start(k))
                 later   == RowsIn(s, End(k), End(k) + Lookback)
             IN  IF earlier # {} THEN Joined(s, Max(earlier), Start(k))'
                 ELSE later # {} /\ rows[s][Min(later)] = task[k].after[s] =>
                          Joined(s, End(k) - 1, Min(later))']_vars

\* A day recorded as reconciled is in the Recorder, with the archive's own
\* states, for every serial that was managed when its archive was read and
\* still is (__init__.py:273-289).
RecordedDayImported ==
    [][reconciled' # reconciled =>
         \A s \in owned \cap task["reconcile"].serials :
           \A h \in DayStart[reconciled'] .. DayStart[reconciled' + 1] - 1 :
             rows[s][h] # Nothing /\ rows[s][h].state = MeterValue[s][(h + 1) * SlotsPerHour - 1]]_vars

\* What get_archive calls complete, on either side of a midnight that passes
\* between the records and the answer (__init__.py:439, 477): a range of days
\* over before the records were read is complete exactly with every slot of the
\* range; one that was not over then, but is when it is judged, never is.
PastAnswerRight ==
    [][LET a == task'["get"] IN
       task["get"].phase = "closing" /\ a.phase = "answered" =>
         /\ a.end <= DayStart[Today(a.read_at)] =>
               (a.complete <=> a.slots = SlotsOf(a.start, a.end))
         /\ a.read_at < a.end /\ a.end <= DayStart[Today(hour)] => ~a.complete]_vars
=============================================================================
