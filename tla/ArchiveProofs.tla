--------------------------- MODULE ArchiveProofs ---------------------------
(***************************************************************************)
(* Proofs about ArchiveImport for every set of inverters, every calendar,  *)
(* every meter and any number of calls.                                    *)
(***************************************************************************)
EXTENDS ArchiveImport, WellFoundedInduction, TLAPS

-----------------------------------------------------------------------------
(* Calendar.                                                               *)

\* Some number of Nat is the least of a set.
LEMMA LeastNatural ==
    ASSUME NEW T \in SUBSET Nat, T # {}
    PROVE  \E x \in T : \A y \in T : x <= y
<1>1. \E x \in T : \A y \in T : ~ (<<y, x>> \in OpToRel(<, Nat))
  BY NatLessThanWellFounded, WFMin
<1>2. PICK x \in T : \A y \in T : ~ (<<y, x>> \in OpToRel(<, Nat))
  BY <1>1
<1>3. \A y \in T : ~ (y < x)
  BY <1>2 DEF OpToRel
<1>4. QED
  BY <1>3

\* A bounded set of numbers has a greatest one.
LEMMA GreatestNatural ==
    ASSUME NEW T \in SUBSET Nat, T # {}, NEW n \in Nat, \A y \in T : y <= n
    PROVE  Max(T) \in T /\ \A y \in T : y <= Max(T)
<1> DEFINE bounds == {b \in Nat : \A y \in T : y <= b}
<1>1. PICK b \in bounds : \A c \in bounds : b <= c
  <2>1. n \in bounds
    OBVIOUS
  <2>2. QED
    BY <2>1, LeastNatural
<1>2. b \in T
  <2>1. SUFFICES ASSUME b \notin T PROVE FALSE
    OBVIOUS
  <2>2. \A y \in T : y < b
    BY <1>1, <2>1
  <2>3. b \in Nat /\ b # 0
    <3>1. PICK y \in T : TRUE
      OBVIOUS
    <3>2. y \in Nat /\ y < b
      BY <2>2
    <3>3. QED
      BY <1>1, <3>2
  <2>4. \A y \in T : y <= b - 1
    BY <2>2, <2>3
  <2>5. b - 1 \in bounds
    BY <2>3, <2>4
  <2>6. b <= b - 1
    BY <1>1, <2>5
  <2>7. QED
    BY <2>3, <2>6
<1>3. \E x \in T : \A y \in T : x >= y
  BY <1>1, <1>2
<1>4. QED
  BY <1>3 DEF Max

\* A slot and its hour.
LEMMA Division ==
    ASSUME NEW L \in Nat \ {0}, NEW t \in Nat
    PROVE  /\ t \div L \in Nat /\ t >= (t \div L) * L /\ t <= (t \div L) * L + L - 1
           /\ \A h \in Nat : h * L <= t /\ t <= h * L + L - 1 => h = t \div L
<1> DEFINE q == t \div L
<1>1. q \in Nat /\ t >= q * L /\ t <= q * L + L - 1
  OBVIOUS
<1> HIDE DEF q
<1>2. ASSUME NEW h \in Nat, h * L <= t, t <= h * L + L - 1
      PROVE  h = q
  <2>1. CASE h < q
    <3>1. (h + 1) * L <= q * L
      BY <1>1, <2>1
    <3>2. QED
      BY <1>1, <1>2, <3>1
  <2>2. CASE q < h
    <3>1. (q + 1) * L <= h * L
      BY <1>1, <2>2
    <3>2. QED
      BY <1>1, <1>2, <3>1
  <2>3. QED
    BY <1>1, <2>1, <2>2
<1>3. QED
  BY <1>1, <1>2 DEF q

LEMMA HourHasSlots == SlotsPerHour \in Nat \ {0}
BY ArchiveAssumption

LEMMA Slots ==
    ASSUME NEW t \in Nat
    PROVE  /\ Hour(t) \in Nat /\ t >= Hour(t) * SlotsPerHour
           /\ t <= Hour(t) * SlotsPerHour + SlotsPerHour - 1
           /\ \A h \in Nat :
                 h * SlotsPerHour <= t /\ t <= h * SlotsPerHour + SlotsPerHour - 1
                 => h = Hour(t)
BY HourHasSlots, Division DEF Hour

\* The calendar day an hour lies in.
LEMMA TodayFacts ==
    ASSUME NEW h \in Nat, DayStart[1] <= h
    PROVE  /\ Today(h) \in DOMAIN DayStart /\ Today(h) \in Nat /\ Today(h) >= 1
           /\ DayStart[Today(h)] <= h
<1>1. PICK n \in Nat \ {0} : DOMAIN DayStart = 0..n /\ \A d \in 0..n : DayStart[d] \in Nat
  BY ArchiveAssumption
<1> DEFINE T == {d \in DOMAIN DayStart : DayStart[d] <= h}
<1>2. T \in SUBSET Nat /\ 1 \in T /\ \A d \in T : d <= n
  BY <1>1
<1>3. Max(T) \in T /\ 1 <= Max(T)
  BY <1>2, GreatestNatural
<1>4. QED
  BY <1>2, <1>3 DEF Today

-----------------------------------------------------------------------------
(* The hours of an archive.                                                *)

Last(h) == (h + 1) * SlotsPerHour - 1
Meter(s, h) == MeterValue[s][Last(h)]
Ranges(periods) ==
    \A i \in DOMAIN periods : periods[i].start \in Nat /\ periods[i].end \in Nat

\* The last slot of an hour.
LEMMA LastSlot ==
    ASSUME NEW h \in Nat
    PROVE  Last(h) \in Nat /\ Last(h) = h * SlotsPerHour + SlotsPerHour - 1 /\ Hour(Last(h)) = h
<1>1. /\ (h + 1) * SlotsPerHour = h * SlotsPerHour + SlotsPerHour
      /\ h * SlotsPerHour \in Nat /\ SlotsPerHour \in Nat \ {0}
  BY HourHasSlots
<1>2. Last(h) \in Nat /\ Last(h) = h * SlotsPerHour + SlotsPerHour - 1
  BY <1>1 DEF Last
<1>3. h * SlotsPerHour <= Last(h)
  BY <1>1, <1>2
<1>4. QED
  BY <1>2, <1>3, Slots

\* A range has whole hours only.
LEMMA WholeHours ==
    ASSUME NEW from \in Nat, NEW to \in Nat
    PROVE  /\ \A t \in SlotsOf(from, to) :
                 /\ t \in Nat /\ Hour(t) \in from .. to - 1
                 /\ Last(Hour(t)) \in SlotsOf(from, to) /\ t <= Last(Hour(t))
           /\ \A h \in from .. to - 1 : Last(h) \in SlotsOf(from, to)
<1> DEFINE S == SlotsPerHour
<1>0. S \in Nat \ {0}
  BY HourHasSlots
<1>1. ASSUME NEW h \in from .. to - 1
      PROVE  Last(h) \in SlotsOf(from, to)
  <2>1. h \in Nat /\ from <= h /\ h + 1 <= to
    BY <1>1
  <2>2. from * S <= h * S /\ (h + 1) * S <= to * S
    BY <1>0, <2>1
  <2>3. h * S <= Last(h) /\ Last(h) = (h + 1) * S - 1 /\ Last(h) \in Nat
    BY <1>0, <2>1, LastSlot DEF Last
  <2>4. from * S \in Nat /\ to * S \in Nat /\ h * S \in Nat /\ (h + 1) * S \in Nat
    BY <1>0, <2>1
  <2> HIDE DEF S
  <2>5. Last(h) \in from * S .. to * S - 1
    BY <2>2, <2>3, <2>4
  <2>6. QED
    BY <2>5 DEF SlotsOf, S
<1>2. ASSUME NEW t \in SlotsOf(from, to)
      PROVE  t \in Nat /\ Hour(t) \in from .. to - 1 /\ t <= Last(Hour(t))
  <2>1. from * S \in Nat /\ to * S \in Nat
    BY <1>0
  <2>2. t \in Nat /\ from * S <= t /\ t < to * S
    BY <1>2, <2>1 DEF SlotsOf
  <2> DEFINE q == Hour(t)
  <2>3. q \in Nat /\ q * S <= t /\ t <= q * S + S - 1 /\ t <= Last(q)
    BY <2>2, Slots, LastSlot
  <2> HIDE DEF q
  <2>4. from <= q
    <3>1. SUFFICES ASSUME q + 1 <= from PROVE FALSE
      BY <2>3
    <3>2. (q + 1) * S <= from * S
      BY <1>0, <2>3, <3>1
    <3>3. (q + 1) * S = q * S + S
      BY <1>0, <2>3
    <3>4. QED
      BY <1>0, <2>1, <2>2, <2>3, <3>2, <3>3
  <2>5. q < to
    <3>1. SUFFICES ASSUME to <= q PROVE FALSE
      BY <2>3
    <3>2. to * S <= q * S
      BY <1>0, <2>3, <3>1
    <3>3. QED
      BY <1>0, <2>1, <2>2, <2>3, <3>2
  <2>6. QED
    BY <2>2, <2>3, <2>4, <2>5 DEF q
<1>3. QED
  BY <1>1, <1>2

\* A slot is in a range of hours when its hour is.
LEMMA SlotOfHour ==
    ASSUME NEW from \in Nat, NEW to \in Nat, NEW t \in Nat, Hour(t) \in from .. to - 1
    PROVE  t \in SlotsOf(from, to)
<1> DEFINE h == Hour(t)
           S == SlotsPerHour
<1>1. S \in Nat \ {0} /\ h \in Nat /\ from <= h /\ h + 1 <= to
      /\ h * S <= t /\ t <= h * S + S - 1
  BY HourHasSlots, Slots
<1> HIDE DEF h, S
<1>2. from * S <= h * S /\ (h + 1) * S <= to * S
  BY <1>1
<1>3. (h + 1) * S = h * S + S
  BY <1>1
<1>4. from * S \in Nat /\ to * S \in Nat /\ h * S \in Nat
  BY <1>1
<1>5. t \in from * S .. to * S - 1
  BY <1>1, <1>2, <1>3, <1>4
<1>6. QED
  BY <1>5 DEF SlotsOf, S

\* The archive of whole hours gives, for each of them, what the meter showed
\* at its end.
LEMMA HourlyStates ==
    ASSUME NEW s, NEW periods, Ranges(periods),
           NEW h \in DOMAIN hourly_last_values(s, expected_timestamps(periods))
    PROVE  /\ hourly_last_values(s, expected_timestamps(periods))[h] = Meter(s, h)
<1> DEFINE E == expected_timestamps(periods)
           T == {t \in E : Hour(t) = h}
<1>1. PICK u \in E : h = Hour(u)
  BY DEF hourly_last_values
<1>2. ASSUME NEW t \in E
      PROVE  t \in Nat /\ Hour(t) \in Nat /\ Last(Hour(t)) \in E /\ t <= Last(Hour(t))
  <2>1. PICK i \in DOMAIN periods : t \in SlotsOf(periods[i].start, periods[i].end)
    BY <1>2 DEF expected_timestamps
  <2>2. periods[i].start \in Nat /\ periods[i].end \in Nat
    BY DEF Ranges
  <2>3. Last(Hour(t)) \in SlotsOf(periods[i].start, periods[i].end) /\ t \in Nat
        /\ t <= Last(Hour(t))
    BY <2>1, <2>2, WholeHours
  <2>4. Last(Hour(t)) \in E
    BY <2>3 DEF expected_timestamps
  <2>5. QED
    BY <2>3, <2>4, Slots
<1>3. Last(h) \in T /\ Last(h) \in Nat
  BY <1>1, <1>2, LastSlot
<1>4. \A t \in T : t \in Nat /\ t <= Last(h)
  BY <1>2
<1> HIDE DEF E
<1>5. Max(T) = Last(h)
  <2> HIDE DEF T
  <2>1. \A x \in T : (\A y \in T : x >= y) => x = Last(h)
    BY <1>3, <1>4
  <2>2. \E x \in T : \A y \in T : x >= y
    BY <1>3, <1>4
  <2>3. QED
    BY <2>1, <2>2 DEF Max
<1>6. hourly_last_values(s, E) =
        [g \in {Hour(t) : t \in E} |-> MeterValue[s][Max({t \in E : Hour(t) = g})]]
  BY DEF hourly_last_values
<1>7. hourly_last_values(s, E)[h] = MeterValue[s][Max(T)]
  BY <1>1, <1>6
<1>8. QED
  BY <1>5, <1>7 DEF E, Meter

\* The hours of a range.
LEMMA HoursOfRange ==
    ASSUME NEW s, NEW periods, DOMAIN periods = {1}, Ranges(periods)
    PROVE  DOMAIN hourly_last_values(s, expected_timestamps(periods))
             = periods[1].start .. periods[1].end - 1
<1> DEFINE from == periods[1].start
           to == periods[1].end
           E == expected_timestamps(periods)
<1>1. from \in Nat /\ to \in Nat
  BY DEF Ranges
<1>2. E = SlotsOf(from, to)
  BY DEF expected_timestamps
<1> HIDE DEF E, from, to
<1>3. {Hour(t) : t \in SlotsOf(from, to)} = from .. to - 1
  <2>1. \A h \in from .. to - 1 : h \in Nat /\ Last(h) \in SlotsOf(from, to) /\ Hour(Last(h)) = h
    BY <1>1, WholeHours, LastSlot
  <2>2. \A t \in SlotsOf(from, to) : Hour(t) \in from .. to - 1
    BY <1>1, WholeHours
  <2>3. QED
    BY <2>1, <2>2
<1>4. DOMAIN hourly_last_values(s, E) = from .. to - 1
  BY <1>2, <1>3 DEF hourly_last_values
<1>5. QED
  BY <1>4 DEF E, from, to

-----------------------------------------------------------------------------
(* The inductive invariant.                                                *)

\* Every row of the Recorder, its own or imported, has the meter's state.
RowsAreMeters ==
    \A s \in Serial, h \in Hours : rows[s][h] # Nothing => rows[s][h].state = Meter(s, h)

Stored ==
    /\ rows = [s \in Serial |-> rows[s]]
    /\ \A s \in Serial : rows[s] = [h \in Hours |-> rows[s][h]]
    /\ RowsAreMeters

\* The period of a calendar day.
IsDay(periods) ==
    /\ DOMAIN periods = {1}
    /\ \E d \in Days : periods[1].start = DayStart[d] /\ periods[1].end = DayStart[d + 1]
HoursOf(periods) == periods[1].start .. periods[1].end - 1

\* What an import holds for the Recorder: the meter's states, and the rows that
\* are made of them.
HourlyOK(r) ==
    /\ r = [phase |-> r.phase, periods |-> r.periods, serials |-> r.serials,
            hourly |-> r.hourly, before |-> r.before, after |-> r.after, read |-> r.read]
    /\ r.serials \subseteq Serial
    /\ \A s \in r.serials : \A h \in DOMAIN r.hourly[s] : r.hourly[s][h] = Meter(s, h)
RowsOK(r) ==
    /\ r.serials \subseteq Serial
    /\ \A s \in r.serials : \A h \in DOMAIN r.rows[s] :
          r.rows[s][h] # Nothing /\ r.rows[s][h].state = Meter(s, h)

\* A reconciliation is about one day, and covers all of it to the end.
DayOK(r, R) ==
    /\ r.phase \in {"waiting", "reading", "anchors", "queued", "applied"} => IsDay(r.periods)
    /\ r.phase = "anchors" => \A s \in r.serials : DOMAIN r.hourly[s] = HoursOf(r.periods)
    /\ r.phase = "queued" => \A s \in r.serials : DOMAIN r.rows[s] = HoursOf(r.periods)
    /\ r.phase = "applied" =>
          \A s \in r.serials \cap Serial, h \in HoursOf(r.periods) \cap Hours : R[s][h] # Nothing

TaskOK(k, r, R) ==
    /\ k = "get" => r.phase \in {"idle", "waiting", "reading", "closing", "answered"}
    /\ r.phase \in {"waiting", "reading"} =>
          r = [phase |-> r.phase, periods |-> r.periods] /\ Ranges(r.periods)
    /\ r.phase = "anchors" => HourlyOK(r)
    /\ r.phase = "queued" => RowsOK(r)
    /\ k = "reconcile" => DayOK(r, R)

\* The Recorder's queue has each task that waits for it, once.
QueueOK ==
    /\ queue \in Seq(Importing)
    /\ \A i \in 1 .. Len(queue) : task[queue[i]].phase = "queued"
    /\ \A i, j \in 1 .. Len(queue) : queue[i] = queue[j] => i = j

ArchiveInv ==
    /\ hour \in Nat /\ DayStart[1] <= hour /\ owned \subseteq Serial
    /\ Stored /\ QueueOK
    /\ task = [k \in Task |-> task[k]]
    /\ \A k \in Task : TaskOK(k, task[k], rows)

\* A row of the Recorder is something.
LEMMA RowIsSomething ==
    ASSUME NEW a, NEW b
    PROVE  /\ [state |-> a, sum |-> b] # Nothing
           /\ [state |-> a, sum |-> b].state = a
<1>1. "state" \in DOMAIN [state |-> a, sum |-> b] /\ "state" \notin DOMAIN Nothing
  BY DEF Nothing
<1>2. QED
  BY <1>1

\* A step of one task that is not in the Recorder's queue.
LEMMA TaskStep ==
    ASSUME ArchiveInv, NEW k \in Task, NEW r, task' = [task EXCEPT ![k] = r],
           task[k].phase # "queued", TaskOK(k, r, rows),
           UNCHANGED <<hour, rows, owned, queue>>
    PROVE  ArchiveInv'
<1>1. /\ task' = [j \in Task |-> task'[j]]
      /\ task'[k] = r /\ \A j \in Task \ {k} : task'[j] = task[j]
  BY DEF ArchiveInv
<1>2. \A j \in Task : TaskOK(j, task'[j], rows)
  BY <1>1 DEF ArchiveInv
<1>3. Importing \subseteq Task
  BY DEF Importing, Task
<1>4. QueueOK'
  <2>1. QueueOK /\ queue' = queue
    BY DEF ArchiveInv
  <2>2. ASSUME NEW i \in 1 .. Len(queue)
        PROVE  task'[queue[i]].phase = "queued"
    <3>1. queue[i] \in Task /\ task[queue[i]].phase = "queued"
      BY <1>3, <2>1 DEF QueueOK
    <3>2. QED
      BY <1>1, <3>1
  <2>3. QED
    BY <2>1, <2>2 DEF QueueOK
<1>5. Stored' /\ (hour \in Nat /\ DayStart[1] <= hour /\ owned \subseteq Serial)'
  BY DEF ArchiveInv, Stored, RowsAreMeters
<1>6. (\A j \in Task : TaskOK(j, task[j], rows))'
  BY <1>2 DEF TaskOK, DayOK
<1>7. QED
  BY <1>1, <1>4, <1>5, <1>6 DEF ArchiveInv

\* A task that begins, reads or returns.
LEMMA BeginKeeps ==
    ASSUME ArchiveInv, NEW k \in Task, NEW periods, Ranges(periods),
           k = "reconcile" => IsDay(periods), Begin(k, periods)
    PROVE  ArchiveInv'
<1> DEFINE r == [phase |-> "waiting", periods |-> periods]
<1>1. task' = [task EXCEPT ![k] = r] /\ task[k].phase # "queued"
  BY DEF Begin, Begun, Active
<1>2. TaskOK(k, r, rows)
  BY DEF TaskOK, DayOK
<1> HIDE DEF r
<1>3. QED
  BY <1>1, <1>2, TaskStep DEF Begin, ownership, recorder

LEMMA IdleKeeps ==
    ASSUME ArchiveInv, NEW k \in Task, task' = [task EXCEPT ![k] = Idle],
           task[k].phase # "queued", UNCHANGED <<hour, rows, owned, queue>>
    PROVE  ArchiveInv'
<1>1. TaskOK(k, Idle, rows)
  BY DEF TaskOK, DayOK, Idle
<1>2. QED
  BY <1>1, TaskStep

LEMMA ReadStartsKeeps ==
    ASSUME ArchiveInv, NEW k \in Task, ReadStarts(k)
    PROVE  ArchiveInv'
<1> DEFINE r == [phase |-> "reading", periods |-> task[k].periods]
<1>1. /\ task[k].phase = "waiting" /\ TaskOK(k, task[k], rows)
      /\ task' = [task EXCEPT ![k] = [task[k] EXCEPT !.phase = "reading"]]
      /\ UNCHANGED <<hour, rows, owned, queue>>
  BY DEF ReadStarts, ArchiveInv, ownership, recorder
<1>2. task[k] = [phase |-> task[k].phase, periods |-> task[k].periods] /\ Ranges(task[k].periods)
  BY <1>1 DEF TaskOK
<1>3. [[phase |-> task[k].phase, periods |-> task[k].periods] EXCEPT !.phase = "reading"] = r
  OBVIOUS
<1>4. task' = [task EXCEPT ![k] = r]
  BY <1>1, <1>2, <1>3, Zenon
<1>5. TaskOK(k, r, rows)
  BY <1>1, <1>2 DEF TaskOK, DayOK
<1> HIDE DEF r
<1>6. QED
  BY <1>1, <1>4, <1>5, TaskStep

\* What get_archive has between its records and its answer, and with it.
Closing(periods, archive) ==
    [phase |-> "closing", periods |-> periods, archive |-> archive, read_at |-> hour]
Answered(g, slots) ==
    LET start == g.periods[1].start
        end   == g.periods[Len(g.periods)].end
    IN  [phase |-> "answered", start |-> start, end |-> end, read_at |-> g.read_at,
         slots |-> slots,
         complete |-> timestamp_series_complete({slots}, start, end, require_all_slots(end))]

LEMMA GetWrites ==
    /\ GetRead => \E archive \in [Serial -> Delivered(task["get"].periods)] :
                     task' = [task EXCEPT !["get"] = Closing(task["get"].periods, archive)]
    /\ GetAnswered => \E s \in Serial :
                         task' = [task EXCEPT !["get"] =
                                    Answered(task["get"], task["get"].archive[s])]
<1>1. ASSUME GetAnswered
      PROVE  \E s \in Serial :
               task' = [task EXCEPT !["get"] = Answered(task["get"], task["get"].archive[s])]
  <2> DEFINE series == {task["get"].archive[s] : s \in Serial}
  <2>1. PICK slots \in series :
          /\ series = {slots}
          /\ task' = [task EXCEPT !["get"] =
               [phase |-> "answered", start |-> Start("get"), end |-> End("get"),
                read_at |-> task["get"].read_at, slots |-> slots,
                complete |-> timestamp_series_complete(series, Start("get"), End("get"),
                                                       require_all_slots(End("get")))]]
    BY <1>1, Zenon DEF GetAnswered
  <2>2. PICK s \in Serial : slots = task["get"].archive[s]
    OBVIOUS
  <2> HIDE DEF series
  <2>3. task' = [task EXCEPT !["get"] = Answered(task["get"], slots)]
    BY <2>1, Zenon DEF Answered, Start, End
  <2>4. QED
    BY <2>2, <2>3, Zenon
<1>2. GetRead => \E archive \in [Serial -> Delivered(task["get"].periods)] :
                   task' = [task EXCEPT !["get"] = Closing(task["get"].periods, archive)]
  BY Zenon DEF GetRead, Closing
<1>3. QED
  BY <1>1, <1>2

LEMMA GetKeeps ==
    ASSUME ArchiveInv, GetRead \/ GetAnswered
    PROVE  ArchiveInv'
<1>1. PICK r : task' = [task EXCEPT !["get"] = r] /\ r.phase \in {"closing", "answered"}
  <2>1. \A archive : Closing(task["get"].periods, archive).phase = "closing"
    BY DEF Closing
  <2>2. \A slots : Answered(task["get"], slots).phase = "answered"
    BY DEF Answered
  <2>3. QED
    BY <2>1, <2>2, GetWrites
<1>2. "get" \in Task /\ TaskOK("get", r, rows)
  BY <1>1 DEF TaskOK, Task
<1>3. task["get"].phase # "queued" /\ UNCHANGED <<hour, rows, owned, queue>>
  BY DEF GetRead, GetAnswered, ownership, recorder
<1>4. QED
  BY <1>1, <1>2, <1>3, TaskStep

\* The archive that is imported is that of the periods, for managed serials.
LEMMA ReadEndsKeeps ==
    ASSUME ArchiveInv, NEW k \in Task, ReadEnds(k)
    PROVE  ArchiveInv'
<1> DEFINE P == task[k].periods
           E == expected_timestamps(P)
           first == IF owned = {} THEN "applied" ELSE "anchors"
           hourly == [s \in owned |-> hourly_last_values(s, E)]
           r == [phase |-> first, periods |-> P, serials |-> owned, hourly |-> hourly,
                 before |-> Nothing, after |-> Nothing, read |-> {}]
<1>1. /\ k \in Importing /\ task[k].phase = "reading" /\ TaskOK(k, task[k], rows)
      /\ owned \subseteq Serial /\ UNCHANGED <<hour, rows, owned, queue>>
  BY DEF ReadEnds, ArchiveInv, ownership, recorder
<1>2. Ranges(P) /\ (k = "reconcile" => IsDay(P))
  BY <1>1 DEF TaskOK, DayOK
<1>3. task' = [task EXCEPT ![k] = r]
  <2>1. PICK archive :
          /\ Complete(P, archive)
          /\ task' = [task EXCEPT ![k] =
               [phase   |-> first, periods |-> P, serials |-> owned,
                hourly  |-> [s \in owned |-> hourly_last_values(s, archive[s])],
                before  |-> Nothing, after |-> Nothing, read |-> {}]]
    BY Zenon DEF ReadEnds
  <2>2. \A s \in owned : archive[s] = E
    BY <2>1 DEF Complete
  <2> HIDE DEF E, P, first
  <2>3. [s \in owned |-> hourly_last_values(s, archive[s])] = hourly
    BY <2>2
  <2>4. QED
    BY <2>1, <2>3
<1>4. \A s \in owned : \A h \in DOMAIN hourly[s] : hourly[s][h] = Meter(s, h)
  BY <1>2, HourlyStates
<1>5. k = "reconcile" => \A s \in owned : DOMAIN hourly[s] = HoursOf(P)
  BY <1>2, HoursOfRange DEF IsDay, HoursOf
<1>6. TaskOK(k, r, rows)
  <2> HIDE DEF hourly, P
  <2>1. k # "get"
    BY <1>1 DEF Importing
  <2>2. HourlyOK(r)
    BY <1>1, <1>4 DEF HourlyOK
  <2>3. k = "reconcile" => DayOK(r, rows)
    BY <1>2, <1>5 DEF DayOK
  <2>4. r.phase \in {"applied", "anchors"}
    OBVIOUS
  <2> HIDE DEF r
  <2>5. QED
    BY <2>1, <2>2, <2>3, <2>4 DEF TaskOK
<1> HIDE DEF r
<1>7. QED
  BY <1>1, <1>3, <1>6, TaskStep

\* The rows around the range are noted beside what is to be imported.
Noting(r, read, before, after) ==
    [phase |-> r.phase, periods |-> r.periods, serials |-> r.serials,
     hourly |-> r.hourly, before |-> before, after |-> after, read |-> read]

WithBefore(r, read, before) == [r EXCEPT !.read = read, !.before = before]
WithAfter(r, read, after) == [r EXCEPT !.read = read, !.after = after]

LEMMA Noted ==
    ASSUME NEW r, NEW read, NEW new, r = Noting(r, r.read, r.before, r.after)
    PROVE  /\ WithBefore(r, read, new) = Noting(r, read, new, r.after)
           /\ WithAfter(r, read, new) = Noting(r, read, r.before, new)
<1>1. /\ [Noting(r, r.read, r.before, r.after) EXCEPT !.read = read]
           = Noting(r, read, r.before, r.after)
      /\ [Noting(r, read, r.before, r.after) EXCEPT !.before = new]
           = Noting(r, read, new, r.after)
      /\ [Noting(r, read, r.before, r.after) EXCEPT !.after = new]
           = Noting(r, read, r.before, new)
  BY DEF Noting
<1>2. [r EXCEPT !.read = read] = Noting(r, read, r.before, r.after)
  BY <1>1, Zenon
<1>3. /\ WithBefore(r, read, new) = [[r EXCEPT !.read = read] EXCEPT !.before = new]
      /\ WithAfter(r, read, new) = [[r EXCEPT !.read = read] EXCEPT !.after = new]
  BY Zenon DEF WithBefore, WithAfter
<1>4. QED
  BY <1>1, <1>2, <1>3, Zenon

LEMMA NeighboursKeep ==
    ASSUME ArchiveInv, NEW k \in Task, ReadBefore(k) \/ ReadAfter(k)
    PROVE  ArchiveInv'
<1> DEFINE q == task[k]
<1>1. /\ q.phase = "anchors" /\ TaskOK(k, q, rows)
      /\ UNCHANGED <<hour, rows, owned, queue>>
  BY DEF ReadBefore, ReadAfter, ArchiveInv, ownership, recorder
<1>2. HourlyOK(q)
  BY <1>1 DEF TaskOK
<1>3. q = Noting(q, q.read, q.before, q.after)
  BY <1>2 DEF HourlyOK, Noting
<1>4. \E read, before, after : task' = [task EXCEPT ![k] = Noting(q, read, before, after)]
  <2>1. CASE ReadBefore(k)
    <3>1. PICK read, before : task' = [task EXCEPT ![k] = WithBefore(q, read, before)]
      BY <2>1 DEF ReadBefore, WithBefore
    <3>2. WithBefore(q, read, before) = Noting(q, read, before, q.after)
      BY <1>3, Noted
    <3>3. QED
      BY <3>1, <3>2, Zenon
  <2>2. CASE ReadAfter(k)
    <3>1. PICK read, after : task' = [task EXCEPT ![k] = WithAfter(q, read, after)]
      BY <2>2 DEF ReadAfter, WithAfter
    <3>2. WithAfter(q, read, after) = Noting(q, read, q.before, after)
      BY <1>3, Noted
    <3>3. QED
      BY <3>1, <3>2, Zenon
  <2>3. QED
    BY <2>1, <2>2
<1>5. PICK read, before, after : task' = [task EXCEPT ![k] = Noting(q, read, before, after)]
  BY <1>4
<1>6. ASSUME NEW r, r = Noting(q, read, before, after)
      PROVE  TaskOK(k, r, rows)
  <2>1. /\ r.phase = "anchors" /\ r.periods = q.periods /\ r.serials = q.serials
        /\ r.hourly = q.hourly
    BY <1>1, <1>6 DEF Noting
  <2>2. HourlyOK(r)
    BY <1>2, <1>6, <2>1 DEF HourlyOK, Noting
  <2>3. QED
    BY <1>1, <2>1, <2>2 DEF TaskOK, DayOK
<1>7. QED
  BY <1>1, <1>5, <1>6, TaskStep

\* The rows that are handed over have the states of the hours.
LEMMA HandOverKeeps ==
    ASSUME ArchiveInv, NEW k \in Task, HandOver(k)
    PROVE  ArchiveInv'
<1> DEFINE q == task[k]
<1>1. /\ q.phase = "anchors" /\ TaskOK(k, q, rows) /\ queue' = Append(queue, k)
      /\ UNCHANGED <<hour, rows, owned>> /\ QueueOK /\ Stored
  BY DEF HandOver, ArchiveInv, ownership, recorder
<1>2. HourlyOK(q) /\ k \in Importing
  BY <1>1 DEF TaskOK, Task, Importing
<1>3. PICK new :
        /\ task' = [task EXCEPT ![k] =
             [phase |-> "queued", periods |-> q.periods, serials |-> q.serials,
              after |-> q.after, rows |-> new]]
        /\ \A s \in q.serials :
             /\ DOMAIN new[s] = DOMAIN q.hourly[s]
             /\ \A h \in DOMAIN q.hourly[s] :
                  \E sum : new[s][h] = [state |-> q.hourly[s][h], sum |-> sum]
  <2> DEFINE sums(s) == cumulative_statistic_sums(q.hourly[s], q.before[s], q.after[s])
             made == [s \in q.serials |->
                [h \in DOMAIN q.hourly[s] |-> [state |-> q.hourly[s][h], sum |-> sums(s)[h]]]]
  <2>1. task' = [task EXCEPT ![k] =
             [phase |-> "queued", periods |-> q.periods, serials |-> q.serials,
              after |-> q.after, rows |-> made]]
    BY DEF HandOver
  <2>2. \A s \in q.serials :
             /\ DOMAIN made[s] = DOMAIN q.hourly[s]
             /\ \A h \in DOMAIN q.hourly[s] :
                  made[s][h] = [state |-> q.hourly[s][h], sum |-> sums(s)[h]]
    OBVIOUS
  <2> HIDE DEF made, sums
  <2>3. \A s \in q.serials :
             /\ DOMAIN made[s] = DOMAIN q.hourly[s]
             /\ \A h \in DOMAIN q.hourly[s] :
                  \E sum : made[s][h] = [state |-> q.hourly[s][h], sum |-> sum]
    BY <2>2
  <2>4. QED
    BY <2>1, <2>3, Zenon
<1> DEFINE r == [phase |-> "queued", periods |-> q.periods, serials |-> q.serials,
                 after |-> q.after, rows |-> new]
<1>4. RowsOK(r)
  <2>1. ASSUME NEW s \in q.serials, NEW h \in DOMAIN new[s]
        PROVE  new[s][h] # Nothing /\ new[s][h].state = Meter(s, h)
    <3>1. PICK sum : new[s][h] = [state |-> q.hourly[s][h], sum |-> sum]
      BY <1>3, <2>1
    <3>2. q.hourly[s][h] = Meter(s, h)
      BY <1>2, <1>3, <2>1 DEF HourlyOK
    <3>3. QED
      BY <3>1, <3>2, RowIsSomething
  <2>2. q.serials \subseteq Serial
    BY <1>2 DEF HourlyOK
  <2>3. QED
    BY <2>1, <2>2 DEF RowsOK
<1>5. k = "reconcile" => DayOK(r, rows)
  BY <1>1, <1>3 DEF TaskOK, DayOK
<1>6. TaskOK(k, r, rows) /\ r.phase = "queued"
  BY <1>2, <1>4, <1>5 DEF TaskOK, Importing
<1>7. task' = [task EXCEPT ![k] = r]
  BY <1>3
<1> HIDE DEF r
<1>8. /\ task' = [j \in Task |-> task'[j]]
      /\ task'[k] = r /\ \A j \in Task \ {k} : task'[j] = task[j]
  BY <1>7 DEF ArchiveInv
<1>9. \A j \in Task : TaskOK(j, task'[j], rows)
  BY <1>6, <1>8 DEF ArchiveInv
<1>10. QueueOK'
  <2>1. /\ queue \in Seq(Importing)
        /\ \A i \in 1 .. Len(queue) : queue[i] \in Importing /\ queue[i] # k
    BY <1>1 DEF QueueOK
  <2>2. /\ queue' \in Seq(Importing) /\ Len(queue') = Len(queue) + 1
        /\ queue'[Len(queue) + 1] = k
        /\ \A i \in 1 .. Len(queue) : queue'[i] = queue[i]
    BY <1>1, <1>2, <2>1
  <2>3. \A i \in 1 .. Len(queue) : task'[queue[i]].phase = "queued"
    BY <1>1, <1>8, <2>1 DEF QueueOK, Importing, Task
  <2>4. \A i \in 1 .. Len(queue') : i \in 1 .. Len(queue) \/ i = Len(queue) + 1
    BY <2>1, <2>2
  <2>5. \A i \in 1 .. Len(queue') : task'[queue'[i]].phase = "queued"
    BY <1>6, <1>8, <2>2, <2>3, <2>4
  <2>6. \A i, j \in 1 .. Len(queue') : queue'[i] = queue'[j] => i = j
    BY <1>1, <2>1, <2>2, <2>4 DEF QueueOK
  <2>7. QED
    BY <2>2, <2>5, <2>6 DEF QueueOK
<1>11. Stored' /\ (hour \in Nat /\ DayStart[1] <= hour /\ owned \subseteq Serial)'
  BY <1>1 DEF ArchiveInv, Stored, RowsAreMeters
<1>12. (\A j \in Task : TaskOK(j, task[j], rows))'
  BY <1>1, <1>9 DEF TaskOK, DayOK
<1>13. QED
  BY <1>8, <1>10, <1>11, <1>12 DEF ArchiveInv

-----------------------------------------------------------------------------
(* The Recorder's own steps.                                               *)

\* What is known of a task survives as long as rows are only added or replaced.
LEMMA RowsOnlyAdded ==
    ASSUME NEW R, NEW new, NEW k, NEW r, TaskOK(k, r, R),
           \A s \in Serial, h \in Hours : R[s][h] # Nothing => new[s][h] # Nothing
    PROVE  TaskOK(k, r, new)
BY DEF TaskOK, DayOK

LEMMA HourPassesKeeps ==
    ASSUME ArchiveInv, HourPasses
    PROVE  ArchiveInv'
<1>1. /\ hour \in Nat /\ DayStart[1] <= hour /\ DayStart[1] \in Nat
      /\ hour' = hour + 1 /\ UNCHANGED <<task, queue, owned>> /\ Stored
  BY ArchiveAssumption DEF HourPasses, ArchiveInv, ownership
<1>2. PICK available, row :
        /\ rows' = [s \in Serial |->
             IF s \in available THEN [rows[s] EXCEPT ![hour] = row[s]] ELSE rows[s]]
        /\ \A s \in Serial : \E sum : row[s] = [state |-> Meter(s, hour), sum |-> sum]
  <2> DEFINE state(s) == MeterValue[s][(hour + 1) * SlotsPerHour - 1]
             sum(s)   == IF live[s] = Nothing THEN 0
                         ELSE live[s].sum + increase(live[s].state, state(s))
             row == [s \in Serial |-> [state |-> state(s), sum |-> sum(s)]]
  <2>1. PICK available :
          rows' = [s \in Serial |->
             IF s \in available THEN [rows[s] EXCEPT ![hour] = [state |-> state(s), sum |-> sum(s)]]
             ELSE rows[s]]
    BY DEF HourPasses
  <2>2. \A s \in Serial : state(s) = Meter(s, hour) /\ row[s] = [state |-> state(s), sum |-> sum(s)]
    BY DEF Meter, Last
  <2> HIDE DEF row, state, sum
  <2>3. rows' = [s \in Serial |->
             IF s \in available THEN [rows[s] EXCEPT ![hour] = row[s]] ELSE rows[s]]
    BY <2>1, <2>2
  <2>4. \A s \in Serial : \E x : row[s] = [state |-> Meter(s, hour), sum |-> x]
    BY <2>2
  <2>5. QED
    BY <2>3, <2>4, Zenon
<1>3. \A s \in Serial, h \in Hours :
        \/ rows'[s][h] = rows[s][h]
        \/ h = hour /\ rows'[s][h] = row[s]
  <2>1. ASSUME NEW s \in Serial, NEW h \in Hours
        PROVE  rows'[s][h] = rows[s][h] \/ (h = hour /\ rows'[s][h] = row[s])
    <3>1. rows[s] = [g \in Hours |-> rows[s][g]]
      BY <1>1 DEF Stored
    <3>2. rows'[s] = [rows[s] EXCEPT ![hour] = row[s]] \/ rows'[s] = rows[s]
      BY <1>2
    <3>3. QED
      BY <3>1, <3>2
  <2>2. QED
    BY <2>1
<1>4. ASSUME NEW s \in Serial
      PROVE  row[s] # Nothing /\ row[s].state = Meter(s, hour)
  <2>1. PICK sum : row[s] = [state |-> Meter(s, hour), sum |-> sum]
    BY <1>2
  <2>2. QED
    BY <2>1, RowIsSomething
<1>5. Stored'
  <2>1. /\ rows' = [s \in Serial |-> rows'[s]]
        /\ \A s \in Serial : rows'[s] = [h \in Hours |-> rows'[s][h]]
    BY <1>1, <1>2 DEF Stored
  <2>2. RowsAreMeters'
    BY <1>1, <1>3, <1>4 DEF Stored, RowsAreMeters
  <2>3. QED
    BY <2>1, <2>2 DEF Stored
<1>6. \A k \in Task : TaskOK(k, task[k], rows')
  <2>1. \A s \in Serial, h \in Hours : rows[s][h] # Nothing => rows'[s][h] # Nothing
    BY <1>3, <1>4
  <2>2. QED
    BY <2>1, RowsOnlyAdded DEF ArchiveInv
<1>7. (\A k \in Task : TaskOK(k, task[k], rows))'
  BY <1>1, <1>6 DEF TaskOK, DayOK
<1>8. QED
  BY <1>1, <1>5, <1>7 DEF ArchiveInv, QueueOK

\* The rows of the first task in the queue.
LEMMA ApplyKeeps ==
    ASSUME ArchiveInv, Apply
    PROVE  ArchiveInv'
<1> DEFINE k == Head(queue)
           q == task[k]
           r == [phase |-> "applied", periods |-> q.periods, serials |-> q.serials]
<1>1. QueueOK /\ Stored /\ queue # <<>> /\ UNCHANGED <<hour, owned>> /\ queue' = Tail(queue)
  BY DEF Apply, ArchiveInv, ownership
<1>2. /\ queue \in Seq(Importing) /\ Len(queue) \in Nat /\ 1 \in 1 .. Len(queue)
      /\ k = queue[1] /\ k \in Importing /\ k \in Task /\ q.phase = "queued"
  <2>1. queue \in Seq(Importing) /\ Len(queue) \in Nat /\ 1 \in 1 .. Len(queue) /\ k = queue[1]
    BY <1>1 DEF QueueOK
  <2>2. k \in Importing /\ q.phase = "queued"
    BY <1>1, <2>1 DEF QueueOK
  <2>3. QED
    BY <2>1, <2>2 DEF Importing, Task
<1>3. TaskOK(k, q, rows) /\ RowsOK(q)
  BY <1>2 DEF ArchiveInv, TaskOK
<1>4. /\ rows' = [s \in Serial |->
            IF s \in q.serials
            THEN [h \in Hours |-> IF h \in DOMAIN q.rows[s] THEN q.rows[s][h] ELSE rows[s][h]]
            ELSE rows[s]]
      /\ task' = [task EXCEPT ![k] = r]
  BY DEF Apply
<1> HIDE DEF k, q
<1>5. \A s \in Serial, h \in Hours :
        rows'[s][h] = IF s \in q.serials /\ h \in DOMAIN q.rows[s] THEN q.rows[s][h] ELSE rows[s][h]
  BY <1>4
<1>6. \A s \in q.serials : \A h \in DOMAIN q.rows[s] :
        q.rows[s][h] # Nothing /\ q.rows[s][h].state = Meter(s, h)
  BY <1>3 DEF RowsOK
<1>7. Stored'
  <2>1. /\ rows' = [s \in Serial |-> rows'[s]]
        /\ \A s \in Serial : rows'[s] = [h \in Hours |-> rows'[s][h]]
    BY <1>1, <1>4 DEF Stored
  <2>2. RowsAreMeters'
    BY <1>1, <1>5, <1>6 DEF Stored, RowsAreMeters
  <2>3. QED
    BY <2>1, <2>2 DEF Stored
<1>8. \A s \in Serial, h \in Hours : rows[s][h] # Nothing => rows'[s][h] # Nothing
  BY <1>5, <1>6
<1>9. k = "reconcile" => DayOK(r, rows')
  <2>1. SUFFICES ASSUME k = "reconcile" PROVE DayOK(r, rows')
    OBVIOUS
  <2>2. IsDay(q.periods) /\ \A s \in q.serials : DOMAIN q.rows[s] = HoursOf(q.periods)
    BY <1>2, <1>3, <2>1 DEF TaskOK, DayOK, q
  <2>3. \A s \in q.serials \cap Serial, h \in HoursOf(q.periods) \cap Hours : rows'[s][h] # Nothing
    BY <1>5, <1>6, <2>2
  <2>4. QED
    BY <2>2, <2>3 DEF DayOK
<1>10. TaskOK(k, r, rows') /\ r.phase = "applied"
  BY <1>2, <1>9 DEF TaskOK, Importing
<1> HIDE DEF r
<1>11. /\ task' = [j \in Task |-> task'[j]]
       /\ task'[k] = r /\ \A j \in Task \ {k} : task'[j] = task[j]
  BY <1>2, <1>4 DEF ArchiveInv
<1>12. \A j \in Task : TaskOK(j, task'[j], rows')
  <2>1. ASSUME NEW j \in Task \ {k}
        PROVE  TaskOK(j, task'[j], rows')
    <3>1. TaskOK(j, task[j], rows) /\ task'[j] = task[j]
      BY <1>11 DEF ArchiveInv
    <3>2. QED
      BY <1>8, <3>1, RowsOnlyAdded
  <2>2. QED
    BY <1>10, <1>11, <2>1
<1>13. QueueOK'
  <2>1. /\ queue' \in Seq(Importing) /\ Len(queue') = Len(queue) - 1
        /\ \A i \in 1 .. Len(queue') : queue'[i] = queue[i + 1] /\ i + 1 \in 1 .. Len(queue)
    BY <1>1, <1>2
  <2>2. \A i \in 1 .. Len(queue') : queue'[i] # k /\ task[queue'[i]].phase = "queued"
    BY <1>1, <1>2, <2>1 DEF QueueOK
  <2>3. \A i \in 1 .. Len(queue') : queue'[i] \in Task
    BY <2>1 DEF Importing, Task
  <2>4. \A i \in 1 .. Len(queue') : task'[queue'[i]].phase = "queued"
    BY <1>11, <2>2, <2>3
  <2>5. \A i, j \in 1 .. Len(queue') : queue'[i] = queue'[j] => i = j
    BY <1>1, <2>1 DEF QueueOK
  <2>6. QED
    BY <2>1, <2>4, <2>5 DEF QueueOK
<1>14. (hour \in Nat /\ DayStart[1] <= hour /\ owned \subseteq Serial)'
  BY <1>1 DEF ArchiveInv
<1>15. (\A j \in Task : TaskOK(j, task[j], rows))'
  BY <1>12 DEF TaskOK, DayOK
<1>16. QED
  BY <1>7, <1>11, <1>13, <1>14, <1>15 DEF ArchiveInv

-----------------------------------------------------------------------------
(* The specification.                                                      *)

\* What the steps other than the Recorder's do.
LEMMA PeriodsOfDays ==
    ASSUME NEW days \in Nat \ {0}, NEW today \in DOMAIN DayStart, days <= today
    PROVE  /\ Ranges(completed_day_periods(today, days))
           /\ days = 1 => IsDay(completed_day_periods(today, days))
<1> DEFINE P == completed_day_periods(today, days)
<1>1. PICK n \in Nat \ {0} : DOMAIN DayStart = 0..n /\ \A d \in 0..n : DayStart[d] \in Nat
  BY ArchiveAssumption
<1>2. today \in 0..n
  BY <1>1
<1>3. DOMAIN P = 1..days
      /\ \A i \in 1..days : /\ P[i].start = DayStart[today - days + i - 1]
                            /\ P[i].end = DayStart[today - days + i]
  BY DEF completed_day_periods, Period
<1> HIDE DEF P
<1>4. Ranges(P)
  <2>1. ASSUME NEW i \in 1..days
        PROVE  P[i].start \in Nat /\ P[i].end \in Nat
    <3>1. today - days + i - 1 \in 0..n /\ today - days + i \in 0..n
      BY <1>2
    <3>2. QED
      BY <1>1, <1>3, <3>1
  <2>2. QED
    BY <1>3, <2>1 DEF Ranges
<1>5. ASSUME days = 1
      PROVE  IsDay(P)
  <2>1. today - 1 \in Days /\ (today - 1) + 1 = today
    BY <1>1, <1>2, <1>5 DEF Days
  <2>2. DOMAIN P = {1} /\ P[1].start = DayStart[today - 1] /\ P[1].end = DayStart[today]
    BY <1>2, <1>3, <1>5
  <2>3. QED
    BY <2>1, <2>2 DEF IsDay
<1>6. QED
  BY <1>4, <1>5 DEF P

\* The pieces of 86400 seconds of a read.
LEMMA ChunksAreRanges ==
    ASSUME NEW from \in Nat, NEW to \in Nat
    PROVE  Ranges(chunks(from, to))
<1> DEFINE n == (to - from + FullDay - 1) \div FullDay
<1>1. FullDay \in Nat \ {0}
  BY ArchiveAssumption
<1>2. \A i \in 1..n : i \in Nat \ {0}
  BY <1>1
<1> HIDE DEF n
<1>3. \A i \in 1..n : (i - 1) * FullDay \in Nat /\ i * FullDay \in Nat
  BY <1>1, <1>2
<1>4. \A i \in 1..n : /\ from + (i - 1) * FullDay \in Nat
                      /\ (IF from + i * FullDay < to THEN from + i * FullDay ELSE to) \in Nat
  BY <1>3
<1>5. chunks(from, to) =
        [i \in 1..n |-> Period(from + (i - 1) * FullDay,
                               IF from + i * FullDay < to THEN from + i * FullDay ELSE to)]
  BY DEF chunks, n
<1>6. QED
  BY <1>4, <1>5 DEF Ranges, Period

\* The pieces of a read follow each other from its start to its end, none
\* longer than 86400 seconds, and have every slot of the range.
ChunksCover(C, from, to) ==
    /\ DOMAIN C = 1 .. Len(C) /\ Len(C) >= 1 /\ C[1].start = from /\ C[Len(C)].end = to
    /\ \A i \in 1 .. Len(C) : C[i].start < C[i].end /\ C[i].end <= C[i].start + FullDay
    /\ \A i \in 1 .. Len(C) - 1 : C[i].end = C[i + 1].start
    /\ expected_timestamps(C) = SlotsOf(from, to)

\* get_archive asks for exactly the slots of its range (__init__.py:424-429).
THEOREM ArchiveChunksCover ==
    ASSUME NEW from \in Nat, NEW to \in Nat, from < to
    PROVE  ChunksCover(chunks(from, to), from, to)
<1> DEFINE F == FullDay
           n == (to - from + FullDay - 1) \div FullDay
           C == chunks(from, to)
<1>1. F \in Nat \ {0} /\ n \in Nat /\ n * F <= to - from + F - 1 /\ to - from <= n * F
  <2>1. F \in Nat \ {0} /\ to - from + F - 1 \in Nat
    BY ArchiveAssumption
  <2> DEFINE u == to - from + F - 1
  <2>2. u \div F \in Nat /\ u >= (u \div F) * F /\ u <= (u \div F) * F + F - 1
    BY <2>1, Division
  <2>3. n = u \div F
    OBVIOUS
  <2>4. n \in Nat /\ u >= n * F /\ u <= n * F + F - 1 /\ n * F \in Nat
    BY <2>1, <2>2, <2>3
  <2> HIDE DEF n, F
  <2>5. QED
    BY <2>1, <2>4
<1>2. C = [i \in 1..n |-> Period(from + (i - 1) * F,
                                 IF from + i * F < to THEN from + i * F ELSE to)]
  BY DEF chunks
<1> HIDE DEF n, F, C
<1>3. DOMAIN C = 1..n /\ Len(C) = n
      /\ \A i \in 1..n : /\ C[i].start = from + (i - 1) * F
                         /\ C[i].end = IF from + i * F < to THEN from + i * F ELSE to
  BY <1>1, <1>2 DEF Period
<1>4. n >= 1
  <2>1. SUFFICES ASSUME n = 0 PROVE FALSE
    BY <1>1
  <2>2. n * F = 0
    BY <1>1, <2>1
  <2>3. QED
    BY <1>1, <2>2
<1>5. (n - 1) * F < to - from
  <2>1. (n - 1) * F = n * F - F /\ n * F \in Nat
    BY <1>1
  <2>2. QED
    BY <1>1, <2>1
<1>6. ASSUME NEW i \in 1..n
      PROVE  /\ C[i].start \in Nat /\ from <= C[i].start /\ C[i].start < C[i].end
             /\ C[i].end \in Nat /\ C[i].end <= to /\ C[i].end <= C[i].start + F
             /\ i # n => C[i].end = from + i * F
             /\ i = n => C[i].end = to
  <2>1. (i - 1) * F \in Nat /\ i * F \in Nat /\ i * F = (i - 1) * F + F
    BY <1>1
  <2>2. (i - 1) * F <= (n - 1) * F /\ (n - 1) * F \in Nat
    BY <1>1, <1>4
  <2>3. i # n => i * F <= (n - 1) * F
    BY <1>1, <1>4
  <2>4. i = n => i * F >= to - from
    BY <1>1
  <2> DEFINE a == (i - 1) * F
             b == i * F
             l == (n - 1) * F
  <2>5. /\ a \in Nat /\ b = a + F /\ a <= l /\ l \in Nat /\ l < to - from
        /\ i # n => b <= l
        /\ i = n => b >= to - from
        /\ C[i].start = from + a /\ C[i].end = IF from + b < to THEN from + b ELSE to
    BY <1>3, <1>5, <2>1, <2>2, <2>3, <2>4
  <2> HIDE DEF a, b, l
  <2>6. /\ C[i].start \in Nat /\ from <= C[i].start /\ C[i].start < C[i].end
        /\ C[i].end \in Nat /\ C[i].end <= to /\ C[i].end <= C[i].start + F
        /\ i # n => C[i].end = from + b
        /\ i = n => C[i].end = to
    BY <1>1, <2>5
  <2>7. QED
    BY <2>6 DEF b
<1>7. C[1].start = from
  <2>1. (1 - 1) * F = 0 /\ 1 \in 1..n
    BY <1>1, <1>4
  <2>2. QED
    BY <1>3, <2>1
<1>8. \A i \in 1 .. n - 1 : C[i].end = C[i + 1].start
  <2>1. ASSUME NEW i \in 1 .. n - 1
        PROVE  C[i].end = C[i + 1].start
    <3>1. i \in 1..n /\ i + 1 \in 1..n /\ i # n /\ (i + 1) - 1 = i
      BY <1>1
    <3>2. C[i].end = from + i * F
      BY <1>6, <3>1
    <3>3. C[i + 1].start = from + i * F
      BY <1>3, <3>1
    <3>4. QED
      BY <3>2, <3>3
  <2>2. QED
    BY <2>1
<1>9. ASSUME NEW i \in 1..n, NEW t \in SlotsOf(C[i].start, C[i].end)
      PROVE  t \in SlotsOf(from, to)
  <2>1. t \in Nat /\ Hour(t) \in C[i].start .. C[i].end - 1
    BY <1>6, WholeHours
  <2>2. Hour(t) \in from .. to - 1
    BY <1>6, <2>1
  <2>3. QED
    BY <2>1, <2>2, SlotOfHour
<1>10. ASSUME NEW t \in SlotsOf(from, to)
       PROVE  \E i \in 1..n : t \in SlotsOf(C[i].start, C[i].end)
  <2>1. t \in Nat /\ Hour(t) \in from .. to - 1
    BY WholeHours
  <2> DEFINE h == Hour(t)
             q == (h - from) \div F
  <2>2. h \in Nat /\ from <= h /\ h < to /\ h - from \in Nat
    BY <2>1
  <2> HIDE DEF h
  <2>3. q \in Nat /\ q * F <= h - from /\ h - from <= q * F + F - 1
    BY <1>1, <2>2, Division
  <2> HIDE DEF q
  <2>4. q < n
    <3>1. SUFFICES ASSUME n <= q PROVE FALSE
      BY <1>1, <2>3
    <3>2. n * F <= q * F
      BY <1>1, <2>3, <3>1
    <3>3. n * F \in Nat /\ q * F \in Nat
      BY <1>1, <2>3
    <3>4. QED
      BY <1>1, <2>2, <2>3, <3>2, <3>3
  <2>5. PICK i \in 1..n : i - 1 = q
    BY <1>1, <2>3, <2>4
  <2>6. C[i].start <= h
    BY <1>1, <1>3, <2>2, <2>3, <2>5
  <2>7. h < C[i].end
    <3>1. i * F = q * F + F /\ q * F \in Nat /\ i * F \in Nat
      BY <1>1, <2>3, <2>5
    <3>2. h < from + i * F
      BY <1>1, <2>2, <2>3, <3>1
    <3>3. QED
      BY <1>3, <2>2, <3>2
  <2>8. h \in C[i].start .. C[i].end - 1
    BY <1>6, <2>2, <2>6, <2>7
  <2>9. QED
    BY <1>6, <2>1, <2>8, SlotOfHour DEF h
<1>11. expected_timestamps(C) = SlotsOf(from, to)
  BY <1>3, <1>9, <1>10 DEF expected_timestamps
<1>12. n \in 1..n
  BY <1>1, <1>4
<1>13. ChunksCover(C, from, to)
  BY <1>1, <1>3, <1>4, <1>6, <1>7, <1>8, <1>11, <1>12 DEF ChunksCover, F
<1>14. QED
  BY <1>13 DEF C

LEMMA ArchiveInitInv == ASSUME Init PROVE ArchiveInv
<1>1. hour \in Nat /\ DayStart[1] <= hour
  BY ArchiveAssumption DEF Init
<1>2. Stored /\ QueueOK /\ owned \subseteq Serial
  BY DEF Init, Stored, RowsAreMeters, QueueOK
<1>3. task = [k \in Task |-> Idle]
  BY DEF Init
<1>4. \A k \in Task : TaskOK(k, task[k], rows)
  BY <1>3 DEF TaskOK, DayOK, Idle
<1>5. QED
  BY <1>1, <1>2, <1>3, <1>4 DEF ArchiveInv

LEMMA ArchiveNextInv == ASSUME ArchiveInv, [Next]_vars PROVE ArchiveInv'
<1>1. /\ Today(hour) \in DOMAIN DayStart /\ Today(hour) \in Nat /\ Today(hour) >= 1
  BY TodayFacts DEF ArchiveInv
<1>2. CASE UNCHANGED vars
  BY <1>2 DEF vars, recorder, ownership, ArchiveInv, Stored, RowsAreMeters, QueueOK, TaskOK, DayOK
<1>3. CASE HourPasses \/ Apply
  BY <1>3, HourPassesKeeps, ApplyKeeps
<1>4. CASE Poll
  BY <1>4 DEF Poll, recorder, ArchiveInv, Stored, RowsAreMeters, QueueOK, TaskOK, DayOK
<1>5. CASE ScheduleReconcile
  <2>1. "reconcile" \in Task /\ 1 \in Nat \ {0}
    BY DEF Task
  <2>2. QED
    BY <1>1, <1>5, <2>1, PeriodsOfDays, BeginKeeps DEF ScheduleReconcile
<1>6. CASE ImportCalled
  <2>1. "import" \in Task /\ MaxDays \in Nat
    BY ArchiveAssumption DEF Task
  <2>2. PICK days \in 1..MaxDays :
          days <= Today(hour) /\ Begin("import", completed_day_periods(Today(hour), days))
    BY <1>6 DEF ImportCalled
  <2>3. QED
    BY <1>1, <2>1, <2>2, PeriodsOfDays, BeginKeeps
<1>7. CASE GetCalled
  <2>1. PICK d \in Days : \E end \in DayStart[d] + 1 .. LastHour :
          Begin("get", chunks(DayStart[d], end))
    BY <1>7 DEF GetCalled
  <2>2. PICK end \in DayStart[d] + 1 .. LastHour : Begin("get", chunks(DayStart[d], end))
    BY <2>1
  <2>3. DayStart[d] \in Nat /\ end \in Nat /\ "get" \in Task
    BY ArchiveAssumption DEF Days, Task
  <2>4. QED
    BY <2>2, <2>3, ChunksAreRanges, BeginKeeps
<1>8. ASSUME NEW k \in Task,
             ReadStarts(k) \/ ReadEnds(k) \/ ReadBefore(k) \/ ReadAfter(k) \/ HandOver(k)
      PROVE  ArchiveInv'
  BY <1>8, ReadStartsKeeps, ReadEndsKeeps, NeighboursKeep, HandOverKeeps
<1>9. ASSUME NEW k \in Task, ReadFails(k)
      PROVE  ArchiveInv'
  BY <1>9, IdleKeeps DEF ReadFails, ownership, recorder
<1>10. CASE FinishReconcile \/ FinishImport \/ GetReturned
  <2>1. "reconcile" \in Task /\ "import" \in Task /\ "get" \in Task
    BY DEF Task
  <2>2. QED
    BY <1>10, <2>1, IdleKeeps DEF FinishReconcile, FinishImport, GetReturned, ownership, recorder
<1>11. CASE GetRead \/ GetAnswered
  BY <1>11, GetKeeps
<1>12. QED
  BY <1>2, <1>3, <1>4, <1>5, <1>6, <1>7, <1>8, <1>9, <1>10, <1>11 DEF Next

\* The inductive invariant of the specification.
THEOREM ArchiveInvariant == Spec => []ArchiveInv
<1>1. QED
  BY ArchiveInitInv, ArchiveNextInv, PTL DEF Spec

\* A day ends after it begins, and within the hours of the model.
LEMMA DayBounds ==
    ASSUME NEW c \in Days, NEW d \in Days, DayStart[c] = DayStart[d]
    PROVE  /\ c = d
           /\ DayStart[d] .. DayStart[d + 1] - 1 \subseteq Hours
<1>1. PICK n \in Nat \ {0} :
        /\ DOMAIN DayStart = 0..n /\ \A i \in 0..n : DayStart[i] \in Nat
        /\ \A i, j \in 0..n : i < j => DayStart[i] < DayStart[j]
  BY ArchiveAssumption
<1>2. c \in 0..n /\ d \in 0..n /\ d + 1 \in 0..n
  BY <1>1 DEF Days
<1>3. c = d
  BY <1>1, <1>2
<1> DEFINE T == {DayStart[i] : i \in DOMAIN DayStart}
<1>4. T \in SUBSET Nat /\ DayStart[d + 1] \in T /\ DayStart[n] \in Nat
  BY <1>1, <1>2
<1>5. \A x \in T : x <= DayStart[n]
  BY <1>1
<1>6. DayStart[d + 1] <= Max(T) /\ Max(T) \in Nat
  BY <1>4, <1>5, GreatestNatural
<1>7. LastHour = Max(T)
  BY DEF LastHour
<1> HIDE DEF T
<1>8. DayStart[d] \in Nat /\ DayStart[d + 1] \in Nat
  BY <1>1, <1>2
<1>9. QED
  BY <1>3, <1>6, <1>7, <1>8 DEF Hours

RecordedStep ==
    reconciled' # reconciled =>
       \A s \in owned \cap task["reconcile"].serials :
         \A h \in DayStart[reconciled'] .. DayStart[reconciled' + 1] - 1 :
           rows[s][h] # Nothing /\ rows[s][h].state = MeterValue[s][(h + 1) * SlotsPerHour - 1]

LEMMA RecordedStepHolds == ASSUME ArchiveInv, [Next]_vars PROVE RecordedStep
<1>1. SUFFICES ASSUME reconciled' # reconciled PROVE RecordedStep
  BY DEF RecordedStep
<1>2. FinishReconcile
  BY <1>1 DEF Next, vars, HourPasses, Apply, Poll, ScheduleReconcile, ImportCalled, GetCalled,
              Begin, ReadStarts, ReadFails, ReadEnds, ReadBefore, ReadAfter, HandOver,
              FinishImport, GetRead, GetAnswered, GetReturned
<1> DEFINE q == task["reconcile"]
<1>3. /\ q.phase = "applied"
      /\ reconciled' = CHOOSE d \in Days : DayStart[d] = q.periods[1].start
  BY <1>1, <1>2 DEF FinishReconcile, Start
<1>4. DayOK(q, rows)
  BY <1>3 DEF ArchiveInv, TaskOK, Task
<1>5. PICK d \in Days : q.periods[1].start = DayStart[d] /\ q.periods[1].end = DayStart[d + 1]
  BY <1>3, <1>4 DEF DayOK, IsDay
<1>6. reconciled' \in Days /\ DayStart[reconciled'] = DayStart[d]
  BY <1>3, <1>5
<1>7. reconciled' = d /\ DayStart[d] .. DayStart[d + 1] - 1 \subseteq Hours
  BY <1>5, <1>6, DayBounds
<1>8. \A s \in q.serials \cap Serial, h \in HoursOf(q.periods) \cap Hours : rows[s][h] # Nothing
  BY <1>3, <1>4 DEF DayOK
<1>9. HoursOf(q.periods) = DayStart[d] .. DayStart[d + 1] - 1
  BY <1>5 DEF HoursOf
<1> HIDE DEF q
<1>10. ASSUME NEW s \in owned \cap q.serials, NEW h \in DayStart[d] .. DayStart[d + 1] - 1
       PROVE  rows[s][h] # Nothing /\ rows[s][h].state = Meter(s, h)
  <2>1. s \in Serial /\ s \in q.serials /\ h \in Hours /\ h \in HoursOf(q.periods)
    BY <1>7, <1>9 DEF ArchiveInv
  <2>2. rows[s][h] # Nothing
    BY <1>8, <2>1
  <2>3. QED
    BY <2>1, <2>2 DEF ArchiveInv, Stored, RowsAreMeters
<1>11. QED
  BY <1>7, <1>10 DEF RecordedStep, q, Meter, Last

\* A day recorded as reconciled is in the Recorder with the archive's states,
\* whatever else was imported or recorded meanwhile (__init__.py:273-289).
THEOREM ArchiveRecordedDayImported == Spec => RecordedDayImported
<1>1. ArchiveInv /\ [Next]_vars => [RecordedStep]_vars
  BY RecordedStepHolds
<1>2. QED
  BY <1>1, ArchiveInvariant, PTL DEF Spec, RecordedDayImported, RecordedStep

-----------------------------------------------------------------------------
(* The answers of get_archive.                                             *)

\* Calendar days only pass.
LEMMA TodayMonotone ==
    ASSUME NEW g \in Nat, NEW h \in Nat, DayStart[1] <= g, g <= h
    PROVE  /\ DayStart[Today(g)] \in Nat /\ DayStart[Today(g)] <= g
           /\ DayStart[Today(h)] \in Nat /\ DayStart[Today(g)] <= DayStart[Today(h)]
<1>1. PICK n \in Nat \ {0} :
        /\ DOMAIN DayStart = 0..n /\ \A d \in 0..n : DayStart[d] \in Nat
        /\ \A c, d \in 0..n : c < d => DayStart[c] < DayStart[d]
  BY ArchiveAssumption
<1>2. /\ Today(g) \in DOMAIN DayStart /\ DayStart[Today(g)] <= g
      /\ Today(h) \in DOMAIN DayStart /\ DayStart[Today(h)] <= h
  BY <1>1, TodayFacts
<1> DEFINE T == {d \in DOMAIN DayStart : DayStart[d] <= h}
<1>3. T \in SUBSET Nat /\ Today(g) \in T /\ \A d \in T : d <= n
  BY <1>1, <1>2
<1>4. Today(g) <= Today(h)
  BY <1>1, <1>3, GreatestNatural DEF Today
<1>5. QED
  BY <1>1, <1>2, <1>4

\* While get_archive is at work its periods cover a range; once it has its
\* records, they are slots of that range that were over when it read them.
Covers(periods) ==
    \E from, to \in Nat : from < to /\ ChunksCover(periods, from, to)
GetOK(g) ==
    /\ g.phase \in {"waiting", "reading", "closing"} => Covers(g.periods)
    /\ g.phase = "closing" =>
          /\ g.read_at \in Nat /\ DayStart[1] <= g.read_at /\ g.read_at <= hour
          /\ \A s \in Serial : \A t \in g.archive[s] :
                t \in expected_timestamps(g.periods) /\ Hour(t) < g.read_at
GetInv == ArchiveInv /\ GetOK(task["get"])

LEMMA GetInitInv == ASSUME Init PROVE GetInv
BY ArchiveInitInv DEF GetInv, GetOK, Init, Idle, Task

LEMMA GetNextInv == ASSUME GetInv, [Next]_vars PROVE GetInv'
<1>0. /\ ArchiveInv' /\ "get" \in Task /\ task = [k \in Task |-> task[k]]
      /\ hour \in Nat /\ DayStart[1] <= hour
  BY ArchiveNextInv DEF GetInv, ArchiveInv, Task
<1> DEFINE g == task["get"]
           new == task'["get"]
<1>1. hour' \in Nat /\ hour <= hour'
  <2>1. hour' = hour \/ hour' = hour + 1
    BY DEF Next, vars, HourPasses, Apply, Poll, ScheduleReconcile, ImportCalled, GetCalled,
           Begin, ReadStarts, ReadFails, ReadEnds, ReadBefore, ReadAfter, HandOver,
           FinishReconcile, FinishImport, GetRead, GetAnswered, GetReturned
  <2>2. QED
    BY <1>0, <2>1
<1>2. CASE new = g
  BY <1>0, <1>1, <1>2 DEF GetInv, GetOK
<1>3. CASE new.phase \in {"idle", "answered"}
  BY <1>0, <1>3 DEF GetInv, GetOK
<1>4. CASE GetCalled
  <2>1. PICK d \in Days : \E end \in DayStart[d] + 1 .. LastHour :
          Begin("get", chunks(DayStart[d], end))
    BY <1>4 DEF GetCalled
  <2>2. PICK end \in DayStart[d] + 1 .. LastHour : Begin("get", chunks(DayStart[d], end))
    BY <2>1
  <2>3. DayStart[d] \in Nat /\ end \in Nat /\ DayStart[d] < end
    BY ArchiveAssumption DEF Days
  <2>4. Covers(chunks(DayStart[d], end))
    BY <2>3, ArchiveChunksCover DEF Covers
  <2>5. new.phase = "waiting" /\ new.periods = chunks(DayStart[d], end)
    BY <1>0, <2>2 DEF Begin, Begun
  <2>6. QED
    BY <1>0, <2>4, <2>5 DEF GetInv, GetOK
<1>5. CASE ReadStarts("get")
  <2>1. g.phase = "waiting" /\ TaskOK("get", g, rows) /\ Covers(g.periods)
    BY <1>0, <1>5 DEF ReadStarts, GetInv, ArchiveInv, GetOK
  <2>2. g = [phase |-> g.phase, periods |-> g.periods]
    BY <2>1 DEF TaskOK
  <2>3. new = [g EXCEPT !.phase = "reading"]
    BY <1>0, <1>5 DEF ReadStarts
  <2> HIDE DEF g, new
  <2>4. new.phase = "reading" /\ new.periods = g.periods
    BY <2>2, <2>3
  <2>5. GetOK(task["get"])'
    BY <2>1, <2>4 DEF GetOK, Covers, new
  <2>6. QED
    BY <1>0, <2>5 DEF GetInv
<1>6. CASE GetRead
  <2>1. PICK archive \in [Serial -> Delivered(g.periods)] :
          task' = [task EXCEPT !["get"] = Closing(g.periods, archive)]
    BY <1>6, GetWrites
  <2>2. g.phase = "reading" /\ hour' = hour /\ Covers(g.periods)
    BY <1>6 DEF GetRead, GetInv, GetOK
  <2>3. \A s \in Serial : \A t \in archive[s] :
          t \in expected_timestamps(g.periods) /\ Hour(t) < hour
    BY DEF Delivered
  <2>4. new = Closing(g.periods, archive)
    BY <1>0, <2>1
  <2> HIDE DEF g, new
  <2>5. /\ new.phase = "closing" /\ new.periods = g.periods /\ new.archive = archive
        /\ new.read_at = hour
    BY <2>4 DEF Closing
  <2>6. GetOK(task["get"])'
    BY <1>0, <2>2, <2>3, <2>5 DEF GetOK, Covers, new
  <2>7. QED
    BY <1>0, <2>6 DEF GetInv
<1>7. QED
  <2>1. CASE HourPasses \/ Poll \/ UNCHANGED vars
    BY <1>2, <2>1 DEF HourPasses, Poll, vars
  <2>2. CASE Apply
    <3>1. Head(queue) # "get"
      BY <2>2 DEF Apply, GetInv, ArchiveInv, QueueOK, Importing
    <3>2. QED
      BY <1>0, <1>2, <2>2, <3>1 DEF Apply
  <2>3. CASE ScheduleReconcile \/ ImportCalled
    BY <1>0, <1>2, <2>3 DEF ScheduleReconcile, ImportCalled, Begin
  <2>4. ASSUME NEW k \in Task, ReadEnds(k) \/ ReadBefore(k) \/ ReadAfter(k) \/ HandOver(k)
        PROVE  GetInv'
    <3>1. k # "get"
      BY <2>4 DEF ReadEnds, ReadBefore, ReadAfter, HandOver, Importing, GetInv, ArchiveInv, TaskOK
    <3>2. QED
      BY <1>0, <1>2, <2>4, <3>1 DEF ReadEnds, ReadBefore, ReadAfter, HandOver
  <2>5. ASSUME NEW k \in Task, ReadStarts(k) PROVE GetInv'
    <3>1. k # "get" => new = g
      BY <1>0, <2>5 DEF ReadStarts
    <3>2. QED
      BY <1>2, <1>5, <2>5, <3>1
  <2>6. ASSUME NEW k \in Task, ReadFails(k) PROVE GetInv'
    <3>1. new = g \/ new.phase = "idle"
      BY <1>0, <2>6 DEF ReadFails, Idle
    <3>2. QED
      BY <1>2, <1>3, <3>1
  <2>7. CASE FinishReconcile \/ FinishImport \/ GetReturned
    <3>1. new = g \/ new.phase = "idle"
      BY <1>0, <2>7 DEF FinishReconcile, FinishImport, GetReturned, Idle
    <3>2. QED
      BY <1>2, <1>3, <3>1
  <2>8. CASE GetAnswered
    <3>1. \E slots : new = Answered(g, slots)
      BY <1>0, <2>8, GetWrites
    <3>2. new.phase = "answered"
      BY <3>1 DEF Answered
    <3>3. QED
      BY <1>3, <3>2
  <2>9. QED
    BY <1>4, <1>6, <2>1, <2>2, <2>3, <2>4, <2>5, <2>6, <2>7, <2>8 DEF Next

\* What a get_archive at work knows of its range and its records.
THEOREM ArchiveGetInvariant == Spec => []GetInv
<1>1. QED
  BY GetInitInv, GetNextInv, PTL DEF Spec

AnswerStep ==
    LET a == task'["get"] IN
    task["get"].phase = "closing" /\ a.phase = "answered" =>
      /\ a.end <= DayStart[Today(a.read_at)] =>
            (a.complete <=> a.slots = SlotsOf(a.start, a.end))
      /\ a.read_at < a.end /\ a.end <= DayStart[Today(hour)] => ~a.complete

\* Only an answer is put together from what get_archive has read.
LEMMA OnlyAnswered ==
    ASSUME ArchiveInv, Next, task["get"].phase = "closing", task'["get"].phase = "answered"
    PROVE  GetAnswered
<1>2. /\ "get" \in Task /\ task = [k \in Task |-> task[k]]
      /\ task'["get"] # task["get"]
  BY DEF ArchiveInv, Task
<1>3. SUFFICES ASSUME ~GetAnswered PROVE FALSE
  OBVIOUS
<1>4. ASSUME NEW k \in Task, ReadFails(k) \/ ReadEnds(k)
      PROVE  FALSE
  BY <1>2, <1>4 DEF ReadFails, ReadEnds, Importing, Idle
<1>5. ASSUME NEW k \in Task,
             ReadStarts(k) \/ ReadBefore(k) \/ ReadAfter(k) \/ HandOver(k)
      PROVE  FALSE
  <2>1. k # "get" /\ \E r : task' = [task EXCEPT ![k] = r]
    BY <1>5 DEF ReadStarts, ReadBefore, ReadAfter, HandOver
  <2>2. QED
    BY <1>2, <2>1
<1>6. CASE ScheduleReconcile \/ ImportCalled \/ GetCalled
  <2>1. \E k \in Task : \E periods :
          k # "get" /\ task' = [task EXCEPT ![k] = Begun(periods)]
    BY <1>6 DEF ScheduleReconcile, ImportCalled, GetCalled, Begin, Active, Task
  <2>2. QED
    BY <1>2, <2>1
<1>7. CASE Apply
  BY <1>2, <1>7 DEF Apply
<1>8. CASE FinishReconcile \/ FinishImport \/ GetReturned \/ GetRead
  BY <1>2, <1>8 DEF FinishReconcile, FinishImport, GetReturned, GetRead, Idle
<1>9. CASE HourPasses \/ Poll
  BY <1>2, <1>9 DEF HourPasses, Poll
<1>10. QED
  BY <1>3, <1>4, <1>5, <1>6, <1>7, <1>8, <1>9 DEF Next

LEMMA AnswerStepHolds == ASSUME GetInv, Next PROVE AnswerStep
<1> DEFINE g == task["get"]
           a == task'["get"]
<1>1. SUFFICES ASSUME g.phase = "closing", a.phase = "answered"
               PROVE  /\ a.end <= DayStart[Today(a.read_at)] =>
                            (a.complete <=> a.slots = SlotsOf(a.start, a.end))
                      /\ a.read_at < a.end /\ a.end <= DayStart[Today(hour)] => ~a.complete
  BY DEF AnswerStep
<1>2. ArchiveInv /\ GetOK(g) /\ hour \in Nat
  BY DEF GetInv, ArchiveInv
<1>3. GetAnswered
  BY <1>1, <1>2, OnlyAnswered
<1> DEFINE start == g.periods[1].start
           end == g.periods[Len(g.periods)].end
<1>4. PICK d \in Serial :
        /\ a.start = start /\ a.end = end /\ a.read_at = g.read_at /\ a.slots = g.archive[d]
        /\ a.complete = timestamp_series_complete({a.slots}, start, end, require_all_slots(end))
  <2>1. "get" \in Task /\ task = [k \in Task |-> task[k]]
    BY <1>2 DEF ArchiveInv, Task
  <2>2. \E s \in Serial : a = Answered(g, g.archive[s])
    BY <1>3, <2>1, GetWrites
  <2>3. QED
    BY <2>2 DEF Answered
<1>5. PICK from, to \in Nat : from < to /\ ChunksCover(g.periods, from, to)
  BY <1>1, <1>2 DEF GetOK, Covers
<1>6. start = from /\ end = to /\ expected_timestamps(g.periods) = SlotsOf(from, to)
  BY <1>5 DEF ChunksCover
<1>7. /\ g.read_at \in Nat /\ DayStart[1] <= g.read_at /\ g.read_at <= hour
      /\ \A s \in Serial : \A t \in g.archive[s] :
            t \in SlotsOf(from, to) /\ Hour(t) < g.read_at
  BY <1>1, <1>2, <1>6 DEF GetOK
<1> HIDE DEF g, a, start, end
<1>8. require_all_slots(end) => (a.complete <=> a.slots # {} /\ a.slots = SlotsOf(from, to))
  BY <1>4, <1>6 DEF timestamp_series_complete
<1>9. Last(to - 1) \in SlotsOf(from, to) /\ Hour(Last(to - 1)) = to - 1
  BY <1>5, WholeHours, LastSlot
<1>10. ASSUME end <= DayStart[Today(g.read_at)]
       PROVE  a.complete <=> a.slots = SlotsOf(a.start, a.end)
  <2>1. require_all_slots(end)
    BY <1>2, <1>6, <1>7, <1>10, TodayMonotone DEF require_all_slots
  <2>2. QED
    BY <1>4, <1>6, <1>8, <1>9, <2>1
<1>11. ASSUME g.read_at < end, end <= DayStart[Today(hour)]
       PROVE  ~a.complete
  <2>1. Last(to - 1) \notin a.slots
    BY <1>4, <1>5, <1>6, <1>7, <1>9, <1>11
  <2>2. QED
    BY <1>8, <1>9, <1>11, <2>1 DEF require_all_slots
<1>12. QED
  BY <1>4, <1>10, <1>11

\* For every calendar, range and number of inverters: get_archive calls a range
\* of past days complete exactly with every slot, and never one whose records
\* were read before it was over (__init__.py:439, 477-483).
THEOREM ArchivePastAnswerRight == Spec => PastAnswerRight
<1>1. GetInv /\ [Next]_vars => [AnswerStep]_vars
  BY AnswerStepHolds
<1>2. QED
  BY <1>1, ArchiveGetInvariant, PTL DEF Spec, PastAnswerRight, AnswerStep
=============================================================================
