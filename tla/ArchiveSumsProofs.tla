------------------------- MODULE ArchiveSumsProofs -------------------------
(***************************************************************************)
(* The sums of ArchiveImport: that the imported history is continuous as   *)
(* long as imports do not overtake each other, for every set of inverters, *)
(* every calendar, every meter and any number of calls.                    *)
(***************************************************************************)
EXTENDS ArchiveProofs, FiniteSetTheorems

-----------------------------------------------------------------------------
(* Running sums.                                                           *)

LEMMA IncreaseIsNatural == \A a, b \in Nat : increase(a, b) \in Nat
BY DEF increase

\* The ends of a range of hours, and the hour before another.
LEMMA RangeEnds ==
    ASSUME NEW m \in Int, NEW n \in Int, m <= n
    PROVE  /\ Min(m..n) = m /\ Max(m..n) = n
           /\ \A h \in m + 1 .. n : Max({g \in m..n : g < h}) = h - 1
<1>1. m \in m..n /\ \A x \in m..n : (\A y \in m..n : x <= y) => x = m
  OBVIOUS
<1>2. n \in m..n /\ \A x \in m..n : (\A y \in m..n : x >= y) => x = n
  OBVIOUS
<1>3. ASSUME NEW h \in m + 1 .. n
      PROVE  Max({g \in m..n : g < h}) = h - 1
  <2> DEFINE T == {g \in m..n : g < h}
  <2>1. h - 1 \in T /\ \A y \in T : h - 1 >= y
    OBVIOUS
  <2>2. \A x \in T : (\A y \in T : x >= y) => x = h - 1
    BY <2>1
  <2> HIDE DEF T
  <2>3. QED
    BY <2>1, <2>2 DEF Max, T
<1>4. QED
  BY <1>1, <1>2, <1>3 DEF Min, Max

\* A function adds up the increases of a range.
Adds(f, states, m, n) ==
    /\ f \in [m..n -> Int] /\ f[m] = 0
    /\ \A h \in m + 1 .. n : f[h] = f[h - 1] + increase(states[h - 1], states[h])

\* There is one: no shortest range is without.
LEMMA SomethingAdds ==
    ASSUME NEW m \in Nat, NEW n \in Nat, m <= n, NEW states \in [m..n -> Nat]
    PROVE  \E f : Adds(f, states, m, n)
<1> DEFINE T == {k \in Nat : m + k <= n /\ ~ \E f : Adds(f, states, m, m + k)}
<1>1. T = {}
  <2>1. SUFFICES ASSUME T # {} PROVE FALSE
    OBVIOUS
  <2>2. T \in SUBSET Nat
    OBVIOUS
  <2>3. PICK k \in T : \A j \in T : k <= j
    BY <2>1, <2>2, LeastNatural
  <2>4. k # 0
    <3> DEFINE f == [h \in m..m |-> 0]
    <3>1. Adds(f, states, m, m)
      BY DEF Adds
    <3>2. 0 \notin T
      BY <3>1
    <3>3. QED
      BY <2>3, <3>2
  <2>5. k - 1 \in Nat /\ k - 1 \notin T /\ m + (k - 1) <= n /\ m + k <= n
    BY <2>3, <2>4
  <2>6. PICK f : Adds(f, states, m, m + (k - 1))
    BY <2>5
  <2> DEFINE l == m + k
             g == [h \in m..l |-> IF h = l THEN f[l - 1] + increase(states[l - 1], states[l])
                                  ELSE f[h]]
  <2>7. /\ l \in Nat /\ l - 1 = m + (k - 1) /\ m <= l - 1 /\ l <= n
        /\ l - 1 \in m..l - 1 /\ l \in m..n /\ l - 1 \in m..n
    BY <2>5
  <2> HIDE DEF l
  <2>8. f \in [m .. l - 1 -> Int] /\ f[m] = 0
        /\ \A h \in m + 1 .. l - 1 : f[h] = f[h - 1] + increase(states[h - 1], states[h])
    BY <2>6, <2>7 DEF Adds
  <2> HIDE DEF g
  <2>9. increase(states[l - 1], states[l]) \in Int
    <3>1. states[l - 1] \in Nat /\ states[l] \in Nat
      BY <2>7
    <3>2. increase(states[l - 1], states[l]) \in Nat
      BY <3>1, IncreaseIsNatural
    <3>3. QED
      BY <3>2
  <2> USE DEF g
  <2>10. \A h \in m..l : h = l \/ h \in m .. l - 1
    BY <2>7
  <2>11. g \in [m..l -> Int]
    BY <2>7, <2>8, <2>9, <2>10
  <2>12. g[m] = 0 /\ g[l] = f[l - 1] + increase(states[l - 1], states[l])
         /\ \A h \in m .. l - 1 : g[h] = f[h]
    BY <2>7, <2>8
  <2>13. \A h \in m + 1 .. l : g[h] = g[h - 1] + increase(states[h - 1], states[h])
    <3>1. ASSUME NEW h \in m + 1 .. l
          PROVE  g[h] = g[h - 1] + increase(states[h - 1], states[h])
      <4>1. h - 1 \in m .. l - 1 /\ (h = l \/ h \in m + 1 .. l - 1)
        BY <2>7
      <4> HIDE DEF g
      <4>2. CASE h = l
        BY <2>12, <4>1, <4>2
      <4>3. CASE h \in m + 1 .. l - 1
        <5>1. h \in m .. l - 1
          BY <4>3
        <5>2. QED
          BY <2>8, <2>12, <4>1, <4>3, <5>1
      <4>4. QED
        BY <4>1, <4>2, <4>3
    <3>2. QED
      BY <3>1
  <2>14. Adds(g, states, m, l)
    BY <2>11, <2>12, <2>13 DEF Adds
  <2>15. QED
    BY <2>3, <2>14 DEF l
<1>2. PICK k \in Nat : m + k = n
  <2>1. n - m \in Nat /\ m + (n - m) = n
    OBVIOUS
  <2>2. QED
    BY <2>1
<1>3. k \notin T /\ m + k <= n
  <2>1. m + k <= n
    BY <1>2
  <2> HIDE DEF T
  <2>2. k \notin T
    BY <1>1
  <2>3. QED
    BY <2>1, <2>2
<1>4. \E f : Adds(f, states, m, m + k)
  BY <1>3
<1>5. QED
  BY <1>2, <1>4

\* The recursive definition adds up the increases.
LEMMA IncrementsAdd ==
    ASSUME NEW m \in Nat, NEW n \in Nat, m <= n, NEW states \in [m..n -> Nat]
    PROVE  Adds(increments(states), states, m, n)
<1> DEFINE hs == m..n
           prior(h) == Max({g \in hs : g < h})
           Eq(f) == f = [h \in hs |->
                           IF h = Min(hs) THEN 0
                           ELSE f[prior(h)] + increase(states[prior(h)], states[h])]
<1>1. Min(hs) = m /\ \A h \in m + 1 .. n : prior(h) = h - 1
  <2>1. /\ Min(m..n) = m
        /\ \A h \in m + 1 .. n : Max({g \in m..n : g < h}) = h - 1
    <3>1. m \in Int /\ n \in Int
      OBVIOUS
    <3>2. QED
      BY <3>1, RangeEnds, Zenon
  <2>2. QED
    BY <2>1, Zenon
<1>2. \A h \in hs : h = m \/ h \in m + 1 .. n
  OBVIOUS
<1>3. PICK f : Adds(f, states, m, n)
  BY SomethingAdds
<1>4. DOMAIN states = hs
  OBVIOUS
<1>5. increments(states) = CHOOSE g : Eq(g)
  BY <1>4 DEF increments
<1> HIDE DEF hs, prior
<1>6. Eq(f)
  <2>1. f = [h \in hs |-> f[h]]
    BY <1>3 DEF Adds, hs
  <2>2. \A h \in hs : f[h] = IF h = Min(hs) THEN 0
                             ELSE f[prior(h)] + increase(states[prior(h)], states[h])
    BY <1>1, <1>2, <1>3 DEF Adds
  <2>3. QED
    BY <2>1, <2>2
<1> HIDE DEF Eq
<1>7. PICK g : g = increments(states) /\ Eq(g)
  BY <1>5, <1>6
<1>8. /\ g = [h \in hs |-> g[h]] /\ g[m] = 0
      /\ \A h \in m + 1 .. n : g[h] = g[h - 1] + increase(states[h - 1], states[h])
  <2>1. /\ g = [h \in hs |-> g[h]]
        /\ \A h \in hs : g[h] = IF h = Min(hs) THEN 0
                                ELSE g[prior(h)] + increase(states[prior(h)], states[h])
    BY <1>7 DEF Eq
  <2>2. m \in hs /\ \A h \in m + 1 .. n : h \in hs /\ h # m
    BY DEF hs
  <2>3. QED
    BY <1>1, <2>1, <2>2
<1> DEFINE T == {h \in hs : g[h] # f[h]}
<1>9. T = {}
  <2>1. SUFFICES ASSUME T # {} PROVE FALSE
    OBVIOUS
  <2>2. T \in SUBSET Nat
    BY DEF hs
  <2>3. PICK h \in T : \A j \in T : h <= j
    BY <2>1, <2>2, LeastNatural
  <2>4. h # m
    BY <1>3, <1>8, <2>3 DEF Adds
  <2>5. h \in m + 1 .. n /\ h - 1 \in hs /\ h - 1 \notin T
    BY <1>2, <2>3, <2>4 DEF hs
  <2>6. g[h - 1] = f[h - 1]
    BY <2>5
  <2>7. g[h] = f[h]
    BY <1>3, <1>8, <2>5, <2>6 DEF Adds
  <2>8. QED
    BY <2>3, <2>7
<1>10. g = f
  BY <1>3, <1>8, <1>9 DEF Adds, hs
<1>11. QED
  BY <1>3, <1>7, <1>10

\* A row as it is stored.
Written == [state : Nat, sum : Int]

LEMMA RowIsWritten == \A r \in Row : r # Nothing => r \in Written
BY DEF Row, Written

\* The sums of a range continue each other, and join the row before the range
\* if there is one, else the row after it.
SumsJoined(sums, states, m, n, previous, following) ==
    /\ sums \in [m..n -> Int]
    /\ \A h \in m..n : h + 1 \in m..n =>
          sums[h + 1] - sums[h] = increase(states[h], states[h + 1])
    /\ previous # Nothing => sums[m] - previous.sum = increase(previous.state, states[m])
    /\ previous = Nothing /\ following # Nothing =>
          following.sum - sums[n] = increase(states[n], following.state)

\* What cumulative_statistic_sums promises in archive.py:59-63, for a range of
\* any length, any meter states and any rows around it: its sums continue, join
\* the row before the range, and where history starts inside it the row after.
THEOREM SumsJoin ==
    ASSUME NEW m \in Nat, NEW n \in Nat, m <= n, NEW states \in [m..n -> Nat],
           NEW previous \in Row, NEW following \in Row
    PROVE  SumsJoined(cumulative_statistic_sums(states, previous, following),
                      states, m, n, previous, following)
<1> DEFINE sums == cumulative_statistic_sums(states, previous, following)
           total == increments(states)
           first == first_sum(previous, following, states[m], states[n], total[n])
<1>1. Adds(total, states, m, n)
  BY IncrementsAdd
<1>2. DOMAIN states = m..n /\ Min(m..n) = m /\ Max(m..n) = n
  BY RangeEnds
<1>3. sums = [h \in m..n |-> total[h] + first]
  BY <1>2 DEF cumulative_statistic_sums
<1> HIDE DEF total, sums
<1>4. /\ m \in m..n /\ n \in m..n /\ total \in [m..n -> Int] /\ total[m] = 0
      /\ states[m] \in Nat /\ states[n] \in Nat
      /\ \A h \in m + 1 .. n : total[h] = total[h - 1] + increase(states[h - 1], states[h])
  BY <1>1 DEF Adds
<1>5. previous # Nothing =>
        /\ first = previous.sum + increase(previous.state, states[m])
        /\ previous.sum \in Int /\ increase(previous.state, states[m]) \in Nat
  BY <1>4, RowIsWritten, IncreaseIsNatural DEF Written, first_sum
<1>6. previous = Nothing /\ following # Nothing =>
        /\ first = following.sum - (total[n] + increase(states[n], following.state))
        /\ following.sum \in Int /\ increase(states[n], following.state) \in Nat
  BY <1>4, RowIsWritten, IncreaseIsNatural DEF Written, first_sum
<1>7. first \in Int
  <2>1. previous = Nothing /\ following = Nothing => first = 0
    BY DEF first_sum
  <2>2. total[n] \in Int
    BY <1>4
  <2> HIDE DEF first
  <2>3. QED
    BY <1>5, <1>6, <2>1, <2>2
<1> HIDE DEF first
<1>8. \A h \in m..n : sums[h] = total[h] + first /\ total[h] \in Int
  BY <1>3, <1>4
<1>9. sums \in [m..n -> Int]
  BY <1>3, <1>7, <1>8
<1>10. ASSUME NEW h \in m..n, h + 1 \in m..n
       PROVE  sums[h + 1] - sums[h] = increase(states[h], states[h + 1])
  <2>1. h + 1 \in m + 1 .. n /\ (h + 1) - 1 = h
    BY <1>10
  <2>2. total[h + 1] = total[h] + increase(states[h], states[h + 1])
    BY <1>4, <2>1
  <2>3. increase(states[h], states[h + 1]) \in Nat
    BY <1>10, IncreaseIsNatural
  <2>4. QED
    BY <1>7, <1>8, <1>10, <2>2, <2>3
<1>11. /\ previous # Nothing => sums[m] - previous.sum = increase(previous.state, states[m])
       /\ previous = Nothing /\ following # Nothing =>
             following.sum - sums[n] = increase(states[n], following.state)
  <2>1. sums[m] = 0 + first /\ sums[n] = total[n] + first /\ total[n] \in Int
    BY <1>4, <1>8
  <2>2. previous # Nothing => sums[m] - previous.sum = increase(previous.state, states[m])
    BY <1>5, <2>1
  <2>3. previous = Nothing /\ following # Nothing =>
             following.sum - sums[n] = increase(states[n], following.state)
    BY <1>6, <2>1
  <2>4. QED
    BY <2>2, <2>3
<1>12. SumsJoined(sums, states, m, n, previous, following)
  BY <1>9, <1>10, <1>11 DEF SumsJoined
<1>13. QED
  BY <1>12 DEF sums

\* Two rows whose sums differ by what the meter counted between them; the rows
\* of the hours m..n; how they join the row before them, or the row after them.
Continues(g, h) == h.sum - g.sum = increase(g.state, h.state)
RowsContinue(new, m, n) ==
    /\ new \in [m..n -> Written]
    /\ \A h \in m..n : h + 1 \in m..n => Continues(new[h], new[h + 1])
Fits(new, m, n, before, after) ==
    IF before # Nothing THEN Continues(before, new[m])
    ELSE after # Nothing => Continues(new[n], after)

\* The rows an import hands over for a serial.
LEMMA RowsFit ==
    ASSUME NEW m \in Nat, NEW n \in Nat, m <= n, NEW states \in [m..n -> Nat],
           NEW before \in Row, NEW after \in Row,
           NEW new, new = [h \in DOMAIN states |->
              [state |-> states[h], sum |-> cumulative_statistic_sums(states, before, after)[h]]]
    PROVE  RowsContinue(new, m, n) /\ Fits(new, m, n, before, after)
<1> DEFINE sums == cumulative_statistic_sums(states, before, after)
<1>1. SumsJoined(sums, states, m, n, before, after)
  BY SumsJoin
<1>2. new = [h \in DOMAIN states |-> [state |-> states[h], sum |-> sums[h]]]
  OBVIOUS
<1> HIDE DEF sums
<1>3. /\ sums \in [m..n -> Int]
      /\ \A h \in m..n : h + 1 \in m..n =>
            sums[h + 1] - sums[h] = increase(states[h], states[h + 1])
      /\ before # Nothing => sums[m] - before.sum = increase(before.state, states[m])
      /\ before = Nothing /\ after # Nothing =>
            after.sum - sums[n] = increase(states[n], after.state)
  BY <1>1 DEF SumsJoined
<1>4. /\ DOMAIN states = m..n /\ m \in m..n /\ n \in m..n
      /\ new = [h \in m..n |-> [state |-> states[h], sum |-> sums[h]]]
  BY <1>2
<1>5. \A h \in m..n : /\ new[h].state = states[h] /\ new[h].sum = sums[h]
                      /\ new[h] \in Written
  BY <1>3, <1>4 DEF Written
<1>6. new \in [m..n -> Written]
  BY <1>4, <1>5
<1>7. \A h \in m..n : h + 1 \in m..n => Continues(new[h], new[h + 1])
  BY <1>3, <1>5 DEF Continues
<1>8. Fits(new, m, n, before, after)
  BY <1>3, <1>4, <1>5 DEF Fits, Continues
<1>9. QED
  BY <1>6, <1>7, <1>8 DEF RowsContinue

-----------------------------------------------------------------------------
(* The inductive invariant, on top of ArchiveInv.                          *)

\* The hours an import is about are those of completed days.
Span(k) == Start(k) .. End(k) - 1
PastDays(k) ==
    \E today \in DOMAIN DayStart : \E days \in 1 .. today :
        DayStart[today] <= hour /\ task[k].periods = completed_day_periods(today, days)

\* The row an import is to be joined to, and what was noted of the rows around
\* its range.
Before(k, s) == LastRow(s, Start(k) - Lookback, Start(k))
NotesOK(k) ==
    \A s \in task[k].serials :
       /\ task[k].hourly[s] \in [Span(k) -> Nat]
       /\ "before" \in task[k].read => task[k].before[s] \in Row
       /\ "after" \in task[k].read => task[k].after[s] \in Row
       /\ "before" \in task[k].read /\ "read" \notin raced => task[k].before[s] = Before(k, s)

\* Rows that wait to be written continue each other and join that row.
JobOK(k) ==
    \A s \in task[k].serials :
       /\ task[k].after[s] \in Row
       /\ RowsContinue(task[k].rows[s], Start(k), End(k) - 1)
       /\ "read" \notin raced =>
             Fits(task[k].rows[s], Start(k), End(k) - 1, Before(k, s), task[k].after[s])

\* No day after the range is written before the range is.
InOrder(k) == "order" \notin raced => \A s \in Serial : \A h \in imported[s] : h < End(k)

ImportOK(k) ==
    /\ PastDays(k) /\ InOrder(k)
    /\ task[k].phase = "anchors" => NotesOK(k)
    /\ task[k].phase = "queued" => JobOK(k)

\* Only past days are imported.
ImportedPast == \A s \in Serial : \A h \in imported[s] : h < DayStart[Today(hour)]

Counts ==
    /\ hour <= LastHour /\ reconciled \in {Never} \cup Days
    /\ raced \subseteq {"read", "order"} /\ calls \in 0..MaxCalls /\ moves \in 0..MaxMoves
Stores ==
    /\ rows \in [Serial -> [Hours -> Row]] /\ live \in [Serial -> Row]
    /\ imported \in [Serial -> SUBSET Hours]
Holders ==
    /\ \A k \in Task : radio = k <=> task[k].phase \in {"reading", "closing"}
    /\ \A k \in Task : task[k].phase = "queued" => \E i \in 1 .. Len(queue) : queue[i] = k

SumsInv ==
    /\ ArchiveInv /\ Counts /\ Stores /\ Holders /\ ImportedPast
    /\ \A k \in Importing : task[k].phase \in Unwritten => ImportOK(k)
    /\ raced = {} => ImportedJoined

-----------------------------------------------------------------------------
(* The calendar.                                                           *)

LEMMA Midnights ==
    \E n \in Nat \ {0} :
       /\ DOMAIN DayStart = 0..n /\ \A d \in 0..n : DayStart[d] \in Nat
       /\ \A c, d \in 0..n : c < d => DayStart[c] < DayStart[d]
       /\ \A c, d \in 0..n : c <= d => DayStart[c] <= DayStart[d]
       /\ LastHour = DayStart[n]
<1>1. PICK n \in Nat \ {0} :
       /\ DOMAIN DayStart = 0..n /\ \A d \in 0..n : DayStart[d] \in Nat
       /\ \A c, d \in 0..n : c < d => DayStart[c] < DayStart[d]
  BY ArchiveAssumption
<1> DEFINE T == {DayStart[d] : d \in DOMAIN DayStart}
<1>2. n \in 0..n /\ \A d \in 0..n : d = n \/ d < n
  OBVIOUS
<1>3. DayStart[n] \in T /\ \A x \in T : x <= DayStart[n]
  BY <1>1, <1>2
<1>4. ASSUME NEW x \in T, \A y \in T : x >= y
      PROVE  x = DayStart[n]
  <2>1. x \in Nat /\ DayStart[n] \in Nat
    BY <1>1, <1>3
  <2>2. x >= DayStart[n] /\ x <= DayStart[n]
    BY <1>3, <1>4
  <2>3. QED
    BY <2>1, <2>2
<1>5. \A y \in T : DayStart[n] >= y
  BY <1>1, <1>3
<1> HIDE DEF T
<1>6. Max(T) = DayStart[n]
  BY <1>3, <1>4, <1>5 DEF Max
<1>7. QED
  <2>1. \A c, d \in 0..n : c <= d => c < d \/ c = d
    OBVIOUS
  <2>2. \A c, d \in 0..n : c <= d => DayStart[c] <= DayStart[d]
    BY <1>1, <2>1
  <2>3. QED
    BY <1>1, <1>6, <2>2 DEF LastHour, T

\* No later midnight than today's has passed.
LEMMA LastMidnight ==
    ASSUME NEW h \in Nat, DayStart[1] <= h, NEW d \in DOMAIN DayStart, DayStart[d] <= h
    PROVE  DayStart[d] <= DayStart[Today(h)] /\ d <= Today(h)
<1>1. PICK n \in Nat \ {0} :
       /\ DOMAIN DayStart = 0..n /\ \A c \in 0..n : DayStart[c] \in Nat
       /\ \A c, e \in 0..n : c < e => DayStart[c] < DayStart[e]
  BY Midnights
<1> DEFINE T == {c \in DOMAIN DayStart : DayStart[c] <= h}
<1>2. T \in SUBSET Nat /\ d \in T /\ \A c \in T : c <= n
  BY <1>1
<1>3. Max(T) \in T /\ d <= Max(T)
  BY <1>1, <1>2, GreatestNatural
<1>4. Today(h) \in 0..n /\ d <= Today(h) /\ d \in 0..n
  BY <1>1, <1>3 DEF Today
<1>5. DayStart[d] <= DayStart[Today(h)]
  BY <1>1, <1>4
<1>6. QED
  BY <1>4, <1>5

\* completed_day_periods (archive.py:12-22) cuts the time between two midnights
\* into days with no slot left out or read twice, however long the days are.
THEOREM CompletedDays ==
    ASSUME NEW today \in DOMAIN DayStart, NEW days \in 1 .. today,
           NEW P, P = completed_day_periods(today, days)
    PROVE  /\ days \in Nat \ {0} /\ today - days \in DOMAIN DayStart
           /\ P[1].start = DayStart[today - days] /\ P[Len(P)].end = DayStart[today]
           /\ DayStart[today - days] \in Nat /\ DayStart[today] \in Nat
           /\ DayStart[today - days] < DayStart[today] /\ DayStart[today] <= LastHour
           /\ LastHour \in Nat
           /\ expected_timestamps(P) = SlotsOf(DayStart[today - days], DayStart[today])
<1>1. PICK n \in Nat \ {0} :
       /\ DOMAIN DayStart = 0..n /\ \A d \in 0..n : DayStart[d] \in Nat
       /\ \A c, d \in 0..n : c < d => DayStart[c] < DayStart[d]
       /\ \A c, d \in 0..n : c <= d => DayStart[c] <= DayStart[d]
       /\ LastHour = DayStart[n]
  BY Midnights
<1>2. /\ today \in 0..n /\ days \in Nat \ {0} /\ days <= today
      /\ today - days \in 0..n /\ today - days < today /\ n \in 0..n
  BY <1>1
<1>3. P = [i \in 1..days |-> [start |-> DayStart[today - days + i - 1],
                              end |-> DayStart[today - days + i]]]
  BY DEF completed_day_periods, Period
<1>4. /\ Len(P) = days /\ DOMAIN P = 1..days
      /\ \A i \in 1..days : /\ P[i].start = DayStart[today - days + i - 1]
                            /\ P[i].end = DayStart[today - days + i]
  BY <1>2, <1>3
<1>5. /\ 1 \in 1..days /\ days \in 1..days
      /\ today - days + 1 - 1 = today - days /\ today - days + days = today
  BY <1>2
<1>6. P[1].start = DayStart[today - days] /\ P[Len(P)].end = DayStart[today]
  BY <1>4, <1>5
<1>7. /\ DayStart[today - days] \in Nat /\ DayStart[today] \in Nat
      /\ DayStart[today - days] < DayStart[today] /\ DayStart[today] <= LastHour
  BY <1>1, <1>2
<1> DEFINE a == DayStart[today - days]
           b == DayStart[today]
<1>8. ASSUME NEW i \in 1..days, NEW t \in SlotsOf(P[i].start, P[i].end)
      PROVE  t \in SlotsOf(a, b)
  <2>1. /\ today - days + i - 1 \in 0..n /\ today - days + i \in 0..n
        /\ today - days <= today - days + i - 1 /\ today - days + i <= today
    BY <1>2
  <2>2. /\ P[i].start \in Nat /\ P[i].end \in Nat /\ a <= P[i].start /\ P[i].end <= b
    <3>1. DayStart[today - days] <= DayStart[today - days + i - 1]
      BY <1>1, <1>2, <2>1
    <3>2. DayStart[today - days + i] <= DayStart[today]
      BY <1>1, <1>2, <2>1
    <3>3. QED
      BY <1>1, <1>4, <2>1, <3>1, <3>2
  <2>3. t \in Nat /\ Hour(t) \in P[i].start .. P[i].end - 1
    BY <2>2, WholeHours
  <2>4. Hour(t) \in a .. b - 1
    BY <1>7, <2>2, <2>3
  <2>5. QED
    BY <1>7, <2>3, <2>4, SlotOfHour
<1>9. ASSUME NEW t \in SlotsOf(a, b)
      PROVE  \E i \in 1..days : t \in SlotsOf(P[i].start, P[i].end)
  <2>1. t \in Nat /\ Hour(t) \in a .. b - 1
    BY <1>7, WholeHours
  <2> DEFINE h == Hour(t)
             T == {d \in 0..n : h < DayStart[d]}
  <2>2. h \in Nat /\ a <= h /\ h < b /\ t >= h * SlotsPerHour
        /\ t <= h * SlotsPerHour + SlotsPerHour - 1
    BY <1>7, <2>1, Slots
  <2> HIDE DEF h
  <2>3. today \in T /\ T \in SUBSET Nat
    BY <1>2, <2>2
  <2>4. PICK d \in T : \A c \in T : d <= c
    BY <2>3, LeastNatural
  <2>5. d \in 0..n /\ h < DayStart[d] /\ d <= today
    BY <2>3, <2>4
  <2>6. today - days < d
    <3>1. SUFFICES ASSUME d <= today - days PROVE FALSE
      BY <1>2, <2>5
    <3>2. DayStart[d] <= a
      BY <1>1, <1>2, <2>5, <3>1
    <3>3. DayStart[d] \in Nat
      BY <1>1, <2>5
    <3>4. QED
      BY <1>7, <2>2, <2>5, <3>2, <3>3
  <2>7. d - 1 \in 0..n /\ d - 1 \notin T
    BY <1>2, <2>4, <2>5, <2>6
  <2>8. DayStart[d - 1] \in Nat /\ DayStart[d - 1] <= h /\ DayStart[d] \in Nat
    BY <1>1, <2>2, <2>5, <2>7
  <2>9. PICK i \in 1..days : i = d - (today - days)
    BY <1>2, <2>5, <2>6
  <2>10. today - days + i = d /\ today - days + i - 1 = d - 1
    BY <1>2, <2>5, <2>9
  <2>11. P[i].start = DayStart[d - 1] /\ P[i].end = DayStart[d]
    BY <1>4, <2>10
  <2> DEFINE x == DayStart[d - 1]
             y == DayStart[d]
  <2>12. x \in Nat /\ y \in Nat /\ x <= h /\ h + 1 <= y
    BY <2>2, <2>5, <2>8
  <2> HIDE DEF x, y
  <2>13. Hour(t) \in x .. y - 1
    BY <2>2, <2>12 DEF h
  <2>14. t \in SlotsOf(x, y)
    BY <2>1, <2>12, <2>13, SlotOfHour
  <2>15. QED
    BY <2>9, <2>11, <2>14 DEF x, y
<1>10. expected_timestamps(P) = SlotsOf(a, b)
  BY <1>4, <1>8, <1>9 DEF expected_timestamps
<1>11. QED
  BY <1>1, <1>2, <1>6, <1>7, <1>10

LEMMA SpanFacts ==
    ASSUME NEW k \in Task, PastDays(k), hour \in Nat
    PROVE  /\ Start(k) \in Nat /\ End(k) \in Nat /\ Start(k) < End(k)
           /\ End(k) <= hour /\ End(k) <= LastHour /\ Span(k) \subseteq Hours
           /\ \E d \in DOMAIN DayStart : End(k) = DayStart[d]
           /\ expected_timestamps(task[k].periods) = SlotsOf(Start(k), End(k))
<1>0. PICK today \in DOMAIN DayStart : \E days \in 1 .. today :
        DayStart[today] <= hour /\ task[k].periods = completed_day_periods(today, days)
  BY DEF PastDays
<1>1. PICK days \in 1 .. today :
        DayStart[today] <= hour /\ task[k].periods = completed_day_periods(today, days)
  BY <1>0
<1> DEFINE P == task[k].periods
           a == DayStart[today - days]
           b == DayStart[today]
<1>2. /\ P[1].start = a /\ P[Len(P)].end = b /\ a \in Nat /\ b \in Nat /\ a < b
      /\ b <= LastHour /\ LastHour \in Nat /\ expected_timestamps(P) = SlotsOf(a, b)
  BY <1>1, CompletedDays
<1>3. Start(k) = a /\ End(k) = b
  BY <1>2 DEF Start, End
<1> HIDE DEF P
<1>4. a .. b - 1 \subseteq Hours
  BY <1>2 DEF Hours
<1>5. QED
  BY <1>1, <1>2, <1>3, <1>4 DEF Span, P

\* The archive of whole days gives a state for each of their hours.
LEMMA SpanHourly ==
    ASSUME NEW k \in Task, PastDays(k), hour \in Nat, Ranges(task[k].periods), NEW s \in Serial
    PROVE  hourly_last_values(s, expected_timestamps(task[k].periods)) \in [Span(k) -> Nat]
<1> DEFINE E == expected_timestamps(task[k].periods)
           H == hourly_last_values(s, E)
           one == [i \in {1} |-> [start |-> Start(k), end |-> End(k)]]
<1>1. /\ Start(k) \in Nat /\ End(k) \in Nat /\ Span(k) \subseteq Hours
      /\ E = SlotsOf(Start(k), End(k))
  BY SpanFacts
<1>2. /\ DOMAIN one = {1} /\ one[1].start = Start(k) /\ one[1].end = End(k)
      /\ Ranges(one) /\ expected_timestamps(one) = SlotsOf(Start(k), End(k))
  BY <1>1 DEF Ranges, expected_timestamps
<1> HIDE DEF one
<1>3. DOMAIN H = Span(k)
  BY <1>1, <1>2, HoursOfRange DEF Span
<1>4. ASSUME NEW h \in Span(k)
      PROVE  H[h] \in Nat
  <2>1. H[h] = MeterValue[s][Last(h)]
    BY <1>3, <1>4, HourlyStates DEF Meter
  <2>2. LastHour \in Nat
    BY Midnights
  <2>3. h \in 0 .. LastHour - 1
    BY <1>1, <1>4 DEF Hours
  <2>4. Last(h) \in SlotsOf(0, LastHour)
    BY <2>2, <2>3, WholeHours
  <2>5. MeterValue[s] \in [SlotsOf(0, LastHour) -> Nat]
    BY ArchiveAssumption
  <2>6. QED
    BY <2>1, <2>4, <2>5
<1>5. H = [h \in DOMAIN H |-> H[h]]
  BY DEF hourly_last_values
<1> HIDE DEF H
<1>6. H \in [Span(k) -> Nat]
  BY <1>3, <1>4, <1>5
<1>7. QED
  BY <1>6 DEF H

-----------------------------------------------------------------------------
(* Reading the Recorder.                                                   *)

LEMMA RowsInFinite ==
    ASSUME NEW s, NEW from, NEW to, RowsIn(s, from, to) # {}
    PROVE  /\ Max(RowsIn(s, from, to)) \in RowsIn(s, from, to)
           /\ \A h \in RowsIn(s, from, to) : h <= Max(RowsIn(s, from, to))
           /\ Min(RowsIn(s, from, to)) \in RowsIn(s, from, to)
<1> DEFINE T == RowsIn(s, from, to)
<1>1. LastHour \in Nat
  BY Midnights
<1>2. T \in SUBSET Nat /\ \A h \in T : h <= LastHour
  BY <1>1 DEF RowsIn, Hours
<1> HIDE DEF T
<1>3. Max(T) \in T /\ \A h \in T : h <= Max(T)
  BY <1>1, <1>2, GreatestNatural DEF T
<1>4. \E x \in T : \A y \in T : x <= y
  BY <1>2, LeastNatural DEF T
<1>5. Min(T) \in T
  BY <1>4 DEF Min
<1>6. QED
  BY <1>3, <1>5 DEF T

LEMMA LastRowFacts ==
    ASSUME Stores, NEW s \in Serial, NEW from \in Int, NEW to \in Int
    PROVE  /\ LastRow(s, from, to) \in Row
           /\ RowsIn(s, from, to) = {} => LastRow(s, from, to) = Nothing
           /\ RowsIn(s, from, to) # {} =>
                 /\ LastRow(s, from, to) = rows[s][Max(RowsIn(s, from, to))]
                 /\ LastRow(s, from, to) # Nothing
<1> DEFINE T == RowsIn(s, from, to)
<1>1. LastRow(s, from, to) = IF T = {} THEN Nothing ELSE rows[s][Max(T)]
  BY DEF LastRow
<1>2. \A h \in T : rows[s][h] \in Row /\ rows[s][h] # Nothing
  BY DEF RowsIn, Stores
<1>3. T # {} => Max(T) \in T
  BY RowsInFinite
<1>4. Nothing \in Row
  BY DEF Row
<1> HIDE DEF T
<1>5. QED
  BY <1>1, <1>2, <1>3, <1>4 DEF T

LEMMA FirstRowFacts ==
    ASSUME Stores, NEW s \in Serial, NEW from \in Int, NEW to \in Int
    PROVE  /\ FirstRow(s, from, to) \in Row
           /\ RowsIn(s, from, to) # {} =>
                 rows[s][Min(RowsIn(s, from, to))] # Nothing
<1> DEFINE T == RowsIn(s, from, to)
<1>1. FirstRow(s, from, to) = IF T = {} THEN Nothing ELSE rows[s][Min(T)]
  BY DEF FirstRow
<1>2. \A h \in T : rows[s][h] \in Row /\ rows[s][h] # Nothing
  BY DEF RowsIn, Stores
<1>3. T # {} => Min(T) \in T
  BY RowsInFinite
<1>4. Nothing \in Row
  BY DEF Row
<1> HIDE DEF T
<1>5. QED
  BY <1>1, <1>2, <1>3, <1>4 DEF T

\* What was written from an hour on does not change the rows before it.
LEMMA RowsInSame ==
    ASSUME NEW s, NEW from \in Int, NEW to \in Int,
           \A h \in Hours : h < to => rows'[s][h] = rows[s][h]
    PROVE  /\ RowsIn(s, from, to)' = RowsIn(s, from, to)
           /\ LastRow(s, from, to)' = LastRow(s, from, to)
<1> DEFINE T == RowsIn(s, from, to)
<1>1. RowsIn(s, from, to)' = T
  BY DEF RowsIn
<1>2. LastRow(s, from, to) = IF T = {} THEN Nothing ELSE rows[s][Max(T)]
  BY DEF LastRow
<1>3. LastRow(s, from, to)' = IF T = {} THEN Nothing ELSE rows'[s][Max(T)]
  BY <1>1 DEF LastRow
<1>4. T # {} => Max(T) \in T
  BY RowsInFinite
<1>5. \A h \in T : h \in Hours /\ h < to
  BY DEF RowsIn
<1> HIDE DEF T
<1>6. QED
  BY <1>1, <1>2, <1>3, <1>4, <1>5 DEF T

-----------------------------------------------------------------------------
(* Steps that write nothing.                                               *)

\* An import has read something of the Recorder.
HasRead(k) ==
    task[k].phase = "queued" \/ (task[k].phase = "anchors" /\ task[k].read # {})

\* What is known of an import survives the steps of others, as long as they
\* only write later hours, or it has read nothing yet.
LEMMA ImportKept ==
    ASSUME SumsInv, NEW k \in Importing, task[k].phase \in Unwritten, task'[k] = task[k],
           hour' \in Nat, hour <= hour', InOrder(k)',
           HasRead(k) /\ "read" \notin raced' =>
              /\ "read" \notin raced
              /\ \A s \in Serial, h \in Hours : h < Start(k) => rows'[s][h] = rows[s][h]
    PROVE  ImportOK(k)'
<1>1. ImportOK(k) /\ hour \in Nat /\ k \in Task
  BY DEF SumsInv, ArchiveInv, Importing, Task
<1>2. Start(k)' = Start(k) /\ End(k)' = End(k) /\ Span(k)' = Span(k)
  BY DEF Start, End, Span
<1>3. PastDays(k)'
  <2>1. PICK today \in DOMAIN DayStart : \E days \in 1 .. today :
          DayStart[today] <= hour /\ task[k].periods = completed_day_periods(today, days)
    BY <1>1 DEF ImportOK, PastDays
  <2>2. DayStart[today] \in Nat
    BY ArchiveAssumption
  <2>3. DayStart[today] <= hour => DayStart[today] <= hour'
    BY <1>1, <2>2
  <2>4. QED
    BY <2>1, <2>3 DEF PastDays
<1>4. Start(k) \in Nat /\ Lookback \in Nat
  BY <1>1, SpanFacts, ArchiveAssumption DEF ImportOK
<1>5. ASSUME HasRead(k), "read" \notin raced', NEW s \in Serial
      PROVE  "read" \notin raced /\ Before(k, s)' = Before(k, s)
  <2>1. \A h \in Hours : h < Start(k) => rows'[s][h] = rows[s][h]
    BY <1>5
  <2>2. Start(k) - Lookback \in Int /\ Start(k) \in Int
    BY <1>4
  <2>3. LastRow(s, Start(k) - Lookback, Start(k))' = LastRow(s, Start(k) - Lookback, Start(k))
    <3> DEFINE a == Start(k) - Lookback
               b == Start(k)
    <3>1. PICK from \in Int, to \in Int : from = a /\ to = b
      BY <2>2
    <3>2. LastRow(s, from, to)' = LastRow(s, from, to)
      BY <2>1, <3>1, RowsInSame
    <3>3. a' = a /\ b' = b
      BY <1>2
    <3>4. QED
      BY <3>1, <3>2, <3>3 DEF LastRow, RowsIn
  <2>4. QED
    BY <1>5, <2>3 DEF Before
<1>6. task[k].phase = "anchors" => NotesOK(k)'
  <2>1. SUFFICES ASSUME task[k].phase = "anchors" PROVE NotesOK(k)'
    OBVIOUS
  <2>2. NotesOK(k) /\ task[k].serials \subseteq Serial
    BY <1>1, <2>1 DEF ImportOK, SumsInv, ArchiveInv, TaskOK, HourlyOK
  <2>3. "before" \in task[k].read => HasRead(k)
    BY <2>1 DEF HasRead
  <2>4. QED
    BY <1>2, <1>5, <2>2, <2>3 DEF NotesOK
<1>7. task[k].phase = "queued" => JobOK(k)'
  <2>1. SUFFICES ASSUME task[k].phase = "queued" PROVE JobOK(k)'
    OBVIOUS
  <2>2. JobOK(k) /\ task[k].serials \subseteq Serial
    BY <1>1, <2>1 DEF ImportOK, SumsInv, ArchiveInv, TaskOK, RowsOK
  <2>3. HasRead(k)
    BY <2>1 DEF HasRead
  <2>4. QED
    BY <1>2, <1>5, <2>2, <2>3 DEF JobOK
<1>8. QED
  BY <1>3, <1>6, <1>7 DEF ImportOK

\* A step of one task that writes nothing.
LEMMA StepKeeps ==
    ASSUME SumsInv, ArchiveInv', NEW k \in Task, \A j \in Task \ {k} : task'[j] = task[j],
           UNCHANGED <<hour, rows, live, imported, raced>>, Counts', Holders',
           k \in Importing /\ task'[k].phase \in Unwritten => ImportOK(k)'
    PROVE  SumsInv'
<1>1. Stores' /\ ImportedPast' /\ (raced' = {} => ImportedJoined')
  BY DEF SumsInv, Stores, ImportedPast, ImportedJoined, Adjacent, RowsIn, Joined
<1>2. ASSUME NEW j \in Importing, task'[j].phase \in Unwritten
      PROVE  ImportOK(j)'
  <2>1. CASE j = k
    BY <1>2, <2>1
  <2>2. CASE j # k
    <3>1. j \in Task /\ task'[j] = task[j] /\ task[j].phase \in Unwritten
      BY <1>2, <2>2 DEF Importing, Task
    <3>2. InOrder(j) /\ hour \in Nat
      BY <3>1 DEF SumsInv, ImportOK, ArchiveInv
    <3>3. InOrder(j)'
      BY <3>1, <3>2 DEF InOrder, End
    <3>4. QED
      BY <3>1, <3>2, <3>3, ImportKept
  <2>3. QED
    BY <2>1, <2>2
<1>3. QED
  BY <1>1, <1>2 DEF SumsInv

\* Who holds the adapter and who waits for the Recorder.
LEMMA HoldersKept ==
    ASSUME ArchiveInv, Holders, NEW k \in Task, \A j \in Task \ {k} : task'[j] = task[j],
           \/ /\ radio' = radio
              /\ task'[k].phase \in {"reading", "closing"}
                   <=> task[k].phase \in {"reading", "closing"}
           \/ radio = Free /\ radio' = k /\ task'[k].phase = "reading"
           \/ radio = k /\ radio' = Free /\ task'[k].phase \notin {"reading", "closing"},
           \/ queue' = queue /\ task'[k].phase # "queued"
           \/ queue' = Append(queue, k)
    PROVE  Holders'
<1>1. Free \notin Task
  BY DEF Free, Task
<1>2. ASSUME NEW j \in Task
      PROVE  radio' = j <=> task'[j].phase \in {"reading", "closing"}
  BY <1>1 DEF Holders
<1>3. queue \in Seq(Importing)
  BY DEF ArchiveInv, QueueOK
<1>4. ASSUME NEW j \in Task, task'[j].phase = "queued"
      PROVE  \E i \in 1 .. Len(queue') : queue'[i] = j
  <2>1. CASE j # k
    <3>1. PICK i \in 1 .. Len(queue) : queue[i] = j
      BY <1>4, <2>1 DEF Holders
    <3>2. queue' = queue \/ queue' = Append(queue, k)
      OBVIOUS
    <3>3. i \in 1 .. Len(queue') /\ queue'[i] = queue[i]
      BY <1>3, <3>1, <3>2
    <3>4. QED
      BY <3>1, <3>3
  <2>2. CASE j = k
    <3>1. queue' = Append(queue, k)
      BY <1>4, <2>2
    <3>2. Len(queue) + 1 \in 1 .. Len(queue') /\ queue'[Len(queue) + 1] = k
      BY <1>3, <3>1
    <3>3. QED
      BY <2>2, <3>2
  <2>3. QED
    BY <2>1, <2>2
<1>5. QED
  BY <1>2, <1>4 DEF Holders

\* A task that goes on with its own range.
LEMMA SameRange ==
    ASSUME NEW k \in Importing, ImportOK(k), task'[k].periods = task[k].periods,
           UNCHANGED <<hour, imported, raced>>
    PROVE  /\ PastDays(k)' /\ InOrder(k)'
           /\ Start(k)' = Start(k) /\ End(k)' = End(k) /\ Span(k)' = Span(k)
BY DEF ImportOK, PastDays, InOrder, Start, End, Span

\* An import begins with the days before the last midnight, and nothing later
\* was imported.
LEMMA BeginSums ==
    ASSUME SumsInv, ArchiveInv', NEW k \in Task, NEW periods, Begin(k, periods),
           k \in Importing =>
              \E days \in 1 .. Today(hour) : periods = completed_day_periods(Today(hour), days)
    PROVE  SumsInv'
<1>1. /\ task[k].phase = "idle" /\ calls < MaxCalls /\ calls' = calls + 1
      /\ task' = [task EXCEPT ![k] = [phase |-> "waiting", periods |-> periods]]
      /\ UNCHANGED <<hour, queue, radio, reconciled, moves, raced, rows, live, imported>>
  BY DEF Begin, Begun, Active, ownership, recorder
<1>2. /\ \A j \in Task \ {k} : task'[j] = task[j]
      /\ task'[k].phase = "waiting" /\ task'[k].periods = periods
  BY <1>1 DEF SumsInv, ArchiveInv
<1>3. Counts'
  BY <1>1, ArchiveAssumption DEF SumsInv, Counts
<1>4. Holders'
  BY <1>1, <1>2, HoldersKept DEF SumsInv
<1>5. ASSUME k \in Importing
      PROVE  ImportOK(k)'
  <2>1. PICK days \in 1 .. Today(hour) : periods = completed_day_periods(Today(hour), days)
    BY <1>5
  <2>2. /\ Today(hour) \in DOMAIN DayStart /\ DayStart[Today(hour)] <= hour
    BY TodayFacts DEF SumsInv, ArchiveInv
  <2>3. PastDays(k)'
    BY <1>1, <1>2, <2>1, <2>2 DEF PastDays
  <2>4. periods[Len(periods)].end = DayStart[Today(hour)]
    BY <2>1, <2>2, CompletedDays
  <2>5. InOrder(k)'
    BY <1>1, <1>2, <2>4 DEF SumsInv, ImportedPast, InOrder, End
  <2>6. QED
    BY <1>2, <2>3, <2>5 DEF ImportOK
<1>6. QED
  BY <1>1, <1>2, <1>3, <1>4, <1>5, StepKeeps

LEMMA ReadStartsSums ==
    ASSUME SumsInv, ArchiveInv', NEW k \in Task, ReadStarts(k)
    PROVE  SumsInv'
<1>1. /\ task[k].phase = "waiting" /\ TaskOK(k, task[k], rows) /\ radio = Free /\ radio' = k
      /\ task' = [task EXCEPT ![k] = [task[k] EXCEPT !.phase = "reading"]]
      /\ UNCHANGED <<hour, queue, reconciled, calls, moves, raced, rows, live, imported>>
  BY DEF ReadStarts, SumsInv, ArchiveInv, ownership, recorder
<1>2. task[k] = [phase |-> task[k].phase, periods |-> task[k].periods]
  BY <1>1 DEF TaskOK
<1>3. [[phase |-> task[k].phase, periods |-> task[k].periods] EXCEPT !.phase = "reading"]
        = [phase |-> "reading", periods |-> task[k].periods]
  OBVIOUS
<1>4. task' = [task EXCEPT ![k] = [phase |-> "reading", periods |-> task[k].periods]]
  BY <1>1, <1>2, <1>3, Zenon
<1>5. /\ \A j \in Task \ {k} : task'[j] = task[j]
      /\ task'[k].phase = "reading" /\ task'[k].periods = task[k].periods
  BY <1>4 DEF SumsInv, ArchiveInv
<1>6. Counts'
  BY <1>1 DEF SumsInv, Counts
<1>7. Holders'
  BY <1>1, <1>5, HoldersKept DEF SumsInv
<1>8. k \in Importing => ImportOK(k)'
  <2>1. SUFFICES ASSUME k \in Importing PROVE ImportOK(k)'
    OBVIOUS
  <2>2. ImportOK(k)
    BY <1>1, <2>1 DEF SumsInv, Unwritten
  <2>3. PastDays(k)' /\ InOrder(k)'
    BY <1>1, <1>5, <2>1, <2>2, SameRange
  <2>4. QED
    BY <1>5, <2>3 DEF ImportOK
<1>9. QED
  BY <1>1, <1>5, <1>6, <1>7, <1>8, StepKeeps

\* A task that ends, without or with an answer.
LEMMA EndSums ==
    ASSUME SumsInv, ArchiveInv', NEW k \in Task, NEW r, task' = [task EXCEPT ![k] = r],
           r.phase \notin Unwritten, task[k].phase # "queued",
           \/ /\ radio' = radio
              /\ r.phase = "closing" <=> task[k].phase \in {"reading", "closing"}
           \/ /\ radio' = Free /\ task[k].phase \in {"reading", "closing"}
              /\ r.phase # "closing",
           UNCHANGED <<hour, queue, calls, moves, raced, rows, live, imported>>,
           reconciled' \in {Never} \cup Days
    PROVE  SumsInv'
<1>1. \A j \in Task \ {k} : task'[j] = task[j]
  BY DEF SumsInv, ArchiveInv
<1>2. task'[k] = r
  BY DEF SumsInv, ArchiveInv
<1>3. Counts'
  BY DEF SumsInv, Counts
<1>4. task[k].phase \in {"reading", "closing"} => radio = k
  BY DEF SumsInv, Holders
<1>5. Holders'
  BY <1>1, <1>2, <1>4, HoldersKept DEF SumsInv, Unwritten
<1>6. QED
  BY <1>1, <1>2, <1>3, <1>5, StepKeeps

\* The archive that is to be imported has a state for every hour of the range.
LEMMA ReadEndsSums ==
    ASSUME SumsInv, ArchiveInv', NEW k \in Task, ReadEnds(k)
    PROVE  SumsInv'
<1> DEFINE P == task[k].periods
           E == expected_timestamps(P)
           first == IF owned = {} THEN "applied" ELSE "anchors"
           hourly == [s \in owned |-> hourly_last_values(s, E)]
           r == [phase |-> first, periods |-> P, serials |-> owned, hourly |-> hourly,
                 before |-> Nothing, after |-> Nothing, read |-> {}]
<1>1. /\ k \in Importing /\ task[k].phase = "reading" /\ TaskOK(k, task[k], rows)
      /\ owned \subseteq Serial /\ hour \in Nat /\ radio' = Free
      /\ UNCHANGED <<hour, queue, reconciled, calls, moves, raced, rows, live, imported>>
  BY DEF ReadEnds, SumsInv, ArchiveInv, ownership, recorder
<1>2. task' = [task EXCEPT ![k] = r]
  <2>1. PICK archive :
          /\ Complete(P, archive)
          /\ task' = [task EXCEPT ![k] =
               [phase   |-> first, periods |-> P, serials |-> owned,
                hourly  |-> [s \in owned |-> hourly_last_values(s, archive[s])],
                before  |-> Nothing, after |-> Nothing, read |-> {}]]
    BY Zenon DEF ReadEnds
  <2>2. \A s \in owned : archive[s] = E
    BY <2>1 DEF Complete
  <2> HIDE DEF E, P, first
  <2>3. [s \in owned |-> hourly_last_values(s, archive[s])] = hourly
    BY <2>2
  <2>4. QED
    BY <2>1, <2>3
<1>3. ImportOK(k) /\ PastDays(k)
  BY <1>1 DEF SumsInv, Unwritten, ImportOK
<1>4. \A s \in owned : hourly[s] \in [Span(k) -> Nat]
  <2>1. Ranges(P)
    BY <1>1 DEF TaskOK
  <2>2. QED
    BY <1>1, <1>3, <2>1, SpanHourly
<1> HIDE DEF hourly
<1>5. /\ \A j \in Task \ {k} : task'[j] = task[j]
      /\ task'[k] = r
  BY <1>2 DEF SumsInv, ArchiveInv
<1>6. /\ task'[k].periods = task[k].periods /\ task'[k].serials = owned
      /\ task'[k].hourly = hourly /\ task'[k].read = {}
      /\ task'[k].phase \in {"applied", "anchors"}
  BY <1>5
<1> HIDE DEF r
<1>7. /\ PastDays(k)' /\ InOrder(k)' /\ Span(k)' = Span(k)
  BY <1>1, <1>3, <1>6, SameRange
<1>8. ImportOK(k)'
  <2>1. NotesOK(k)'
    BY <1>4, <1>6, <1>7 DEF NotesOK
  <2>2. QED
    BY <1>6, <1>7, <2>1 DEF ImportOK
<1>9. Counts'
  BY <1>1 DEF SumsInv, Counts
<1>10. Holders'
  <2>1. radio = k
    BY <1>1 DEF SumsInv, Holders
  <2>2. QED
    BY <1>1, <1>5, <1>6, <2>1, HoldersKept DEF SumsInv
<1>11. QED
  BY <1>1, <1>5, <1>8, <1>9, <1>10, StepKeeps

\* A task that has noted a neighbouring row.
LEMMA NotesSums ==
    ASSUME SumsInv, ArchiveInv', NEW k \in Task, task[k].phase = "anchors",
           NEW read, NEW before, NEW after,
           task' = [task EXCEPT ![k] = Noting(task[k], read, before, after)],
           UNCHANGED <<hour, queue, radio, reconciled, calls, moves,
                       raced, rows, live, imported>>,
           \A s \in task[k].serials :
              /\ "before" \in read => before[s] \in Row
              /\ "after" \in read => after[s] \in Row
              /\ "before" \in read /\ "read" \notin raced => before[s] = Before(k, s)
    PROVE  SumsInv'
<1>1. TaskOK(k, task[k], rows) /\ k \in Importing
  BY DEF SumsInv, ArchiveInv, TaskOK, Task, Importing
<1>2. ImportOK(k) /\ NotesOK(k) /\ task[k].serials \subseteq Serial
  BY <1>1 DEF SumsInv, ImportOK, Unwritten, TaskOK, HourlyOK
<1>3. /\ \A j \in Task \ {k} : task'[j] = task[j]
      /\ task'[k] = Noting(task[k], read, before, after)
  BY DEF SumsInv, ArchiveInv
<1>4. /\ task'[k].phase = "anchors" /\ task'[k].periods = task[k].periods
      /\ task'[k].serials = task[k].serials /\ task'[k].hourly = task[k].hourly
      /\ task'[k].read = read /\ task'[k].before = before /\ task'[k].after = after
  BY <1>3 DEF Noting
<1>5. /\ PastDays(k)' /\ InOrder(k)' /\ Span(k)' = Span(k)
      /\ Start(k)' = Start(k)
  BY <1>1, <1>2, <1>4, SameRange
<1>6. ImportOK(k)'
  <2>1. \A s \in Serial : Before(k, s)' = Before(k, s)
    BY <1>5 DEF Before, LastRow, RowsIn
  <2>2. NotesOK(k)'
    BY <1>2, <1>4, <1>5, <2>1 DEF NotesOK
  <2>3. QED
    BY <1>4, <1>5, <2>2 DEF ImportOK
<1>7. Counts'
  BY DEF SumsInv, Counts
<1>8. Holders'
  BY <1>3, <1>4, HoldersKept DEF SumsInv
<1>9. QED
  BY <1>3, <1>6, <1>7, <1>8, StepKeeps

LEMMA NeighboursSums ==
    ASSUME SumsInv, ArchiveInv', NEW k \in Task, ReadBefore(k) \/ ReadAfter(k)
    PROVE  SumsInv'
<1> DEFINE q == task[k]
<1>1. /\ q.phase = "anchors" /\ TaskOK(k, q, rows) /\ hour \in Nat /\ Stores
      /\ UNCHANGED <<hour, queue, radio, reconciled, calls, moves, raced, rows, live, imported>>
  BY DEF ReadBefore, ReadAfter, SumsInv, ArchiveInv, ownership, recorder
<1>2. HourlyOK(q) /\ k \in Importing
  BY <1>1 DEF TaskOK, Task, Importing
<1>3. q = Noting(q, q.read, q.before, q.after)
  BY <1>2 DEF HourlyOK, Noting
<1>4. ImportOK(k) /\ NotesOK(k) /\ PastDays(k) /\ q.serials \subseteq Serial
  BY <1>1, <1>2 DEF SumsInv, ImportOK, Unwritten, HourlyOK
<1>5. Start(k) \in Nat /\ End(k) \in Nat /\ Lookback \in Nat
  BY <1>1, <1>4, SpanFacts, ArchiveAssumption
<1>6. Start(k) \in Int /\ End(k) \in Int /\ Start(k) - Lookback \in Int /\ End(k) + Lookback \in Int
  BY <1>5
<1>7. CASE ReadBefore(k)
  <2> DEFINE before == [s \in q.serials |-> LastRow(s, Start(k) - Lookback, Start(k))]
             read == q.read \cup {"before"}
  <2>1. task' = [task EXCEPT ![k] = WithBefore(q, read, before)]
    BY <1>7, Zenon DEF ReadBefore, WithBefore
  <2>2. \A s \in q.serials : before[s] = Before(k, s) /\ before[s] \in Row
    BY <1>1, <1>4, <1>6, LastRowFacts DEF Before
  <2> HIDE DEF before
  <2>3. task' = [task EXCEPT ![k] = Noting(q, read, before, q.after)]
    <3>1. WithBefore(q, read, before) = Noting(q, read, before, q.after)
      BY <1>3, Noted
    <3>2. QED
      BY <2>1, <3>1, Zenon
  <2>4. \A s \in q.serials :
          /\ "before" \in read => before[s] \in Row
          /\ "after" \in read => q.after[s] \in Row
          /\ "before" \in read /\ "read" \notin raced => before[s] = Before(k, s)
    BY <1>4, <2>2 DEF NotesOK
  <2> HIDE DEF read
  <2>5. QED
    BY <1>1, <2>3, <2>4, NotesSums, Zenon
<1>8. CASE ReadAfter(k)
  <2> DEFINE after == [s \in q.serials |-> FirstRow(s, End(k), End(k) + Lookback)]
             read == q.read \cup {"after"}
  <2>1. task' = [task EXCEPT ![k] = WithAfter(q, read, after)]
    BY <1>8, Zenon DEF ReadAfter, WithAfter
  <2>2. \A s \in q.serials : after[s] \in Row
    BY <1>1, <1>4, <1>6, FirstRowFacts
  <2> HIDE DEF after
  <2>3. task' = [task EXCEPT ![k] = Noting(q, read, q.before, after)]
    <3>1. WithAfter(q, read, after) = Noting(q, read, q.before, after)
      BY <1>3, Noted
    <3>2. QED
      BY <2>1, <3>1, Zenon
  <2>4. \A s \in q.serials :
          /\ "before" \in read => q.before[s] \in Row
          /\ "after" \in read => after[s] \in Row
          /\ "before" \in read /\ "read" \notin raced => q.before[s] = Before(k, s)
    BY <1>4, <2>2 DEF NotesOK
  <2> HIDE DEF read
  <2>5. QED
    BY <1>1, <2>3, <2>4, NotesSums, Zenon
<1>9. QED
  BY <1>7, <1>8

\* The rows that are handed over continue each other and the row before them.
LEMMA HandOverSums ==
    ASSUME SumsInv, ArchiveInv', NEW k \in Task, HandOver(k)
    PROVE  SumsInv'
<1> DEFINE q == task[k]
           sums(s) == cumulative_statistic_sums(q.hourly[s], q.before[s], q.after[s])
           made == [s \in q.serials |->
              [h \in DOMAIN q.hourly[s] |-> [state |-> q.hourly[s][h], sum |-> sums(s)[h]]]]
           r == [phase |-> "queued", periods |-> q.periods, serials |-> q.serials,
                 after |-> q.after, rows |-> made]
<1>1. /\ q.phase = "anchors" /\ q.read = {"before", "after"} /\ TaskOK(k, q, rows)
      /\ queue' = Append(queue, k) /\ hour \in Nat
      /\ UNCHANGED <<hour, radio, reconciled, calls, moves, raced, rows, live, imported>>
  BY DEF HandOver, SumsInv, ArchiveInv, ownership, recorder
<1>2. HourlyOK(q) /\ k \in Importing
  BY <1>1 DEF TaskOK, Task, Importing
<1>3. task' = [task EXCEPT ![k] = r]
  BY DEF HandOver
<1>4. ImportOK(k) /\ NotesOK(k) /\ PastDays(k) /\ q.serials \subseteq Serial
  BY <1>1, <1>2 DEF SumsInv, ImportOK, Unwritten, HourlyOK
<1>5. Start(k) \in Nat /\ End(k) \in Nat /\ Start(k) < End(k)
  BY <1>1, <1>4, SpanFacts
<1>6. ASSUME NEW s \in q.serials
      PROVE  /\ RowsContinue(made[s], Start(k), End(k) - 1) /\ q.after[s] \in Row
             /\ "read" \notin raced =>
                   Fits(made[s], Start(k), End(k) - 1, Before(k, s), q.after[s])
  <2> DEFINE m == Start(k)
             n == End(k) - 1
             states == q.hourly[s]
             before == q.before[s]
             after == q.after[s]
             new == made[s]
  <2>1. m \in Nat /\ n \in Nat /\ m <= n
    BY <1>5
  <2>2. /\ states \in [m..n -> Nat] /\ before \in Row /\ after \in Row
        /\ "read" \notin raced => before = Before(k, s)
    BY <1>1, <1>4 DEF NotesOK, Span
  <2>3. new = [h \in DOMAIN states |->
          [state |-> states[h], sum |-> cumulative_statistic_sums(states, before, after)[h]]]
    OBVIOUS
  <2> HIDE DEF m, n, states, before, after, new
  <2>4. RowsContinue(new, m, n) /\ Fits(new, m, n, before, after)
    BY <2>1, <2>2, <2>3, RowsFit
  <2>5. QED
    BY <2>2, <2>4 DEF m, n, after, new
<1> HIDE DEF made
<1>7. /\ \A j \in Task \ {k} : task'[j] = task[j]
      /\ task'[k] = r
  BY <1>3 DEF SumsInv, ArchiveInv
<1>8. /\ task'[k].phase = "queued" /\ task'[k].periods = q.periods
      /\ task'[k].serials = q.serials /\ task'[k].after = q.after /\ task'[k].rows = made
  BY <1>7
<1> HIDE DEF r
<1>9. /\ PastDays(k)' /\ InOrder(k)' /\ Start(k)' = Start(k) /\ End(k)' = End(k)
  BY <1>1, <1>2, <1>4, <1>8, SameRange
<1>10. ImportOK(k)'
  <2>1. \A s \in Serial : Before(k, s)' = Before(k, s)
    BY <1>1, <1>9 DEF Before, LastRow, RowsIn
  <2>2. JobOK(k)'
    BY <1>1, <1>4, <1>6, <1>8, <1>9, <2>1 DEF JobOK
  <2>3. QED
    BY <1>8, <1>9, <2>2 DEF ImportOK
<1>11. Counts'
  BY <1>1 DEF SumsInv, Counts
<1>12. Holders'
  BY <1>1, <1>7, <1>8, HoldersKept DEF SumsInv
<1>13. QED
  BY <1>1, <1>7, <1>10, <1>11, <1>12, StepKeeps

-----------------------------------------------------------------------------
(* The Recorder's own steps.                                               *)

\* The Recorder's rows of an hour that ends.
LEMMA HourWrites ==
    ASSUME SumsInv, HourPasses
    PROVE  /\ hour \in Hours /\ hour' = hour + 1 /\ hour' <= LastHour
           /\ UNCHANGED <<task, queue, radio, reconciled, calls, moves, raced>>
           /\ Stores'
           /\ \A s \in Serial : /\ imported'[s] \subseteq imported[s]
                                /\ \A h \in Hours : h # hour => rows'[s][h] = rows[s][h]
<1>1. /\ hour \in Nat /\ hour < LastHour /\ hour' = hour + 1 /\ LastHour \in Nat /\ Stores
      /\ UNCHANGED <<task, queue, radio, reconciled, calls, moves, raced>>
  BY Midnights DEF HourPasses, SumsInv, ArchiveInv, ownership
<1>2. hour \in Hours /\ hour' <= LastHour
  BY <1>1 DEF Hours
<1> DEFINE state(s) == MeterValue[s][(hour + 1) * SlotsPerHour - 1]
           sum(s)   == IF live[s] = Nothing THEN 0
                       ELSE live[s].sum + increase(live[s].state, state(s))
           row == [s \in Serial |-> [state |-> state(s), sum |-> sum(s)]]
<1>3. PICK available :
        /\ rows' = [s \in Serial |->
             IF s \in available THEN [rows[s] EXCEPT ![hour] = [state |-> state(s), sum |-> sum(s)]]
             ELSE rows[s]]
        /\ live' = [s \in Serial |->
             IF s \in available THEN [state |-> state(s), sum |-> sum(s)] ELSE live[s]]
        /\ imported' = [s \in Serial |->
             IF s \in available THEN imported[s] \ {hour} ELSE imported[s]]
  BY DEF HourPasses
<1>4. ASSUME NEW s \in Serial
      PROVE  row[s] \in Written
  <2>1. Last(hour) \in SlotsOf(0, LastHour)
    BY <1>1, <1>2, WholeHours DEF Hours
  <2>2. MeterValue[s] \in [SlotsOf(0, LastHour) -> Nat]
    BY ArchiveAssumption
  <2>3. state(s) \in Nat
    BY <2>1, <2>2 DEF Last
  <2> HIDE DEF state
  <2>4. live[s] \in Row
    BY <1>1 DEF Stores
  <2>5. live[s] # Nothing => live[s].sum \in Int /\ increase(live[s].state, state(s)) \in Nat
    BY <2>3, <2>4, RowIsWritten, IncreaseIsNatural DEF Written
  <2>6. sum(s) \in Int
    BY <2>5
  <2> HIDE DEF sum
  <2>7. QED
    BY <2>3, <2>6 DEF Written
<1>5. /\ rows' = [s \in Serial |->
           IF s \in available THEN [rows[s] EXCEPT ![hour] = row[s]] ELSE rows[s]]
      /\ live' = [s \in Serial |-> IF s \in available THEN row[s] ELSE live[s]]
  <2>1. \A s \in Serial : row[s] = [state |-> state(s), sum |-> sum(s)]
    OBVIOUS
  <2> HIDE DEF row, state, sum
  <2>2. QED
    BY <1>3, <2>1
<1> HIDE DEF row
<1>6. \A s \in Serial : row[s] \in Row
  BY <1>4 DEF Row, Written
<1>7. rows' \in [Serial -> [Hours -> Row]] /\ live' \in [Serial -> Row]
  BY <1>1, <1>2, <1>5, <1>6 DEF Stores
<1>8. ASSUME NEW s \in Serial
      PROVE  /\ imported'[s] \subseteq imported[s] /\ imported'[s] \in SUBSET Hours
             /\ \A h \in Hours : h # hour => rows'[s][h] = rows[s][h]
  <2>1. imported'[s] \subseteq imported[s] /\ imported[s] \in SUBSET Hours
    BY <1>1, <1>3 DEF Stores
  <2>2. rows[s] \in [Hours -> Row]
    BY <1>1 DEF Stores
  <2>3. rows'[s] = rows[s] \/ rows'[s] = [rows[s] EXCEPT ![hour] = row[s]]
    BY <1>5
  <2>4. QED
    BY <2>1, <2>2, <2>3
<1>9. Stores'
  BY <1>3, <1>7, <1>8 DEF Stores
<1>10. QED
  BY <1>1, <1>2, <1>8, <1>9

LEMMA HourPassesSums ==
    ASSUME SumsInv, ArchiveInv', HourPasses
    PROVE  SumsInv'
<1>1. /\ hour \in Hours /\ hour' = hour + 1 /\ hour' <= LastHour
      /\ UNCHANGED <<task, queue, radio, reconciled, calls, moves, raced>>
      /\ Stores /\ Stores' /\ hour \in Nat /\ hour' \in Nat /\ DayStart[1] <= hour
  BY HourWrites DEF SumsInv, ArchiveInv
<1>2. \A s \in Serial : /\ imported'[s] \subseteq imported[s]
                        /\ \A h \in Hours : h # hour => rows'[s][h] = rows[s][h]
  BY HourWrites
<1>3. Counts' /\ Holders'
  BY <1>1 DEF SumsInv, Counts, Holders
<1> DEFINE d == Today(hour)
           e == Today(hour')
<1>4. d \in DOMAIN DayStart /\ DayStart[d] <= hour /\ DayStart[d] \in Nat
  BY <1>1, TodayFacts, ArchiveAssumption
<1>5. DayStart[d] <= DayStart[e] /\ DayStart[e] \in Nat
  <2>1. DayStart[1] \in Nat
    BY ArchiveAssumption
  <2>2. DayStart[1] <= hour' /\ DayStart[d] <= hour'
    BY <1>1, <1>4, <2>1
  <2>3. e \in DOMAIN DayStart
    BY <1>1, <2>2, TodayFacts
  <2>4. QED
    BY <1>1, <1>4, <2>2, <2>3, LastMidnight, ArchiveAssumption
<1>6. \A s \in Serial : \A h \in imported[s] : h \in Nat /\ h < DayStart[d]
  BY <1>1 DEF SumsInv, ImportedPast, Stores, Hours
<1>7. ImportedPast'
  <2> HIDE DEF d, e
  <2>1. \A s \in Serial : \A h \in imported'[s] : h < DayStart[e]
    BY <1>2, <1>4, <1>5, <1>6
  <2>2. QED
    BY <2>1 DEF ImportedPast, e
<1>8. ASSUME NEW k \in Importing, task'[k].phase \in Unwritten
      PROVE  ImportOK(k)'
  <2>1. task'[k] = task[k] /\ task[k].phase \in Unwritten /\ k \in Task
    BY <1>1, <1>8 DEF Importing, Task
  <2>2. ImportOK(k) /\ Start(k) \in Nat /\ Start(k) <= hour
    <3>1. ImportOK(k) /\ PastDays(k)
      BY <2>1 DEF SumsInv, ImportOK
    <3>2. QED
      BY <1>1, <2>1, <3>1, SpanFacts
  <2>3. \A s \in Serial, h \in Hours : h < Start(k) => rows'[s][h] = rows[s][h]
    BY <1>1, <1>2, <2>2
  <2>4. InOrder(k)'
    BY <1>1, <1>2, <2>1, <2>2 DEF ImportOK, InOrder, End
  <2>5. hour <= hour' /\ raced' = raced
    BY <1>1
  <2>6. QED
    BY <1>1, <2>1, <2>3, <2>4, <2>5, ImportKept
<1>9. ASSUME raced' = {}
      PROVE  ImportedJoined'
  <2>1. ImportedJoined
    BY <1>1, <1>9 DEF SumsInv
  <2>2. SUFFICES ASSUME NEW s \in Serial, NEW g \in imported'[s], NEW h \in imported'[s],
                        Adjacent(s, g, h)', h - g <= Lookback
                 PROVE  Joined(s, g, h)'
    BY DEF ImportedJoined
  <2>3. /\ g \in imported[s] /\ h \in imported[s] /\ g \in Hours /\ h \in Hours
        /\ g \in Int /\ h \in Int /\ g < hour /\ h < hour
    BY <1>1, <1>2, <1>4, <1>6 DEF Stores, Hours
  <2>4. rows'[s][g] = rows[s][g] /\ rows'[s][h] = rows[s][h]
    BY <1>1, <1>2, <2>3
  <2>5. RowsIn(s, g + 1, h)' = RowsIn(s, g + 1, h)
    <3>1. \A x \in Hours : x < h => rows'[s][x] = rows[s][x]
      BY <1>1, <1>2, <2>3 DEF Hours
    <3>2. QED
      BY <2>3, <3>1, RowsInSame
  <2>6. Adjacent(s, g, h)
    BY <2>2, <2>4, <2>5 DEF Adjacent
  <2>7. Joined(s, g, h)
    BY <2>1, <2>2, <2>3, <2>6 DEF ImportedJoined
  <2>8. QED
    BY <2>4, <2>7 DEF Joined
<1>10. QED
  BY <1>1, <1>3, <1>7, <1>8, <1>9 DEF SumsInv

\* What the Recorder's thread knows of the job it writes.
JobFacts(k) ==
    /\ k \in Importing /\ k \in Task /\ task[k].phase = "queued" /\ ImportOK(k) /\ JobOK(k)
    /\ task[k].serials \subseteq Serial
    /\ Start(k) \in Nat /\ End(k) \in Nat /\ Start(k) < End(k)
    /\ End(k) <= hour /\ Span(k) \subseteq Hours
    /\ \E d \in DOMAIN DayStart : End(k) = DayStart[d]

LEMMA QueuedJob == ASSUME SumsInv, NEW k \in Importing, task[k].phase = "queued" PROVE JobFacts(k)
<1>1. k \in Task /\ TaskOK(k, task[k], rows) /\ hour \in Nat /\ ImportOK(k)
  BY DEF SumsInv, ArchiveInv, Importing, Task, Unwritten
<1>2. JobOK(k) /\ PastDays(k) /\ task[k].serials \subseteq Serial
  BY <1>1 DEF ImportOK, TaskOK, RowsOK
<1>3. QED
  BY <1>1, <1>2, SpanFacts DEF JobFacts

\* The rows of the job and no others are written.
LEMMA JobWrites ==
    ASSUME SumsInv, Apply, NEW k, k = Head(queue)
    PROVE  /\ JobFacts(k) /\ queue' = Tail(queue) /\ queue \in Seq(Importing) /\ queue # <<>>
           /\ task'[k].phase = "applied" /\ \A j \in Task \ {k} : task'[j] = task[j]
           /\ task'[k].periods = task[k].periods
           /\ UNCHANGED <<hour, live, radio, reconciled, calls, moves>>
           /\ raced' = raced \cup Overtaken(k)
           /\ Stores'
           /\ \A s \in Serial : s \notin task[k].serials =>
                 imported'[s] = imported[s] /\ rows'[s] = rows[s]
           /\ \A s \in task[k].serials :
                 /\ imported'[s] = imported[s] \cup Span(k)
                 /\ \A h \in Span(k) : rows'[s][h] = task[k].rows[s][h]
                 /\ \A h \in Hours \ Span(k) : rows'[s][h] = rows[s][h]
<1> DEFINE q == task[k]
           new == q.rows
<1>1. queue \in Seq(Importing) /\ queue # <<>> /\ task[k].phase = "queued" /\ k \in Importing
  <2>1. QueueOK /\ queue # <<>>
    BY DEF SumsInv, ArchiveInv, Apply
  <2>2. queue \in Seq(Importing) /\ 1 \in 1 .. Len(queue) /\ k = queue[1]
    BY <2>1 DEF QueueOK
  <2>3. QED
    BY <2>1, <2>2 DEF QueueOK
<1>2. JobFacts(k)
  BY <1>1, QueuedJob
<1>3. /\ rows' = [s \in Serial |->
            IF s \in q.serials
            THEN [h \in Hours |-> IF h \in DOMAIN new[s] THEN new[s][h] ELSE rows[s][h]]
            ELSE rows[s]]
      /\ imported' = [s \in Serial |->
            IF s \in q.serials THEN imported[s] \cup DOMAIN new[s] ELSE imported[s]]
      /\ raced' = raced \cup Overtaken(k) /\ queue' = Tail(queue)
      /\ task' = [task EXCEPT ![k] =
            [phase |-> "applied", periods |-> q.periods, serials |-> q.serials]]
      /\ UNCHANGED <<hour, live, radio, reconciled, calls, moves>>
  BY DEF Apply, ownership
<1>4. /\ \A j \in Task \ {k} : task'[j] = task[j]
      /\ task'[k].phase = "applied" /\ task'[k].periods = task[k].periods
  BY <1>2, <1>3 DEF SumsInv, ArchiveInv, JobFacts
<1>5. /\ q.serials \subseteq Serial /\ Span(k) \subseteq Hours
      /\ \A s \in q.serials : new[s] \in [Span(k) -> Written]
  BY <1>2 DEF JobFacts, JobOK, RowsContinue, Span
<1>6. Stores
  BY DEF SumsInv
<1> HIDE DEF q, new
<1>7. \A s \in Serial : s \notin q.serials => imported'[s] = imported[s] /\ rows'[s] = rows[s]
  BY <1>3
<1>8. ASSUME NEW s \in q.serials
      PROVE  /\ imported'[s] = imported[s] \cup Span(k)
             /\ rows'[s] \in [Hours -> Row]
             /\ \A h \in Span(k) : rows'[s][h] = new[s][h]
             /\ \A h \in Hours \ Span(k) : rows'[s][h] = rows[s][h]
  <2>1. DOMAIN new[s] = Span(k) /\ s \in Serial
    BY <1>5
  <2>2. /\ imported'[s] = imported[s] \cup Span(k)
        /\ rows'[s] = [h \in Hours |-> IF h \in Span(k) THEN new[s][h] ELSE rows[s][h]]
    BY <1>3, <2>1
  <2>3. \A h \in Span(k) : new[s][h] \in Row
    BY <1>5 DEF Row, Written
  <2>4. \A h \in Hours : rows[s][h] \in Row
    BY <1>6, <2>1 DEF Stores
  <2>5. QED
    BY <1>5, <2>2, <2>3, <2>4
<1>9. Stores'
  <2>1. rows' = [s \in Serial |-> rows'[s]] /\ imported' = [s \in Serial |-> imported'[s]]
    BY <1>3
  <2>2. \A s \in Serial : rows'[s] \in [Hours -> Row] /\ imported'[s] \in SUBSET Hours
    BY <1>5, <1>6, <1>7, <1>8 DEF Stores
  <2>3. QED
    BY <1>3, <1>6, <2>1, <2>2 DEF Stores
<1>10. QED
  BY <1>1, <1>2, <1>3, <1>4, <1>7, <1>8, <1>9 DEF q, new

\* An import that read before, and one of earlier days, are overtaken.
LEMMA OvertakenFacts ==
    ASSUME NEW k, NEW j \in Importing \ {k}
    PROVE  /\ HasRead(j) => "read" \in Overtaken(k)
           /\ task[j].phase \in Unwritten /\ End(j) < End(k) => "order" \in Overtaken(k)
           /\ Overtaken(k) \subseteq {"read", "order"}
BY DEF Overtaken, HasRead

\* The row before the range, while nobody has overtaken the import.
LEMMA RowBefore ==
    ASSUME SumsInv, NEW k, JobFacts(k), NEW s \in Serial
    PROVE  LET earlier == RowsIn(s, Start(k) - Lookback, Start(k)) IN
           /\ earlier = {} => Before(k, s) = Nothing
           /\ earlier # {} => /\ Before(k, s) = rows[s][Max(earlier)] /\ Before(k, s) # Nothing
                              /\ Max(earlier) \in earlier
                              /\ \A h \in earlier : h <= Max(earlier)
<1>1. Start(k) - Lookback \in Int /\ Start(k) \in Int /\ Stores
  BY ArchiveAssumption DEF JobFacts, SumsInv
<1>2. QED
  BY <1>1, LastRowFacts, RowsInFinite DEF Before

\* Two rows next to each other of which one is in the range are joined.
LEMMA JobJoins ==
    ASSUME SumsInv, Apply, NEW k, k = Head(queue), "read" \notin raced,
           NEW s \in task[k].serials, NEW g \in Hours, NEW h \in Span(k),
           Adjacent(s, g, h)', h - g <= Lookback
    PROVE  Joined(s, g, h)'
<1> DEFINE m == Start(k)
           new == task[k].rows[s]
<1>1. /\ JobFacts(k) /\ s \in Serial
      /\ \A x \in Span(k) : rows'[s][x] = new[x]
      /\ \A x \in Hours \ Span(k) : rows'[s][x] = rows[s][x]
  BY JobWrites DEF JobFacts
<1>2. /\ m \in Nat /\ End(k) \in Nat /\ m < End(k) /\ Span(k) \subseteq Hours
      /\ h \in Int /\ m <= h /\ h < End(k) /\ Lookback \in Nat
      /\ g \in Int /\ g < h /\ RowsIn(s, g + 1, h)' = {} /\ rows'[s][g] # Nothing
  BY <1>1, ArchiveAssumption DEF JobFacts, Span, Hours, Adjacent
<1>3. RowsContinue(new, m, End(k) - 1) /\ Fits(new, m, End(k) - 1, Before(k, s), task[k].after[s])
  BY <1>1 DEF JobFacts, JobOK
<1>4. \A x \in Span(k) : rows'[s][x] # Nothing
  <2>1. \A x \in Span(k) : new[x] \in Written
    BY <1>3 DEF RowsContinue, Span
  <2>2. Nothing \notin Written
    BY DEF Nothing, Written
  <2>3. QED
    BY <1>1, <2>1, <2>2
<1>5. \A x \in Hours : g < x /\ x < h => rows'[s][x] = Nothing
  BY <1>2 DEF RowsIn, Hours
<1>6. \A x \in Span(k) : ~ (g < x /\ x < h)
  BY <1>2, <1>4, <1>5
<1>7. CASE g < m
  <2>1. h = m
    <3>1. m \in Span(k)
      BY <1>2 DEF Span
    <3>2. QED
      BY <1>2, <1>6, <1>7, <3>1
  <2> DEFINE T == RowsIn(s, m - Lookback, m)
  <2>2. g \in T
    <3>1. g \notin Span(k)
      BY <1>2, <1>7 DEF Span
    <3>2. rows[s][g] # Nothing
      BY <1>1, <1>2, <3>1
    <3>3. m - Lookback <= g
      BY <1>2, <2>1
    <3>4. QED
      BY <1>7, <3>2, <3>3 DEF RowsIn
  <2>3. /\ Before(k, s) = rows[s][Max(T)] /\ Before(k, s) # Nothing
        /\ Max(T) \in T /\ g <= Max(T)
    BY <1>1, <2>2, RowBefore
  <2>4. Max(T) = g
    <3>1. Max(T) \in Hours /\ Max(T) < m /\ rows[s][Max(T)] # Nothing
      BY <2>3 DEF RowsIn
    <3>2. Max(T) \notin Span(k) /\ Max(T) \in Int
      BY <1>2, <3>1 DEF Span, Hours
    <3>3. rows'[s][Max(T)] # Nothing
      BY <1>1, <3>1, <3>2
    <3>4. ~ (g < Max(T) /\ Max(T) < h)
      BY <1>5, <3>1, <3>3
    <3> HIDE DEF T
    <3>5. QED
      BY <1>2, <2>1, <2>3, <3>1, <3>2, <3>4
  <2>5. Continues(rows[s][g], new[m])
    BY <1>3, <2>3, <2>4 DEF Fits
  <2>6. rows'[s][g] = rows[s][g] /\ rows'[s][h] = new[m]
    <3>1. g \notin Span(k)
      BY <1>2, <1>7 DEF Span
    <3>2. QED
      BY <1>1, <2>1, <3>1
  <2>7. QED
    BY <2>5, <2>6 DEF Continues, Joined
<1>8. CASE m <= g
  <2>1. g \in Span(k)
    BY <1>2, <1>8 DEF Span
  <2>2. h = g + 1
    <3>1. SUFFICES ASSUME g + 1 < h PROVE FALSE
      BY <1>2
    <3>2. g + 1 \in Span(k)
      BY <1>2, <1>8, <3>1 DEF Span
    <3>3. QED
      BY <1>2, <1>6, <3>1, <3>2
  <2>3. Continues(new[g], new[h])
    BY <1>3, <2>1, <2>2 DEF RowsContinue, Span
  <2>4. rows'[s][g] = new[g] /\ rows'[s][h] = new[h]
    BY <1>1, <2>1
  <2>5. QED
    BY <2>3, <2>4 DEF Continues, Joined
<1>9. QED
  BY <1>2, <1>7, <1>8

LEMMA ApplySums ==
    ASSUME SumsInv, ArchiveInv', Apply
    PROVE  SumsInv'
<1> DEFINE k == Head(queue)
<1>1. /\ JobFacts(k) /\ queue' = Tail(queue) /\ queue \in Seq(Importing) /\ queue # <<>>
      /\ task'[k].phase = "applied" /\ \A j \in Task \ {k} : task'[j] = task[j]
      /\ UNCHANGED <<hour, live, radio, reconciled, calls, moves>>
      /\ raced' = raced \cup Overtaken(k) /\ Stores' /\ hour \in Nat /\ DayStart[1] <= hour
  BY JobWrites DEF SumsInv, ArchiveInv
<1>2. /\ \A s \in Serial : s \notin task[k].serials =>
            imported'[s] = imported[s] /\ rows'[s] = rows[s]
      /\ \A s \in task[k].serials :
            /\ imported'[s] = imported[s] \cup Span(k)
            /\ \A h \in Hours \ Span(k) : rows'[s][h] = rows[s][h]
  BY JobWrites
<1>3. k = queue[1] /\ Len(queue) \in Nat /\ Len(queue) >= 1
  BY <1>1
<1> HIDE DEF k
<1>4. /\ k \in Importing /\ k \in Task /\ task[k].phase = "queued" /\ ImportOK(k)
      /\ task[k].serials \subseteq Serial /\ Start(k) \in Nat /\ End(k) \in Nat
      /\ End(k) <= hour /\ Span(k) \subseteq Hours
  BY <1>1 DEF JobFacts
<1>5. \A s \in Serial : \A h \in imported'[s] : h \in imported[s] \/ (h \in Int /\ h < End(k))
  BY <1>2, <1>4 DEF Span
<1>6. Counts'
  <2>1. Overtaken(k) \subseteq {"read", "order"}
    BY DEF Overtaken
  <2>2. QED
    BY <1>1, <2>1 DEF SumsInv, Counts
<1>7. Holders'
  <2>1. \A j \in Task : radio' = j <=> task'[j].phase \in {"reading", "closing"}
    BY <1>1, <1>4 DEF SumsInv, Holders
  <2>2. ASSUME NEW j \in Task, task'[j].phase = "queued"
        PROVE  \E i \in 1 .. Len(queue') : queue'[i] = j
    <3>1. j # k /\ task[j].phase = "queued"
      BY <1>1, <2>2
    <3>2. PICK i \in 1 .. Len(queue) : queue[i] = j
      BY <3>1 DEF SumsInv, Holders
    <3>3. i # 1 /\ i - 1 \in 1 .. Len(queue')
      BY <1>1, <1>3, <3>1, <3>2
    <3>4. queue'[i - 1] = queue[i]
      BY <1>1, <1>3, <3>2, <3>3
    <3>5. QED
      BY <3>2, <3>3, <3>4
  <2>3. QED
    BY <2>1, <2>2 DEF Holders
<1>8. ImportedPast'
  <2>1. PICK d \in DOMAIN DayStart : End(k) = DayStart[d]
    BY <1>1 DEF JobFacts
  <2>2. End(k) <= DayStart[Today(hour)] /\ DayStart[Today(hour)] \in Nat
    BY <1>1, <1>4, <2>1, LastMidnight, TodayFacts, ArchiveAssumption
  <2>3. \A s \in Serial : \A h \in imported[s] : h < DayStart[Today(hour)]
    BY DEF SumsInv, ImportedPast
  <2>4. QED
    BY <1>1, <1>4, <1>5, <2>2, <2>3 DEF ImportedPast
<1>9. ASSUME NEW j \in Importing, task'[j].phase \in Unwritten
      PROVE  ImportOK(j)'
  <2>1. j # k
    BY <1>1, <1>9 DEF Unwritten
  <2>2. j \in Task /\ task'[j] = task[j] /\ task[j].phase \in Unwritten /\ ImportOK(j)
    BY <1>1, <1>9, <2>1 DEF SumsInv, Importing, Task
  <2>3. "read" \in raced' \/ ~ HasRead(j)
    BY <1>1, <2>1, OvertakenFacts
  <2>4. InOrder(j)'
    <3>1. SUFFICES ASSUME "order" \notin raced' PROVE \A s \in Serial : \A h \in imported'[s] : h < End(j)
      BY <2>2 DEF InOrder, End
    <3>2. "order" \notin raced /\ ~ (End(j) < End(k))
      BY <1>1, <2>1, <2>2, <3>1, OvertakenFacts
    <3>3. End(j) \in Nat
      BY <1>1, <2>2, SpanFacts DEF ImportOK
    <3>4. \A s \in Serial : \A h \in imported[s] : h < End(j)
      BY <2>2, <3>2 DEF ImportOK, InOrder
    <3>5. QED
      BY <1>4, <1>5, <3>2, <3>3, <3>4
  <2>5. QED
    BY <1>1, <1>9, <2>2, <2>3, <2>4, ImportKept
<1>10. ASSUME raced' = {}
       PROVE  ImportedJoined'
  <2>1. raced = {} /\ ImportedJoined
    BY <1>1, <1>10 DEF SumsInv
  <2>2. SUFFICES ASSUME NEW s \in Serial, NEW g \in imported'[s], NEW h \in imported'[s],
                        Adjacent(s, g, h)', h - g <= Lookback
                 PROVE  Joined(s, g, h)'
    BY DEF ImportedJoined
  <2>3. g \in Hours /\ h \in Hours /\ g \in Int /\ h \in Int /\ g < h
    BY <1>1, <2>2 DEF Stores, Hours, Adjacent
  <2>4. CASE s \in task[k].serials /\ h \in Span(k)
    BY <2>1, <2>2, <2>3, <2>4, JobJoins DEF k
  <2>5. CASE s \in task[k].serials /\ h \notin Span(k)
    <3>1. h \in imported[s] /\ h < Start(k)
      <4>1. h \in imported[s]
        BY <1>2, <2>2, <2>5
      <4>2. h < End(k)
        BY <1>4, <2>1, <4>1 DEF ImportOK, InOrder
      <4>3. QED
        BY <1>4, <2>3, <2>5, <4>1, <4>2 DEF Span
    <3>2. g \notin Span(k) /\ g \in imported[s]
      <4>1. g \notin Span(k)
        BY <1>4, <2>3, <3>1 DEF Span
      <4>2. QED
        BY <1>2, <2>2, <2>5, <4>1
    <3>3. \A x \in Hours : x < h => rows'[s][x] = rows[s][x]
      BY <1>2, <1>4, <2>3, <2>5, <3>1 DEF Span, Hours
    <3>4. rows'[s][g] = rows[s][g] /\ rows'[s][h] = rows[s][h]
      BY <1>2, <2>3, <2>5, <3>2
    <3>5. RowsIn(s, g + 1, h)' = RowsIn(s, g + 1, h)
      BY <2>3, <3>3, RowsInSame
    <3>6. Adjacent(s, g, h)
      BY <2>2, <3>4, <3>5 DEF Adjacent
    <3>7. Joined(s, g, h)
      BY <2>1, <2>2, <3>1, <3>2, <3>6 DEF ImportedJoined
    <3>8. QED
      BY <3>4, <3>7 DEF Joined
  <2>6. CASE s \notin task[k].serials
    <3>1. imported'[s] = imported[s] /\ rows'[s] = rows[s]
      BY <1>2, <2>6
    <3>2. Adjacent(s, g, h)
      BY <2>2, <3>1 DEF Adjacent, RowsIn
    <3>3. Joined(s, g, h)
      BY <2>1, <2>2, <3>1, <3>2 DEF ImportedJoined
    <3>4. QED
      BY <3>1, <3>3 DEF Joined
  <2>7. QED
    BY <2>4, <2>5, <2>6
<1>11. QED
  BY <1>1, <1>6, <1>7, <1>8, <1>9, <1>10 DEF SumsInv

-----------------------------------------------------------------------------
(* The specification.                                                      *)

LEMMA SumsInit == ASSUME Init PROVE SumsInv
<1>1. PICK n \in Nat \ {0} :
        /\ DOMAIN DayStart = 0..n /\ \A d \in 0..n : DayStart[d] \in Nat
        /\ \A c, d \in 0..n : c <= d => DayStart[c] <= DayStart[d]
        /\ LastHour = DayStart[n]
  BY Midnights
<1>2. 1 \in 0..n /\ n \in 0..n /\ 1 <= n
  BY <1>1
<1>3. Counts
  BY <1>1, <1>2, ArchiveAssumption DEF Init, Counts
<1>4. Stores
  BY DEF Init, Stores, Row
<1>5. Holders
  BY DEF Init, Holders, Idle, Free, Task
<1>6. ImportedPast /\ ImportedJoined
  BY DEF Init, ImportedPast, ImportedJoined
<1>7. \A k \in Importing : task[k].phase \notin Unwritten
  BY DEF Init, Importing, Task, Idle, Unwritten
<1>8. QED
  BY <1>3, <1>4, <1>5, <1>6, <1>7, ArchiveInitInv DEF SumsInv

LEMMA SumsNext == ASSUME SumsInv, [Next]_vars PROVE SumsInv'
<1>0. ArchiveInv'
  BY ArchiveNextInv DEF SumsInv
<1>1. /\ Today(hour) \in DOMAIN DayStart /\ Today(hour) \in Nat /\ Today(hour) >= 1
  BY TodayFacts DEF SumsInv, ArchiveInv
<1>2. "reconcile" \in Task /\ "import" \in Task /\ "get" \in Task /\ "get" \notin Importing
  BY DEF Task, Importing
<1>3. ASSUME UNCHANGED <<hour, rows, live, queue, radio, task, reconciled, imported, raced, calls>>,
             moves' \in 0..MaxMoves
      PROVE  SumsInv'
  <2>1. Counts' /\ Holders'
    BY <1>3 DEF SumsInv, Counts, Holders
  <2>2. QED
    BY <1>0, <1>2, <1>3, <2>1, StepKeeps
<1>4. CASE UNCHANGED vars
  BY <1>3, <1>4 DEF vars, recorder, ownership, SumsInv, Counts
<1>5. CASE HourPasses \/ Apply
  BY <1>0, <1>5, HourPassesSums, ApplySums
<1>6. CASE Poll
  <2>1. moves' \in 0..MaxMoves
    BY <1>6, ArchiveAssumption DEF Poll, SumsInv, Counts
  <2>2. QED
    BY <1>3, <1>6, <2>1 DEF Poll, recorder
<1>7. CASE ScheduleReconcile
  <2>1. 1 \in 1 .. Today(hour)
    BY <1>1
  <2>2. QED
    BY <1>0, <1>2, <1>7, <2>1, BeginSums DEF ScheduleReconcile
<1>8. CASE ImportCalled
  <2>1. PICK days \in 1..MaxDays :
          days <= Today(hour) /\ Begin("import", completed_day_periods(Today(hour), days))
    BY <1>8 DEF ImportCalled
  <2>2. days \in 1 .. Today(hour)
    BY <1>1, <2>1, ArchiveAssumption
  <2>3. QED
    BY <1>0, <1>2, <2>1, <2>2, BeginSums
<1>9. CASE GetCalled
  BY <1>0, <1>2, <1>9, BeginSums DEF GetCalled
<1>10. ASSUME NEW k \in Task,
              ReadStarts(k) \/ ReadEnds(k) \/ ReadBefore(k) \/ ReadAfter(k) \/ HandOver(k)
       PROVE  SumsInv'
  BY <1>0, <1>10, ReadStartsSums, ReadEndsSums, NeighboursSums, HandOverSums
<1>11. reconciled \in {Never} \cup Days /\ Idle.phase \notin Unwritten /\ Idle.phase # "closing"
  BY DEF SumsInv, Counts, Idle, Unwritten
<1>12. ASSUME NEW k \in Task, ReadFails(k)
       PROVE  SumsInv'
  BY <1>0, <1>11, <1>12, EndSums DEF ReadFails, ownership, recorder
<1>13. CASE FinishImport \/ GetReturned
  BY <1>0, <1>2, <1>11, <1>13, EndSums DEF FinishImport, GetReturned, ownership, recorder
<1>14. CASE FinishReconcile
  <2>1. task["reconcile"].phase = "applied"
    BY <1>14 DEF FinishReconcile
  <2>2. TaskOK("reconcile", task["reconcile"], rows)
    BY <1>2 DEF SumsInv, ArchiveInv
  <2>3. IsDay(task["reconcile"].periods)
    BY <2>1, <2>2 DEF TaskOK, DayOK
  <2>4. \E d \in Days : DayStart[d] = Start("reconcile")
    BY <2>3 DEF IsDay, Start
  <2>5. reconciled' \in {Never} \cup Days
    BY <1>11, <1>14, <2>4 DEF FinishReconcile
  <2>6. QED
    BY <1>0, <1>2, <1>11, <1>14, <2>5, EndSums DEF FinishReconcile, ownership, recorder
<1>15. CASE GetRead
  <2>1. PICK archive : task' = [task EXCEPT !["get"] = Closing(task["get"].periods, archive)]
    BY <1>15, GetWrites
  <2> DEFINE r == Closing(task["get"].periods, archive)
  <2>2. r.phase \notin Unwritten /\ r.phase = "closing"
    BY DEF Closing, Unwritten
  <2> HIDE DEF r
  <2>3. /\ task["get"].phase = "reading" /\ radio' = radio /\ reconciled' = reconciled
        /\ UNCHANGED <<hour, queue, calls, moves, raced, rows, live, imported>>
    BY <1>15 DEF GetRead, ownership, recorder
  <2>4. QED
    BY <1>0, <1>2, <1>11, <2>1, <2>2, <2>3, EndSums DEF r
<1>16. CASE GetAnswered
  <2>1. PICK slots : task' = [task EXCEPT !["get"] = Answered(task["get"], slots)]
    BY <1>16, GetWrites
  <2> DEFINE r == Answered(task["get"], slots)
  <2>2. r.phase \notin Unwritten /\ r.phase # "closing"
    BY DEF Answered, Unwritten
  <2> HIDE DEF r
  <2>3. /\ task["get"].phase = "closing" /\ radio' = Free /\ reconciled' = reconciled
        /\ UNCHANGED <<hour, queue, calls, moves, raced, rows, live, imported>>
    BY <1>16 DEF GetAnswered, ownership, recorder
  <2>4. QED
    BY <1>0, <1>2, <1>11, <2>1, <2>2, <2>3, EndSums DEF r
<1>17. QED
  BY <1>4, <1>5, <1>6, <1>7, <1>8, <1>9, <1>10, <1>12, <1>13, <1>14, <1>15, <1>16 DEF Next

\* The inductive invariant of rows, sums and jobs.
THEOREM ArchiveSumsInvariant == Spec => []SumsInv
<1>1. QED
  BY SumsInit, SumsNext, PTL DEF Spec

\* At most the two importing tasks wait for the Recorder.
LEMMA QueueIsShort ==
    ASSUME QueueOK
    PROVE  Len(queue) <= Cardinality(Importing)
<1>1. "reconcile" # "import"
  OBVIOUS
<1>2. Cardinality(Importing) = 2
  <2>1. IsFiniteSet({"import"}) /\ Cardinality({"import"}) = 1
    BY FS_Singleton
  <2>2. Importing = {"import"} \cup {"reconcile"} /\ "reconcile" \notin {"import"}
    BY DEF Importing
  <2>3. QED
    BY <2>1, <2>2, FS_AddElement
<1>3. queue \in Seq(Importing) /\ Len(queue) \in Nat
  BY DEF QueueOK
<1>4. ~ (Len(queue) > 2)
  <2>1. SUFFICES ASSUME Len(queue) > 2 PROVE FALSE
    OBVIOUS
  <2>2. 1 \in 1 .. Len(queue) /\ 2 \in 1 .. Len(queue) /\ 3 \in 1 .. Len(queue)
    BY <1>3, <2>1
  <2>3. queue[1] # queue[2] /\ queue[2] # queue[3] /\ queue[1] # queue[3]
    BY <2>2 DEF QueueOK
  <2>4. queue[1] \in Importing /\ queue[2] \in Importing /\ queue[3] \in Importing
    BY <1>3, <2>2
  <2>5. QED
    BY <2>3, <2>4 DEF Importing
<1>5. QED
  BY <1>2, <1>3, <1>4

\* Every task is in one of its phases, the adapter is held by the task that
\* reads, the Recorder's queue holds the tasks that wait for it, and rows are
\* rows.
THEOREM ArchiveTypeOK == Spec => []TypeOK
<1>1. ASSUME SumsInv
      PROVE  TypeOK
  <2>1. ArchiveInv /\ Counts /\ Stores /\ Holders /\ QueueOK
    BY <1>1 DEF SumsInv, ArchiveInv
  <2>2. hour \in DayStart[1] .. LastHour
    <3>1. DayStart[1] \in Nat /\ LastHour \in Nat
      BY Midnights, ArchiveAssumption
    <3>2. QED
      BY <2>1, <3>1 DEF ArchiveInv, Counts
  <2>3. \A k \in Task : k \in {queue[i] : i \in DOMAIN queue} <=> task[k].phase = "queued"
    <3>1. DOMAIN queue = 1 .. Len(queue)
      BY <2>1 DEF QueueOK
    <3>2. QED
      BY <2>1, <3>1 DEF QueueOK, Holders
  <2>4. QED
    BY <2>1, <2>2, <2>3, QueueIsShort DEF TypeOK, ArchiveInv, Counts, Stores, Holders
<1>2. QED
  BY <1>1, ArchiveSumsInvariant, PTL

\* The imported history is continuous as long as no import writes between
\* another's reads and its rows, or a later day before an earlier one
\* (archive.py:59 "Build continuous Recorder sums").
THEOREM ArchiveContinuousUnlessRaced == Spec => []ContinuousUnlessRaced
<1>1. SumsInv => ContinuousUnlessRaced
  BY DEF SumsInv, ContinuousUnlessRaced
<1>2. QED
  BY <1>1, ArchiveSumsInvariant, PTL

JoinsStep ==
    \A k \in Importing :
       task[k].phase = "queued" /\ task'[k].phase = "applied" /\ "read" \notin raced =>
         \A s \in task[k].serials :
           LET earlier == RowsIn(s, Start(k) - Lookback, Start(k))
               later   == RowsIn(s, End(k), End(k) + Lookback)
           IN  IF earlier # {} THEN Joined(s, Max(earlier), Start(k))'
               ELSE later # {} /\ rows[s][Min(later)] = task[k].after[s] =>
                        Joined(s, End(k) - 1, Min(later))'

\* Only the Recorder's thread moves a task on that waits for it.
LEMMA AppliedByThread ==
    ASSUME SumsInv, [Next]_vars, NEW k \in Importing,
           task[k].phase = "queued", task'[k].phase = "applied"
    PROVE  Apply /\ k = Head(queue)
<1>1. k \in Task /\ task = [j \in Task |-> task[j]]
  BY DEF SumsInv, ArchiveInv, Importing, Task
<1>2. ASSUME NEW j \in Task, NEW r, task' = [task EXCEPT ![j] = r], task[j].phase # "queued"
      PROVE  FALSE
  BY <1>1, <1>2
<1>3. "reconcile" \in Task /\ "import" \in Task /\ "get" \in Task
  BY DEF Task
<1>4. ~ UNCHANGED task
  OBVIOUS
<1>5. ~ (HourPasses \/ Poll \/ UNCHANGED vars)
  BY <1>4 DEF HourPasses, Poll, vars
<1>6. ~ (ScheduleReconcile \/ ImportCalled \/ GetCalled)
  BY <1>2, <1>3 DEF ScheduleReconcile, ImportCalled, GetCalled, Begin, Active
<1>7. ASSUME NEW j \in Task
      PROVE  ~ (\/ ReadStarts(j) \/ ReadFails(j) \/ ReadEnds(j)
                \/ ReadBefore(j) \/ ReadAfter(j) \/ HandOver(j))
  <2>1. ReadStarts(j) \/ ReadFails(j) \/ ReadEnds(j) \/ ReadBefore(j) \/ ReadAfter(j) \/ HandOver(j)
        => /\ task[j].phase # "queued"
           /\ \E r : task' = [task EXCEPT ![j] = r]
    BY DEF ReadStarts, ReadFails, ReadEnds, ReadBefore, ReadAfter, HandOver
  <2>2. QED
    BY <1>2, <2>1
<1>8. ~ (FinishReconcile \/ FinishImport \/ GetReturned)
  BY <1>2, <1>3 DEF FinishReconcile, FinishImport, GetReturned
<1>9. ~ (GetRead \/ GetAnswered)
  <2>1. GetRead \/ GetAnswered =>
          task["get"].phase # "queued" /\ \E r : task' = [task EXCEPT !["get"] = r]
    BY GetWrites DEF GetRead, GetAnswered
  <2>2. QED
    BY <1>2, <1>3, <2>1
<1>10. Apply
  BY <1>5, <1>6, <1>7, <1>8, <1>9 DEF Next
<1>11. k = Head(queue)
  <2>1. \A j \in Task \ {Head(queue)} : task'[j] = task[j]
    BY <1>10, JobWrites
  <2>2. QED
    BY <1>1, <2>1
<1>12. QED
  BY <1>10, <1>11

LEMMA JoinsStepHolds == ASSUME SumsInv, [Next]_vars PROVE JoinsStep
<1>1. SUFFICES ASSUME NEW k \in Importing, task[k].phase = "queued", task'[k].phase = "applied",
                      "read" \notin raced, NEW s \in task[k].serials
               PROVE  LET earlier == RowsIn(s, Start(k) - Lookback, Start(k))
                          later   == RowsIn(s, End(k), End(k) + Lookback)
                      IN  IF earlier # {} THEN Joined(s, Max(earlier), Start(k))'
                          ELSE later # {} /\ rows[s][Min(later)] = task[k].after[s] =>
                                   Joined(s, End(k) - 1, Min(later))'
  BY DEF JoinsStep
<1> DEFINE new == task[k].rows[s]
           earlier == RowsIn(s, Start(k) - Lookback, Start(k))
           later == RowsIn(s, End(k), End(k) + Lookback)
<1>2. Apply /\ k = Head(queue)
  BY <1>1, AppliedByThread
<1>3. /\ JobFacts(k) /\ s \in Serial /\ task'[k].periods = task[k].periods
      /\ \A x \in Span(k) : rows'[s][x] = new[x]
      /\ \A x \in Hours \ Span(k) : rows'[s][x] = rows[s][x]
  BY <1>2, JobWrites DEF JobFacts
<1>4. /\ Start(k) \in Nat /\ End(k) \in Nat /\ Start(k) < End(k) /\ Span(k) \subseteq Hours
      /\ Start(k) \in Span(k) /\ End(k) - 1 \in Span(k) /\ Lookback \in Nat
  BY <1>3, ArchiveAssumption DEF JobFacts, Span
<1>5. Fits(new, Start(k), End(k) - 1, Before(k, s), task[k].after[s])
  BY <1>1, <1>3 DEF JobFacts, JobOK
<1>6. Start(k)' = Start(k) /\ End(k)' = End(k)
  BY <1>3 DEF Start, End
<1>7. \A x \in Hours : x < Start(k) \/ End(k) <= x => rows'[s][x] = rows[s][x]
  BY <1>3, <1>4 DEF Span, Hours
<1>8. earlier' = earlier /\ later' = later
  BY <1>4, <1>6, <1>7 DEF RowsIn, Hours
<1>9. ASSUME earlier # {}
      PROVE  Joined(s, Max(earlier), Start(k))'
  <2>1. /\ Before(k, s) = rows[s][Max(earlier)] /\ Before(k, s) # Nothing
        /\ Max(earlier) \in earlier
    BY <1>3, <1>9, RowBefore
  <2>2. Continues(rows[s][Max(earlier)], new[Start(k)])
    BY <1>5, <2>1 DEF Fits
  <2>3. rows'[s][Max(earlier)] = rows[s][Max(earlier)]
    BY <1>7, <2>1 DEF RowsIn
  <2>4. rows'[s][Start(k)] = new[Start(k)]
    BY <1>3, <1>4
  <2> HIDE DEF earlier
  <2>5. QED
    BY <1>6, <1>8, <2>2, <2>3, <2>4 DEF Continues, Joined
<1>10. ASSUME earlier = {}, later # {}, rows[s][Min(later)] = task[k].after[s]
       PROVE  Joined(s, End(k) - 1, Min(later))'
  <2>1. Before(k, s) = Nothing
    BY <1>3, <1>10, RowBefore
  <2>2. Min(later) \in later
    BY <1>10, RowsInFinite
  <2>3. task[k].after[s] # Nothing
    BY <1>10, <2>2 DEF RowsIn
  <2>4. Continues(new[End(k) - 1], rows[s][Min(later)])
    BY <1>5, <1>10, <2>1, <2>3 DEF Fits
  <2>5. rows'[s][Min(later)] = rows[s][Min(later)]
    BY <1>7, <2>2 DEF RowsIn
  <2>6. rows'[s][End(k) - 1] = new[End(k) - 1]
    BY <1>3, <1>4
  <2> HIDE DEF later
  <2>7. QED
    BY <1>6, <1>8, <2>4, <2>5, <2>6 DEF Continues, Joined
<1>11. QED
  BY <1>9, <1>10

\* An import whose neighbours nobody rewrites joins its first row to the row
\* before its range, or else its last row to the row after it
\* (archive.py:61-63).
THEOREM ArchiveJoinsHistory == Spec => JoinsHistory
<1>1. SumsInv /\ [Next]_vars => [JoinsStep]_vars
  BY JoinsStepHolds
<1>2. QED
  BY <1>1, ArchiveSumsInvariant, PTL DEF Spec, JoinsHistory, JoinsStep
=============================================================================
