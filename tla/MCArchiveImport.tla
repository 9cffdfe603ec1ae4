-------------------------- MODULE MCArchiveImport --------------------------
(***************************************************************************
  An entry with two inverters, four days of one, two, one and one hours (the
  second is as long as a clock change makes it), two records per hour.  The
  meter of s2 starts again at zero in the second day and in the last.
 ***************************************************************************)
EXTENDS ArchiveImport, TLC

CONSTANTS s1, s2

MCSerial == {s1, s2}
MCDayStart == [d \in 0..4 |-> <<0, 1, 3, 4, 5>>[d + 1]]
MCMeterValue ==
    (s1 :> [t \in 0..9 |-> t + 3]) @@
    (s2 :> [t \in 0..9 |-> IF t < 4 THEN 2 * t + 1 ELSE (t - 4) % 4])

\* get_archive writes nothing: it is explored apart from the imports, with
\* which it shares no more than the adapter.
ReadsApart == Active("get") => calls = 1
=============================================================================
