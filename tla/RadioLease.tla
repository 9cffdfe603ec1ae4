----------------------------- MODULE RadioLease -----------------------------
(***************************************************************************)
(* What the adapter gate promises about the one Bluetooth Classic radio,   *)
(* whoever asks for it and however calls fail, are cancelled or retried:   *)
(*                                                                         *)
(*   - at most one RFCOMM session or power cycle uses the radio;           *)
(*   - a session opens only in daylight and only once the radio has been   *)
(*     quiet for the release delay BlueZ needs after a close;              *)
(*   - two power cycles are at least the cooldown apart.                   *)
(*                                                                         *)
(* AdapterGate implements this specification.                              *)
(***************************************************************************)
EXTENDS Naturals

CONSTANTS
    Caller,             \* the calls that may ask for the radio
    ReleaseDelay,       \* quiet ticks between a close and the next open
    RecoveryCooldown    \* ticks between two power cycles

VARIABLES
    sessions,   \* callers with an RFCOMM session open
    cycling,    \* callers power-cycling the adapter
    quiet,      \* ticks since the last session closed, up to ReleaseDelay
    cooled,     \* ticks since the last power cycle began, up to the cooldown
    daylight,   \* is the sun up
    restarts    \* restarts of the host process so far

leaseVars == <<sessions, cycling, quiet, cooled, daylight, restarts>>

LeaseInit ==
    /\ sessions = {}
    /\ cycling = {}
    /\ quiet = ReleaseDelay
    /\ cooled = RecoveryCooldown
    /\ daylight \in BOOLEAN
    /\ restarts = 0

Unused == sessions = {} /\ cycling = {}

Open(c) ==
    /\ Unused
    /\ daylight
    /\ quiet = ReleaseDelay
    /\ sessions' = {c}
    /\ UNCHANGED <<cycling, quiet, cooled, daylight, restarts>>

Close(c) ==
    /\ sessions = {c}
    /\ sessions' = {}
    /\ quiet' = 0
    /\ UNCHANGED <<cycling, cooled, daylight, restarts>>

\* A session that failed closes and its caller keeps the radio to cycle it.
CloseAndCycle(c) ==
    /\ sessions = {c}
    /\ cooled = RecoveryCooldown
    /\ sessions' = {}
    /\ cycling' = {c}
    /\ quiet' = 0
    /\ cooled' = 0
    /\ UNCHANGED <<daylight, restarts>>

EndCycle(c) ==
    /\ cycling = {c}
    /\ cycling' = {}
    /\ UNCHANGED <<sessions, quiet, cooled, daylight, restarts>>

\* A power cycle that ends long enough after the last close may be followed
\* by a session at once.
EndCycleAndOpen(c) ==
    /\ cycling = {c}
    /\ sessions = {}
    /\ daylight
    /\ quiet = ReleaseDelay
    /\ cycling' = {}
    /\ sessions' = {c}
    /\ UNCHANGED <<quiet, cooled, daylight, restarts>>

LeaseTick ==
    /\ quiet' = IF quiet < ReleaseDelay THEN quiet + 1 ELSE quiet
    /\ cooled' = IF cooled < RecoveryCooldown THEN cooled + 1 ELSE cooled
    /\ UNCHANGED <<sessions, cycling, daylight, restarts>>

SunTurns ==
    /\ daylight' = ~daylight
    /\ UNCHANGED <<sessions, cycling, quiet, cooled, restarts>>

\* The host process restarts: nothing is in use and nothing is remembered.
Forget ==
    /\ sessions' = {}
    /\ cycling' = {}
    /\ quiet' = ReleaseDelay
    /\ cooled' = RecoveryCooldown
    /\ restarts' = restarts + 1
    /\ UNCHANGED daylight

LeaseNext ==
    \/ \E c \in Caller :
        \/ Open(c) \/ Close(c) \/ CloseAndCycle(c)
        \/ EndCycle(c) \/ EndCycleAndOpen(c)
    \/ LeaseTick
    \/ SunTurns
    \/ Forget

LeaseSpec == LeaseInit /\ [][LeaseNext]_leaseVars
=============================================================================
