----------------------------- MODULE SessionView -----------------------------
(***************************************************************************)
(* A session as the adapter gate depends on it. It opens or fails to; the  *)
(* operation ends with one result; only an opened session is logged off,   *)
(* and the logoff changes nothing about the result.                        *)
(***************************************************************************)
VARIABLES phase, result

view == <<phase, result>>

Failures == {"transport", "protocol", "auth", "config"}

ViewInit == phase = "opening" /\ result = "none"

\* The client is connected, initialised and authenticated.
Opens ==
    /\ phase = "opening" /\ phase' = "operating"
    /\ UNCHANGED result

\* It could not be: there is no session to log off from.
FailsToOpen ==
    /\ phase = "opening" /\ phase' = "ended"
    /\ result' \in Failures

\* The operation is over and the logoff begins.
Finishes ==
    /\ phase = "operating" /\ phase' = "closing"
    /\ result' \in Failures \cup {"ok"}

\* The logoff was sent, or could not be.
LogsOff ==
    /\ phase = "closing" /\ phase' = "ended"
    /\ UNCHANGED result

\* What failed in a way that may pass is tried again with a new session.
Repeats ==
    /\ phase = "ended" /\ phase' = "opening"
    /\ result \in {"transport", "protocol"} /\ result' = "none"

ViewNext == Opens \/ FailsToOpen \/ Finishes \/ LogsOff \/ Repeats

ViewSpec == ViewInit /\ [][ViewNext]_view
=============================================================================
