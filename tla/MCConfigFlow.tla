---------------------------- MODULE MCConfigFlow ----------------------------
(* Small instances of ConfigFlow for TLC.                                  *)
EXTENDS ConfigFlow

\* One inverter on its own, one in a network: a turn of a wheel makes two of
\* either kind.
OneOfEach == {[s \in Serial |-> IF s = Min(Serial) THEN 1 ELSE 2]}
=============================================================================
