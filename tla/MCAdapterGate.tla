---------------------------- MODULE MCAdapterGate ----------------------------
(* Small instances of AdapterGate for TLC.                                 *)
EXTENDS AdapterGate
=============================================================================
