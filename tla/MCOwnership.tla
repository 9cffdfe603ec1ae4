----------------------------- MODULE MCOwnership -----------------------------
(* Small instances of Ownership for TLC.                                   *)
EXTENDS Ownership

\* Entry 2 is older than entry 1: the two orders disagree.
MCCreated == [e \in Entry |-> 10 - e]
\* All entries carry the same plant name and password.
MCSamePlant == Entry \X Entry
=============================================================================
