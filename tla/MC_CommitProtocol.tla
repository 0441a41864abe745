------------------------- MODULE MC_CommitProtocol -------------------------
(* The constants come from the configurations: one task with many faults,   *)
(* or three tasks with one.                                                 *)
EXTENDS CommitProtocol
=============================================================================
