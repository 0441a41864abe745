-------------------------- MODULE MC_MigrationPool --------------------------
(* More tasks than workers and queue places together, so that the main     *)
(* thread has to sleep and workers have to drain a full queue.             *)
EXTENDS MigrationPool
=============================================================================
