-------------------------- MODULE MC_TaskRuntime --------------------------
(* TaskRuntime with two tasks, three epochs and two attempts per task: an  *)
(* executor, one that supersedes it and a recovery run can all call.       *)
EXTENDS TaskRuntime, TLC

\* No operation looks into the content of a receipt.
EvidenceSymmetry == Permutations(Evidence)
=============================================================================
