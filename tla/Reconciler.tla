----------------------------- MODULE Reconciler -----------------------------
(***************************************************************************)
(* The decision function of crash recovery, Decide in                      *)
(* src/filesystem/reconciler.cpp.  An observed file is "absent", or it is  *)
(* compared with the size and digest of the verified receipt: "match" or   *)
(* "mismatch".  The consistency checks of ValidateIntent and               *)
(* ValidateReceipt are about the caller's arguments, which RecoveryService *)
(* builds from the same rows, and are left out.                            *)
(***************************************************************************)

ReconcileAction == {"RetryTask", "TargetConflict", "Inconsistent", "AdoptFinal",
                    "AdoptFinalAndCleanupTemp", "ResumeCommitFromTemp",
                    "ReverifyCommitted"}

Observation == {"absent", "match", "mismatch"}
SourceObservation == {"available", "changed", "unavailable"}

\* An unverified attempt is taken for a finished one.
AdoptingDecideWithoutReceipt(final) ==
    IF final # "absent" THEN "AdoptFinal" ELSE "RetryTask"

DecideWithoutReceipt(final) ==
    IF final # "absent" THEN "TargetConflict" ELSE "RetryTask"

DecideWithReceipt(taskState, source, temp, final) ==
    CASE final = "mismatch" -> "TargetConflict"
      [] final # "mismatch" /\ taskState = "Succeeded" ->
            IF final = "match" THEN "ReverifyCommitted" ELSE "Inconsistent"
      [] final = "match" /\ taskState # "Succeeded" ->
            IF temp = "match" THEN "AdoptFinalAndCleanupTemp" ELSE "AdoptFinal"
      [] final = "absent" /\ taskState # "Succeeded" ->
            CASE temp = "match" -> "ResumeCommitFromTemp"
              [] temp = "absent" ->
                    IF source = "available" THEN "RetryTask" ELSE "Inconsistent"
              [] temp = "mismatch" -> "Inconsistent"

Decide(taskState, hasReceipt, source, temp, final) ==
    CASE source = "changed" -> "Inconsistent"
      [] source # "changed" /\ ~hasReceipt -> DecideWithoutReceipt(final)
      [] source # "changed" /\ hasReceipt ->
            DecideWithReceipt(taskState, source, temp, final)
=============================================================================
