-------------------------- MODULE MC_PlanService --------------------------
(* A folder with a file, a directory with a file, an upload still being    *)
(* received, and room for a file whose name differs from the first only in *)
(* case.                                                                   *)
EXTENDS PlanService

MCParent == <<0, 0, 2, 0, 0>>
MCFolded == <<1, 2, 3, 1, 5>>
=============================================================================
