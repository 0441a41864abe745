------------------------- MODULE MC_UploadReceiver -------------------------
(* Two sessions that do not fit into the quota together: whichever comes   *)
(* second is rolled back, beside the uploads of the first.  The first has  *)
(* two files, one of them registered with a digest.                        *)
EXTENDS UploadReceiver, TLC

CONSTANTS f1, f2, f3, s1, s2, r1, r2, b1, b2

MCSessionOf == (f1 :> s1) @@ (f2 :> s1) @@ (f3 :> s2)
MCSize == (s1 :> 2) @@ (s2 :> 1)

\* Threads are compared for equality only.
RequestSymmetry == Permutations(Request)
=============================================================================
