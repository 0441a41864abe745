------------------------- MODULE MC_RuntimeDbWriter -------------------------
(* The main thread, which claims, and two workers that record results; one *)
(* of them may name the task of the other.  A batch of two can form behind *)
(* a running command, and a third command can arrive while either is       *)
(* executed or fails.                                                      *)
EXTENDS RuntimeDbWriter, TLC

CONSTANTS main, w1, w2, t1, t2

MCSends ==
    (main :> {<<"Claim", t1>>}) @@ (w1 :> {<<"CommitIntent", t1>>})
        @@ (w2 :> {<<"CommitIntent", t1>>, <<"CommitIntent", t2>>})
=============================================================================
