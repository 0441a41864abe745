-------------------------- MODULE MC_IoUringCopy --------------------------
(* Two copies by one thread: the sizes give no chunk, a short last chunk,  *)
(* and one chunk more than the ring has slots.                             *)
EXTENDS IoUringCopy
=============================================================================
