---------------------------- MODULE MCNotifyRing ----------------------------
(* A ring of four cells, so that the indices wrap and the queue fills, and *)
(* messages enough to tell one from another.                               *)
EXTENDS NotifyRing
=============================================================================
