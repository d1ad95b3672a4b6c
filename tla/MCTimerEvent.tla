----------------------------- MODULE MCTimerEvent -----------------------------
(* Three read_op addresses, delays that are due at once, tie and overtake *)
EXTENDS TimerEvent
CONSTANTS p1, p2, p3

MCDelays == {0, 1, 2}
===============================================================================
