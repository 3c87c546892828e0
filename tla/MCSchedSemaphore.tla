--------------------------- MODULE MCSchedSemaphore ---------------------------
(* Module SchedSemaphore for TLC. *)
EXTENDS SchedSemaphore

CONSTANTS t1, t2, t3, s1, s2

TwoThreads == <<t1, t2>>
ThreeThreads == <<t1, t2, t3>>
=============================================================================
