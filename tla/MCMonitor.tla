------------------------------ MODULE MCMonitor ------------------------------
(* Module Monitor for TLC. *)
EXTENDS Monitor, TLC

CONSTANTS p1, p2, p3, p4, c1, c2

MCProcs == {p1, p2, p3, p4}
MCConds == {c1, c2}
MCSems  == {mutex, next, c1, c2}

(* Threads, and condition variables, are interchangeable. *)
Symmetry == Permutations(MCProcs) \cup Permutations(MCConds)
=============================================================================
