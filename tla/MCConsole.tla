------------------------------ MODULE MCConsole ------------------------------
(* Module Console for TLC: a screen of three columns and two lines. *)
EXTENDS Console

CONSTANTS t1, t2

MCThreads == {t1, t2}
(* put_int() on some of the numbers that TLC can represent, in each base.   *)
ASSUME PutIntSamples ==
  \A n \in {0, 7, 10, 64, 255, 4095, 65536, 1234567}, base \in {8, 10, 16} : Exact(n, base)

Symmetry == Permutations(MCThreads)
=============================================================================
