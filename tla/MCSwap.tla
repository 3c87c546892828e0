-------------------------------- MODULE MCSwap --------------------------------
(* Module Swap for TLC: the pages of test_swap() at 0xf00000 and 0xf02000,  *)
(* a read-only page in another region and a page without an area.           *)
EXTENDS Swap, TLC

MCPages == {3840, 3842, 5000, 6000}
MCFlags == 3840 :> {"r", "w", "x"} @@ 3842 :> {"r", "w", "x"} @@ 5000 :> {"r"}
Symmetry == Permutations(Values)
=============================================================================
