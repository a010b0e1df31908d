------------------------- MODULE MCInterruptRegistry -------------------------
(* The interrupt registry on two threads that share the slots. *)
EXTENDS InterruptRegistry, TLC

Symmetry == Permutations(Threads) \cup Permutations(Ids)
=============================================================================
