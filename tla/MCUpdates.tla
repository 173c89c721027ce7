------------------------------ MODULE MCUpdates -----------------------------
(* Updates on a small instance: which place, object and thread is which does *)
(* not matter.                                                               *)
EXTENDS Updates, TLC

Symmetry == Permutations(Place) \cup Permutations(Cell) \cup Permutations(Thread)

=============================================================================
