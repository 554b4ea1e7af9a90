----------------------------- MODULE MCCapwrapGen -----------------------------
(* Two processes are interchangeable.                                          *)
EXTENDS CapwrapGen, TLC

Symmetry == Permutations(Procs)

=============================================================================
