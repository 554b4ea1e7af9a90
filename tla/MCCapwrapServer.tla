---------------------------- MODULE MCCapwrapServer ----------------------------
(* CapwrapServer on small sets of connections and capabilities.              *)
EXTENDS CapwrapServer, TLC

\* Connections and capabilities are interchangeable: no action orders them.
Symmetry == Permutations(Conns) \cup Permutations(Caps)

=============================================================================
