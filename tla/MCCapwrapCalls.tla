----------------------------- MODULE MCCapwrapCalls -----------------------------
(* CapwrapCalls on small sets of clients and calls.                          *)
EXTENDS CapwrapCalls, TLC

\* Clients are interchangeable, and so are ordinary calls.
Symmetry == Permutations(Clients) \cup Permutations(Calls \ (Stubs \cup Misfits))

=============================================================================
