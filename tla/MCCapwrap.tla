------------------------------- MODULE MCCapwrap -------------------------------
(* Capwrap on small sets of clients, calls and capabilities.                   *)
EXTENDS Capwrap, TLC

=============================================================================
