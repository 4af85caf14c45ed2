----------------------------- MODULE MCSource -----------------------------
(* A small instance of Source for TLC. *)
EXTENDS Source, TLC

CONSTANTS c1, c2

MCClients == {c1, c2}

Symmetry == Permutations(MCClients)
=============================================================================
