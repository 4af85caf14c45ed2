-------------------------- MODULE MCDispatchGroup --------------------------
(* A small instance of DispatchGroup for TLC. *)
EXTENDS DispatchGroup, TLC

CONSTANTS t1, t2

MCThreads == {t1, t2}
=============================================================================
