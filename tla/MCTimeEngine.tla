---------------------------- MODULE MCTimeEngine ----------------------------
(* The time engine with three clients.                                     *)
EXTENDS TimeEngine, TLC

\* The clients are interchangeable.
ClientSymmetry == Permutations(Clients)
=============================================================================
