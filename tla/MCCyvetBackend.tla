---------------------------- MODULE MCCyvetBackend ----------------------------
(* CyvetInvariant for TLC: the clients are interchangeable. *)
EXTENDS CyvetInvariant, TLC

ClientSymmetry == Permutations(Clients)
=============================================================================
