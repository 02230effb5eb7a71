---------------------------- MODULE MCTankBackend ----------------------------
(* Model-checking instances of TankBackend. *)
EXTENDS TankInvariant, TLC

ClientSymmetry == Permutations(Clients)
=============================================================================
