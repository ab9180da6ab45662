--------------------------- MODULE MCBeaconManager ---------------------------
(***************************************************************************)
(* BeaconManager for TLC.                                                  *)
(***************************************************************************)
EXTENDS BeaconManager, TLC

Symmetry == Permutations(Pubkeys)
=============================================================================
