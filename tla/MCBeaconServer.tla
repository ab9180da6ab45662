--------------------------- MODULE MCBeaconServer ---------------------------
(***************************************************************************)
(* BeaconServer for TLC.                                                   *)
(***************************************************************************)
EXTENDS BeaconServer, TLC

Symmetry == Permutations(Clients)
=============================================================================
