---------------------------- MODULE MCTestManager ----------------------------
(***************************************************************************)
(* TestManager for TLC.                                                    *)
(***************************************************************************)
EXTENDS TestManager, TLC

Symmetry == Permutations(Versions)
=============================================================================
