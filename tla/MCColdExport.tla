---------------------------- MODULE MCColdExport ----------------------------
(***************************************************************************)
(* Instances of ColdExport for TLC.                                        *)
(***************************************************************************)
EXTENDS ColdExport, TLC

Symmetry == Permutations(Keys) \cup Permutations(Runs)
=============================================================================
