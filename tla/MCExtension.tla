---------------------------- MODULE MCExtension ----------------------------
(***************************************************************************)
(* ExtensionDDL for TLC.                                                   *)
(***************************************************************************)
EXTENDS ExtensionDDL, TLC

Symmetry == Permutations(Requesters)
=============================================================================
