------------------------------ MODULE MCActive ------------------------------
(***************************************************************************)
(* ActiveTables for TLC.  Tables and relfilenodes are interchangeable.     *)
(***************************************************************************)
EXTENDS ActiveTables, TLC

ActiveSymmetry == Permutations(Rels) \cup Permutations(Files)
=============================================================================
