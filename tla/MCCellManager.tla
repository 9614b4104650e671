--------------------------- MODULE MCCellManager ---------------------------
(***************************************************************************)
(* Instances of CellManager for TLC.  A few connections in a row are enough*)
(* for a descriptor to be given out again while the manager still has work *)
(* that names its first owner.                                             *)
(***************************************************************************)
EXTENDS CellManager, TLC
=============================================================================
