------------------------------ MODULE MCLeases ------------------------------
(***************************************************************************)
(* An instance of VisibilityLeases for TLC.                                *)
(***************************************************************************)
EXTENDS VisibilityLeases, TLC

MCSymmetry == Permutations(Receipts)
=============================================================================
