------------------------------ MODULE MCBottlePage ------------------------------
(* An instance of BottlePage for TLC. *)
EXTENDS BottlePage, TLC

MCSymmetry == Permutations(Keys)
=============================================================================
