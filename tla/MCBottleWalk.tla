---------------------------- MODULE MCBottleWalk ----------------------------
(* Instances of BottleWalk for TLC: two active recipients, one view. *)
EXTENDS BottleWalk, TLC

CONSTANTS alice, bob, tab

MCRecipients == {alice, bob}

(* Recipients are only compared for equality. *)
MCSymmetry == Permutations(MCRecipients)
=============================================================================
