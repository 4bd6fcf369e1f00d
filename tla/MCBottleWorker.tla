--------------------------- MODULE MCBottleWorker ---------------------------
(* Instances of BottleWorker for TLC: an active recipient and one whose key *)
(* record is revoked.                                                       *)
EXTENDS BottleWorker, TLC

CONSTANTS alice, revoked

MCRecipients == {alice, revoked}
MCActive == {alice}

=============================================================================
