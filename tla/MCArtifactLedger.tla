--------------------------- MODULE MCArtifactLedger ---------------------------
(* Instances of ArtifactLedger for TLC: ledgers that start with no entry, one *)
(* or four; four and the fifth make the first trees whose consistency paths  *)
(* have siblings on both sides.                                              *)
EXTENDS ArtifactLedger, TLC

CONSTANTS b1, b2, p1, p2

MCStarts == {<<>>, <<b1>>, <<b1, b2, b1, b2>>}
MCSymmetry == Permutations({p1, p2})
=============================================================================
