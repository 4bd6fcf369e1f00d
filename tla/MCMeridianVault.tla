--------------------------- MODULE MCMeridianVault ---------------------------
(* Instances of MeridianVault for TLC: two evidence bases whose files do not *)
(* go together, the second of which satisfies a higher policy.               *)
EXTENDS MeridianVault, TLC

CONSTANTS l1, l2, c1, c2, low, high, p1, p2

MCAuthorized == {<<l1, c1, low>>, <<l2, c2, low>>, <<l2, c2, high>>}
MCSymmetry == Permutations({p1, p2})
=============================================================================
