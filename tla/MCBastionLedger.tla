--------------------------- MODULE MCBastionLedger ---------------------------
(* Instances of BastionLedger for TLC: a measured binary, an update of it,  *)
(* an update that changes the policy too, and a policy change on its own    *)
(* without a link to what it replaces; the update is signed by the user and *)
(* under a mistyped passphrase.                                             *)
EXTENDS BastionLedger, TLC

CONSTANTS v0, v1, v2, v3, none, user, typo, p1, p2

MCVectors == {v0, v1, v2, v3}
MCFields ==
    v0 :> [version |-> 0, policy_digest |-> 0, file_sha256 |-> 0] @@
    v1 :> [version |-> 0, policy_digest |-> 0, file_sha256 |-> 1] @@
    v2 :> [version |-> 0, policy_digest |-> 1, file_sha256 |-> 1] @@
    v3 :> [version |-> 0, policy_digest |-> 1, file_sha256 |-> 0]
MCPrevious == v0 :> none @@ v1 :> v0 @@ v2 :> v1 @@ v3 :> v0

Update == Propose(v0, v1)
PolicyChange == Propose(v1, v2)
Undeclared == [PolicyChange EXCEPT !.policy_change_authorized = FALSE]

MCSubmissions ==
    {Sign(Update, user), Sign(Update, typo),
     Sign(PolicyChange, user), Sign(Undeclared, user)}

MCSymmetry == Permutations({p1, p2})
=============================================================================
