------------------------------ MODULE MCInstaller ------------------------------
(* An instance of Installer for TLC: two signed releases, the second without *)
(* one of the bundle's files, and a development tree with another key and a *)
(* binary that no manifest names.                                            *)
EXTENDS Installer, TLC

CONSTANTS p1, p2, r1, r2, dev, b1, b2, b3, k1, k2, f1, f2

MCProcs == {p1, p2}
MCReleases == {r1, r2, dev}
MCBinaries == {b1, b2, b3}
MCBinaryOf == r1 :> b1 @@ r2 :> b2 @@ dev :> b3
MCKeyOf == r1 :> k1 @@ r2 :> k1 @@ dev :> k2
MCSigned == r1 :> r1 @@ r2 :> r2 @@ dev :> r1
MCTreeFiles ==
    [bundle |-> r1 :> {f1, f2} @@ r2 :> {f1} @@ dev :> {f1},
     ledger |-> r1 :> {f1} @@ r2 :> {f1} @@ dev :> {f1}]
MCSymmetry == Permutations({p1, p2})
=============================================================================
