------------------------------ MODULE MerkleTree ------------------------------
(***************************************************************************)
(* The Merkle tree of tools/wuci_ledger.py: roots, inclusion proofs and    *)
(* consistency proofs, and the checks of both.                             *)
(*                                                                         *)
(* Hashes are ideal: the hash of a leaf is the leaf in a tuple of one, the *)
(* hash of a node is the pair of its children, the empty tree is the empty *)
(* tuple. Two hashes are equal only when what was hashed is, and a leaf is *)
(* never a node. A check that raises LedgerError yields NoHash, which is a *)
(* tuple of three and so no hash.                                          *)
(*                                                                         *)
(* A function of several arguments is one of the argument the recursion    *)
(* descends on, whose values are functions of the others.                  *)
(***************************************************************************)
EXTENDS Integers, Sequences

CONSTANT Leaves \* what a leaf may hold

Leaf(e) == <<e>>
EmptyRoot == <<>>
NoHash == <<FALSE, FALSE, FALSE>>
Node(l, r) == IF l = NoHash \/ r = NoHash THEN NoHash ELSE <<l, r>>

(* 1 << (x.bit_length() - 1), for x > 0. *)
highest_bit[x \in Nat] == IF x <= 1 THEN x ELSE 2 * highest_bit[x \div 2]

(* Mutant: the tree is cut in halves. *)
split_powerHalf(n) == n \div 2

(* The largest power of two below n. *)
split_power(n) == highest_bit[n - 1]

Before(s, k) == SubSeq(s, 1, k)
From(s, k) == SubSeq(s, k + 1, Len(s))

merkle_root[s \in Seq(Leaves)] ==
    IF s = <<>> THEN EmptyRoot
    ELSE IF Len(s) = 1 THEN Leaf(s[1])
    ELSE LET k == split_power(Len(s))
         IN  Node(merkle_root[Before(s, k)], merkle_root[From(s, k)])

(* index counts from 0, as in the code. *)
inclusion_path[s \in Seq(Leaves)] ==
    [index \in 0 .. Len(s) - 1 |->
        IF Len(s) = 1 THEN <<>>
        ELSE LET k == split_power(Len(s))
             IN  IF index < k
                 THEN Append(inclusion_path[Before(s, k)][index], merkle_root[From(s, k)])
                 ELSE Append(inclusion_path[From(s, k)][index - k], merkle_root[Before(s, k)])]

consistency_path[s \in Seq(Leaves)] ==
    [first \in 0 .. Len(s) |-> [seed \in BOOLEAN |->
        IF first = 0 THEN <<>>
        ELSE IF first = Len(s) THEN IF seed THEN <<>> ELSE <<merkle_root[s]>>
        ELSE LET k == split_power(Len(s))
             IN  IF first <= k
                 THEN Append(consistency_path[Before(s, k)][first][seed], merkle_root[From(s, k)])
                 ELSE Append(consistency_path[From(s, k)][first - k][FALSE],
                             merkle_root[Before(s, k)])]]

-----------------------------------------------------------------------------
(* Where a path leads to from a leaf: the root of the n leaves around the  *)
(* leaf at i; left is the number of hashes of the path that are left, they *)
(* are taken from its end.                                                 *)
inclusion_roots(leaf, path) ==
    LET rec[n \in Nat \ {0}] ==
            [i \in Nat |-> [left \in Nat |->
                IF n = 1 THEN IF left = 0 THEN leaf ELSE NoHash
                ELSE IF left = 0 THEN NoHash
                ELSE LET k == split_power(n)
                     IN  IF i < k
                         THEN Node(rec[k][i][left - 1], path[left])
                         ELSE Node(path[left], rec[n - k][i - k][left - 1])]]
    IN  rec

root_from_inclusion(leaf, index, size, path) ==
    IF index \in 0 .. size - 1 THEN inclusion_roots(leaf, path)[size][index][Len(path)]
                               ELSE NoHash

(* The old and the new root a consistency path leads to, and how much of   *)
(* the path was used.                                                      *)
TooShort(path) == [old |-> NoHash, new |-> NoHash, used |-> Len(path) + 1]

consistency_roots(firstRoot, path) ==
    LET rec[n \in Nat \ {0}] ==
            [m \in 1 .. n |-> [seed \in BOOLEAN |-> [at \in Nat |->
                IF m = n
                THEN IF seed THEN [old |-> firstRoot, new |-> firstRoot, used |-> at]
                     ELSE IF at >= Len(path) THEN TooShort(path)
                     ELSE [old |-> path[at + 1], new |-> path[at + 1], used |-> at + 1]
                ELSE LET k == split_power(n)
                         sub == IF m <= k THEN rec[k][m][seed][at]
                                          ELSE rec[n - k][m - k][FALSE][at]
                     IN  IF sub.used >= Len(path) THEN TooShort(path)
                         ELSE LET sibling == path[sub.used + 1]
                              IN  [old |-> IF m <= k THEN sub.old ELSE Node(sibling, sub.old),
                                   new |-> IF m <= k THEN Node(sub.new, sibling)
                                                     ELSE Node(sibling, sub.new),
                                   used |-> sub.used + 1]]]]
    IN  rec

consistency_roots_from_proof(first, second, firstRoot, path) ==
    LET result == consistency_roots(firstRoot, path)[second][first][TRUE][0]
    IN  IF result.used = Len(path) THEN result ELSE TooShort(path)

-----------------------------------------------------------------------------
(* Mutant: the proof's own root is not compared with the head's.           *)
verify_inclusionAnyHead(entry, proof, head) ==
    /\ entry.sequence = proof.index
    /\ head.size = proof.size
    /\ Leaf(entry) = proof.leaf
    /\ root_from_inclusion(Leaf(entry), proof.index, proof.size, proof.path) = proof.root

(* run_verify_inclusion, on an entry file, a proof file and a head file.   *)
verify_inclusion(entry, proof, head) ==
    /\ entry.sequence = proof.index
    /\ head.size = proof.size
    /\ head.root = proof.root
    /\ Leaf(entry) = proof.leaf
    /\ root_from_inclusion(Leaf(entry), proof.index, proof.size, proof.path) = proof.root

(* run_verify_consistency, on a proof file alone.                          *)
verify_consistency(proof) ==
    IF proof.first = 0
    THEN /\ proof.path = <<>>
         /\ proof.firstRoot = EmptyRoot
         /\ proof.second = 0 => proof.secondRoot = proof.firstRoot
    ELSE /\ proof.first <= proof.second
         /\ proof.first = proof.second => proof.path = <<>> /\ proof.secondRoot = proof.firstRoot
         /\ LET result == consistency_roots_from_proof(proof.first, proof.second,
                                                       proof.firstRoot, proof.path)
            IN  result.old = proof.firstRoot /\ result.new = proof.secondRoot
=============================================================================
