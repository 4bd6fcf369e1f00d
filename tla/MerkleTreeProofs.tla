--------------------------- MODULE MerkleTreeProofs ---------------------------
(***************************************************************************)
(* What the roots and paths of MerkleTree are for every log of every       *)
(* length: the root fixes the log, a path leads to a root exactly when it  *)
(* is the one path for this leaf, or this prefix, of this log.             *)
(***************************************************************************)
EXTENDS MerkleTree, SequenceTheorems, TLAPS

-----------------------------------------------------------------------------
(***************************************************************************)
(* The recursive functions are what their definitions say. Each Body       *)
(* repeats the right side of a definition.                                 *)
(***************************************************************************)
Itself(n) == n

HighestBitBody(f, x, c, d) == IF x <= 1 THEN x ELSE 2 * f[x \div 2]

RootBody(f, s, c, d) ==
    IF s = <<>> THEN EmptyRoot
    ELSE IF Len(s) = 1 THEN Leaf(s[1])
    ELSE LET k == split_power(Len(s))
         IN  Node(f[Before(s, k)], f[From(s, k)])

InclusionBody(f, s, c, d) ==
    [index \in 0 .. Len(s) - 1 |->
        IF Len(s) = 1 THEN <<>>
        ELSE LET k == split_power(Len(s))
             IN  IF index < k
                 THEN Append(f[Before(s, k)][index], merkle_root[From(s, k)])
                 ELSE Append(f[From(s, k)][index - k], merkle_root[Before(s, k)])]

ConsistencyBody(f, s, c, d) ==
    [first \in 0 .. Len(s) |-> [seed \in BOOLEAN |->
        IF first = 0 THEN <<>>
        ELSE IF first = Len(s) THEN IF seed THEN <<>> ELSE <<merkle_root[s]>>
        ELSE LET k == split_power(Len(s))
             IN  IF first <= k
                 THEN Append(f[Before(s, k)][first][seed], merkle_root[From(s, k)])
                 ELSE Append(f[From(s, k)][first - k][FALSE],
                             merkle_root[Before(s, k)])]]

InclusionRootsBody(f, n, leaf, path) ==
    [i \in Nat |-> [left \in Nat |->
        IF n = 1 THEN IF left = 0 THEN leaf ELSE NoHash
        ELSE IF left = 0 THEN NoHash
        ELSE LET k == split_power(n)
             IN  IF i < k
                 THEN Node(f[k][i][left - 1], path[left])
                 ELSE Node(path[left], f[n - k][i - k][left - 1])]]

ConsistencyRootsAt(f, n, m, seed, at, firstRoot, path) ==
    IF m = n
    THEN IF seed THEN [old |-> firstRoot, new |-> firstRoot, used |-> at]
         ELSE IF at >= Len(path) THEN TooShort(path)
         ELSE [old |-> path[at + 1], new |-> path[at + 1], used |-> at + 1]
    ELSE LET k == split_power(n)
             sub == IF m <= k THEN f[k][m][seed][at]
                              ELSE f[n - k][m - k][FALSE][at]
         IN  IF sub.used >= Len(path) THEN TooShort(path)
             ELSE LET sibling == path[sub.used + 1]
                  IN  [old |-> IF m <= k THEN sub.old ELSE Node(sibling, sub.old),
                       new |-> IF m <= k THEN Node(sub.new, sibling)
                                         ELSE Node(sibling, sub.new),
                       used |-> sub.used + 1]

ConsistencyRootsBody(f, n, firstRoot, path) ==
    [m \in 1 .. n |-> [seed \in BOOLEAN |-> [at \in Nat |->
        ConsistencyRootsAt(f, n, m, seed, at, firstRoot, path)]]]

Bit == INSTANCE Recursion WITH D <- Nat, Depth <- Itself, Body <- HighestBitBody
Root == INSTANCE Recursion WITH D <- Seq(Leaves), Depth <- Len, Body <- RootBody
Inclusion == INSTANCE Recursion WITH D <- Seq(Leaves), Depth <- Len, Body <- InclusionBody
Consistency == INSTANCE Recursion WITH D <- Seq(Leaves), Depth <- Len, Body <- ConsistencyBody
FromLeaf == INSTANCE Recursion WITH D <- Nat \ {0}, Depth <- Itself, Body <- InclusionRootsBody
FromRoot == INSTANCE Recursion WITH D <- Nat \ {0}, Depth <- Itself, Body <- ConsistencyRootsBody

-----------------------------------------------------------------------------
LEMMA HighestBitUnfolds ==
    \A x \in Nat : highest_bit[x] = IF x <= 1 THEN x ELSE 2 * highest_bit[x \div 2]
<1>1. Bit!Contractive(0, 0)
  <2>1. SUFFICES ASSUME NEW x \in Nat, NEW f, NEW g, Bit!Agree(f, g, x)
                 PROVE  HighestBitBody(f, x, 0, 0) = HighestBitBody(g, x, 0, 0)
    BY DEF Bit!Contractive, Itself
  <2>2. x > 1 => x \div 2 \in Nat /\ x \div 2 < x
    OBVIOUS
  <2>3. x > 1 => f[x \div 2] = g[x \div 2]
    BY <2>1, <2>2 DEF Bit!Agree, Itself
  <2> QED BY <2>3 DEF HighestBitBody
<1>2. Bit!Defines(highest_bit, 0, 0)
  BY DEF highest_bit, HighestBitBody, Bit!Defines
<1>3. Bit!HasDepths
  BY DEF Bit!HasDepths, Itself
<1>4. Bit!Unfolded(highest_bit, 0, 0)
  BY <1>1, <1>2, <1>3, Bit!Unfolds
<1> QED BY <1>4 DEF Bit!Unfolded, HighestBitBody

(* The highest bit of x is the highest bit of everything from it up to x.  *)
LEMMA HighestBit ==
    \A x \in Nat : x > 0 =>
        /\ highest_bit[x] \in Nat /\ 1 <= highest_bit[x]
        /\ highest_bit[x] <= x /\ x < 2 * highest_bit[x]
        /\ \A y \in Nat : highest_bit[x] <= y /\ y <= x => highest_bit[y] = highest_bit[x]
<1> DEFINE P(x) ==
        /\ highest_bit[x] \in Nat /\ 1 <= highest_bit[x]
        /\ highest_bit[x] <= x /\ x < 2 * highest_bit[x]
        /\ \A y \in Nat : highest_bit[x] <= y /\ y <= x => highest_bit[y] = highest_bit[x]
       T == {x \in Nat : x > 0 /\ ~P(x)}
<1>1. SUFFICES ASSUME T # {} PROVE FALSE
  OBVIOUS
<1>2. PICK x \in T : \A y \in T : x <= y
  BY <1>1, Bit!Least
<1>3. CASE x = 1
  BY <1>2, <1>3, HighestBitUnfolds
<1>4. CASE x > 1
  <2> DEFINE h == x \div 2
  <2>1. h \in Nat /\ h > 0 /\ h < x /\ (x = 2 * h \/ x = 2 * h + 1)
    BY <1>4
  <2> HIDE DEF h
  <2>2. P(h)
    BY <1>2, <2>1
  <2>3. highest_bit[x] = 2 * highest_bit[h]
    BY <1>4, HighestBitUnfolds DEF h
  <2>4. ASSUME NEW y \in Nat, highest_bit[x] <= y, y <= x
        PROVE  highest_bit[y] = highest_bit[x]
    <3>1. y > 1
      BY <2>2, <2>3, <2>4
    <3>2. highest_bit[y] = 2 * highest_bit[y \div 2]
      BY <3>1, HighestBitUnfolds
    <3>3. y \div 2 \in Nat /\ highest_bit[h] <= y \div 2 /\ y \div 2 <= h
      BY <2>1, <2>2, <2>3, <2>4
    <3> QED BY <2>2, <2>3, <3>2, <3>3
  <2>5. P(x)
    BY <2>1, <2>2, <2>3, <2>4
  <2> QED BY <1>2, <2>5
<1> QED BY <1>2, <1>3, <1>4

(* Where a tree of n leaves is cut: both sides have leaves, the left one   *)
(* at least as many; and every tree that goes past the cut is cut there.   *)
LEMMA Split ==
    ASSUME NEW n \in Nat, n > 1
    PROVE  /\ split_power(n) \in Nat /\ 1 <= split_power(n) /\ split_power(n) < n
           /\ n - split_power(n) <= split_power(n)
           /\ \A m \in Nat : split_power(n) < m /\ m <= n => split_power(m) = split_power(n)
<1>1. n - 1 \in Nat /\ n - 1 > 0
  OBVIOUS
<1>2. ASSUME NEW m \in Nat, split_power(n) < m, m <= n PROVE split_power(m) = split_power(n)
  <2>1. m - 1 \in Nat /\ highest_bit[n - 1] <= m - 1 /\ m - 1 <= n - 1
    BY <1>1, <1>2, HighestBit DEF split_power
  <2> QED BY <1>1, <2>1, HighestBit DEF split_power
<1> QED BY <1>1, <1>2, HighestBit DEF split_power

-----------------------------------------------------------------------------
(***************************************************************************)
(* Cutting a log.                                                          *)
(***************************************************************************)
LEMMA Lengths ==
    /\ \A s \in Seq(Leaves) :
        /\ Len(s) \in Nat
        /\ s = <<>> \/ Len(s) = 1 \/ Len(s) > 1
        /\ \A i \in 1 .. Len(s) : s[i] \in Leaves
    /\ <<>> \in Seq(Leaves) /\ Len(<<>>) = 0
<1>1. ASSUME NEW s \in Seq(Leaves) PROVE s # <<>> => Len(s) \in Nat \ {0}
  BY EmptySeq
<1>2. ASSUME NEW s \in Seq(Leaves) PROVE Len(s) \in Nat /\ \A i \in 1 .. Len(s) : s[i] \in Leaves
  BY LenProperties, ElementOfSeq
<1>3. <<>> \in Seq(Leaves) /\ Len(<<>>) = 0
  BY EmptySeq
<1>4. ASSUME NEW s \in Seq(Leaves) PROVE s = <<>> \/ Len(s) = 1 \/ Len(s) > 1
  <2>1. CASE s # <<>>
    <3>1. PICK n \in Nat \ {0} : n = Len(s)
      BY <1>1, <2>1
    <3> QED BY <3>1
  <2> QED BY <2>1
<1> QED BY <1>2, <1>3, <1>4

(* What cutting s after k leaves leads to. *)
CutAt(s, k) ==
           /\ Before(s, k) \in Seq(Leaves) /\ Len(Before(s, k)) = k
           /\ From(s, k) \in Seq(Leaves) /\ Len(From(s, k)) = Len(s) - k
           /\ \A i \in 1 .. k : Before(s, k)[i] = s[i]
           /\ \A i \in 1 .. Len(s) - k : From(s, k)[i] = s[k + i]

LEMMA Cut == \A s \in Seq(Leaves) : \A k \in Nat : k <= Len(s) => CutAt(s, k)
<1> SUFFICES ASSUME NEW s \in Seq(Leaves), NEW k \in Nat, k <= Len(s) PROVE CutAt(s, k)
  OBVIOUS
<1>1. Len(s) \in Nat /\ \A i \in 1 .. Len(s) : s[i] \in Leaves
  BY Lengths
<1>2. /\ SubSeq(s, 1, k) \in Seq(Leaves)
      /\ Len(SubSeq(s, 1, k)) = IF 1 <= k THEN k - 1 + 1 ELSE 0
      /\ \A i \in 1 .. k - 1 + 1 : SubSeq(s, 1, k)[i] = s[1 + i - 1]
  <2>1. \A i \in 1 .. k : s[i] \in Leaves
    BY <1>1
  <2> QED BY <2>1, SubSeqProperties
<1>3. /\ SubSeq(s, k + 1, Len(s)) \in Seq(Leaves)
      /\ Len(SubSeq(s, k + 1, Len(s))) = IF k + 1 <= Len(s) THEN Len(s) - (k + 1) + 1 ELSE 0
      /\ \A i \in 1 .. Len(s) - (k + 1) + 1 : SubSeq(s, k + 1, Len(s))[i] = s[k + 1 + i - 1]
  <2>1. \A i \in k + 1 .. Len(s) : s[i] \in Leaves
    BY <1>1
  <2>2. k + 1 \in Int /\ Len(s) \in Int
    BY <1>1
  <2> QED BY <2>1, <2>2, SubSeqProperties
<1> QED BY <1>1, <1>2, <1>3 DEF CutAt, Before, From

(* The two sides of a tree that is cut.                                    *)
LEMMA Halves ==
    ASSUME NEW s \in Seq(Leaves), NEW k, Len(s) > 1, k = split_power(Len(s))
    PROVE  /\ Len(s) \in Nat /\ k \in 1 .. Len(s) - 1
           /\ Before(s, k) \in Seq(Leaves) /\ Len(Before(s, k)) = k
           /\ From(s, k) \in Seq(Leaves) /\ Len(From(s, k)) = Len(s) - k
<1>1. PICK n \in Nat : n = Len(s)
  BY Lengths
<1>2. k \in Nat /\ 1 <= k /\ k < n
  BY <1>1, Split
<1>3. CutAt(s, k)
  BY <1>1, <1>2, Cut
<1> QED BY <1>1, <1>2, <1>3 DEF CutAt

LEMMA SameCut ==
    ASSUME NEW s \in Seq(Leaves), NEW t \in Seq(Leaves), NEW k \in Nat,
           k <= Len(s), k <= Len(t), Before(s, k) = Before(t, k), From(s, k) = From(t, k)
    PROVE  s = t
<1>1. PICK n \in Nat : n = Len(s)
  BY Lengths
<1>2. PICK l \in Nat : l = Len(t)
  BY Lengths
<1>3. CutAt(s, k) /\ CutAt(t, k)
  BY Cut
<1>4. n = l
  BY <1>1, <1>2, <1>3 DEF CutAt
<1>5. ASSUME NEW i \in 1 .. n PROVE s[i] = t[i]
  <2>1. CASE i <= k
    BY <1>3, <2>1 DEF CutAt
  <2>2. CASE i > k
    <3>1. PICK j \in 1 .. n - k : i = k + j
      BY <2>2
    <3>2. From(s, k)[j] = s[k + j] /\ From(t, k)[j] = t[k + j]
      BY <1>1, <1>2, <1>3, <1>4 DEF CutAt
    <3> QED BY <3>1, <3>2
  <2> QED BY <2>1, <2>2
<1> QED BY <1>1, <1>2, <1>4, <1>5, SeqEqual

(* A prefix that goes past a cut is cut into the same left side and a      *)
(* prefix of the right one.                                                *)
LEMMA CutOfPrefix ==
    ASSUME NEW s \in Seq(Leaves), NEW k \in Nat, NEW m \in Nat, k <= m, m <= Len(s)
    PROVE  /\ Before(Before(s, m), k) = Before(s, k)
           /\ From(Before(s, m), k) = Before(From(s, k), m - k)
<1>1. PICK n \in Nat : n = Len(s)
  BY Lengths
<1>2. PICK d \in Nat : d = m - k
  OBVIOUS
<1>3. CutAt(s, k) /\ CutAt(s, m)
  BY <1>1, Cut
<1>4. PICK p \in Seq(Leaves) : p = Before(s, m) /\ Len(p) = m /\ \A i \in 1 .. m : p[i] = s[i]
  BY <1>3 DEF CutAt
<1>5. PICK r \in Seq(Leaves) :
          r = From(s, k) /\ Len(r) = n - k /\ \A i \in 1 .. n - k : r[i] = s[k + i]
  BY <1>1, <1>3 DEF CutAt
<1>6. CutAt(p, k) /\ CutAt(r, d)
  BY <1>1, <1>2, <1>4, <1>5, Cut
<1>7. Before(p, k) = Before(s, k)
  <2>1. \A i \in 1 .. k : Before(p, k)[i] = Before(s, k)[i]
    BY <1>3, <1>4, <1>6 DEF CutAt
  <2> QED BY <1>3, <1>6, <2>1, SeqEqual DEF CutAt
<1>8. From(p, k) = Before(r, d)
  <2>1. ASSUME NEW i \in 1 .. d PROVE From(p, k)[i] = Before(r, d)[i]
    <3>1. From(p, k)[i] = p[k + i]
      BY <1>2, <1>4, <1>6 DEF CutAt
    <3>2. p[k + i] = s[k + i]
      BY <1>2, <1>4
    <3>3. Before(r, d)[i] = r[i]
      BY <1>6 DEF CutAt
    <3>4. r[i] = s[k + i]
      BY <1>1, <1>2, <1>5
    <3> QED BY <3>1, <3>2, <3>3, <3>4
  <2>2. Len(From(p, k)) = d /\ Len(Before(r, d)) = d
    BY <1>2, <1>4, <1>6 DEF CutAt
  <2> QED BY <1>6, <2>1, <2>2, SeqEqual DEF CutAt
<1> QED BY <1>2, <1>4, <1>5, <1>7, <1>8

-----------------------------------------------------------------------------
(***************************************************************************)
(* Roots.                                                                  *)
(***************************************************************************)
LEMMA RootUnfolds == \A s \in Seq(Leaves) : merkle_root[s] = RootBody(merkle_root, s, 0, 0)
<1>1. Root!Contractive(0, 0)
  <2>1. SUFFICES ASSUME NEW s \in Seq(Leaves), NEW f, NEW g, Root!Agree(f, g, Len(s))
                 PROVE  RootBody(f, s, 0, 0) = RootBody(g, s, 0, 0)
    BY DEF Root!Contractive
  <2>2. CASE Len(s) > 1
    <3> DEFINE k == split_power(Len(s))
    <3>1. /\ Before(s, k) \in Seq(Leaves) /\ Len(Before(s, k)) < Len(s)
          /\ From(s, k) \in Seq(Leaves) /\ Len(From(s, k)) < Len(s)
      BY <2>2, Halves
    <3>2. f[Before(s, k)] = g[Before(s, k)] /\ f[From(s, k)] = g[From(s, k)]
      BY <2>1, <3>1 DEF Root!Agree
    <3> QED BY <3>2 DEF RootBody
  <2>3. CASE ~(Len(s) > 1)
    <3>1. s = <<>> \/ Len(s) = 1
      BY <2>3, Lengths
    <3> QED BY <3>1 DEF RootBody
  <2> QED BY <2>2, <2>3
<1>2. Root!Defines(merkle_root, 0, 0)
  BY DEF merkle_root, RootBody, Root!Defines
<1>3. Root!HasDepths
  BY Lengths DEF Root!HasDepths
<1>4. Root!Unfolded(merkle_root, 0, 0)
  BY <1>1, <1>2, <1>3, Root!Unfolds
<1> QED BY <1>4 DEF Root!Unfolded

(* No root is NoHash, so that a tree that is cut has its sides' pair.      *)
LEMMA Roots ==
    /\ merkle_root[<<>>] = EmptyRoot
    /\ \A s \in Seq(Leaves) : Len(s) = 1 => merkle_root[s] = <<s[1]>>
    /\ \A s \in Seq(Leaves) : Len(s) > 1 =>
           LET k == split_power(Len(s))
           IN  merkle_root[s] = <<merkle_root[Before(s, k)], merkle_root[From(s, k)]>>
    /\ \A s \in Seq(Leaves) : merkle_root[s] # NoHash
<1>1. merkle_root[<<>>] = EmptyRoot
  BY RootUnfolds, Lengths DEF RootBody
<1>2. ASSUME NEW s \in Seq(Leaves), Len(s) = 1 PROVE merkle_root[s] = <<s[1]>>
  <2>1. s # <<>>
    BY <1>2, Lengths
  <2> QED BY <1>2, <2>1, RootUnfolds DEF RootBody, Leaf
<1>3. ASSUME NEW s \in Seq(Leaves), Len(s) > 1
      PROVE  merkle_root[s] = Node(merkle_root[Before(s, split_power(Len(s)))],
                                   merkle_root[From(s, split_power(Len(s)))])
  <2>1. s # <<>> /\ Len(s) # 1
    BY <1>3, Lengths
  <2>2. merkle_root[s] = RootBody(merkle_root, s, 0, 0)
    BY RootUnfolds
  <2> QED BY <2>1, <2>2 DEF RootBody
<1>4. \A x, y : <<>> # NoHash /\ <<x>> # NoHash /\ <<x, y>> # NoHash
  BY DEF NoHash
<1>5. \A s \in Seq(Leaves) : merkle_root[s] # NoHash
  <2> DEFINE T == {n \in Nat : \E s \in Seq(Leaves) : Len(s) = n /\ merkle_root[s] = NoHash}
  <2>1. SUFFICES ASSUME T # {} PROVE FALSE
    BY Lengths
  <2>2. PICK n \in T : \A m \in T : n <= m
    BY <2>1, Root!Least
  <2>3. PICK s \in Seq(Leaves) : Len(s) = n /\ merkle_root[s] = NoHash
    BY <2>2
  <2>4. s # <<>> /\ Len(s) # 1
    BY <1>1, <1>2, <1>4, <2>3 DEF EmptyRoot
  <2>5. Len(s) > 1
    BY <2>4, Lengths
  <2> DEFINE k == split_power(Len(s))
  <2>6. /\ Before(s, k) \in Seq(Leaves) /\ Len(Before(s, k)) \in Nat /\ Len(Before(s, k)) < n
        /\ From(s, k) \in Seq(Leaves) /\ Len(From(s, k)) \in Nat /\ Len(From(s, k)) < n
    BY <2>3, <2>5, Halves
  <2>7. merkle_root[Before(s, k)] # NoHash /\ merkle_root[From(s, k)] # NoHash
    BY <2>2, <2>6
  <2> QED BY <1>3, <1>4, <2>3, <2>5, <2>7 DEF Node
<1>6. ASSUME NEW s \in Seq(Leaves), Len(s) > 1
      PROVE  merkle_root[s] = <<merkle_root[Before(s, split_power(Len(s)))],
                                merkle_root[From(s, split_power(Len(s)))]>>
  BY <1>3, <1>5, <1>6, Halves DEF Node
<1> QED BY <1>1, <1>2, <1>5, <1>6

(* The root fixes the log: two logs with one root are one.                 *)
THEOREM RootFixesLog ==
    ASSUME NEW s \in Seq(Leaves), NEW t \in Seq(Leaves), merkle_root[s] = merkle_root[t]
    PROVE  s = t
<1> DEFINE T == {n \in Nat : \E u, v \in Seq(Leaves) :
                     Len(u) = n /\ merkle_root[u] = merkle_root[v] /\ u # v}
<1>1. SUFFICES ASSUME T # {} PROVE FALSE
  BY Lengths
<1>2. PICK n \in T : \A m \in T : n <= m
  BY <1>1, Root!Least
<1>3. PICK u \in Seq(Leaves), v \in Seq(Leaves) :
          Len(u) = n /\ merkle_root[u] = merkle_root[v] /\ u # v
  BY <1>2
<1>4. \A w \in Seq(Leaves) : w = <<>> \/ Len(w) = 1 \/ Len(w) > 1
  BY Lengths
<1>5. ASSUME NEW w \in Seq(Leaves)
      PROVE  \E l \in 0 .. 2 :
                 /\ l = Len(merkle_root[w])
                 /\ l = 0 => w = <<>>
                 /\ l = 1 => Len(w) = 1
                 /\ l = 2 => Len(w) > 1
  <2>1. Len(<<>>) = 0 /\ \A x, y : Len(<<x>>) = 1 /\ Len(<<x, y>>) = 2
    OBVIOUS
  <2>2. CASE w = <<>>
    <3>1. 0 = Len(merkle_root[w])
      BY <2>1, <2>2, Roots DEF EmptyRoot
    <3> QED BY <2>2, <3>1
  <2>3. CASE Len(w) = 1
    <3>1. merkle_root[w] = <<w[1]>>
      BY <2>3, Roots
    <3>2. 1 = Len(merkle_root[w])
      BY <2>1, <3>1
    <3> QED BY <2>3, <3>2
  <2>4. CASE Len(w) > 1
    <3>1. PICK x, y : merkle_root[w] = <<x, y>>
      BY <2>4, Roots
    <3>2. 2 = Len(merkle_root[w])
      BY <2>1, <3>1
    <3> QED BY <2>4, <3>2
  <2> QED BY <1>4, <2>2, <2>3, <2>4
<1>6. \/ u = <<>> /\ v = <<>>
      \/ Len(u) = 1 /\ Len(v) = 1 /\ u[1] = v[1]
      \/ Len(u) > 1 /\ Len(v) > 1
  <2>1. \/ u = <<>> /\ v = <<>>
        \/ Len(u) = 1 /\ Len(v) = 1
        \/ Len(u) > 1 /\ Len(v) > 1
    <3>1. PICK l \in 0 .. 2 : /\ l = Len(merkle_root[u])
                              /\ l = 0 => u = <<>>
                              /\ l = 1 => Len(u) = 1
                              /\ l = 2 => Len(u) > 1
      BY <1>5
    <3>2. PICK k \in 0 .. 2 : /\ k = Len(merkle_root[v])
                              /\ k = 0 => v = <<>>
                              /\ k = 1 => Len(v) = 1
                              /\ k = 2 => Len(v) > 1
      BY <1>5
    <3>3. k = l
      BY <1>3, <3>1, <3>2
    <3> QED BY <3>1, <3>2, <3>3
  <2>2. Len(u) = 1 /\ Len(v) = 1 => <<u[1]>> = <<v[1]>>
    BY <1>3, Roots
  <2> QED BY <2>1, <2>2
<1>7. CASE Len(u) = 1 /\ Len(v) = 1 /\ u[1] = v[1]
  BY <1>3, <1>7, SeqEqual
<1>8. CASE Len(u) > 1 /\ Len(v) > 1
  <2> DEFINE k == split_power(Len(u))
             l == split_power(Len(v))
  <2>1. /\ k \in Nat /\ k < n /\ k <= Len(u) /\ n - k \in Nat /\ n - k < n
        /\ Before(u, k) \in Seq(Leaves) /\ Len(Before(u, k)) = k
        /\ From(u, k) \in Seq(Leaves) /\ Len(From(u, k)) = n - k
    BY <1>3, <1>8, Halves
  <2>2. /\ l \in Nat /\ l <= Len(v)
        /\ Before(v, l) \in Seq(Leaves) /\ Len(Before(v, l)) = l
        /\ From(v, l) \in Seq(Leaves)
    BY <1>8, Halves
  <2>3. /\ merkle_root[Before(u, k)] = merkle_root[Before(v, l)]
        /\ merkle_root[From(u, k)] = merkle_root[From(v, l)]
    BY <1>3, <1>8, Roots
  <2>4. k \notin T /\ n - k \notin T
    BY <1>2, <2>1
  <2>5. Before(u, k) = Before(v, l) /\ From(u, k) = From(v, l)
    BY <2>1, <2>2, <2>3, <2>4
  <2>6. k = l
    BY <2>1, <2>2, <2>5
  <2> QED BY <1>3, <2>1, <2>2, <2>5, <2>6, SameCut
<1> QED BY <1>3, <1>6, <1>7, <1>8

(* What a node has to be made of to be a root.                             *)
LEMMA NodeIsRoot ==
    ASSUME NEW s \in Seq(Leaves), Len(s) > 1, NEW l, NEW r, NEW k, k = split_power(Len(s))
    PROVE  Node(l, r) = merkle_root[s] <=>
               l = merkle_root[Before(s, k)] /\ r = merkle_root[From(s, k)]
<1>1. merkle_root[s] = <<merkle_root[Before(s, k)], merkle_root[From(s, k)]>>
  BY Roots
<1>2. /\ merkle_root[s] # NoHash
      /\ merkle_root[Before(s, k)] # NoHash /\ merkle_root[From(s, k)] # NoHash
  BY Roots, Halves
<1>3. CASE l = NoHash \/ r = NoHash
  BY <1>2, <1>3 DEF Node
<1>4. CASE l # NoHash /\ r # NoHash
  <2>1. Node(l, r) = <<l, r>>
    BY <1>4 DEF Node
  <2> QED BY <1>1, <2>1
<1> QED BY <1>3, <1>4

-----------------------------------------------------------------------------
(***************************************************************************)
(* Inclusion paths.                                                        *)
(***************************************************************************)
Hashes == {merkle_root[s] : s \in Seq(Leaves)}

(* The first n hashes of a path are those of q.                            *)
Begins(path, n, q) == n = Len(q) /\ \A j \in 1 .. n : path[j] = q[j]

LEMMA BeginsAppend ==
    ASSUME NEW H, NEW q \in Seq(H), NEW e \in H, NEW path, NEW n \in Nat
    PROVE  Begins(path, n, Append(q, e)) <=> n > 0 /\ Begins(path, n - 1, q) /\ path[n] = e
<1>1. PICK l \in Nat : l = Len(q) /\ l + 1 = Len(Append(q, e))
  BY LenProperties, AppendProperties
<1>2. (\A j \in 1 .. l : Append(q, e)[j] = q[j]) /\ Append(q, e)[l + 1] = e
  BY <1>1, AppendProperties
<1>3. CASE n = l + 1
  <2>1. \A j \in 1 .. l + 1 : j \in 1 .. l \/ j = l + 1
    OBVIOUS
  <2>2. n > 0 /\ n - 1 = l /\ n \in 1 .. n /\ 1 .. l \subseteq 1 .. n
    BY <1>3
  <2>3. Begins(path, n, Append(q, e)) <=>
            (\A j \in 1 .. l : path[j] = q[j]) /\ path[l + 1] = e
    BY <1>1, <1>2, <1>3, <2>1, <2>2 DEF Begins
  <2> QED BY <1>1, <1>3, <2>2, <2>3 DEF Begins
<1>4. CASE n # l + 1
  BY <1>1, <1>4 DEF Begins
<1> QED BY <1>3, <1>4

LEMMA InclusionUnfolds ==
    \A s \in Seq(Leaves) : inclusion_path[s] = InclusionBody(inclusion_path, s, 0, 0)
<1>1. Inclusion!Contractive(0, 0)
  <2>1. SUFFICES ASSUME NEW s \in Seq(Leaves), NEW f, NEW g, Inclusion!Agree(f, g, Len(s))
                 PROVE  InclusionBody(f, s, 0, 0) = InclusionBody(g, s, 0, 0)
    BY DEF Inclusion!Contractive
  <2>2. CASE Len(s) > 1
    <3> DEFINE k == split_power(Len(s))
    <3>1. /\ Before(s, k) \in Seq(Leaves) /\ Len(Before(s, k)) < Len(s)
          /\ From(s, k) \in Seq(Leaves) /\ Len(From(s, k)) < Len(s)
      BY <2>2, Halves
    <3>2. f[Before(s, k)] = g[Before(s, k)] /\ f[From(s, k)] = g[From(s, k)]
      BY <2>1, <3>1 DEF Inclusion!Agree
    <3> QED BY <3>2 DEF InclusionBody
  <2>3. CASE Len(s) = 1
    BY <2>3 DEF InclusionBody
  <2>4. CASE s = <<>>
    <3>1. 0 .. Len(s) - 1 = {}
      BY <2>4, Lengths
    <3> QED BY <3>1 DEF InclusionBody
  <2> QED BY <2>2, <2>3, <2>4, Lengths
<1>2. Inclusion!Defines(inclusion_path, 0, 0)
  BY DEF inclusion_path, InclusionBody, Inclusion!Defines
<1>3. Inclusion!HasDepths
  BY Lengths DEF Inclusion!HasDepths
<1>4. Inclusion!Unfolded(inclusion_path, 0, 0)
  BY <1>1, <1>2, <1>3, Inclusion!Unfolds
<1> QED BY <1>4 DEF Inclusion!Unfolded

LEMMA InclusionSteps ==
    ASSUME NEW s \in Seq(Leaves), NEW i \in Nat, i < Len(s)
    PROVE  /\ Len(s) = 1 => inclusion_path[s][i] = <<>>
           /\ Len(s) > 1 =>
                  LET k == split_power(Len(s))
                  IN  /\ i < k => inclusion_path[s][i] = Append(inclusion_path[Before(s, k)][i],
                                                                merkle_root[From(s, k)])
                      /\ i >= k => inclusion_path[s][i] = Append(inclusion_path[From(s, k)][i - k],
                                                                 merkle_root[Before(s, k)])
<1>1. PICK n \in Nat : n = Len(s)
  BY Lengths
<1>2. i \in 0 .. Len(s) - 1
  BY <1>1
<1>3. inclusion_path[s] = InclusionBody(inclusion_path, s, 0, 0)
  BY InclusionUnfolds
<1>4. Len(s) = 1 => inclusion_path[s][i] = <<>>
  BY <1>2, <1>3 DEF InclusionBody
<1>5. CASE Len(s) > 1
  <2> DEFINE k == split_power(Len(s))
  <2>1. k \in Nat /\ Len(s) # 1
    BY <1>1, <1>5, Halves
  <2>2. inclusion_path[s][i] =
            IF i < k THEN Append(inclusion_path[Before(s, k)][i], merkle_root[From(s, k)])
                     ELSE Append(inclusion_path[From(s, k)][i - k], merkle_root[Before(s, k)])
    BY <1>2, <1>3, <2>1 DEF InclusionBody
  <2> HIDE DEF k
  <2>3. /\ i < k => inclusion_path[s][i] = Append(inclusion_path[Before(s, k)][i],
                                                  merkle_root[From(s, k)])
        /\ i >= k => inclusion_path[s][i] = Append(inclusion_path[From(s, k)][i - k],
                                                   merkle_root[Before(s, k)])
    <3>1. CASE i < k
      BY <2>1, <2>2, <3>1
    <3>2. CASE ~(i < k)
      BY <2>1, <2>2, <3>2
    <3> QED BY <3>1, <3>2
  <2> QED BY <1>4, <1>5, <2>1, <2>3 DEF k
<1> QED BY <1>4, <1>5

(* The side of a cut tree that the leaf at i is in.                        *)
LEMMA Side ==
    ASSUME NEW s \in Seq(Leaves), NEW i \in Nat, i < Len(s), Len(s) > 1,
           NEW k, k = split_power(Len(s))
    PROVE  /\ i < k => i < Len(Before(s, k)) /\ Before(s, k)[i + 1] = s[i + 1]
           /\ i >= k => /\ i - k \in Nat /\ i - k < Len(From(s, k))
                        /\ From(s, k)[i - k + 1] = s[i + 1]
<1>1. PICK n \in Nat : n = Len(s)
  BY Lengths
<1>2. k \in Nat /\ k < n
  BY <1>1, Halves
<1>3. CutAt(s, k)
  BY <1>1, <1>2, Cut
<1>4. CASE i < k
  <2>1. i + 1 \in 1 .. k
    BY <1>2, <1>4
  <2> QED BY <1>2, <1>3, <1>4, <2>1 DEF CutAt
<1>5. CASE i >= k
  <2>1. PICK j \in Nat : j = i - k /\ j < n - k /\ j + 1 \in 1 .. n - k /\ k + (j + 1) = i + 1
    BY <1>1, <1>2, <1>5
  <2>2. From(s, k)[j + 1] = s[k + (j + 1)] /\ Len(From(s, k)) = n - k
    BY <1>1, <1>3, <2>1 DEF CutAt
  <2>3. i - k + 1 = j + 1 /\ ~(i < k)
    BY <1>2, <1>5, <2>1
  <2> QED BY <1>5, <2>1, <2>2, <2>3
<1> QED BY <1>2, <1>4, <1>5

LEMMA InclusionPathTyped ==
    \A s \in Seq(Leaves) : \A i \in Nat : i < Len(s) => inclusion_path[s][i] \in Seq(Hashes)
<1> DEFINE T == {n \in Nat : \E s \in Seq(Leaves) : \E i \in Nat :
                     Len(s) = n /\ i < n /\ inclusion_path[s][i] \notin Seq(Hashes)}
<1>1. SUFFICES ASSUME T # {} PROVE FALSE
  BY Lengths
<1>2. PICK n \in T : \A m \in T : n <= m
  BY <1>1, Root!Least
<1>3. PICK s \in Seq(Leaves), i \in Nat :
          Len(s) = n /\ i < n /\ inclusion_path[s][i] \notin Seq(Hashes)
  BY <1>2
<1>4. CASE Len(s) = 1
  BY <1>3, <1>4, InclusionSteps, EmptySeq
<1>5. CASE Len(s) > 1
  <2> DEFINE k == split_power(Len(s))
  <2>1. /\ Before(s, k) \in Seq(Leaves) /\ Len(Before(s, k)) \in Nat /\ Len(Before(s, k)) < n
        /\ From(s, k) \in Seq(Leaves) /\ Len(From(s, k)) \in Nat /\ Len(From(s, k)) < n
        /\ k \in Nat
    BY <1>3, <1>5, Halves
  <2>2. Len(Before(s, k)) \notin T /\ Len(From(s, k)) \notin T
    BY <1>2, <2>1
  <2>3. merkle_root[Before(s, k)] \in Hashes /\ merkle_root[From(s, k)] \in Hashes
    BY <2>1 DEF Hashes
  <2>4. CASE i < k
    <3>1. inclusion_path[Before(s, k)][i] \in Seq(Hashes)
      BY <1>3, <1>5, <2>1, <2>2, <2>4, Side
    <3>2. inclusion_path[s][i] = Append(inclusion_path[Before(s, k)][i], merkle_root[From(s, k)])
      BY <1>3, <1>5, <2>4, InclusionSteps
    <3> QED BY <1>3, <2>3, <3>1, <3>2, AppendProperties
  <2>5. CASE i >= k
    <3>1. i - k \in Nat /\ i - k < Len(From(s, k))
      BY <1>3, <1>5, <2>5, Side
    <3>2. inclusion_path[From(s, k)][i - k] \in Seq(Hashes)
      BY <2>1, <2>2, <3>1
    <3>3. inclusion_path[s][i] =
              Append(inclusion_path[From(s, k)][i - k], merkle_root[Before(s, k)])
      BY <1>3, <1>5, <2>5, InclusionSteps
    <3> QED BY <1>3, <2>3, <3>2, <3>3, AppendProperties
  <2> QED BY <2>1, <2>4, <2>5
<1> QED BY <1>2, <1>3, <1>4, <1>5, Lengths

(* The path to a leaf is the path on its side, and the other side's root.  *)
LEMMA InclusionSide ==
    ASSUME NEW s \in Seq(Leaves), NEW i \in Nat, i < Len(s), Len(s) > 1,
           NEW k, k = split_power(Len(s))
    PROVE  /\ i < k =>
                /\ inclusion_path[s][i] = Append(inclusion_path[Before(s, k)][i],
                                                 merkle_root[From(s, k)])
                /\ inclusion_path[Before(s, k)][i] \in Seq(Hashes)
           /\ i >= k =>
                /\ inclusion_path[s][i] = Append(inclusion_path[From(s, k)][i - k],
                                                 merkle_root[Before(s, k)])
                /\ inclusion_path[From(s, k)][i - k] \in Seq(Hashes)
<1>1. Before(s, k) \in Seq(Leaves) /\ From(s, k) \in Seq(Leaves)
  BY Halves
<1>2. CASE i < k
  <2>1. inclusion_path[Before(s, k)][i] \in Seq(Hashes)
    BY <1>1, <1>2, Side, InclusionPathTyped
  <2>2. inclusion_path[s][i] = Append(inclusion_path[Before(s, k)][i], merkle_root[From(s, k)])
    BY <1>2, InclusionSteps
  <2>3. ~(i >= k)
    BY <1>2, Halves
  <2> QED BY <2>1, <2>2, <2>3
<1>3. CASE i >= k
  <2>1. i - k \in Nat /\ i - k < Len(From(s, k))
    BY <1>3, Side
  <2>2. inclusion_path[From(s, k)][i - k] \in Seq(Hashes)
    BY <1>1, <2>1, InclusionPathTyped
  <2>3. inclusion_path[s][i] = Append(inclusion_path[From(s, k)][i - k], merkle_root[Before(s, k)])
    BY <1>3, InclusionSteps
  <2>4. ~(i < k)
    BY <1>3, Halves
  <2> QED BY <2>2, <2>3, <2>4
<1> QED BY <1>2, <1>3, Halves

LEMMA InclusionRootsUnfold ==
    ASSUME NEW leaf, NEW path, NEW n \in Nat \ {0}
    PROVE  inclusion_roots(leaf, path)[n] =
               InclusionRootsBody(inclusion_roots(leaf, path), n, leaf, path)
<1>1. FromLeaf!Contractive(leaf, path)
  <2>1. SUFFICES ASSUME NEW m \in Nat \ {0}, NEW f, NEW g, FromLeaf!Agree(f, g, m)
                 PROVE  InclusionRootsBody(f, m, leaf, path) = InclusionRootsBody(g, m, leaf, path)
    BY DEF FromLeaf!Contractive, Itself
  <2>2. CASE m > 1
    <3> DEFINE k == split_power(m)
    <3>1. k \in Nat \ {0} /\ k < m /\ m - k \in Nat \ {0} /\ m - k < m
      BY <2>2, Split
    <3>2. f[k] = g[k] /\ f[m - k] = g[m - k]
      BY <2>1, <3>1 DEF FromLeaf!Agree, Itself
    <3> QED BY <3>2 DEF InclusionRootsBody
  <2>3. CASE m = 1
    BY <2>3 DEF InclusionRootsBody
  <2> QED BY <2>2, <2>3
<1>2. FromLeaf!Defines(inclusion_roots(leaf, path), leaf, path)
  BY DEF inclusion_roots, InclusionRootsBody, FromLeaf!Defines
<1>3. FromLeaf!HasDepths
  BY DEF FromLeaf!HasDepths, Itself
<1>4. FromLeaf!Unfolded(inclusion_roots(leaf, path), leaf, path)
  BY <1>1, <1>2, <1>3, FromLeaf!Unfolds
<1> QED BY <1>4 DEF FromLeaf!Unfolded

LEMMA InclusionRootSteps ==
    ASSUME NEW leaf, NEW path, NEW i \in Nat, NEW left \in Nat, NEW R,
           R = inclusion_roots(leaf, path)
    PROVE  /\ R[1][i][left] = IF left = 0 THEN leaf ELSE NoHash
           /\ \A n \in Nat : n > 1 =>
                  R[n][i][left] =
                      IF left = 0 THEN NoHash
                      ELSE LET k == split_power(n)
                           IN  IF i < k
                               THEN Node(R[k][i][left - 1], path[left])
                               ELSE Node(path[left], R[n - k][i - k][left - 1])
<1>1. R[1] = InclusionRootsBody(R, 1, leaf, path)
  BY InclusionRootsUnfold
<1>2. ASSUME NEW n \in Nat, n > 1 PROVE R[n] = InclusionRootsBody(R, n, leaf, path) /\ n # 1
  BY <1>2, InclusionRootsUnfold
<1>3. R[1][i][left] = IF left = 0 THEN leaf ELSE NoHash
  BY <1>1 DEF InclusionRootsBody
<1>4. ASSUME NEW n \in Nat, n > 1
      PROVE  R[n][i][left] =
                 IF left = 0 THEN NoHash
                 ELSE LET k == split_power(n)
                      IN  IF i < k
                          THEN Node(R[k][i][left - 1], path[left])
                          ELSE Node(path[left], R[n - k][i - k][left - 1])
  <2>1. /\ R[n] = InclusionRootsBody(R, n, leaf, path)
        /\ n # 1
    BY <1>2, <1>4
  <2>2. CASE left = 0
    BY <2>1, <2>2 DEF InclusionRootsBody
  <2>3. CASE left # 0 /\ i < split_power(n)
    BY <2>1, <2>3 DEF InclusionRootsBody
  <2>4. CASE left # 0 /\ ~(i < split_power(n))
    BY <2>1, <2>4 DEF InclusionRootsBody
  <2> QED BY <2>2, <2>3, <2>4
<1> QED BY <1>3, <1>4

(* A path leads to the root of s from a leaf said to be at i exactly when  *)
(* it is the inclusion path of i and the leaf is the one at i.             *)
LEMMA InclusionRoots ==
    ASSUME NEW leaf, NEW path, NEW R, R = inclusion_roots(leaf, path)
    PROVE  \A s \in Seq(Leaves) : \A i, left \in Nat : i < Len(s) =>
               (R[Len(s)][i][left] = merkle_root[s] <=>
                    leaf = Leaf(s[i + 1]) /\ Begins(path, left, inclusion_path[s][i]))
<1> DEFINE Leads(n, s, i, left) ==
               R[n][i][left] = merkle_root[s] <=>
                   leaf = Leaf(s[i + 1]) /\ Begins(path, left, inclusion_path[s][i])
           T == {n \in Nat : \E s \in Seq(Leaves) : \E i, left \in Nat :
                     n = Len(s) /\ i < n /\ ~Leads(n, s, i, left)}
<1>1. SUFFICES ASSUME T # {} PROVE FALSE
  BY Lengths
<1>2. PICK n \in T : \A m \in T : n <= m
  BY <1>1, Root!Least
<1>3. PICK s \in Seq(Leaves), i \in Nat, left \in Nat :
          n = Len(s) /\ i < n /\ ~Leads(n, s, i, left)
  BY <1>2
<1>4. CASE n = 1
  <2>1. i = 0 /\ merkle_root[s] = Leaf(s[i + 1]) /\ inclusion_path[s][i] = <<>>
    <3>1. i = 0 /\ Len(s) = 1
      BY <1>3, <1>4
    <3>2. inclusion_path[s][i] = <<>>
      BY <1>3, <3>1, InclusionSteps
    <3> QED BY <3>1, <3>2, Roots DEF Leaf
  <2>2. R[n][i][left] = IF left = 0 THEN leaf ELSE NoHash
    BY <1>4, InclusionRootSteps
  <2>3. merkle_root[s] # NoHash
    BY Roots
  <2>4. Begins(path, left, <<>>) <=> left = 0
    BY DEF Begins
  <2> QED BY <1>3, <2>1, <2>2, <2>3, <2>4
<1>5. CASE n > 1
  <2>1. PICK k : k = split_power(Len(s))
    OBVIOUS
  <2>2. /\ n \in Nat /\ k \in Nat /\ 0 < k /\ k < n
        /\ Before(s, k) \in Seq(Leaves) /\ Len(Before(s, k)) = k
        /\ From(s, k) \in Seq(Leaves) /\ Len(From(s, k)) = n - k
    BY <1>3, <1>5, <2>1, Halves
  <2>3. \A m \in Nat : m < n =>
            \A t \in Seq(Leaves) : \A j, l \in Nat : m = Len(t) /\ j < m => Leads(m, t, j, l)
    BY <1>2
  <2>4. merkle_root[Before(s, k)] \in Hashes /\ merkle_root[From(s, k)] \in Hashes
    BY <2>2 DEF Hashes
  <2> HIDE DEF Leads, T
  <2>5. CASE left = 0
    <3>1. R[n][i][left] = NoHash /\ merkle_root[s] # NoHash
      BY <1>3, <1>5, <2>5, InclusionRootSteps, Roots
    <3>2. PICK q \in Seq(Hashes), h \in Hashes : inclusion_path[s][i] = Append(q, h)
      <4>1. CASE i < k
        <5>1. /\ inclusion_path[s][i] = Append(inclusion_path[Before(s, k)][i],
                                               merkle_root[From(s, k)])
              /\ inclusion_path[Before(s, k)][i] \in Seq(Hashes)
          BY <1>3, <1>5, <2>1, <4>1, InclusionSide
        <5> QED BY <2>4, <5>1
      <4>2. CASE i >= k
        <5>1. /\ inclusion_path[s][i] = Append(inclusion_path[From(s, k)][i - k],
                                               merkle_root[Before(s, k)])
              /\ inclusion_path[From(s, k)][i - k] \in Seq(Hashes)
          BY <1>3, <1>5, <2>1, <4>2, InclusionSide
        <5> QED BY <2>4, <5>1
      <4> QED BY <2>2, <4>1, <4>2
    <3>3. Len(Append(q, h)) # 0
      BY LenProperties, AppendProperties
    <3>4. ~Begins(path, 0, inclusion_path[s][i])
      BY <3>2, <3>3 DEF Begins
    <3> QED BY <1>3, <2>5, <3>1, <3>4 DEF Leads
  <2>6. CASE left > 0 /\ i < k
    <3>1. /\ inclusion_path[s][i] = Append(inclusion_path[Before(s, k)][i],
                                           merkle_root[From(s, k)])
          /\ inclusion_path[Before(s, k)][i] \in Seq(Hashes)
      BY <1>3, <1>5, <2>1, <2>6, InclusionSide
    <3>2. Before(s, k)[i + 1] = s[i + 1]
      BY <1>3, <1>5, <2>1, <2>6, Side
    <3>3. R[n][i][left] = Node(R[k][i][left - 1], path[left])
      BY <1>3, <1>5, <2>1, <2>6, InclusionRootSteps
    <3>4. R[n][i][left] = merkle_root[s] <=>
              R[k][i][left - 1] = merkle_root[Before(s, k)] /\ path[left] = merkle_root[From(s, k)]
      BY <1>3, <1>5, <2>1, <3>3, NodeIsRoot
    <3>5. left - 1 \in Nat
      BY <2>6
    <3>6. Leads(k, Before(s, k), i, left - 1)
      BY <2>2, <2>3, <2>6, <3>5
    <3>7. Begins(path, left, inclusion_path[s][i]) <=>
              /\ Begins(path, left - 1, inclusion_path[Before(s, k)][i])
              /\ path[left] = merkle_root[From(s, k)]
      BY <2>4, <2>6, <3>1, BeginsAppend
    <3> QED BY <1>3, <3>2, <3>4, <3>6, <3>7 DEF Leads
  <2>7. CASE left > 0 /\ i >= k
    <3>1. PICK j \in Nat : j = i - k /\ j < n - k
      BY <1>3, <2>2, <2>7
    <3>2. /\ inclusion_path[s][i] = Append(inclusion_path[From(s, k)][j],
                                           merkle_root[Before(s, k)])
          /\ inclusion_path[From(s, k)][j] \in Seq(Hashes)
      BY <1>3, <1>5, <2>1, <2>7, <3>1, InclusionSide
    <3>3. From(s, k)[j + 1] = s[i + 1]
      BY <1>3, <1>5, <2>1, <2>7, <3>1, Side
    <3>4. R[n][i][left] = Node(path[left], R[n - k][j][left - 1])
      <4>1. ~(i < k) /\ left # 0
        <5>1. ~(i < k)
          BY <2>2, <2>7
        <5>2. left # 0
          BY <2>7
        <5> QED BY <5>1, <5>2
      <4> QED BY <1>3, <1>5, <2>1, <3>1, <4>1, InclusionRootSteps
    <3>5. R[n][i][left] = merkle_root[s] <=>
              /\ path[left] = merkle_root[Before(s, k)]
              /\ R[n - k][j][left - 1] = merkle_root[From(s, k)]
      BY <1>3, <1>5, <2>1, <3>4, NodeIsRoot
    <3>6. left - 1 \in Nat /\ n - k \in Nat /\ n - k < n
      BY <2>2, <2>7
    <3>7. Leads(n - k, From(s, k), j, left - 1)
      BY <2>2, <2>3, <3>1, <3>6
    <3>8. Begins(path, left, inclusion_path[s][i]) <=>
              /\ Begins(path, left - 1, inclusion_path[From(s, k)][j])
              /\ path[left] = merkle_root[Before(s, k)]
      BY <2>4, <2>7, <3>2, BeginsAppend
    <3> QED BY <1>3, <3>3, <3>5, <3>7, <3>8 DEF Leads
  <2> QED BY <2>2, <2>5, <2>6, <2>7
<1> QED BY <1>2, <1>3, <1>4, <1>5

(* root_from_inclusion, for a log s, a leaf said to be at index of a tree  *)
(* as long as s, and any path: it finds the root of s exactly when the     *)
(* leaf is that of s there and the path is the one inclusion_path gives.   *)
THEOREM InclusionPathUnique ==
    ASSUME NEW s \in Seq(Leaves), NEW index \in Nat, NEW leaf, NEW H, NEW path \in Seq(H)
    PROVE  root_from_inclusion(leaf, index, Len(s), path) = merkle_root[s] <=>
               /\ index < Len(s)
               /\ leaf = Leaf(s[index + 1])
               /\ path = inclusion_path[s][index]
<1>1. PICK n \in Nat : n = Len(s)
  BY Lengths
<1>2. CASE ~(index < n)
  <2>1. root_from_inclusion(leaf, index, Len(s), path) = NoHash
    BY <1>1, <1>2 DEF root_from_inclusion
  <2> QED BY <1>1, <1>2, <2>1, Roots
<1>3. CASE index < n
  <2>1. root_from_inclusion(leaf, index, Len(s), path) =
            inclusion_roots(leaf, path)[Len(s)][index][Len(path)]
    BY <1>1, <1>3 DEF root_from_inclusion
  <2>2. Len(path) \in Nat
    BY LenProperties
  <2>3. root_from_inclusion(leaf, index, Len(s), path) = merkle_root[s] <=>
            leaf = Leaf(s[index + 1]) /\ Begins(path, Len(path), inclusion_path[s][index])
    BY <1>1, <1>3, <2>1, <2>2, InclusionRoots
  <2>4. inclusion_path[s][index] \in Seq(Hashes)
    BY <1>1, <1>3, InclusionPathTyped
  <2>5. inclusion_path[s][index] \in Seq(H \cup Hashes) /\ path \in Seq(H \cup Hashes)
    BY <2>4, SeqMonotonic
  <2>6. Begins(path, Len(path), inclusion_path[s][index]) <=> path = inclusion_path[s][index]
    BY <2>5, SeqEqual DEF Begins
  <2> QED BY <1>1, <1>3, <2>3, <2>6
<1> QED BY <1>2, <1>3

-----------------------------------------------------------------------------
(***************************************************************************)
(* Consistency paths.                                                      *)
(***************************************************************************)
LEMMA ConsistencyUnfolds ==
    \A s \in Seq(Leaves) : consistency_path[s] = ConsistencyBody(consistency_path, s, 0, 0)
<1>1. Consistency!Contractive(0, 0)
  <2>1. SUFFICES ASSUME NEW s \in Seq(Leaves), NEW f, NEW g, Consistency!Agree(f, g, Len(s))
                 PROVE  ConsistencyBody(f, s, 0, 0) = ConsistencyBody(g, s, 0, 0)
    BY DEF Consistency!Contractive
  <2>2. CASE Len(s) > 1
    <3> DEFINE k == split_power(Len(s))
    <3>1. /\ Before(s, k) \in Seq(Leaves) /\ Len(Before(s, k)) < Len(s)
          /\ From(s, k) \in Seq(Leaves) /\ Len(From(s, k)) < Len(s)
      BY <2>2, Halves
    <3>2. f[Before(s, k)] = g[Before(s, k)] /\ f[From(s, k)] = g[From(s, k)]
      BY <2>1, <3>1 DEF Consistency!Agree
    <3> QED BY <3>2 DEF ConsistencyBody
  <2>3. CASE s = <<>> \/ Len(s) = 1
    <3>1. \A first \in 0 .. Len(s) : first = 0 \/ first = Len(s)
      BY <2>3, Lengths
    <3> QED BY <3>1 DEF ConsistencyBody
  <2> QED BY <2>2, <2>3, Lengths
<1>2. Consistency!Defines(consistency_path, 0, 0)
  BY DEF consistency_path, ConsistencyBody, Consistency!Defines
<1>3. Consistency!HasDepths
  BY Lengths DEF Consistency!HasDepths
<1>4. Consistency!Unfolded(consistency_path, 0, 0)
  BY <1>1, <1>2, <1>3, Consistency!Unfolds
<1> QED BY <1>4 DEF Consistency!Unfolded

LEMMA ConsistencySteps ==
    ASSUME NEW s \in Seq(Leaves), NEW m \in Nat, 0 < m, m <= Len(s), NEW seed \in BOOLEAN
    PROVE  /\ m = Len(s) =>
                  consistency_path[s][m][seed] = IF seed THEN <<>> ELSE <<merkle_root[s]>>
           /\ m < Len(s) =>
                  LET k == split_power(Len(s))
                  IN  consistency_path[s][m][seed] =
                          IF m <= k
                          THEN Append(consistency_path[Before(s, k)][m][seed],
                                      merkle_root[From(s, k)])
                          ELSE Append(consistency_path[From(s, k)][m - k][FALSE],
                                      merkle_root[Before(s, k)])
<1>1. PICK n \in Nat : n = Len(s)
  BY Lengths
<1>2. m \in 0 .. Len(s) /\ m # 0
  BY <1>1
<1>3. consistency_path[s] = ConsistencyBody(consistency_path, s, 0, 0)
  BY ConsistencyUnfolds
<1>4. consistency_path[s][m][seed] =
          IF m = Len(s) THEN IF seed THEN <<>> ELSE <<merkle_root[s]>>
          ELSE LET k == split_power(Len(s))
               IN  IF m <= k
                   THEN Append(consistency_path[Before(s, k)][m][seed],
                               merkle_root[From(s, k)])
                   ELSE Append(consistency_path[From(s, k)][m - k][FALSE],
                               merkle_root[Before(s, k)])
  BY <1>2, <1>3 DEF ConsistencyBody
<1>5. m < Len(s) => m # Len(s)
  BY <1>1
<1> QED BY <1>4, <1>5

LEMMA ConsistencyRootsUnfold ==
    ASSUME NEW firstRoot, NEW path, NEW n \in Nat \ {0}
    PROVE  consistency_roots(firstRoot, path)[n] =
               ConsistencyRootsBody(consistency_roots(firstRoot, path), n, firstRoot, path)
<1>1. FromRoot!Contractive(firstRoot, path)
  <2>1. SUFFICES ASSUME NEW l \in Nat \ {0}, NEW f, NEW g, FromRoot!Agree(f, g, l)
                 PROVE  ConsistencyRootsBody(f, l, firstRoot, path) =
                            ConsistencyRootsBody(g, l, firstRoot, path)
    BY DEF FromRoot!Contractive, Itself
  <2>2. CASE l > 1
    <3> DEFINE k == split_power(l)
    <3>1. k \in Nat \ {0} /\ k < l /\ l - k \in Nat \ {0} /\ l - k < l
      BY <2>2, Split
    <3>2. f[k] = g[k] /\ f[l - k] = g[l - k]
      BY <2>1, <3>1 DEF FromRoot!Agree, Itself
    <3>3. \A m, seed, at : ConsistencyRootsAt(f, l, m, seed, at, firstRoot, path) =
                           ConsistencyRootsAt(g, l, m, seed, at, firstRoot, path)
      BY <3>2 DEF ConsistencyRootsAt
    <3> QED BY <3>3 DEF ConsistencyRootsBody
  <2>3. CASE l = 1
    <3>1. \A m \in 1 .. l : m = l
      BY <2>3
    <3>2. ASSUME NEW m \in 1 .. l, NEW seed \in BOOLEAN, NEW at \in Nat
          PROVE  ConsistencyRootsAt(f, l, m, seed, at, firstRoot, path) =
                 ConsistencyRootsAt(g, l, m, seed, at, firstRoot, path)
      <4>1. m = l
        BY <3>1
      <4>2. CASE seed
        BY <4>1, <4>2 DEF ConsistencyRootsAt
      <4>3. CASE ~seed
        BY <4>1, <4>3 DEF ConsistencyRootsAt
      <4> QED BY <4>2, <4>3
    <3> QED BY <3>2 DEF ConsistencyRootsBody
  <2> QED BY <2>2, <2>3
<1>2. FromRoot!Defines(consistency_roots(firstRoot, path), firstRoot, path)
  BY DEF consistency_roots, ConsistencyRootsBody, ConsistencyRootsAt, FromRoot!Defines
<1>3. FromRoot!HasDepths
  BY DEF FromRoot!HasDepths, Itself
<1>4. FromRoot!Unfolded(consistency_roots(firstRoot, path), firstRoot, path)
  BY <1>1, <1>2, <1>3, FromRoot!Unfolds
<1> QED BY <1>4 DEF FromRoot!Unfolded

LEMMA RootsAreRead ==
    ASSUME NEW firstRoot, NEW path, NEW R, R = consistency_roots(firstRoot, path),
           NEW n \in Nat, NEW m \in 1 .. n, NEW seed \in BOOLEAN, NEW at \in Nat
    PROVE  R[n][m][seed][at] = ConsistencyRootsAt(R, n, m, seed, at, firstRoot, path)
<1>1. n \in Nat \ {0}
  OBVIOUS
<1>2. R[n] = ConsistencyRootsBody(R, n, firstRoot, path)
  BY <1>1, ConsistencyRootsUnfold
<1> QED BY <1>2 DEF ConsistencyRootsBody

(* The whole tree: from the first root, or from the path.                  *)
LEMMA RootsOfWhole ==
    ASSUME NEW firstRoot, NEW path, NEW R, R = consistency_roots(firstRoot, path),
           NEW n \in Nat, n > 0, NEW seed \in BOOLEAN, NEW at \in Nat
    PROVE  R[n][n][seed][at] =
               IF seed THEN [old |-> firstRoot, new |-> firstRoot, used |-> at]
               ELSE IF at >= Len(path) THEN TooShort(path)
               ELSE [old |-> path[at + 1], new |-> path[at + 1], used |-> at + 1]
<1>1. n \in 1 .. n
  OBVIOUS
<1>2. R[n][n][seed][at] = ConsistencyRootsAt(R, n, n, seed, at, firstRoot, path)
  BY <1>1, RootsAreRead
<1> QED BY <1>2 DEF ConsistencyRootsAt

(* The next hash of the path is the sibling on the right, or on the left,  *)
(* of the tree whose roots are sub.                                        *)
SiblingRight(r, sub, path) ==
    r = IF sub.used >= Len(path) THEN TooShort(path)
        ELSE [old |-> sub.old,
              new |-> Node(sub.new, path[sub.used + 1]),
              used |-> sub.used + 1]

SiblingLeft(r, sub, path) ==
    r = IF sub.used >= Len(path) THEN TooShort(path)
        ELSE [old |-> Node(path[sub.used + 1], sub.old),
              new |-> Node(path[sub.used + 1], sub.new),
              used |-> sub.used + 1]

(* A prefix that ends in the left side, and one that ends in the right.    *)
LEMMA RootsFromLeft ==
    ASSUME NEW firstRoot, NEW path, NEW R, R = consistency_roots(firstRoot, path),
           NEW n \in Nat, NEW m \in 1 .. n, m < n, NEW seed \in BOOLEAN, NEW at \in Nat,
           NEW k \in Nat, k = split_power(n), m <= k
    PROVE  SiblingRight(R[n][m][seed][at], R[k][m][seed][at], path)
<1>1. R[n][m][seed][at] = ConsistencyRootsAt(R, n, m, seed, at, firstRoot, path) /\ m # n
  BY RootsAreRead
<1> QED BY <1>1 DEF ConsistencyRootsAt, SiblingRight

LEMMA RootsFromRight ==
    ASSUME NEW firstRoot, NEW path, NEW R, R = consistency_roots(firstRoot, path),
           NEW n \in Nat, NEW m \in 1 .. n, m < n, NEW seed \in BOOLEAN, NEW at \in Nat,
           NEW k \in Nat, k = split_power(n), k < m
    PROVE  SiblingLeft(R[n][m][seed][at], R[n - k][m - k][FALSE][at], path)
<1>1. /\ R[n][m][seed][at] = ConsistencyRootsAt(R, n, m, seed, at, firstRoot, path)
      /\ m # n /\ ~(m <= k)
  BY RootsAreRead
<1> QED BY <1>1 DEF ConsistencyRootsAt, SiblingLeft

LEMMA ConsistencyPathTyped ==
    \A s \in Seq(Leaves) : \A m \in Nat : \A seed \in BOOLEAN : 0 < m /\ m <= Len(s) =>
        consistency_path[s][m][seed] \in Seq(Hashes)
<1> DEFINE T == {n \in Nat : \E s \in Seq(Leaves) : \E m \in Nat : \E seed \in BOOLEAN :
                     /\ n = Len(s) /\ 0 < m /\ m <= n
                     /\ consistency_path[s][m][seed] \notin Seq(Hashes)}
<1>1. SUFFICES ASSUME T # {} PROVE FALSE
  BY Lengths
<1>2. PICK n \in T : \A m \in T : n <= m
  BY <1>1, Root!Least
<1>3. PICK s \in Seq(Leaves), m \in Nat, seed \in BOOLEAN :
          n = Len(s) /\ 0 < m /\ m <= n /\ consistency_path[s][m][seed] \notin Seq(Hashes)
  BY <1>2
<1>4. CASE m = n
  <2>1. consistency_path[s][m][seed] = IF seed THEN <<>> ELSE <<merkle_root[s]>>
    BY <1>3, <1>4, ConsistencySteps
  <2>2. merkle_root[s] \in Hashes
    BY DEF Hashes
  <2>3. <<>> \in Seq(Hashes) /\ <<merkle_root[s]>> \in Seq(Hashes)
    BY <2>2
  <2> QED BY <1>3, <2>1, <2>3
<1>5. CASE m < n
  <2>1. PICK k : k = split_power(Len(s))
    OBVIOUS
  <2>2. Len(s) > 1
    BY <1>3, <1>5
  <2>3. /\ n \in Nat /\ k \in Nat /\ 0 < k /\ k < n
        /\ Before(s, k) \in Seq(Leaves) /\ k = Len(Before(s, k))
        /\ From(s, k) \in Seq(Leaves) /\ n - k = Len(From(s, k))
    BY <1>3, <2>1, <2>2, Halves
  <2>4. n - k \in Nat /\ n - k < n
    BY <2>3
  <2>5. k \notin T /\ n - k \notin T
    <3> HIDE DEF T
    <3> QED BY <1>2, <2>3, <2>4
  <2>6. merkle_root[Before(s, k)] \in Hashes /\ merkle_root[From(s, k)] \in Hashes
    BY <2>3 DEF Hashes
  <2>7. CASE m <= k
    <3>1. PICK q : q = consistency_path[Before(s, k)][m][seed]
      OBVIOUS
    <3>2. q \in Seq(Hashes)
      BY <1>3, <2>3, <2>5, <2>7, <3>1
    <3>3. consistency_path[s][m][seed] = Append(q, merkle_root[From(s, k)])
      BY <1>3, <1>5, <2>1, <2>7, <3>1, ConsistencySteps
    <3>4. Append(q, merkle_root[From(s, k)]) \in Seq(Hashes)
      BY <2>6, <3>2, AppendProperties
    <3> QED BY <1>3, <3>3, <3>4
  <2>8. CASE ~(m <= k)
    <3>1. PICK j \in Nat : j = m - k /\ 0 < j /\ j <= n - k
      BY <1>3, <2>3, <2>8
    <3>2. PICK q : q = consistency_path[From(s, k)][j][FALSE]
      OBVIOUS
    <3>3. q \in Seq(Hashes)
      <4>1. FALSE \in BOOLEAN
        OBVIOUS
      <4> QED BY <2>3, <2>4, <2>5, <3>1, <3>2, <4>1
    <3>4. consistency_path[s][m][seed] = Append(q, merkle_root[Before(s, k)])
      BY <1>3, <1>5, <2>1, <2>8, <3>1, <3>2, ConsistencySteps
    <3>5. Append(q, merkle_root[Before(s, k)]) \in Seq(Hashes)
      BY <2>6, <3>3, AppendProperties
    <3> QED BY <1>3, <3>4, <3>5
  <2> QED BY <2>7, <2>8
<1> QED BY <1>2, <1>3, <1>4, <1>5

(* A consistency path is the one on the side that the prefix ends in, and  *)
(* the other side's root; the prefix is cut where the log is, or not at    *)
(* all.                                                                    *)
EndsLeft(s, m, seed, k) ==
    /\ consistency_path[s][m][seed] = Append(consistency_path[Before(s, k)][m][seed],
                                             merkle_root[From(s, k)])
    /\ consistency_path[Before(s, k)][m][seed] \in Seq(Hashes)
    /\ Before(Before(s, k), m) = Before(s, m)

EndsRight(s, m, seed, k, j) ==
    /\ consistency_path[s][m][seed] = Append(consistency_path[From(s, k)][j][FALSE],
                                             merkle_root[Before(s, k)])
    /\ consistency_path[From(s, k)][j][FALSE] \in Seq(Hashes)
    /\ merkle_root[Before(s, m)] =
           Node(merkle_root[Before(s, k)], merkle_root[Before(From(s, k), j)])

LEMMA ConsistencySide ==
    ASSUME NEW s \in Seq(Leaves), NEW m \in Nat, NEW n \in Nat, n = Len(s),
           0 < m, m < n, NEW seed \in BOOLEAN,
           NEW k \in Nat, k = split_power(n), NEW j \in Nat
    PROVE  /\ m <= k => EndsLeft(s, m, seed, k)
           /\ k + j = m /\ k < m => EndsRight(s, m, seed, k, j)
<1>1. n > 1 /\ k = split_power(Len(s)) /\ m < Len(s) /\ m <= Len(s) /\ Len(s) > 1
  OBVIOUS
<1>2. /\ 1 <= k /\ k < n
      /\ Before(s, k) \in Seq(Leaves) /\ Len(Before(s, k)) = k
      /\ From(s, k) \in Seq(Leaves) /\ Len(From(s, k)) = n - k
  BY <1>1, Halves
<1>3. consistency_path[s][m][seed] =
          IF m <= k THEN Append(consistency_path[Before(s, k)][m][seed],
                                merkle_root[From(s, k)])
                    ELSE Append(consistency_path[From(s, k)][m - k][FALSE],
                                merkle_root[Before(s, k)])
  BY <1>1, ConsistencySteps
<1>4. ASSUME m <= k PROVE EndsLeft(s, m, seed, k)
  <2>1. Before(Before(s, k), m) = Before(s, m)
    BY <1>1, <1>2, <1>4, CutOfPrefix
  <2>2. consistency_path[Before(s, k)][m][seed] \in Seq(Hashes)
    BY <1>2, <1>4, ConsistencyPathTyped
  <2> QED BY <1>3, <1>4, <2>1, <2>2 DEF EndsLeft
<1>5. ASSUME k + j = m, k < m PROVE EndsRight(s, m, seed, k, j)
  <2>1. j = m - k /\ 0 < j /\ j <= n - k /\ k <= m /\ ~(m <= k)
    BY <1>1, <1>2, <1>5
  <2>2. FALSE \in BOOLEAN
    OBVIOUS
  <2>3. consistency_path[From(s, k)][j][FALSE] \in Seq(Hashes)
    BY <1>2, <2>1, <2>2, ConsistencyPathTyped
  <2>4. consistency_path[s][m][seed] = Append(consistency_path[From(s, k)][j][FALSE],
                                              merkle_root[Before(s, k)])
    BY <1>3, <2>1
  <2>5. PICK t \in Seq(Leaves) : t = Before(s, m) /\ m = Len(t)
    <3>1. CutAt(s, m)
      BY <1>1, Cut
    <3> QED BY <3>1 DEF CutAt
  <2>6. Before(t, k) = Before(s, k) /\ From(t, k) = Before(From(s, k), j)
    BY <1>1, <1>2, <2>1, <2>5, CutOfPrefix
  <2>7. k = split_power(Len(t)) /\ Len(t) > 1
    <3>1. k < m /\ m <= n /\ 1 < n /\ m > 1
      BY <1>1, <1>2, <1>5
    <3>2. split_power(m) = split_power(n)
      BY <3>1, Split
    <3> QED BY <2>5, <3>1, <3>2
  <2>8. merkle_root[t] = Node(merkle_root[Before(t, k)], merkle_root[From(t, k)])
    BY <2>7, NodeIsRoot
  <2> QED BY <2>3, <2>4, <2>5, <2>6, <2>8 DEF EndsRight
<1> QED BY <1>4, <1>5

(* q is what path holds after its first at hashes.                         *)
Window(path, at, q) == \A j \in 1 .. Len(q) : path[at + j] = q[j]

LEMMA WindowAppend ==
    ASSUME NEW H, NEW q \in Seq(H), NEW e \in H, NEW path, NEW at \in Nat
    PROVE  \E l \in Nat :
               /\ l = Len(q) /\ l + 1 = Len(Append(q, e))
               /\ Window(path, at, Append(q, e)) <=> Window(path, at, q) /\ path[at + l + 1] = e
<1>1. PICK l \in Nat : l = Len(q) /\ l + 1 = Len(Append(q, e))
  BY LenProperties, AppendProperties
<1>2. (\A j \in 1 .. l : Append(q, e)[j] = q[j]) /\ Append(q, e)[l + 1] = e
  BY <1>1, AppendProperties
<1>3. 1 .. l + 1 = 1 .. l \cup {l + 1}
  OBVIOUS
<1>4. Window(path, at, Append(q, e)) <=>
          /\ \A j \in 1 .. l : path[at + j] = Append(q, e)[j]
          /\ path[at + (l + 1)] = Append(q, e)[l + 1]
  BY <1>1, <1>3 DEF Window
<1>5. at + (l + 1) = at + l + 1
  OBVIOUS
<1> QED BY <1>1, <1>2, <1>4, <1>5 DEF Window

(* All of q is on path after its first at hashes.                          *)
Fits(path, at, q) == at + Len(q) <= Len(path) /\ Window(path, at, q)

LEMMA FitsAppend ==
    ASSUME NEW H, NEW q \in Seq(H), NEW e \in H, NEW path, Len(path) \in Nat, NEW at \in Nat
    PROVE  /\ Len(q) \in Nat /\ Len(Append(q, e)) = Len(q) + 1
           /\ Fits(path, at, Append(q, e)) <=>
                  /\ Fits(path, at, q)
                  /\ at + Len(q) < Len(path) /\ path[at + Len(q) + 1] = e
<1>1. PICK l \in Nat :
          /\ l = Len(q) /\ l + 1 = Len(Append(q, e))
          /\ Window(path, at, Append(q, e)) <=> Window(path, at, q) /\ path[at + l + 1] = e
  BY WindowAppend
<1>2. PICK n \in Nat : n = Len(path)
  OBVIOUS
<1>3. at + (l + 1) <= n <=> at + l <= n /\ at + l < n
  OBVIOUS
<1> QED BY <1>1, <1>2, <1>3 DEF Fits

(* The roots r read off path are new and old exactly when the path holds   *)
(* q; seeded is whether the first root, when it is used, is the right one. *)
ReadsAs(r, path, at, q, new, old, seeded) ==
    /\ r.new = new => Fits(path, at, q) /\ r.used = at + Len(q) /\ r.old = old
    /\ Fits(path, at, q) /\ seeded => r.new = new

LEMMA ReadsLeft ==
    ASSUME NEW s \in Seq(Leaves), Len(s) > 1, NEW k, k = split_power(Len(s)),
           NEW H, NEW q \in Seq(H), NEW e \in H, e = merkle_root[From(s, k)],
           NEW path, Len(path) \in Nat, NEW at \in Nat, NEW old, NEW seeded \in BOOLEAN, NEW sub,
           ReadsAs(sub, path, at, q, merkle_root[Before(s, k)], old, seeded),
           NEW r, SiblingRight(r, sub, path)
    PROVE  ReadsAs(r, path, at, Append(q, e), merkle_root[s], old, seeded)
<1>1. PICK l \in Nat :
          /\ l = Len(q) /\ l + 1 = Len(Append(q, e))
          /\ Fits(path, at, Append(q, e)) <=>
                 Fits(path, at, q) /\ at + l < Len(path) /\ path[at + l + 1] = e
  <2>1. PICK l \in Nat : l = Len(q)
    BY LenProperties
  <2>2. Len(q) \in Nat /\ Len(Append(q, e)) = Len(q) + 1
    BY FitsAppend
  <2>3. Fits(path, at, Append(q, e)) <=>
            /\ Fits(path, at, q)
            /\ at + Len(q) < Len(path) /\ path[at + Len(q) + 1] = e
    BY FitsAppend
  <2> QED BY <2>1, <2>2, <2>3
<1>2. PICK n \in Nat : n = Len(path)
  OBVIOUS
<1>3. ASSUME r.new = merkle_root[s]
      PROVE  /\ Fits(path, at, Append(q, e)) /\ r.used = at + Len(Append(q, e)) /\ r.old = old
  <2>1. CASE sub.used >= Len(path)
    BY <1>3, <2>1, Roots DEF TooShort, SiblingRight
  <2>2. CASE ~(sub.used >= Len(path))
    <3>1. r = [old |-> sub.old, new |-> Node(sub.new, path[sub.used + 1]), used |-> sub.used + 1]
      BY <2>2 DEF SiblingRight
    <3>2. Node(sub.new, path[sub.used + 1]) = merkle_root[s]
      BY <1>3, <3>1
    <3>3. sub.new = merkle_root[Before(s, k)] /\ path[sub.used + 1] = e
      BY <3>2, NodeIsRoot
    <3>4. Fits(path, at, q) /\ sub.used = at + l /\ sub.old = old
      BY <1>1, <3>3 DEF ReadsAs
    <3>5. at + l < n /\ sub.used + 1 = at + (l + 1)
      BY <1>2, <2>2, <3>4
    <3>6. path[at + l + 1] = e
      BY <3>3, <3>4
    <3> QED BY <1>1, <1>2, <3>1, <3>4, <3>5, <3>6
  <2> QED BY <2>1, <2>2
<1>4. ASSUME Fits(path, at, Append(q, e)), seeded PROVE r.new = merkle_root[s]
  <2>1. Fits(path, at, q) /\ at + l < n /\ path[at + l + 1] = e
    BY <1>1, <1>2, <1>4
  <2>2. sub.new = merkle_root[Before(s, k)] /\ sub.used = at + l
    BY <1>1, <1>4, <2>1 DEF ReadsAs
  <2>3. ~(sub.used >= Len(path))
    BY <1>2, <2>1, <2>2
  <2>4. r.new = Node(sub.new, path[sub.used + 1])
    BY <2>3 DEF SiblingRight
  <2>5. path[sub.used + 1] = e
    BY <2>1, <2>2
  <2> QED BY <2>2, <2>4, <2>5, NodeIsRoot
<1> QED BY <1>3, <1>4 DEF ReadsAs

LEMMA ReadsRight ==
    ASSUME NEW s \in Seq(Leaves), Len(s) > 1, NEW k, k = split_power(Len(s)),
           NEW H, NEW q \in Seq(H), NEW e \in H, e = merkle_root[Before(s, k)],
           NEW path, Len(path) \in Nat, NEW at \in Nat, NEW old, NEW seeded \in BOOLEAN, NEW sub,
           ReadsAs(sub, path, at, q, merkle_root[From(s, k)], old, TRUE),
           NEW r, SiblingLeft(r, sub, path)
    PROVE  ReadsAs(r, path, at, Append(q, e), merkle_root[s], Node(e, old), seeded)
<1>1. PICK l \in Nat :
          /\ l = Len(q) /\ l + 1 = Len(Append(q, e))
          /\ Fits(path, at, Append(q, e)) <=>
                 Fits(path, at, q) /\ at + l < Len(path) /\ path[at + l + 1] = e
  <2>1. PICK l \in Nat : l = Len(q)
    BY LenProperties
  <2>2. Len(q) \in Nat /\ Len(Append(q, e)) = Len(q) + 1
    BY FitsAppend
  <2>3. Fits(path, at, Append(q, e)) <=>
            /\ Fits(path, at, q)
            /\ at + Len(q) < Len(path) /\ path[at + Len(q) + 1] = e
    BY FitsAppend
  <2> QED BY <2>1, <2>2, <2>3
<1>2. PICK n \in Nat : n = Len(path)
  OBVIOUS
<1>3. ASSUME r.new = merkle_root[s]
      PROVE  /\ Fits(path, at, Append(q, e)) /\ r.used = at + Len(Append(q, e))
             /\ r.old = Node(e, old)
  <2>1. CASE sub.used >= Len(path)
    BY <1>3, <2>1, Roots DEF TooShort, SiblingLeft
  <2>2. CASE ~(sub.used >= Len(path))
    <3>1. r = [old |-> Node(path[sub.used + 1], sub.old),
               new |-> Node(path[sub.used + 1], sub.new), used |-> sub.used + 1]
      BY <2>2 DEF SiblingLeft
    <3>2. Node(path[sub.used + 1], sub.new) = merkle_root[s]
      BY <1>3, <3>1
    <3>3. sub.new = merkle_root[From(s, k)] /\ path[sub.used + 1] = e
      BY <3>2, NodeIsRoot
    <3>4. Fits(path, at, q) /\ sub.used = at + l /\ sub.old = old
      BY <1>1, <3>3 DEF ReadsAs
    <3>5. at + l < n /\ sub.used + 1 = at + (l + 1)
      BY <1>2, <2>2, <3>4
    <3>6. path[at + l + 1] = e
      BY <3>3, <3>4
    <3> QED BY <1>1, <1>2, <3>1, <3>3, <3>4, <3>5, <3>6
  <2> QED BY <2>1, <2>2
<1>4. ASSUME Fits(path, at, Append(q, e)) PROVE r.new = merkle_root[s]
  <2>1. Fits(path, at, q) /\ at + l < n /\ path[at + l + 1] = e
    BY <1>1, <1>2, <1>4
  <2>2. sub.new = merkle_root[From(s, k)] /\ sub.used = at + l
    BY <1>1, <2>1 DEF ReadsAs
  <2>3. ~(sub.used >= Len(path))
    BY <1>2, <2>1, <2>2
  <2>4. r.new = Node(path[sub.used + 1], sub.new)
    BY <2>3 DEF SiblingLeft
  <2>5. path[sub.used + 1] = e
    BY <2>1, <2>2
  <2> QED BY <2>2, <2>4, <2>5, NodeIsRoot
<1> QED BY <1>3, <1>4 DEF ReadsAs

(* What is read off path from its hash at on is what a consistency path of *)
(* s, for its first m leaves, is made of.                                  *)
ReadsPath(R, firstRoot, path, s, m, at, seed) ==
    ReadsAs(R[Len(s)][m][seed][at], path, at, consistency_path[s][m][seed], merkle_root[s],
            merkle_root[Before(s, m)], seed => firstRoot = merkle_root[Before(s, m)])

LEMMA ReadsWhole ==
    ASSUME NEW firstRoot, NEW path, Len(path) \in Nat,
           NEW R, R = consistency_roots(firstRoot, path),
           NEW s \in Seq(Leaves), NEW n \in Nat, n = Len(s), n > 0,
           NEW at \in Nat, at <= Len(path), NEW seed \in BOOLEAN
    PROVE  ReadsPath(R, firstRoot, path, s, n, at, seed)
<1>1. n \in 1 .. n
  OBVIOUS
<1>2. Before(s, n) = s
  BY SubSeqFull DEF Before
<1>3. consistency_path[s][n][seed] = IF seed THEN <<>> ELSE <<merkle_root[s]>>
  <2>1. 0 < n /\ n <= Len(s)
    OBVIOUS
  <2> QED BY <2>1, ConsistencySteps
<1>4. R[n][n][seed][at] =
          IF seed THEN [old |-> firstRoot, new |-> firstRoot, used |-> at]
          ELSE IF at >= Len(path) THEN TooShort(path)
          ELSE [old |-> path[at + 1], new |-> path[at + 1], used |-> at + 1]
  BY RootsOfWhole
<1>5. CASE seed
  <2>1. R[n][n][seed][at] = [old |-> firstRoot, new |-> firstRoot, used |-> at]
    BY <1>4, <1>5
  <2>2. Fits(path, at, <<>>) /\ at + Len(<<>>) = at
    BY Lengths DEF Fits, Window
  <2> QED BY <1>2, <1>3, <1>5, <2>1, <2>2 DEF ReadsPath, ReadsAs
<1>6. CASE ~seed
  <2>1. R[n][n][seed][at] =
            IF at >= Len(path) THEN TooShort(path)
            ELSE [old |-> path[at + 1], new |-> path[at + 1], used |-> at + 1]
    BY <1>4, <1>6
  <2>2. Fits(path, at, <<merkle_root[s]>>) <=> at < Len(path) /\ path[at + 1] = merkle_root[s]
    BY DEF Fits, Window
  <2>3. CASE at >= Len(path)
    <3>1. ~(at < Len(path))
      BY <2>3
    <3>2. R[n][n][seed][at].new # merkle_root[s]
      BY <2>1, <2>3, Roots DEF TooShort
    <3> QED BY <1>3, <1>6, <2>2, <3>1, <3>2 DEF ReadsPath, ReadsAs
  <2>4. CASE ~(at >= Len(path))
    <3>1. at < Len(path)
      BY <2>4
    <3>2. R[n][n][seed][at] = [old |-> path[at + 1], new |-> path[at + 1], used |-> at + 1]
      BY <2>1, <2>4
    <3>3. Len(<<merkle_root[s]>>) = 1
      OBVIOUS
    <3> QED BY <1>2, <1>3, <1>6, <2>2, <3>1, <3>2, <3>3 DEF ReadsPath, ReadsAs
  <2> QED BY <2>3, <2>4
<1> QED BY <1>5, <1>6

LEMMA ReadsCut ==
    ASSUME NEW firstRoot, NEW path, Len(path) \in Nat,
           NEW R, R = consistency_roots(firstRoot, path),
           NEW s \in Seq(Leaves), NEW m \in Nat, NEW n \in Nat, n = Len(s), 0 < m, m < n,
           NEW at \in Nat, at <= Len(path), NEW seed \in BOOLEAN,
           \A t \in Seq(Leaves) : \A i \in Nat : \A b \in BOOLEAN :
               Len(t) < n /\ 0 < i /\ i <= Len(t) => ReadsPath(R, firstRoot, path, t, i, at, b)
    PROVE  ReadsPath(R, firstRoot, path, s, m, at, seed)
<1>1. Len(s) > 1 /\ n > 1 /\ m \in 1 .. n
  OBVIOUS
<1>2. PICK k \in Nat : k = split_power(n)
  BY <1>1, Split
<1>3. /\ k = split_power(Len(s)) /\ k < n /\ n - k \in Nat /\ n - k < n
      /\ Before(s, k) \in Seq(Leaves) /\ k = Len(Before(s, k))
      /\ From(s, k) \in Seq(Leaves) /\ n - k = Len(From(s, k))
  BY <1>1, <1>2, Halves
<1>4. merkle_root[Before(s, k)] \in Hashes /\ merkle_root[From(s, k)] \in Hashes
  BY <1>3 DEF Hashes
<1>5. (seed => firstRoot = merkle_root[Before(s, m)]) \in BOOLEAN
  OBVIOUS
<1>6. CASE m <= k
  <2>1. EndsLeft(s, m, seed, k)
    BY <1>2, <1>6, ConsistencySide
  <2>2. PICK q \in Seq(Hashes) :
            /\ q = consistency_path[Before(s, k)][m][seed]
            /\ consistency_path[s][m][seed] = Append(q, merkle_root[From(s, k)])
            /\ Before(Before(s, k), m) = Before(s, m)
    BY <2>1 DEF EndsLeft
  <2>3. PICK sub : sub = R[k][m][seed][at]
    OBVIOUS
  <2>4. ReadsPath(R, firstRoot, path, Before(s, k), m, at, seed)
    BY <1>3, <1>6
  <2>5. SiblingRight(R[n][m][seed][at], sub, path)
    BY <1>1, <1>2, <1>6, <2>3, RootsFromLeft
  <2>6. ReadsAs(sub, path, at, q, merkle_root[Before(s, k)], merkle_root[Before(s, m)],
                seed => firstRoot = merkle_root[Before(s, m)])
    BY <1>3, <2>2, <2>3, <2>4 DEF ReadsPath
  <2>7. ReadsAs(R[n][m][seed][at], path, at, Append(q, merkle_root[From(s, k)]),
                merkle_root[s], merkle_root[Before(s, m)],
                seed => firstRoot = merkle_root[Before(s, m)])
    BY <1>1, <1>3, <1>4, <1>5, <2>5, <2>6, ReadsLeft
  <2> QED BY <2>2, <2>7 DEF ReadsPath
<1>7. CASE k < m
  <2>1. PICK j \in Nat : j = m - k /\ k + j = m /\ 0 < j /\ j <= n - k
    <3>1. m - k \in Nat /\ k + (m - k) = m /\ 0 < m - k /\ m - k <= n - k
      BY <1>7
    <3> QED BY <3>1
  <2>2. EndsRight(s, m, seed, k, j)
    BY <1>2, <1>7, <2>1, ConsistencySide
  <2>3. PICK q \in Seq(Hashes) :
            /\ q = consistency_path[From(s, k)][j][FALSE]
            /\ consistency_path[s][m][seed] = Append(q, merkle_root[Before(s, k)])
            /\ merkle_root[Before(s, m)] =
                   Node(merkle_root[Before(s, k)], merkle_root[Before(From(s, k), j)])
    BY <2>2 DEF EndsRight
  <2>4. PICK sub : sub = R[n - k][j][FALSE][at]
    OBVIOUS
  <2>5. ReadsPath(R, firstRoot, path, From(s, k), j, at, FALSE)
    <3>1. FALSE \in BOOLEAN
      OBVIOUS
    <3> QED BY <1>3, <2>1, <3>1
  <2>6. SiblingLeft(R[n][m][seed][at], sub, path)
    <3>1. SiblingLeft(R[n][m][seed][at], R[n - k][m - k][FALSE][at], path)
      BY <1>1, <1>2, <1>7, RootsFromRight
    <3> QED BY <2>1, <2>4, <3>1
  <2>7. ReadsAs(sub, path, at, q, merkle_root[From(s, k)], merkle_root[Before(From(s, k), j)],
                TRUE)
    BY <1>3, <2>3, <2>4, <2>5 DEF ReadsPath
  <2>8. ReadsAs(R[n][m][seed][at], path, at, Append(q, merkle_root[Before(s, k)]),
                merkle_root[s],
                Node(merkle_root[Before(s, k)], merkle_root[Before(From(s, k), j)]),
                seed => firstRoot = merkle_root[Before(s, m)])
    BY <1>1, <1>3, <1>4, <1>5, <2>6, <2>7, ReadsRight
  <2> QED BY <2>3, <2>8 DEF ReadsPath
<1> QED BY <1>6, <1>7

LEMMA ConsistencyRoots ==
    ASSUME NEW firstRoot, NEW path, Len(path) \in Nat, NEW at \in Nat, at <= Len(path)
    PROVE  \A s \in Seq(Leaves) : \A m \in Nat : \A seed \in BOOLEAN : 0 < m /\ m <= Len(s) =>
               ReadsPath(consistency_roots(firstRoot, path), firstRoot, path, s, m, at, seed)
<1>1. PICK R : R = consistency_roots(firstRoot, path)
  OBVIOUS
<1> DEFINE T == {n \in Nat : \E s \in Seq(Leaves) : \E m \in Nat : \E seed \in BOOLEAN :
                     /\ n = Len(s) /\ 0 < m /\ m <= n
                     /\ ~ReadsPath(R, firstRoot, path, s, m, at, seed)}
<1>2. SUFFICES ASSUME T # {} PROVE FALSE
  BY <1>1, Lengths
<1>3. PICK n \in T : \A l \in T : n <= l
  BY <1>2, Root!Least
<1>4. PICK s \in Seq(Leaves), m \in Nat, seed \in BOOLEAN :
          n = Len(s) /\ 0 < m /\ m <= n /\ ~ReadsPath(R, firstRoot, path, s, m, at, seed)
  BY <1>3
<1>5. n \in Nat
  BY <1>3
<1>6. ASSUME NEW t \in Seq(Leaves), NEW i \in Nat, NEW b \in BOOLEAN,
             Len(t) < n, 0 < i, i <= Len(t)
      PROVE  ReadsPath(R, firstRoot, path, t, i, at, b)
  <2>1. PICK l \in Nat : l = Len(t) /\ l < n /\ i <= l
    BY <1>6, Lengths
  <2>2. l \notin T
    <3> HIDE DEF T
    <3> QED BY <1>3, <1>5, <2>1
  <2> QED BY <1>6, <2>1, <2>2
<1> HIDE DEF T
<1>7. n > 0 /\ m \in 1 .. n /\ (m = n \/ m < n)
  BY <1>4, <1>5
<1>8. CASE m = n
  BY <1>1, <1>4, <1>5, <1>7, <1>8, ReadsWhole
<1>9. CASE m < n
  BY <1>1, <1>4, <1>5, <1>6, <1>7, <1>9, ReadsCut
<1> QED BY <1>7, <1>8, <1>9

(* What verify_consistency asks of a proof whose first tree is not empty.  *)
RootsAgree(first, second, firstRoot, secondRoot, path) ==
    LET result == consistency_roots_from_proof(first, second, firstRoot, path)
    IN  result.old = firstRoot /\ result.new = secondRoot

(* The root and the path that prove the first leaves of s.                 *)
ProvesPrefix(s, first, firstRoot, path) ==
    firstRoot = merkle_root[Before(s, first)] /\ path = consistency_path[s][first][TRUE]

(* consistency_roots_from_proof, for a log s, a size first from 1 up to    *)
(* that of s, any first root and any path: it gives the first root back    *)
(* and the root of s exactly when the first root is that of the first      *)
(* leaves of s and the path is the one consistency_path gives.             *)
THEOREM ConsistencyPathUnique ==
    ASSUME NEW s \in Seq(Leaves), NEW first \in Nat, 0 < first, first <= Len(s),
           NEW firstRoot, NEW H, NEW path \in Seq(H)
    PROVE  RootsAgree(first, Len(s), firstRoot, merkle_root[s], path) <=>
               ProvesPrefix(s, first, firstRoot, path)
<1>0. PICK r : r = consistency_roots_from_proof(first, Len(s), firstRoot, path)
  OBVIOUS
<1>1. PICK n \in Nat : n = Len(path)
  BY LenProperties
<1>2. PICK sub : sub = consistency_roots(firstRoot, path)[Len(s)][first][TRUE][0]
  OBVIOUS
<1>3. PICK q \in Seq(Hashes) : q = consistency_path[s][first][TRUE]
  BY ConsistencyPathTyped
<1>4. PICK l \in Nat : l = Len(q)
  BY LenProperties
<1>5. ReadsAs(sub, path, 0, q, merkle_root[s], merkle_root[Before(s, first)],
              TRUE => firstRoot = merkle_root[Before(s, first)])
  <2>1. TRUE \in BOOLEAN /\ 0 <= n
    OBVIOUS
  <2> QED BY <1>1, <1>2, <1>3, <2>1, ConsistencyRoots DEF ReadsPath
<1>6. r = IF sub.used = Len(path) THEN sub ELSE TooShort(path)
  BY <1>0, <1>2 DEF consistency_roots_from_proof
<1>7. q \in Seq(H \cup Hashes) /\ path \in Seq(H \cup Hashes)
  BY SeqMonotonic
<1>8. Fits(path, 0, q) /\ l = n <=> path = q
  <2>1. Fits(path, 0, q) <=> l <= n /\ \A j \in 1 .. l : path[j] = q[j]
    BY <1>1, <1>4 DEF Fits, Window
  <2>2. n = l /\ (\A j \in 1 .. l : path[j] = q[j]) => path = q
    BY <1>1, <1>4, <1>7, SeqEqual
  <2> QED BY <1>1, <1>4, <2>1, <2>2
<1>9. ASSUME r.old = firstRoot, r.new = merkle_root[s]
      PROVE  firstRoot = merkle_root[Before(s, first)] /\ path = q
  <2>1. sub.used = n /\ r = sub
    BY <1>1, <1>6, <1>9, Roots DEF TooShort
  <2>2. Fits(path, 0, q) /\ sub.used = 0 + l /\ sub.old = merkle_root[Before(s, first)]
    BY <1>4, <1>5, <1>9, <2>1 DEF ReadsAs
  <2>3. l = n
    BY <2>1, <2>2
  <2> QED BY <1>8, <1>9, <2>1, <2>2, <2>3
<1>10. ASSUME firstRoot = merkle_root[Before(s, first)], path = q
       PROVE  r.old = firstRoot /\ r.new = merkle_root[s]
  <2>1. Fits(path, 0, q) /\ l = n
    BY <1>8, <1>10
  <2>2. sub.new = merkle_root[s] /\ sub.used = 0 + l /\ sub.old = merkle_root[Before(s, first)]
    BY <1>4, <1>5, <1>10, <2>1 DEF ReadsAs
  <2>3. sub.used = n
    BY <2>1, <2>2
  <2> QED BY <1>1, <1>6, <1>10, <2>2, <2>3
<1>11. RootsAgree(first, Len(s), firstRoot, merkle_root[s], path) <=>
           r.old = firstRoot /\ r.new = merkle_root[s]
  BY <1>0 DEF RootsAgree
<1> QED BY <1>3, <1>9, <1>10, <1>11 DEF ProvesPrefix
=============================================================================
