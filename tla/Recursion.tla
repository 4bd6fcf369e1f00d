------------------------------ MODULE Recursion ------------------------------
(***************************************************************************)
(* When a function defined by recursion is what its definition says.       *)
(*                                                                         *)
(* f[x \in D] == Body(f, x) stands for CHOOSE f : f = [x \in D |->         *)
(* Body(f, x)], which is any value if there is no such f. There is one     *)
(* when Body asks of f only what f is at arguments of a lesser depth.      *)
(***************************************************************************)
EXTENDS Integers, NaturalsInduction, WellFoundedInduction, TLAPS

CONSTANTS
    D,            \* the arguments
    Depth(_),     \* how deep the recursion goes from an argument
    Body(_, _, _, _) \* Body(f, x, c, d): the definition at x; c, d are what else it depends on

HasDepths == \A x \in D : Depth(x) \in Nat
Agree(f, g, n) == \A x \in D : Depth(x) < n => f[x] = g[x]
Contractive(c, d) ==
    \A x \in D : \A f, g :
        Agree(f, g, Depth(x)) => Body(f, x, c, d) = Body(g, x, c, d)

(* h is f, where f[x \in D] == Body(f, x, c, d); and what one expects of it. *)
Defines(h, c, d) == h = CHOOSE f : f = [x \in D |-> Body(f, x, c, d)]
Unfolded(h, c, d) == h = [x \in D |-> Body(h, x, c, d)]

Below(n) == {x \in D : Depth(x) < n}
Approximates(f, n, c, d) == f = [x \in Below(n) |-> Body(f, x, c, d)]

-----------------------------------------------------------------------------
(* A set of natural numbers that is not empty has a least element.         *)
LEMMA Least ==
    ASSUME NEW T \in SUBSET Nat, T # {}
    PROVE  \E n \in T : \A m \in T : n <= m
<1> DEFINE R == OpToRel(<, Nat)
<1>1. IsWellFoundedOn(R, Nat)
  BY NatLessThanWellFounded
<1>2. PICK n \in T : \A m \in T : <<m, n>> \notin R
  BY <1>1, WFMin
<1>3. \A m \in T : ~(m < n)
  BY <1>2 DEF OpToRel
<1> QED BY <1>3

(* Two approximations agree where both are defined.                        *)
LEMMA ApproximationsAgree ==
    ASSUME NEW c, NEW d, HasDepths, Contractive(c, d),
           NEW m \in Nat, NEW n \in Nat, NEW k \in Nat, k <= m, k <= n,
           NEW f, Approximates(f, m, c, d), NEW g, Approximates(g, n, c, d)
    PROVE  Agree(f, g, k)
<1> USE DEF HasDepths
<1> DEFINE T == {l \in Nat : \E x \in D : Depth(x) = l /\ l < k /\ f[x] # g[x]}
<1>1. SUFFICES ASSUME T # {} PROVE FALSE
  BY DEF Agree
<1>2. PICK l \in T : \A e \in T : l <= e
  BY <1>1, Least
<1>3. PICK x \in D : Depth(x) = l /\ l < k /\ f[x] # g[x]
  BY <1>2
<1>4. Agree(f, g, Depth(x))
  <2>1. SUFFICES ASSUME NEW y \in D, Depth(y) < l, f[y] # g[y] PROVE FALSE
    BY <1>3 DEF Agree
  <2>2. Depth(y) \in T
    BY <2>1, <1>3
  <2> QED BY <2>1, <2>2, <1>2
<1>5. Body(f, x, c, d) = Body(g, x, c, d)
  BY <1>4 DEF Contractive
<1>6. x \in Below(m) /\ x \in Below(n)
  BY <1>3 DEF Below
<1>7. f[x] = Body(f, x, c, d) /\ g[x] = Body(g, x, c, d)
  BY <1>6 DEF Approximates
<1> QED BY <1>3, <1>5, <1>7

(* There is an approximation of every depth.                               *)
LEMMA ApproximationsExist ==
    ASSUME NEW c, NEW d, HasDepths, Contractive(c, d)
    PROVE  \A n \in Nat : \E f : Approximates(f, n, c, d)
<1> USE DEF HasDepths
<1> DEFINE T == {n \in Nat : ~ \E f : Approximates(f, n, c, d)}
<1>1. SUFFICES ASSUME T # {} PROVE FALSE
  OBVIOUS
<1>2. PICK n \in T : \A m \in T : n <= m
  BY <1>1, Least
<1>3. CASE n = 0
  <2>1. Below(n) = {}
    BY <1>3 DEF Below
  <2>2. \A f : [x \in Below(n) |-> Body(f, x, c, d)] = [x \in {} |-> x]
    BY <2>1
  <2>3. Approximates([x \in {} |-> x], n, c, d)
    BY <2>2 DEF Approximates
  <2> QED BY <2>3
<1>4. CASE n # 0
  <2>1. n - 1 \in Nat /\ n - 1 \notin T
    BY <1>2, <1>4
  <2>2. PICK f : Approximates(f, n - 1, c, d)
    BY <2>1
  <2>3. PICK g : g = [x \in Below(n) |-> Body(f, x, c, d)]
    OBVIOUS
  <2>4. ASSUME NEW x \in Below(n) PROVE Body(f, x, c, d) = Body(g, x, c, d)
    <3>1. SUFFICES ASSUME NEW y \in D, Depth(y) < Depth(x) PROVE f[y] = g[y]
      BY DEF Below, Agree, Contractive
    <3>2. y \in Below(n - 1) /\ y \in Below(n)
      BY <3>1 DEF Below
    <3>3. f[y] = Body(f, y, c, d)
      BY <2>2, <3>2 DEF Approximates
    <3> QED BY <3>2, <3>3, <2>3
  <2>5. Approximates(g, n, c, d)
    BY <2>3, <2>4 DEF Approximates
  <2> QED BY <2>5
<1> QED BY <1>3, <1>4

(* The function a recursion defines satisfies its defining equation, if    *)
(* the body asks for it only at arguments of a lesser depth.               *)
THEOREM Unfolds ==
    ASSUME NEW c, NEW d, HasDepths, Contractive(c, d),
           NEW h, Defines(h, c, d)
    PROVE  Unfolded(h, c, d)
<1> USE DEF HasDepths
<1> DEFINE A(n) == CHOOSE f : Approximates(f, n, c, d)
<1>1. \A n \in Nat : Approximates(A(n), n, c, d)
  BY ApproximationsExist
<1> HIDE DEF A
<1>2. PICK g : g = [x \in D |-> Body(A(Depth(x)), x, c, d)]
  OBVIOUS
<1>3. ASSUME NEW x \in D PROVE Body(A(Depth(x)), x, c, d) = Body(g, x, c, d)
  <2>1. SUFFICES ASSUME NEW y \in D, Depth(y) < Depth(x) PROVE A(Depth(x))[y] = g[y]
    BY DEF Agree, Contractive
  <2>2. y \in Below(Depth(x))
    BY <2>1 DEF Below
  <2>3. A(Depth(x))[y] = Body(A(Depth(x)), y, c, d)
    BY <2>2, <1>1 DEF Approximates
  <2>4. Agree(A(Depth(x)), A(Depth(y)), Depth(y))
    BY <2>1, <1>1, ApproximationsAgree
  <2>5. Body(A(Depth(x)), y, c, d) = Body(A(Depth(y)), y, c, d)
    BY <2>4 DEF Contractive
  <2> QED BY <2>3, <2>5, <1>2
<1>4. g = [x \in D |-> Body(g, x, c, d)]
  BY <1>2, <1>3
<1> QED BY <1>4 DEF Defines, Unfolded
=============================================================================
