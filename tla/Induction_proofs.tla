-------------------------- MODULE Induction_proofs --------------------------
(***************************************************************************)
(* Induction over the natural numbers, in the form the other proofs use    *)
(* it: about a set of numbers rather than about a predicate.  It rests on  *)
(* the order of the naturals being well founded.                           *)
(***************************************************************************)
EXTENDS Integers, WellFoundedInduction, TLAPS

\* A set of natural numbers that is not empty has a least one.
LEMMA LeastNatural ==
  ASSUME NEW T \in SUBSET Nat, T # {}
  PROVE  \E x \in T : \A y \in T : x <= y
<1> DEFINE R == OpToRel(<, Nat)
<1>1. IsWellFoundedOn(R, Nat)
  BY NatLessThanWellFounded
<1>2. \A x, y \in Nat : <<y, x>> \in R <=> y < x
  BY DEF OpToRel
<1> HIDE DEF R
<1>3. PICK x \in T : \A y \in T : ~ (<<y, x>> \in R)
  BY <1>1, WFMin
<1>4. \A y \in T : ~ (y < x)
  BY <1>2, <1>3, Zenon
<1> QED
  BY <1>4

\* A set that holds 0, and the successor of each number up to n it holds, holds
\* every number up to n.
LEMMA InductionUpTo ==
  ASSUME NEW P, NEW n \in Nat, 0 \in P,
         \A i \in 0..n - 1 : i \in P => i + 1 \in P
  PROVE  0..n \subseteq P
<1> SUFFICES ASSUME (0..n) \ P # {} PROVE FALSE
  OBVIOUS
<1>0. (0..n) \ P \in SUBSET Nat
  OBVIOUS
<1>1. PICK x \in (0..n) \ P : \A y \in (0..n) \ P : x <= y
  BY <1>0, LeastNatural, Zenon
<1>2. x # 0 /\ x \in 0..n
  BY <1>1
<1>3. x - 1 \in 0..n - 1 /\ x - 1 \in P
  BY <1>1, <1>2
<1>4. (x - 1) + 1 \in P
  BY <1>3
<1> QED
  BY <1>1, <1>2, <1>4

\* A set that holds 0, and the successor of each number it holds, holds them all.
LEMMA InductionOver ==
  ASSUME NEW P, 0 \in P, \A i \in Nat : i \in P => i + 1 \in P
  PROVE  Nat \subseteq P
<1> SUFFICES ASSUME NEW n \in Nat PROVE n \in P
  OBVIOUS
<1>1. 0..n \subseteq P
  BY InductionUpTo
<1> QED
  BY <1>1
-----------------------------------------------------------------------------
(* Recursive definitions.                                                  *)

\* g follows the definition up to n: it starts at f0, and each value gives the
\* next one by G.
Follows(g, f0, G, n) == g[0] = f0 /\ \A i \in 0..n - 1 : g[i + 1] = G[i][g[i]]

\* Two functions that follow the same definition agree.
LEMMA FollowUnique ==
  ASSUME NEW f0, NEW G, NEW n \in Nat, NEW m \in Nat, n <= m,
         NEW g, Follows(g, f0, G, n), NEW h, Follows(h, f0, G, m)
  PROVE  g[n] = h[n]
<1> DEFINE P == {i \in 0..n : g[i] = h[i]}
<1>1. 0 \in P
  BY DEF Follows
<1>2. ASSUME NEW i \in 0..n - 1, i \in P PROVE i + 1 \in P
  BY <1>2 DEF Follows
<1> HIDE DEF P
<1>3. 0..n \subseteq P
  BY <1>1, <1>2, InductionUpTo
<1> QED
  BY <1>3 DEF P

\* There is a function that follows the definition up to n, when each value is
\* one the next is defined for.
LEMMA FollowExists ==
  ASSUME NEW T, NEW f0 \in T[0], NEW G, \A i \in Nat : G[i] \in [T[i] -> T[i + 1]],
         NEW n \in Nat
  PROVE  \E g : Follows(g, f0, G, n) /\ \A i \in 0..n : g[i] \in T[i]
<1> DEFINE P == {m \in Nat : \E g : Follows(g, f0, G, m) /\ \A i \in 0..m : g[i] \in T[i]}
<1>1. 0 \in P
  <2>1. PICK g : g = [i \in {0} |-> f0]
    OBVIOUS
  <2> QED
    BY <2>1 DEF Follows
<1>2. ASSUME NEW m \in Nat, m \in P PROVE m + 1 \in P
  <2>1. PICK g : Follows(g, f0, G, m) /\ \A i \in 0..m : g[i] \in T[i]
    BY <1>2
  <2>2. PICK h : h = [i \in 0..m + 1 |-> IF i = m + 1 THEN G[m][g[m]] ELSE g[i]]
    OBVIOUS
  <2>3. h[m + 1] = G[m][g[m]] /\ \A i \in 0..m : h[i] = g[i]
    BY <2>2
  <2>4. h[m + 1] \in T[m + 1]
    <3>1. G[m] \in [T[m] -> T[m + 1]] /\ g[m] \in T[m]
      BY <2>1
    <3> QED
      BY <2>3, <3>1
  <2>5. \A i \in 0..m + 1 : h[i] \in T[i]
    BY <2>1, <2>3, <2>4
  <2>6. ASSUME NEW i \in 0..(m + 1) - 1 PROVE h[i + 1] = G[i][h[i]]
    <3>1. CASE i = m
      BY <2>3, <3>1
    <3>2. CASE i # m
      BY <2>1, <2>3, <3>2 DEF Follows
    <3> QED
      BY <3>1, <3>2
  <2>7. Follows(h, f0, G, m + 1)
    BY <2>1, <2>3, <2>6 DEF Follows
  <2> QED
    BY <2>5, <2>7
<1> HIDE DEF P
<1>3. n \in P
  BY <1>1, <1>2, InductionOver
<1> QED
  BY <1>3 DEF P

\* A function defined on the naturals by recursion: from f0, each value from the
\* one before.
LEMMA Recursion ==
  ASSUME NEW T, NEW f0 \in T[0], NEW G, \A i \in Nat : G[i] \in [T[i] -> T[i + 1]]
  PROVE  \E f : /\ f = [n \in Nat |-> IF n = 0 THEN f0 ELSE G[n - 1][f[n - 1]]]
                /\ \A n \in Nat : f[n] \in T[n]
<1> DEFINE F(n) == CHOOSE g : Follows(g, f0, G, n) /\ \A i \in 0..n : g[i] \in T[i]
<1>1. \A n \in Nat : Follows(F(n), f0, G, n) /\ \A i \in 0..n : F(n)[i] \in T[i]
  BY FollowExists
<1>2. PICK f : f = [n \in Nat |-> F(n)[n]]
  OBVIOUS
<1> HIDE DEF F
<1>3. \A n \in Nat : f[n] \in T[n]
  BY <1>1, <1>2
<1>4. f[0] = f0
  BY <1>1, <1>2 DEF Follows
<1>5. ASSUME NEW n \in Nat, n # 0 PROVE f[n] = G[n - 1][f[n - 1]]
  <2>1. PICK m \in Nat : n = m + 1
    <3>1. n - 1 \in Nat /\ n = (n - 1) + 1
      BY <1>5
    <3> QED
      BY <3>1
  <2>2. F(n)[m + 1] = G[m][F(n)[m]]
    BY <1>1, <2>1 DEF Follows
  <2>3. F(n)[m] = F(m)[m]
    BY <1>1, <2>1, FollowUnique
  <2> QED
    BY <1>2, <2>1, <2>2, <2>3
<1>6. \A n \in Nat : f[n] = IF n = 0 THEN f0 ELSE G[n - 1][f[n - 1]]
  BY <1>4, <1>5
<1>7. f = [n \in Nat |-> IF n = 0 THEN f0 ELSE G[n - 1][f[n - 1]]]
  BY <1>2, <1>6
<1> QED
  BY <1>3, <1>7
=============================================================================
