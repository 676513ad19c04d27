---------------------- MODULE DoubleElimination_proofs ----------------------
(***************************************************************************)
(* The proofs of the properties of DoubleElimination, for fields of any    *)
(* numbers of participants.                                                *)
(*                                                                         *)
(* The bracket first: its sizes are powers of two, its seeds have a slot   *)
(* each, and the sources of a match are seeds or matches of earlier        *)
(* rounds.  Then what the boards make of it: the outcomes are the one      *)
(* solution of the equations of the matches (Worked), so those of a round  *)
(* depend on the boards of that round and of those before it only          *)
(* (OutcomesStand).                                                        *)
(*                                                                         *)
(* Whatever requests do, the boards of a round seat nobody twice           *)
(* (SeatedInv).  As long as what a request writes comes from the boards of *)
(* now, it changes one round, the last one drawn or the next, which gives  *)
(* the inductive invariant outdated \/ BracketInv: the rounds are drawn in *)
(* order, and their boards are those the bracket asks for.  Then the way   *)
(* of a player through the bracket, round after round: who plays in the    *)
(* winners' bracket has won all its rounds (WinnersOnce), who plays in the *)
(* losers' one was dropped there once and has not lost since (LosersOnce). *)
(*                                                                         *)
(* Next, that the bracket goes on: somebody comes from every match once    *)
(* its boards are won, and the rounds before the last one drawn are        *)
(* settled (GateInv), a draw being refused until then.  Last, its end: a   *)
(* player goes on to a champion's seat or to a loss in the losers' bracket *)
(* (EveryoneEnds), and has lost as many matches as games (LossesCount).    *)
(***************************************************************************)
EXTENDS DoubleElimination, Induction_proofs, FiniteSetTheorems, TLAPS

-----------------------------------------------------------------------------
(* The size of a bracket and the order of its seeds.                       *)

LEMMA Pow2Def ==
  /\ Pow2 = [k \in Nat |-> IF k = 0 THEN 1 ELSE 2 * Pow2[k - 1]]
  /\ \A k \in Nat : Pow2[k] \in Nat
<1> DEFINE T == [n \in Nat |-> Nat]
           G == [n \in Nat |-> [v \in Nat |-> 2 * v]]
<1>1. 1 \in T[0] /\ \A i \in Nat : G[i] \in [T[i] -> T[i + 1]]
  OBVIOUS
<1>2. PICK f : /\ f = [n \in Nat |-> IF n = 0 THEN 1 ELSE G[n - 1][f[n - 1]]]
               /\ \A n \in Nat : f[n] \in T[n]
  <2> HIDE DEF T, G
  <2> QED
    BY <1>1, Recursion
<1>3. \A n \in Nat : f[n] \in Nat
  BY <1>2
<1>4. ASSUME NEW n \in Nat PROVE f[n] = IF n = 0 THEN 1 ELSE 2 * f[n - 1]
  <2>1. CASE n = 0
    BY <1>2, <2>1
  <2>2. CASE n # 0
    <3>1. n - 1 \in Nat /\ f[n - 1] \in Nat
      BY <1>3, <2>2
    <3>2. G[n - 1][f[n - 1]] = 2 * f[n - 1]
      BY <3>1
    <3> QED
      BY <1>2, <2>2, <3>2
  <2> QED
    BY <2>1, <2>2
<1>5. f = [k \in Nat |-> IF k = 0 THEN 1 ELSE 2 * f[k - 1]]
  BY <1>2, <1>4, Zenon
<1>6. Pow2 = [k \in Nat |-> IF k = 0 THEN 1 ELSE 2 * Pow2[k - 1]]
  BY <1>5 DEF Pow2
<1>7. ASSUME NEW k \in Nat PROVE Pow2[k] \in Nat
  <2> DEFINE P == {n \in Nat : Pow2[n] \in Nat}
  <2>1. 0 \in P
    BY <1>6
  <2>2. ASSUME NEW n \in Nat, n \in P PROVE n + 1 \in P
    <3>1. Pow2[n + 1] = 2 * Pow2[n]
      BY <1>6
    <3> QED
      BY <2>2, <3>1
  <2> HIDE DEF P
  <2>3. k \in P
    BY <2>1, <2>2, InductionOver
  <2> QED
    BY <2>3 DEF P
<1> QED
  BY <1>6, <1>7

LEMMA Pow2Step ==
  /\ Pow2[0] = 1
  /\ \A k \in Nat : Pow2[k] \in Nat /\ Pow2[k] >= 1 /\ Pow2[k + 1] = 2 * Pow2[k]
<1>1. Pow2[0] = 1 /\ \A k \in Nat : Pow2[k] \in Nat /\ Pow2[k + 1] = 2 * Pow2[k]
  BY Pow2Def
<1>2. ASSUME NEW k \in Nat PROVE Pow2[k] >= 1
  <2> DEFINE P == {n \in Nat : Pow2[n] >= 1}
  <2>1. 0 \in P
    BY <1>1
  <2>2. ASSUME NEW n \in Nat, n \in P PROVE n + 1 \in P
    BY <1>1, <2>2
  <2> HIDE DEF P
  <2>3. k \in P
    BY <2>1, <2>2, InductionOver
  <2> QED
    BY <2>3 DEF P
<1> QED
  BY <1>1, <1>2

\* A bracket has one level at least, and a seed for each participant.
LEMMA LevelsOf ==
  ASSUME NEW n \in Fields
  PROVE  /\ Levels[n] \in Nat /\ Levels[n] >= 1 /\ Levels[n] <= n
         /\ Pow2[Levels[n]] >= n /\ \A j \in 0..Levels[n] - 1 : Pow2[j] < n
<1>0. n \in Nat /\ n >= 2
  BY ConstantsAssumption
<1> DEFINE Enough == {k \in Nat : Pow2[k] >= n}
<1>1. n \in Enough
  <2> DEFINE P == {m \in Nat : Pow2[m] >= m + 1}
  <2>1. 0 \in P
    BY Pow2Step
  <2>2. ASSUME NEW m \in Nat, m \in P PROVE m + 1 \in P
    BY <2>2, Pow2Step
  <2> HIDE DEF P
  <2>3. n \in P
    BY <1>0, <2>1, <2>2, InductionOver
  <2> QED
    BY <1>0, <2>3, Pow2Step DEF P
<1>2. Enough \in SUBSET Nat /\ Enough # {}
  BY <1>1
<1> HIDE DEF Enough
<1>3. PICK k \in Enough : \A j \in Enough : k <= j
  BY <1>2, LeastNatural, Zenon
<1>4. k \in Nat /\ Pow2[k] >= n /\ k <= n
  BY <1>0, <1>1, <1>3 DEF Enough
<1>5. k # 0
  BY <1>0, <1>4, Pow2Step
<1>6. \A j \in 0..k - 1 : Pow2[j] < n
  <2> SUFFICES ASSUME NEW j \in 0..k - 1 PROVE Pow2[j] < n
    OBVIOUS
  <2>1. j \notin Enough /\ j \in Nat
    BY <1>3, <1>4
  <2> QED
    BY <1>0, <2>1, Pow2Step DEF Enough
<1>7. \E x \in 1..n : Pow2[x] >= n /\ \A j \in 0..x - 1 : Pow2[j] < n
  BY <1>0, <1>4, <1>5, <1>6
<1>8. Levels[n] \in 1..n /\ Pow2[Levels[n]] >= n /\ \A j \in 0..Levels[n] - 1 : Pow2[j] < n
  BY <1>7 DEF Levels
<1> QED
  BY <1>0, <1>8

\* The seeds of a bracket of k levels, by the order of their slots.
Slots(k) == [1..Pow2[k] -> 1..Pow2[k]]

NextOrder(k, v) ==
  [i \in 1..Pow2[k] |->
     IF i % 2 = 1 THEN v[(i + 1) \div 2] ELSE Pow2[k] + 1 - v[i \div 2]]

LEMMA NextOrderSlots ==
  ASSUME NEW k \in Nat, NEW v \in Slots(k)
  PROVE  NextOrder(k + 1, v) \in Slots(k + 1)
<1>1. Pow2[k] \in Nat /\ Pow2[k + 1] = 2 * Pow2[k] /\ Pow2[k + 1] \in Nat
  BY Pow2Step
<1>2. PICK p \in Nat : p = Pow2[k]
  BY <1>1
<1>3. \A j \in 1..p : v[j] \in 1..p
  BY <1>2 DEF Slots
<1>4. ASSUME NEW i \in 1..2 * p
      PROVE  (IF i % 2 = 1 THEN v[(i + 1) \div 2] ELSE 2 * p + 1 - v[i \div 2]) \in 1..2 * p
  <2>1. CASE i % 2 = 1
    <3>1. (i + 1) \div 2 \in 1..p
      BY <2>1
    <3> QED
      BY <1>3, <2>1, <3>1
  <2>2. CASE i % 2 # 1
    <3>1. i \div 2 \in 1..p
      BY <2>2
    <3> QED
      BY <1>3, <2>2, <3>1
  <2> QED
    BY <2>1, <2>2
<1> QED
  BY <1>1, <1>2, <1>4, Zenon DEF Slots, NextOrder

LEMMA SeedOrderStep ==
  /\ SeedOrder[0] = <<1>>
  /\ \A k \in Nat : SeedOrder[k] \in Slots(k) /\ SeedOrder[k + 1] = NextOrder(k + 1, SeedOrder[k])
<1> DEFINE T == [n \in Nat |-> Slots(n)]
           G == [n \in Nat |-> [v \in Slots(n) |-> NextOrder(n + 1, v)]]
<1>1. <<1>> \in T[0]
  BY Pow2Step DEF Slots
<1>2. \A i \in Nat : G[i] \in [T[i] -> T[i + 1]]
  BY NextOrderSlots
<1>3. PICK f : /\ f = [n \in Nat |-> IF n = 0 THEN <<1>> ELSE G[n - 1][f[n - 1]]]
               /\ \A n \in Nat : f[n] \in T[n]
  <2> HIDE DEF T, G
  <2> QED
    BY <1>1, <1>2, Recursion, SMTT(60)
<1>4. \A n \in Nat : f[n] \in Slots(n)
  BY <1>3
<1>5. ASSUME NEW n \in Nat PROVE f[n] = IF n = 0 THEN <<1>> ELSE NextOrder(n, f[n - 1])
  <2>1. CASE n = 0
    BY <1>3, <2>1
  <2>2. CASE n # 0
    <3>1. n - 1 \in Nat /\ (n - 1) + 1 = n
      BY <2>2
    <3>2. f[n - 1] \in Slots(n - 1)
      BY <1>4, <3>1
    <3>3. G[n - 1][f[n - 1]] = NextOrder(n, f[n - 1])
      BY <3>1, <3>2
    <3> QED
      BY <1>3, <2>2, <3>3
  <2> QED
    BY <2>1, <2>2
<1>6. f = [k \in Nat |-> IF k = 0 THEN <<1>> ELSE NextOrder(k, f[k - 1])]
  BY <1>3, <1>5, Zenon
<1>7. SeedOrder = CHOOSE g : g = [k \in Nat |-> IF k = 0 THEN <<1>> ELSE NextOrder(k, g[k - 1])]
  BY DEF SeedOrder, NextOrder
<1>8. SeedOrder = [k \in Nat |-> IF k = 0 THEN <<1>> ELSE NextOrder(k, SeedOrder[k - 1])]
  BY <1>6, <1>7
<1>9. SeedOrder[0] = <<1>> /\ \A k \in Nat : SeedOrder[k + 1] = NextOrder(k + 1, SeedOrder[k])
  BY <1>8
<1>10. ASSUME NEW k \in Nat PROVE SeedOrder[k] \in Slots(k)
  <2> DEFINE P == {n \in Nat : SeedOrder[n] \in Slots(n)}
  <2>1. 0 \in P
    BY <1>1, <1>9
  <2>2. ASSUME NEW n \in Nat, n \in P PROVE n + 1 \in P
    BY <1>9, <2>2, NextOrderSlots
  <2> HIDE DEF P
  <2>3. k \in P
    BY <2>1, <2>2, InductionOver
  <2> QED
    BY <2>3 DEF P
<1> QED
  BY <1>9, <1>10, Zenon

\* No two slots have one seed.
LEMMA SeedOrderApart ==
  ASSUME NEW k \in Nat, NEW i \in 1..Pow2[k], NEW j \in 1..Pow2[k],
         SeedOrder[k][i] = SeedOrder[k][j]
  PROVE  i = j
<1> DEFINE P == {n \in Nat : \A x, y \in 1..Pow2[n] : SeedOrder[n][x] = SeedOrder[n][y] => x = y}
<1>1. 0 \in P
  BY Pow2Step
<1>2. ASSUME NEW n \in Nat, n \in P PROVE n + 1 \in P
  <2>1. PICK p \in Nat : p = Pow2[n] /\ Pow2[n + 1] = 2 * p
    BY Pow2Step
  <2>2. PICK v : v = SeedOrder[n] /\ \A x \in 1..p : v[x] \in 1..p
    BY <2>1, SeedOrderStep, Zenon DEF Slots
  <2>3. \A x, y \in 1..p : v[x] = v[y] => x = y
    BY <1>2, <2>1, <2>2
  <2>4. \A x \in 1..2 * p : SeedOrder[n + 1][x] =
          IF x % 2 = 1 THEN v[(x + 1) \div 2] ELSE 2 * p + 1 - v[x \div 2]
    <3>1. SeedOrder[n + 1] = NextOrder(n + 1, v)
      BY <2>2, SeedOrderStep
    <3>2. NextOrder(n + 1, v) =
            [x \in 1..2 * p |-> IF x % 2 = 1 THEN v[(x + 1) \div 2] ELSE 2 * p + 1 - v[x \div 2]]
      BY <2>1 DEF NextOrder
    <3> QED
      BY <3>1, <3>2
  <2>5. ASSUME NEW x \in 1..2 * p, NEW y \in 1..2 * p, SeedOrder[n + 1][x] = SeedOrder[n + 1][y]
        PROVE  x = y
    <3>1. \A z \in 1..2 * p : IF z % 2 = 1 THEN (z + 1) \div 2 \in 1..p ELSE z \div 2 \in 1..p
      OBVIOUS
    <3>2. CASE x % 2 = 1 /\ y % 2 = 1
      <4>1. (x + 1) \div 2 = (y + 1) \div 2
        BY <2>3, <2>4, <2>5, <3>1, <3>2
      <4> QED
        BY <3>2, <4>1
    <3>3. CASE x % 2 # 1 /\ y % 2 # 1
      <4>1. v[x \div 2] = v[y \div 2]
        BY <2>2, <2>4, <2>5, <3>1, <3>3
      <4>2. x \div 2 = y \div 2
        BY <2>3, <3>1, <3>3, <4>1
      <4> QED
        BY <3>3, <4>2
    <3>4. ASSUME NEW a \in 1..2 * p, NEW b \in 1..2 * p, a % 2 = 1, b % 2 # 1
          PROVE  SeedOrder[n + 1][a] # SeedOrder[n + 1][b]
      <4>1. PICK c \in 1..p, d \in 1..p : c = v[(a + 1) \div 2] /\ d = v[b \div 2]
        BY <2>2, <3>1, <3>4
      <4>2. SeedOrder[n + 1][a] = c /\ SeedOrder[n + 1][b] = 2 * p + 1 - d
        BY <2>4, <3>4, <4>1
      <4>3. c # 2 * p + 1 - d
        BY <4>1
      <4> QED
        BY <4>2, <4>3
    <3> QED
      BY <2>5, <3>2, <3>3, <3>4
  <2> QED
    BY <2>1, <2>5
<1> HIDE DEF P
<1>3. k \in P
  BY <1>1, <1>2, InductionOver
<1> QED
  BY <1>3 DEF P

-----------------------------------------------------------------------------
(* The matches and their sources.                                          *)

LEMMA MatchesKinds ==
  ASSUME NEW k \in Nat \ {0}, NEW rs \in BOOLEAN, NEW m
  PROVE  m \in Matches(k, rs) <=>
           \/ \E r \in 1..k : \E i \in 0..Pow2[k - r] - 1 : m = W(r, i)
           \/ \E j \in 1..2 * (k - 1) : \E i \in 0..Pow2[k - 1 - (j + 1) \div 2] - 1 : m = L(j, i)
           \/ m = GF
           \/ rs /\ m = GFR
  BY DEF Matches

LEMMA RoundsOfMatches ==
  ASSUME NEW k \in Nat \ {0}
  PROVE  /\ \A r, i : AppRound(k, W(r, i)) = IF r = 1 THEN 1 ELSE 2 * (r - 1)
         /\ \A j, i : AppRound(k, L(j, i)) = j + 1
         /\ AppRound(k, GF) = 2 * k
         /\ AppRound(k, GFR) = 2 * k + 1
  BY DEF AppRound, W, L, GF, GFR

LEMMA SourcesOfW ==
  ASSUME NEW k \in Nat \ {0}, NEW r \in 1..k, NEW i \in 0..Pow2[k - r] - 1
  PROVE  /\ r = 1 => LET x == SeedOrder[k][2 * i + 1]  y == SeedOrder[k][2 * i + 2] IN
              Sources(k, W(r, i)) \in {<<Seed(x), Seed(y)>>, <<Seed(y), Seed(x)>>}
         /\ r # 1 => Sources(k, W(r, i)) =
                       <<WinnerOf(W(r - 1, 2 * i)), WinnerOf(W(r - 1, 2 * i + 1))>>
<1>1. r \in Int /\ (r # 1 => r > 1)
  OBVIOUS
<1>2. W(r, i)[1] = "W" /\ W(r, i)[2] = r /\ W(r, i)[3] = i
  BY DEF W
<1>3. CASE r = 1
  BY <1>2, <1>3 DEF Sources
<1>4. CASE r # 1
  BY <1>1, <1>2, <1>4 DEF Sources
<1> QED
  BY <1>3, <1>4

LEMMA SourcesOfL ==
  ASSUME NEW k \in Nat \ {0}, NEW j \in 1..2 * (k - 1), NEW i \in Nat
  PROVE  /\ j = 1 => Sources(k, L(j, i)) = <<LoserOf(W(1, 2 * i)), LoserOf(W(1, 2 * i + 1))>>
         /\ j # 1 /\ j % 2 = 1 => Sources(k, L(j, i)) =
                       <<WinnerOf(L(j - 1, 2 * i)), WinnerOf(L(j - 1, 2 * i + 1))>>
         /\ j % 2 = 0 => Sources(k, L(j, i)) =
                       <<WinnerOf(L(j - 1, i)), LoserOf(Dropout(k, j, i))>>
<1>1. j \in Int /\ (j # 1 => j > 1)
  OBVIOUS
<1>2. L(j, i)[1] = "L" /\ L(j, i)[2] = j /\ L(j, i)[3] = i
  BY DEF L
<1>3. CASE j = 1
  BY <1>2, <1>3 DEF Sources
<1>4. CASE j # 1 /\ j % 2 = 1
  BY <1>1, <1>2, <1>4 DEF Sources
<1>5. CASE j % 2 = 0
  BY <1>1, <1>2, <1>5 DEF Sources
<1> QED
  BY <1>3, <1>4, <1>5

LEMMA SourcesOfGF ==
  ASSUME NEW k \in Nat \ {0}, NEW m \in {GF, GFR}
  PROVE  Sources(k, m) = Champions(k)
<1>1. m[1] # "W" /\ m[1] # "L"
  BY DEF GF, GFR
<1> QED
  BY <1>1 DEF Sources

\* A source is a seed of the bracket, or comes from a match of an earlier round.
Earlier(k, rs, m, s) ==
  \/ s.kind = "seed" /\ s.seed \in 1..Pow2[k]
  \/ /\ s.kind \in {"winner", "loser"} /\ s.of \in Matches(k, rs)
     /\ AppRound(k, s.of) < AppRound(k, m)

LEMMA FromEarlier ==
  ASSUME NEW k, NEW rs, NEW m
  PROVE  /\ \A x \in 1..Pow2[k] : Earlier(k, rs, m, Seed(x))
         /\ \A x \in Matches(k, rs) : AppRound(k, x) < AppRound(k, m) =>
              Earlier(k, rs, m, WinnerOf(x)) /\ Earlier(k, rs, m, LoserOf(x))
  BY DEF Earlier, Seed, WinnerOf, LoserOf

BothEarlier(k, rs, m, pair) == Earlier(k, rs, m, pair[1]) /\ Earlier(k, rs, m, pair[2])

LEMMA PairEarlier ==
  ASSUME NEW k, NEW rs, NEW m, NEW s, NEW t, Earlier(k, rs, m, s), Earlier(k, rs, m, t)
  PROVE  BothEarlier(k, rs, m, <<s, t>>)
  BY DEF BothEarlier

LEMMA SourcesEarlier ==
  ASSUME NEW k \in Nat \ {0}, NEW rs \in BOOLEAN, NEW m \in Matches(k, rs)
  PROVE  BothEarlier(k, rs, m, Sources(k, m))
<1>2. ASSUME NEW r \in 1..k, NEW i \in 0..Pow2[k - r] - 1, m = W(r, i)
      PROVE  BothEarlier(k, rs, m, Sources(k, m))
  <2>1. CASE r = 1
    <3>1. Pow2[k] = 2 * Pow2[k - 1] /\ Pow2[k - 1] \in Nat
      BY Pow2Step
    <3>2. 2 * i + 1 \in 1..Pow2[k] /\ 2 * i + 2 \in 1..Pow2[k]
      BY <2>1, <3>1
    <3>3. SeedOrder[k][2 * i + 1] \in 1..Pow2[k] /\ SeedOrder[k][2 * i + 2] \in 1..Pow2[k]
      BY <3>2, SeedOrderStep, Zenon DEF Slots
    <3> QED
      <4>1. PICK x \in 1..Pow2[k], y \in 1..Pow2[k] :
              x = SeedOrder[k][2 * i + 1] /\ y = SeedOrder[k][2 * i + 2]
        BY <3>3
      <4>2. Sources(k, m) \in {<<Seed(x), Seed(y)>>, <<Seed(y), Seed(x)>>}
        BY <1>2, <2>1, <4>1, SourcesOfW
      <4>3. Earlier(k, rs, m, Seed(x)) /\ Earlier(k, rs, m, Seed(y))
        BY FromEarlier
      <4> QED
        BY <4>2, <4>3, PairEarlier
  <2>2. CASE r # 1
    <3>1. r - 1 \in 1..k /\ k - (r - 1) = (k - r) + 1 /\ k - r \in Nat
      BY <2>2
    <3>2. Pow2[k - (r - 1)] = 2 * Pow2[k - r] /\ Pow2[k - r] \in Nat
      BY <3>1, Pow2Step
    <3>3. 2 * i \in 0..Pow2[k - (r - 1)] - 1 /\ 2 * i + 1 \in 0..Pow2[k - (r - 1)] - 1
      BY <3>2
    <3>4. W(r - 1, 2 * i) \in Matches(k, rs) /\ W(r - 1, 2 * i + 1) \in Matches(k, rs)
      BY <3>1, <3>3, MatchesKinds
    <3>5. \A x : AppRound(k, W(r - 1, x)) < AppRound(k, W(r, i))
      BY <2>2, <3>1, RoundsOfMatches
    <3> QED
      BY <1>2, <2>2, <3>4, <3>5, SourcesOfW, FromEarlier, PairEarlier
  <2> QED
    BY <2>1, <2>2
<1>3. ASSUME NEW j \in 1..2 * (k - 1), NEW i \in 0..Pow2[k - 1 - (j + 1) \div 2] - 1, m = L(j, i)
      PROVE  BothEarlier(k, rs, m, Sources(k, m))
  <2>0. i \in Nat
    OBVIOUS
  <2>1. CASE j = 1
    <3>1. k - 1 - (j + 1) \div 2 = k - 2 /\ k - 2 \in Nat /\ k - 1 = (k - 2) + 1 /\ 1 \in 1..k
      BY <2>1
    <3>2. Pow2[k - 1] = 2 * Pow2[k - 2] /\ Pow2[k - 2] \in Nat
      BY <3>1, Pow2Step
    <3>3. 2 * i \in 0..Pow2[k - 1] - 1 /\ 2 * i + 1 \in 0..Pow2[k - 1] - 1
      BY <3>1, <3>2
    <3>4. W(1, 2 * i) \in Matches(k, rs) /\ W(1, 2 * i + 1) \in Matches(k, rs)
      BY <3>1, <3>3, MatchesKinds
    <3>5. \A x : AppRound(k, W(1, x)) < AppRound(k, L(j, i))
      BY <2>1, RoundsOfMatches
    <3> QED
      BY <1>3, <2>0, <2>1, <3>4, <3>5, SourcesOfL, FromEarlier, PairEarlier
  <2>2. CASE j # 1 /\ j % 2 = 1
    <3>1. /\ j - 1 \in 1..2 * (k - 1)
          /\ k - 1 - ((j - 1) + 1) \div 2 = (k - 1 - (j + 1) \div 2) + 1
          /\ k - 1 - (j + 1) \div 2 \in Nat
      BY <2>2
    <3>2. /\ Pow2[k - 1 - ((j - 1) + 1) \div 2] = 2 * Pow2[k - 1 - (j + 1) \div 2]
          /\ Pow2[k - 1 - (j + 1) \div 2] \in Nat
      BY <3>1, Pow2Step
    <3>3. /\ 2 * i \in 0..Pow2[k - 1 - ((j - 1) + 1) \div 2] - 1
          /\ 2 * i + 1 \in 0..Pow2[k - 1 - ((j - 1) + 1) \div 2] - 1
      BY <3>2
    <3>4. L(j - 1, 2 * i) \in Matches(k, rs) /\ L(j - 1, 2 * i + 1) \in Matches(k, rs)
      BY <3>1, <3>3, MatchesKinds
    <3>5. \A x : AppRound(k, L(j - 1, x)) < AppRound(k, L(j, i))
      BY <3>1, RoundsOfMatches
    <3> QED
      BY <1>3, <2>0, <2>2, <3>4, <3>5, SourcesOfL, FromEarlier, PairEarlier
  <2>3. CASE j % 2 = 0
    <3>1. /\ j - 1 \in 1..2 * (k - 1) /\ j \div 2 + 1 \in 1..k
          /\ ((j - 1) + 1) \div 2 = (j + 1) \div 2
          /\ k - 1 - (j + 1) \div 2 = k - (j \div 2 + 1)
          /\ k - (j \div 2 + 1) \in Nat
          /\ 2 * ((j \div 2 + 1) - 1) = j /\ j \div 2 + 1 # 1
      BY <2>3
    <3>2. PICK p \in Nat : p = Pow2[k - (j \div 2 + 1)]
      BY <3>1, Pow2Step
    <3>3. i \in 0..Pow2[k - 1 - ((j - 1) + 1) \div 2] - 1 /\ p - 1 - i \in 0..p - 1
      BY <3>1, <3>2
    <3>4. L(j - 1, i) \in Matches(k, rs) /\ Dropout(k, j, i) \in Matches(k, rs)
      BY <3>1, <3>2, <3>3, MatchesKinds DEF Dropout
    <3>5. /\ AppRound(k, L(j - 1, i)) < AppRound(k, L(j, i))
          /\ AppRound(k, Dropout(k, j, i)) < AppRound(k, L(j, i))
      <4>1. PICK q : q = j \div 2 + 1
        OBVIOUS
      <4>2. PICK x : Dropout(k, j, i) = W(q, x)
        BY <4>1 DEF Dropout
      <4>3. AppRound(k, W(q, x)) = j
        BY <3>1, <4>1, RoundsOfMatches
      <4>4. AppRound(k, L(j - 1, i)) = (j - 1) + 1 /\ AppRound(k, L(j, i)) = j + 1
        BY RoundsOfMatches, Zenon
      <4> QED
        BY <4>2, <4>3, <4>4
    <3> QED
      BY <1>3, <2>0, <2>3, <3>4, <3>5, SourcesOfL, FromEarlier, PairEarlier
  <2> QED
    BY <2>1, <2>2, <2>3
<1>4. CASE m \in {GF, GFR}
  <2>1. AppRound(k, m) \in {2 * k, 2 * k + 1}
    BY <1>4, RoundsOfMatches
  <2>2. Pow2[0] = 1
    BY Pow2Step
  <2>3. W(k, 0) \in Matches(k, rs)
    <3>1. k \in 1..k /\ 0 \in 0..Pow2[k - k] - 1
      BY <2>2
    <3> QED
      BY <3>1, MatchesKinds
  <2>4. AppRound(k, W(k, 0)) \in Int /\ AppRound(k, W(k, 0)) < 2 * k
    BY RoundsOfMatches, SMTT(60)
  <2>5. CASE k = 1
    <3>1. Sources(k, m) = <<WinnerOf(W(k, 0)), LoserOf(W(k, 0))>>
      BY <1>4, <2>5, SourcesOfGF DEF Champions
    <3>2. AppRound(k, W(k, 0)) < AppRound(k, m)
      BY <2>1, <2>4, RoundsOfMatches
    <3> QED
      BY <2>3, <3>1, <3>2, FromEarlier, PairEarlier
  <2>6. CASE k # 1
    <3>1. 2 * (k - 1) \in 1..2 * (k - 1) /\ k - 1 - (2 * (k - 1) + 1) \div 2 = 0
      BY <2>6
    <3>2. L(2 * (k - 1), 0) \in Matches(k, rs)
      <4>1. 0 \in 0..Pow2[k - 1 - (2 * (k - 1) + 1) \div 2] - 1
        BY <2>2, <3>1
      <4> QED
        BY <3>1, <4>1, MatchesKinds
    <3>3. AppRound(k, L(2 * (k - 1), 0)) = 2 * k - 1
      BY <3>1, RoundsOfMatches
    <3> QED
      <4>1. Sources(k, m) = <<WinnerOf(W(k, 0)), WinnerOf(L(2 * (k - 1), 0))>>
        BY <1>4, <2>6, SourcesOfGF DEF Champions
      <4>2. /\ AppRound(k, W(k, 0)) < AppRound(k, m)
            /\ AppRound(k, L(2 * (k - 1), 0)) < AppRound(k, m)
        BY <2>1, <2>4, <3>3, RoundsOfMatches
      <4> QED
        BY <2>3, <3>2, <4>1, <4>2, FromEarlier, PairEarlier
  <2> QED
    BY <2>5, <2>6
<1> QED
  BY <1>2, <1>3, <1>4, MatchesKinds

LEMMA RoundsRange ==
  ASSUME NEW k \in Nat \ {0}, NEW rs \in BOOLEAN, NEW m \in Matches(k, rs)
  PROVE  AppRound(k, m) \in 1..(IF rs THEN 2 * k + 1 ELSE 2 * k)
<1>1. ASSUME NEW r \in 1..k, NEW i, m = W(r, i) PROVE AppRound(k, m) \in 1..2 * k
  <2>1. AppRound(k, W(r, i)) = IF r = 1 THEN 1 ELSE 2 * (r - 1)
    BY RoundsOfMatches
  <2> QED
    BY <1>1, <2>1
<1>2. ASSUME NEW j \in 1..2 * (k - 1), NEW i, m = L(j, i) PROVE AppRound(k, m) \in 1..2 * k
  <2>1. AppRound(k, L(j, i)) = j + 1
    BY RoundsOfMatches
  <2> QED
    BY <1>2, <2>1
<1>3. CASE m = GF
  BY <1>3, RoundsOfMatches
<1>4. CASE rs /\ m = GFR
  BY <1>4, RoundsOfMatches
<1> QED
  BY <1>1, <1>2, <1>3, <1>4, MatchesKinds

\* The setting of a tournament
Setting == field \in Fields /\ reset \in BOOLEAN

K == Levels[field]

LEMMA SettingOf ==
  ASSUME Setting
  PROVE  /\ K \in Nat \ {0} /\ field \in Nat /\ field >= 2
         /\ Rounds = (IF reset THEN 2 * K + 1 ELSE 2 * K) /\ Rounds \in Nat
         /\ Pow2[K] \in Nat /\ Pow2[K] >= field /\ \A j \in 0..K - 1 : Pow2[j] < field
<1>1. /\ K \in Nat /\ K >= 1 /\ Pow2[K] >= field /\ \A j \in 0..K - 1 : Pow2[j] < field
  BY LevelsOf DEF Setting, K
<1>2. field \in Nat /\ field >= 2
  BY ConstantsAssumption DEF Setting
<1>3. Rounds = (IF reset THEN 2 * K + 1 ELSE 2 * K)
  BY <1>1 DEF Rounds, K, Setting
<1> QED
  BY <1>1, <1>2, <1>3, Pow2Step

\* The matches of a round, with their sources
LEMMA RoundOfSchedule ==
  ASSUME Setting, NEW r \in 1..Rounds
  PROVE  MatchesForRound(r) =
           [m \in {x \in Matches(K, reset) : AppRound(K, x) = r} |-> Sources(K, m)]
<1>1. r \in 1..2 * K + 1
  BY SettingOf
<1> QED
  BY <1>1 DEF MatchesForRound, Schedule, Setting, K

LEMMA AllMatchesOf ==
  ASSUME Setting
  PROVE  AllMatches = Matches(K, reset)
<1>1. \A r \in 1..Rounds : DOMAIN MatchesForRound(r) = {x \in Matches(K, reset) : AppRound(K, x) = r}
  BY RoundOfSchedule
<1>2. \A x \in Matches(K, reset) : AppRound(K, x) \in 1..Rounds
  BY RoundsRange, SettingOf DEF Setting
<1> QED
  BY <1>1, <1>2, Zenon DEF AllMatches

StepTo(bs, r, before) ==
  [m \in DOMAIN before |->
     IF m \in DOMAIN MatchesForRound(r)
     THEN Outcome(bs, r, before, MatchesForRound(r)[m]) ELSE before[m]]

LEMMA ResolvedDef ==
  ASSUME NEW bs
  PROVE  Resolved(bs) =
    (CHOOSE u : u = [r \in 0..Rounds |->
        IF r = 0 THEN [m \in AllMatches |-> Undecided] ELSE StepTo(bs, r, u[r - 1])])[Rounds]
<1> DEFINE step(r, u) == LET before == u[r - 1]
                             after == StepTo(bs, r, before) IN
                         IF after = before THEN before ELSE after
<1>1. \A r, u : step(r, u) = StepTo(bs, r, u[r - 1])
  OBVIOUS
<1>2. Resolved(bs) =
    (CHOOSE u : u = [r \in 0..Rounds |->
        IF r = 0 THEN [m \in AllMatches |-> Undecided] ELSE step(r, u)])[Rounds]
  BY DEF Resolved, StepTo
<1> QED
  BY <1>1, <1>2, Zenon

-----------------------------------------------------------------------------
(* The outcome of a match.                                                 *)

LEMMA OutcomeParts ==
  ASSUME NEW bs, NEW r, NEW before, NEW sources, NEW s, s = sources[1], NEW t, t = sources[2],
         NEW o, o = Outcome(bs, r, before, sources)
  PROVE  /\ o.a = Resolve(before, s) /\ o.b = Resolve(before, t)
         /\ Absent(before, s) => o.winner = o.b
         /\ ~Absent(before, s) /\ Absent(before, t) => o.winner = o.a
         /\ ~Absent(before, s) /\ ~Absent(before, t) =>
              o.winner = IF o.a # Nobody /\ o.b # Nobody THEN WinnerOfBoard(bs, r, o.a, o.b) ELSE Nobody
         /\ o.loser = IF o.a = Nobody \/ o.b = Nobody \/ o.winner = Nobody THEN Nobody
                      ELSE IF o.winner = o.b THEN o.a ELSE o.b
         /\ o.empty = (Absent(before, s) /\ Absent(before, t))
         /\ o.lacks_loser = (Absent(before, s) \/ Absent(before, t))
         /\ o = [a |-> o.a, b |-> o.b, winner |-> o.winner, loser |-> o.loser,
                 empty |-> o.empty, lacks_loser |-> o.lacks_loser]
<1>1. PICK a, b : a = Resolve(before, s) /\ b = Resolve(before, t)
  OBVIOUS
<1> DEFINE played == a # Nobody /\ b # Nobody
           winner ==
             CASE Absent(before, s) -> b
               [] ~Absent(before, s) /\ Absent(before, t) -> a
               [] ~Absent(before, s) /\ ~Absent(before, t) /\ played -> WinnerOfBoard(bs, r, a, b)
               [] OTHER -> Nobody
<1>2. o = [a |-> a, b |-> b, winner |-> winner,
           loser |-> IF ~played \/ winner = Nobody THEN Nobody ELSE IF winner = b THEN a ELSE b,
           empty |-> Absent(before, s) /\ Absent(before, t),
           lacks_loser |-> Absent(before, s) \/ Absent(before, t)]
  BY <1>1 DEF Outcome
<1>3. /\ Absent(before, s) => winner = b
      /\ ~Absent(before, s) /\ Absent(before, t) => winner = a
      /\ ~Absent(before, s) /\ ~Absent(before, t) =>
           winner = IF played THEN WinnerOfBoard(bs, r, a, b) ELSE Nobody
  OBVIOUS
<1>4. PICK w : w = winner
  BY Zenon
<1>5. /\ o.a = a /\ o.b = b /\ o.winner = w
      /\ o.loser = IF ~played \/ w = Nobody THEN Nobody ELSE IF w = b THEN a ELSE b
      /\ o.empty = (Absent(before, s) /\ Absent(before, t))
      /\ o.lacks_loser = (Absent(before, s) \/ Absent(before, t))
  BY <1>2, <1>4
<1> HIDE DEF winner
<1>6. o = [a |-> o.a, b |-> o.b, winner |-> o.winner, loser |-> o.loser,
           empty |-> o.empty, lacks_loser |-> o.lacks_loser]
  BY <1>2
<1> QED
  BY <1>1, <1>3, <1>4, <1>5, <1>6

Typed(bs) == bs \in [1..Rounds -> SUBSET Boards]

OutcomeSet ==
  [a : 0..field, b : 0..field, winner : 0..field, loser : 0..field,
   empty : BOOLEAN, lacks_loser : BOOLEAN]

Outcomes == [Matches(K, reset) -> OutcomeSet]

LEMMA BoardWinnerType ==
  ASSUME Setting, NEW x \in Boards
  PROVE  BoardWinner(x) \in 0..field
<1>1. field \in Nat /\ Nobody = 0
  BY SettingOf DEF Nobody
<1>2. x.white \in 0..field /\ x.black \in 0..field /\ x.pick \in 0..field
  BY <1>1 DEF Boards, Players
<1> QED
  BY <1>1, <1>2 DEF BoardWinner

\* Of the boards of a round there is a first one.
LEMMA FirstBoard ==
  ASSUME NEW found, found \subseteq Boards, found # {}
  PROVE  (CHOOSE x \in found : \A y \in found : x.table <= y.table) \in found
<1>1. PICK T : T = {x.table : x \in found}
  OBVIOUS
<1>2. T \in SUBSET Nat /\ T # {}
  BY <1>1 DEF Boards
<1>3. PICK t \in T : \A u \in T : t <= u
  BY <1>2, LeastNatural
<1>4. \E x \in found : \A y \in found : x.table <= y.table
  BY <1>1, <1>3
<1> QED
  BY <1>4

LEMMA WinnerOfBoardType ==
  ASSUME Setting, NEW bs, Typed(bs), NEW r \in 1..Rounds, NEW a, NEW b
  PROVE  WinnerOfBoard(bs, r, a, b) \in 0..field
<1> DEFINE contested == {x \in bs[r] : Contested(x)}
           both == {x \in contested : {a, b} \subseteq Seats(x)}
           either == {x \in contested : Seats(x) \cap {a, b} # {}}
<1>1. PICK found : found = IF both # {} THEN both ELSE either
  OBVIOUS
<1>2. PICK c : c = CHOOSE x \in found : \A y \in found : x.table <= y.table
  OBVIOUS
<1>3. WinnerOfBoard(bs, r, a, b) = IF found = {} THEN Nobody ELSE BoardWinner(c)
  BY <1>1, <1>2 DEF WinnerOfBoard
<1>4. found \subseteq Boards
  BY <1>1 DEF Typed
<1>5. CASE found = {}
  BY <1>3, <1>5, SettingOf DEF Nobody
<1>6. CASE found # {}
  BY <1>2, <1>3, <1>4, <1>6, FirstBoard, BoardWinnerType
<1> QED
  BY <1>5, <1>6

LEMMA SourceTypes ==
  ASSUME Setting, NEW before \in Outcomes, NEW m, NEW s, Earlier(K, reset, m, s)
  PROVE  Resolve(before, s) \in 0..field /\ Absent(before, s) \in BOOLEAN
<1>1. field \in Nat /\ Nobody = 0
  BY SettingOf DEF Nobody
<1>2. CASE s.kind = "seed" /\ s.seed \in 1..Pow2[K]
  BY <1>1, <1>2, SettingOf DEF Resolve, Absent
<1>3. CASE s.kind \in {"winner", "loser"} /\ s.of \in Matches(K, reset)
  <2>1. before[s.of] \in OutcomeSet
    BY <1>3 DEF Outcomes
  <2>2. /\ before[s.of].winner \in 0..field /\ before[s.of].loser \in 0..field
        /\ before[s.of].empty \in BOOLEAN /\ before[s.of].lacks_loser \in BOOLEAN
    BY <2>1 DEF OutcomeSet
  <2>3. CASE s.kind = "winner"
    BY <2>2, <2>3 DEF Resolve, Absent
  <2>4. CASE s.kind = "loser"
    BY <2>2, <2>4 DEF Resolve, Absent
  <2> QED
    BY <1>3, <2>3, <2>4
<1> QED
  BY <1>2, <1>3 DEF Earlier

LEMMA OutcomeType ==
  ASSUME Setting, NEW bs, Typed(bs), NEW r \in 1..Rounds, NEW before \in Outcomes,
         NEW m \in Matches(K, reset)
  PROVE  Outcome(bs, r, before, Sources(K, m)) \in OutcomeSet
<1>1. PICK s, t, o : /\ s = Sources(K, m)[1] /\ t = Sources(K, m)[2]
                     /\ o = Outcome(bs, r, before, Sources(K, m))
  OBVIOUS
<1>2. K \in Nat \ {0} /\ reset \in BOOLEAN /\ field \in Nat /\ Nobody = 0
  BY SettingOf DEF Setting, Nobody
<1>3. Earlier(K, reset, m, s) /\ Earlier(K, reset, m, t)
  BY <1>1, <1>2, SourcesEarlier DEF BothEarlier
<1>4. o.a \in 0..field /\ o.b \in 0..field
  BY <1>1, <1>3, OutcomeParts, SourceTypes
<1>5. WinnerOfBoard(bs, r, o.a, o.b) \in 0..field
  BY WinnerOfBoardType
<1>6. o.winner \in 0..field
  BY <1>1, <1>2, <1>4, <1>5, OutcomeParts
<1>7. o.loser \in 0..field
  BY <1>1, <1>2, <1>4, OutcomeParts
<1>8. o.empty \in BOOLEAN /\ o.lacks_loser \in BOOLEAN
  <2>1. /\ o.empty = (Absent(before, s) /\ Absent(before, t))
        /\ o.lacks_loser = (Absent(before, s) \/ Absent(before, t))
    BY <1>1, OutcomeParts
  <2>2. Absent(before, s) \in BOOLEAN /\ Absent(before, t) \in BOOLEAN
    BY <1>3, SourceTypes
  <2> QED
    BY <2>1, <2>2
<1>9. o = [a |-> o.a, b |-> o.b, winner |-> o.winner, loser |-> o.loser,
           empty |-> o.empty, lacks_loser |-> o.lacks_loser]
  BY <1>1, OutcomeParts
<1> QED
  BY <1>1, <1>4, <1>6, <1>7, <1>8, <1>9 DEF OutcomeSet

LEMMA StepToType ==
  ASSUME Setting, NEW bs, Typed(bs), NEW r \in 1..Rounds, NEW before \in Outcomes
  PROVE  /\ StepTo(bs, r, before) \in Outcomes
         /\ \A m \in Matches(K, reset) :
              StepTo(bs, r, before)[m] =
                IF AppRound(K, m) = r THEN Outcome(bs, r, before, Sources(K, m)) ELSE before[m]
<1>1. DOMAIN before = Matches(K, reset)
  BY DEF Outcomes
<1>2. /\ DOMAIN MatchesForRound(r) = {x \in Matches(K, reset) : AppRound(K, x) = r}
      /\ \A m \in DOMAIN MatchesForRound(r) : MatchesForRound(r)[m] = Sources(K, m)
  BY RoundOfSchedule
<1>3. StepTo(bs, r, before) =
        [m \in Matches(K, reset) |->
           IF AppRound(K, m) = r THEN Outcome(bs, r, before, Sources(K, m)) ELSE before[m]]
  BY <1>1, <1>2 DEF StepTo
<1>4. \A m \in Matches(K, reset) :
        (IF AppRound(K, m) = r THEN Outcome(bs, r, before, Sources(K, m)) ELSE before[m]) \in OutcomeSet
  BY OutcomeType DEF Outcomes
<1> QED
  BY <1>3, <1>4 DEF Outcomes

LEMMA UndecidedType ==
  ASSUME Setting
  PROVE  [m \in AllMatches |-> Undecided] \in Outcomes
<1>1. Undecided \in OutcomeSet
  BY SettingOf DEF Undecided, OutcomeSet, Nobody
<1> QED
  BY <1>1, AllMatchesOf DEF Outcomes

\* What the engine makes of the boards, round after round: the outcomes worked
\* out before a round, for each of its rounds.
Known(bs, u) ==
  /\ u[0] = [m \in AllMatches |-> Undecided]
  /\ \A r \in 0..Rounds : u[r] \in Outcomes
  /\ \A r \in 1..Rounds : u[r] = StepTo(bs, r, u[r - 1])
  /\ Resolved(bs) = u[Rounds]

LEMMA KnownExists ==
  ASSUME Setting, NEW bs, Typed(bs)
  PROVE  \E u : Known(bs, u)
<1>1. PICK n \in Nat : n = Rounds
  BY SettingOf
<1>2. PICK start : start = [m \in AllMatches |-> Undecided] /\ start \in Outcomes
  BY UndecidedType
<1>3. PICK S : S = Outcomes
  OBVIOUS
<1> DEFINE T == [i \in Nat |-> S]
           G == [i \in Nat |-> [v \in S |-> IF i + 1 \in 1..n THEN StepTo(bs, i + 1, v) ELSE v]]
<1>4. start \in T[0]
  BY <1>2, <1>3
<1>5. \A i \in Nat : G[i] \in [T[i] -> T[i + 1]]
  <2> SUFFICES ASSUME NEW i \in Nat PROVE G[i] \in [S -> S]
    OBVIOUS
  <2>1. \A v \in S : (IF i + 1 \in 1..n THEN StepTo(bs, i + 1, v) ELSE v) \in S
    BY <1>1, <1>3, StepToType
  <2> QED
    BY <2>1
<1>6. PICK f : /\ f = [i \in Nat |-> IF i = 0 THEN start ELSE G[i - 1][f[i - 1]]]
               /\ \A i \in Nat : f[i] \in T[i]
  <2> HIDE DEF T, G
  <2> QED
    BY <1>4, <1>5, Recursion
<1>7. \A i \in Nat : f[i] \in S
  BY <1>6
<1>8. f[0] = start
  BY <1>6
<1>9. ASSUME NEW r \in 1..n PROVE f[r] = StepTo(bs, r, f[r - 1])
  <2>1. r - 1 \in Nat /\ (r - 1) + 1 = r /\ r \in Nat /\ r # 0
    BY <1>1
  <2>2. f[r - 1] \in S
    BY <1>7, <2>1
  <2>3. G[r - 1][f[r - 1]] = StepTo(bs, r, f[r - 1])
    BY <2>1, <2>2
  <2> QED
    BY <1>6, <2>1, <2>3
<1>10. PICK u : u = [r \in 0..n |-> f[r]]
  BY Zenon
<1>11. /\ u[0] = start /\ \A r \in 0..n : u[r] \in S
       /\ \A r \in 1..n : u[r] = StepTo(bs, r, u[r - 1])
  BY <1>1, <1>7, <1>8, <1>9, <1>10
<1>12. ASSUME NEW r \in 0..n PROVE u[r] = IF r = 0 THEN start ELSE StepTo(bs, r, u[r - 1])
  BY <1>11
<1>13. u = [r \in 0..n |-> IF r = 0 THEN start ELSE StepTo(bs, r, u[r - 1])]
  BY <1>10, <1>12
<1>14. PICK w : w = CHOOSE x : x = [r \in 0..n |-> IF r = 0 THEN start ELSE StepTo(bs, r, x[r - 1])]
  OBVIOUS
<1>15. w = [r \in 0..n |-> IF r = 0 THEN start ELSE StepTo(bs, r, w[r - 1])]
  BY <1>13, <1>14, Zenon
<1>16. Resolved(bs) = w[n]
  BY <1>1, <1>2, <1>14, ResolvedDef
<1>17. w[0] = start /\ \A r \in 1..n : w[r] = StepTo(bs, r, w[r - 1])
  BY <1>1, <1>15
<1>18. \A r \in 0..n : w[r] \in S
  <2> DEFINE P == {r \in Nat : w[r] \in S}
  <2>1. 0 \in P
    BY <1>2, <1>3, <1>17
  <2>2. ASSUME NEW r \in 0..n - 1, r \in P PROVE r + 1 \in P
    <3>1. r + 1 \in 1..n /\ (r + 1) - 1 = r
      BY <1>1
    <3>2. w[r + 1] = StepTo(bs, r + 1, w[r])
      BY <1>17, <3>1
    <3> QED
      BY <1>1, <1>3, <2>2, <3>1, <3>2, StepToType
  <2> HIDE DEF P
  <2>3. 0..n \subseteq P
    BY <1>1, <2>1, <2>2, InductionUpTo
  <2> QED
    BY <2>3 DEF P
<1> QED
  BY <1>1, <1>2, <1>3, <1>16, <1>17, <1>18 DEF Known

\* A source that is a match.
FromMatch(s) == s.kind \in {"winner", "loser"}

\* What comes from a source is told by the outcome of its match.
LEMMA ResolveCongruent ==
  ASSUME NEW k, NEW rs, NEW m, NEW s, Earlier(k, rs, m, s), NEW x, NEW y,
         FromMatch(s) => x[s.of] = y[s.of]
  PROVE  Resolve(x, s) = Resolve(y, s) /\ Absent(x, s) = Absent(y, s)
<1>1. CASE s.kind = "seed"
  BY <1>1 DEF Resolve, Absent
<1>2. CASE s.kind = "winner"
  BY <1>2 DEF Resolve, Absent, FromMatch
<1>3. CASE s.kind = "loser"
  BY <1>3 DEF Resolve, Absent, FromMatch
<1> QED
  BY <1>1, <1>2, <1>3 DEF Earlier

LEMMA OutcomeCongruent ==
  ASSUME NEW k, NEW rs, NEW m, NEW pair, BothEarlier(k, rs, m, pair), NEW x, NEW y,
         FromMatch(pair[1]) => x[pair[1].of] = y[pair[1].of],
         FromMatch(pair[2]) => x[pair[2].of] = y[pair[2].of],
         NEW r, NEW bs, NEW cs
  PROVE  /\ Outcome(bs, r, x, pair).a = Outcome(cs, r, y, pair).a
         /\ Outcome(bs, r, x, pair).b = Outcome(cs, r, y, pair).b
         /\ bs[r] = cs[r] => Outcome(bs, r, x, pair) = Outcome(cs, r, y, pair)
<1>1. PICK s, t : s = pair[1] /\ t = pair[2]
  OBVIOUS
<1>2. PICK o, p : o = Outcome(bs, r, x, pair) /\ p = Outcome(cs, r, y, pair)
  OBVIOUS
<1>3. /\ Resolve(x, s) = Resolve(y, s) /\ Absent(x, s) = Absent(y, s)
      /\ Resolve(x, t) = Resolve(y, t) /\ Absent(x, t) = Absent(y, t)
  BY <1>1, ResolveCongruent DEF BothEarlier
<1>4. o.a = p.a /\ o.b = p.b
  BY <1>1, <1>2, <1>3, OutcomeParts
<1>5. ASSUME bs[r] = cs[r] PROVE o = p
  <2>1. WinnerOfBoard(bs, r, o.a, o.b) = WinnerOfBoard(cs, r, p.a, p.b)
    BY <1>4, <1>5 DEF WinnerOfBoard
  <2>2. PICK sa, ta : sa = Absent(x, s) /\ ta = Absent(x, t)
    OBVIOUS
  <2>3. /\ sa => o.winner = o.b
        /\ ~sa /\ ta => o.winner = o.a
        /\ ~sa /\ ~ta =>
             o.winner = IF o.a # Nobody /\ o.b # Nobody THEN WinnerOfBoard(bs, r, o.a, o.b) ELSE Nobody
        /\ sa => p.winner = p.b
        /\ ~sa /\ ta => p.winner = p.a
        /\ ~sa /\ ~ta =>
             p.winner = IF p.a # Nobody /\ p.b # Nobody THEN WinnerOfBoard(cs, r, p.a, p.b) ELSE Nobody
    BY <1>1, <1>2, <1>3, <2>2, OutcomeParts
  <2>4. o.winner = p.winner
    BY <1>4, <2>1, <2>3
  <2>5. o.loser = p.loser
    BY <1>1, <1>2, <1>4, <2>4, OutcomeParts
  <2>6. o.empty = p.empty /\ o.lacks_loser = p.lacks_loser
    BY <1>1, <1>2, <1>3, OutcomeParts
  <2>7. /\ o = [a |-> o.a, b |-> o.b, winner |-> o.winner, loser |-> o.loser,
                empty |-> o.empty, lacks_loser |-> o.lacks_loser]
        /\ p = [a |-> p.a, b |-> p.b, winner |-> p.winner, loser |-> p.loser,
                empty |-> p.empty, lacks_loser |-> p.lacks_loser]
    BY <1>1, <1>2, OutcomeParts
  <2> QED
    BY <1>4, <2>4, <2>5, <2>6, <2>7
<1> QED
  BY <1>2, <1>4, <1>5

\* The outcome of a match stands from its round on.
LEMMA KnownStands ==
  ASSUME Setting, NEW bs, Typed(bs), NEW u, Known(bs, u), NEW m \in Matches(K, reset),
         NEW q \in 0..Rounds, AppRound(K, m) <= q
  PROVE  u[q][m] = u[AppRound(K, m)][m]
<1>1. PICK n \in Nat : n = Rounds
  BY SettingOf
<1>2. PICK a \in 1..n : a = AppRound(K, m)
  BY <1>1, SettingOf, RoundsRange DEF Setting
<1> DEFINE P == {i \in Nat : i >= a => u[i][m] = u[a][m]}
<1>3. 0 \in P
  OBVIOUS
<1>4. ASSUME NEW i \in 0..n - 1, i \in P PROVE i + 1 \in P
  <2>1. i + 1 \in 1..n /\ (i + 1) - 1 = i /\ i \in 0..n
    BY <1>1
  <2>2. u[i + 1] = StepTo(bs, i + 1, u[i]) /\ u[i] \in Outcomes
    BY <1>1, <2>1 DEF Known
  <2>3. CASE i + 1 = a
    BY <2>3
  <2>4. CASE i + 1 # a
    <3>1. u[i + 1][m] = u[i][m]
      BY <1>1, <1>2, <2>1, <2>2, <2>4, StepToType
    <3> QED
      BY <1>4, <2>4, <3>1
  <2> QED
    BY <2>3, <2>4
<1> HIDE DEF P
<1>5. 0..n \subseteq P
  BY <1>1, <1>3, <1>4, InductionUpTo
<1> QED
  BY <1>1, <1>2, <1>5 DEF P

\* Each match has the outcome its sources give it, which are of earlier rounds.
Worked(bs, o) ==
  /\ o \in Outcomes
  /\ \A m \in Matches(K, reset) : o[m] = Outcome(bs, AppRound(K, m), o, Sources(K, m))

LEMMA ResolvedFixpoint ==
  ASSUME Setting, NEW bs, Typed(bs), NEW o, o = Resolved(bs)
  PROVE  Worked(bs, o)
<1>1. PICK u : Known(bs, u)
  BY KnownExists
<1>2. PICK n \in Nat : n = Rounds
  BY SettingOf
<1>3. o = u[n] /\ o \in Outcomes
  BY <1>1, <1>2 DEF Known
<1>4. ASSUME NEW m \in Matches(K, reset)
      PROVE  o[m] = Outcome(bs, AppRound(K, m), o, Sources(K, m))
  <2>1. PICK a \in 1..n : a = AppRound(K, m)
    BY <1>2, SettingOf, RoundsRange DEF Setting
  <2>2. PICK pair : pair = Sources(K, m)
    OBVIOUS
  <2>3. BothEarlier(K, reset, m, pair)
    BY <2>2, SettingOf, SourcesEarlier DEF Setting
  <2>4. o[m] = u[a][m]
    BY <1>1, <1>2, <1>3, <2>1, KnownStands
  <2>5. u[a] = StepTo(bs, a, u[a - 1]) /\ u[a - 1] \in Outcomes
    BY <1>1, <1>2, <2>1 DEF Known
  <2>6. u[a][m] = Outcome(bs, a, u[a - 1], pair)
    BY <1>2, <2>1, <2>2, <2>5, StepToType
  <2>7. ASSUME NEW s, Earlier(K, reset, m, s), FromMatch(s)
        PROVE  u[a - 1][s.of] = o[s.of]
    <3>1. PICK x \in Matches(K, reset) : x = s.of /\ AppRound(K, x) < a
      BY <2>1, <2>7 DEF Earlier, FromMatch
    <3>2. AppRound(K, x) \in 1..n
      BY <1>2, SettingOf, RoundsRange DEF Setting
    <3>3. u[a - 1][x] = u[AppRound(K, x)][x] /\ u[n][x] = u[AppRound(K, x)][x]
      BY <1>1, <1>2, <2>1, <3>1, <3>2, KnownStands
    <3> QED
      BY <1>3, <3>1, <3>3
  <2>8. /\ FromMatch(pair[1]) => u[a - 1][pair[1].of] = o[pair[1].of]
        /\ FromMatch(pair[2]) => u[a - 1][pair[2].of] = o[pair[2].of]
    BY <2>3, <2>7 DEF BothEarlier
  <2>9. Outcome(bs, a, u[a - 1], pair) = Outcome(bs, a, o, pair)
    <3>1. PICK before : before = u[a - 1]
      OBVIOUS
    <3>2. bs[a] = bs[a] => Outcome(bs, a, before, pair) = Outcome(bs, a, o, pair)
      BY <2>3, <2>8, <3>1, OutcomeCongruent
    <3> QED
      BY <3>1, <3>2
  <2> QED
    BY <2>1, <2>2, <2>4, <2>6, <2>9
<1> QED
  BY <1>3, <1>4 DEF Worked

\* What the boards of the first rounds decide: the outcomes of those rounds, and
\* who plays the next one.
LEMMA OutcomesStand ==
  ASSUME Setting, NEW bs, NEW cs, NEW q \in Nat, \A r \in 1..q : bs[r] = cs[r],
         NEW o, Worked(bs, o), NEW p, Worked(cs, p),
         NEW m \in Matches(K, reset)
  PROVE  /\ AppRound(K, m) <= q => o[m] = p[m]
         /\ AppRound(K, m) = q + 1 => o[m].a = p[m].a /\ o[m].b = p[m].b
<1>1. \A x \in Matches(K, reset) : AppRound(K, x) \in Nat \ {0}
  <2>1. \A x \in Matches(K, reset) : AppRound(K, x) \in 1..(IF reset THEN 2 * K + 1 ELSE 2 * K)
    BY SettingOf, RoundsRange DEF Setting
  <2> QED
    BY <2>1, SettingOf
<1> DEFINE P == {i \in Nat : \A x \in Matches(K, reset) : AppRound(K, x) <= i => o[x] = p[x]}
<1>2. ASSUME NEW i \in 0..q, i \in P, NEW x \in Matches(K, reset), AppRound(K, x) = i + 1
      PROVE  /\ o[x].a = p[x].a /\ o[x].b = p[x].b
             /\ i < q => o[x] = p[x]
  <2>1. PICK pair : pair = Sources(K, x)
    OBVIOUS
  <2>2. BothEarlier(K, reset, x, pair)
    BY <2>1, SettingOf, SourcesEarlier DEF Setting
  <2>3. o[x] = Outcome(bs, i + 1, o, pair) /\ p[x] = Outcome(cs, i + 1, p, pair)
    BY <1>2, <2>1 DEF Worked
  <2>4. ASSUME NEW s, Earlier(K, reset, x, s), FromMatch(s)
        PROVE  o[s.of] = p[s.of]
    <3>1. PICK y \in Matches(K, reset) : y = s.of /\ AppRound(K, y) < i + 1
      BY <1>2, <2>4 DEF Earlier, FromMatch
    <3>2. AppRound(K, y) <= i
      BY <1>1, <3>1
    <3> QED
      BY <1>2, <3>1, <3>2
  <2>5. /\ FromMatch(pair[1]) => o[pair[1].of] = p[pair[1].of]
        /\ FromMatch(pair[2]) => o[pair[2].of] = p[pair[2].of]
    BY <2>2, <2>4 DEF BothEarlier
  <2>6. i < q => bs[i + 1] = cs[i + 1]
    OBVIOUS
  <2> QED
    BY <2>2, <2>3, <2>5, <2>6, OutcomeCongruent
<1>3. 0 \in P
  BY <1>1
<1>4. ASSUME NEW i \in 0..q - 1, i \in P PROVE i + 1 \in P
  <2> SUFFICES ASSUME NEW x \in Matches(K, reset), AppRound(K, x) <= i + 1
               PROVE  o[x] = p[x]
    OBVIOUS
  <2>1. CASE AppRound(K, x) <= i
    BY <1>4, <2>1
  <2>2. CASE AppRound(K, x) = i + 1
    BY <1>2, <1>4, <2>2
  <2> QED
    BY <1>1, <2>1, <2>2
<1> HIDE DEF P
<1>5. 0..q \subseteq P
  BY <1>3, <1>4, InductionUpTo
<1>6. q \in P
  BY <1>5
<1>7. AppRound(K, m) <= q => o[m] = p[m]
  BY <1>6 DEF P
<1>8. AppRound(K, m) = q + 1 => o[m].a = p[m].a /\ o[m].b = p[m].b
  BY <1>2, <1>6
<1> QED
  BY <1>7, <1>8

-----------------------------------------------------------------------------
(* A step leaves the field and the setting as they are.                    *)

Fixpoints == Setting => \A bs : Typed(bs) => Worked(bs, Resolved(bs))

LEMMA AllFixpoints == Fixpoints
  BY ResolvedFixpoint DEF Fixpoints

LEMMA NextFixpoints == Fixpoints'
  BY AllFixpoints, PTL

\* The boards say all there is to know.
LEMMA ResolvedStays ==
  ASSUME Setting, UNCHANGED <<field, reset>>, NEW bs, Typed(bs)
  PROVE  Resolved(bs)' = Resolved(bs)
<1>1. K' = K /\ Rounds' = Rounds /\ Setting'
  BY DEF K, Rounds, Setting
<1>2. Outcomes' = Outcomes
  BY <1>1 DEF Outcomes, OutcomeSet
<1>3. Typed(bs)'
  BY <1>1 DEF Typed, Boards, Players, Results
<1>4. PICK p : p = Resolved(bs)'
  OBVIOUS
<1>5. \A cs : (Typed(cs))' => (Worked(cs, Resolved(cs)))'
  BY <1>1, NextFixpoints DEF Fixpoints
<1>6. (Worked(bs, Resolved(bs)))'
  BY <1>3, <1>5
<1>7. /\ p \in Outcomes
      /\ \A m \in Matches(K, reset) :
           p[m] = (Outcome(bs, AppRound(K, m), Resolved(bs), Sources(K, m)))'
  BY <1>1, <1>2, <1>4, <1>6 DEF Worked
<1>8. ASSUME NEW m \in Matches(K, reset)
      PROVE  p[m] = Outcome(bs, AppRound(K, m), p, Sources(K, m))
  <2>1. PICK r, s : r = AppRound(K, m) /\ s = Sources(K, m)
    OBVIOUS
  <2>2. Outcome(bs, r, p, s)' = Outcome(bs, r, p, s)
    BY DEF Outcome, Resolve, Absent
  <2>3. (Outcome(bs, AppRound(K, m), Resolved(bs), Sources(K, m)))' = Outcome(bs, r, p, s)'
    BY <1>1, <1>4, <2>1
  <2> QED
    BY <1>7, <2>1, <2>2, <2>3
<1>9. PICK o : o = Resolved(bs) /\ Worked(bs, o)
  BY ResolvedFixpoint
<1>10. Worked(bs, p)
  BY <1>7, <1>8 DEF Worked
<1>11. ASSUME NEW m \in Matches(K, reset) PROVE o[m] = p[m]
  <2>1. AppRound(K, m) <= Rounds /\ Rounds \in Nat
    <3>1. AppRound(K, m) \in 1..Rounds
      BY SettingOf, RoundsRange DEF Setting
    <3> QED
      BY <3>1, SettingOf
  <2>2. PICK n, cs : n = Rounds /\ cs = bs
    OBVIOUS
  <2>3. AppRound(K, m) <= n => o[m] = p[m]
    <3>1. \A r \in 1..n : bs[r] = cs[r]
      BY <2>2
    <3>2. Worked(bs, o) /\ Worked(cs, p)
      BY <1>9, <1>10, <2>2
    <3>3. n \in Nat
      BY <2>1, <2>2
    <3> QED
      BY <3>1, <3>2, <3>3, OutcomesStand
  <2> QED
    BY <2>1, <2>2, <2>3
<1>12. o = p
  BY <1>9, <1>10, <1>11 DEF Worked, Outcomes
<1> QED
  BY <1>4, <1>9, <1>12

-----------------------------------------------------------------------------
(* The pairs of a round.                                                   *)

\* The match the second finalist comes from.
SecondFrom == Champions(K)[2].of

LEMMA FinalMatches ==
  ASSUME Setting
  PROVE  /\ GF \in Matches(K, reset) /\ AppRound(K, GF) = 2 * K
         /\ SecondFrom \in Matches(K, reset) /\ AppRound(K, SecondFrom) < 2 * K
<1>1. K \in Nat \ {0} /\ reset \in BOOLEAN
  BY SettingOf DEF Setting
<1>2. GF \in Matches(K, reset) /\ AppRound(K, GF) = 2 * K
  BY <1>1, MatchesKinds, RoundsOfMatches
<1>3. PICK s : s = Champions(K)[2]
  OBVIOUS
<1>4. Earlier(K, reset, GF, s)
  BY <1>1, <1>2, <1>3, SourcesEarlier, SourcesOfGF DEF BothEarlier
<1>5. s.kind \in {"winner", "loser"}
  BY <1>3 DEF Champions, WinnerOf, LoserOf
<1> QED
  BY <1>2, <1>3, <1>4, <1>5 DEF Earlier, SecondFrom

LEMMA RoundOfMatch ==
  ASSUME Setting, NEW r \in 1..Rounds
  PROVE  DOMAIN MatchesForRound(r) = {x \in Matches(K, reset) : AppRound(K, x) = r}
  BY RoundOfSchedule

LEMMA PairsStand ==
  ASSUME Setting, NEW bs, NEW cs, NEW q \in Nat, \A r \in 1..q : bs[r] = cs[r],
         NEW o, Worked(bs, o), NEW p, Worked(cs, p),
         NEW r \in 1..Rounds, r <= q + 1
  PROVE  Pairs(o, r) = Pairs(p, r)
<1>1. K \in Nat \ {0} /\ reset \in BOOLEAN /\ Rounds \in Nat
  BY SettingOf DEF Setting
<1>0. \A x \in Matches(K, reset) :
        /\ AppRound(K, x) <= q => o[x] = p[x]
        /\ AppRound(K, x) = q + 1 => o[x].a = p[x].a /\ o[x].b = p[x].b
  BY OutcomesStand
<1>2. ASSUME NEW x \in DOMAIN MatchesForRound(r)
      PROVE  o[x].a = p[x].a /\ o[x].b = p[x].b
  <2>1. x \in Matches(K, reset) /\ AppRound(K, x) = r
    BY <1>2, RoundOfMatch, Zenon
  <2>2. CASE r <= q
    <3>1. o[x] = p[x]
      BY <1>0, <2>1, <2>2
    <3> QED
      BY <3>1
  <2>3. CASE r = q + 1
    BY <1>0, <2>1, <2>3
  <2> QED
    BY <1>1, <2>2, <2>3
<1>3. ASSUME GFR \in DOMAIN MatchesForRound(r)
      PROVE  ResetNeeded(o) = ResetNeeded(p)
  <2>1. AppRound(K, GFR) = r /\ AppRound(K, GFR) = 2 * K + 1
    BY <1>1, <1>3, RoundOfMatch, RoundsOfMatches, ZenonT(60)
  <2>2. 2 * K <= q
    BY <1>1, <2>1
  <2>3. PICK x \in Matches(K, reset) : x = SecondFrom /\ AppRound(K, x) <= q
    <3>1. PICK a \in Int : a = AppRound(K, SecondFrom)
      <4>1. AppRound(K, SecondFrom) \in 1..(IF reset THEN 2 * K + 1 ELSE 2 * K)
        BY <1>1, FinalMatches, RoundsRange
      <4> QED
        BY <1>1, <4>1
    <3> QED
      BY <1>1, <2>2, <3>1, FinalMatches
  <2>4. o[GF] = p[GF] /\ o[x] = p[x]
    BY <1>0, <2>2, <2>3, FinalMatches
  <2> QED
    BY <2>3, <2>4 DEF ResetNeeded, K, SecondFrom
<1>4. ASSUME NEW x \in DOMAIN MatchesForRound(r)
      PROVE  (x = GFR => ResetNeeded(o)) <=> (x = GFR => ResetNeeded(p))
  BY <1>3, <1>4
<1>5. \A x \in DOMAIN MatchesForRound(r) :
        /\ {o[x].a, o[x].b} # {Nobody} <=> {p[x].a, p[x].b} # {Nobody}
        /\ Pair(o, x) = Pair(p, x)
  BY <1>2 DEF Pair
<1>6. PICK D : D = DOMAIN MatchesForRound(r)
  OBVIOUS
<1>7. {x \in D : {o[x].a, o[x].b} # {Nobody} /\ (x = GFR => ResetNeeded(o))} =
      {x \in D : {p[x].a, p[x].b} # {Nobody} /\ (x = GFR => ResetNeeded(p))}
  BY <1>4, <1>5, <1>6, Zenon
<1>8. PICK X : X = Played(o, r) /\ X = Played(p, r) /\ X \subseteq D
  BY <1>6, <1>7, Zenon DEF Played
<1>9. PICK g, h : g = [m \in X |-> Pair(o, m)] /\ h = [m \in X |-> Pair(p, m)]
  BY Zenon
<1>10. g = h
  BY <1>5, <1>6, <1>8, <1>9, Zenon
<1>11. Pairs(o, r) = {g[m] : m \in X} /\ Pairs(p, r) = {h[m] : m \in X}
  BY <1>8, <1>9 DEF Pairs
<1> QED
  BY <1>10, <1>11

\* A pair is one player, for a bye, or two.
LEMMA PairOf ==
  ASSUME Setting, NEW o \in Outcomes, NEW r \in 1..Rounds, NEW m \in Played(o, r)
  PROVE  /\ m \in Matches(K, reset) /\ AppRound(K, m) = r
         /\ \E a, b \in 0..field : Pair(o, m) = {a, b} \ {Nobody} /\ Pair(o, m) # {}
<1>1. m \in DOMAIN MatchesForRound(r) /\ {o[m].a, o[m].b} # {Nobody}
  BY DEF Played
<1>2. m \in Matches(K, reset) /\ AppRound(K, m) = r
  BY <1>1, RoundOfMatch, Zenon
<1>3. o[m].a \in 0..field /\ o[m].b \in 0..field
  BY <1>2 DEF Outcomes, OutcomeSet
<1> QED
  BY <1>1, <1>2, <1>3 DEF Pair

LEMMA TableType ==
  ASSUME Setting, NEW m \in Matches(K, reset)
  PROVE  Table(m) \in Nat
<1>1. K \in Nat \ {0} /\ reset \in BOOLEAN /\ field \in Nat
  BY SettingOf DEF Setting
<1>2. m[3] \in Nat
  <2>1. \A r \in 1..K : \A i \in 0..Pow2[K - r] - 1 : i \in Nat
    BY <1>1, Pow2Step
  <2>2. \A j \in 1..2 * (K - 1) : \A i \in 0..Pow2[K - 1 - (j + 1) \div 2] - 1 : i \in Nat
    OBVIOUS
  <2> QED
    BY <1>1, <2>1, <2>2, MatchesKinds DEF W, L, GF, GFR
<1> QED
  BY <1>1, <1>2 DEF Table

-----------------------------------------------------------------------------
(* The boards of a round.                                                  *)

GoodBoard(b) == b \in Boards /\ b.white # b.black /\ b.pick \in Seats(b) \cup {Nobody}

\* The pairs that sit at the boards of a round.
SeatsIn(bds) == {Seats(b) : b \in bds}

\* Nobody sits at two of the boards.
GoodRound(bds) ==
  /\ \A b \in bds : GoodBoard(b)
  /\ \A b, c \in bds : Seats(b) \cap Seats(c) # {} => b = c

\* A board has somebody in white.
LEMMA SomebodySits ==
  ASSUME Setting, NEW b \in Boards
  PROVE  b.white \in Seats(b) /\ b.white # Nobody
  BY SettingOf DEF Boards, Players, Seats, Nobody

LEMMA NewBoardGood ==
  ASSUME Setting, NEW a \in 0..field, NEW b \in 0..field, NEW pair,
         pair = {a, b} \ {Nobody}, pair # {}, NEW table \in Nat
  PROVE  GoodBoard(NewBoard(pair, table)) /\ Seats(NewBoard(pair, table)) = pair
<1>1. field \in Nat /\ Nobody = 0
  BY SettingOf DEF Nobody
<1>2. \E w \in pair : \A q \in pair : w <= q
  BY <1>1
<1>3. PICK w : w = CHOOSE x \in pair : \A q \in pair : x <= q
  OBVIOUS
<1>4. w \in pair /\ \A q \in pair : w <= q
  BY <1>2, <1>3
<1>5. PICK x : x = IF pair = {w} THEN Nobody ELSE CHOOSE q \in pair : q # w
  OBVIOUS
<1>6. x \in pair \cup {Nobody} /\ x # w /\ {w, x} \ {Nobody} = pair
  <2>1. CASE pair = {w}
    BY <1>1, <1>4, <1>5, <2>1
  <2>2. CASE pair # {w}
    <3>1. \E q \in pair : q # w
      BY <1>4, <2>2
    <3>2. x \in pair /\ x # w
      BY <1>5, <2>2, <3>1
    <3> QED
      BY <1>1, <1>4, <3>2
  <2> QED
    BY <2>1, <2>2
<1>7. NewBoard(pair, table) =
        [white |-> w, result |-> "none", pick |-> Nobody, table |-> table, black |-> x]
  BY <1>3, <1>5 DEF NewBoard
<1>8. w \in 1..field /\ x \in 0..field
  BY <1>1, <1>4, <1>6
<1>9. NewBoard(pair, table) \in Boards
  BY <1>1, <1>7, <1>8 DEF Boards, Players, Results
<1> QED
  BY <1>6, <1>7, <1>9 DEF GoodBoard, Seats

\* The boards of the matches played, unless somebody plays two of them.
LEMMA DrawnGood ==
  ASSUME Setting, NEW o \in Outcomes, NEW r \in 1..Rounds, NEW there, GoodRound(there),
         ~SeatedTwice(o, r, there),
         NEW fresh, fresh = {NewBoard(Pair(o, m), Table(m)) : m \in Played(o, r)}
  PROVE  GoodRound(there \cup fresh) /\ SeatsIn(fresh) = Pairs(o, r)
<1>1. ASSUME NEW m \in Played(o, r)
      PROVE  /\ GoodBoard(NewBoard(Pair(o, m), Table(m)))
             /\ Seats(NewBoard(Pair(o, m), Table(m))) = Pair(o, m)
  <2>1. PICK a, b \in 0..field : Pair(o, m) = {a, b} \ {Nobody} /\ Pair(o, m) # {}
    BY PairOf
  <2>2. Table(m) \in Nat
    BY PairOf, TableType
  <2> QED
    BY <2>1, <2>2, NewBoardGood
<1>2. ASSUME NEW b \in fresh PROVE \E m \in Played(o, r) : Seats(b) = Pair(o, m) /\ GoodBoard(b)
                                          /\ b = NewBoard(Pair(o, m), Table(m))
  BY <1>1
<1>3. ASSUME NEW b \in fresh, NEW c \in fresh, Seats(b) \cap Seats(c) # {} PROVE b = c
  <2>1. PICK m, n \in Played(o, r) :
          /\ Seats(b) = Pair(o, m) /\ b = NewBoard(Pair(o, m), Table(m))
          /\ Seats(c) = Pair(o, n) /\ c = NewBoard(Pair(o, n), Table(n))
    BY <1>2, Zenon
  <2>2. m = n
    BY <1>3, <2>1 DEF SeatedTwice
  <2> QED
    BY <2>1, <2>2
<1>4. ASSUME NEW b \in fresh, NEW c \in there PROVE Seats(b) \cap Seats(c) = {}
  BY <1>2 DEF SeatedTwice
<1>5. GoodRound(there \cup fresh)
  BY <1>2, <1>3, <1>4, Zenon DEF GoodRound
<1>6. SeatsIn(fresh) = Pairs(o, r)
  BY <1>1 DEF SeatsIn, Pairs
<1> QED
  BY <1>5, <1>6

\* The boards of a round, each with another result or another designation.
LEMMA GoodEdited ==
  ASSUME NEW old, GoodRound(old), NEW F,
         \A b \in old : GoodBoard(F[b]) /\ Seats(F[b]) = Seats(b),
         NEW new, \A b \in old : F[b] \in new, \A e \in new : \E b \in old : e = F[b]
  PROVE  /\ GoodRound(new) /\ SeatsIn(new) = SeatsIn(old)
         /\ new = {} <=> old = {}
  BY DEF GoodRound, SeatsIn

LEMMA EditedBoard ==
  ASSUME NEW b, GoodBoard(b)
  PROVE  /\ \A x \in Results : GoodBoard([b EXCEPT !.result = x])
                               /\ Seats([b EXCEPT !.result = x]) = Seats(b)
         /\ \A p \in Seats(b) \cup {Nobody} : GoodBoard([b EXCEPT !.pick = p])
                               /\ Seats([b EXCEPT !.pick = p]) = Seats(b)
<1>1. \A x \in Results : GoodBoard([b EXCEPT !.result = x])
                               /\ Seats([b EXCEPT !.result = x]) = Seats(b)
  BY DEF GoodBoard, Boards, Seats
<1>2. ASSUME NEW p \in Seats(b) \cup {Nobody}
      PROVE  GoodBoard([b EXCEPT !.pick = p]) /\ Seats([b EXCEPT !.pick = p]) = Seats(b)
  <2>1. p \in Players \cup {Nobody}
    BY DEF GoodBoard, Boards, Seats
  <2> QED
    BY <2>1 DEF GoodBoard, Boards, Seats
<1> QED
  BY <1>1, <1>2

LEMMA ForgottenGood ==
  ASSUME NEW old, GoodRound(old), NEW b \in old, NEW d, GoodBoard(d), Seats(d) = Seats(b),
         NEW new, new = Forgotten((old \ {b}) \cup {d})
  PROVE  /\ GoodRound(new) /\ SeatsIn(new) = SeatsIn(old)
         /\ new # {}
<1> DEFINE forget(c) == IF c.result = "level" THEN c ELSE [c EXCEPT !.pick = Nobody]
<1>1. PICK F : F = [c \in old |-> forget(IF c = b THEN d ELSE c)]
  BY Zenon
<1>2. (\A c \in old : F[c] \in new) /\ \A e \in new : \E c \in old : e = F[c]
  <2>1. new = {F[c] : c \in old}
    BY <1>1 DEF Forgotten
  <2> QED
    BY <2>1
<1>3. ASSUME NEW c \in old PROVE GoodBoard(F[c]) /\ Seats(F[c]) = Seats(c)
  <2>1. PICK e : e = IF c = b THEN d ELSE c
    OBVIOUS
  <2>2. GoodBoard(e) /\ Seats(e) = Seats(c)
    BY <2>1 DEF GoodRound
  <2>3. F[c] = IF e.result = "level" THEN e ELSE [e EXCEPT !.pick = Nobody]
    BY <1>1, <2>1
  <2> QED
    BY <2>2, <2>3, EditedBoard
<1> HIDE DEF forget
<1> QED
  BY <1>2, <1>3, GoodEdited

LEMMA ResultGood ==
  ASSUME NEW old, GoodRound(old), NEW b \in old, NEW x \in Results,
         NEW new, new = Forgotten((old \ {b}) \cup {[b EXCEPT !.result = x]})
  PROVE  /\ GoodRound(new) /\ SeatsIn(new) = SeatsIn(old)
         /\ new # {}
<1>1. PICK d : d = [b EXCEPT !.result = x]
  BY Zenon
<1>2. GoodBoard(d) /\ Seats(d) = Seats(b)
  BY <1>1, EditedBoard DEF GoodRound
<1>3. new = Forgotten((old \ {b}) \cup {d})
  BY <1>1, Zenon
<1> QED
  BY <1>2, <1>3, ForgottenGood, Zenon

LEMMA DesignateGood ==
  ASSUME NEW old, GoodRound(old), NEW b \in old, NEW p \in Seats(b) \cup {Nobody},
         NEW new, new = (old \ {b}) \cup {[b EXCEPT !.pick = p]}
  PROVE  /\ GoodRound(new) /\ SeatsIn(new) = SeatsIn(old)
         /\ new # {}
<1>1. PICK F : F = [c \in old |-> IF c = b THEN [b EXCEPT !.pick = p] ELSE c]
  BY Zenon
<1>2. (\A c \in old : F[c] \in new) /\ \A e \in new : \E c \in old : e = F[c]
  BY <1>1
<1>3. \A c \in old : GoodBoard(F[c]) /\ Seats(F[c]) = Seats(c)
  BY <1>1, EditedBoard DEF GoodRound
<1> QED
  BY <1>2, <1>3, GoodEdited

LEMMA EditedRound ==
  ASSUME NEW r, GoodRound(boards[r]), Result(r) \/ Designate(r)
  PROVE  /\ UNCHANGED <<field, reset>>
         /\ \E new : /\ boards' = [boards EXCEPT ![r] = new] /\ GoodRound(new)
                     /\ SeatsIn(new) = SeatsIn(boards[r]) /\ new # {}
<1>1. PICK old : old = boards[r] /\ GoodRound(old)
  OBVIOUS
<1>2. CASE Result(r)
  <2>1. PICK b \in old, x \in Results :
          boards' = [boards EXCEPT ![r] = Forgotten((old \ {b}) \cup {[b EXCEPT !.result = x]})]
    BY <1>1, <1>2, Zenon DEF Result
  <2>2. PICK new : new = Forgotten((old \ {b}) \cup {[b EXCEPT !.result = x]})
    OBVIOUS
  <2>3. GoodRound(new) /\ SeatsIn(new) = SeatsIn(old) /\ new # {}
    BY <1>1, <2>2, ResultGood
  <2>4. UNCHANGED <<field, reset>>
    BY <1>2 DEF Result
  <2> QED
    BY <1>1, <2>1, <2>2, <2>3, <2>4, Zenon
<1>3. CASE Designate(r)
  <2>1. PICK b \in old : \E p \in Seats(b) \cup {Nobody} :
          boards' = [boards EXCEPT ![r] = (old \ {b}) \cup {[b EXCEPT !.pick = p]}]
    BY <1>1, <1>3, Zenon DEF Designate
  <2>2. PICK p \in Seats(b) \cup {Nobody} :
          boards' = [boards EXCEPT ![r] = (old \ {b}) \cup {[b EXCEPT !.pick = p]}]
    BY <2>1, Zenon
  <2>3. PICK new : new = (old \ {b}) \cup {[b EXCEPT !.pick = p]}
    BY Zenon
  <2>4. GoodRound(new) /\ SeatsIn(new) = SeatsIn(old) /\ new # {}
    BY <1>1, <2>3, DesignateGood
  <2>5. UNCHANGED <<field, reset>>
    BY <1>3 DEF Designate
  <2> QED
    BY <1>1, <2>2, <2>3, <2>4, <2>5, Zenon
<1> QED
  BY <1>2, <1>3

-----------------------------------------------------------------------------
(* The inductive invariants.                                               *)

\* The rounds are drawn in order, up to this one.
DrawnUpTo(last) ==
  /\ last \in 0..Rounds
  /\ \A r \in 1..Rounds : boards[r] # {} <=> r <= last

\* The boards of a round are those the bracket asks for.
Asked(bs, o, r) == bs[r] # {} => SeatsIn(bs[r]) = Pairs(o, r)

\* Whatever the requests do: nobody sits at two boards of a round.
SeatedInv == TypeOK /\ \A r \in 1..Rounds : GoodRound(boards[r])

\* Until a request out of date has written, the bracket is what the boards make it.
BracketInv ==
  /\ TypeOK
  /\ \E last : DrawnUpTo(last)
  /\ \A r \in 1..Rounds : GoodRound(boards[r])
  /\ \A r \in 1..Rounds : Asked(boards, Resolved(boards), r)

LEMMA SettingHolds ==
  ASSUME TypeOK
  PROVE  Setting /\ Typed(boards)
  BY ConstantsAssumption DEF TypeOK, Setting, Typed

LEMMA LastPairedIs ==
  ASSUME Setting, NEW last, DrawnUpTo(last)
  PROVE  LastPaired = last /\ LastPairedOf(boards) = last
<1>1. Rounds \in Nat /\ Rounds >= 2
  BY SettingOf
<1>2. CASE last = 0
  BY <1>1, <1>2 DEF DrawnUpTo, LastPaired, LastPairedOf
<1>3. CASE last # 0
  <2>1. last \in 1..Rounds /\ boards[last] # {}
    BY <1>1, <1>3 DEF DrawnUpTo
  <2>2. \A q \in last + 1..Rounds : boards[q] = {}
    BY <1>1, <2>1 DEF DrawnUpTo
  <2>3. ASSUME NEW r \in 1..Rounds, boards[r] # {}, \A q \in r + 1..Rounds : boards[q] = {}
        PROVE  r = last
    <3>1. r <= last
      BY <2>3 DEF DrawnUpTo
    <3>2. CASE r < last
      BY <1>1, <2>1, <2>3, <3>2
    <3> QED
      BY <1>1, <2>1, <3>1, <3>2
  <2>4. (CHOOSE r \in 1..Rounds : boards[r] # {} /\ \A q \in r + 1..Rounds : boards[q] = {}) = last
    BY <2>1, <2>2, <2>3
  <2>5. ~ \A r \in 1..Rounds : boards[r] = {}
    BY <2>1
  <2> QED
    BY <2>4, <2>5 DEF LastPaired, LastPairedOf
<1> QED
  BY <1>2, <1>3

\* The last round drawn of any boards
LEMMA LastPairedType ==
  ASSUME Setting, NEW bs
  PROVE  LastPairedOf(bs) \in 0..Rounds
<1>1. Rounds \in Nat
  BY SettingOf
<1>2. CASE \A r \in 1..Rounds : bs[r] = {}
  BY <1>1, <1>2 DEF LastPairedOf
<1>3. CASE \E r \in 1..Rounds : bs[r] # {}
  <2> DEFINE T == {x \in Nat : x < Rounds /\ bs[Rounds - x] # {}}
  <2>1. PICK r \in 1..Rounds : bs[r] # {}
    BY <1>3
  <2>2. Rounds - r \in T
    <3>1. Rounds - r \in Nat /\ Rounds - r < Rounds /\ Rounds - (Rounds - r) = r
      BY <1>1
    <3> QED
      BY <2>1, <3>1
  <2>3. T \in SUBSET Nat /\ T # {}
    BY <2>2
  <2>4. PICK x \in T : \A y \in T : x <= y
    BY <2>3, LeastNatural, Zenon
  <2>5. PICK last \in 1..Rounds : last = Rounds - x
    BY <1>1, <2>4
  <2>6. bs[last] # {}
    BY <2>4, <2>5
  <2>7. ASSUME NEW q \in last + 1..Rounds PROVE bs[q] = {}
    <3>1. Rounds - q \in Nat /\ Rounds - q < x /\ Rounds - (Rounds - q) = q
      BY <1>1, <2>4, <2>5
    <3>2. Rounds - q \notin T
      BY <1>1, <2>4, <3>1
    <3> QED
      BY <1>1, <2>5, <3>1, <3>2
  <2> HIDE DEF T
  <2>8. (CHOOSE y \in 1..Rounds : bs[y] # {} /\ \A q \in y + 1..Rounds : bs[q] = {}) \in 1..Rounds
    BY <2>6, <2>7, Zenon
  <2> QED
    BY <1>1, <1>3, <2>8 DEF LastPairedOf
<1> QED
  BY <1>2, <1>3

-----------------------------------------------------------------------------
(* What holds whatever the requests do.                                    *)

\* What a request draws, from any boards it has read
DrawsRound(view, r, o) ==
  /\ r = LastPairedOf(view) + 1 /\ o = Resolved(view)
  /\ Drawable(view) /\ ~SeatedTwice(o, r, boards[r])
  /\ Drawn(view) = [boards EXCEPT ![r] = boards[r] \cup
                       {NewBoard(Pair(o, m), Table(m)) : m \in Played(o, r)}]

LEMMA DrawnFrom ==
  ASSUME Setting, Typed(boards), NEW view, Typed(view)
  PROVE  Drawn(view) = boards \/ \E r \in 1..Rounds : \E o \in Outcomes : DrawsRound(view, r, o)
<1>1. PICK r, o : r = LastPairedOf(view) + 1 /\ o = Resolved(view)
  OBVIOUS
<1>2. CASE ~Drawable(view) \/ SeatedTwice(o, r, boards[r])
  BY <1>1, <1>2 DEF Drawn
<1>3. CASE Drawable(view) /\ ~SeatedTwice(o, r, boards[r])
  <2>1. Rounds \in Nat /\ LastPairedOf(view) \in 0..Rounds
    BY SettingOf, LastPairedType
  <2>2. r \in 1..Rounds
    BY <1>1, <1>3, <2>1 DEF Drawable
  <2>3. o \in Outcomes
    BY <1>1, ResolvedFixpoint DEF Worked
  <2>4. Drawn(view) = [boards EXCEPT ![r] = boards[r] \cup
                                 {NewBoard(Pair(o, m), Table(m)) : m \in Played(o, r)}]
    BY <1>1, <1>3 DEF Drawn
  <2>5. DrawsRound(view, r, o)
    BY <1>1, <1>3, <2>4 DEF DrawsRound
  <2> QED
    BY <2>2, <2>3, <2>5
<1> QED
  BY <1>2, <1>3

LEMMA GoodSubset ==
  ASSUME NEW bds, GoodRound(bds), NEW some \in SUBSET bds
  PROVE  GoodRound(some)
  BY DEF GoodRound

LEMMA GoodTyped ==
  ASSUME NEW bds, GoodRound(bds)
  PROVE  bds \subseteq Boards
  BY DEF GoodRound, GoodBoard

\* Every step leaves the rounds as they are, but one.
LEMMA StepIsGood ==
  ASSUME SeatedInv, Next
  PROVE  /\ UNCHANGED <<field, reset>>
         /\ \/ boards' = boards
            \/ \E r, new : GoodRound(new) /\ boards' = [boards EXCEPT ![r] = new]
<1>1. Setting /\ Typed(boards)
  BY SettingHolds DEF SeatedInv
<1>2. ASSUME NEW q \in Requests, AskDraw(q) \/ AskUnpair(q)
      PROVE  boards' = boards /\ UNCHANGED <<field, reset>>
  BY <1>2 DEF AskDraw, AskUnpair, Asks
<1>3. ASSUME NEW q \in Requests, waiting[q].op \in {"draw", "unpair"}
      PROVE  Typed(waiting[q].view)
  <2>1. waiting[q] # NoRequest
    BY <1>3 DEF NoRequest
  <2> QED
    BY <2>1 DEF SeatedInv, TypeOK, Typed
<1>4. ASSUME NEW q \in Requests, Draw(q)
      PROVE  /\ UNCHANGED <<field, reset>>
             /\ \/ boards' = boards
                \/ \E r, new : GoodRound(new) /\ boards' = [boards EXCEPT ![r] = new]
  <2>1. PICK view : view = waiting[q].view /\ Typed(view)
    BY <1>3, <1>4 DEF Draw
  <2>2. boards' = Drawn(view) /\ UNCHANGED <<field, reset>>
    BY <1>4, <2>1 DEF Draw, Writes
  <2>3. CASE Drawn(view) = boards
    BY <2>2, <2>3
  <2>4. CASE Drawn(view) # boards
    <3>1. PICK r \in 1..Rounds, o \in Outcomes : DrawsRound(view, r, o)
      BY <1>1, <2>1, <2>4, DrawnFrom
    <3>2. PICK fresh : fresh = {NewBoard(Pair(o, m), Table(m)) : m \in Played(o, r)}
      OBVIOUS
    <3>3. ~SeatedTwice(o, r, boards[r]) /\ Drawn(view) = [boards EXCEPT ![r] = boards[r] \cup fresh]
      BY <3>1, <3>2 DEF DrawsRound
    <3>4. GoodRound(boards[r])
      BY DEF SeatedInv
    <3>5. GoodRound(boards[r] \cup fresh)
      BY <1>1, <3>2, <3>3, <3>4, DrawnGood
    <3> QED
      BY <2>2, <3>3, <3>5
  <2> QED
    BY <2>3, <2>4
<1>5. ASSUME NEW q \in Requests, Unpair(q)
      PROVE  /\ UNCHANGED <<field, reset>>
             /\ \/ boards' = boards
                \/ \E r, new : GoodRound(new) /\ boards' = [boards EXCEPT ![r] = new]
  <2>1. PICK r, players :
          boards' = [boards EXCEPT ![r] = {b \in boards[r] : Seats(b) \cap players = {}}]
    BY <1>5, Zenon DEF Unpair, Writes, Unpaired
  <2>2. UNCHANGED <<field, reset>>
    BY <1>5 DEF Unpair, Writes
  <2>3. PICK new : new = {b \in boards[r] : Seats(b) \cap players = {}}
    BY Zenon
  <2>4. CASE r \in 1..Rounds
    <3>1. GoodRound(new)
      BY <2>3, <2>4, GoodSubset DEF SeatedInv
    <3> QED
      BY <2>1, <2>2, <2>3, <3>1
  <2>5. CASE r \notin 1..Rounds
    <3>1. boards' = boards
      BY <1>1, <2>1, <2>5 DEF Typed
    <3> QED
      BY <2>2, <3>1
  <2> QED
    BY <2>4, <2>5
<1>6. ASSUME NEW r \in 1..Rounds, Result(r) \/ Designate(r)
      PROVE  /\ UNCHANGED <<field, reset>>
             /\ \E new : GoodRound(new) /\ boards' = [boards EXCEPT ![r] = new]
  BY <1>6, EditedRound DEF SeatedInv
<1> QED
  BY <1>2, <1>4, <1>5, <1>6, Zenon DEF Next

LEMMA SeatedStep ==
  ASSUME SeatedInv, [Next]_vars
  PROVE  SeatedInv'
<1>1. Setting /\ Typed(boards)
  BY SettingHolds DEF SeatedInv
<1>2. /\ UNCHANGED <<field, reset>>
      /\ \/ boards' = boards
         \/ \E r, new : GoodRound(new) /\ boards' = [boards EXCEPT ![r] = new]
  BY StepIsGood DEF vars
<1>3. Rounds' = Rounds /\ Boards' = Boards
  BY <1>2 DEF Rounds, Boards, Players, Results
<1>4. PICK cs : cs = boards'
  OBVIOUS
<1>5. Typed(cs) /\ \A r \in 1..Rounds : GoodRound(cs[r])
  <2>1. CASE boards' = boards
    BY <1>1, <1>4, <2>1 DEF SeatedInv
  <2>2. CASE \E r, new : GoodRound(new) /\ boards' = [boards EXCEPT ![r] = new]
    <3>1. PICK r, new : GoodRound(new) /\ cs = [boards EXCEPT ![r] = new]
      BY <1>4, <2>2
    <3>2. new \subseteq Boards
      BY <3>1, GoodTyped
    <3>3. cs \in [1..Rounds -> SUBSET Boards]
      BY <1>1, <3>1, <3>2 DEF Typed
    <3>4. \A q \in 1..Rounds : cs[q] = IF q = r THEN new ELSE boards[q]
      BY <1>1, <3>1 DEF Typed
    <3> QED
      BY <3>1, <3>3, <3>4 DEF SeatedInv, Typed
  <2> QED
    BY <1>2, <2>1, <2>2
<1>6. (\A r \in 1..Rounds : GoodRound(boards[r]))'
  <2>1. \A bds : GoodRound(bds)' <=> GoodRound(bds)
    BY <1>3 DEF GoodRound, GoodBoard, Seats
  <2>2. \A r \in 1..Rounds : GoodRound(cs[r])'
    BY <1>5, <2>1
  <2> QED
    BY <1>3, <1>4, <2>2
<1>7. PICK Requested : Requested =
        {NoRequest} \cup [op : {"draw", "unpair"}, view : [1..Rounds -> SUBSET Boards]]
  OBVIOUS
<1>8. waiting \in [Requests -> Requested] /\ outdated \in BOOLEAN
  BY <1>7 DEF SeatedInv, TypeOK
<1>9. ASSUME NEW q \in Requests, NEW op \in {"draw", "unpair"}, Asks(q, op)
      PROVE  waiting' \in [Requests -> Requested] /\ outdated' \in BOOLEAN
  <2>1. [op |-> op, view |-> boards] \in Requested
    BY <1>1, <1>7 DEF Typed
  <2> QED
    BY <1>8, <1>9, <2>1 DEF Asks
<1>10. ASSUME NEW q \in Requests, NEW bs, Writes(q, bs)
       PROVE  waiting' \in [Requests -> Requested] /\ outdated' \in BOOLEAN
  <2>1. NoRequest \in Requested
    BY <1>7
  <2> QED
    BY <1>8, <1>10, <2>1 DEF Writes
<1>11. waiting' \in [Requests -> Requested] /\ outdated' \in BOOLEAN
  <2>1. CASE UNCHANGED vars
    BY <1>8, <2>1 DEF vars
  <2>2. ASSUME NEW q \in Requests, AskDraw(q) \/ Draw(q) \/ AskUnpair(q) \/ Unpair(q)
        PROVE  waiting' \in [Requests -> Requested] /\ outdated' \in BOOLEAN
    BY <1>9, <1>10, <2>2, Zenon DEF AskDraw, Draw, AskUnpair, Unpair
  <2>3. ASSUME NEW r \in 1..Rounds, Result(r) \/ Designate(r)
        PROVE  waiting' \in [Requests -> Requested] /\ outdated' \in BOOLEAN
    BY <1>8, <2>3 DEF Result, Designate
  <2> QED
    BY <2>1, <2>2, <2>3 DEF Next
<1>12. TypeOK'
  BY <1>2, <1>3, <1>4, <1>5, <1>7, <1>11 DEF TypeOK, Typed, SeatedInv
<1> QED
  BY <1>6, <1>12 DEF SeatedInv

LEMMA InitSeated == Init => SeatedInv
<1> SUFFICES ASSUME Init PROVE SeatedInv
  OBVIOUS
<1>1. Setting
  BY ConstantsAssumption DEF Init, Setting
<1>2. Rounds \in Nat /\ \A r \in 1..Rounds : boards[r] = {}
  BY <1>1, SettingOf DEF Init
<1>3. TypeOK
  BY <1>2 DEF Init, TypeOK
<1> QED
  BY <1>2, <1>3 DEF SeatedInv, GoodRound

LEMMA SeatedInvariant == Spec => []SeatedInv
  BY InitSeated, SeatedStep, PTL DEF Spec

\* The state keeps its types: nobody is seated who does not take part.
THEOREM BracketTypes == Spec => []TypeOK
<1>1. SeatedInv => TypeOK
  BY DEF SeatedInv
<1> QED
  BY <1>1, SeatedInvariant, PTL

\* Nobody sits at two boards of a round, whatever requests draw it and unpair it
\* while others await their snapshots: the transaction fails as a whole when the
\* pairings of the round have one of its players already.
THEOREM SeatedOnceAtMost == Spec => []SeatedOnce
<1>1. SeatedInv => SeatedOnce
  BY DEF SeatedInv, GoodRound, SeatedOnce
<1> QED
  BY <1>1, SeatedInvariant, PTL

-----------------------------------------------------------------------------
(* What holds until a request out of date has written.                     *)

\* Each handler changes the boards of one round, the last one drawn or the next
\* one, into none or into those the bracket asks for.
ChangesRound(at, new) ==
  /\ at \in 1..Rounds
  /\ boards' = [boards EXCEPT ![at] = new] /\ UNCHANGED <<field, reset>>
  /\ \A r \in 1..Rounds : IF r < at THEN boards[r] # {} ELSE r > at => boards[r] = {}
  /\ GoodRound(new)
  /\ new # {} => SeatsIn(new) = Pairs(Resolved(boards), at)

\* What a request writes, it writes on the boards it has read.
LEMMA WritesInTime ==
  ASSUME NEW q, NEW bs, Writes(q, bs), bs # boards, ~outdated'
  PROVE  waiting[q].view = boards
  BY DEF Writes

\* The boards of a round drawn are the ones its bracket lets draw.
LEMMA DrawChanges ==
  ASSUME BracketInv, NEW q \in Requests, Draw(q), ~outdated', boards' # boards
  PROVE  \E at, new : /\ ChangesRound(at, new)
                      /\ Gate(boards, Resolved(boards), at)
<1>1. Setting /\ Typed(boards) /\ Rounds \in Nat
  BY SettingHolds, SettingOf DEF BracketInv
<1>2. boards' = Drawn(boards) /\ UNCHANGED <<field, reset>>
  <2>1. boards' = Drawn(waiting[q].view) /\ UNCHANGED <<field, reset>>
    BY DEF Draw, Writes
  <2>2. waiting[q].view = boards
    BY <2>1, WritesInTime DEF Draw
  <2> QED
    BY <2>1, <2>2
<1>3. PICK last : DrawnUpTo(last) /\ LastPairedOf(boards) = last
  BY <1>1, LastPairedIs DEF BracketInv
<1>4. PICK at \in 1..Rounds, o \in Outcomes :
        /\ at = last + 1 /\ o = Resolved(boards)
        /\ Drawable(boards) /\ ~SeatedTwice(o, at, boards[at])
        /\ boards' = [boards EXCEPT ![at] = boards[at] \cup
                               {NewBoard(Pair(o, m), Table(m)) : m \in Played(o, at)}]
  <2>1. PICK at \in 1..Rounds, o \in Outcomes : DrawsRound(boards, at, o)
    BY <1>1, <1>2, DrawnFrom
  <2> QED
    BY <1>2, <1>3, <2>1, Zenon DEF DrawsRound
<1>5. Gate(boards, o, at)
  BY <1>3, <1>4 DEF Drawable
<1>6. \A r \in 1..Rounds : IF r < at THEN boards[r] # {} ELSE boards[r] = {}
  BY <1>1, <1>3, <1>4 DEF DrawnUpTo
<1>7. PICK new : new = {NewBoard(Pair(o, m), Table(m)) : m \in Played(o, at)}
  OBVIOUS
<1>8. boards[at] = {} /\ GoodRound(boards[at])
  BY <1>1, <1>4, <1>6 DEF GoodRound
<1>9. GoodRound(new) /\ SeatsIn(new) = Pairs(o, at)
  <2>1. GoodRound(boards[at] \cup new) /\ SeatsIn(new) = Pairs(o, at)
    BY <1>1, <1>4, <1>7, <1>8, DrawnGood
  <2>2. boards[at] \cup new = new
    BY <1>8
  <2> QED
    BY <2>1, <2>2
<1>10. boards' = [boards EXCEPT ![at] = new]
  <2>1. boards[at] \cup new = new
    BY <1>8
  <2> QED
    BY <1>4, <1>7, <2>1
<1>11. ChangesRound(at, new)
  BY <1>2, <1>4, <1>6, <1>9, <1>10, Zenon DEF ChangesRound
<1> QED
  BY <1>4, <1>5, <1>11

LEMMA UnpairChanges ==
  ASSUME BracketInv, NEW q \in Requests, Unpair(q), ~outdated', boards' # boards
  PROVE  \E at : ChangesRound(at, {})
<1>1. Setting /\ Typed(boards) /\ Rounds \in Nat
  BY SettingHolds, SettingOf DEF BracketInv
<1>2. boards' = Unpaired(boards) /\ UNCHANGED <<field, reset>>
  <2>1. boards' = Unpaired(waiting[q].view) /\ UNCHANGED <<field, reset>>
    BY DEF Unpair, Writes
  <2>2. waiting[q].view = boards
    BY <2>1, WritesInTime DEF Unpair
  <2> QED
    BY <2>1, <2>2
<1>3. PICK last : DrawnUpTo(last) /\ LastPairedOf(boards) = last
  BY <1>1, LastPairedIs DEF BracketInv
<1>4. PICK players, left : /\ players = UNION {Seats(b) : b \in boards[last]}
                           /\ left = {b \in boards[last] : Seats(b) \cap players = {}}
  OBVIOUS
<1>5. boards' = [boards EXCEPT ![last] = left]
  BY <1>2, <1>3, <1>4 DEF Unpaired
<1>6. last \in 1..Rounds
  <2>1. last \in 0..Rounds
    BY <1>3 DEF DrawnUpTo
  <2>2. CASE last = 0
    <3>1. boards' = boards
      BY <1>1, <1>5, <2>2 DEF Typed
    <3> QED
      BY <3>1
  <2> QED
    BY <1>1, <2>1, <2>2
<1>7. left = {}
  <2>1. \A b \in boards[last] : b.white \in Seats(b) /\ Seats(b) \subseteq players
    BY <1>1, <1>4, <1>6, SomebodySits DEF Typed
  <2> QED
    BY <1>4, <2>1
<1>8. \A r \in 1..Rounds : IF r < last THEN boards[r] # {} ELSE r > last => boards[r] = {}
  BY <1>1, <1>3, <1>6 DEF DrawnUpTo
<1>9. GoodRound({})
  BY DEF GoodRound
<1> QED
  BY <1>2, <1>5, <1>6, <1>7, <1>8, <1>9, Zenon DEF ChangesRound

LEMMA EditChanges ==
  ASSUME BracketInv, NEW r \in 1..Rounds, Result(r) \/ Designate(r)
  PROVE  \E new : ChangesRound(r, new) /\ new # {} /\ boards[r] # {}
<1>1. Setting /\ Rounds \in Nat
  BY SettingHolds, SettingOf DEF BracketInv
<1>2. PICK last : DrawnUpTo(last)
  BY DEF BracketInv
<1>3. UNCHANGED <<field, reset>> /\ (r < Rounds => boards[r + 1] = {}) /\ boards[r] # {}
  BY DEF Result, Designate, Locked
<1>4. r = last
  <2>1. r <= last
    BY <1>3, <1>2 DEF DrawnUpTo
  <2>2. CASE r < last
    <3>1. r + 1 \in 1..Rounds /\ r + 1 <= last /\ r < Rounds
      BY <1>1, <1>2, <2>2 DEF DrawnUpTo
    <3> QED
      BY <1>2, <1>3, <3>1 DEF DrawnUpTo
  <2> QED
    BY <1>1, <1>2, <2>1, <2>2 DEF DrawnUpTo
<1>5. \A q \in 1..Rounds : IF q < r THEN boards[q] # {} ELSE q > r => boards[q] = {}
  BY <1>1, <1>2, <1>4 DEF DrawnUpTo
<1>6. PICK new : /\ boards' = [boards EXCEPT ![r] = new] /\ GoodRound(new)
                 /\ SeatsIn(new) = SeatsIn(boards[r]) /\ new # {}
  BY EditedRound DEF BracketInv
<1>7. SeatsIn(new) = Pairs(Resolved(boards), r)
  BY <1>3, <1>6 DEF BracketInv, Asked
<1>8. ChangesRound(r, new)
  BY <1>3, <1>5, <1>6, <1>7, Zenon DEF ChangesRound
<1> QED
  BY <1>3, <1>6, <1>8

\* A round drawn is one that the gate lets be drawn.
ChangesThroughGate(at, new) ==
  /\ ChangesRound(at, new)
  /\ boards[at] = {} /\ new # {} => Gate(boards, Resolved(boards), at)

\* Each step leaves the boards, or changes a round.
LEMMA StepChanges ==
  ASSUME BracketInv, [Next]_vars, ~outdated'
  PROVE  UNCHANGED <<field, reset, boards>> \/ \E at, new : ChangesThroughGate(at, new)
<1>1. CASE UNCHANGED vars
  BY <1>1 DEF vars
<1>2. ASSUME NEW q \in Requests, AskDraw(q) \/ AskUnpair(q)
      PROVE  UNCHANGED <<field, reset, boards>>
  BY <1>2 DEF AskDraw, AskUnpair, Asks
<1>3. ASSUME NEW q \in Requests, Draw(q) \/ Unpair(q), boards' = boards
      PROVE  UNCHANGED <<field, reset, boards>>
  BY <1>3 DEF Draw, Unpair, Writes
<1> QED
  BY <1>1, <1>2, <1>3, DrawChanges, UnpairChanges, EditChanges, Zenon DEF Next, ChangesThroughGate

LEMMA PairsStay ==
  ASSUME UNCHANGED <<field, reset>>, NEW o, NEW r
  PROVE  Pairs(o, r)' = Pairs(o, r)
<1>1. ResetNeeded(o)' <=> ResetNeeded(o)
  BY DEF ResetNeeded
<1>2. MatchesForRound(r)' = MatchesForRound(r)
  BY DEF MatchesForRound
<1>3. PICK D : D = DOMAIN MatchesForRound(r) /\ D = (DOMAIN MatchesForRound(r))'
  BY <1>2
<1>4. PICK X : /\ X = {x \in D : {o[x].a, o[x].b} # {Nobody} /\ (x = GFR => ResetNeeded(o))}
               /\ X = {x \in D : {o[x].a, o[x].b} # {Nobody} /\ (x = GFR => ResetNeeded(o)')}
  BY <1>1, Zenon
<1>5. Pairs(o, r) = {Pair(o, m) : m \in X}
  BY <1>3, <1>4 DEF Pairs, Played
<1>6. Pairs(o, r)' = {Pair(o, m) : m \in X}
  BY <1>3, <1>4, Zenon DEF Pairs, Played, Pair
<1> QED
  BY <1>5, <1>6

\* What a change of one round leaves of the outcomes.
LEMMA ChangeStands ==
  ASSUME BracketInv, NEW at, NEW new, ChangesRound(at, new), NEW cs, cs = boards'
  PROVE  /\ Setting /\ Typed(boards) /\ Typed(cs) /\ Resolved(boards)' = Resolved(cs)
         /\ Worked(boards, Resolved(boards)) /\ Worked(cs, Resolved(cs))
         /\ \A r \in 1..Rounds : cs[r] = IF r = at THEN new ELSE boards[r]
<1>1. Setting /\ Typed(boards) /\ Worked(boards, Resolved(boards))
  BY SettingHolds, ResolvedFixpoint DEF BracketInv
<1>2. cs = [r \in 1..Rounds |-> IF r = at THEN new ELSE boards[r]]
  BY <1>1, Zenon DEF ChangesRound, Typed
<1>3. new \subseteq Boards
  BY DEF ChangesRound, GoodRound, GoodBoard
<1>4. Typed(cs)
  BY <1>1, <1>2, <1>3 DEF Typed
<1>5. Resolved(cs)' = Resolved(cs)
  BY <1>1, <1>4, ResolvedStays DEF ChangesRound
<1>6. Resolved(boards)' = Resolved(cs)'
  OBVIOUS
<1> QED
  BY <1>1, <1>2, <1>4, <1>5, <1>6, ResolvedFixpoint

LEMMA ChangeKeepsInv ==
  ASSUME BracketInv, SeatedInv', NEW at, NEW new, ChangesRound(at, new)
  PROVE  BracketInv'
<1>1. PICK cs : cs = boards'
  OBVIOUS
<1>2. /\ Setting /\ Typed(boards) /\ Typed(cs) /\ Resolved(boards)' = Resolved(cs)
      /\ Worked(boards, Resolved(boards)) /\ Worked(cs, Resolved(cs))
      /\ \A r \in 1..Rounds : cs[r] = IF r = at THEN new ELSE boards[r]
  BY <1>1, ChangeStands
<1>3. Rounds' = Rounds /\ Rounds \in Nat /\ Boards' = Boards
      /\ UNCHANGED <<field, reset>> /\ at \in 1..Rounds
  BY <1>2, SettingOf DEF ChangesRound, Rounds, Boards, Players, Results
<1>4. TypeOK' /\ (\A r \in 1..Rounds : GoodRound(boards[r]))'
  BY DEF SeatedInv
<1>5. PICK last : last = IF new = {} THEN at - 1 ELSE at
  OBVIOUS
<1>6. DrawnUpTo(last)'
  <2>1. last \in 0..Rounds
    BY <1>3, <1>5
  <2>2. \A r \in 1..Rounds : cs[r] # {} <=> r <= last
    BY <1>2, <1>3, <1>5 DEF ChangesRound
  <2> QED
    BY <1>1, <1>3, <2>1, <2>2 DEF DrawnUpTo
<1>9. ASSUME NEW r \in 1..Rounds, cs[r] # {}
      PROVE  SeatsIn(cs[r]) = Pairs(Resolved(cs), r)
  <2>1. SeatsIn(cs[r]) = Pairs(Resolved(boards), r)
    BY <1>2, <1>9 DEF ChangesRound, BracketInv, Asked
  <2>2. r <= at
    BY <1>2, <1>3, <1>9 DEF ChangesRound
  <2>3. PICK q \in Nat : q = at - 1
    BY <1>3
  <2>4. \A x \in 1..q : boards[x] = cs[x]
    BY <1>2, <1>3, <2>3
  <2>5. r <= q + 1
    BY <1>3, <2>2, <2>3
  <2>6. Pairs(Resolved(boards), r) = Pairs(Resolved(cs), r)
    <3>1. PICK bs, o, p : bs = boards /\ o = Resolved(boards) /\ p = Resolved(cs)
      OBVIOUS
    <3>2. Worked(bs, o) /\ Worked(cs, p) /\ \A x \in 1..q : bs[x] = cs[x]
      BY <1>2, <2>4, <3>1
    <3>3. Pairs(o, r) = Pairs(p, r)
      BY <1>2, <2>5, <3>2, PairsStand
    <3> QED
      BY <3>1, <3>3
  <2> QED
    BY <2>1, <2>6
<1>10. (\A r \in 1..Rounds : Asked(boards, Resolved(boards), r))'
  <2>1. PICK p : p = Resolved(cs) /\ p = Resolved(boards)'
    BY <1>2
  <2>2. ASSUME NEW r \in 1..Rounds PROVE Asked(boards, Resolved(boards), r)'
    <3>1. Pairs(p, r)' = Pairs(p, r)
      BY <1>3, PairsStay
    <3>2. Pairs(Resolved(boards), r)' = Pairs(p, r)'
      BY <2>1
    <3>3. cs[r] # {} => SeatsIn(cs[r]) = Pairs(Resolved(boards), r)'
      BY <1>9, <2>1, <3>1, <3>2
    <3> QED
      BY <1>1, <3>3 DEF Asked, SeatsIn, Seats
  <2> QED
    BY <1>3, <2>2
<1> QED
  BY <1>4, <1>6, <1>10 DEF BracketInv

LEMMA InitBracket == Init => BracketInv
<1> SUFFICES ASSUME Init PROVE BracketInv
  OBVIOUS
<1>1. Setting
  BY ConstantsAssumption DEF Init, Setting
<1>2. Rounds \in Nat /\ \A r \in 1..Rounds : boards[r] = {}
  BY <1>1, SettingOf DEF Init
<1>3. TypeOK
  BY <1>2 DEF Init, TypeOK
<1>4. DrawnUpTo(0)
  BY <1>2 DEF DrawnUpTo
<1> QED
  BY <1>2, <1>3, <1>4 DEF BracketInv, GoodRound, Asked

LEMMA SameKeepsInv ==
  ASSUME BracketInv, SeatedInv', UNCHANGED <<field, reset, boards>>
  PROVE  BracketInv'
<1>1. PICK cs : cs = boards
  OBVIOUS
<1>2. Setting /\ Typed(cs) /\ Rounds' = Rounds
  BY <1>1, SettingHolds DEF BracketInv, Rounds
<1>3. PICK p : p = Resolved(cs) /\ p = Resolved(boards) /\ p = Resolved(boards)'
  <2>1. Resolved(cs)' = Resolved(cs)
    BY <1>2, ResolvedStays
  <2>2. Resolved(boards)' = Resolved(cs)' /\ Resolved(boards) = Resolved(cs)
    BY <1>1
  <2> QED
    BY <2>1, <2>2
<1>4. TypeOK' /\ (\A r \in 1..Rounds : GoodRound(boards[r]))'
  BY DEF SeatedInv
<1>5. (\E last : DrawnUpTo(last))'
  BY <1>2, Zenon DEF BracketInv, DrawnUpTo
<1>6. ASSUME NEW r \in 1..Rounds PROVE Asked(boards, Resolved(boards), r)'
  <2>1. Pairs(p, r)' = Pairs(p, r)
    BY PairsStay
  <2>2. Pairs(Resolved(boards), r)' = Pairs(p, r)' /\ Pairs(Resolved(boards), r) = Pairs(p, r)
    BY <1>3
  <2>3. Asked(boards, Resolved(boards), r)
    BY DEF BracketInv
  <2> QED
    BY <2>1, <2>2, <2>3 DEF Asked, SeatsIn, Seats
<1> QED
  BY <1>2, <1>4, <1>5, <1>6 DEF BracketInv

\* Once a request out of date has written, it has.
LEMMA OutdatedStays ==
  ASSUME TypeOK, [Next]_vars, ~outdated'
  PROVE  ~outdated
  BY DEF TypeOK, vars, Next, AskDraw, AskUnpair, Asks, Draw, Unpair, Writes, Result, Designate

LEMMA BracketStep ==
  ASSUME SeatedInv, outdated \/ BracketInv, [Next]_vars, ~outdated'
  PROVE  BracketInv /\ BracketInv'
<1>1. BracketInv
  BY OutdatedStays DEF SeatedInv
<1>2. SeatedInv'
  BY SeatedStep
<1>3. CASE UNCHANGED <<field, reset, boards>>
  BY <1>1, <1>2, <1>3, SameKeepsInv
<1>4. CASE \E at, new : ChangesThroughGate(at, new)
  BY <1>1, <1>2, <1>4, ChangeKeepsInv DEF ChangesThroughGate
<1> QED
  BY <1>1, <1>3, <1>4, StepChanges

\* The inductive invariant: as long as no request out of date has written, the
\* rounds are drawn in order and their boards are those the bracket asks for.
LEMMA BracketInvariant == Spec => [](SeatedInv /\ (outdated \/ BracketInv))
<1>1. Init => SeatedInv /\ (outdated \/ BracketInv)
  BY InitSeated, InitBracket
<1>2. SeatedInv /\ (outdated \/ BracketInv) /\ [Next]_vars => (SeatedInv /\ (outdated \/ BracketInv))'
  BY SeatedStep, BracketStep
<1> QED
  BY <1>1, <1>2, PTL DEF Spec

\* Until a request out of date has written, the boards of the rounds drawn are
\* those the bracket asks for now, whatever results were entered, changed,
\* cleared and designated since they were drawn, while others await their
\* snapshots (DoubleEliminationMixin._round_match_pairs).
THEOREM BoardsAlwaysMatch == Spec => []BoardsMatchBracket
<1>1. BracketInv => BoardsMatchBracket
  <2> SUFFICES ASSUME BracketInv
               PROVE  \A r \in 1..LastPaired : SeatsIn(boards[r]) = Pairs(Resolved(boards), r)
    BY DEF BoardsMatchBracket, SeatsIn
  <2>1. Setting /\ Rounds \in Nat
    BY SettingHolds, SettingOf DEF BracketInv
  <2>2. PICK last : DrawnUpTo(last) /\ LastPaired = last
    BY <2>1, LastPairedIs DEF BracketInv
  <2>3. ASSUME NEW r \in 1..LastPaired
        PROVE  SeatsIn(boards[r]) = Pairs(Resolved(boards), r)
    <3>1. r \in 1..Rounds /\ boards[r] # {}
      BY <2>1, <2>2 DEF DrawnUpTo
    <3> QED
      BY <3>1 DEF BracketInv, Asked
  <2> QED
    BY <2>3
<1>2. outdated => BoardsMatchBracket
  BY DEF BoardsMatchBracket
<1> QED
  BY <1>1, <1>2, BracketInvariant, PTL

-----------------------------------------------------------------------------
(* The placements.                                                         *)

LEMMA ResetStands ==
  ASSUME Setting, NEW bs, NEW cs, NEW q \in Nat, \A r \in 1..q : bs[r] = cs[r],
         NEW o, Worked(bs, o), NEW p, Worked(cs, p)
  PROVE  2 * K <= q => (ResetNeeded(o) <=> ResetNeeded(p))
<1>0. \A x \in Matches(K, reset) : AppRound(K, x) <= q => o[x] = p[x]
  BY OutcomesStand
<1>1. K \in Nat \ {0} /\ reset \in BOOLEAN
  BY SettingOf DEF Setting
<1> SUFFICES ASSUME 2 * K <= q PROVE ResetNeeded(o) <=> ResetNeeded(p)
  OBVIOUS
<1>2. PICK x \in Matches(K, reset) : x = SecondFrom /\ AppRound(K, x) <= q
  <2>1. PICK a \in Int : a = AppRound(K, SecondFrom)
    <3>1. AppRound(K, SecondFrom) \in 1..(IF reset THEN 2 * K + 1 ELSE 2 * K)
      BY <1>1, FinalMatches, RoundsRange
    <3> QED
      BY <1>1, <3>1
  <2> QED
    BY <1>1, <2>1, FinalMatches
<1>3. o[GF] = p[GF] /\ o[x] = p[x]
  BY <1>0, <1>2, FinalMatches
<1> QED
  BY <1>2, <1>3 DEF ResetNeeded, K, SecondFrom

LEMMA PutOutStands ==
  ASSUME Setting, NEW bs, NEW cs, NEW q \in Nat, \A r \in 1..q : bs[r] = cs[r],
         NEW o, Worked(bs, o), NEW p, Worked(cs, p)
  PROVE  PutOut(o, q) = PutOut(p, q)
<1>0. \A x \in Matches(K, reset) : AppRound(K, x) <= q => o[x] = p[x]
  BY OutcomesStand
<1>1. DOMAIN o = Matches(K, reset) /\ DOMAIN p = Matches(K, reset)
  BY DEF Worked, Outcomes
<1>2. PICK M : M = Matches(K, reset)
  OBVIOUS
<1>3. ASSUME NEW x \in M, x[1] = "L", Decided(x[2] + 1, q)
      PROVE  o[x] = p[x]
  BY <1>0, <1>2, <1>3 DEF AppRound, Decided
<1>4. {x \in M : x[1] = "L" /\ o[x].loser # Nobody /\ Decided(x[2] + 1, q)} =
      {x \in M : x[1] = "L" /\ p[x].loser # Nobody /\ Decided(x[2] + 1, q)}
  BY <1>3
<1>5. PICK X : /\ X = {x \in M : x[1] = "L" /\ o[x].loser # Nobody /\ Decided(x[2] + 1, q)}
               /\ X = {x \in M : x[1] = "L" /\ p[x].loser # Nobody /\ Decided(x[2] + 1, q)}
  BY <1>4, Zenon
<1>6. PutOut(o, q) = [m \in X |-> o[m].loser] /\ PutOut(p, q) = [m \in X |-> p[m].loser]
  BY <1>1, <1>2, <1>5 DEF PutOut
<1>7. \A m \in X : o[m].loser = p[m].loser
  BY <1>3, <1>5
<1> QED
  BY <1>6, <1>7

\* What is known of the placements after a round depends on the boards of that
\* round and of those before it.
LEMMA PlacementsKnown ==
  ASSUME Setting, NEW bs, NEW cs, NEW q \in Nat, \A r \in 1..q : bs[r] = cs[r],
         NEW o, Worked(bs, o), NEW p, Worked(cs, p)
  PROVE  Placements(o, q) = Placements(p, q)
<1>0. \A x \in Matches(K, reset) : AppRound(K, x) <= q => o[x] = p[x]
  BY OutcomesStand
<1>1. K \in Nat \ {0} /\ reset \in BOOLEAN
  BY SettingOf DEF Setting
<1>2. PICK byRound : byRound = RoundOut(PutOut(o, q)) /\ byRound = RoundOut(PutOut(p, q))
  BY PutOutStands
<1>3. PICK f, g : /\ f = IF reset /\ ResetNeeded(o) THEN GFR ELSE GF
                  /\ g = IF reset /\ ResetNeeded(p) THEN GFR ELSE GF
  OBVIOUS
<1>4. AppRound(K, GF) = 2 * K /\ AppRound(K, GFR) = 2 * K + 1
  BY <1>1, RoundsOfMatches
<1>5. /\ Placements(o, q) = IF Decided(AppRound(K, f), q) /\ o[f].loser # Nobody
                            THEN [x \in DOMAIN byRound \cup {o[f].loser} |->
                                    IF x = o[f].loser THEN Rounds ELSE byRound[x]]
                            ELSE byRound
      /\ Placements(p, q) = IF Decided(AppRound(K, g), q) /\ p[g].loser # Nobody
                            THEN [x \in DOMAIN byRound \cup {p[g].loser} |->
                                    IF x = p[g].loser THEN Rounds ELSE byRound[x]]
                            ELSE byRound
  BY <1>2, <1>3 DEF Placements, K
<1>6. CASE q < 2 * K
  <2>1. ~Decided(AppRound(K, f), q) /\ ~Decided(AppRound(K, g), q)
    BY <1>1, <1>3, <1>4, <1>6 DEF Decided
  <2> QED
    BY <1>5, <2>1
<1>7. CASE q >= 2 * K
  <2>1. f = g /\ f \in Matches(K, reset)
    <3>1. ResetNeeded(o) <=> ResetNeeded(p)
      BY <1>1, <1>7, ResetStands
    <3> QED
      BY <1>1, <1>3, <3>1, MatchesKinds
  <2>2. Decided(AppRound(K, f), q) => o[f] = p[f]
    BY <1>0, <2>1 DEF Decided
  <2>4. CASE Decided(AppRound(K, f), q)
    <3>1. PICK l : l = o[f].loser /\ l = p[g].loser
      BY <2>1, <2>2, <2>4
    <3> QED
      BY <1>5, <2>1, <2>4, <3>1
  <2>5. CASE ~Decided(AppRound(K, f), q)
    BY <1>5, <2>1, <2>5
  <2> QED
    BY <2>4, <2>5
<1> QED
  BY <1>1, <1>6, <1>7

\* What is known of the placements after a round stays what it was while that
\* round and those before it do, whatever is drawn, entered, designated and
\* unpaired later (DoubleEliminationMixin.knockout_placement_values).
THEOREM PlacementsAlwaysStand == Spec => PlacementsStand
<1>1. ASSUME SeatedInv, [Next]_vars, NEW before \in {Resolved(boards)},
             NEW later \in {Resolved(boards')}, NEW r \in 1..Rounds,
             \A q \in 1..r : boards'[q] = boards[q]
      PROVE  Placements(later, r) = Placements(before, r)
  <2>1. PICK bs, cs : bs = boards /\ cs = boards'
    OBVIOUS
  <2>2. Setting /\ Typed(bs) /\ Rounds \in Nat
    BY <1>1, <2>1, SettingHolds, SettingOf DEF SeatedInv
  <2>3. Typed(cs)
    <3>1. (SeatedInv)' /\ UNCHANGED <<field, reset>>
      BY <1>1, SeatedStep, StepIsGood DEF vars
    <3>2. Rounds' = Rounds /\ Boards' = Boards
      BY <3>1 DEF Rounds, Boards, Players, Results
    <3> QED
      BY <2>1, <3>1, <3>2 DEF SeatedInv, TypeOK, Typed
  <2>4. Worked(bs, before) /\ Worked(cs, later)
    BY <1>1, <2>1, <2>2, <2>3, ResolvedFixpoint
  <2>5. r \in Nat /\ \A q \in 1..r : bs[q] = cs[q]
    BY <1>1, <2>1, <2>2
  <2> QED
    BY <2>2, <2>4, <2>5, PlacementsKnown
<1>2. SeatedInv /\ [Next]_vars =>
        [\A before \in {Resolved(boards)}, later \in {Resolved(boards')}, r \in 1..Rounds :
           (\A q \in 1..r : boards'[q] = boards[q]) =>
             Placements(later, r) = Placements(before, r)]_vars
  BY <1>1
<1> QED
  BY <1>2, SeatedInvariant, PTL DEF Spec, PlacementsStand

-----------------------------------------------------------------------------
(* Where players come from.                                                *)

\* The boards are sound, and the outcomes are those they decide.
Sound(bs, o) ==
  /\ Worked(bs, o) /\ Typed(bs)
  /\ \A r \in 1..Rounds : GoodRound(bs[r]) /\ Asked(bs, o, r)

LEMMA ResolveKinds ==
  ASSUME NEW o
  PROVE  /\ \A x : Resolve(o, WinnerOf(x)) = o[x].winner /\ Resolve(o, LoserOf(x)) = o[x].loser
         /\ \A x : Resolve(o, Seed(x)) = IF x <= field THEN x ELSE Nobody
  BY DEF Resolve, WinnerOf, LoserOf, Seed

LEMMA ComesFrom ==
  ASSUME NEW bs, NEW o, Sound(bs, o), NEW m \in Matches(K, reset),
         NEW s, NEW t, Sources(K, m) = <<s, t>>
  PROVE  o[m].a = Resolve(o, s) /\ o[m].b = Resolve(o, t)
<1>1. PICK pair : pair = Sources(K, m) /\ s = pair[1] /\ t = pair[2]
  OBVIOUS
<1>2. o[m] = Outcome(bs, AppRound(K, m), o, pair)
  BY <1>1 DEF Sound, Worked
<1> QED
  BY <1>1, <1>2, OutcomeParts

\* Who may win a board: one of the two who sit there, or nobody yet.
LEMMA WinnerSeats ==
  ASSUME NEW b, GoodBoard(b)
  PROVE  BoardWinner(b) \in Seats(b) \cup {Nobody}
  BY DEF GoodBoard, Boards, Seats, BoardWinner, Contested

\* The board of two players tells who won, whoever sits at the others.
LEMMA BoardFound ==
  ASSUME NEW bs, NEW r, GoodRound(bs[r]), NEW a, NEW b, a # Nobody, b # Nobody, a # b,
         NEW c \in bs[r], Seats(c) = {a, b}
  PROVE  Contested(c) /\ WinnerOfBoard(bs, r, a, b) = BoardWinner(c)
<1> DEFINE contested == {x \in bs[r] : Contested(x)}
           both == {x \in contested : {a, b} \subseteq Seats(x)}
           either == {x \in contested : Seats(x) \cap {a, b} # {}}
           first(found) == CHOOSE x \in found : \A y \in found : x.table <= y.table
<1>1. Contested(c)
  BY DEF Contested, Seats
<1>2. \A x \in bs[r] : a \in Seats(x) => x = c
  BY DEF GoodRound
<1>3. both = {c}
  BY <1>1, <1>2
<1>4. WinnerOfBoard(bs, r, a, b) = BoardWinner(first(both))
  BY <1>3, Zenon DEF WinnerOfBoard
<1>5. c.table <= c.table
  BY DEF GoodRound, GoodBoard, Boards
<1>6. first({c}) = c
  BY <1>5
<1> QED
  BY <1>1, <1>3, <1>4, <1>6

\* Without a board that seats one of them, nobody won.
LEMMA NoBoardFound ==
  ASSUME NEW bs, NEW r, NEW a, NEW b,
         \A x \in bs[r] : Contested(x) => Seats(x) \cap {a, b} = {}
  PROVE  WinnerOfBoard(bs, r, a, b) = Nobody
<1>1. {x \in {y \in bs[r] : Contested(y)} : {a, b} \subseteq Seats(x)} = {}
  BY Zenon
<1>2. {x \in {y \in bs[r] : Contested(y)} : Seats(x) \cap {a, b} # {}} = {}
  BY Zenon
<1> QED
  BY <1>1, <1>2 DEF WinnerOfBoard

\* The reset is the only match of its round.
LEMMA OnlyReset ==
  ASSUME Setting, NEW m \in Matches(K, reset), AppRound(K, m) = AppRound(K, GFR)
  PROVE  m = GFR
<1>1. PICK k \in Nat \ {0} : k = K /\ reset \in BOOLEAN /\ AppRound(k, GFR) = 2 * k + 1
  BY SettingOf, RoundsOfMatches DEF Setting
<1>2. CASE \E r \in 1..k : \E i \in 0..Pow2[k - r] - 1 : m = W(r, i)
  <2>1. PICK r \in 1..k : \E i \in 0..Pow2[k - r] - 1 : m = W(r, i)
    BY <1>2
  <2>2. PICK i \in 0..Pow2[k - r] - 1 : m = W(r, i)
    BY <2>1
  <2>3. AppRound(k, W(r, i)) = IF r = 1 THEN 1 ELSE 2 * (r - 1)
    BY RoundsOfMatches
  <2> QED
    BY <1>1, <2>2, <2>3
<1>3. CASE \E j \in 1..2 * (k - 1) : \E i \in 0..Pow2[k - 1 - (j + 1) \div 2] - 1 : m = L(j, i)
  <2>1. PICK j \in 1..2 * (k - 1) :
              \E i \in 0..Pow2[k - 1 - (j + 1) \div 2] - 1 : m = L(j, i)
    BY <1>3
  <2>2. PICK i \in 0..Pow2[k - 1 - (j + 1) \div 2] - 1 : m = L(j, i)
    BY <2>1
  <2>3. AppRound(k, L(j, i)) = j + 1
    BY RoundsOfMatches
  <2> QED
    BY <1>1, <2>2, <2>3
<1>4. CASE m = GF
  <2>1. AppRound(k, m) = 2 * k
    BY <1>4, RoundsOfMatches
  <2> QED
    BY <1>1, <2>1
<1> QED
  BY <1>1, <1>2, <1>3, <1>4, MatchesKinds

\* The two who play a match that has a winner sit at one board, which tells.
LEMMA AtBoard ==
  ASSUME Setting, NEW bs, NEW o, Sound(bs, o), NEW m \in Matches(K, reset),
         NEW r, r = AppRound(K, m), NEW a, a = o[m].a, NEW b, b = o[m].b,
         a # Nobody, b # Nobody
  PROVE  \/ WinnerOfBoard(bs, r, a, b) = Nobody
         \/ \E c \in bs[r] : Seats(c) = {a, b} /\ WinnerOfBoard(bs, r, a, b) = BoardWinner(c)
<1>1. r \in 1..Rounds /\ GoodRound(bs[r]) /\ Asked(bs, o, r)
  BY SettingOf, RoundsRange DEF Setting, Sound
<1>2. CASE bs[r] = {}
  BY <1>2, NoBoardFound
<1>3. CASE bs[r] # {}
  <2>1. SeatsIn(bs[r]) = Pairs(o, r)
    BY <1>1, <1>3 DEF Asked
  <2>2. m = GFR => ResetNeeded(o)
    <3> SUFFICES ASSUME m = GFR PROVE ResetNeeded(o)
      OBVIOUS
    <3>1. PICK n \in Played(o, r) : TRUE
      BY <1>3, <2>1 DEF SeatsIn, Pairs
    <3>2. n \in Matches(K, reset) /\ AppRound(K, n) = r
      BY <1>1, <3>1, RoundOfMatch, Zenon DEF Played
    <3>3. n = GFR
      BY <3>2, OnlyReset
    <3> QED
      BY <3>1, <3>3 DEF Played
  <2>3. m \in Played(o, r) /\ Pair(o, m) = {a, b}
    <3>1. m \in DOMAIN MatchesForRound(r)
      BY <1>1, RoundOfMatch, Zenon
    <3>2. {a, b} # {Nobody} /\ {a, b} \ {Nobody} = {a, b}
      OBVIOUS
    <3> QED
      BY <2>2, <3>1, <3>2 DEF Played, Pair
  <2>4. PICK c \in bs[r] : Seats(c) = {a, b}
    BY <2>1, <2>3 DEF SeatsIn, Pairs
  <2>5. CASE a # b
    BY <1>1, <2>4, <2>5, BoardFound
  <2>6. CASE a = b
    <3>1. ~Contested(c)
      BY <1>1, <2>4, <2>6, SettingOf DEF GoodRound, GoodBoard, Boards, Players, Seats, Contested, Nobody
    <3>2. \A x \in bs[r] : Contested(x) => Seats(x) \cap {a, b} = {}
      BY <1>1, <2>4, <2>6, <3>1 DEF GoodRound
    <3> QED
      BY <3>2, NoBoardFound
  <2> QED
    BY <2>5, <2>6
<1> QED
  BY <1>2, <1>3

\* One of those who play a match wins it, and another one loses it.
LEMMA Decides ==
  ASSUME Setting, NEW bs, NEW o, Sound(bs, o), NEW m \in Matches(K, reset)
  PROVE  /\ o[m].winner \in {o[m].a, o[m].b, Nobody}
         /\ o[m].loser \in {o[m].a, o[m].b, Nobody}
         /\ o[m].loser # Nobody => o[m].a # Nobody /\ o[m].b # Nobody /\ o[m].winner # Nobody
         /\ o[m].loser # Nobody /\ o[m].a # o[m].b => o[m].loser # o[m].winner
<1>1. PICK pair, s, t, r : pair = Sources(K, m) /\ s = pair[1] /\ t = pair[2] /\ r = AppRound(K, m)
  OBVIOUS
<1>2. PICK x : x = o[m] /\ x = Outcome(bs, r, o, pair)
  BY <1>1 DEF Sound, Worked
<1>3. r \in 1..Rounds
  BY <1>1, SettingOf, RoundsRange DEF Setting
<1>4. ASSUME x.a # Nobody, x.b # Nobody
      PROVE  WinnerOfBoard(bs, r, x.a, x.b) \in {x.a, x.b, Nobody}
  <2>1. CASE WinnerOfBoard(bs, r, x.a, x.b) = Nobody
    BY <2>1
  <2>2. CASE WinnerOfBoard(bs, r, x.a, x.b) # Nobody
    <3>1. PICK a, b : a = x.a /\ b = x.b
      OBVIOUS
    <3>2. \/ WinnerOfBoard(bs, r, a, b) = Nobody
          \/ \E c \in bs[r] : Seats(c) = {a, b} /\ WinnerOfBoard(bs, r, a, b) = BoardWinner(c)
      <4>1. a = o[m].a /\ b = o[m].b /\ a # Nobody /\ b # Nobody
        BY <1>2, <1>4, <3>1
      <4> QED
        BY <1>1, <4>1, AtBoard
    <3>3. PICK c \in bs[r] : Seats(c) = {a, b} /\ WinnerOfBoard(bs, r, a, b) = BoardWinner(c)
      BY <2>2, <3>1, <3>2
    <3>4. GoodBoard(c)
      BY <1>3 DEF Sound, GoodRound
    <3> QED
      BY <3>1, <3>3, <3>4, WinnerSeats
  <2> QED
    BY <2>1, <2>2
<1>5. PICK sa, ta : sa = Absent(o, s) /\ ta = Absent(o, t)
  OBVIOUS
<1>6. /\ sa => x.winner = x.b
      /\ ~sa /\ ta => x.winner = x.a
      /\ ~sa /\ ~ta =>
           x.winner = IF x.a # Nobody /\ x.b # Nobody THEN WinnerOfBoard(bs, r, x.a, x.b) ELSE Nobody
      /\ x.loser = IF x.a = Nobody \/ x.b = Nobody \/ x.winner = Nobody THEN Nobody
                   ELSE IF x.winner = x.b THEN x.a ELSE x.b
  BY <1>1, <1>2, <1>5, OutcomeParts
<1>7. x.winner \in {x.a, x.b, Nobody}
  BY <1>4, <1>6
<1> QED
  BY <1>2, <1>6, <1>7

LEMMA IsMatchW ==
  ASSUME Setting, NEW r \in 1..K, NEW i \in 0..Pow2[K - r] - 1
  PROVE  W(r, i) \in Matches(K, reset)
  BY SettingOf, MatchesKinds DEF Setting

LEMMA IsMatchL ==
  ASSUME Setting, NEW j \in 1..2 * (K - 1), NEW i \in 0..Pow2[K - 1 - (j + 1) \div 2] - 1
  PROVE  L(j, i) \in Matches(K, reset)
  BY SettingOf, MatchesKinds DEF Setting

\* The first round of the winners' bracket has each seed of the field once.
LEMMA ComesW1 ==
  ASSUME Setting, NEW bs, NEW o, Sound(bs, o), NEW i \in 0..Pow2[K - 1] - 1
  PROVE  /\ \A p \in {o[W(1, i)].a, o[W(1, i)].b} \ {Nobody} :
              \E x \in {2 * i + 1, 2 * i + 2} : x \in 1..Pow2[K] /\ SeedOrder[K][x] = p
         /\ o[W(1, i)].a # Nobody => o[W(1, i)].a # o[W(1, i)].b
<1>1. K \in Nat \ {0} /\ 1 \in 1..K /\ Pow2[K - 1] \in Nat /\ Pow2[K] = 2 * Pow2[K - 1]
  BY SettingOf, Pow2Step
<1>2. PICK n \in Nat : n = Pow2[K - 1] /\ i \in 0..n - 1 /\ Pow2[K] = 2 * n
  BY <1>1
<1>3. 2 * i + 1 \in 1..2 * n /\ 2 * i + 2 \in 1..2 * n
  BY <1>2
<1>4. PICK x, y : x = SeedOrder[K][2 * i + 1] /\ y = SeedOrder[K][2 * i + 2]
  OBVIOUS
<1>5. x # y /\ x \in Nat /\ y \in Nat
  <2>1. x # y
    <3>1. SeedOrder[K][2 * i + 1] = SeedOrder[K][2 * i + 2] => 2 * i + 1 = 2 * i + 2
      BY <1>1, <1>2, <1>3, SeedOrderApart
    <3> QED
      BY <1>2, <1>4, <3>1
  <2>2. \A z \in 1..2 * n : SeedOrder[K][z] \in 1..2 * n
    BY <1>1, <1>2, SeedOrderStep, Zenon DEF Slots
  <2>3. x \in 1..2 * n /\ y \in 1..2 * n
    BY <1>3, <1>4, <2>2
  <2> QED
    BY <2>1, <2>3
<1>6. W(1, i) \in Matches(K, reset)
  BY <1>1, IsMatchW
<1>7. Sources(K, W(1, i)) \in {<<Seed(x), Seed(y)>>, <<Seed(y), Seed(x)>>}
  BY <1>1, <1>4, SourcesOfW
<1>8. PICK m : m = W(1, i)
  OBVIOUS
<1>9. PICK u, v : u = Resolve(o, Seed(x)) /\ v = Resolve(o, Seed(y))
  OBVIOUS
<1>10. \/ o[m].a = u /\ o[m].b = v
       \/ o[m].a = v /\ o[m].b = u
  BY <1>6, <1>7, <1>8, <1>9, ComesFrom
<1>11. u \in {x, Nobody} /\ v \in {y, Nobody}
  BY <1>9, ResolveKinds, Zenon
<1> QED
  BY <1>2, <1>3, <1>4, <1>5, <1>8, <1>10, <1>11

LEMMA ComesW ==
  ASSUME Setting, NEW bs, NEW o, Sound(bs, o), NEW r \in 2..K, NEW i \in 0..Pow2[K - r] - 1
  PROVE  /\ 2 * i \in 0..Pow2[K - (r - 1)] - 1 /\ 2 * i + 1 \in 0..Pow2[K - (r - 1)] - 1
         /\ o[W(r, i)].a = o[W(r - 1, 2 * i)].winner
         /\ o[W(r, i)].b = o[W(r - 1, 2 * i + 1)].winner
<1>1. K \in Nat \ {0} /\ r \in 1..K /\ r # 1 /\ K - r \in Nat /\ K - (r - 1) = (K - r) + 1
  BY SettingOf
<1>2. Pow2[K - (r - 1)] = 2 * Pow2[K - r] /\ Pow2[K - r] \in Nat
  BY <1>1, Pow2Step
<1>3. W(r, i) \in Matches(K, reset)
  BY <1>1, IsMatchW
<1>4. Sources(K, W(r, i)) = <<WinnerOf(W(r - 1, 2 * i)), WinnerOf(W(r - 1, 2 * i + 1))>>
  BY <1>1, SourcesOfW
<1> QED
  BY <1>2, <1>3, <1>4, ComesFrom, ResolveKinds

LEMMA ComesL1 ==
  ASSUME Setting, K >= 2, NEW bs, NEW o, Sound(bs, o), NEW i \in 0..Pow2[K - 2] - 1
  PROVE  /\ 2 * i \in 0..Pow2[K - 1] - 1 /\ 2 * i + 1 \in 0..Pow2[K - 1] - 1
         /\ o[L(1, i)].a = o[W(1, 2 * i)].loser /\ o[L(1, i)].b = o[W(1, 2 * i + 1)].loser
<1>1. K \in Nat \ {0} /\ 1 \in 1..2 * (K - 1) /\ K - 2 \in Nat /\ K - 1 = (K - 2) + 1
      /\ K - 1 - (1 + 1) \div 2 = K - 2
  BY SettingOf
<1>2. Pow2[K - 1] = 2 * Pow2[K - 2] /\ Pow2[K - 2] \in Nat
  BY <1>1, Pow2Step
<1>3. L(1, i) \in Matches(K, reset)
  <2>1. i \in 0..Pow2[K - 1 - (1 + 1) \div 2] - 1
    BY <1>1
  <2> QED
    BY <1>1, <2>1, IsMatchL
<1>4. Sources(K, L(1, i)) = <<LoserOf(W(1, 2 * i)), LoserOf(W(1, 2 * i + 1))>>
  BY <1>1, SourcesOfL
<1> QED
  BY <1>2, <1>3, <1>4, ComesFrom, ResolveKinds

\* The minor rounds of the losers' bracket.
LEMMA ComesLOdd ==
  ASSUME Setting, NEW bs, NEW o, Sound(bs, o), NEW j \in 2..2 * (K - 1), j % 2 = 1,
         NEW i \in 0..Pow2[K - 1 - (j + 1) \div 2] - 1
  PROVE  /\ 2 * i \in 0..Pow2[K - 1 - ((j - 1) + 1) \div 2] - 1
         /\ 2 * i + 1 \in 0..Pow2[K - 1 - ((j - 1) + 1) \div 2] - 1
         /\ o[L(j, i)].a = o[L(j - 1, 2 * i)].winner
         /\ o[L(j, i)].b = o[L(j - 1, 2 * i + 1)].winner
<1>1. /\ K \in Nat \ {0} /\ j \in 1..2 * (K - 1) /\ j # 1
      /\ K - 1 - ((j - 1) + 1) \div 2 = (K - 1 - (j + 1) \div 2) + 1
      /\ K - 1 - (j + 1) \div 2 \in Nat
  <2>1. PICK k \in Nat \ {0} : k = K
    BY SettingOf
  <2>2. j \in 2..2 * (k - 1)
    BY <2>1
  <2>3. /\ j \in 1..2 * (k - 1) /\ j # 1
        /\ k - 1 - ((j - 1) + 1) \div 2 = (k - 1 - (j + 1) \div 2) + 1
        /\ k - 1 - (j + 1) \div 2 \in Nat
    BY <2>2
  <2> QED
    BY <2>1, <2>3
<1>2. /\ Pow2[K - 1 - ((j - 1) + 1) \div 2] = 2 * Pow2[K - 1 - (j + 1) \div 2]
      /\ Pow2[K - 1 - (j + 1) \div 2] \in Nat
  BY <1>1, Pow2Step, Zenon
<1>3. L(j, i) \in Matches(K, reset) /\ i \in Nat
  BY <1>1, IsMatchL
<1>4. Sources(K, L(j, i)) = <<WinnerOf(L(j - 1, 2 * i)), WinnerOf(L(j - 1, 2 * i + 1))>>
  BY <1>1, <1>3, SourcesOfL
<1> QED
  BY <1>2, <1>3, <1>4, ComesFrom, ResolveKinds

\* The major rounds of the losers' bracket.
LEMMA ComesLEven ==
  ASSUME Setting, NEW bs, NEW o, Sound(bs, o), NEW j \in 2..2 * (K - 1), j % 2 = 0,
         NEW i \in 0..Pow2[K - 1 - (j + 1) \div 2] - 1,
         NEW x, x = Pow2[K - (j \div 2 + 1)] - 1 - i
  PROVE  /\ i \in 0..Pow2[K - 1 - ((j - 1) + 1) \div 2] - 1
         /\ j \div 2 + 1 \in 2..K /\ x \in 0..Pow2[K - (j \div 2 + 1)] - 1
         /\ o[L(j, i)].a = o[L(j - 1, i)].winner
         /\ o[L(j, i)].b = o[W(j \div 2 + 1, x)].loser
<1>1. /\ K \in Nat \ {0} /\ j \in 1..2 * (K - 1) /\ j \div 2 + 1 \in 2..K
      /\ ((j - 1) + 1) \div 2 = (j + 1) \div 2
      /\ K - 1 - (j + 1) \div 2 = K - (j \div 2 + 1)
      /\ K - (j \div 2 + 1) \in Nat
  BY SettingOf
<1>2. PICK n \in Nat : n = Pow2[K - (j \div 2 + 1)] /\ n = Pow2[K - 1 - (j + 1) \div 2]
  BY <1>1, Pow2Step, Zenon
<1>3. i \in 0..n - 1 /\ x \in 0..n - 1
  BY <1>2
<1>4. L(j, i) \in Matches(K, reset) /\ i \in Nat
  BY <1>1, IsMatchL
<1>5. Sources(K, L(j, i)) = <<WinnerOf(L(j - 1, i)), LoserOf(Dropout(K, j, i))>>
  BY <1>1, <1>4, SourcesOfL, Zenon
<1>6. Dropout(K, j, i) = W(j \div 2 + 1, x)
  BY DEF Dropout
<1>7. /\ o[L(j, i)].a = o[L(j - 1, i)].winner
      /\ o[L(j, i)].b = o[W(j \div 2 + 1, x)].loser
  <2>1. PICK m, s, t : m = L(j, i) /\ s = L(j - 1, i) /\ t = W(j \div 2 + 1, x)
    OBVIOUS
  <2>2. Sources(K, m) = <<WinnerOf(s), LoserOf(t)>> /\ m \in Matches(K, reset)
    BY <1>4, <1>5, <1>6, <2>1
  <2>3. o[m].a = o[s].winner /\ o[m].b = o[t].loser
    BY <2>2, ComesFrom, ResolveKinds
  <2> QED
    BY <2>1, <2>3
<1>8. i \in 0..Pow2[K - 1 - ((j - 1) + 1) \div 2] - 1 /\ x \in 0..Pow2[K - (j \div 2 + 1)] - 1
  BY <1>1, <1>2, <1>3
<1> QED
  BY <1>1, <1>7, <1>8

LEMMA ComesGF ==
  ASSUME Setting, K >= 2, NEW bs, NEW o, Sound(bs, o), NEW m \in Matches(K, reset), m \in {GF, GFR}
  PROVE  /\ o[m].a = o[W(K, 0)].winner /\ o[m].b = o[L(2 * (K - 1), 0)].winner
         /\ W(K, 0) \in Matches(K, reset) /\ L(2 * (K - 1), 0) \in Matches(K, reset)
         /\ 0 \in 0..Pow2[K - K] - 1 /\ 0 \in 0..Pow2[K - 1 - (2 * (K - 1) + 1) \div 2] - 1
         /\ SecondFrom = L(2 * (K - 1), 0)
<1>1. /\ K \in Nat \ {0} /\ K \in 1..K /\ 2 * (K - 1) \in 1..2 * (K - 1) /\ K - K = 0 /\ K # 1
      /\ K - 1 - (2 * (K - 1) + 1) \div 2 = 0
  BY SettingOf
<1>2. 0 \in 0..Pow2[K - K] - 1 /\ 0 \in 0..Pow2[K - 1 - (2 * (K - 1) + 1) \div 2] - 1
  BY <1>1, Pow2Step
<1>3. W(K, 0) \in Matches(K, reset) /\ L(2 * (K - 1), 0) \in Matches(K, reset)
  BY <1>1, <1>2, IsMatchW, IsMatchL
<1>4. Champions(K) = <<WinnerOf(W(K, 0)), WinnerOf(L(2 * (K - 1), 0))>>
  BY <1>1 DEF Champions
<1>5. Sources(K, m) = <<WinnerOf(W(K, 0)), WinnerOf(L(2 * (K - 1), 0))>>
  BY <1>1, <1>4, SourcesOfGF
<1>6. SecondFrom = L(2 * (K - 1), 0)
  BY <1>4 DEF SecondFrom, WinnerOf
<1> QED
  BY <1>2, <1>3, <1>5, <1>6, ComesFrom, ResolveKinds

-----------------------------------------------------------------------------
(* The first round against the third one.                                  *)

\* Who sits at a match, or at none.
At(o, m) == {o[m].a, o[m].b} \ {Nobody}

\* A player sits at one match of the first round.
LEMMA FirstRoundOnce ==
  ASSUME Setting, NEW bs, NEW o, Sound(bs, o),
         NEW i \in 0..Pow2[K - 1] - 1, NEW j \in 0..Pow2[K - 1] - 1,
         NEW p \in At(o, W(1, i)), p \in At(o, W(1, j))
  PROVE  i = j
<1>1. K \in Nat /\ Pow2[K - 1] \in Nat
  BY SettingOf, Pow2Step
<1>2. PICK x \in {2 * i + 1, 2 * i + 2} : x \in 1..Pow2[K] /\ SeedOrder[K][x] = p
  BY ComesW1 DEF At
<1>3. PICK y \in {2 * j + 1, 2 * j + 2} : y \in 1..Pow2[K] /\ SeedOrder[K][y] = p
  BY ComesW1 DEF At
<1>4. x = y
  BY <1>1, <1>2, <1>3, SeedOrderApart
<1> QED
  BY <1>1, <1>2, <1>3, <1>4

\* The matches of the first round and of the third one.
LEMMA FirstAndThird ==
  ASSUME Setting, K >= 3
  PROVE  /\ 1 \in 1..Rounds /\ 3 \in 1..Rounds
         /\ \A m \in DOMAIN MatchesForRound(1) : \E i \in 0..Pow2[K - 1] - 1 : m = W(1, i)
         /\ \A m \in DOMAIN MatchesForRound(3) : \E i \in 0..Pow2[K - 2] - 1 : m = L(2, i)
<1>1. PICK k \in Nat \ {0} : k = K /\ k >= 3 /\ Rounds \in Nat /\ Rounds >= 2 * k /\ reset \in BOOLEAN
  BY SettingOf DEF Setting
<1>2. 1 \in 1..Rounds /\ 3 \in 1..Rounds
  BY <1>1
<1>3. ASSUME NEW m \in Matches(k, reset), AppRound(k, m) \in {1, 3}
      PROVE  \/ AppRound(k, m) = 1 /\ \E i \in 0..Pow2[k - 1] - 1 : m = W(1, i)
             \/ AppRound(k, m) = 3 /\ \E i \in 0..Pow2[k - 2] - 1 : m = L(2, i)
  <2>1. ASSUME NEW r \in 1..k, NEW i \in 0..Pow2[k - r] - 1, m = W(r, i)
        PROVE  r = 1 /\ AppRound(k, m) = 1
    <3>1. AppRound(k, m) = IF r = 1 THEN 1 ELSE 2 * (r - 1)
      BY <2>1, RoundsOfMatches
    <3> QED
      BY <1>3, <3>1
  <2>2. ASSUME NEW j \in 1..2 * (k - 1), NEW i \in 0..Pow2[k - 1 - (j + 1) \div 2] - 1, m = L(j, i)
        PROVE  j = 2 /\ AppRound(k, m) = 3 /\ k - 1 - (j + 1) \div 2 = k - 2
    <3>1. AppRound(k, m) = j + 1
      BY <2>2, RoundsOfMatches
    <3> QED
      BY <1>3, <3>1
  <2>3. m # GF /\ m # GFR
    BY <1>1, <1>3, RoundsOfMatches
  <2>4. \/ \E r \in 1..k : \E i \in 0..Pow2[k - r] - 1 : m = W(r, i)
        \/ \E j \in 1..2 * (k - 1) : \E i \in 0..Pow2[k - 1 - (j + 1) \div 2] - 1 : m = L(j, i)
    BY <1>1, <2>3, MatchesKinds
  <2>5. CASE \E r \in 1..k : \E i \in 0..Pow2[k - r] - 1 : m = W(r, i)
    <3>0. PICK r \in 1..k : \E i \in 0..Pow2[k - r] - 1 : m = W(r, i)
      BY <2>5
    <3>1. PICK i \in 0..Pow2[k - r] - 1 : m = W(r, i)
      BY <3>0
    <3>2. r = 1 /\ AppRound(k, m) = 1
      BY <2>1, <3>1
    <3> QED
      BY <3>1, <3>2
  <2>6. CASE \E j \in 1..2 * (k - 1) : \E i \in 0..Pow2[k - 1 - (j + 1) \div 2] - 1 : m = L(j, i)
    <3>0. PICK j \in 1..2 * (k - 1) : \E i \in 0..Pow2[k - 1 - (j + 1) \div 2] - 1 : m = L(j, i)
      BY <2>6
    <3>1. PICK i \in 0..Pow2[k - 1 - (j + 1) \div 2] - 1 : m = L(j, i)
      BY <3>0
    <3>2. j = 2 /\ AppRound(k, m) = 3 /\ k - 1 - (j + 1) \div 2 = k - 2
      BY <2>2, <3>1
    <3>3. i \in 0..Pow2[k - 2] - 1 /\ m = L(2, i)
      BY <3>1, <3>2
    <3> QED
      BY <3>2, <3>3
  <2> QED
    BY <2>4, <2>5, <2>6
<1>4. \A r \in {1, 3} : \A m \in DOMAIN MatchesForRound(r) : m \in Matches(k, reset) /\ AppRound(k, m) = r
  BY <1>1, <1>2, RoundOfMatch, Zenon
<1> QED
  BY <1>1, <1>2, <1>3, <1>4

LEMMA NoRematch ==
  ASSUME Setting, K >= 3, NEW bs, NEW o, Sound(bs, o),
         NEW i \in 0..Pow2[K - 1] - 1, NEW j \in 0..Pow2[K - 2] - 1,
         NEW p, NEW q, p # q, {p, q} \subseteq At(o, W(1, i)), At(o, L(2, j)) = {p, q}
  PROVE  FALSE
<1>1. PICK k \in Nat \ {0} : k = K /\ k >= 3
  BY SettingOf
<1>2. /\ 2 \in 2..2 * (k - 1) /\ 2 % 2 = 0 /\ 2 - 1 = 1 /\ 2 \div 2 + 1 = 2
      /\ k - 1 - (2 + 1) \div 2 = k - 2 /\ k - 1 - ((2 - 1) + 1) \div 2 = k - 2
      /\ 2 \in 2..k /\ k - 3 \in Nat /\ k - 2 = (k - 3) + 1 /\ k - 1 = (k - 2) + 1 /\ k - 2 \in Nat
      /\ 1 \in 1..k /\ 1 \in 1..2 * (k - 1) /\ k - 1 - (1 + 1) \div 2 = k - 2 /\ k >= 2
  BY <1>1
<1>3. PICK n \in Nat : Pow2[k - 3] = n /\ Pow2[k - 2] = 2 * n /\ Pow2[k - 1] = 4 * n
  BY <1>2, Pow2Step
<1>4. PICK x : x = 2 * n - 1 - j /\ x \in 0..2 * n - 1 /\ j \in 0..2 * n - 1 /\ x # j
  BY <1>1, <1>3
<1>5. /\ o[L(2, j)].a = o[L(1, j)].winner
      /\ o[L(2, j)].b = o[W(2, x)].loser
  <2>1. PICK h \in 2..2 * (K - 1) : h = 2
    BY <1>1, <1>2
  <2>2. /\ h % 2 = 0 /\ h - 1 = 1 /\ h \div 2 + 1 = 2
        /\ K - 1 - (h + 1) \div 2 = K - 2
    BY <1>1, <1>2, <2>1
  <2>3. j \in 0..Pow2[K - 1 - (h + 1) \div 2] - 1 /\ x = Pow2[K - (h \div 2 + 1)] - 1 - j
    BY <1>1, <1>3, <1>4, <2>2
  <2>4. o[L(h, j)].a = o[L(h - 1, j)].winner /\ o[L(h, j)].b = o[W(h \div 2 + 1, x)].loser
    BY <2>2, <2>3, ComesLEven
  <2> QED
    BY <2>1, <2>2, <2>4
<1>6. /\ 2 * j \in 0..Pow2[K - 1] - 1 /\ 2 * j + 1 \in 0..Pow2[K - 1] - 1
      /\ o[L(1, j)].a = o[W(1, 2 * j)].loser /\ o[L(1, j)].b = o[W(1, 2 * j + 1)].loser
  BY <1>1, <1>2, ComesL1
<1>7. /\ 2 * x \in 0..Pow2[K - 1] - 1 /\ 2 * x + 1 \in 0..Pow2[K - 1] - 1
      /\ o[W(2, x)].a = o[W(1, 2 * x)].winner /\ o[W(2, x)].b = o[W(1, 2 * x + 1)].winner
  <2>1. PICK h \in 2..K : h = 2
    BY <1>1, <1>2
  <2>2. x \in 0..Pow2[K - h] - 1 /\ h - 1 = 1
    BY <1>1, <1>3, <1>4, <2>1
  <2>3. /\ 2 * x \in 0..Pow2[K - (h - 1)] - 1 /\ 2 * x + 1 \in 0..Pow2[K - (h - 1)] - 1
        /\ o[W(h, x)].a = o[W(h - 1, 2 * x)].winner /\ o[W(h, x)].b = o[W(h - 1, 2 * x + 1)].winner
    BY <2>2, ComesW
  <2> QED
    BY <2>1, <2>2, <2>3
<1>8. /\ L(1, j) \in Matches(K, reset) /\ W(2, x) \in Matches(K, reset)
      /\ \A y \in 0..Pow2[K - 1] - 1 : W(1, y) \in Matches(K, reset)
  BY <1>1, <1>2, <1>3, <1>4, IsMatchW, IsMatchL
\* Who comes to the third round played the first one there.
<1>9. ASSUME NEW m \in Matches(K, reset), NEW z, z # Nobody, z \in {o[m].winner, o[m].loser}
      PROVE  z \in At(o, m)
  BY <1>9, Decides DEF At
<1>10. ASSUME NEW z \in {p, q}, z = o[L(2, j)].a
       PROVE  i \in {2 * j, 2 * j + 1}
  <2>1. z # Nobody
    BY DEF At
  <2>2. z \in At(o, L(1, j))
    BY <1>5, <1>8, <1>9, <1>10, <2>1
  <2>3. PICK y \in {2 * j, 2 * j + 1} : y \in 0..Pow2[K - 1] - 1 /\ z \in At(o, W(1, y))
    BY <1>6, <1>8, <1>9, <2>1, <2>2 DEF At
  <2> QED
    BY <2>3, FirstRoundOnce
<1>11. ASSUME NEW z \in {p, q}, z = o[L(2, j)].b
       PROVE  i \in {2 * x, 2 * x + 1}
  <2>1. z # Nobody
    BY DEF At
  <2>2. z \in At(o, W(2, x))
    BY <1>5, <1>8, <1>9, <1>11, <2>1
  <2>3. PICK y \in {2 * x, 2 * x + 1} : y \in 0..Pow2[K - 1] - 1 /\ z \in At(o, W(1, y))
    BY <1>7, <1>8, <1>9, <2>1, <2>2, Zenon DEF At
  <2> QED
    BY <2>3, FirstRoundOnce
<1>12. i \in {2 * j, 2 * j + 1} /\ i \in {2 * x, 2 * x + 1}
  <2>1. {o[L(2, j)].a, o[L(2, j)].b} \ {Nobody} = {p, q}
    BY Zenon DEF At
  <2>2. o[L(2, j)].a \in {p, q} /\ o[L(2, j)].b \in {p, q}
    BY <2>1
  <2> QED
    BY <1>10, <1>11, <2>2
<1> QED
  BY <1>3, <1>4, <1>12

LEMMA SoundBoards ==
  ASSUME BracketInv, NEW bs, bs = boards
  PROVE  Setting /\ Sound(bs, Resolved(bs)) /\ Resolved(bs) = Resolved(boards)
<1>1. Setting /\ Typed(bs)
  BY SettingHolds DEF BracketInv
<1> QED
  BY <1>1, ResolvedFixpoint DEF Sound, BracketInv

\* Two players who met in the first round of the winners' bracket do not meet
\* in the first round that drops others into the losers' bracket: the slots of
\* the dropouts are reversed (double_elimination.schedule).  It is said until a
\* request out of date has written.
THEOREM NeverRematchedAtOnce == Spec => []NoQuickRematch
<1>1. BracketInv => NoQuickRematch
  <2> SUFFICES ASSUME BracketInv, K >= 3, NEW b \in boards[1], NEW c \in boards[3],
                      Contested(b), Seats(b) = Seats(c)
               PROVE  FALSE
    BY DEF NoQuickRematch, K
  <2>1. PICK bs, o : bs = boards /\ o = Resolved(bs) /\ o = Resolved(boards) /\ Sound(bs, o) /\ Setting
    BY SoundBoards
  <2>2. 1 \in 1..Rounds /\ 3 \in 1..Rounds
    BY <2>1, FirstAndThird
  <2>3. GoodBoard(b) /\ Seats(b) \in Pairs(o, 1) /\ Seats(c) \in Pairs(o, 3)
    BY <2>1, <2>2 DEF BracketInv, GoodRound, Asked, SeatsIn
  <2>4. PICK p, q : p # q /\ Seats(b) = {p, q}
    <3>1. 0 \notin Players
      BY <2>1, SettingOf DEF Players
    <3>2. PICK w, x : w = b.white /\ x = b.black /\ w # x /\ w \in Players /\ x # Nobody
      BY <2>3 DEF GoodBoard, Boards, Contested
    <3>3. Seats(b) = {w, x}
      BY <3>1, <3>2 DEF Seats, Nobody
    <3> QED
      BY <3>2, <3>3, Zenon
  <2>5. PICK m \in DOMAIN MatchesForRound(1) : At(o, m) = {p, q}
    BY <2>3, <2>4 DEF Pairs, Played, Pair, At
  <2>6. PICK n \in DOMAIN MatchesForRound(3) : At(o, n) = {p, q}
    BY <2>3, <2>4 DEF Pairs, Played, Pair, At
  <2>7. PICK i \in 0..Pow2[K - 1] - 1, j \in 0..Pow2[K - 2] - 1 : m = W(1, i) /\ n = L(2, j)
    BY <2>1, <2>5, <2>6, FirstAndThird
  <2>8. {p, q} \subseteq At(o, W(1, i)) /\ At(o, L(2, j)) = {p, q}
    BY <2>5, <2>6, <2>7
  <2> QED
    BY <2>1, <2>4, <2>8, NoRematch
<1>2. outdated => NoQuickRematch
  BY DEF NoQuickRematch
<1> QED
  BY <1>1, <1>2, BracketInvariant, PTL

-----------------------------------------------------------------------------
(* The way of a player through the bracket.                                *)

SlotsW(r) == 0..Pow2[K - r] - 1
SlotsL(j) == 0..Pow2[K - 1 - (j + 1) \div 2] - 1

\* Who has a result in a match sits there; one does not both win it and lose it.
LEMMA ResultSeats ==
  ASSUME Setting, NEW bs, NEW o, Sound(bs, o), NEW m \in Matches(K, reset), NEW p, p # Nobody
  PROVE  /\ o[m].winner = p => p \in At(o, m)
         /\ o[m].loser = p => p \in At(o, m) /\ o[m].a # Nobody /\ o[m].b # Nobody /\ o[m].winner # Nobody
         /\ o[m].loser = p /\ o[m].a # o[m].b => o[m].winner # p
  BY Decides DEF At

\* In a round of the winners' bracket a player has one opponent, sits at one
\* match, and won those of the rounds before.
WinnersOnce(o, r) ==
  \A i \in SlotsW(r) :
    /\ o[W(r, i)].a # Nobody => o[W(r, i)].a # o[W(r, i)].b
    /\ \A p \in At(o, W(r, i)) :
         /\ \A y \in SlotsW(r) : p \in At(o, W(r, y)) => i = y
         /\ \A q \in 1..r - 1 : \E x \in SlotsW(q) : o[W(q, x)].winner = p

LEMMA FirstWinnersOnce ==
  ASSUME Setting, NEW bs, NEW o, Sound(bs, o)
  PROVE  WinnersOnce(o, 1)
<1>1. SlotsW(1) = 0..Pow2[K - 1] - 1 /\ 1..1 - 1 = {}
  BY DEF SlotsW
<1>2. \A i \in SlotsW(1) : o[W(1, i)].a # Nobody => o[W(1, i)].a # o[W(1, i)].b
  BY <1>1, ComesW1, ZenonT(60)
<1>3. \A i, y \in SlotsW(1) : \A p \in At(o, W(1, i)) : p \in At(o, W(1, y)) => i = y
  BY <1>1, FirstRoundOnce, Zenon
<1>4. PICK one : one = 1 /\ 1..one - 1 = {}
  BY <1>1
<1>5. WinnersOnce(o, one)
  BY <1>2, <1>3, <1>4 DEF WinnersOnce
<1> QED
  BY <1>4, <1>5

LEMMA FromWinners ==
  ASSUME Setting, NEW bs, NEW o, Sound(bs, o), NEW r \in 2..K, NEW i \in SlotsW(r)
  PROVE  /\ 2 * i \in SlotsW(r - 1) /\ 2 * i + 1 \in SlotsW(r - 1) /\ i \in Int
         /\ o[W(r, i)].a = o[W(r - 1, 2 * i)].winner
         /\ o[W(r, i)].b = o[W(r - 1, 2 * i + 1)].winner
         /\ \A x \in SlotsW(r - 1) : W(r - 1, x) \in Matches(K, reset)
<1>1. r - 1 \in 1..K
  BY SettingOf
<1>2. \A x \in SlotsW(r - 1) : W(r - 1, x) \in Matches(K, reset)
  BY <1>1, IsMatchW DEF SlotsW
<1> QED
  BY <1>2, ComesW DEF SlotsW

LEMMA NextWinnersOnce ==
  ASSUME Setting, NEW bs, NEW o, Sound(bs, o), NEW r \in 2..K, WinnersOnce(o, r - 1)
  PROVE  WinnersOnce(o, r)
<1>0. K \in Nat
  BY SettingOf
<1>1. ASSUME NEW i \in SlotsW(r), NEW p \in At(o, W(r, i))
      PROVE  /\ p # Nobody
             /\ p = o[W(r, i)].a => o[W(r - 1, 2 * i)].winner = p /\ p \in At(o, W(r - 1, 2 * i))
             /\ p = o[W(r, i)].b => o[W(r - 1, 2 * i + 1)].winner = p /\ p \in At(o, W(r - 1, 2 * i + 1))
             /\ p = o[W(r, i)].a \/ p = o[W(r, i)].b
  <2>1. p # Nobody /\ (p = o[W(r, i)].a \/ p = o[W(r, i)].b)
    BY DEF At
  <2> QED
    BY <2>1, FromWinners, ResultSeats
<1>2. ASSUME NEW i \in SlotsW(r), NEW p \in At(o, W(r, i))
      PROVE  \E x \in {2 * i, 2 * i + 1} :
               x \in SlotsW(r - 1) /\ o[W(r - 1, x)].winner = p /\ p \in At(o, W(r - 1, x))
  BY <1>1, FromWinners
<1>3. ASSUME NEW i \in SlotsW(r), o[W(r, i)].a # Nobody
      PROVE  o[W(r, i)].a # o[W(r, i)].b
  <2> SUFFICES ASSUME o[W(r, i)].a = o[W(r, i)].b PROVE FALSE
    OBVIOUS
  <2>1. PICK p : p = o[W(r, i)].a /\ p = o[W(r, i)].b /\ p \in At(o, W(r, i))
    BY <1>3 DEF At
  <2>2. p \in At(o, W(r - 1, 2 * i)) /\ p \in At(o, W(r - 1, 2 * i + 1))
    BY <1>1, <2>1
  <2>3. 2 * i = 2 * i + 1
    BY <2>2, FromWinners DEF WinnersOnce
  <2>4. i \in Int
    BY FromWinners
  <2> QED
    BY <2>3, <2>4
<1>4. ASSUME NEW i \in SlotsW(r), NEW p \in At(o, W(r, i)), NEW y \in SlotsW(r), p \in At(o, W(r, y))
      PROVE  i = y
  <2>1. PICK x \in {2 * i, 2 * i + 1} : x \in SlotsW(r - 1) /\ p \in At(o, W(r - 1, x))
    BY <1>2
  <2>2. PICK z \in {2 * y, 2 * y + 1} : z \in SlotsW(r - 1) /\ p \in At(o, W(r - 1, z))
    BY <1>2, <1>4
  <2>3. x = z
    BY <2>1, <2>2 DEF WinnersOnce
  <2>4. i \in Int /\ y \in Int
    BY FromWinners
  <2> QED
    BY <2>1, <2>2, <2>3, <2>4
<1>5. ASSUME NEW i \in SlotsW(r), NEW p \in At(o, W(r, i)), NEW q \in 1..r - 1
      PROVE  \E x \in SlotsW(q) : o[W(q, x)].winner = p
  <2>1. PICK x \in SlotsW(r - 1) : o[W(r - 1, x)].winner = p /\ p \in At(o, W(r - 1, x))
    BY <1>2
  <2>2. CASE q = r - 1
    BY <2>1, <2>2
  <2>3. CASE q # r - 1
    <3>1. q \in 1..(r - 1) - 1
      BY <1>0, <2>3
    <3> QED
      BY <2>1, <3>1 DEF WinnersOnce
  <2> QED
    BY <2>2, <2>3
<1> QED
  BY <1>3, <1>4, <1>5 DEF WinnersOnce

LEMMA WinnersApart ==
  ASSUME Setting, NEW bs, NEW o, Sound(bs, o)
  PROVE  \A r \in 1..K : WinnersOnce(o, r)
<1>1. PICK k \in Nat \ {0} : k = K
  BY SettingOf
<1> DEFINE P == {n \in Nat : WinnersOnce(o, n + 1)}
<1>2. 0 \in P
  BY FirstWinnersOnce
<1>3. ASSUME NEW n \in 0..(k - 1) - 1, n \in P PROVE n + 1 \in P
  <2>1. PICK r \in 2..k : r = (n + 1) + 1 /\ r - 1 = n + 1
    OBVIOUS
  <2>2. WinnersOnce(o, r - 1)
    BY <1>3, <2>1
  <2>3. WinnersOnce(o, r)
    BY <1>1, <2>2, NextWinnersOnce
  <2> QED
    BY <2>1, <2>3
<1> HIDE DEF P
<1>4. 0..(k - 1) \subseteq P
  BY <1>1, <1>2, <1>3, InductionUpTo
<1> SUFFICES ASSUME NEW r \in 1..k PROVE WinnersOnce(o, r)
  BY <1>1
<1>5. r - 1 \in P /\ (r - 1) + 1 = r
  BY <1>4
<1> QED
  BY <1>5 DEF P

\* Who plays in the winners' bracket has lost nothing there.
LEMMA NoLossBefore ==
  ASSUME Setting, NEW bs, NEW o, Sound(bs, o), NEW r \in 1..K, NEW i \in SlotsW(r),
         NEW q \in 1..K, q < r, NEW x \in SlotsW(q)
  PROVE  o[W(q, x)].loser \notin At(o, W(r, i))
<1> SUFFICES ASSUME NEW p \in At(o, W(r, i)), o[W(q, x)].loser = p PROVE FALSE
  OBVIOUS
<1>0. K \in Nat
  BY SettingOf
<1>1. p # Nobody /\ q \in 1..r - 1
  BY <1>0 DEF At
<1>2. WinnersOnce(o, r) /\ WinnersOnce(o, q)
  BY WinnersApart
<1>3. PICK y \in SlotsW(q) : o[W(q, y)].winner = p
  BY <1>1, <1>2 DEF WinnersOnce
<1>4. W(q, x) \in Matches(K, reset) /\ W(q, y) \in Matches(K, reset)
  BY IsMatchW DEF SlotsW
<1>5. p \in At(o, W(q, x)) /\ p \in At(o, W(q, y)) /\ o[W(q, x)].a # Nobody
  BY <1>1, <1>3, <1>4, ResultSeats
<1>6. x = y /\ o[W(q, x)].a # o[W(q, x)].b
  BY <1>2, <1>5 DEF WinnersOnce
<1> QED
  BY <1>1, <1>3, <1>4, <1>6, ResultSeats

\* A player is dropped from the winners' bracket once.
LEMMA DroppedOnce ==
  ASSUME Setting, NEW bs, NEW o, Sound(bs, o), NEW p, p # Nobody,
         NEW r \in 1..K, NEW i \in SlotsW(r), o[W(r, i)].loser = p,
         NEW q \in 1..K, NEW x \in SlotsW(q), o[W(q, x)].loser = p
  PROVE  r = q /\ i = x
<1>1. W(q, x) \in Matches(K, reset) /\ W(r, i) \in Matches(K, reset)
  BY IsMatchW DEF SlotsW
<1>2. p \in At(o, W(q, x)) /\ p \in At(o, W(r, i))
  BY <1>1, ResultSeats
<1>3. K \in Nat /\ ~(q < r) /\ ~(r < q)
  BY <1>2, SettingOf, NoLossBefore
<1>4. r = q
  BY <1>3
<1> QED
  BY <1>2, <1>4, WinnersApart DEF WinnersOnce

\* In a round of the losers' bracket a player has one opponent, sits at one
\* match, was dropped from the winners' bracket before, and lost none of the
\* rounds of this one.
DroppedBy(o, p, j) ==
  \E r \in 1..K : (r = 1 \/ 2 * (r - 1) <= j) /\ \E x \in SlotsW(r) : o[W(r, x)].loser = p

LosersOnce(o, j) ==
  \A i \in SlotsL(j) :
    /\ o[L(j, i)].a # Nobody => o[L(j, i)].a # o[L(j, i)].b
    /\ \A p \in At(o, L(j, i)) :
         /\ \A y \in SlotsL(j) : p \in At(o, L(j, y)) => i = y
         /\ DroppedBy(o, p, j)
         /\ \A h \in 1..j - 1 : \A x \in SlotsL(h) : o[L(h, x)].loser # p

LEMMA SlotInts ==
  ASSUME NEW j
  PROVE  (\A i \in SlotsL(j) : i \in Int) /\ (\A i \in SlotsW(j) : i \in Int)
  BY DEF SlotsL, SlotsW

LEMMA FromDropouts ==
  ASSUME Setting, K >= 2, NEW bs, NEW o, Sound(bs, o), NEW i \in SlotsL(1)
  PROVE  /\ 2 * i \in SlotsW(1) /\ 2 * i + 1 \in SlotsW(1) /\ i \in Int
         /\ o[L(1, i)].a = o[W(1, 2 * i)].loser
         /\ o[L(1, i)].b = o[W(1, 2 * i + 1)].loser
         /\ \A x \in SlotsW(1) : W(1, x) \in Matches(K, reset)
<1>1. PICK k \in Nat \ {0} : k = K /\ 1 \in 1..k /\ k - 1 - (1 + 1) \div 2 = k - 2
  BY SettingOf
<1>2. SlotsL(1) = 0..Pow2[K - 2] - 1 /\ SlotsW(1) = 0..Pow2[K - 1] - 1
  BY <1>1 DEF SlotsL, SlotsW
<1>3. \A x \in SlotsW(1) : W(1, x) \in Matches(K, reset)
  BY <1>1, IsMatchW DEF SlotsW
<1>4. i \in 0..Pow2[K - 2] - 1 /\ i \in Int
  <2>1. i \in 0..Pow2[K - 2] - 1
    BY <1>2, Zenon
  <2> QED
    BY <2>1, SlotInts
<1>5. /\ 2 * i \in 0..Pow2[K - 1] - 1 /\ 2 * i + 1 \in 0..Pow2[K - 1] - 1
      /\ o[L(1, i)].a = o[W(1, 2 * i)].loser /\ o[L(1, i)].b = o[W(1, 2 * i + 1)].loser
  BY <1>4, ComesL1
<1> QED
  BY <1>2, <1>3, <1>4, <1>5, Zenon

LEMMA FromMinor ==
  ASSUME Setting, NEW bs, NEW o, Sound(bs, o), NEW j \in 2..2 * (K - 1), j % 2 = 1, NEW i \in SlotsL(j)
  PROVE  /\ 2 * i \in SlotsL(j - 1) /\ 2 * i + 1 \in SlotsL(j - 1) /\ i \in Int
         /\ o[L(j, i)].a = o[L(j - 1, 2 * i)].winner
         /\ o[L(j, i)].b = o[L(j - 1, 2 * i + 1)].winner
<1>1. i \in 0..Pow2[K - 1 - (j + 1) \div 2] - 1 /\ i \in Int
  BY DEF SlotsL
<1> QED
  BY <1>1, ComesLOdd, Zenon DEF SlotsL

\* The slot the i-th match of a major round has its dropout from.
Mirror(j, i) == Pow2[K - (j \div 2 + 1)] - 1 - i

LEMMA FromMajor ==
  ASSUME Setting, NEW bs, NEW o, Sound(bs, o), NEW j \in 2..2 * (K - 1), j % 2 = 0, NEW i \in SlotsL(j)
  PROVE  /\ i \in SlotsL(j - 1) /\ i \in Int
         /\ j \div 2 + 1 \in 2..K /\ Mirror(j, i) \in SlotsW(j \div 2 + 1)
         /\ o[L(j, i)].a = o[L(j - 1, i)].winner
         /\ o[L(j, i)].b = o[W(j \div 2 + 1, Mirror(j, i))].loser
<1>1. i \in 0..Pow2[K - 1 - (j + 1) \div 2] - 1 /\ i \in Int
  BY DEF SlotsL
<1>2. PICK x : x = Pow2[K - (j \div 2 + 1)] - 1 - i /\ x = Mirror(j, i)
  BY DEF Mirror
<1> QED
  BY <1>1, <1>2, ComesLEven DEF SlotsL, SlotsW

LEMMA IsMatchOfL ==
  ASSUME Setting, NEW j \in 1..2 * (K - 1), NEW i \in SlotsL(j)
  PROVE  L(j, i) \in Matches(K, reset)
  BY IsMatchL DEF SlotsL

LEMMA IsMatchOfW ==
  ASSUME Setting, NEW r \in 1..K, NEW i \in SlotsW(r)
  PROVE  W(r, i) \in Matches(K, reset)
  BY IsMatchW DEF SlotsW

\* The round of the winners' bracket that drops players into a round of the
\* losers' one.
DropRound(j) == IF j = 1 THEN 1 ELSE j \div 2 + 1

\* A player comes to the losers' bracket, or wins there.
LEMMA FromLosers ==
  ASSUME Setting, K >= 2, NEW bs, NEW o, Sound(bs, o), NEW j \in 1..2 * (K - 1), NEW i \in SlotsL(j),
         NEW p \in At(o, L(j, i))
  PROVE  \/ /\ j # 1 /\ j - 1 \in 1..2 * (K - 1)
            /\ \E x \in SlotsL(j - 1) : o[L(j - 1, x)].winner = p /\ p \in At(o, L(j - 1, x))
         \/ /\ DropRound(j) \in 1..K /\ (j = 1 \/ j % 2 = 0)
            /\ \E x \in SlotsW(DropRound(j)) : o[W(DropRound(j), x)].loser = p
<1>1. PICK k \in Nat \ {0} : k = K
  BY SettingOf
<1>2. p # Nobody /\ (p = o[L(j, i)].a \/ p = o[L(j, i)].b)
  BY DEF At
<1>3. CASE j = 1
  <2>1. DropRound(j) = 1 /\ 1 \in 1..k
    BY <1>3 DEF DropRound
  <2>2. \E x \in SlotsW(1) : o[W(1, x)].loser = p
    BY <1>2, <1>3, FromDropouts
  <2> QED
    BY <1>1, <1>3, <2>1, <2>2
<1>4. ASSUME j # 1, NEW x \in SlotsL(j - 1), o[L(j - 1, x)].winner = p
      PROVE  j - 1 \in 1..2 * (K - 1) /\ p \in At(o, L(j - 1, x))
  <2>1. j - 1 \in 1..2 * (K - 1)
    BY <1>1, <1>4
  <2>2. L(j - 1, x) \in Matches(K, reset)
    BY <1>4, <2>1, IsMatchOfL
  <2> QED
    BY <1>2, <1>4, <2>1, <2>2, ResultSeats
<1>5. CASE j # 1 /\ j % 2 = 1
  <2>1. j \in 2..2 * (K - 1)
    BY <1>1, <1>5
  <2>2. \E x \in SlotsL(j - 1) : o[L(j - 1, x)].winner = p
    BY <1>2, <1>5, <2>1, FromMinor
  <2> QED
    BY <1>4, <1>5, <2>2
<1>6. CASE j # 1 /\ j % 2 = 0
  <2>1. j \in 2..2 * (K - 1)
    BY <1>1, <1>6
  <2>2. DropRound(j) = j \div 2 + 1 /\ j \div 2 + 1 \in 1..K
    <3>1. j \div 2 + 1 \in 2..K
      BY <1>6, <2>1, FromMajor
    <3> QED
      BY <1>1, <1>6, <3>1 DEF DropRound
  <2>3. CASE p = o[L(j, i)].a
    <3>1. i \in SlotsL(j - 1) /\ o[L(j - 1, i)].winner = p
      BY <1>6, <2>1, <2>3, FromMajor
    <3> QED
      BY <1>4, <1>6, <3>1
  <2>4. CASE p = o[L(j, i)].b
    <3>1. \E x \in SlotsW(j \div 2 + 1) : o[W(j \div 2 + 1, x)].loser = p
      BY <1>6, <2>1, <2>4, FromMajor
    <3> QED
      BY <1>6, <2>2, <3>1
  <2> QED
    BY <1>2, <2>3, <2>4
<1>7. j % 2 = 0 \/ j % 2 = 1
  BY <1>1
<1> QED
  BY <1>3, <1>5, <1>6, <1>7

\* Who won a match of the losers' bracket is not dropped into the next round.
LEMMA NotDroppedAgain ==
  ASSUME Setting, K >= 2, NEW bs, NEW o, Sound(bs, o),
         NEW j \in 2..2 * (K - 1), j % 2 = 0, NEW p, p # Nobody, NEW h \in 1..j - 1,
         DroppedBy(o, p, h), NEW x \in SlotsW(j \div 2 + 1)
  PROVE  o[W(j \div 2 + 1, x)].loser # p
<1>1. PICK k \in Nat \ {0} : k = K /\ j \in 2..2 * (k - 1)
  BY SettingOf
<1>2. PICK r \in 1..K : (r = 1 \/ 2 * (r - 1) <= h) /\ \E y \in SlotsW(r) : o[W(r, y)].loser = p
  BY DEF DroppedBy
<1>3. PICK q \in 1..K : q = j \div 2 + 1 /\ r # q
  BY <1>1, <1>2
<1>4. PICK y \in SlotsW(r) : o[W(r, y)].loser = p
  BY <1>2
<1> QED
  BY <1>3, <1>4, DroppedOnce

LEMMA NextLosersOnce ==
  ASSUME Setting, K >= 2, NEW bs, NEW o, Sound(bs, o), NEW j \in 1..2 * (K - 1),
         \A h \in 1..j - 1 : LosersOnce(o, h)
  PROVE  LosersOnce(o, j)
<1>1. PICK k \in Nat \ {0} : k = K /\ j \in 1..2 * (k - 1) /\ k >= 2 /\ j \in Int
  BY SettingOf
<1>2. \A r \in 1..K : WinnersOnce(o, r)
  BY WinnersApart
\* One opponent at most, and one match.
<1>3. /\ \A i \in SlotsL(j) : o[L(j, i)].a # Nobody => o[L(j, i)].a # o[L(j, i)].b
      /\ \A i, y \in SlotsL(j) : \A p \in At(o, L(j, i)) : p \in At(o, L(j, y)) => i = y
  <2>1. CASE j = 1
    <3>1. 1 \in 1..K
      BY <1>1
    <3>2. \A p, x, y : p # Nobody /\ x \in SlotsW(1) /\ y \in SlotsW(1)
                          /\ o[W(1, x)].loser = p /\ o[W(1, y)].loser = p => x = y
      BY <3>1, DroppedOnce
    <3>3. ASSUME NEW i \in SlotsL(1), NEW p \in At(o, L(1, i))
          PROVE  \/ p = o[L(1, i)].a /\ o[W(1, 2 * i)].loser = p
                 \/ p = o[L(1, i)].b /\ o[W(1, 2 * i + 1)].loser = p
      BY FromDropouts DEF At
    <3>4. ASSUME NEW i \in SlotsL(1), o[L(1, i)].a # Nobody
          PROVE  o[L(1, i)].a # o[L(1, i)].b
      <4>1. i \in Int /\ 2 * i # 2 * i + 1
        BY FromDropouts
      <4> QED
        BY <3>2, <3>4, <4>1, FromDropouts
    <3>5. ASSUME NEW i \in SlotsL(1), NEW y \in SlotsL(1), NEW p \in At(o, L(1, i)), p \in At(o, L(1, y))
          PROVE  i = y
      <4>1. PICK x \in {2 * i, 2 * i + 1} : x \in SlotsW(1) /\ o[W(1, x)].loser = p
        BY <3>3, FromDropouts
      <4>2. PICK z \in {2 * y, 2 * y + 1} : z \in SlotsW(1) /\ o[W(1, z)].loser = p
        BY <3>3, <3>5, FromDropouts
      <4>3. x = z
        BY <3>2, <4>1, <4>2 DEF At
      <4>4. i \in Int /\ y \in Int
        BY SlotInts
      <4> QED
        BY <4>1, <4>2, <4>3, <4>4
    <3> QED
      BY <2>1, <3>4, <3>5
  <2>2. CASE j # 1 /\ j % 2 = 1
    <3>1. j \in 2..2 * (K - 1) /\ j - 1 \in 1..2 * (K - 1) /\ j - 1 \in 1..j - 1
      BY <1>1, <2>2
    <3>2. \A x, y \in SlotsL(j - 1) : \A p \in At(o, L(j - 1, x)) : p \in At(o, L(j - 1, y)) => x = y
      BY <3>1 DEF LosersOnce
    <3>3. \A x \in SlotsL(j - 1) : \A p : p # Nobody /\ o[L(j - 1, x)].winner = p => p \in At(o, L(j - 1, x))
      BY <3>1, IsMatchOfL, ResultSeats
    <3>4. ASSUME NEW i \in SlotsL(j), o[L(j, i)].a # Nobody
          PROVE  o[L(j, i)].a # o[L(j, i)].b
      <4>1. i \in Int /\ 2 * i # 2 * i + 1 /\ 2 * i \in SlotsL(j - 1) /\ 2 * i + 1 \in SlotsL(j - 1)
        BY <2>2, <3>1, FromMinor
      <4>2. o[L(j, i)].a = o[L(j - 1, 2 * i)].winner /\ o[L(j, i)].b = o[L(j - 1, 2 * i + 1)].winner
        BY <2>2, <3>1, FromMinor
      <4> QED
        BY <3>2, <3>3, <3>4, <4>1, <4>2
    <3>5. ASSUME NEW i \in SlotsL(j), NEW p \in At(o, L(j, i))
          PROVE  \E x \in {2 * i, 2 * i + 1} : x \in SlotsL(j - 1) /\ p \in At(o, L(j - 1, x))
      <4>1. 2 * i \in SlotsL(j - 1) /\ 2 * i + 1 \in SlotsL(j - 1)
        BY <2>2, <3>1, FromMinor
      <4>2. o[L(j, i)].a = o[L(j - 1, 2 * i)].winner /\ o[L(j, i)].b = o[L(j - 1, 2 * i + 1)].winner
        BY <2>2, <3>1, FromMinor
      <4>3. p # Nobody /\ (p = o[L(j, i)].a \/ p = o[L(j, i)].b)
        BY DEF At
      <4> QED
        BY <3>3, <4>1, <4>2, <4>3
    <3>6. ASSUME NEW i \in SlotsL(j), NEW y \in SlotsL(j), NEW p \in At(o, L(j, i)), p \in At(o, L(j, y))
          PROVE  i = y
      <4>1. PICK x \in {2 * i, 2 * i + 1} : x \in SlotsL(j - 1) /\ p \in At(o, L(j - 1, x))
        BY <3>5
      <4>2. PICK z \in {2 * y, 2 * y + 1} : z \in SlotsL(j - 1) /\ p \in At(o, L(j - 1, z))
        BY <3>5, <3>6
      <4>3. x = z
        BY <3>2, <4>1, <4>2
      <4>4. i \in Int /\ y \in Int
        BY SlotInts
      <4> QED
        BY <4>1, <4>2, <4>3, <4>4
    <3> QED
      BY <3>4, <3>6
  <2>3. CASE j # 1 /\ j % 2 = 0
    <3>1. j \in 2..2 * (K - 1) /\ j - 1 \in 1..2 * (K - 1) /\ j - 1 \in 1..j - 1
      BY <1>1, <2>3
    <3>2. PICK q \in 1..K : q = j \div 2 + 1 /\ \A i \in SlotsL(j) :
            /\ i \in SlotsL(j - 1) /\ i \in Int /\ Mirror(j, i) \in SlotsW(q)
            /\ o[L(j, i)].a = o[L(j - 1, i)].winner
            /\ o[L(j, i)].b = o[W(q, Mirror(j, i))].loser
      <4>1. j \div 2 + 1 \in 1..K
        BY <1>1
      <4> QED
        BY <2>3, <3>1, <4>1, FromMajor
    <3>3. \A x, y \in SlotsL(j - 1) : \A p \in At(o, L(j - 1, x)) : p \in At(o, L(j - 1, y)) => x = y
      BY <3>1 DEF LosersOnce
    <3>4. \A x \in SlotsL(j - 1) : \A p : p # Nobody /\ o[L(j - 1, x)].winner = p => p \in At(o, L(j - 1, x))
      BY <3>1, IsMatchOfL, ResultSeats
    <3>5. \A p, x, y : p # Nobody /\ x \in SlotsW(q) /\ y \in SlotsW(q)
                          /\ o[W(q, x)].loser = p /\ o[W(q, y)].loser = p => x = y
      BY DroppedOnce
    \* Nobody comes both ways.
    <3>6. ASSUME NEW x \in SlotsL(j - 1), NEW y \in SlotsW(q), NEW p, p # Nobody,
                 o[L(j - 1, x)].winner = p, o[W(q, y)].loser = p
          PROVE  FALSE
      <4>1. p \in At(o, L(j - 1, x))
        BY <3>4, <3>6
      <4>2. DroppedBy(o, p, j - 1)
        BY <3>1, <4>1 DEF LosersOnce
      <4> QED
        BY <2>3, <3>1, <3>2, <3>6, <4>2, NotDroppedAgain
    <3>7. ASSUME NEW i \in SlotsL(j), o[L(j, i)].a # Nobody
          PROVE  o[L(j, i)].a # o[L(j, i)].b
      BY <3>2, <3>6, <3>7
    <3>8. ASSUME NEW i \in SlotsL(j), NEW y \in SlotsL(j), NEW p \in At(o, L(j, i)), p \in At(o, L(j, y))
          PROVE  i = y
      <4>1. p # Nobody /\ (p = o[L(j, i)].a \/ p = o[L(j, i)].b) /\ (p = o[L(j, y)].a \/ p = o[L(j, y)].b)
        BY <3>8 DEF At
      <4>2. CASE p = o[L(j, i)].a /\ p = o[L(j, y)].a
        <5>1. i \in SlotsL(j - 1) /\ y \in SlotsL(j - 1)
              /\ o[L(j - 1, i)].winner = p /\ o[L(j - 1, y)].winner = p
          BY <3>2, <4>2, Zenon
        <5>2. p \in At(o, L(j - 1, i)) /\ p \in At(o, L(j - 1, y))
          BY <3>4, <4>1, <5>1
        <5> QED
          BY <3>3, <5>1, <5>2
      <4>3. CASE p = o[L(j, i)].b /\ p = o[L(j, y)].b
        <5>1. Mirror(j, i) = Mirror(j, y)
          BY <3>2, <3>5, <4>1, <4>3, Zenon
        <5>2. PICK n \in Nat : n = Pow2[K - (j \div 2 + 1)]
          <6>1. K - (j \div 2 + 1) \in Nat
            BY <1>1
          <6> QED
            BY <6>1, Pow2Step
        <5>3. i \in Int /\ y \in Int /\ n - 1 - i = n - 1 - y
          BY <3>2, <5>1, <5>2 DEF Mirror
        <5> QED
          BY <5>3
      <4>4. ~(p = o[L(j, i)].a /\ p = o[L(j, y)].b)
        BY <3>2, <3>6, <4>1
      <4>5. ~(p = o[L(j, i)].b /\ p = o[L(j, y)].a)
        BY <3>2, <3>6, <4>1
      <4> QED
        BY <4>1, <4>2, <4>3, <4>4, <4>5
    <3> QED
      BY <3>7, <3>8
  <2> QED
    <3>1. j % 2 = 0 \/ j % 2 = 1
      BY <1>1
    <3> QED
      BY <2>1, <2>2, <2>3, <3>1
\* Dropped once, and not beaten since.
<1>4. ASSUME NEW i \in SlotsL(j), NEW p \in At(o, L(j, i))
      PROVE  /\ DroppedBy(o, p, j)
             /\ \A h \in 1..j - 1 : \A x \in SlotsL(h) : o[L(h, x)].loser # p
  <2>1. p # Nobody
    BY DEF At
  <2>2. ASSUME NEW h \in 1..j - 1, NEW x \in SlotsL(h), o[L(h, x)].loser = p
        PROVE  /\ p \in At(o, L(h, x)) /\ DroppedBy(o, p, h)
               /\ o[L(h, x)].winner # p
    <3>1. h \in 1..2 * (K - 1)
      BY <1>1
    <3>2. L(h, x) \in Matches(K, reset)
      BY <3>1, IsMatchOfL
    <3>3. p \in At(o, L(h, x)) /\ o[L(h, x)].a # Nobody
      BY <2>1, <2>2, <3>2, ResultSeats
    <3>4. DroppedBy(o, p, h) /\ o[L(h, x)].a # o[L(h, x)].b
      BY <3>3 DEF LosersOnce
    <3> QED
      BY <2>1, <2>2, <3>2, <3>3, <3>4, ResultSeats
  <2>3. CASE j # 1 /\ \E x \in SlotsL(j - 1) : o[L(j - 1, x)].winner = p /\ p \in At(o, L(j - 1, x))
    <3>1. PICK x \in SlotsL(j - 1) : o[L(j - 1, x)].winner = p /\ p \in At(o, L(j - 1, x))
      BY <2>3
    <3>2. j - 1 \in 1..j - 1 /\ LosersOnce(o, j - 1)
      BY <1>1, <2>3
    <3>3. DroppedBy(o, p, j - 1)
      BY <3>1, <3>2 DEF LosersOnce
    <3>4. DroppedBy(o, p, j)
      <4>1. PICK r \in 1..K : (r = 1 \/ 2 * (r - 1) <= j - 1) /\ \E y \in SlotsW(r) : o[W(r, y)].loser = p
        BY <3>3 DEF DroppedBy
      <4>2. r = 1 \/ 2 * (r - 1) <= j
        BY <1>1, <4>1
      <4> QED
        BY <4>1, <4>2 DEF DroppedBy
    <3>5. ASSUME NEW h \in 1..j - 1, NEW y \in SlotsL(h), o[L(h, y)].loser = p
          PROVE  FALSE
      <4>1. CASE h = j - 1
        <5>1. x = y
          BY <2>2, <3>1, <3>2, <3>5, <4>1 DEF LosersOnce
        <5> QED
          BY <2>2, <3>1, <3>5, <4>1, <5>1
      <4>2. CASE h # j - 1
        <5>1. h \in 1..(j - 1) - 1
          BY <1>1, <4>2
        <5> QED
          BY <3>1, <3>2, <3>5, <5>1 DEF LosersOnce
      <4> QED
        BY <4>1, <4>2
    <3> QED
      BY <3>4, <3>5
  <2>4. CASE /\ DropRound(j) \in 1..K /\ (j = 1 \/ j % 2 = 0)
             /\ \E x \in SlotsW(DropRound(j)) : o[W(DropRound(j), x)].loser = p
    <3>1. DropRound(j) = 1 \/ 2 * (DropRound(j) - 1) <= j
      BY <1>1, <2>4 DEF DropRound
    <3>2. DroppedBy(o, p, j)
      BY <2>4, <3>1 DEF DroppedBy
    <3>3. ASSUME NEW h \in 1..j - 1, NEW y \in SlotsL(h), o[L(h, y)].loser = p
          PROVE  FALSE
      <4>1. DroppedBy(o, p, h)
        BY <2>2, <3>3
      <4>2. j # 1 /\ j \in 2..2 * (K - 1) /\ j % 2 = 0 /\ DropRound(j) = j \div 2 + 1
        BY <1>1, <2>4 DEF DropRound
      <4> QED
        BY <2>1, <2>4, <4>1, <4>2, NotDroppedAgain
    <3> QED
      BY <3>2, <3>3
  <2> QED
    BY <2>3, <2>4, FromLosers
<1> QED
  BY <1>3, <1>4 DEF LosersOnce

LEMMA LosersApart ==
  ASSUME Setting, K >= 2, NEW bs, NEW o, Sound(bs, o)
  PROVE  \A j \in 1..2 * (K - 1) : LosersOnce(o, j)
<1>1. PICK n \in Nat : n = 2 * (K - 1)
  BY SettingOf
<1> DEFINE P == {h \in Nat : \A j \in 1..h : LosersOnce(o, j)}
<1>2. 0 \in P
  OBVIOUS
<1>3. ASSUME NEW h \in 0..n - 1, h \in P PROVE h + 1 \in P
  <2>1. PICK j \in 1..n : j = h + 1 /\ j - 1 = h
    BY <1>1
  <2>2. \A i \in 1..j - 1 : LosersOnce(o, i)
    BY <1>3, <2>1
  <2>3. LosersOnce(o, j)
    BY <1>1, <2>2, NextLosersOnce
  <2>4. \A i \in 1..j : LosersOnce(o, i)
    BY <2>1, <2>2, <2>3
  <2> QED
    BY <2>1, <2>4
<1> HIDE DEF P
<1>4. 0..n \subseteq P
  BY <1>1, <1>2, <1>3, InductionUpTo
<1>5. n \in P
  BY <1>4
<1> QED
  BY <1>1, <1>5 DEF P

-----------------------------------------------------------------------------
(* The finalists, and what everyone has lost before a match.               *)

\* The champion of the winners' bracket has lost nothing, and the one of the
\* losers' bracket nothing there.
LEMMA Finalists ==
  ASSUME Setting, K >= 2, NEW bs, NEW o, Sound(bs, o),
         NEW w, w = o[W(K, 0)].winner, NEW l, l = o[L(2 * (K - 1), 0)].winner
  PROVE  /\ w # Nobody => /\ \A r \in 1..K : \A x \in SlotsW(r) : o[W(r, x)].loser # w
                          /\ \A j \in 1..2 * (K - 1) : \A x \in SlotsL(j) : w \notin At(o, L(j, x))
                          /\ w # l
         /\ l # Nobody => \A j \in 1..2 * (K - 1) : \A x \in SlotsL(j) : o[L(j, x)].loser # l
<1>1. PICK k \in Nat \ {0} : k = K /\ k >= 2 /\ K \in 1..K /\ 2 * (K - 1) \in 1..2 * (K - 1)
  BY SettingOf
<1>2. PICK top : top = 2 * (K - 1) /\ top \in 1..2 * (K - 1) /\ top \in Nat
  BY <1>1
<1>3. 0 \in SlotsW(K) /\ 0 \in SlotsL(top)
  <2>1. K - K = 0 /\ K - 1 - (top + 1) \div 2 = 0
    BY <1>1, <1>2
  <2> QED
    BY <2>1, Pow2Step DEF SlotsW, SlotsL
<1>4. W(K, 0) \in Matches(K, reset) /\ L(top, 0) \in Matches(K, reset)
  BY <1>1, <1>2, <1>3, IsMatchOfW, IsMatchOfL
<1>5. \A r \in 1..K : WinnersOnce(o, r)
  BY WinnersApart
<1>6. \A j \in 1..2 * (K - 1) : LosersOnce(o, j)
  BY LosersApart
<1>7. ASSUME w # Nobody, NEW r \in 1..K, NEW x \in SlotsW(r), o[W(r, x)].loser = w
      PROVE  FALSE
  <2>1. w \in At(o, W(K, 0))
    BY <1>4, <1>7, ResultSeats
  <2>2. CASE r < K
    BY <1>1, <1>3, <1>7, <2>1, <2>2, NoLossBefore
  <2>3. CASE r = K
    <3>1. W(r, x) \in Matches(K, reset)
      BY IsMatchOfW
    <3>2. w \in At(o, W(K, x)) /\ o[W(K, x)].a # Nobody
      BY <1>7, <2>3, <3>1, ResultSeats
    <3>3. x = 0 /\ o[W(K, x)].a # o[W(K, x)].b
      BY <1>1, <1>3, <1>5, <2>1, <2>3, <3>2 DEF WinnersOnce
    <3> QED
      BY <1>4, <1>7, <2>3, <3>3, ResultSeats
  <2> QED
    BY <1>1, <2>2, <2>3
<1>8. ASSUME w # Nobody, NEW j \in 1..2 * (K - 1), NEW x \in SlotsL(j), w \in At(o, L(j, x))
      PROVE  FALSE
  <2>1. DroppedBy(o, w, j)
    BY <1>6, <1>8 DEF LosersOnce
  <2> QED
    BY <1>7, <1>8, <2>1 DEF DroppedBy
<1>9. ASSUME w # Nobody PROVE w # l
  BY <1>2, <1>3, <1>4, <1>8, <1>9, ResultSeats
<1>10. ASSUME l # Nobody, NEW j \in 1..2 * (K - 1), NEW x \in SlotsL(j), o[L(j, x)].loser = l
       PROVE  FALSE
  <2>1. l \in At(o, L(top, 0))
    BY <1>2, <1>4, <1>10, ResultSeats
  <2>2. CASE j = top
    <3>1. l \in At(o, L(top, x)) /\ o[L(top, x)].a # Nobody
      <4>1. L(j, x) \in Matches(K, reset)
        BY IsMatchOfL
      <4> QED
        BY <1>10, <2>2, <4>1, ResultSeats
    <3>2. x = 0 /\ o[L(top, x)].a # o[L(top, x)].b
      BY <1>2, <1>3, <1>6, <2>1, <2>2, <3>1 DEF LosersOnce
    <3> QED
      BY <1>2, <1>4, <1>10, <2>2, <3>2, ResultSeats
  <2>3. CASE j # top
    <3>1. j \in 1..top - 1
      BY <1>2, <2>3
    <3> QED
      BY <1>2, <1>3, <1>6, <1>10, <2>1, <3>1 DEF LosersOnce
  <2> QED
    BY <2>2, <2>3
<1> QED
  BY <1>7, <1>8, <1>9, <1>10

\* The kinds of matches, by their rounds.
WMatch(m) == \E r \in 1..K : \E x \in SlotsW(r) : m = W(r, x)
LMatch(m) == \E j \in 1..2 * (K - 1) : \E x \in SlotsL(j) : m = L(j, x)

LEMMA KindOf ==
  ASSUME Setting, NEW m \in Matches(K, reset)
  PROVE  /\ AppRound(K, m) \in Nat
         /\ \/ WMatch(m) /\ AppRound(K, m) < 2 * K
            \/ LMatch(m) /\ AppRound(K, m) < 2 * K
            \/ m = GF /\ AppRound(K, m) = 2 * K
            \/ m = GFR /\ AppRound(K, m) = 2 * K + 1
<1>1. PICK k \in Nat \ {0} : k = K /\ reset \in BOOLEAN
  BY SettingOf DEF Setting
<1>2. \A r \in 1..k : \A i : AppRound(k, W(r, i)) \in Nat /\ AppRound(k, W(r, i)) < 2 * k
  <2> SUFFICES ASSUME NEW r \in 1..k, NEW i
               PROVE  AppRound(k, W(r, i)) \in Nat /\ AppRound(k, W(r, i)) < 2 * k
    OBVIOUS
  <2>1. AppRound(k, W(r, i)) = IF r = 1 THEN 1 ELSE 2 * (r - 1)
    BY RoundsOfMatches
  <2> QED
    BY <2>1
<1>3. \A j \in 1..2 * (k - 1) : \A i : AppRound(k, L(j, i)) \in Nat /\ AppRound(k, L(j, i)) < 2 * k
  <2> SUFFICES ASSUME NEW j \in 1..2 * (k - 1), NEW i
               PROVE  AppRound(k, L(j, i)) \in Nat /\ AppRound(k, L(j, i)) < 2 * k
    OBVIOUS
  <2>1. AppRound(k, L(j, i)) = j + 1
    BY RoundsOfMatches
  <2> QED
    BY <2>1
<1>4. \/ WMatch(m) \/ LMatch(m) \/ m = GF \/ m = GFR
  BY <1>1, MatchesKinds DEF WMatch, LMatch, SlotsW, SlotsL
<1>5. ASSUME WMatch(m) PROVE AppRound(K, m) \in Nat /\ AppRound(K, m) < 2 * K
  BY <1>1, <1>2, <1>5 DEF WMatch
<1>6. ASSUME LMatch(m) PROVE AppRound(K, m) \in Nat /\ AppRound(K, m) < 2 * K
  BY <1>1, <1>3, <1>6 DEF LMatch
<1>7. AppRound(K, GF) = 2 * K /\ AppRound(K, GFR) = 2 * K + 1 /\ 2 * K \in Nat /\ 2 * K + 1 \in Nat
  BY <1>1, RoundsOfMatches
<1> QED
  BY <1>4, <1>5, <1>6, <1>7

\* A player of the losers' bracket is no longer in the other one.
LEMMA OneBracket ==
  ASSUME Setting, K >= 2, NEW bs, NEW o, Sound(bs, o), NEW r \in 1..K, NEW i \in SlotsW(r),
         NEW j \in 1..2 * (K - 1), NEW x \in SlotsL(j), AppRound(K, L(j, x)) <= AppRound(K, W(r, i)),
         NEW p \in At(o, W(r, i)), p \in At(o, L(j, x))
  PROVE  FALSE
<1>1. PICK k \in Nat \ {0} : k = K
  BY SettingOf
<1>2. LosersOnce(o, j)
  BY LosersApart
<1>3. PICK q \in 1..K : (q = 1 \/ 2 * (q - 1) <= j) /\ \E y \in SlotsW(q) : o[W(q, y)].loser = p
  BY <1>2 DEF LosersOnce, DroppedBy
<1>4. AppRound(k, L(j, x)) = j + 1 /\ AppRound(k, W(r, i)) = IF r = 1 THEN 1 ELSE 2 * (r - 1)
  BY RoundsOfMatches
<1>5. q < r
  BY <1>1, <1>3, <1>4
<1> QED
  BY <1>3, <1>5, NoLossBefore

\* A player sits at one match of a round.
LEMMA OnceARound ==
  ASSUME Setting, K >= 2, NEW bs, NEW o, Sound(bs, o),
         NEW m \in Matches(K, reset), NEW n \in Matches(K, reset), AppRound(K, m) = AppRound(K, n),
         NEW p \in At(o, m), p \in At(o, n)
  PROVE  m = n
<1>1. PICK k \in Nat \ {0} : k = K
  BY SettingOf
<1>2. CASE WMatch(m) /\ WMatch(n)
  <2>1. PICK r \in 1..k, q \in 1..k : (\E x \in SlotsW(r) : m = W(r, x)) /\ \E x \in SlotsW(q) : n = W(q, x)
    BY <1>1, <1>2 DEF WMatch
  <2>2. PICK x \in SlotsW(r), y \in SlotsW(q) : m = W(r, x) /\ n = W(q, y)
    BY <2>1
  <2>3. AppRound(k, W(r, x)) = (IF r = 1 THEN 1 ELSE 2 * (r - 1))
        /\ AppRound(k, W(q, y)) = IF q = 1 THEN 1 ELSE 2 * (q - 1)
    BY RoundsOfMatches, ZenonT(60)
  <2>4. r = q
    BY <1>1, <2>2, <2>3
  <2>5. WinnersOnce(o, r)
    BY <1>1, WinnersApart
  <2>6. x = y
    BY <2>2, <2>4, <2>5 DEF WinnersOnce
  <2> QED
    BY <2>2, <2>4, <2>6
<1>3. CASE LMatch(m) /\ LMatch(n)
  <2>1. PICK j \in 1..2 * (K - 1), h \in 1..2 * (K - 1) :
          (\E x \in SlotsL(j) : m = L(j, x)) /\ \E x \in SlotsL(h) : n = L(h, x)
    BY <1>3 DEF LMatch
  <2>2. PICK x \in SlotsL(j), y \in SlotsL(h) : m = L(j, x) /\ n = L(h, y)
    BY <2>1
  <2>3. AppRound(k, L(j, x)) = j + 1 /\ AppRound(k, L(h, y)) = h + 1
    BY RoundsOfMatches
  <2>4. j = h
    BY <1>1, <2>2, <2>3
  <2>5. LosersOnce(o, j)
    BY LosersApart
  <2>6. x = y
    BY <2>2, <2>4, <2>5 DEF LosersOnce
  <2> QED
    BY <2>2, <2>4, <2>6
<1>4. ASSUME NEW u \in Matches(K, reset), NEW v \in Matches(K, reset), AppRound(K, u) = AppRound(K, v),
             WMatch(u), LMatch(v), p \in At(o, u), p \in At(o, v)
      PROVE  FALSE
  <2>1. PICK r \in 1..K, j \in 1..2 * (K - 1) :
          (\E x \in SlotsW(r) : u = W(r, x)) /\ \E x \in SlotsL(j) : v = L(j, x)
    BY <1>4 DEF WMatch, LMatch
  <2>2. PICK i \in SlotsW(r), x \in SlotsL(j) : u = W(r, i) /\ v = L(j, x)
    BY <2>1
  <2>3. AppRound(K, L(j, x)) <= AppRound(K, W(r, i))
    <3>1. AppRound(K, u) \in Nat
      BY KindOf
    <3> QED
      BY <1>4, <2>2, <3>1
  <2> QED
    BY <1>4, <2>2, <2>3, OneBracket
<1>5. CASE WMatch(m) /\ LMatch(n)
  BY <1>4, <1>5
<1>6. CASE LMatch(m) /\ WMatch(n)
  BY <1>4, <1>6
<1>7. PICK x, y : x = AppRound(K, m) /\ y = AppRound(K, n) /\ x = y
  OBVIOUS
<1>8. /\ \/ WMatch(m) /\ x < 2 * k
         \/ LMatch(m) /\ x < 2 * k
         \/ m = GF /\ x = 2 * k
         \/ m = GFR /\ x = 2 * k + 1
      /\ \/ WMatch(n) /\ x < 2 * k
         \/ LMatch(n) /\ x < 2 * k
         \/ n = GF /\ x = 2 * k
         \/ n = GFR /\ x = 2 * k + 1
      /\ x \in Nat
  BY <1>1, <1>7, KindOf
<1>9. \/ m = n
      \/ (WMatch(m) \/ LMatch(m)) /\ (WMatch(n) \/ LMatch(n))
  BY <1>8
<1> QED
  BY <1>2, <1>3, <1>5, <1>6, <1>9

\* The matches of two participants: one a round.
LEMMA OfTwo ==
  ASSUME Setting, K = 1, NEW m \in Matches(K, reset)
  PROVE  \/ m = W(1, 0) /\ AppRound(K, m) = 1
         \/ m = GF /\ AppRound(K, m) = 2
         \/ m = GFR /\ AppRound(K, m) = 3
<1>1. Pow2[0] = 1 /\ reset \in BOOLEAN
  BY Pow2Step DEF Setting
<1>2. m = W(1, 0) \/ m = GF \/ m = GFR
  <2>1. ASSUME NEW r \in 1..1, NEW i \in 0..Pow2[1 - r] - 1, m = W(r, i) PROVE m = W(1, 0)
    BY <1>1, <2>1
  <2>2. 1..2 * (1 - 1) = {}
    OBVIOUS
  <2> QED
    BY <1>1, <2>1, <2>2, MatchesKinds
<1>3. AppRound(1, W(1, 0)) = 1 /\ AppRound(1, GF) = 2 /\ AppRound(1, GFR) = 3
  BY RoundsOfMatches
<1> QED
  BY <1>2, <1>3

\* Two different players play a match.
LEMMA Opponents ==
  ASSUME Setting, NEW bs, NEW o, Sound(bs, o), NEW m \in Matches(K, reset), o[m].a # Nobody
  PROVE  o[m].a # o[m].b
<1>0. CASE K = 1
  <2>1. PICK w : w = W(1, 0) /\ w \in Matches(K, reset) /\ 0 \in 0..Pow2[K - 1] - 1
    BY <1>0, IsMatchW, Pow2Step
  <2>2. o[w].a # Nobody => o[w].a # o[w].b
    BY <2>1, ComesW1
  <2>3. o[w].winner # Nobody => o[w].winner # o[w].loser
    BY <2>1, <2>2, Decides
  <2>4. CASE m \in {GF, GFR}
    <3>1. Sources(K, m) = <<WinnerOf(w), LoserOf(w)>>
      BY <1>0, <2>1, <2>4, SourcesOfGF, SettingOf DEF Champions
    <3>2. o[m].a = o[w].winner /\ o[m].b = o[w].loser
      BY <3>1, ComesFrom, ResolveKinds
    <3> QED
      BY <2>3, <3>2
  <2>5. CASE m = w
    BY <2>2, <2>5
  <2> QED
    BY <2>1, <2>4, <2>5, OfTwo, <1>0
<1>1. CASE K >= 2 /\ WMatch(m)
  <2>1. PICK r \in 1..K : \E i \in SlotsW(r) : m = W(r, i)
    BY <1>1 DEF WMatch
  <2> QED
    BY <2>1, WinnersApart DEF WinnersOnce
<1>2. CASE K >= 2 /\ LMatch(m)
  <2>1. PICK j \in 1..2 * (K - 1) : \E i \in SlotsL(j) : m = L(j, i)
    BY <1>2 DEF LMatch
  <2>2. LosersOnce(o, j)
    BY <1>2, <2>1, LosersApart
  <2> QED
    BY <2>1, <2>2 DEF LosersOnce
<1>3. CASE K >= 2 /\ (m = GF \/ m = GFR)
  <2>1. PICK w, l : w = o[W(K, 0)].winner /\ l = o[L(2 * (K - 1), 0)].winner
    OBVIOUS
  <2>2. o[m].a = w /\ o[m].b = l
    BY <1>3, <2>1, ComesGF
  <2>3. w # Nobody => w # l
    BY <1>3, <2>1, Finalists
  <2> QED
    BY <2>2, <2>3
<1> QED
  BY <1>0, <1>1, <1>2, <1>3, KindOf, SettingOf

\* Nobody sits at two matches of a round.
LEMMA OnePlace ==
  ASSUME Setting, NEW bs, NEW o, Sound(bs, o),
         NEW m \in Matches(K, reset), NEW n \in Matches(K, reset), AppRound(K, m) = AppRound(K, n),
         NEW p \in At(o, m), p \in At(o, n)
  PROVE  m = n
<1>1. CASE K >= 2
  BY <1>1, OnceARound
<1>2. CASE K = 1
  BY <1>2, OfTwo
<1> QED
  BY <1>1, <1>2, SettingOf

\* So the transaction that draws a round, in a round with no board, does not fail.
LEMMA NeverTwice ==
  ASSUME Setting, NEW bs, NEW o, Sound(bs, o), NEW r \in 1..Rounds
  PROVE  ~SeatedTwice(o, r, {})
<1> SUFFICES ASSUME NEW m \in Played(o, r), NEW n \in Played(o, r),
                    o[m].a = o[m].b \/ (m # n /\ Pair(o, m) \cap Pair(o, n) # {})
             PROVE  FALSE
  BY DEF SeatedTwice
<1>1. /\ m \in Matches(K, reset) /\ AppRound(K, m) = r /\ {o[m].a, o[m].b} # {Nobody}
      /\ n \in Matches(K, reset) /\ AppRound(K, n) = r
  BY RoundOfMatch, Zenon DEF Played
<1>2. o[m].a # o[m].b
  BY <1>1, Opponents
<1>3. PICK p : p \in At(o, m) /\ p \in At(o, n) /\ m # n
  BY <1>2 DEF Pair, At
<1> QED
  BY <1>1, <1>3, OnePlace

-----------------------------------------------------------------------------
(* Nobody comes from where nobody will ever come from.                     *)

NobodyThere(o, m) ==
  /\ o[m].empty => o[m].winner = Nobody
  /\ o[m].lacks_loser => o[m].loser = Nobody

LEMMA AbsentIsNobody ==
  ASSUME Setting, NEW rs, NEW m, NEW s, Earlier(K, rs, m, s), NEW o,
         FromMatch(s) => NobodyThere(o, s.of), Absent(o, s)
  PROVE  Resolve(o, s) = Nobody
<1>1. CASE s.kind = "seed" /\ s.seed \in 1..Pow2[K]
  <2>1. field \in Nat /\ Pow2[K] \in Nat
    BY SettingOf
  <2>2. s.seed > field /\ s.seed \in Int
    BY <1>1, <2>1 DEF Absent
  <2>3. ~(s.seed <= field)
    BY <2>1, <2>2
  <2> QED
    BY <1>1, <2>3 DEF Resolve
<1>2. CASE s.kind = "winner"
  BY <1>2 DEF Absent, Resolve, FromMatch, NobodyThere
<1>3. CASE s.kind = "loser"
  BY <1>3 DEF Absent, Resolve, FromMatch, NobodyThere
<1> QED
  BY <1>1, <1>2, <1>3 DEF Earlier

LEMMA AbsentAreNobody ==
  ASSUME Setting, NEW bs, NEW o, Worked(bs, o)
  PROVE  \A m \in Matches(K, reset) : NobodyThere(o, m)
<1>0. PICK n \in Nat : n = Rounds
  BY SettingOf
<1>1. K \in Nat \ {0} /\ reset \in BOOLEAN
  BY SettingOf DEF Setting
<1>2. \A m \in Matches(K, reset) : AppRound(K, m) \in 1..n
  BY <1>0, <1>1, SettingOf, RoundsRange
<1> DEFINE P == {i \in Nat : \A m \in Matches(K, reset) : AppRound(K, m) <= i => NobodyThere(o, m)}
<1>3. 0 \in P
  BY <1>2
<1>4. ASSUME NEW i \in 0..n - 1, i \in P PROVE i + 1 \in P
  <2> SUFFICES ASSUME NEW m \in Matches(K, reset), AppRound(K, m) <= i + 1
               PROVE  NobodyThere(o, m)
    OBVIOUS
  <2>1. \A x \in Matches(K, reset) : AppRound(K, x) < AppRound(K, m) => NobodyThere(o, x)
    <3> SUFFICES ASSUME NEW x \in Matches(K, reset), AppRound(K, x) < AppRound(K, m)
                 PROVE  NobodyThere(o, x)
      OBVIOUS
    <3>1. PICK u, v : u = AppRound(K, x) /\ v = AppRound(K, m) /\ u \in Int /\ v \in Int
      BY <1>2
    <3>2. u <= i
      BY <3>1
    <3> QED
      BY <1>4, <3>1, <3>2
  <2>2. PICK pair, s, t : pair = Sources(K, m) /\ s = pair[1] /\ t = pair[2]
    OBVIOUS
  <2>3. Earlier(K, reset, m, s) /\ Earlier(K, reset, m, t)
    BY <1>1, <2>2, SourcesEarlier DEF BothEarlier
  <2>4. (FromMatch(s) => NobodyThere(o, s.of)) /\ (FromMatch(t) => NobodyThere(o, t.of))
    BY <2>1, <2>3 DEF Earlier, FromMatch
  <2>5. (Absent(o, s) => Resolve(o, s) = Nobody) /\ (Absent(o, t) => Resolve(o, t) = Nobody)
    BY <2>3, <2>4, AbsentIsNobody
  <2>6. PICK x : x = o[m] /\ x = Outcome(bs, AppRound(K, m), o, pair)
    BY <2>2 DEF Worked
  <2>7. PICK sa, ta : sa = Absent(o, s) /\ ta = Absent(o, t)
    OBVIOUS
  <2>8. /\ sa => x.a = Nobody /\ x.winner = x.b
        /\ ta => x.b = Nobody
        /\ x.a = Nobody \/ x.b = Nobody => x.loser = Nobody
        /\ x.empty = (sa /\ ta) /\ x.lacks_loser = (sa \/ ta)
    BY <2>2, <2>5, <2>6, <2>7, OutcomeParts
  <2> QED
    BY <2>6, <2>8, Zenon DEF NobodyThere
<1> HIDE DEF P
<1>5. 0..n \subseteq P
  BY <1>0, <1>3, <1>4, InductionUpTo
<1>6. n \in P
  BY <1>5
<1> QED
  BY <1>2, <1>6 DEF P

\* A match of two is won at its board.
LEMMA WonAtBoard ==
  ASSUME Setting, NEW bs, NEW o, Sound(bs, o), NEW m \in Matches(K, reset),
         o[m].a # Nobody, o[m].b # Nobody
  PROVE  /\ o[m].winner = WinnerOfBoard(bs, AppRound(K, m), o[m].a, o[m].b)
         /\ o[m].winner # Nobody => o[m].loser = IF o[m].winner = o[m].b THEN o[m].a ELSE o[m].b
<1>1. PICK pair, s, t, r : pair = Sources(K, m) /\ s = pair[1] /\ t = pair[2] /\ r = AppRound(K, m)
  OBVIOUS
<1>2. PICK x : x = o[m] /\ x = Outcome(bs, r, o, pair)
  BY <1>1 DEF Sound, Worked
<1>3. Earlier(K, reset, m, s) /\ Earlier(K, reset, m, t)
  BY <1>1, SettingOf, SourcesEarlier DEF BothEarlier, Setting
<1>4. (FromMatch(s) => NobodyThere(o, s.of)) /\ (FromMatch(t) => NobodyThere(o, t.of))
  BY <1>3, AbsentAreNobody DEF Earlier, FromMatch, Sound
<1>5. ~Absent(o, s) /\ ~Absent(o, t)
  <2>1. x.a = Resolve(o, s) /\ x.b = Resolve(o, t)
    BY <1>1, <1>2, OutcomeParts
  <2> QED
    BY <1>2, <1>3, <1>4, <2>1, AbsentIsNobody
<1>6. /\ x.winner = WinnerOfBoard(bs, r, x.a, x.b)
      /\ x.winner # Nobody => x.loser = IF x.winner = x.b THEN x.a ELSE x.b
  BY <1>1, <1>2, <1>5, OutcomeParts
<1> QED
  BY <1>1, <1>2, <1>6

-----------------------------------------------------------------------------
(* What a player lost before a match.                                      *)

LostBefore(o, p, m) == {n \in Matches(K, reset) : AppRound(K, n) < AppRound(K, m) /\ o[n].loser = p}

LEMMA LossesOfWinners ==
  ASSUME Setting, K >= 2, NEW bs, NEW o, Sound(bs, o), NEW m \in Matches(K, reset), WMatch(m),
         NEW p \in At(o, m)
  PROVE  LostBefore(o, p, m) = {}
<1> SUFFICES ASSUME NEW n \in LostBefore(o, p, m) PROVE FALSE
  OBVIOUS
<1>1. PICK k \in Nat \ {0} : k = K
  BY SettingOf
<1>2. n \in Matches(K, reset) /\ AppRound(K, n) < AppRound(K, m) /\ o[n].loser = p /\ p # Nobody
  BY DEF LostBefore, At
<1>3. PICK u \in Nat, v \in Nat : u = AppRound(K, n) /\ v = AppRound(K, m) /\ u < v
  BY <1>2, KindOf
<1>4. PICK r \in 1..k : \E i \in SlotsW(r) : m = W(r, i)
  BY <1>1 DEF WMatch
<1>5. PICK i \in SlotsW(r) : m = W(r, i)
  BY <1>4
<1>6. v = (IF r = 1 THEN 1 ELSE 2 * (r - 1)) /\ v < 2 * k
  <2>1. v = IF r = 1 THEN 1 ELSE 2 * (r - 1)
    BY <1>1, <1>3, <1>5, RoundsOfMatches
  <2> QED
    BY <2>1
<1>7. CASE WMatch(n)
  <2>1. PICK q \in 1..k : \E x \in SlotsW(q) : n = W(q, x)
    BY <1>1, <1>7 DEF WMatch
  <2>2. PICK x \in SlotsW(q) : n = W(q, x)
    BY <2>1
  <2>3. u = IF q = 1 THEN 1 ELSE 2 * (q - 1)
    BY <1>1, <1>3, <2>2, RoundsOfMatches
  <2>4. q < r
    BY <1>3, <1>6, <2>3
  <2> QED
    BY <1>1, <1>2, <1>5, <2>2, <2>4, NoLossBefore
<1>8. CASE LMatch(n)
  <2>1. PICK j \in 1..2 * (K - 1) : \E x \in SlotsL(j) : n = L(j, x)
    BY <1>8 DEF LMatch
  <2>2. PICK x \in SlotsL(j) : n = L(j, x)
    BY <2>1
  <2>3. p \in At(o, L(j, x))
    BY <1>2, <2>2, ResultSeats
  <2>4. AppRound(K, L(j, x)) <= AppRound(K, W(r, i))
    BY <1>3, <1>5, <2>2
  <2> QED
    BY <1>1, <1>5, <2>3, <2>4, OneBracket
<1>9. CASE n = GF \/ n = GFR
  <2>1. u >= 2 * k
    BY <1>1, <1>3, <1>9, RoundsOfMatches
  <2> QED
    BY <1>3, <1>6, <2>1
<1> QED
  BY <1>2, <1>7, <1>8, <1>9, KindOf

\* The losses of p before m are of the winners' bracket.
OnlyInWinners(o, p, m) == \A n \in LostBefore(o, p, m) : WMatch(n)

LEMMA LossesOfLosers ==
  ASSUME Setting, K >= 2, NEW bs, NEW o, Sound(bs, o), NEW m \in Matches(K, reset), LMatch(m),
         NEW p \in At(o, m)
  PROVE  OnlyInWinners(o, p, m)
<1> SUFFICES ASSUME NEW n \in LostBefore(o, p, m), ~WMatch(n) PROVE FALSE
  BY DEF OnlyInWinners
<1>1. PICK k \in Nat \ {0} : k = K /\ k >= 2
  BY SettingOf
<1>2. n \in Matches(K, reset) /\ AppRound(K, n) < AppRound(K, m) /\ o[n].loser = p
  BY DEF LostBefore
<1>3. PICK u \in Nat, v \in Nat : u = AppRound(K, n) /\ v = AppRound(K, m) /\ u < v
  BY <1>2, KindOf
<1>4. PICK j \in 1..2 * (K - 1) : \E i \in SlotsL(j) : m = L(j, i)
  BY DEF LMatch
<1>5. PICK i \in SlotsL(j) : m = L(j, i)
  BY <1>4
<1>6. v = j + 1 /\ j \in 1..2 * (k - 1)
  BY <1>1, <1>3, <1>5, RoundsOfMatches
<1>7. CASE LMatch(n)
  <2>1. PICK h \in 1..2 * (K - 1) : \E x \in SlotsL(h) : n = L(h, x)
    BY <1>7 DEF LMatch
  <2>2. PICK x \in SlotsL(h) : n = L(h, x)
    BY <2>1
  <2>3. u = h + 1 /\ h \in 1..2 * (k - 1)
    BY <1>1, <1>3, <2>1, <2>2, RoundsOfMatches
  <2>4. h \in 1..j - 1
    BY <1>3, <1>6, <2>3
  <2> QED
    BY <1>2, <1>5, <2>2, <2>4, LosersApart DEF LosersOnce
<1>8. CASE n = GF \/ n = GFR
  <2>1. u >= 2 * k
    BY <1>1, <1>3, <1>8, RoundsOfMatches
  <2> QED
    BY <1>1, <1>3, <1>6, <2>1
<1> QED
  BY <1>2, <1>7, <1>8, KindOf

LEMMA LossesOfFinalists ==
  ASSUME Setting, K >= 2, NEW bs, NEW o, Sound(bs, o), NEW m \in Matches(K, reset),
         m \in {GF, GFR}, m = GFR => ResetNeeded(o), NEW p \in At(o, m)
  PROVE  OnlyInWinners(o, p, m) \/ LostBefore(o, p, m) \subseteq {GF}
<1>1. PICK k \in Nat \ {0} : k = K /\ k >= 2 /\ reset \in BOOLEAN
  BY SettingOf DEF Setting
<1>2. PICK w, l : w = o[W(K, 0)].winner /\ l = o[L(2 * (K - 1), 0)].winner
  OBVIOUS
<1>3. o[m].a = w /\ o[m].b = l /\ SecondFrom = L(2 * (K - 1), 0)
  BY <1>2, ComesGF
<1>4. p # Nobody /\ (p = w \/ p = l)
  BY <1>3 DEF At
<1>5. /\ w # Nobody => /\ \A r \in 1..K : \A x \in SlotsW(r) : o[W(r, x)].loser # w
                       /\ \A j \in 1..2 * (K - 1) : \A x \in SlotsL(j) : w \notin At(o, L(j, x))
                       /\ w # l
      /\ l # Nobody => \A j \in 1..2 * (K - 1) : \A x \in SlotsL(j) : o[L(j, x)].loser # l
  BY <1>2, Finalists
<1>6. ASSUME NEW n \in LostBefore(o, p, m)
      PROVE  /\ n \in Matches(K, reset) /\ o[n].loser = p /\ p \in At(o, n)
             /\ WMatch(n) \/ LMatch(n) \/ (n = GF /\ m = GFR)
  <2>1. n \in Matches(K, reset) /\ AppRound(K, n) < AppRound(K, m) /\ o[n].loser = p
    BY DEF LostBefore
  <2>2. PICK u \in Nat, v \in Nat : u = AppRound(K, n) /\ v = AppRound(K, m) /\ u < v
    BY <2>1, KindOf
  <2>3. /\ AppRound(K, GF) = 2 * k /\ AppRound(K, GFR) = 2 * k + 1
    BY <1>1, RoundsOfMatches
  <2>4. (n = GF => m = GFR) /\ n # GFR
    BY <2>2, <2>3
  <2> QED
    BY <1>4, <2>1, <2>4, KindOf, ResultSeats
<1>7. CASE p = w
  <2> SUFFICES ASSUME NEW n \in LostBefore(o, p, m), n # GF PROVE FALSE
    OBVIOUS
  <2>1. o[n].loser = p /\ p \in At(o, n) /\ (WMatch(n) \/ LMatch(n))
    BY <1>6
  <2> QED
    BY <1>4, <1>5, <1>7, <2>1 DEF WMatch, LMatch
<1>8. CASE p = l
  <2> SUFFICES ASSUME NEW n \in LostBefore(o, p, m), ~WMatch(n) PROVE FALSE
    BY DEF OnlyInWinners
  <2>1. n \in Matches(K, reset) /\ o[n].loser = p /\ (LMatch(n) \/ (n = GF /\ m = GFR))
    BY <1>6
  <2>2. ~LMatch(n)
    BY <1>4, <1>5, <1>8, <2>1 DEF LMatch
  <2>3. n = GF /\ m = GFR /\ ResetNeeded(o)
    BY <2>1, <2>2
  <2>4. o[GF].winner = l
    BY <1>2, <1>3, <2>3 DEF ResetNeeded, SecondFrom, K
  <2>5. o[GF].a = w /\ o[GF].b = l /\ w # l
    <3>1. o[GF].a = w /\ o[GF].b = l
      BY <1>2, <2>1, <2>3, ComesGF
    <3> QED
      BY <1>4, <1>5, <1>8, <3>1
  <2> QED
    BY <1>4, <1>8, <2>1, <2>3, <2>4, <2>5, ResultSeats
<1> QED
  BY <1>4, <1>7, <1>8

\* Whoever plays a match lost one match at most before it.
LEMMA LossesApart ==
  ASSUME Setting, K >= 2, NEW bs, NEW o, Sound(bs, o), NEW m \in Matches(K, reset),
         m = GFR => ResetNeeded(o), NEW p \in At(o, m),
         NEW x \in LostBefore(o, p, m), NEW y \in LostBefore(o, p, m)
  PROVE  x = y
<1>1. OnlyInWinners(o, p, m) \/ LostBefore(o, p, m) \subseteq {GF}
  <2>1. CASE WMatch(m)
    BY <2>1, LossesOfWinners
  <2>2. CASE LMatch(m)
    BY <2>2, LossesOfLosers
  <2>3. CASE m \in {GF, GFR}
    BY <2>3, LossesOfFinalists
  <2> QED
    BY <2>1, <2>2, <2>3, KindOf
<1>2. CASE OnlyInWinners(o, p, m)
  <2>1. o[x].loser = p /\ o[y].loser = p /\ p # Nobody /\ WMatch(x) /\ WMatch(y)
    BY <1>2 DEF LostBefore, OnlyInWinners, At
  <2>2. PICK r \in 1..K, q \in 1..K : (\E i \in SlotsW(r) : x = W(r, i)) /\ \E i \in SlotsW(q) : y = W(q, i)
    BY <2>1 DEF WMatch
  <2>3. PICK i \in SlotsW(r), j \in SlotsW(q) : x = W(r, i) /\ y = W(q, j)
    BY <2>2
  <2> QED
    BY <2>1, <2>3, DroppedOnce
<1> QED
  BY <1>1, <1>2

-----------------------------------------------------------------------------
(* The boards and the matches.                                             *)

\* A board is the one of a match of its round.
LEMMA SeatedMatch ==
  ASSUME BracketInv, NEW bs, bs = boards, NEW o, o = Resolved(bs),
         NEW r \in 1..Rounds, NEW b \in bs[r]
  PROVE  \E m \in Matches(K, reset) :
           /\ AppRound(K, m) = r /\ At(o, m) = Seats(b) /\ (m = GFR => ResetNeeded(o))
<1>1. Setting /\ o = Resolved(boards) /\ GoodBoard(b) /\ Seats(b) \in Pairs(o, r)
  BY SoundBoards DEF BracketInv, GoodRound, Asked, SeatsIn
<1>2. PICK m \in DOMAIN MatchesForRound(r) : At(o, m) = Seats(b) /\ (m = GFR => ResetNeeded(o))
  BY <1>1 DEF Pairs, Played, Pair, At
<1> QED
  BY <1>1, <1>2, RoundOfMatch, Zenon

\* Who loses at a board loses its match.
LEMMA LostMatch ==
  ASSUME BracketInv, NEW bs, bs = boards, NEW o, o = Resolved(bs),
         NEW r \in 1..Rounds, NEW b \in bs[r],
         NEW p \in Seats(b), BoardWinner(b) \notin {Nobody, p}
  PROVE  \E m \in Matches(K, reset) : AppRound(K, m) = r /\ o[m].loser = p
<1>1. Setting /\ Sound(bs, o) /\ GoodBoard(b) /\ GoodRound(bs[r])
  BY SoundBoards DEF BracketInv, GoodRound
<1>2. PICK m \in Matches(K, reset) : AppRound(K, m) = r /\ At(o, m) = Seats(b)
  BY SeatedMatch
<1>3. PICK w : w = BoardWinner(b) /\ w \in Seats(b) /\ w # p /\ w # Nobody
  BY <1>1, WinnerSeats
<1>4. PICK x, y : x = o[m].a /\ y = o[m].b
  OBVIOUS
<1>5. x # Nobody /\ y # Nobody /\ Seats(b) = {x, y} /\ {p, w} = {x, y}
  BY <1>2, <1>3, <1>4 DEF At
<1>6. WinnerOfBoard(bs, r, x, y) = w
  <2>1. x # y
    BY <1>3, <1>5
  <2> QED
    BY <1>1, <1>3, <1>5, <2>1, BoardFound
<1>7. /\ o[m].winner = w
      /\ o[m].loser = IF w = y THEN x ELSE y
  BY <1>1, <1>2, <1>3, <1>4, <1>5, <1>6, WonAtBoard
<1>8. o[m].loser = p
  BY <1>3, <1>5, <1>7
<1> QED
  BY <1>2, <1>8

LEMMA AtMostOne ==
  ASSUME NEW S, \A x, y \in S : x = y
  PROVE  Cardinality(S) \in {0, 1}
<1>1. CASE S = {}
  BY <1>1, FS_EmptySet
<1>2. CASE S # {}
  <2>1. PICK x : S = {x}
    BY <1>2
  <2> QED
    BY <2>1, FS_Singleton
<1> QED
  BY <1>1, <1>2

LEMMA TwoLevels ==
  ASSUME Setting, 2 \notin Fields
  PROVE  K >= 2
<1>1. field # 2 /\ field > 2
  BY SettingOf DEF Setting
<1>2. Pow2[1] = 2
  <2>1. Pow2[0 + 1] = 2 * Pow2[0] /\ Pow2[0] = 1
    BY Pow2Step
  <2> QED
    BY <2>1
<1>3. K # 1
  BY <1>1, <1>2, SettingOf
<1> QED
  BY <1>3, SettingOf

\* Until a request out of date has written, whoever is seated in a round has
\* lost once at most before: a second loss knocks them out.  A field of two has
\* no losers' bracket, and its only player who lost comes to the grand final at
\* once.
THEOREM LosersAreOut == 2 \notin Fields => (Spec => []OutAfterTwoLosses)
<1> SUFFICES ASSUME 2 \notin Fields PROVE Spec => []OutAfterTwoLosses
  OBVIOUS
<1>1. BracketInv => OutAfterTwoLosses
  <2> SUFFICES ASSUME BracketInv, NEW r \in 1..LastPaired, NEW c \in boards[r], NEW p \in Seats(c)
               PROVE  Losses(p, r - 1) < 2
    BY DEF OutAfterTwoLosses
  <2>1. PICK bs, o : bs = boards /\ o = Resolved(bs) /\ Sound(bs, o) /\ Setting /\ K >= 2
    BY SoundBoards, TwoLevels
  <2>2. PICK n \in Nat : n = Rounds /\ r \in 1..n
    <3>1. PICK last \in 0..Rounds : LastPaired = last
      BY <2>1, LastPairedIs DEF BracketInv, DrawnUpTo
    <3> QED
      BY <2>1, <3>1, SettingOf
  <2> DEFINE lost == {q \in 1..r - 1 : \E b \in boards[q] : p \in Seats(b) /\ BoardWinner(b) \notin {Nobody, p}}
  <2>3. PICK m \in Matches(K, reset) :
          AppRound(K, m) = r /\ p \in At(o, m) /\ (m = GFR => ResetNeeded(o))
    <3>1. c \in bs[r] /\ r \in 1..Rounds
      BY <2>1, <2>2
    <3> QED
      BY <2>1, <3>1, SeatedMatch
  <2>4. \A x, y \in lost : x = y
    <3> SUFFICES ASSUME NEW x \in lost, NEW y \in lost PROVE x = y
      OBVIOUS
    <3>1. ASSUME NEW q \in lost
          PROVE  \E k \in LostBefore(o, p, m) : AppRound(K, k) = q
      <4>1. q \in 1..Rounds /\ q < r
        BY <2>2
      <4>2. PICK b \in bs[q] : p \in Seats(b) /\ BoardWinner(b) \notin {Nobody, p}
        BY <2>1
      <4>3. PICK k \in Matches(K, reset) : AppRound(K, k) = q /\ o[k].loser = p
        BY <2>1, <4>1, <4>2, LostMatch
      <4> QED
        BY <2>3, <4>1, <4>3 DEF LostBefore
    <3>2. PICK k \in LostBefore(o, p, m), h \in LostBefore(o, p, m) :
            AppRound(K, k) = x /\ AppRound(K, h) = y
      BY <3>1
    <3>3. k = h
      BY <2>1, <2>3, LossesApart
    <3> QED
      BY <3>2, <3>3
  <2>5. Cardinality(lost) \in {0, 1}
    BY <2>4, AtMostOne
  <2>6. Losses(p, r - 1) = Cardinality(lost)
    BY DEF Losses
  <2> QED
    BY <2>5, <2>6
<1>2. outdated => OutAfterTwoLosses
  BY DEF OutAfterTwoLosses
<1> QED
  BY <1>1, <1>2, BracketInvariant, PTL

-----------------------------------------------------------------------------
(* Where somebody comes from.                                              *)

\* Each seed has a slot.
LEMMA SeedOrderOnto ==
  ASSUME NEW k \in Nat, NEW s \in 1..Pow2[k]
  PROVE  \E i \in 1..Pow2[k] : SeedOrder[k][i] = s
<1> DEFINE P == {n \in Nat : \A x \in 1..Pow2[n] : \E i \in 1..Pow2[n] : SeedOrder[n][i] = x}
<1>1. 0 \in P
  BY Pow2Step, SeedOrderStep
<1>2. ASSUME NEW n \in Nat, n \in P PROVE n + 1 \in P
  <2>1. PICK p \in Nat : p = Pow2[n] /\ Pow2[n + 1] = 2 * p
    BY Pow2Step
  <2>2. PICK v : v = SeedOrder[n] /\ \A x \in 1..p : \E i \in 1..p : v[i] = x
    BY <1>2, <2>1
  <2>3. SeedOrder[n + 1] =
          [i \in 1..2 * p |-> IF i % 2 = 1 THEN v[(i + 1) \div 2] ELSE 2 * p + 1 - v[i \div 2]]
    <3>1. SeedOrder[n + 1] = NextOrder(n + 1, v)
      BY <2>2, SeedOrderStep
    <3> QED
      BY <2>1, <3>1 DEF NextOrder
  <2>4. ASSUME NEW x \in 1..2 * p PROVE \E i \in 1..2 * p : SeedOrder[n + 1][i] = x
    <3>1. CASE x <= p
      <4>1. PICK i \in 1..p : v[i] = x
        BY <2>2, <2>4, <3>1
      <4>2. 2 * i - 1 \in 1..2 * p /\ (2 * i - 1) % 2 = 1 /\ ((2 * i - 1) + 1) \div 2 = i
        OBVIOUS
      <4> QED
        BY <2>3, <4>1, <4>2, Zenon
    <3>2. CASE x > p
      <4>1. 2 * p + 1 - x \in 1..p
        BY <2>4, <3>2
      <4>2. PICK i \in 1..p : v[i] = 2 * p + 1 - x
        BY <2>2, <4>1
      <4>3. 2 * i \in 1..2 * p /\ (2 * i) % 2 # 1 /\ (2 * i) \div 2 = i
        OBVIOUS
      <4>4. SeedOrder[n + 1][2 * i] = 2 * p + 1 - v[i]
        BY <2>3, <4>3
      <4>5. 2 * p + 1 - (2 * p + 1 - x) = x
        BY <2>4
      <4> QED
        BY <4>2, <4>3, <4>4, <4>5
    <3> QED
      BY <2>4, <3>1, <3>2
  <2> QED
    BY <2>1, <2>4
<1> HIDE DEF P
<1>3. k \in P
  BY <1>1, <1>2, InductionOver
<1> QED
  BY <1>3 DEF P

\* The two seeds of a match of the first round add up to one more than there
\* are slots.
LEMMA SeedsOfPair ==
  ASSUME NEW n \in Nat, NEW i \in 0..Pow2[n] - 1
  PROVE  /\ i + 1 \in 1..Pow2[n] /\ SeedOrder[n][i + 1] \in 1..Pow2[n]
         /\ SeedOrder[n + 1][2 * i + 1] = SeedOrder[n][i + 1]
         /\ SeedOrder[n + 1][2 * i + 2] = 2 * Pow2[n] + 1 - SeedOrder[n][i + 1]
<1>1. PICK p \in Nat : p = Pow2[n] /\ Pow2[n + 1] = 2 * p
  BY Pow2Step
<1>2. PICK v : v = SeedOrder[n] /\ \A x \in 1..p : v[x] \in 1..p
  BY <1>1, SeedOrderStep, Zenon DEF Slots
<1>3. SeedOrder[n + 1] =
        [x \in 1..2 * p |-> IF x % 2 = 1 THEN v[(x + 1) \div 2] ELSE 2 * p + 1 - v[x \div 2]]
  <2>1. SeedOrder[n + 1] = NextOrder(n + 1, v)
    BY <1>2, SeedOrderStep
  <2> QED
    BY <1>1, <2>1 DEF NextOrder
<1>4. /\ i \in 0..p - 1 /\ i + 1 \in 1..p
      /\ 2 * i + 1 \in 1..2 * p /\ (2 * i + 1) % 2 = 1 /\ ((2 * i + 1) + 1) \div 2 = i + 1
      /\ 2 * i + 2 \in 1..2 * p /\ (2 * i + 2) % 2 # 1 /\ (2 * i + 2) \div 2 = i + 1
  BY <1>1
<1>5. SeedOrder[n + 1][2 * i + 1] = v[i + 1]
  BY <1>3, <1>4
<1>6. SeedOrder[n + 1][2 * i + 2] = 2 * p + 1 - v[i + 1]
  BY <1>3, <1>4
<1> QED
  BY <1>1, <1>2, <1>4, <1>5, <1>6

\* A match is empty when nobody will ever come from its two sources, and lacks a
\* loser when nobody will from one of them.
LEMMA AbsentFrom ==
  ASSUME NEW bs, NEW o, Sound(bs, o), NEW m \in Matches(K, reset),
         NEW s, NEW t, Sources(K, m) = <<s, t>>
  PROVE  /\ o[m].empty = (Absent(o, s) /\ Absent(o, t))
         /\ o[m].lacks_loser = (Absent(o, s) \/ Absent(o, t))
<1>1. PICK pair : pair = Sources(K, m) /\ s = pair[1] /\ t = pair[2]
  OBVIOUS
<1>2. o[m] = Outcome(bs, AppRound(K, m), o, pair)
  BY <1>1 DEF Sound, Worked
<1> QED
  BY <1>1, <1>2, OutcomeParts

LEMMA AbsentKinds ==
  ASSUME NEW o
  PROVE  /\ \A x : Absent(o, WinnerOf(x)) = o[x].empty /\ Absent(o, LoserOf(x)) = o[x].lacks_loser
         /\ \A x : Absent(o, Seed(x)) => x > field
  BY DEF Absent, WinnerOf, LoserOf, Seed

\* A match of the first round has the player of its lower seed, which is of the
\* field, and one more if the seed of the other is.
LEMMA FirstRoundSeeds ==
  ASSUME Setting, NEW bs, NEW o, Sound(bs, o), NEW i \in 0..Pow2[K - 1] - 1,
         NEW x, x = SeedOrder[K][2 * i + 1]
  PROVE  /\ x \in 1..Pow2[K - 1] /\ x < field
         /\ ~o[W(1, i)].empty
         /\ 2 * Pow2[K - 1] + 1 - x <= field => ~o[W(1, i)].lacks_loser
         /\ x \in At(o, W(1, i))
         /\ 2 * Pow2[K - 1] + 1 - x <= field => 2 * Pow2[K - 1] + 1 - x \in At(o, W(1, i))
<1>1. /\ K \in Nat \ {0} /\ 1 \in 1..K /\ K - 1 \in Nat /\ (K - 1) + 1 = K /\ K - 1 \in 0..K - 1
      /\ field \in Nat
  BY SettingOf
<1>2. PICK n \in Nat : n = Pow2[K - 1] /\ n < field /\ i \in 0..n - 1
  BY <1>1, Pow2Step, SettingOf
<1>3. PICK y : y = SeedOrder[K][2 * i + 2]
  OBVIOUS
<1>4. x \in 1..n /\ y = 2 * n + 1 - x
  <2>1. PICK h \in Nat : h = K - 1 /\ K = h + 1
    BY <1>1
  <2>2. i \in 0..Pow2[h] - 1 /\ n = Pow2[h]
    BY <2>1, <1>2
  <2>3. /\ SeedOrder[h][i + 1] \in 1..n
        /\ SeedOrder[K][2 * i + 1] = SeedOrder[h][i + 1]
        /\ SeedOrder[K][2 * i + 2] = 2 * n + 1 - SeedOrder[h][i + 1]
    BY <2>1, <2>2, SeedsOfPair
  <2> QED
    BY <1>3, <2>3
<1>5. PICK m : m = W(1, i) /\ m \in Matches(K, reset)
  BY <1>1, IsMatchW
<1>6. Sources(K, m) \in {<<Seed(x), Seed(y)>>, <<Seed(y), Seed(x)>>}
  BY <1>1, <1>3, <1>5, SourcesOfW
<1>7. x < field /\ ~(x > field) /\ x # Nobody /\ y # Nobody
  BY <1>1, <1>2, <1>4 DEF Nobody
<1>8. /\ Resolve(o, Seed(x)) = x /\ (y <= field => Resolve(o, Seed(y)) = y)
      /\ ~Absent(o, Seed(x)) /\ (y <= field => ~Absent(o, Seed(y)))
  <2>1. y <= field => ~(y > field)
    BY <1>1, <1>4, <1>2
  <2>2. Resolve(o, Seed(x)) = x /\ (y <= field => Resolve(o, Seed(y)) = y)
    <3>1. x <= field
      BY <1>1, <1>2, <1>4
    <3> QED
      BY <3>1, ResolveKinds, Zenon
  <2>3. (Absent(o, Seed(x)) => x > field) /\ (Absent(o, Seed(y)) => y > field)
    BY AbsentKinds, Zenon
  <2> QED
    BY <1>7, <2>1, <2>2, <2>3
<1>9. /\ ~o[m].empty
      /\ y <= field => ~o[m].lacks_loser
  <2>1. /\ o[m].empty = (Absent(o, Seed(x)) /\ Absent(o, Seed(y)))
        /\ o[m].lacks_loser = (Absent(o, Seed(x)) \/ Absent(o, Seed(y)))
    <3>1. CASE Sources(K, m) = <<Seed(x), Seed(y)>>
      BY <1>5, <3>1, AbsentFrom
    <3>2. CASE Sources(K, m) = <<Seed(y), Seed(x)>>
      <4>1. /\ o[m].empty = (Absent(o, Seed(y)) /\ Absent(o, Seed(x)))
            /\ o[m].lacks_loser = (Absent(o, Seed(y)) \/ Absent(o, Seed(x)))
        BY <1>5, <3>2, AbsentFrom
      <4> QED
        BY <4>1
    <3> QED
      BY <1>6, <3>1, <3>2
  <2> QED
    BY <1>8, <2>1, Zenon
<1>10. x \in At(o, m) /\ (y <= field => y \in At(o, m))
  <2>1. \/ o[m].a = Resolve(o, Seed(x)) /\ o[m].b = Resolve(o, Seed(y))
        \/ o[m].a = Resolve(o, Seed(y)) /\ o[m].b = Resolve(o, Seed(x))
    BY <1>5, <1>6, ComesFrom
  <2> QED
    BY <1>7, <1>8, <2>1 DEF At
<1> QED
  BY <1>2, <1>4, <1>5, <1>7, <1>9, <1>10

\* Somebody comes from every match of the winners' bracket, and a loser too from
\* its second round on.
LEMMA WinnersCome ==
  ASSUME Setting, NEW bs, NEW o, Sound(bs, o)
  PROVE  \A r \in 1..K : \A i \in SlotsW(r) :
           ~o[W(r, i)].empty /\ (r # 1 => ~o[W(r, i)].lacks_loser)
<1>1. PICK k \in Nat \ {0} : k = K
  BY SettingOf
<1> DEFINE P == {n \in Nat : \A i \in SlotsW(n + 1) : ~o[W(n + 1, i)].empty}
<1>2. \A i \in SlotsW(1) : ~o[W(1, i)].empty
  BY FirstRoundSeeds DEF SlotsW
<1>3. 0 \in P
  BY <1>2
<1>4. ASSUME NEW r \in 2..k, \A x \in SlotsW(r - 1) : ~o[W(r - 1, x)].empty, NEW i \in SlotsW(r)
      PROVE  ~o[W(r, i)].empty /\ ~o[W(r, i)].lacks_loser
  <2>1. r \in 2..K /\ r \in 1..K /\ r # 1
    BY <1>1
  <2>2. 2 * i \in SlotsW(r - 1) /\ 2 * i + 1 \in SlotsW(r - 1)
    BY <2>1, FromWinners
  <2>3. PICK s, t : s = W(r - 1, 2 * i) /\ t = W(r - 1, 2 * i + 1)
    OBVIOUS
  <2>4. ~o[s].empty /\ ~o[t].empty
    BY <1>4, <2>2, <2>3
  <2>5. PICK m : m = W(r, i) /\ m \in Matches(K, reset)
    BY <2>1, IsMatchOfW
  <2>6. Sources(K, m) = <<WinnerOf(s), WinnerOf(t)>>
    <3>1. i \in 0..Pow2[K - r] - 1
      BY DEF SlotsW
    <3> QED
      BY <1>1, <2>1, <2>3, <2>5, <3>1, SourcesOfW
  <2>7. ~Absent(o, WinnerOf(s)) /\ ~Absent(o, WinnerOf(t))
    BY <2>4, AbsentKinds
  <2> QED
    BY <2>5, <2>6, <2>7, AbsentFrom, Zenon
<1>5. ASSUME NEW n \in 0..(k - 1) - 1, n \in P PROVE n + 1 \in P
  <2>1. PICK r \in 2..k : r = (n + 1) + 1 /\ r - 1 = n + 1
    OBVIOUS
  <2>2. \A x \in SlotsW(r - 1) : ~o[W(r - 1, x)].empty
    BY <1>5, <2>1
  <2>3. \A i \in SlotsW(r) : ~o[W(r, i)].empty
    BY <1>4, <2>2
  <2> QED
    BY <2>1, <2>3
<1> HIDE DEF P
<1>6. 0..(k - 1) \subseteq P
  BY <1>3, <1>5, InductionUpTo
<1>7. ASSUME NEW r \in 1..k PROVE \A i \in SlotsW(r) : ~o[W(r, i)].empty
  <2>1. r - 1 \in P /\ (r - 1) + 1 = r
    BY <1>6
  <2> QED
    BY <2>1 DEF P
<1>8. ASSUME NEW r \in 1..k, r # 1, NEW i \in SlotsW(r) PROVE ~o[W(r, i)].lacks_loser
  <2>1. r \in 2..k /\ r - 1 \in 1..k
    BY <1>8
  <2>2. \A x \in SlotsW(r - 1) : ~o[W(r - 1, x)].empty
    BY <1>7, <2>1
  <2> QED
    BY <1>4, <2>1, <2>2
<1> QED
  BY <1>1, <1>7, <1>8

\* A match of the first round is of two players, for the field is more than half
\* of the bracket.
LEMMA OnePlayed ==
  ASSUME Setting, NEW bs, NEW o, Sound(bs, o)
  PROVE  \E i \in SlotsW(1) : ~o[W(1, i)].lacks_loser
<1>1. PICK h \in Nat : h = K - 1 /\ K = h + 1 /\ h \in 0..K - 1
  BY SettingOf
<1>2. PICK n \in Nat : n = Pow2[h] /\ n >= 1 /\ n < field /\ field \in Nat
  BY <1>1, Pow2Step, SettingOf
<1>3. PICK x \in 1..n : SeedOrder[h][x] = n
  BY <1>2, SeedOrderOnto
<1>4. PICK i : i = x - 1 /\ i \in 0..n - 1 /\ i + 1 = x
  BY <1>2
<1>5. SeedOrder[K][2 * i + 1] = n
  BY <1>1, <1>2, <1>3, <1>4, SeedsOfPair
<1>6. 2 * n + 1 - n <= field
  BY <1>2
<1>7. ~o[W(1, i)].lacks_loser
  BY <1>1, <1>2, <1>4, <1>5, <1>6, FirstRoundSeeds
<1> QED
  BY <1>1, <1>2, <1>4, <1>7 DEF SlotsW

\* Somebody comes from every match of the losers' bracket, but for some of its
\* first round.
LEMMA LosersCome ==
  ASSUME Setting, K >= 2, NEW bs, NEW o, Sound(bs, o)
  PROVE  /\ \E i \in SlotsL(1) : ~o[L(1, i)].empty
         /\ \A j \in 2..2 * (K - 1) : \A i \in SlotsL(j) : ~o[L(j, i)].empty
<1>1. PICK k \in Nat \ {0} : k = K /\ k >= 2 /\ 1 \in 1..2 * (K - 1)
  BY SettingOf
<1>2. \E i \in SlotsL(1) : ~o[L(1, i)].empty
  <2>1. PICK x \in SlotsW(1) : ~o[W(1, x)].lacks_loser
    BY OnePlayed
  <2>2. PICK n \in Nat : n = Pow2[K - 2] /\ Pow2[K - 1] = 2 * n
    <3>1. K - 2 \in Nat /\ (K - 2) + 1 = K - 1
      BY <1>1
    <3> QED
      BY <3>1, Pow2Step
  <2>3. SlotsL(1) = 0..n - 1 /\ SlotsW(1) = 0..2 * n - 1
    <3>1. K - 1 - (1 + 1) \div 2 = K - 2
      BY <1>1
    <3> QED
      BY <2>2, <3>1 DEF SlotsL, SlotsW
  <2>4. PICK i \in SlotsL(1) : x \in {2 * i, 2 * i + 1} /\ i \in Nat
    <3>1. x \div 2 \in 0..n - 1 /\ x \in {2 * (x \div 2), 2 * (x \div 2) + 1}
      BY <2>3
    <3> QED
      BY <2>3, <3>1
  <2>5. PICK m : m = L(1, i) /\ m \in Matches(K, reset)
    BY <1>1, IsMatchOfL
  <2>6. PICK s, t : s = LoserOf(W(1, 2 * i)) /\ t = LoserOf(W(1, 2 * i + 1))
    OBVIOUS
  <2>7. Sources(K, m) = <<s, t>>
    BY <1>1, <2>4, <2>5, <2>6, SourcesOfL
  <2>8. ~Absent(o, s) \/ ~Absent(o, t)
    BY <2>1, <2>4, <2>6, AbsentKinds, Zenon
  <2>9. ~o[m].empty
    BY <2>5, <2>7, <2>8, AbsentFrom, Zenon
  <2> QED
    BY <2>5, <2>9
<1>3. ASSUME NEW j \in 2..2 * (k - 1), j % 2 = 0, NEW i \in SlotsL(j)
      PROVE  ~o[L(j, i)].empty
  <2>1. j \in 2..2 * (K - 1) /\ j \in 1..2 * (K - 1)
    BY <1>1
  <2>2. /\ j \div 2 + 1 \in 2..K /\ Mirror(j, i) \in SlotsW(j \div 2 + 1)
        /\ i \in Int
    BY <1>3, <2>1, FromMajor
  <2>3. PICK q \in 1..K : q = j \div 2 + 1 /\ q # 1
    BY <1>1, <2>2
  <2>4. PICK m : m = L(j, i) /\ m \in Matches(K, reset)
    BY <2>1, IsMatchOfL
  <2>5. Dropout(K, j, i) = W(q, Mirror(j, i))
    BY <2>3 DEF Dropout, Mirror
  <2>6. PICK s, t : s = WinnerOf(L(j - 1, i)) /\ t = LoserOf(W(q, Mirror(j, i)))
    OBVIOUS
  <2>7. Sources(K, m) = <<s, t>>
    <3>1. i \in Nat
      BY <2>2 DEF SlotsL
    <3>2. Sources(K, L(j, i)) = <<WinnerOf(L(j - 1, i)), LoserOf(Dropout(K, j, i))>>
      BY <1>1, <1>3, <2>1, <3>1, SourcesOfL, Zenon
    <3> QED
      BY <2>4, <2>5, <2>6, <3>2
  <2>8. ~Absent(o, t)
    BY <2>2, <2>3, <2>6, AbsentKinds, WinnersCome
  <2> QED
    BY <2>4, <2>7, <2>8, AbsentFrom, Zenon
<1>4. ASSUME NEW j \in 2..2 * (k - 1), j % 2 = 1, NEW i \in SlotsL(j)
      PROVE  ~o[L(j, i)].empty
  <2>1. j \in 2..2 * (K - 1) /\ j \in 1..2 * (K - 1) /\ j # 1
    BY <1>1
  <2>2. j - 1 \in 2..2 * (k - 1) /\ (j - 1) % 2 = 0
    BY <1>4
  <2>3. 2 * i \in SlotsL(j - 1) /\ i \in Int
    BY <1>4, <2>1, FromMinor
  <2>4. PICK m : m = L(j, i) /\ m \in Matches(K, reset)
    BY <2>1, IsMatchOfL
  <2>5. PICK s, t : s = WinnerOf(L(j - 1, 2 * i)) /\ t = WinnerOf(L(j - 1, 2 * i + 1))
    OBVIOUS
  <2>6. Sources(K, m) = <<s, t>>
    <3>1. i \in Nat
      BY <2>3 DEF SlotsL
    <3>2. Sources(K, L(j, i)) = <<WinnerOf(L(j - 1, 2 * i)), WinnerOf(L(j - 1, 2 * i + 1))>>
      BY <1>1, <1>4, <2>1, <3>1, SourcesOfL, Zenon
    <3> QED
      BY <2>4, <2>5, <3>2
  <2>7. ~Absent(o, s)
    <3>1. ~o[L(j - 1, 2 * i)].empty
      BY <1>3, <2>2, <2>3
    <3> QED
      BY <2>5, <3>1, AbsentKinds
  <2> QED
    BY <2>4, <2>6, <2>7, AbsentFrom, Zenon
<1>5. \A j \in 2..2 * (k - 1) : j % 2 = 0 \/ j % 2 = 1
  OBVIOUS
<1> QED
  BY <1>1, <1>2, <1>3, <1>4, <1>5

\* Both finalists come.
LEMMA FinalistsCome ==
  ASSUME Setting, NEW bs, NEW o, Sound(bs, o), NEW m \in Matches(K, reset), m \in {GF, GFR}
  PROVE  ~o[m].empty /\ ~o[m].lacks_loser
<1>1. PICK k \in Nat \ {0} : k = K /\ K \in 1..K /\ K - K = 0
  BY SettingOf
<1>2. 0 \in SlotsW(K)
  BY <1>1, Pow2Step DEF SlotsW
<1>3. PICK s, t : s = Champions(K)[1] /\ t = Champions(K)[2]
  OBVIOUS
<1>4. Sources(K, m) = <<s, t>> /\ s = WinnerOf(W(K, 0))
  <2>1. Champions(K) = <<s, t>> /\ s = WinnerOf(W(K, 0))
    BY <1>3 DEF Champions
  <2> QED
    BY <1>1, <2>1, SourcesOfGF
<1>5. ~Absent(o, s)
  BY <1>1, <1>2, <1>4, AbsentKinds, WinnersCome
<1>6. ~Absent(o, t)
  <2>1. CASE K = 1
    <3>1. t = LoserOf(W(1, 0))
      BY <1>3, <2>1 DEF Champions
    <3>2. SlotsW(1) = {0}
      BY <2>1, Pow2Step DEF SlotsW
    <3>3. ~o[W(1, 0)].lacks_loser
      BY <3>2, OnePlayed
    <3> QED
      BY <3>1, <3>3, AbsentKinds
  <2>2. CASE K # 1
    <3>1. t = WinnerOf(L(2 * (K - 1), 0))
      BY <1>3, <2>2 DEF Champions
    <3>2. 2 * (K - 1) \in 2..2 * (K - 1) /\ K >= 2
      BY <1>1, <2>2
    <3>3. 0 \in SlotsL(2 * (K - 1))
      <4>1. K - 1 - (2 * (K - 1) + 1) \div 2 = 0
        BY <1>1, <2>2
      <4> QED
        BY <4>1, Pow2Step DEF SlotsL
    <3>4. ~o[L(2 * (K - 1), 0)].empty
      BY <3>2, <3>3, LosersCome
    <3> QED
      BY <3>1, <3>4, AbsentKinds
  <2> QED
    BY <2>1, <2>2
<1>7. /\ o[m].empty = (Absent(o, s) /\ Absent(o, t))
      /\ o[m].lacks_loser = (Absent(o, s) \/ Absent(o, t))
  BY <1>4, AbsentFrom
<1> QED
  BY <1>5, <1>6, <1>7, Zenon

-----------------------------------------------------------------------------
(* When every match of the first rounds has a winner.                      *)

\* Each match two players play up to this round has a winner.
Settled(o, q) ==
  \A m \in Matches(K, reset) :
    AppRound(K, m) <= q /\ o[m].a # Nobody /\ o[m].b # Nobody => o[m].winner # Nobody

\* What comes from a match is known, or will never come.
Full(o, m) ==
  /\ o[m].empty \/ o[m].winner # Nobody
  /\ o[m].lacks_loser \/ o[m].loser # Nobody

LEMMA SourceFull ==
  ASSUME Setting, NEW rs, NEW m, NEW s, Earlier(K, rs, m, s), NEW o,
         FromMatch(s) => Full(o, s.of)
  PROVE  Absent(o, s) \/ Resolve(o, s) # Nobody
<1>1. CASE s.kind = "seed" /\ s.seed \in 1..Pow2[K]
  <2>1. field \in Nat /\ Pow2[K] \in Nat /\ s.seed \in Int /\ s.seed # 0
    BY <1>1, SettingOf
  <2>2. s.seed > field \/ s.seed <= field
    BY <2>1
  <2> QED
    BY <1>1, <2>1, <2>2 DEF Absent, Resolve, Nobody
<1>2. CASE s.kind = "winner"
  BY <1>2 DEF Absent, Resolve, FromMatch, Full
<1>3. CASE s.kind = "loser"
  BY <1>3 DEF Absent, Resolve, FromMatch, Full
<1> QED
  BY <1>1, <1>2, <1>3 DEF Earlier

\* Once a round is reached, those who play its matches are known.
LEMMA SourcesFull ==
  ASSUME Setting, NEW bs, NEW o, Sound(bs, o), NEW m \in Matches(K, reset),
         \A x \in Matches(K, reset) : AppRound(K, x) < AppRound(K, m) => Full(o, x)
  PROVE  /\ ~o[m].empty => o[m].a # Nobody \/ o[m].b # Nobody
         /\ ~o[m].lacks_loser => o[m].a # Nobody /\ o[m].b # Nobody
         /\ (o[m].a # Nobody /\ o[m].b # Nobody => o[m].winner # Nobody) => Full(o, m)
<1>1. PICK pair, s, t : pair = Sources(K, m) /\ s = pair[1] /\ t = pair[2]
  OBVIOUS
<1>2. Earlier(K, reset, m, s) /\ Earlier(K, reset, m, t)
  BY <1>1, SettingOf, SourcesEarlier DEF BothEarlier, Setting
<1>3. (FromMatch(s) => Full(o, s.of)) /\ (FromMatch(t) => Full(o, t.of))
  BY <1>2 DEF Earlier, FromMatch
<1>4. (Absent(o, s) \/ Resolve(o, s) # Nobody) /\ (Absent(o, t) \/ Resolve(o, t) # Nobody)
  BY <1>2, <1>3, SourceFull
<1>5. PICK x : x = o[m] /\ x = Outcome(bs, AppRound(K, m), o, pair)
  BY <1>1 DEF Sound, Worked
<1>6. PICK sa, ta : sa = Absent(o, s) /\ ta = Absent(o, t)
  OBVIOUS
<1>7. /\ sa \/ x.a # Nobody
      /\ ta \/ x.b # Nobody
      /\ sa => x.winner = x.b
      /\ ~sa /\ ta => x.winner = x.a
      /\ x.loser = IF x.a = Nobody \/ x.b = Nobody \/ x.winner = Nobody THEN Nobody
                   ELSE IF x.winner = x.b THEN x.a ELSE x.b
      /\ x.empty = (sa /\ ta) /\ x.lacks_loser = (sa \/ ta)
  BY <1>1, <1>4, <1>5, <1>6, OutcomeParts
<1> QED
  BY <1>5, <1>7, Zenon DEF Full

LEMMA SettledFull ==
  ASSUME Setting, NEW bs, NEW o, Sound(bs, o), NEW q \in Nat, Settled(o, q),
         NEW m \in Matches(K, reset), AppRound(K, m) <= q
  PROVE  Full(o, m)
<1>1. \A x \in Matches(K, reset) : AppRound(K, x) \in Nat /\ AppRound(K, x) # 0
  <2>1. \A x \in Matches(K, reset) : AppRound(K, x) \in 1..(IF reset THEN 2 * K + 1 ELSE 2 * K)
    BY SettingOf, RoundsRange DEF Setting
  <2> QED
    BY <2>1, SettingOf
<1> DEFINE P == {i \in Nat : \A x \in Matches(K, reset) : AppRound(K, x) <= i => Full(o, x)}
<1>2. 0 \in P
  BY <1>1
<1>3. ASSUME NEW i \in 0..q - 1, i \in P PROVE i + 1 \in P
  <2> SUFFICES ASSUME NEW x \in Matches(K, reset), AppRound(K, x) <= i + 1
               PROVE  Full(o, x)
    OBVIOUS
  <2>1. ASSUME NEW y \in Matches(K, reset), AppRound(K, y) < AppRound(K, x) PROVE Full(o, y)
    <3>1. PICK u \in Nat, v \in Nat : u = AppRound(K, y) /\ v = AppRound(K, x)
      BY <1>1
    <3>2. u <= i
      BY <2>1, <3>1
    <3> QED
      BY <1>3, <3>1, <3>2
  <2>2. o[x].a # Nobody /\ o[x].b # Nobody => o[x].winner # Nobody
    <3>1. PICK v \in Nat : v = AppRound(K, x)
      BY <1>1
    <3>2. v <= q
      BY <3>1
    <3> QED
      BY <3>1, <3>2 DEF Settled
  <2> QED
    BY <2>1, <2>2, SourcesFull
<1> HIDE DEF P
<1>4. 0..q \subseteq P
  BY <1>2, <1>3, InductionUpTo
<1>5. q \in P
  BY <1>4
<1> QED
  BY <1>5 DEF P

\* Those who play the matches of the next round are known.
LEMMA SettledNext ==
  ASSUME Setting, NEW bs, NEW o, Sound(bs, o), NEW q \in Nat, Settled(o, q),
         NEW m \in Matches(K, reset), AppRound(K, m) <= q + 1
  PROVE  /\ ~o[m].empty => At(o, m) # {}
         /\ ~o[m].lacks_loser => o[m].a # Nobody /\ o[m].b # Nobody
<1>1. ASSUME NEW x \in Matches(K, reset), AppRound(K, x) < AppRound(K, m) PROVE Full(o, x)
  <2>1. PICK u \in Nat, v \in Nat : u = AppRound(K, x) /\ v = AppRound(K, m)
    BY KindOf
  <2>2. u <= q
    BY <1>1, <2>1
  <2> QED
    BY <2>1, <2>2, SettledFull
<1>2. /\ ~o[m].empty => o[m].a # Nobody \/ o[m].b # Nobody
      /\ ~o[m].lacks_loser => o[m].a # Nobody /\ o[m].b # Nobody
  BY <1>1, SourcesFull
<1> QED
  BY <1>2 DEF At

\* A match of two has its board, once its round is drawn, and its outcome is the
\* one of the board.
LEMMA BoardOfMatch ==
  ASSUME BracketInv, NEW bs, bs = boards, NEW o, o = Resolved(bs),
         NEW m \in Matches(K, reset), m = GFR => ResetNeeded(o),
         o[m].a # Nobody, o[m].b # Nobody, NEW r, r = AppRound(K, m), bs[r] # {},
         o[m].a # o[m].b
  PROVE  \E b \in bs[r] : Seats(b) = {o[m].a, o[m].b} /\ o[m].winner = BoardWinner(b)
<1>1. /\ Setting /\ Sound(bs, o) /\ reset \in BOOLEAN
      /\ r \in 1..Rounds /\ GoodRound(bs[r]) /\ SeatsIn(bs[r]) = Pairs(o, r)
  <2>1. Setting /\ Sound(bs, o) /\ o = Resolved(boards) /\ reset \in BOOLEAN
    BY SoundBoards DEF Setting
  <2>2. r \in 1..Rounds
    BY <2>1, SettingOf, RoundsRange
  <2> QED
    BY <2>1, <2>2 DEF BracketInv, Asked
<1>2. PICK x, y : x = o[m].a /\ y = o[m].b /\ x # Nobody /\ y # Nobody /\ x # y
  OBVIOUS
<1>3. m \in Played(o, r) /\ Pair(o, m) = {x, y}
  <2>1. m \in DOMAIN MatchesForRound(r)
    BY <1>1, RoundOfMatch, Zenon
  <2>2. {x, y} # {Nobody} /\ {x, y} \ {Nobody} = {x, y}
    BY <1>2
  <2> QED
    BY <1>2, <2>1, <2>2 DEF Played, Pair
<1>4. PICK b \in bs[r] : Seats(b) = {x, y}
  BY <1>1, <1>3 DEF SeatsIn, Pairs
<1>5. WinnerOfBoard(bs, r, x, y) = BoardWinner(b)
  BY <1>1, <1>2, <1>4, BoardFound
<1> QED
  BY <1>1, <1>2, <1>4, <1>5, WonAtBoard

\* The matches of a round that has no reset, by its number.
LEMMA BeforeReset ==
  ASSUME Setting, NEW m \in Matches(K, reset), AppRound(K, m) <= 2 * K
  PROVE  m # GFR
<1>1. PICK k \in Nat \ {0} : k = K /\ AppRound(k, GFR) = 2 * k + 1
  BY SettingOf, RoundsOfMatches
<1>2. PICK u \in Nat : u = AppRound(K, m)
  BY KindOf
<1> QED
  BY <1>1, <1>2

\* When every board of the first rounds has a winner, their matches do.
LEMMA WonBoardsSettle ==
  ASSUME BracketInv, NEW bs, bs = boards, NEW o, o = Resolved(bs),
         NEW q \in Nat, q <= 2 * K, q <= Rounds,
         \A r \in 1..q : bs[r] # {} /\ \A b \in bs[r] : BoardWinner(b) # Nobody
  PROVE  Settled(o, q)
<1> SUFFICES ASSUME NEW m \in Matches(K, reset), AppRound(K, m) <= q, o[m].a # Nobody, o[m].b # Nobody
             PROVE  o[m].winner # Nobody
  BY DEF Settled
<1>1. PICK k \in Nat \ {0} : k = K /\ Setting /\ reset \in BOOLEAN
  BY SoundBoards, SettingOf DEF Setting
<1>2. PICK r \in 1..q : r = AppRound(K, m)
  <2>1. AppRound(K, m) \in 1..(IF reset THEN 2 * K + 1 ELSE 2 * K)
    BY <1>1, RoundsRange
  <2> QED
    BY <1>1, <2>1
<1>3. m # GFR
  <2>1. AppRound(K, m) <= 2 * K
    BY <1>1, <1>2
  <2> QED
    BY <1>1, <2>1, BeforeReset
<1>4. PICK b \in bs[r] : o[m].winner = BoardWinner(b)
  <2>1. o[m].a # o[m].b
    BY SoundBoards, Opponents
  <2> QED
    BY <1>2, <1>3, <2>1, BoardOfMatch
<1> QED
  BY <1>2, <1>4

-----------------------------------------------------------------------------
(* The tournament never hangs.                                             *)

\* Every round has a match somebody comes to: the final and its reset, a match of
\* two in the first round, one of the losers' bracket in the others.
LEMMA SomebodyPlays ==
  ASSUME Setting, NEW bs, NEW o, Sound(bs, o), NEW r \in 1..Rounds
  PROVE  \E m \in Matches(K, reset) : AppRound(K, m) = r /\ ~o[m].empty
<1>1. PICK k \in Nat \ {0} : /\ k = K /\ reset \in BOOLEAN
                             /\ Rounds = IF reset THEN 2 * k + 1 ELSE 2 * k
  BY SettingOf DEF Setting
<1>2. CASE r = 1
  <2>1. PICK i \in SlotsW(1) : ~o[W(1, i)].lacks_loser
    BY <1>1, OnePlayed
  <2>2. 1 \in 1..K
    BY <1>1
  <2>3. W(1, i) \in Matches(K, reset) /\ ~o[W(1, i)].empty
    BY <2>2, IsMatchOfW, WinnersCome
  <2>4. AppRound(K, W(1, i)) = 1
    BY <1>1, RoundsOfMatches
  <2> QED
    BY <1>2, <2>3, <2>4
<1>3. CASE r \in 2..2 * k - 1
  <2>1. PICK j \in 1..2 * (k - 1) : j = r - 1 /\ j + 1 = r /\ k >= 2
    BY <1>3
  <2>2. PICK i \in SlotsL(j) : ~o[L(j, i)].empty
    <3>1. CASE j = 1
      BY <1>1, <2>1, <3>1, LosersCome
    <3>2. CASE j # 1
      <4>1. j \in 2..2 * (K - 1)
        BY <1>1, <2>1, <3>2
      <4>2. PICK n \in Nat : n = Pow2[K - 1 - (j + 1) \div 2] /\ n >= 1
        <5>1. k - 1 - (j + 1) \div 2 \in Nat
          BY <2>1
        <5> QED
          BY <1>1, <5>1, Pow2Step
      <4>3. 0 \in SlotsL(j)
        BY <4>2 DEF SlotsL
      <4> QED
        BY <1>1, <2>1, <4>1, <4>3, LosersCome
    <3> QED
      BY <3>1, <3>2
  <2>3. L(j, i) \in Matches(K, reset)
    BY <1>1, IsMatchOfL
  <2>4. AppRound(K, L(j, i)) = r
    BY <1>1, <2>1, RoundsOfMatches
  <2> QED
    BY <2>2, <2>3, <2>4
<1>4. CASE r = 2 * k
  BY <1>1, <1>4, FinalMatches, FinalistsCome
<1>5. CASE reset /\ r = 2 * k + 1
  <2>1. GFR \in Matches(K, reset) /\ AppRound(K, GFR) = 2 * K + 1
    BY <1>1, <1>5, MatchesKinds, RoundsOfMatches, Zenon
  <2> QED
    BY <1>1, <1>5, <2>1, FinalistsCome, Zenon
<1> QED
  BY <1>1, <1>2, <1>3, <1>4, <1>5

\* When every board has a winner, the tournament is finished or its next round
\* can be drawn, whatever byes the field makes: a match that lacks a player is a
\* walkover, and one that lacks both is skipped (DoubleEliminationMixin).  It is
\* said until a request out of date has written.
THEOREM NeverHangs == Spec => []NeverStuck
<1>1. BracketInv => NeverStuck
  <2> SUFFICES ASSUME BracketInv, \A r \in 1..LastPaired : \A b \in boards[r] : BoardWinner(b) # Nobody
               PROVE  Finished(boards, Resolved(boards)) \/ Drawn(boards) # boards
    BY DEF NeverStuck
  <2>1. PICK bs, o : bs = boards /\ o = Resolved(bs) /\ o = Resolved(boards) /\ Sound(bs, o) /\ Setting
    BY SoundBoards
  <2>2. PICK last : DrawnUpTo(last) /\ LastPaired = last /\ LastPairedOf(boards) = last
    BY <2>1, LastPairedIs DEF BracketInv
  <2>3. PICK k \in Nat \ {0} : /\ k = K /\ reset \in BOOLEAN
                               /\ Rounds = IF reset THEN 2 * k + 1 ELSE 2 * k
    BY <2>1, SettingOf DEF Setting
  <2>4. last \in 0..Rounds /\ \A r \in 1..Rounds : bs[r] # {} <=> r <= last
    BY <2>1, <2>2 DEF DrawnUpTo
  <2>5. \A r \in 1..last : RoundFinished(bs, r)
    <3>1. \A b : BoardWinner(b) # Nobody /\ Contested(b) => b.result # "none"
      BY DEF BoardWinner
    <3> QED
      BY <2>1, <2>2, <3>1 DEF RoundFinished
  <2>6. CASE last = Rounds
    <3>1. Rounds \in 1..last
      BY <2>3, <2>6
    <3>2. RoundFinished(bs, Rounds)
      BY <2>5, <3>1
    <3> QED
      BY <2>1, <2>2, <2>6, <3>2 DEF Finished
  <2>7. CASE last < Rounds /\ ~Over(o)
    <3>1. PICK next \in 1..Rounds : next = last + 1 /\ last \in Nat /\ last <= 2 * k
      BY <2>3, <2>4, <2>7
    <3>2. Settled(o, last)
      <4>1. \A r \in 1..last : bs[r] # {} /\ \A b \in bs[r] : BoardWinner(b) # Nobody
        BY <2>1, <2>2, <2>3, <2>4
      <4> QED
        BY <2>1, <2>3, <2>4, <3>1, <4>1, WonBoardsSettle
    <3>3. reset /\ next = Rounds => ResetNeeded(o)
      <4> SUFFICES ASSUME reset, next = Rounds PROVE ResetNeeded(o)
        OBVIOUS
      <4>1. last = 2 * k
        BY <2>3, <3>1
      <4>2. GF \in Matches(K, reset) /\ AppRound(K, GF) <= last
        <5>1. GF \in Matches(K, reset) /\ AppRound(K, GF) = 2 * K
          BY <2>1, FinalMatches, Zenon
        <5>2. 2 * K <= last
          BY <2>3, <3>1, <4>1
        <5> QED
          BY <5>1, <5>2, Zenon
      <4>3. o[GF].a # Nobody /\ o[GF].b # Nobody
        <5>1. ~o[GF].lacks_loser
          BY <2>1, <4>2, FinalistsCome, Zenon
        <5>2. AppRound(K, GF) <= last + 1
          BY <2>1, <2>3, <4>1, FinalMatches
        <5> QED
          BY <2>1, <3>1, <3>2, <4>2, <5>1, <5>2, SettledNext, Zenon
      <4>4. o[GF].winner # Nobody
        BY <3>2, <4>2, <4>3, Zenon DEF Settled
      <4> QED
        BY <2>7, <4>4 DEF Over
    <3>4. Gate(bs, o, next)
      <4>1. ASSUME NEW r \in 1..next - 1
            PROVE  /\ RoundFinished(bs, r)
                   /\ \A m \in DOMAIN MatchesForRound(r) :
                        o[m].a # Nobody /\ o[m].b # Nobody => o[m].winner # Nobody
        <5>1. r \in 1..last /\ r \in 1..Rounds
          BY <2>3, <3>1
        <5>2. \A m \in DOMAIN MatchesForRound(r) : m \in Matches(K, reset) /\ AppRound(K, m) <= last
          <6>1. \A m \in DOMAIN MatchesForRound(r) : m \in Matches(K, reset) /\ AppRound(K, m) = r
            BY <2>1, <5>1, RoundOfMatch, Zenon
          <6>2. r <= last
            BY <5>1, <3>1
          <6> QED
            BY <6>1, <6>2
        <5> QED
          BY <2>5, <3>2, <5>1, <5>2 DEF Settled
      <4> QED
        BY <3>3, <4>1 DEF Gate
    <3>5. Pairs(o, next) # {}
      <4>1. PICK m \in Matches(K, reset) : AppRound(K, m) = next /\ ~o[m].empty
        BY <2>1, SomebodyPlays
      <4>2. At(o, m) # {}
        <5>1. AppRound(K, m) <= last + 1
          BY <3>1, <4>1
        <5> QED
          BY <2>1, <3>1, <3>2, <4>1, <5>1, SettledNext
      <4>3. m = GFR => ResetNeeded(o)
        <5> SUFFICES ASSUME m = GFR PROVE ResetNeeded(o)
          OBVIOUS
        <5>1. AppRound(k, GFR) = 2 * k + 1
          BY RoundsOfMatches
        <5>2. reset /\ next = Rounds
          BY <2>3, <3>1, <4>1, <5>1
        <5> QED
          BY <3>3, <5>2
      <4>4. m \in DOMAIN MatchesForRound(next)
        BY <2>1, <4>1, RoundOfMatch, Zenon
      <4>5. {o[m].a, o[m].b} # {Nobody}
        BY <4>2 DEF At
      <4> QED
        BY <4>3, <4>4, <4>5 DEF Pairs, Played
    <3>6. Drawable(boards)
      BY <2>1, <2>2, <2>3, <3>1, <3>4, <3>5 DEF Drawable
    <3>7. boards[next] = {}
      BY <2>1, <2>4, <3>1
    <3>8. ~SeatedTwice(o, next, boards[next])
      BY <2>1, <3>7, NeverTwice
    <3>9. PICK fresh : fresh = {NewBoard(Pair(o, m), Table(m)) : m \in Played(o, next)}
      OBVIOUS
    <3>10. fresh # {}
      BY <3>5, <3>9 DEF Pairs
    <3>11. Drawn(boards) = [boards EXCEPT ![next] = boards[next] \cup fresh]
      BY <2>1, <2>2, <3>1, <3>6, <3>8, <3>9 DEF Drawn
    <3>12. next \in DOMAIN boards
      BY DEF BracketInv, TypeOK
    <3>13. Drawn(boards)[next] # boards[next]
      BY <3>7, <3>10, <3>11, <3>12
    <3> QED
      BY <3>13
  <2>8. CASE Over(o)
    BY <2>1, <2>8 DEF Finished
  <2>9. last = Rounds \/ last < Rounds
    BY <2>3, <2>4
  <2> QED
    BY <2>6, <2>7, <2>8, <2>9
<1>2. outdated => NeverStuck
  BY DEF NeverStuck
<1> QED
  BY <1>1, <1>2, BracketInvariant, PTL

-----------------------------------------------------------------------------
(* The rounds before the last one drawn are settled.                       *)

GateInv == \E last : DrawnUpTo(last) /\ Settled(Resolved(boards), last - 1)

LEMMA GateSettles ==
  ASSUME Setting, NEW bs, NEW o, NEW at \in 1..Rounds, Gate(bs, o, at)
  PROVE  Settled(o, at - 1)
<1> SUFFICES ASSUME NEW m \in Matches(K, reset), AppRound(K, m) <= at - 1,
                    o[m].a # Nobody, o[m].b # Nobody
             PROVE  o[m].winner # Nobody
  BY DEF Settled
<1>1. PICK r \in 1..at - 1 : r = AppRound(K, m) /\ r \in 1..Rounds
  <2>1. AppRound(K, m) \in 1..Rounds
    BY SettingOf, RoundsRange DEF Setting
  <2> QED
    BY <2>1, SettingOf
<1>2. m \in DOMAIN MatchesForRound(r)
  BY <1>1, RoundOfMatch, Zenon
<1> QED
  BY <1>1, <1>2 DEF Gate

\* What is settled only depends on the boards of the rounds before.
LEMMA SettledStands ==
  ASSUME Setting, NEW bs, NEW cs, NEW q \in Nat, \A r \in 1..q : bs[r] = cs[r],
         NEW o, Worked(bs, o), NEW p, Worked(cs, p)
  PROVE  \A h \in Int : h <= q /\ Settled(o, h) => Settled(p, h)
<1>0. \A x \in Matches(K, reset) : AppRound(K, x) <= q => o[x] = p[x]
  BY OutcomesStand
<1> SUFFICES ASSUME NEW h \in Int, h <= q, Settled(o, h),
                    NEW m \in Matches(K, reset), AppRound(K, m) <= h,
                    p[m].a # Nobody, p[m].b # Nobody
             PROVE  p[m].winner # Nobody
  BY DEF Settled
<1>1. AppRound(K, m) <= q
  <2>1. PICK v \in Nat : v = AppRound(K, m)
    BY KindOf
  <2> QED
    BY <2>1
<1>2. o[m] = p[m]
  BY <1>0, <1>1
<1> QED
  BY <1>2 DEF Settled

LEMMA SettledStays ==
  ASSUME UNCHANGED <<field, reset>>, NEW o, NEW q, Settled(o, q)
  PROVE  Settled(o, q)'
<1>1. K' = K
  BY DEF K
<1>2. PICK M, k : M = Matches(K, reset) /\ M = Matches(K, reset)' /\ k = K /\ k = K'
  BY <1>1
<1>3. \A m \in M : AppRound(k, m) <= q /\ o[m].a # Nobody /\ o[m].b # Nobody => o[m].winner # Nobody
  BY <1>2 DEF Settled
<1> QED
  BY <1>2, <1>3 DEF Settled

LEMMA ChangeKeepsGate ==
  ASSUME BracketInv, GateInv, NEW at, NEW new, ChangesThroughGate(at, new)
  PROVE  GateInv'
<1>0. /\ ChangesRound(at, new)
      /\ boards[at] = {} /\ new # {} => Gate(boards, Resolved(boards), at)
  BY DEF ChangesThroughGate
<1>1. PICK cs : cs = boards'
  OBVIOUS
<1>2. /\ Setting /\ Typed(boards) /\ Typed(cs) /\ Resolved(boards)' = Resolved(cs)
      /\ Worked(boards, Resolved(boards)) /\ Worked(cs, Resolved(cs))
      /\ \A r \in 1..Rounds : cs[r] = IF r = at THEN new ELSE boards[r]
  BY <1>0, <1>1, ChangeStands
<1>3. Rounds' = Rounds /\ Rounds \in Nat /\ UNCHANGED <<field, reset>> /\ at \in 1..Rounds
  BY <1>0, <1>2, SettingOf DEF ChangesRound, Rounds
<1>4. PICK last : last = IF new = {} THEN at - 1 ELSE at
  OBVIOUS
<1>5. DrawnUpTo(last)'
  <2>1. last \in 0..Rounds
    BY <1>3, <1>4
  <2>2. \A r \in 1..Rounds : cs[r] # {} <=> r <= last
    BY <1>0, <1>2, <1>3, <1>4 DEF ChangesRound
  <2> QED
    BY <1>1, <1>3, <2>1, <2>2 DEF DrawnUpTo
<1>6. PICK bs, o, p : bs = boards /\ o = Resolved(boards) /\ p = Resolved(cs) /\ p = Resolved(boards)'
  BY <1>2
<1>7. PICK before : DrawnUpTo(before) /\ Settled(o, before - 1)
  BY <1>6 DEF GateInv
<1>8. before \in Int /\ last \in Int /\ before = IF boards[at] = {} THEN at - 1 ELSE at
  <2>1. before \in 0..Rounds /\ \A r \in 1..Rounds : boards[r] # {} <=> r <= before
    BY <1>7 DEF DrawnUpTo
  <2>2. \A r \in 1..Rounds : IF r < at THEN boards[r] # {} ELSE r > at => boards[r] = {}
    BY <1>0 DEF ChangesRound
  <2>3. CASE boards[at] = {}
    <3>1. before < at
      BY <1>3, <2>1, <2>3
    <3>2. before >= at - 1
      <4>1. CASE at = 1
        BY <2>1, <4>1
      <4>2. CASE at # 1
        <5>1. at - 1 \in 1..Rounds /\ at - 1 < at
          BY <1>3, <4>2
        <5> QED
          BY <1>3, <2>1, <2>2, <5>1
      <4> QED
        BY <4>1, <4>2
    <3> QED
      BY <1>3, <1>4, <2>1, <2>3, <3>1, <3>2
  <2>4. CASE boards[at] # {}
    <3>1. before >= at
      BY <1>3, <2>1, <2>4
    <3>2. ~(before > at)
      <4> SUFFICES ASSUME before > at PROVE FALSE
        OBVIOUS
      <4>1. before \in 1..Rounds /\ before <= before
        BY <1>3, <2>1
      <4> QED
        BY <1>3, <2>1, <2>2, <4>1
    <3> QED
      BY <1>3, <1>4, <2>1, <2>4, <3>1, <3>2
  <2> QED
    BY <2>3, <2>4
<1>9. Settled(o, last - 1)
  <2>1. CASE boards[at] = {} /\ new # {}
    <3>1. Gate(bs, o, at)
      BY <1>0, <1>6, <2>1
    <3> QED
      BY <1>2, <1>3, <1>4, <2>1, <3>1, GateSettles
  <2>2. CASE ~(boards[at] = {} /\ new # {})
    <3>1. last <= before
      BY <1>3, <1>4, <1>8, <2>2
    <3>2. \A m \in Matches(K, reset) : AppRound(K, m) <= last - 1 => AppRound(K, m) <= before - 1
      <4> SUFFICES ASSUME NEW m \in Matches(K, reset), AppRound(K, m) <= last - 1
                   PROVE  AppRound(K, m) <= before - 1
        OBVIOUS
      <4>1. PICK v \in Nat : v = AppRound(K, m)
        BY <1>2, KindOf
      <4> QED
        BY <1>8, <3>1, <4>1
    <3> QED
      BY <1>7, <3>2 DEF Settled
  <2> QED
    BY <2>1, <2>2
<1>10. Settled(p, last - 1)
  <2>1. PICK q \in Nat : q = at - 1
    BY <1>3
  <2>2. \A x \in 1..q : bs[x] = cs[x]
    BY <1>2, <1>3, <1>6, <2>1
  <2>3. PICK h \in Int : h = last - 1 /\ h <= q
    BY <1>3, <1>4, <2>1
  <2>4. Worked(bs, o) /\ Worked(cs, p) /\ Settled(o, h)
    BY <1>2, <1>6, <1>9, <2>3
  <2>5. \A x \in Int : x <= q /\ Settled(o, x) => Settled(p, x)
    BY <1>2, <2>2, <2>4, SettledStands, Zenon
  <2> QED
    BY <2>3, <2>4, <2>5
<1>11. Settled(Resolved(boards), last - 1)'
  <2>1. PICK h : h = last - 1
    OBVIOUS
  <2>2. Settled(p, h)'
    BY <1>3, <1>10, <2>1, SettledStays
  <2>3. Settled(Resolved(boards), h)' = Settled(p, h)'
    BY <1>6
  <2> QED
    BY <2>1, <2>2, <2>3
<1> QED
  BY <1>5, <1>11 DEF GateInv

LEMMA SameKeepsGate ==
  ASSUME BracketInv, GateInv, UNCHANGED <<field, reset, boards>>
  PROVE  GateInv'
<1>1. PICK cs : cs = boards
  OBVIOUS
<1>2. Setting /\ Typed(cs) /\ Rounds' = Rounds
  BY <1>1, SettingHolds DEF BracketInv, Rounds
<1>3. PICK p : p = Resolved(cs) /\ p = Resolved(boards) /\ p = Resolved(boards)'
  <2>1. Resolved(cs)' = Resolved(cs)
    BY <1>2, ResolvedStays
  <2>2. Resolved(boards)' = Resolved(cs)' /\ Resolved(boards) = Resolved(cs)
    BY <1>1
  <2> QED
    BY <2>1, <2>2
<1>4. PICK last : DrawnUpTo(last) /\ Settled(p, last - 1)
  BY <1>3 DEF GateInv
<1>5. DrawnUpTo(last)'
  BY <1>2, <1>4 DEF DrawnUpTo
<1>6. Settled(Resolved(boards), last - 1)'
  <2>1. PICK h : h = last - 1
    OBVIOUS
  <2>2. Settled(p, h)'
    BY <1>4, <2>1, SettledStays
  <2>3. Settled(Resolved(boards), h)' = Settled(p, h)'
    BY <1>3
  <2> QED
    BY <2>1, <2>2, <2>3
<1> QED
  BY <1>5, <1>6 DEF GateInv

LEMMA InitGate ==
  ASSUME BracketInv, Init
  PROVE  GateInv
<1>1. Setting /\ Rounds \in Nat /\ Rounds >= 2 /\ \A r \in 1..Rounds : boards[r] = {}
  BY SettingHolds, SettingOf DEF BracketInv, Init
<1>2. DrawnUpTo(0)
  BY <1>1 DEF DrawnUpTo
<1>3. Settled(Resolved(boards), 0 - 1)
  <2>1. \A m \in Matches(K, reset) : AppRound(K, m) \in Nat
    BY <1>1, KindOf
  <2>2. \A m \in Matches(K, reset) : ~(AppRound(K, m) <= 0 - 1)
    BY <2>1
  <2> QED
    BY <2>2 DEF Settled
<1> QED
  BY <1>2, <1>3 DEF GateInv

\* The inductive invariant: as long as no request out of date has written, the
\* rounds before the last one drawn are settled.
LEMMA SettledInvariant == Spec => [](outdated \/ (BracketInv /\ GateInv))
<1>1. Init => BracketInv /\ GateInv
  BY InitBracket, InitGate
<1>2. ASSUME SeatedInv, outdated \/ (BracketInv /\ GateInv), [Next]_vars
      PROVE  (outdated \/ (BracketInv /\ GateInv))'
  <2> SUFFICES ASSUME ~outdated' PROVE BracketInv' /\ GateInv'
    OBVIOUS
  <2>1. BracketInv /\ BracketInv' /\ GateInv
    BY <1>2, BracketStep, OutdatedStays DEF SeatedInv
  <2>2. CASE UNCHANGED <<field, reset, boards>>
    BY <2>1, <2>2, SameKeepsGate
  <2>3. CASE \E at, new : ChangesThroughGate(at, new)
    BY <2>1, <2>3, ChangeKeepsGate
  <2> QED
    BY <1>2, <2>1, <2>2, <2>3, StepChanges
<1> QED
  BY <1>1, <1>2, SeatedInvariant, PTL DEF Spec

LockedSettled ==
  LET o == Resolved(boards) IN
  ~outdated =>
    \A m \in Matches(K, reset) :
      AppRound(K, m) < LastPaired /\ o[m].a # Nobody /\ o[m].b # Nobody => o[m].winner # Nobody

\* Until a request out of date has written, every match of two of the rounds
\* before the last one drawn has a winner, and keeps one: those rounds are locked
\* (previous_rounds_are_locked), so that neither a result cleared in the last one
\* nor its unpairing opens them again.
THEOREM LockedRoundsSettled == Spec => []LockedSettled
<1>1. BracketInv /\ GateInv => LockedSettled
  <2> SUFFICES ASSUME BracketInv, GateInv, NEW m \in Matches(K, reset), AppRound(K, m) < LastPaired,
                      Resolved(boards)[m].a # Nobody, Resolved(boards)[m].b # Nobody
               PROVE  Resolved(boards)[m].winner # Nobody
    BY DEF LockedSettled
  <2>1. PICK last : DrawnUpTo(last) /\ Settled(Resolved(boards), last - 1)
    BY DEF GateInv
  <2>2. PICK bs : bs = boards /\ Resolved(bs) = Resolved(boards) /\ Setting
    BY SoundBoards
  <2>3. LastPaired = last /\ last \in 0..Rounds
    BY <2>1, <2>2, LastPairedIs DEF DrawnUpTo
  <2>4. AppRound(K, m) <= last - 1
    <3>1. AppRound(K, m) \in Nat /\ last \in Int
      BY <2>2, <2>3, KindOf, SettingOf
    <3> QED
      BY <2>3, <3>1
  <2> QED
    BY <2>1, <2>4 DEF Settled
<1>2. outdated => LockedSettled
  BY DEF LockedSettled
<1> QED
  BY <1>1, <1>2, SettledInvariant, PTL

-----------------------------------------------------------------------------
(* Where a player goes: round after round, to the grand final or out.      *)

\* Who sits at a match that is settled wins it or loses it.
LEMMA Plays ==
  ASSUME Setting, NEW bs, NEW o, Sound(bs, o), NEW q \in Nat, Settled(o, q),
         NEW m \in Matches(K, reset), AppRound(K, m) <= q, NEW p \in At(o, m)
  PROVE  o[m].winner = p \/ o[m].loser = p
<1>1. PICK pair, s, t : pair = Sources(K, m) /\ s = pair[1] /\ t = pair[2]
  OBVIOUS
<1>2. Earlier(K, reset, m, s) /\ Earlier(K, reset, m, t)
  BY <1>1, SettingOf, SourcesEarlier DEF BothEarlier, Setting
<1>3. (FromMatch(s) => NobodyThere(o, s.of)) /\ (FromMatch(t) => NobodyThere(o, t.of))
  BY <1>2, AbsentAreNobody DEF Earlier, FromMatch, Sound
<1>4. PICK x : x = o[m] /\ x = Outcome(bs, AppRound(K, m), o, pair)
  BY <1>1 DEF Sound, Worked
<1>5. PICK sa, ta : sa = Absent(o, s) /\ ta = Absent(o, t)
  OBVIOUS
<1>6. (sa => Resolve(o, s) = Nobody) /\ (ta => Resolve(o, t) = Nobody)
  BY <1>2, <1>3, <1>5, AbsentIsNobody
<1>7. /\ sa => x.a = Nobody /\ x.winner = x.b
      /\ ta => x.b = Nobody /\ (~sa => x.winner = x.a)
      /\ x.loser = IF x.a = Nobody \/ x.b = Nobody \/ x.winner = Nobody THEN Nobody
                   ELSE IF x.winner = x.b THEN x.a ELSE x.b
      /\ x.lacks_loser = (sa \/ ta)
  BY <1>1, <1>4, <1>5, <1>6, OutcomeParts
<1>8. p # Nobody /\ (p = x.a \/ p = x.b)
  BY <1>4 DEF At
<1>9. CASE sa \/ ta
  BY <1>4, <1>7, <1>8, <1>9
<1>10. CASE ~sa /\ ~ta
  <2>1. x.loser # Nobody
    BY <1>4, <1>7, <1>10, SettledFull, Zenon DEF Full
  <2>2. x.winner \in {x.a, x.b, Nobody}
    BY <1>4, Decides, Zenon
  <2> QED
    BY <1>4, <1>7, <1>8, <2>1, <2>2
<1> QED
  BY <1>9, <1>10

\* Everyone plays in the first round.
LEMMA EveryoneStarts ==
  ASSUME Setting, NEW bs, NEW o, Sound(bs, o), NEW p \in Players
  PROVE  \E i \in SlotsW(1) : p \in At(o, W(1, i))
<1>1. PICK h \in Nat : h = K - 1 /\ K = h + 1
  BY SettingOf
<1>2. PICK n \in Nat : n = Pow2[h] /\ field \in Nat /\ field <= 2 * n /\ p \in 1..field
  BY <1>1, Pow2Step, SettingOf DEF Players
<1>3. PICK s \in 1..n : s = p \/ s = 2 * n + 1 - p
  <2>1. CASE p <= n
    BY <1>2, <2>1
  <2>2. CASE p > n
    <3>1. 2 * n + 1 - p \in 1..n
      BY <1>2, <2>2
    <3> QED
      BY <3>1
  <2> QED
    BY <1>2, <2>1, <2>2
<1>4. PICK x \in 1..n : SeedOrder[h][x] = s
  BY <1>2, SeedOrderOnto
<1>5. PICK i : i = x - 1 /\ i \in 0..n - 1 /\ i + 1 = x
  BY <1>2
<1>6. SeedOrder[K][2 * i + 1] = s
  BY <1>1, <1>2, <1>4, <1>5, SeedsOfPair
<1>7. i \in SlotsW(1) /\ i \in 0..Pow2[K - 1] - 1
  BY <1>1, <1>2, <1>5 DEF SlotsW
<1>8. s \in At(o, W(1, i)) /\ (2 * n + 1 - s <= field => 2 * n + 1 - s \in At(o, W(1, i)))
  <2>1. n = Pow2[K - 1]
    BY <1>1, <1>2
  <2>2. /\ s \in At(o, W(1, i))
        /\ 2 * Pow2[K - 1] + 1 - s <= field => 2 * Pow2[K - 1] + 1 - s \in At(o, W(1, i))
    BY <1>6, <1>7, FirstRoundSeeds
  <2> QED
    BY <2>1, <2>2
<1>9. s = p \/ (p = 2 * n + 1 - s /\ 2 * n + 1 - s <= field)
  <2>1. p \in Int /\ s \in Int /\ p <= field
    BY <1>2
  <2> QED
    BY <1>2, <1>3, <2>1
<1>10. p \in At(o, W(1, i))
  BY <1>8, <1>9
<1> QED
  BY <1>7, <1>10

\* Who wins a round of the winners' bracket plays the next one.
LEMMA WinnersGoOn ==
  ASSUME Setting, NEW bs, NEW o, Sound(bs, o), NEW r \in 1..K, r # K, NEW i \in SlotsW(r),
         NEW p, p # Nobody, o[W(r, i)].winner = p
  PROVE  \E x \in SlotsW(r + 1) : p \in At(o, W(r + 1, x))
<1>1. PICK k \in Nat : k = K /\ r + 1 \in 2..K /\ (r + 1) - 1 = r
  BY SettingOf
<1>2. PICK n \in Nat : n = Pow2[K - (r + 1)] /\ Pow2[K - r] = 2 * n
  <2>1. K - (r + 1) \in Nat /\ (K - (r + 1)) + 1 = K - r
    BY <1>1
  <2> QED
    BY <2>1, Pow2Step
<1>3. PICK x : x = i \div 2 /\ x \in SlotsW(r + 1) /\ (i = 2 * x \/ i = 2 * x + 1)
  <2>1. i \in 0..2 * n - 1
    BY <1>2 DEF SlotsW
  <2>2. i \div 2 \in 0..n - 1 /\ (i = 2 * (i \div 2) \/ i = 2 * (i \div 2) + 1)
    BY <1>2, <2>1
  <2> QED
    BY <1>2, <2>2 DEF SlotsW
<1>4. /\ o[W(r + 1, x)].a = o[W(r, 2 * x)].winner
      /\ o[W(r + 1, x)].b = o[W(r, 2 * x + 1)].winner
  <2>1. PICK s \in 2..K : s = r + 1 /\ s - 1 = r
    BY <1>1
  <2>2. x \in SlotsW(s)
    BY <1>3, <2>1
  <2>3. /\ o[W(s, x)].a = o[W(s - 1, 2 * x)].winner
        /\ o[W(s, x)].b = o[W(s - 1, 2 * x + 1)].winner
    BY <2>2, FromWinners
  <2> QED
    BY <2>1, <2>3
<1> QED
  BY <1>3, <1>4 DEF At

\* Who loses there comes to the losers' bracket.
LEMMA LosersDrop ==
  ASSUME Setting, K >= 2, NEW bs, NEW o, Sound(bs, o), NEW r \in 1..K, NEW i \in SlotsW(r),
         NEW p, p # Nobody, o[W(r, i)].loser = p
  PROVE  \E j \in 1..2 * (K - 1) : \E x \in SlotsL(j) : p \in At(o, L(j, x))
<1>1. PICK k \in Nat : k = K /\ k >= 2 /\ 1 \in 1..2 * (K - 1)
  BY SettingOf
<1>2. CASE r = 1
  <2>1. PICK n \in Nat : n = Pow2[K - 2] /\ Pow2[K - 1] = 2 * n
    <3>1. K - 2 \in Nat /\ (K - 2) + 1 = K - 1
      BY <1>1
    <3> QED
      BY <3>1, Pow2Step
  <2>2. SlotsL(1) = 0..n - 1 /\ SlotsW(1) = 0..2 * n - 1
    <3>1. K - 1 - (1 + 1) \div 2 = K - 2
      BY <1>1
    <3> QED
      BY <2>1, <3>1 DEF SlotsL, SlotsW
  <2>3. PICK x : x = i \div 2 /\ x \in SlotsL(1) /\ (i = 2 * x \/ i = 2 * x + 1)
    <3>1. i \in 0..2 * n - 1
      BY <1>2, <2>2
    <3>2. i \div 2 \in 0..n - 1 /\ (i = 2 * (i \div 2) \/ i = 2 * (i \div 2) + 1)
      BY <3>1
    <3> QED
      BY <2>2, <3>2
  <2>4. o[L(1, x)].a = o[W(1, 2 * x)].loser /\ o[L(1, x)].b = o[W(1, 2 * x + 1)].loser
    BY <2>3, FromDropouts
  <2>5. p \in At(o, L(1, x))
    BY <1>2, <2>3, <2>4 DEF At
  <2> QED
    BY <1>1, <2>3, <2>5
<1>3. CASE r # 1
  <2>1. PICK j \in 2..2 * (K - 1) : /\ j = 2 * (r - 1) /\ j % 2 = 0 /\ j \div 2 + 1 = r
                                    /\ j \in 1..2 * (K - 1)
                                    /\ K - 1 - (j + 1) \div 2 = K - r
    BY <1>1, <1>3
  <2>2. PICK n \in Nat : n = Pow2[K - r]
    <3>1. K - r \in Nat
      BY <1>1
    <3> QED
      BY <3>1, Pow2Step
  <2>3. i \in 0..n - 1 /\ SlotsL(j) = 0..n - 1
    BY <2>1, <2>2 DEF SlotsL, SlotsW
  <2>4. PICK x : x \in SlotsL(j) /\ n - 1 - x = i
    <3>1. n - 1 - i \in 0..n - 1 /\ n - 1 - (n - 1 - i) = i
      BY <2>3
    <3> QED
      BY <2>3, <3>1, Zenon
  <2>5. Mirror(j, x) = i
    BY <2>1, <2>2, <2>4 DEF Mirror
  <2>6. o[L(j, x)].b = o[W(j \div 2 + 1, Mirror(j, x))].loser
    BY <2>1, <2>4, FromMajor
  <2>7. p \in At(o, L(j, x))
    BY <2>1, <2>5, <2>6 DEF At
  <2> QED
    BY <2>1, <2>4, <2>7
<1> QED
  BY <1>2, <1>3

\* Who wins a round of the losers' bracket plays the next one.
LEMMA LosersGoOn ==
  ASSUME Setting, K >= 2, NEW bs, NEW o, Sound(bs, o), NEW j \in 1..2 * (K - 1), j # 2 * (K - 1),
         NEW i \in SlotsL(j), NEW p, p # Nobody, o[L(j, i)].winner = p
  PROVE  \E x \in SlotsL(j + 1) : p \in At(o, L(j + 1, x))
<1>1. PICK k \in Nat : k = K /\ k >= 2
  BY SettingOf
<1>2. PICK h \in 2..2 * (K - 1) : h = j + 1 /\ h - 1 = j
  BY <1>1
<1>3. CASE j % 2 = 1
  <2>1. h % 2 = 0 /\ (h + 1) \div 2 = (j + 1) \div 2
    BY <1>1, <1>2, <1>3
  <2>2. i \in SlotsL(h)
    BY <2>1 DEF SlotsL
  <2>3. o[L(h, i)].a = o[L(h - 1, i)].winner
    BY <2>1, <2>2, FromMajor
  <2>4. p \in At(o, L(h, i))
    BY <1>2, <2>3 DEF At
  <2> QED
    BY <1>2, <2>2, <2>4
<1>4. CASE j % 2 = 0
  <2>1. /\ h % 2 = 1 /\ K - 1 - (h + 1) \div 2 \in Nat
        /\ (K - 1 - (h + 1) \div 2) + 1 = K - 1 - (j + 1) \div 2
    BY <1>1, <1>2, <1>4
  <2>2. PICK n \in Nat : SlotsL(h) = 0..n - 1 /\ SlotsL(j) = 0..2 * n - 1
    <3>1. PICK n \in Nat : /\ n = Pow2[K - 1 - (h + 1) \div 2]
                           /\ Pow2[K - 1 - (j + 1) \div 2] = 2 * n
      BY <2>1, Pow2Step
    <3> QED
      BY <3>1 DEF SlotsL
  <2>3. PICK x : x = i \div 2 /\ x \in SlotsL(h) /\ (i = 2 * x \/ i = 2 * x + 1)
    <3>1. i \in 0..2 * n - 1
      BY <2>2
    <3>2. i \div 2 \in 0..n - 1 /\ (i = 2 * (i \div 2) \/ i = 2 * (i \div 2) + 1)
      BY <3>1
    <3> QED
      BY <2>2, <3>2
  <2>4. /\ o[L(h, x)].a = o[L(h - 1, 2 * x)].winner
        /\ o[L(h, x)].b = o[L(h - 1, 2 * x + 1)].winner
    BY <2>1, <2>3, FromMinor
  <2>5. p \in At(o, L(h, x))
    BY <1>2, <2>3, <2>4 DEF At
  <2> QED
    BY <1>2, <2>3, <2>5
<1>5. j % 2 = 0 \/ j % 2 = 1
  BY <1>1
<1> QED
  BY <1>3, <1>4, <1>5

\* While the winners' bracket is played: a player is in it, or has been dropped.
LEMMA InWinners ==
  ASSUME Setting, NEW bs, NEW o, Sound(bs, o), NEW q \in Nat, Settled(o, q), 2 * K - 1 <= q,
         NEW p \in Players, \A r \in 1..K : \A i \in SlotsW(r) : o[W(r, i)].loser # p
  PROVE  o[W(K, 0)].winner = p
<1>1. PICK k \in Nat \ {0} : k = K /\ p # Nobody
  BY SettingOf DEF Players, Nobody
<1>2. ASSUME NEW r \in 1..k, NEW i \in SlotsW(r), p \in At(o, W(r, i))
      PROVE  o[W(r, i)].winner = p
  <2>1. W(r, i) \in Matches(K, reset) /\ r \in 1..K
    BY <1>1, IsMatchOfW
  <2>2. AppRound(K, W(r, i)) <= q
    <3>1. AppRound(k, W(r, i)) = IF r = 1 THEN 1 ELSE 2 * (r - 1)
      BY RoundsOfMatches, Zenon
    <3>2. AppRound(k, W(r, i)) <= 2 * k - 1 /\ AppRound(k, W(r, i)) \in Nat /\ 2 * k - 1 <= q
      BY <1>1, <3>1
    <3> QED
      BY <1>1, <3>2
  <2>3. o[W(r, i)].loser # p
    BY <2>1
  <2> QED
    BY <1>2, <2>1, <2>2, <2>3, Plays
<1> DEFINE P == {n \in Nat : \E i \in SlotsW(n + 1) : p \in At(o, W(n + 1, i))}
<1>3. 0 \in P
  BY EveryoneStarts
<1>4. ASSUME NEW n \in 0..(k - 1) - 1, n \in P PROVE n + 1 \in P
  <2>1. PICK r \in 1..k : r = n + 1 /\ r # k
    BY <1>1
  <2>2. PICK i \in SlotsW(r) : p \in At(o, W(r, i))
    BY <1>4, <2>1
  <2>3. o[W(r, i)].winner = p
    BY <1>2, <2>2
  <2>4. \E x \in SlotsW(r + 1) : p \in At(o, W(r + 1, x))
    BY <1>1, <2>1, <2>3, WinnersGoOn
  <2> QED
    BY <2>1, <2>4
<1> HIDE DEF P
<1>5. 0..(k - 1) \subseteq P
  BY <1>3, <1>4, InductionUpTo
<1>6. PICK i \in SlotsW(k) : p \in At(o, W(k, i))
  <2>1. k - 1 \in P /\ (k - 1) + 1 = k
    BY <1>1, <1>5
  <2> QED
    BY <2>1 DEF P
<1>7. i = 0
  <2>1. SlotsW(k) = {0}
    <3>1. K - k = 0
      BY <1>1
    <3> QED
      BY <3>1, Pow2Step DEF SlotsW
  <2> QED
    BY <2>1
<1> QED
  BY <1>1, <1>2, <1>6, <1>7

\* When every match up to the grand final is settled, a player is the champion
\* of a bracket, or has lost a match of the losers' bracket.
LEMMA EveryoneEnds ==
  ASSUME Setting, K >= 2, NEW bs, NEW o, Sound(bs, o), NEW q \in Nat, Settled(o, q), 2 * K - 1 <= q,
         NEW p \in Players,
         \A j \in 1..2 * (K - 1) : \A x \in SlotsL(j) : o[L(j, x)].loser # p
  PROVE  o[W(K, 0)].winner = p \/ o[L(2 * (K - 1), 0)].winner = p
<1>1. PICK k \in Nat \ {0} : k = K /\ k >= 2 /\ p # Nobody
  BY SettingOf DEF Players, Nobody
<1>2. PICK top \in Nat : top = 2 * (K - 1) /\ top = 2 * (k - 1) /\ top \in 1..top
  BY <1>1
<1>3. CASE \A r \in 1..K : \A i \in SlotsW(r) : o[W(r, i)].loser # p
  BY <1>3, InWinners
<1>4. CASE \E r \in 1..K : \E i \in SlotsW(r) : o[W(r, i)].loser = p
  <2>1. PICK from \in 1..top : \E x \in SlotsL(from) : p \in At(o, L(from, x))
    BY <1>1, <1>2, <1>4, LosersDrop
  <2>2. ASSUME NEW j \in 1..top, NEW x \in SlotsL(j), p \in At(o, L(j, x))
        PROVE  o[L(j, x)].winner = p
    <3>1. j \in 1..2 * (K - 1)
      BY <1>2
    <3>2. L(j, x) \in Matches(K, reset) /\ o[L(j, x)].loser # p
      BY <3>1, IsMatchOfL
    <3>3. AppRound(K, L(j, x)) <= q
      <4>1. AppRound(k, L(j, x)) = j + 1
        BY RoundsOfMatches
      <4>2. j + 1 <= 2 * k - 1 /\ 2 * k - 1 <= q
        BY <1>1, <1>2
      <4> QED
        BY <1>1, <4>1, <4>2
    <3> QED
      BY <2>2, <3>2, <3>3, Plays
  <2> DEFINE P == {n \in Nat : n >= from => \E x \in SlotsL(n) : p \in At(o, L(n, x))}
  <2>3. 0 \in P
    OBVIOUS
  <2>4. ASSUME NEW n \in 0..top - 1, n \in P PROVE n + 1 \in P
    <3>1. CASE n + 1 <= from
      BY <2>1, <3>1
    <3>2. CASE n + 1 > from
      <4>1. PICK j \in 1..top : j = n /\ j # top /\ j >= from
        BY <2>4, <3>2
      <4>2. PICK x \in SlotsL(j) : p \in At(o, L(j, x))
        BY <2>4, <4>1
      <4>3. o[L(j, x)].winner = p
        BY <2>2, <4>2
      <4>4. \E y \in SlotsL(j + 1) : p \in At(o, L(j + 1, y))
        BY <1>1, <1>2, <4>1, <4>3, LosersGoOn
      <4> QED
        BY <4>1, <4>4
    <3> QED
      BY <3>1, <3>2
  <2> HIDE DEF P
  <2>5. 0..top \subseteq P
    BY <2>3, <2>4, InductionUpTo
  <2>6. PICK x \in SlotsL(top) : p \in At(o, L(top, x))
    <3>1. top \in P /\ top >= from
      BY <2>5
    <3> QED
      BY <3>1 DEF P
  <2>7. x = 0
    <3>1. K - 1 - (top + 1) \div 2 = 0
      BY <1>1, <1>2
    <3>2. SlotsL(top) = {0}
      BY <3>1, Pow2Step DEF SlotsL
    <3> QED
      BY <3>2
  <2>8. o[L(top, 0)].winner = p
    BY <1>2, <2>2, <2>6, <2>7
  <2> QED
    BY <1>2, <2>8
<1> QED
  BY <1>3, <1>4

-----------------------------------------------------------------------------
(* The losses of a player: at the boards, and in the bracket.              *)

\* p loses at a board of the round.
LostAt(p, r) == \E b \in boards[r] : p \in Seats(b) /\ BoardWinner(b) \notin {Nobody, p}

\* Who loses a match loses at its board; the reset is played when it is needed.
LEMMA LostBoard ==
  ASSUME BracketInv, K >= 2, NEW bs, bs = boards, NEW o, o = Resolved(bs),
         NEW m \in Matches(K, reset), NEW p, p # Nobody, o[m].loser = p
  PROVE  /\ AppRound(K, m) \in 1..Rounds /\ LostAt(p, AppRound(K, m))
         /\ m = GFR => ResetNeeded(o)
<1>1. Setting /\ Sound(bs, o) /\ o = Resolved(boards)
  BY SoundBoards
<1>2. PICK r \in 1..Rounds : r = AppRound(K, m)
  BY <1>1, SettingOf, RoundsRange DEF Setting
<1>3. /\ p \in At(o, m) /\ o[m].a # Nobody /\ o[m].b # Nobody /\ o[m].winner # Nobody
      /\ o[m].winner # p
  BY <1>1, ResultSeats, Opponents
<1>4. PICK b \in bs[r] : Seats(b) = {o[m].a, o[m].b} /\ BoardWinner(b) = o[m].winner
  <2>1. o[m].winner = WinnerOfBoard(bs, r, o[m].a, o[m].b)
    BY <1>1, <1>2, <1>3, WonAtBoard
  <2> QED
    BY <1>1, <1>2, <1>3, <2>1, AtBoard
<1>5. LostAt(p, r)
  <2>1. p \in Seats(b)
    BY <1>3, <1>4 DEF At
  <2> QED
    BY <1>3, <1>4, <2>1 DEF LostAt
<1>6. ASSUME m = GFR PROVE ResetNeeded(o)
  <2>1. PICK n \in Matches(K, reset) : AppRound(K, n) = r /\ (n = GFR => ResetNeeded(o))
    BY <1>4, SeatedMatch
  <2>2. PICK k \in Nat \ {0} : k = K /\ AppRound(k, GFR) = 2 * k + 1
    BY <1>1, SettingOf, RoundsOfMatches
  <2>3. n = GFR
    <3>1. PICK v \in Nat : v = AppRound(K, n) /\ v = 2 * k + 1
      BY <1>1, <1>2, <1>6, <2>1, <2>2, KindOf
    <3>2. (WMatch(n) /\ v < 2 * k) \/ (LMatch(n) /\ v < 2 * k) \/ (n = GF /\ v = 2 * k) \/ n = GFR
      BY <1>1, <2>2, <3>1, KindOf, Zenon
    <3> QED
      BY <3>1, <3>2
  <2> QED
    BY <2>1, <2>3
<1> QED
  BY <1>2, <1>5, <1>6

\* Who sits at a board takes part.
LEMMA LostIsPlayer ==
  ASSUME BracketInv, NEW r \in 1..Rounds, NEW p, LostAt(p, r)
  PROVE  p \in Players /\ p # Nobody
<1>1. PICK b \in boards[r] : p \in Seats(b)
  BY DEF LostAt
<1>2. b \in Boards
  BY DEF BracketInv, GoodRound, GoodBoard
<1>3. p \in Players
  BY <1>1, <1>2 DEF Boards, Seats
<1> QED
  BY <1>1, <1>3 DEF Seats

\* The second loss of a player is the last one.
LEMMA LostTwice ==
  ASSUME BracketInv, K >= 2, NEW bs, bs = boards, NEW o, o = Resolved(bs), NEW p, p # Nobody,
         NEW m \in Matches(K, reset), NEW n \in Matches(K, reset),
         o[m].loser = p, o[n].loser = p, AppRound(K, m) < AppRound(K, n)
  PROVE  \A x \in Matches(K, reset) : o[x].loser = p => x \in {m, n}
<1>1. Setting /\ Sound(bs, o)
  BY SoundBoards
<1> SUFFICES ASSUME NEW x \in Matches(K, reset), o[x].loser = p PROVE x \in {m, n}
  OBVIOUS
<1>2. p \in At(o, m) /\ p \in At(o, n) /\ p \in At(o, x)
  BY <1>1, ResultSeats
<1>3. PICK u \in Nat, v \in Nat, w \in Nat :
        u = AppRound(K, m) /\ v = AppRound(K, n) /\ w = AppRound(K, x) /\ u < v
  BY <1>1, KindOf
<1>4. (n = GFR => ResetNeeded(o)) /\ (x = GFR => ResetNeeded(o))
  BY LostBoard
<1>5. CASE w = v
  BY <1>1, <1>2, <1>3, <1>5, OnceARound, Zenon
<1>6. CASE w < v
  <2>1. m \in LostBefore(o, p, n) /\ x \in LostBefore(o, p, n)
    BY <1>3, <1>6 DEF LostBefore
  <2> QED
    BY <1>1, <1>2, <1>4, <2>1, LossesApart
<1>7. CASE w > v
  <2>1. m \in LostBefore(o, p, x) /\ n \in LostBefore(o, p, x)
    BY <1>3, <1>7 DEF LostBefore
  <2>2. m = n
    BY <1>1, <1>2, <1>4, <2>1, LossesApart
  <2> QED
    BY <1>3, <2>2
<1> QED
  BY <1>3, <1>5, <1>6, <1>7

\* Two different rounds are two.
LEMMA TwoRounds ==
  ASSUME NEW u, NEW v, u # v
  PROVE  Cardinality({u, v}) = 2
<1>1. IsFiniteSet({u}) /\ Cardinality({u}) = 1 /\ v \notin {u}
  BY FS_Singleton
<1>2. Cardinality({u} \cup {v}) = 1 + 1
  BY <1>1, FS_AddElement
<1>3. {u} \cup {v} = {u, v}
  OBVIOUS
<1> QED
  BY <1>2, <1>3

\* How many games a player who lost twice had lost after a round.
LEMMA LossesCount ==
  ASSUME BracketInv, K >= 2, NEW bs, bs = boards, NEW o, o = Resolved(bs), NEW p, p # Nobody,
         NEW m \in Matches(K, reset), NEW n \in Matches(K, reset),
         o[m].loser = p, o[n].loser = p, AppRound(K, m) < AppRound(K, n)
  PROVE  /\ \A q \in 0..Rounds : AppRound(K, n) <= q => Losses(p, q) = 2
         /\ Losses(p, AppRound(K, n) - 1) = 1
<1>1. Setting /\ Sound(bs, o) /\ Rounds \in Nat
  BY SoundBoards, SettingOf
<1>2. PICK u \in 1..Rounds, v \in 1..Rounds : u = AppRound(K, m) /\ v = AppRound(K, n) /\ u < v
  BY LostBoard
<1>3. LostAt(p, u) /\ LostAt(p, v)
  BY <1>2, LostBoard
<1>4. ASSUME NEW r \in 1..Rounds, LostAt(p, r) PROVE r \in {u, v}
  <2>1. PICK b \in bs[r] : p \in Seats(b) /\ BoardWinner(b) \notin {Nobody, p}
    BY <1>4 DEF LostAt
  <2>2. PICK x \in Matches(K, reset) : AppRound(K, x) = r /\ o[x].loser = p
    BY <2>1, LostMatch
  <2>3. x \in {m, n}
    BY <2>2, LostTwice
  <2> QED
    BY <1>2, <2>2, <2>3
<1>5. \A q : Losses(p, q) = Cardinality({r \in 1..q : LostAt(p, r)})
  BY DEF Losses, LostAt
<1>6. ASSUME NEW q \in 0..Rounds, v <= q PROVE Losses(p, q) = 2
  <2>1. {r \in 1..q : LostAt(p, r)} = {u, v}
    <3>1. \A r \in 1..q : r \in 1..Rounds
      BY <1>1
    <3>2. u \in 1..q /\ v \in 1..q
      BY <1>1, <1>2, <1>6
    <3> QED
      BY <1>3, <1>4, <3>1, <3>2
  <2>2. Cardinality({u, v}) = 2
    <3>1. u # v
      BY <1>2
    <3> QED
      BY <3>1, TwoRounds, Zenon
  <2>3. Losses(p, q) = Cardinality({u, v})
    BY <1>5, <2>1
  <2> QED
    BY <2>2, <2>3
<1>7. Losses(p, v - 1) = 1
  <2>1. {r \in 1..v - 1 : LostAt(p, r)} = {u}
    <3>1. \A r \in 1..v - 1 : r \in 1..Rounds /\ r # v
      BY <1>1, <1>2
    <3>2. u \in 1..v - 1
      BY <1>1, <1>2
    <3> QED
      BY <1>3, <1>4, <3>1, <3>2
  <2>2. PICK h : h = v - 1
    OBVIOUS
  <2>3. Losses(p, h) = Cardinality({u})
    BY <1>5, <2>1, <2>2
  <2> QED
    BY <2>2, <2>3, FS_Singleton
<1> QED
  BY <1>2, <1>6, <1>7

\* Who loses two games loses two matches.
LEMMA CountedLosses ==
  ASSUME BracketInv, NEW bs, bs = boards, NEW o, o = Resolved(bs), NEW p,
         NEW q \in 0..Rounds, Losses(p, q) = 2
  PROVE  \E m, n \in Matches(K, reset) :
           o[m].loser = p /\ o[n].loser = p /\ AppRound(K, m) < AppRound(K, n)
<1>1. Setting /\ Rounds \in Nat
  BY SoundBoards, SettingOf
<1>2. Losses(p, q) = Cardinality({r \in 1..q : LostAt(p, r)})
  BY DEF Losses, LostAt
<1>3. PICK u \in 1..q, v \in 1..q : LostAt(p, u) /\ LostAt(p, v) /\ u # v
  <2> SUFFICES ASSUME \A u, v \in {r \in 1..q : LostAt(p, r)} : u = v PROVE FALSE
    OBVIOUS
  <2>1. Cardinality({r \in 1..q : LostAt(p, r)}) \in {0, 1}
    BY AtMostOne
  <2> QED
    BY <1>2, <2>1
<1>4. ASSUME NEW r \in 1..q, LostAt(p, r)
      PROVE  \E x \in Matches(K, reset) : AppRound(K, x) = r /\ o[x].loser = p
  <2>1. r \in 1..Rounds
    BY <1>1
  <2>2. PICK b \in bs[r] : p \in Seats(b) /\ BoardWinner(b) \notin {Nobody, p}
    BY <1>4 DEF LostAt
  <2> QED
    BY <2>1, <2>2, LostMatch
<1>5. PICK x, y : /\ x \in Matches(K, reset) /\ AppRound(K, x) = u /\ o[x].loser = p
                  /\ y \in Matches(K, reset) /\ AppRound(K, y) = v /\ o[y].loser = p
  <2>1. PICK x \in Matches(K, reset) : AppRound(K, x) = u /\ o[x].loser = p
    BY <1>3, <1>4
  <2>2. PICK y \in Matches(K, reset) : AppRound(K, y) = v /\ o[y].loser = p
    BY <1>3, <1>4
  <2> QED
    BY <2>1, <2>2
<1>6. u < v \/ v < u
  BY <1>1, <1>3
<1> QED
  BY <1>5, <1>6

-----------------------------------------------------------------------------
(* Whom the matches put out.                                               *)

\* The last game of the tournament.
FinalGame(o) == IF ResetNeeded(o) THEN GFR ELSE GF

\* A match whose loser is out.
PutsOut(o, m) == LMatch(m) \/ m = FinalGame(o)

LEMMA WBeforeFinal ==
  ASSUME Setting, NEW m, WMatch(m), NEW k, k = K
  PROVE  AppRound(K, m) < 2 * k
<1>1. PICK h \in Nat \ {0} : h = K
  BY SettingOf
<1>2. PICK r \in 1..K : \E i \in SlotsW(r) : m = W(r, i)
  BY DEF WMatch
<1>3. PICK i : m = W(r, i)
  BY <1>2
<1>4. AppRound(h, W(r, i)) = IF r = 1 THEN 1 ELSE 2 * (r - 1)
  BY RoundsOfMatches
<1>5. (IF r = 1 THEN 1 ELSE 2 * (r - 1)) < 2 * h
  BY <1>1
<1> QED
  BY <1>1, <1>3, <1>4, <1>5

\* Who plays in the losers' bracket was dropped from the other one before.
LEMMA DroppedFirst ==
  ASSUME Setting, K >= 2, NEW bs, NEW o, Sound(bs, o), NEW m \in Matches(K, reset), LMatch(m),
         NEW p \in At(o, m)
  PROVE  \E n \in Matches(K, reset) : WMatch(n) /\ o[n].loser = p /\ AppRound(K, n) < AppRound(K, m)
<1>1. PICK k \in Nat \ {0} : k = K
  BY SettingOf
<1>2. PICK j \in 1..2 * (K - 1) : \E i \in SlotsL(j) : m = L(j, i)
  BY DEF LMatch
<1>3. PICK i \in SlotsL(j) : m = L(j, i)
  BY <1>2
<1>4. DroppedBy(o, p, j)
  BY <1>3, LosersApart DEF LosersOnce
<1>5. PICK r \in 1..K : (r = 1 \/ 2 * (r - 1) <= j) /\ \E x \in SlotsW(r) : o[W(r, x)].loser = p
  BY <1>4 DEF DroppedBy
<1>6. PICK x \in SlotsW(r) : o[W(r, x)].loser = p
  BY <1>5
<1>7. W(r, x) \in Matches(K, reset) /\ WMatch(W(r, x))
  BY IsMatchOfW DEF WMatch
<1>8. AppRound(K, W(r, x)) < AppRound(K, m)
  <2>1. AppRound(k, W(r, x)) = IF r = 1 THEN 1 ELSE 2 * (r - 1)
    BY RoundsOfMatches, Zenon
  <2>2. AppRound(k, L(j, i)) = j + 1
    BY RoundsOfMatches, Zenon
  <2>3. (IF r = 1 THEN 1 ELSE 2 * (r - 1)) < j + 1
    BY <1>1, <1>5
  <2> QED
    BY <1>1, <1>3, <2>1, <2>2, <2>3
<1> QED
  BY <1>6, <1>7, <1>8

\* The champions of the two brackets play the grand final; the one of the
\* losers' bracket was dropped there, the other one has lost nothing.
LEMMA ChampionsLost ==
  ASSUME Setting, K >= 2, NEW bs, NEW o, Sound(bs, o),
         NEW w, w = o[W(K, 0)].winner, NEW l, l = o[L(2 * (K - 1), 0)].winner
  PROVE  /\ l # Nobody => \E n \in Matches(K, reset) : WMatch(n) /\ o[n].loser = l
         /\ w # Nobody => \A n \in Matches(K, reset) : WMatch(n) \/ LMatch(n) => o[n].loser # w
         /\ \A m \in Matches(K, reset) : m \in {GF, GFR} => o[m].a = w /\ o[m].b = l
         /\ w # Nobody => w # l
         /\ ResetNeeded(o) <=> o[GF].winner # Nobody /\ o[GF].winner = l
<1>1. PICK top : top = 2 * (K - 1) /\ top \in 1..2 * (K - 1)
  BY SettingOf
<1>2. PICK x : x = L(top, 0) /\ x \in Matches(K, reset) /\ LMatch(x) /\ l = o[x].winner
  <2>1. 0 \in SlotsL(top)
    <3>1. K - 1 - (top + 1) \div 2 = 0
      BY <1>1, SettingOf
    <3> QED
      BY <3>1, Pow2Step DEF SlotsL
  <2> QED
    BY <1>1, <2>1, IsMatchOfL DEF LMatch
<1>3. l # Nobody => l \in At(o, x)
  BY <1>2, ResultSeats
<1>4. l # Nobody => \E n \in Matches(K, reset) : WMatch(n) /\ o[n].loser = l
  BY <1>2, <1>3, DroppedFirst
<1>5. /\ w # Nobody => /\ \A r \in 1..K : \A y \in SlotsW(r) : o[W(r, y)].loser # w
                       /\ \A j \in 1..2 * (K - 1) : \A y \in SlotsL(j) : w \notin At(o, L(j, y))
                       /\ w # l
  BY Finalists
<1>6. ASSUME w # Nobody, NEW n \in Matches(K, reset), WMatch(n) \/ LMatch(n), o[n].loser = w
      PROVE  FALSE
  <2>1. w \in At(o, n)
    BY <1>6, ResultSeats
  <2> QED
    BY <1>5, <1>6, <2>1 DEF WMatch, LMatch
<1>7. \A m \in Matches(K, reset) : m \in {GF, GFR} => o[m].a = w /\ o[m].b = l
  BY ComesGF
<1>8. ResetNeeded(o) <=> o[GF].winner # Nobody /\ o[GF].winner = l
  <2>1. GF \in Matches(K, reset)
    BY FinalMatches
  <2>2. SecondFrom = L(2 * (K - 1), 0)
    BY <2>1, ComesGF
  <2> QED
    BY <2>2 DEF ResetNeeded, SecondFrom, K
<1> QED
  BY <1>4, <1>5, <1>6, <1>7, <1>8

\* Who loses a match that puts out has lost another one before.
LEMMA OutLostBefore ==
  ASSUME Setting, K >= 2, NEW bs, NEW o, Sound(bs, o),
         NEW m \in Matches(K, reset), PutsOut(o, m), NEW p, p # Nobody, o[m].loser = p
  PROVE  \E n \in Matches(K, reset) : o[n].loser = p /\ AppRound(K, n) < AppRound(K, m)
<1>1. p \in At(o, m) /\ o[m].a # Nobody /\ o[m].b # Nobody /\ o[m].winner # Nobody
  BY ResultSeats
<1>2. CASE LMatch(m)
  BY <1>1, <1>2, DroppedFirst
<1>3. CASE m = FinalGame(o)
  <2>1. PICK w, l : w = o[W(K, 0)].winner /\ l = o[L(2 * (K - 1), 0)].winner
    OBVIOUS
  <2>2. /\ l # Nobody => \E n \in Matches(K, reset) : WMatch(n) /\ o[n].loser = l
        /\ \A x \in Matches(K, reset) : x \in {GF, GFR} => o[x].a = w /\ o[x].b = l
        /\ w # Nobody => w # l
        /\ ResetNeeded(o) <=> o[GF].winner # Nobody /\ o[GF].winner = l
    BY <2>1, ChampionsLost
  <2>3. m \in {GF, GFR} /\ GF \in Matches(K, reset) /\ (ResetNeeded(o) <=> m = GFR)
    <3>1. GF # GFR
      BY DEF GF, GFR
    <3> QED
      BY <1>3, <3>1, FinalMatches DEF FinalGame
  <2>4. o[m].a = w /\ o[m].b = l /\ (p = w \/ p = l)
    <3>1. o[m].a = w /\ o[m].b = l
      BY <2>2, <2>3
    <3>2. p = o[m].a \/ p = o[m].b
      BY <1>1 DEF At
    <3> QED
      BY <3>1, <3>2
  <2>5. PICK k \in Nat \ {0} : k = K /\ AppRound(k, GF) = 2 * k /\ AppRound(k, GFR) = 2 * k + 1
    BY SettingOf, RoundsOfMatches
  <2>6. ASSUME p = l
        PROVE  \E n \in Matches(K, reset) : o[n].loser = p /\ AppRound(K, n) < AppRound(K, m)
    <3>1. PICK n \in Matches(K, reset) : WMatch(n) /\ o[n].loser = p
      BY <2>2, <2>6
    <3>2. PICK v \in Nat : v = AppRound(K, n)
      BY KindOf
    <3>3. v < 2 * k
      BY <2>5, <3>1, <3>2, WBeforeFinal
    <3>4. v < AppRound(K, m)
      <4>1. AppRound(K, m) \in {2 * k, 2 * k + 1}
        BY <2>3, <2>5
      <4> QED
        BY <3>2, <3>3, <4>1
    <3> QED
      BY <3>1, <3>2, <3>4
  <2>7. ASSUME p = w, p # l
        PROVE  o[GF].loser = p /\ AppRound(K, GF) < AppRound(K, m)
    <3>1. o[m].winner = l
      BY <1>1, <2>2, <2>3, <2>7, Decides
    <3>2. m = GFR
      <4>1. m = GF => ResetNeeded(o)
        BY <1>1, <2>2, <3>1
      <4> QED
        BY <2>3, <4>1
    <3>3. o[GF].winner # Nobody /\ o[GF].winner = l /\ o[GF].a = w /\ o[GF].b = l
      BY <2>2, <2>3, <3>2
    <3>4. w # Nobody /\ l # Nobody /\ l = o[GF].b /\ w # l
      BY <1>1, <2>4, <2>7, <3>3
    <3>5. o[GF].loser = IF o[GF].winner = o[GF].b THEN o[GF].a ELSE o[GF].b
      BY <2>3, <3>3, <3>4, WonAtBoard
    <3>6. o[GF].loser = w
      BY <3>3, <3>5
    <3> QED
      BY <2>5, <2>7, <3>2, <3>6
  <2> QED
    BY <2>3, <2>4, <2>6, <2>7
<1> QED
  BY <1>2, <1>3 DEF PutsOut

\* The second loss of a player is in a match that puts out.
LEMMA SecondPutsOut ==
  ASSUME BracketInv, K >= 2, NEW bs, bs = boards, NEW o, o = Resolved(bs), NEW p, p # Nobody,
         NEW m \in Matches(K, reset), NEW n \in Matches(K, reset),
         o[m].loser = p, o[n].loser = p, AppRound(K, m) < AppRound(K, n)
  PROVE  PutsOut(o, n)
<1>1. Setting /\ Sound(bs, o)
  BY SoundBoards
<1>2. p \in At(o, n) /\ m \in LostBefore(o, p, n)
  BY <1>1, ResultSeats DEF LostBefore
<1>3. ~WMatch(n)
  BY <1>1, <1>2, LossesOfWinners
<1>4. n = GFR => ResetNeeded(o)
  BY LostBoard
<1>5. ASSUME n = GF, ResetNeeded(o) PROVE FALSE
  <2>1. PICK w, l : w = o[W(K, 0)].winner /\ l = o[L(2 * (K - 1), 0)].winner
    OBVIOUS
  <2>2. /\ w # Nobody => \A x \in Matches(K, reset) : WMatch(x) \/ LMatch(x) => o[x].loser # w
        /\ o[n].a = w /\ o[n].b = l
        /\ w # Nobody => w # l
        /\ o[n].winner # Nobody /\ o[n].winner = l
    BY <1>1, <1>5, <2>1, ChampionsLost
  <2>3. p = w
    BY <1>1, <1>2, <2>2, ResultSeats DEF At
  <2>4. PICK k \in Nat \ {0} : k = K /\ AppRound(k, GF) = 2 * k /\ AppRound(k, GFR) = 2 * k + 1
    BY <1>1, SettingOf, RoundsOfMatches
  <2>5. PICK v \in Nat : v = AppRound(K, m) /\ v < 2 * k
    BY <1>1, <1>5, <2>4, KindOf
  <2>6. WMatch(m) \/ LMatch(m)
    BY <1>1, <2>4, <2>5, KindOf
  <2> QED
    BY <2>2, <2>3, <2>6
<1> QED
  BY <1>1, <1>3, <1>4, <1>5, KindOf DEF PutsOut, FinalGame

\* A match of the losers' bracket, and no other one, has its name.
LEMMA LNames ==
  ASSUME Setting, NEW m \in Matches(K, reset)
  PROVE  /\ m[1] = "L" <=> LMatch(m)
         /\ LMatch(m) => AppRound(K, m) = m[2] + 1
         /\ WMatch(m) => ~LMatch(m)
<1>1. /\ WMatch(m) => m[1] = "W"
      /\ LMatch(m) => m[1] = "L"
      /\ GF[1] = "GF" /\ GFR[1] = "GFR"
  BY DEF WMatch, LMatch, W, L, GF, GFR
<1>2. m[1] = "L" => LMatch(m)
  BY <1>1, KindOf
<1>3. m[1] = "L" => AppRound(K, m) = m[2] + 1
  BY DEF AppRound
<1> QED
  BY <1>1, <1>2, <1>3

\* A player loses one match of the losers' bracket at most, and no final then.
LEMMA OutOnce ==
  ASSUME BracketInv, K >= 2, NEW bs, bs = boards, NEW o, o = Resolved(bs), NEW p, p # Nobody,
         NEW m \in Matches(K, reset), NEW n \in Matches(K, reset),
         PutsOut(o, m), PutsOut(o, n), o[m].loser = p, o[n].loser = p
  PROVE  m = n
<1>1. Setting /\ Sound(bs, o)
  BY SoundBoards
<1>2. PICK x \in Matches(K, reset) : o[x].loser = p /\ AppRound(K, x) < AppRound(K, m)
  BY <1>1, OutLostBefore
<1>3. PICK y \in Matches(K, reset) : o[y].loser = p /\ AppRound(K, y) < AppRound(K, n)
  BY <1>1, OutLostBefore
<1>4. n \in {x, m} /\ m \in {y, n}
  BY <1>2, <1>3, LostTwice
<1>5. PICK u \in Nat, v \in Nat : u = AppRound(K, m) /\ v = AppRound(K, n)
  BY <1>1, KindOf
<1>6. CASE n = x /\ m = y
  BY <1>2, <1>3, <1>5, <1>6
<1> QED
  BY <1>4, <1>6

\* Whom the losers' bracket puts out, and the round they are out at.
OutInLosers(o, out) ==
  \A p : /\ p \in DOMAIN out <=>
              p # Nobody /\ \E m \in Matches(K, reset) : LMatch(m) /\ o[m].loser = p
         /\ \A m \in Matches(K, reset) :
              LMatch(m) /\ o[m].loser = p /\ p # Nobody => out[p] = AppRound(K, m)

LEMMA RoundsOut ==
  ASSUME BracketInv, K >= 2, NEW bs, bs = boards, NEW o, o = Resolved(bs),
         NEW last, DrawnUpTo(last), NEW out, out = RoundOut(PutOut(o, last))
  PROVE  OutInLosers(o, out)
<1>1. Setting /\ Sound(bs, o) /\ DOMAIN o = Matches(K, reset)
  BY SoundBoards DEF Sound, Worked, Outcomes
<1>2. PICK D : D = {x \in Matches(K, reset) : LMatch(x) /\ o[x].loser # Nobody}
  BY Zenon
<1>3. PICK f : f = PutOut(o, last) /\ f = [m \in D |-> o[m].loser]
  <2>1. \A x \in Matches(K, reset) :
           x[1] = "L" /\ o[x].loser # Nobody /\ Decided(x[2] + 1, last) <=> LMatch(x) /\ o[x].loser # Nobody
    <3> SUFFICES ASSUME NEW x \in Matches(K, reset), LMatch(x), o[x].loser # Nobody
                 PROVE  Decided(x[2] + 1, last)
      BY <1>1, LNames
    <3>1. PICK r \in 1..Rounds : r = AppRound(K, x) /\ LostAt(o[x].loser, r)
      BY LostBoard
    <3>2. r <= last
      BY <3>1 DEF LostAt, DrawnUpTo
    <3> QED
      BY <1>1, <3>1, <3>2, LNames DEF Decided
  <2>2. {x \in Matches(K, reset) : x[1] = "L" /\ o[x].loser # Nobody /\ Decided(x[2] + 1, last)} = D
    BY <1>2, <2>1
  <2> QED
    BY <1>1, <2>2, Zenon DEF PutOut
<1>4. PICK P : P = {f[m] : m \in DOMAIN f}
  BY Zenon
<1>5. \A p : p \in P <=> p # Nobody /\ \E m \in Matches(K, reset) : LMatch(m) /\ o[m].loser = p
  BY <1>2, <1>3, <1>4
<1>6. out = [p \in P |-> CHOOSE r \in {m[2] + 1 : m \in {x \in DOMAIN f : f[x] = p}} :
                           \A m \in DOMAIN f : f[m] = p => r <= m[2] + 1]
  BY <1>3, <1>4 DEF RoundOut
<1>7. ASSUME NEW p, p # Nobody, NEW m \in Matches(K, reset), LMatch(m), o[m].loser = p
      PROVE  out[p] = AppRound(K, m)
  <2>1. {x \in DOMAIN f : f[x] = p} = {m}
    <3>1. m \in D
      BY <1>2, <1>7
    <3>2. ASSUME NEW x \in D, o[x].loser = p PROVE x = m
      BY <1>2, <1>7, <3>2, OutOnce DEF PutsOut
    <3> QED
      BY <1>3, <1>7, <3>1, <3>2
  <2>2. PICK c \in Nat : c = m[2] + 1 /\ c = AppRound(K, m)
    BY <1>1, <1>7, LNames, KindOf
  <2>3. {x[2] + 1 : x \in {x \in DOMAIN f : f[x] = p}} = {c}
    BY <2>1, <2>2
  <2>4. \A x \in DOMAIN f : f[x] = p => c <= x[2] + 1
    BY <2>1, <2>2
  <2>5. (CHOOSE r \in {c} : \A x \in DOMAIN f : f[x] = p => r <= x[2] + 1) = c
    BY <2>4
  <2>6. p \in P
    BY <1>5, <1>7
  <2> QED
    BY <1>6, <2>2, <2>3, <2>5, <2>6
<1>8. DOMAIN out = P
  BY <1>6
<1> QED
  BY <1>5, <1>7, <1>8 DEF OutInLosers

\* Whom the bracket puts out, and where they are placed, in a tournament with the
\* reset.
PlacedBy(o, placed) ==
  \A p : /\ p \in DOMAIN placed <=>
              p # Nobody /\ \E m \in Matches(K, reset) : PutsOut(o, m) /\ o[m].loser = p
         /\ \A m \in Matches(K, reset) :
              PutsOut(o, m) /\ o[m].loser = p /\ p # Nobody =>
                placed[p] = IF m = FinalGame(o) THEN Rounds ELSE AppRound(K, m)

LEMMA PlacementsAre ==
  ASSUME BracketInv, reset = TRUE, K >= 2, NEW bs, bs = boards, NEW o, o = Resolved(bs),
         NEW last, DrawnUpTo(last), NEW placed, placed = Placements(o, last)
  PROVE  PlacedBy(o, placed)
<1>1. Setting /\ Sound(bs, o)
  BY SoundBoards
<1>2. PICK out : out = RoundOut(PutOut(o, last))
  OBVIOUS
<1>3. \A p : /\ p \in DOMAIN out <=>
                  p # Nobody /\ \E m \in Matches(K, reset) : LMatch(m) /\ o[m].loser = p
             /\ \A m \in Matches(K, reset) :
                  LMatch(m) /\ o[m].loser = p /\ p # Nobody => out[p] = AppRound(K, m)
  <2>1. OutInLosers(o, out)
    BY <1>2, RoundsOut
  <2> QED
    BY <2>1, Zenon DEF OutInLosers
<1>4. PICK f \in Matches(K, reset) : f = FinalGame(o)
  <2>1. GF \in Matches(K, reset) /\ GFR \in Matches(K, reset)
    BY <1>1, SettingOf, MatchesKinds, Zenon DEF Setting
  <2> QED
    BY <2>1, Zenon DEF FinalGame
<1>5. o[f].loser # Nobody => Decided(AppRound(K, f), last)
  <2> SUFFICES ASSUME o[f].loser # Nobody PROVE Decided(AppRound(K, f), last)
    OBVIOUS
  <2>1. PICK r \in 1..Rounds : r = AppRound(K, f) /\ LostAt(o[f].loser, r)
    BY LostBoard, Zenon
  <2> QED
    BY <2>1 DEF LostAt, DrawnUpTo, Decided
<1>6. placed = IF o[f].loser # Nobody
               THEN [p \in DOMAIN out \cup {o[f].loser} |-> IF p = o[f].loser THEN Rounds ELSE out[p]]
               ELSE out
  <2>1. f = IF reset /\ ResetNeeded(o) THEN GFR ELSE GF
    BY <1>4 DEF FinalGame
  <2> QED
    BY <1>2, <1>5, <2>1 DEF Placements, K
<1>7. \A m \in Matches(K, reset) : LMatch(m) => m # f
  <2>1. GF[1] # "L" /\ GFR[1] # "L"
    BY DEF GF, GFR
  <2>2. f[1] # "L"
    BY <1>4, <2>1 DEF FinalGame
  <2> QED
    BY <1>1, <2>2, LNames, Zenon
<1> SUFFICES ASSUME NEW p
             PROVE  /\ p \in DOMAIN placed <=>
                         p # Nobody /\ \E m \in Matches(K, reset) : PutsOut(o, m) /\ o[m].loser = p
                    /\ \A m \in Matches(K, reset) :
                         PutsOut(o, m) /\ o[m].loser = p /\ p # Nobody =>
                           placed[p] = IF m = FinalGame(o) THEN Rounds ELSE AppRound(K, m)
  BY Zenon DEF PlacedBy
<1>8. p \in DOMAIN placed <=>
        p # Nobody /\ \E m \in Matches(K, reset) : PutsOut(o, m) /\ o[m].loser = p
  <2>1. \A m \in Matches(K, reset) : PutsOut(o, m) <=> LMatch(m) \/ m = f
    BY <1>4 DEF PutsOut
  <2>2. p \in DOMAIN placed <=> p \in DOMAIN out \/ (p # Nobody /\ p = o[f].loser)
    BY <1>3, <1>6
  <2> QED
    BY <1>3, <2>1, <2>2, Zenon
<1>9. ASSUME NEW m \in Matches(K, reset), PutsOut(o, m), o[m].loser = p, p # Nobody
      PROVE  placed[p] = IF m = f THEN Rounds ELSE AppRound(K, m)
  <2>1. CASE m = f
    BY <1>6, <1>9, <2>1
  <2>2. CASE m # f
    <3>1. LMatch(m) /\ PutsOut(o, f)
      BY <1>4, <1>9, <2>2 DEF PutsOut
    <3>2. o[f].loser # p
      BY <1>9, <2>2, <3>1, OutOnce, Zenon
    <3>3. p \in DOMAIN out /\ out[p] = AppRound(K, m)
      BY <1>3, <1>9, <3>1, Zenon
    <3> QED
      BY <1>6, <2>2, <3>2, <3>3
  <2> QED
    BY <2>1, <2>2
<1> QED
  BY <1>4, <1>8, <1>9, Zenon

\* Whoever is out lost twice, the second time in the match that put them out.
LEMMA OutLostTwice ==
  ASSUME BracketInv, K >= 2, NEW bs, bs = boards, NEW o, o = Resolved(bs),
         NEW last, DrawnUpTo(last), NEW m \in Matches(K, reset), PutsOut(o, m),
         NEW p, p # Nobody, o[m].loser = p
  PROVE  /\ p \in Players /\ AppRound(K, m) \in 1..Rounds
         /\ Losses(p, last) = 2 /\ Losses(p, Rounds) = 2
         /\ Losses(p, AppRound(K, m)) = 2 /\ Losses(p, AppRound(K, m) - 1) = 1
<1>1. Setting /\ Sound(bs, o) /\ Rounds \in Nat
  BY SoundBoards, SettingOf
<1>2. PICK n \in Matches(K, reset) : o[n].loser = p /\ AppRound(K, n) < AppRound(K, m)
  BY <1>1, OutLostBefore
<1>3. PICK r \in 1..Rounds : r = AppRound(K, m) /\ LostAt(p, r)
  BY LostBoard
<1>4. r <= last /\ last \in 0..Rounds
  BY <1>3 DEF LostAt, DrawnUpTo
<1>5. /\ \A q \in 0..Rounds : r <= q => Losses(p, q) = 2
      /\ Losses(p, r - 1) = 1
  BY <1>2, <1>3, LossesCount
<1>6. r \in 0..Rounds /\ Rounds \in 0..Rounds /\ r <= r /\ r <= Rounds
  BY <1>1
<1>7. p \in Players
  BY <1>3, LostIsPlayer
<1> QED
  BY <1>3, <1>4, <1>5, <1>6, <1>7

\* Until a request out of date has written, those placed are those who lost twice,
\* at the round of their second loss, and the last one out comes after all: the
\* placements read the bracket, the losses are counted at the boards.
THEOREM PlacedLostTwice == 2 \notin Fields => (Spec => []PlacedAreOut)
<1> SUFFICES ASSUME 2 \notin Fields PROVE Spec => []PlacedAreOut
  OBVIOUS
<1>1. BracketInv => PlacedAreOut
  <2> SUFFICES ASSUME BracketInv, reset = TRUE, NEW placed, placed = Placements(Resolved(boards), LastPaired)
               PROVE  /\ DOMAIN placed = {p \in Players : Losses(p, LastPaired) = 2}
                      /\ \A p \in DOMAIN placed :
                           /\ Losses(p, placed[p]) = 2
                           /\ placed[p] < Rounds => Losses(p, placed[p] - 1) = 1
    BY DEF PlacedAreOut
  <2>1. PICK bs, o : bs = boards /\ o = Resolved(bs) /\ o = Resolved(boards) /\ Sound(bs, o) /\ Setting /\ K >= 2
    BY SoundBoards, TwoLevels
  <2>2. PICK last : DrawnUpTo(last) /\ LastPaired = last /\ last \in 0..Rounds
    BY <2>1, LastPairedIs DEF BracketInv, DrawnUpTo
  <2>3. \A p : /\ p \in DOMAIN placed <=>
                    p # Nobody /\ \E m \in Matches(K, reset) : PutsOut(o, m) /\ o[m].loser = p
               /\ \A m \in Matches(K, reset) :
                    PutsOut(o, m) /\ o[m].loser = p /\ p # Nobody =>
                      placed[p] = IF m = FinalGame(o) THEN Rounds ELSE AppRound(K, m)
    <3>1. placed = Placements(o, last)
      BY <2>1, <2>2
    <3>2. PlacedBy(o, placed)
      BY <2>1, <2>2, <3>1, PlacementsAre
    <3> QED
      BY <3>2, Zenon DEF PlacedBy
  <2>4. ASSUME NEW p \in DOMAIN placed
        PROVE  /\ p \in Players /\ Losses(p, last) = 2 /\ Losses(p, placed[p]) = 2
               /\ placed[p] < Rounds => Losses(p, placed[p] - 1) = 1
    <3>1. PICK m \in Matches(K, reset) : PutsOut(o, m) /\ o[m].loser = p /\ p # Nobody
      BY <2>3, Zenon
    <3>2. /\ p \in Players /\ Losses(p, last) = 2 /\ Losses(p, Rounds) = 2
          /\ Losses(p, AppRound(K, m)) = 2 /\ Losses(p, AppRound(K, m) - 1) = 1
      BY ONLY BracketInv, <2>1, <2>2, <3>1, OutLostTwice
    <3>3. placed[p] = IF m = FinalGame(o) THEN Rounds ELSE AppRound(K, m)
      BY <2>3, <3>1, Zenon
    <3>4. ~(Rounds < Rounds)
      BY <2>1, SettingOf
    <3>5. CASE m = FinalGame(o)
      <4>1. placed[p] = Rounds
        BY <3>3, <3>5
      <4> QED
        BY <3>2, <3>4, <4>1
    <3>6. CASE m # FinalGame(o)
      <4>1. placed[p] = AppRound(K, m)
        BY <3>3, <3>6
      <4> QED
        BY <3>2, <4>1
    <3> QED
      BY <3>5, <3>6
  <2>5. ASSUME NEW p \in Players, Losses(p, last) = 2 PROVE p \in DOMAIN placed
    <3>1. PICK m \in Matches(K, reset), n \in Matches(K, reset) :
            o[m].loser = p /\ o[n].loser = p /\ AppRound(K, m) < AppRound(K, n)
      BY ONLY BracketInv, <2>1, <2>2, <2>5, CountedLosses
    <3>2. p # Nobody
      BY <2>1, SettingOf DEF Players, Nobody
    <3>3. PutsOut(o, n)
      BY <2>1, <3>1, <3>2, SecondPutsOut, Zenon
    <3> QED
      BY <2>3, <3>1, <3>2, <3>3, Zenon
  <2> QED
    BY <2>2, <2>4, <2>5
<1>2. outdated => PlacedAreOut
  BY DEF PlacedAreOut
<1> QED
  BY <1>1, <1>2, BracketInvariant, PTL

-----------------------------------------------------------------------------
(* A tournament that is finished is settled.                               *)

\* A match that lacks nobody is won by one of two.
LEMMA WonByTwo ==
  ASSUME Setting, NEW bs, NEW o, Sound(bs, o), NEW m \in Matches(K, reset),
         ~o[m].lacks_loser, o[m].winner # Nobody
  PROVE  o[m].a # Nobody /\ o[m].b # Nobody
<1>1. PICK pair, s, t : pair = Sources(K, m) /\ s = pair[1] /\ t = pair[2]
  OBVIOUS
<1>2. PICK x : x = o[m] /\ x = Outcome(bs, AppRound(K, m), o, pair)
  BY <1>1 DEF Sound, Worked
<1>3. PICK sa, ta : sa = Absent(o, s) /\ ta = Absent(o, t)
  OBVIOUS
<1>4. /\ ~sa /\ ~ta => x.winner = IF x.a # Nobody /\ x.b # Nobody
                                  THEN WinnerOfBoard(bs, AppRound(K, m), x.a, x.b) ELSE Nobody
      /\ x.lacks_loser = (sa \/ ta)
  BY <1>1, <1>2, <1>3, OutcomeParts
<1> QED
  BY <1>2, <1>4, Zenon

\* The last game of the tournament is lost.
LastGameLost(o) == FinalGame(o) \in Matches(K, reset) /\ o[FinalGame(o)].loser # Nobody

\* A grand final that is won has been played, so the rounds before it are
\* settled.
LEMMA FinalWon ==
  ASSUME BracketInv, GateInv, K >= 2, NEW bs, bs = boards, NEW o, o = Resolved(bs),
         o[GF].winner # Nobody
  PROVE  /\ o[GF].a # Nobody /\ o[GF].b # Nobody /\ o[GF].loser # Nobody
         /\ Settled(o, 2 * K - 1)
<1>1. Setting /\ Sound(bs, o) /\ GF \in Matches(K, reset)
  BY SoundBoards, FinalMatches
<1>2. o[GF].a # Nobody /\ o[GF].b # Nobody
  BY <1>1, FinalistsCome, WonByTwo
<1>3. o[GF].loser # Nobody
  <2>1. o[GF].loser = IF o[GF].winner = o[GF].b THEN o[GF].a ELSE o[GF].b
    BY <1>1, <1>2, WonAtBoard
  <2> QED
    BY <1>2, <2>1
<1>4. PICK k \in Nat \ {0} : k = K /\ AppRound(K, GF) = 2 * k
  BY <1>1, SettingOf, FinalMatches
<1>5. PICK last \in Nat : DrawnUpTo(last) /\ Settled(o, last - 1)
  <2>1. PICK last : DrawnUpTo(last) /\ Settled(Resolved(boards), last - 1)
    BY DEF GateInv
  <2>2. Resolved(boards) = o /\ last \in Nat
    BY <1>1, <2>1, SoundBoards, SettingOf DEF DrawnUpTo
  <2> QED
    BY <2>1, <2>2
<1>6. 2 * k <= last
  <2>1. PICK p : p = o[GF].loser
    OBVIOUS
  <2>2. PICK r \in 1..Rounds : r = 2 * k /\ LostAt(p, r)
    BY <1>1, <1>3, <1>4, <2>1, LostBoard
  <2> QED
    BY <1>5, <2>2 DEF LostAt, DrawnUpTo
<1>7. Settled(o, 2 * k - 1)
  <2> SUFFICES ASSUME NEW m \in Matches(K, reset), AppRound(K, m) <= 2 * k - 1,
                      o[m].a # Nobody, o[m].b # Nobody
               PROVE  o[m].winner # Nobody
    BY DEF Settled
  <2>1. AppRound(K, m) <= last - 1
    <3>1. PICK v \in Nat : v = AppRound(K, m)
      BY <1>1, KindOf
    <3> QED
      BY <1>5, <1>6, <3>1
  <2> QED
    BY <1>5, <2>1 DEF Settled
<1> QED
  BY <1>2, <1>3, <1>4, <1>7

\* When the last game is lost, one player at most has not lost twice.
LEMMA OneIsLeft ==
  ASSUME BracketInv, GateInv, K >= 2, NEW bs, bs = boards, NEW o, o = Resolved(bs),
         NEW last, DrawnUpTo(last), o[GF].winner # Nobody, LastGameLost(o)
  PROVE  \E q : \A p \in Players : Losses(p, last) = 2 \/ p = q
<1>1. Setting /\ Sound(bs, o)
  BY SoundBoards
<1>2. PICK f \in Matches(K, reset) : f = FinalGame(o) /\ o[f].loser # Nobody /\ f \in {GF, GFR}
  BY DEF LastGameLost, FinalGame
<1>3. PICK w, l : w = o[W(K, 0)].winner /\ l = o[L(2 * (K - 1), 0)].winner
  OBVIOUS
<1>4. o[f].a = w /\ o[f].b = l
  BY <1>1, <1>2, <1>3, ComesGF
<1>5. PICK out : out = o[f].loser /\ out \in {w, l} /\ out # Nobody
  BY <1>1, <1>2, <1>4, Decides
<1>6. PICK q : q = IF out = w THEN l ELSE w
  OBVIOUS
<1>7. ASSUME NEW p \in Players PROVE Losses(p, last) = 2 \/ p = q
  <2>0. p # Nobody
    BY <1>1, SettingOf DEF Players, Nobody
  <2>1. CASE \A j \in 1..2 * (K - 1) : \A x \in SlotsL(j) : o[L(j, x)].loser # p
    <3>1. PICK h \in Nat : h = 2 * K - 1 /\ Settled(o, h)
      BY <1>1, FinalWon, SettingOf
    <3>2. p = w \/ p = l
      <4>1. 2 * K - 1 <= h
        BY <1>1, <3>1, SettingOf
      <4> QED
        BY <1>1, <1>3, <2>1, <3>1, <4>1, EveryoneEnds
    <3>3. CASE p = out
      <4>1. PutsOut(o, f) /\ o[f].loser = p
        BY <1>2, <1>5, <3>3 DEF PutsOut
      <4> QED
        BY <2>0, <4>1, OutLostTwice
    <3>4. CASE p # out
      BY <1>5, <1>6, <3>2, <3>4
    <3> QED
      BY <3>3, <3>4
  <2>2. CASE \E j \in 1..2 * (K - 1) : \E x \in SlotsL(j) : o[L(j, x)].loser = p
    <3>1. PICK j \in 1..2 * (K - 1) : \E x \in SlotsL(j) : o[L(j, x)].loser = p
      BY <2>2
    <3>2. PICK x \in SlotsL(j) : o[L(j, x)].loser = p
      BY <3>1
    <3>3. PICK m \in Matches(K, reset) : m = L(j, x) /\ PutsOut(o, m)
      BY <1>1, IsMatchOfL DEF PutsOut, LMatch
    <3> QED
      BY <2>0, <3>2, <3>3, OutLostTwice
  <2> QED
    BY <2>1, <2>2
<1> QED
  BY <1>7

\* The reset is only drawn when it is needed, and its winner is the one of its
\* board.
LEMMA ResetPlayed ==
  ASSUME BracketInv, GateInv, K >= 2, GFR \in Matches(K, reset), Rounds = 2 * K + 1,
         NEW bs, bs = boards, NEW o, o = Resolved(bs),
         bs[Rounds] # {}, \A b \in bs[Rounds] : BoardWinner(b) # Nobody
  PROVE  o[GF].winner # Nobody /\ LastGameLost(o)
<1>1. Setting /\ Sound(bs, o)
  BY SoundBoards
<1>2. PICK k \in Nat \ {0} : /\ k = K /\ Rounds = 2 * k + 1 /\ AppRound(k, GFR) = 2 * k + 1
                             /\ Rounds \in 1..Rounds /\ AppRound(k, GF) = 2 * k
  BY <1>1, SettingOf, RoundsOfMatches
<1>3. GFR \in Matches(K, reset) /\ GF \in Matches(K, reset)
  BY <1>1, FinalMatches
<1>4. ResetNeeded(o)
  <2>1. PICK b \in bs[Rounds] : TRUE
    OBVIOUS
  <2>2. PICK n \in Matches(K, reset) : AppRound(K, n) = Rounds /\ (n = GFR => ResetNeeded(o))
    BY <1>2, <2>1, SeatedMatch
  <2>3. n = GFR
    <3>1. PICK v \in Nat : v = AppRound(K, n) /\ v = 2 * k + 1
      BY <1>1, <1>2, <2>2, KindOf
    <3>2. (WMatch(n) /\ v < 2 * k) \/ (LMatch(n) /\ v < 2 * k) \/ (n = GF /\ v = 2 * k) \/ n = GFR
      BY <1>1, <1>2, <3>1, KindOf, Zenon
    <3> QED
      BY <3>1, <3>2
  <2> QED
    BY <2>2, <2>3
<1>5. o[GF].winner # Nobody
  BY <1>4 DEF ResetNeeded
<1>6. o[GFR].a # Nobody /\ o[GFR].b # Nobody
  <2>1. o[GF].a # Nobody /\ o[GF].b # Nobody
    BY <1>5, FinalWon
  <2>2. o[GFR].a = o[GF].a /\ o[GFR].b = o[GF].b
    BY <1>1, <1>3, ComesGF
  <2> QED
    BY <2>1, <2>2
<1>7. o[GFR].winner # Nobody
  <2>1. PICK r : r = AppRound(K, GFR) /\ r = Rounds /\ bs[r] # {}
    BY <1>2
  <2>2. PICK m \in Matches(K, reset) : m = GFR /\ (m = GFR => ResetNeeded(o)) /\ r = AppRound(K, m)
    BY <1>3, <1>4, <2>1, Zenon
  <2>3. o[m].a # Nobody /\ o[m].b # Nobody /\ o[m].a # o[m].b
    BY <1>1, <1>6, <2>2, Opponents
  <2>4. PICK b \in bs[r] : o[m].winner = BoardWinner(b)
    BY <2>1, <2>2, <2>3, BoardOfMatch
  <2> QED
    BY <2>1, <2>2, <2>4
<1>8. o[GFR].loser # Nobody
  <2>1. o[GFR].loser = IF o[GFR].winner = o[GFR].b THEN o[GFR].a ELSE o[GFR].b
    BY <1>1, <1>3, <1>6, <1>7, WonAtBoard
  <2> QED
    BY <1>6, <2>1
<1> QED
  BY <1>3, <1>4, <1>5, <1>8 DEF LastGameLost, FinalGame

\* Until a request out of date has written, a tournament with the reset is not
\* finished while two players have lost less than twice, unless its last game is
\* level: the grand final the champion of the losers' bracket wins does not finish
\* it (_reset_needed, tournament_is_over).
THEOREM SettledWhenFinished == 2 \notin Fields => (Spec => []FinishedSettled)
<1> SUFFICES ASSUME 2 \notin Fields PROVE Spec => []FinishedSettled
  OBVIOUS
<1>1. BracketInv /\ GateInv => FinishedSettled
  <2> DEFINE in == {p \in Players : Losses(p, LastPaired) < 2}
  <2> SUFFICES ASSUME BracketInv, GateInv, NEW rs, rs = reset, rs, Cardinality(in) >= 2,
                      Finished(boards, Resolved(boards)),
                      ~(LastPaired = Rounds /\ \E b \in boards[Rounds] : BoardWinner(b) = Nobody)
               PROVE  FALSE
    BY Zenon DEF FinishedSettled
  <2>1. PICK bs, o : bs = boards /\ o = Resolved(bs) /\ o = Resolved(boards) /\ Sound(bs, o) /\ Setting /\ K >= 2
    BY SoundBoards, TwoLevels
  <2>2. PICK last : DrawnUpTo(last) /\ LastPaired = last /\ last \in 0..Rounds
    BY <2>1, LastPairedIs DEF BracketInv, DrawnUpTo
  <2>3. o[GF].winner # Nobody /\ LastGameLost(o)
    <3>1. CASE Over(o)
      <4>1. o[GF].winner # Nobody /\ FinalGame(o) = GF
        BY <3>1 DEF Over, FinalGame
      <4>2. o[GF].loser # Nobody /\ GF \in Matches(K, reset)
        BY <2>1, <4>1, FinalWon, FinalMatches, Zenon
      <4> QED
        BY <4>1, <4>2, Zenon DEF LastGameLost
    <3>2. CASE LastPaired = Rounds
      <4>1. bs[Rounds] # {} /\ \A b \in bs[Rounds] : BoardWinner(b) # Nobody
        <5>1. Rounds \in 1..Rounds
          BY <2>1, SettingOf
        <5> QED
          BY <2>1, <2>2, <3>2, <5>1 DEF DrawnUpTo
      <4>2. GFR \in Matches(K, reset) /\ Rounds = 2 * K + 1
        BY <2>1, SettingOf, MatchesKinds, Zenon DEF Setting
      <4> QED
        BY ONLY BracketInv, GateInv, <2>1, <4>1, <4>2, ResetPlayed
    <3> QED
      BY <2>1, <3>1, <3>2 DEF Finished
  <2>4. PICK q : \A p \in Players : Losses(p, last) = 2 \/ p = q
    BY <2>1, <2>2, <2>3, OneIsLeft
  <2>5. \A x, y \in in : x = y
    <3> SUFFICES ASSUME NEW x \in Players, Losses(x, last) < 2, NEW y \in Players, Losses(y, last) < 2
                 PROVE  x = y
      BY <2>2
    <3>1. Losses(x, last) # 2 /\ Losses(y, last) # 2
      OBVIOUS
    <3> QED
      BY <2>4, <3>1
  <2>6. Cardinality(in) \in {0, 1}
    BY <2>5, AtMostOne
  <2> QED
    BY <2>6
<1>2. outdated => FinishedSettled
  BY DEF FinishedSettled
<1> QED
  BY <1>1, <1>2, SettledInvariant, PTL

-----------------------------------------------------------------------------
(* The designations: a designation is forgotten with the level game it was *)
(* made for.  Nothing of the bracket is needed: a round is drawn with no   *)
(* result, whoever its pairs are.                                          *)

\* What a board is, whoever sits at it.
IsBoard(b) ==
  b = [white |-> b.white, black |-> b.black, result |-> b.result, pick |-> b.pick,
       table |-> b.table]

\* A designation is only kept while the game is level: without it a result
\* that makes a game level would bring a designation back.
PickedLevel(b) == IsBoard(b) /\ (b.pick # Nobody => b.result = "level")

LevelInv ==
  /\ boards = [r \in 1..Rounds |-> boards[r]]
  /\ \A r \in 1..Rounds : \A b \in boards[r] : PickedLevel(b)

\* Where the designation of a level game comes from, for the boards of a round.
FromLevel(new, old) ==
  \A b \in new :
    b.result = "level" /\ b.pick # Nobody =>
      \E c \in old : Seats(c) = Seats(b) /\ c.result = "level"

-----------------------------------------------------------------------------
(* The boards a handler leaves, which keep no designation too long.        *)

LEMMA NewBoardLevel ==
  ASSUME NEW pair, NEW table
  PROVE  PickedLevel(NewBoard(pair, table)) /\ NewBoard(pair, table).result = "none"
  BY DEF NewBoard, PickedLevel, IsBoard

LEMMA FieldSet ==
  ASSUME NEW b, IsBoard(b), NEW x
  PROVE  /\ IsBoard([b EXCEPT !.result = x]) /\ IsBoard([b EXCEPT !.pick = x])
         /\ [b EXCEPT !.result = x].result = x /\ [b EXCEPT !.result = x].pick = b.pick
         /\ [b EXCEPT !.pick = x].pick = x /\ [b EXCEPT !.pick = x].result = b.result
         /\ Seats([b EXCEPT !.result = x]) = Seats(b)
         /\ Seats([b EXCEPT !.pick = x]) = Seats(b)
  BY DEF IsBoard, Seats

\* A result that is entered, changed or cleared.
LEMMA ResultLevel ==
  ASSUME NEW old, \A c \in old : PickedLevel(c), NEW b \in old,
         NEW x, x # b.result,
         NEW new, new = Forgotten((old \ {b}) \cup {[b EXCEPT !.result = x]})
  PROVE  (\A c \in new : PickedLevel(c)) /\ FromLevel(new, old)
  <1> DEFINE corrected == [b EXCEPT !.result = x]
  <1>1. IsBoard(corrected) /\ corrected.result = x /\ corrected.pick = b.pick
    BY FieldSet, Zenon DEF PickedLevel
  <1>2. SUFFICES ASSUME NEW c \in (old \ {b}) \cup {corrected},
                        NEW d, d = IF c.result = "level" THEN c ELSE [c EXCEPT !.pick = Nobody]
                 PROVE  /\ PickedLevel(d)
                        /\ d.result = "level" /\ d.pick # Nobody =>
                             \E e \in old : Seats(e) = Seats(d) /\ e.result = "level"
    BY DEF Forgotten, FromLevel
  <1>3. IsBoard(c)
    BY <1>1 DEF PickedLevel
  <1>4. CASE c.result = "level"
    <2>1. d = c
      BY <1>2, <1>4
    <2>2. PickedLevel(d)
      BY <1>3, <1>4, <2>1 DEF PickedLevel
    <2>3. CASE c = corrected /\ c # b
      <3>1. b.result # "level"
        BY <1>1, <1>4, <2>3
      <3>2. b.pick = Nobody
        BY <3>1 DEF PickedLevel
      <3>3. d.pick = Nobody
        BY <1>1, <2>1, <2>3, <3>2
      <3>4. QED
        BY <2>2, <3>3
    <2>4. CASE c \in old
      BY <2>1, <2>2, <2>4
    <2>5. QED
      BY <2>3, <2>4
  <1>5. CASE c.result # "level"
    <2>1. d = [c EXCEPT !.pick = Nobody]
      BY <1>2, <1>5
    <2>2. IsBoard(d) /\ d.pick = Nobody
      BY <1>3, <2>1, FieldSet, ZenonT(60)
    <2>3. QED
      BY <2>2 DEF PickedLevel
  <1>6. QED
    BY <1>4, <1>5

\* A winner that is designated, or no longer.
LEMMA DesignateLevel ==
  ASSUME NEW old, \A c \in old : PickedLevel(c), NEW b \in old, NEW p,
         b.result = "level",
         NEW new, new = (old \ {b}) \cup {[b EXCEPT !.pick = p]}
  PROVE  (\A c \in new : PickedLevel(c)) /\ FromLevel(new, old)
  <1> DEFINE designated == [b EXCEPT !.pick = p]
  <1>1. /\ IsBoard(designated) /\ designated.result = "level"
        /\ Seats(designated) = Seats(b)
    BY FieldSet, Zenon DEF PickedLevel
  <1>2. PickedLevel(designated)
    BY <1>1 DEF PickedLevel
  <1>3. QED
    BY <1>1, <1>2 DEF FromLevel

-----------------------------------------------------------------------------
(* The steps.                                                              *)

\* A step changes the boards of one round at most, and keeps those it leaves.
LEMMA OneRound ==
  ASSUME LevelInv, UNCHANGED <<field, reset>>, NEW r, NEW new,
         boards' = [boards EXCEPT ![r] = new],
         \A b \in new : PickedLevel(b), FromLevel(new, boards[r])
  PROVE  LevelInv' /\ \A q \in 1..Rounds : FromLevel(boards'[q], boards[q])
  <1>1. Rounds' = Rounds
    BY DEF Rounds
  <1>2. /\ boards' = [q \in 1..Rounds |-> boards'[q]]
        /\ \A q \in 1..Rounds : boards'[q] = IF q = r THEN new ELSE boards[q]
    BY Zenon DEF LevelInv
  <1>3. \A q \in 1..Rounds : \A b \in boards'[q] : PickedLevel(b)
    BY <1>2 DEF LevelInv
  <1>4. \A q \in 1..Rounds : FromLevel(boards'[q], boards[q])
    BY <1>2 DEF FromLevel
  <1>5. QED
    BY <1>1, <1>2, <1>3, <1>4 DEF LevelInv

LEMMA SameLevel ==
  ASSUME LevelInv, UNCHANGED <<field, reset, boards>>
  PROVE  LevelInv' /\ \A q \in 1..Rounds : FromLevel(boards'[q], boards[q])
  BY DEF LevelInv, FromLevel, Rounds

LEMMA StepLevel ==
  ASSUME SeatedInv, LevelInv, [Next]_vars
  PROVE  LevelInv' /\ \A q \in 1..Rounds : FromLevel(boards'[q], boards[q])
  <1>0. Setting /\ Typed(boards)
    BY SettingHolds DEF SeatedInv
  <1>1. ASSUME NEW q \in Requests, Draw(q)
        PROVE  LevelInv' /\ \A x \in 1..Rounds : FromLevel(boards'[x], boards[x])
    <2>1. PICK view : view = waiting[q].view /\ Typed(view)
      <3>1. waiting[q] # NoRequest
        BY <1>1 DEF Draw, NoRequest
      <3> QED
        BY <3>1 DEF SeatedInv, TypeOK, Typed
    <2>2. boards' = Drawn(view) /\ UNCHANGED <<field, reset>>
      BY <1>1, <2>1 DEF Draw, Writes
    <2>3. CASE Drawn(view) = boards
      BY <2>2, <2>3, SameLevel
    <2>4. CASE Drawn(view) # boards
      <3>1. PICK r \in 1..Rounds, o \in Outcomes :
              Drawn(view) = [boards EXCEPT ![r] = boards[r] \cup
                                     {NewBoard(Pair(o, m), Table(m)) : m \in Played(o, r)}]
        <4>1. PICK r \in 1..Rounds, o \in Outcomes : DrawsRound(view, r, o)
          BY <1>0, <2>1, <2>4, DrawnFrom
        <4>2. QED
          BY <4>1, Zenon DEF DrawsRound
      <3>2. PICK fresh : fresh = {NewBoard(Pair(o, m), Table(m)) : m \in Played(o, r)}
        OBVIOUS
      <3>3. \A b \in fresh : PickedLevel(b) /\ b.result = "none"
        BY <3>2, NewBoardLevel
      <3>4. PICK new : new = boards[r] \cup fresh
        OBVIOUS
      <3>5. (\A b \in new : PickedLevel(b)) /\ FromLevel(new, boards[r])
        BY <3>3, <3>4 DEF LevelInv, FromLevel
      <3>6. boards' = [boards EXCEPT ![r] = new]
        BY <2>2, <3>1, <3>2, <3>4
      <3>7. QED
        BY <2>2, <3>5, <3>6, OneRound, Zenon
    <2>5. QED
      BY <2>3, <2>4
  <1>2. ASSUME NEW q \in Requests, Unpair(q)
        PROVE  LevelInv' /\ \A x \in 1..Rounds : FromLevel(boards'[x], boards[x])
    <2>1. PICK r, players :
            boards' = [boards EXCEPT ![r] = {b \in boards[r] : Seats(b) \cap players = {}}]
      BY <1>2, Zenon DEF Unpair, Writes, Unpaired
    <2>2. UNCHANGED <<field, reset>>
      BY <1>2 DEF Unpair, Writes
    <2>3. PICK new : new = {b \in boards[r] : Seats(b) \cap players = {}}
      BY Zenon
    <2>4. CASE r \in 1..Rounds
      <3>1. (\A b \in new : PickedLevel(b)) /\ FromLevel(new, boards[r])
        BY <2>3, <2>4 DEF LevelInv, FromLevel
      <3>2. boards' = [boards EXCEPT ![r] = new]
        BY <2>1, <2>3
      <3>3. QED
        BY <2>2, <3>1, <3>2, OneRound, Zenon
    <2>5. CASE r \notin 1..Rounds
      <3>1. boards' = boards
        BY <1>0, <2>1, <2>5 DEF Typed
      <3>2. QED
        BY <2>2, <3>1, SameLevel
    <2>6. QED
      BY <2>4, <2>5
  <1>3. ASSUME NEW r \in 1..Rounds, Result(r) \/ Designate(r)
        PROVE  LevelInv' /\ \A q \in 1..Rounds : FromLevel(boards'[q], boards[q])
    <2>1. UNCHANGED <<field, reset>>
      BY <1>3 DEF Result, Designate
    <2>2. \A c \in boards[r] : PickedLevel(c)
      BY DEF LevelInv
    <2>3. CASE Result(r)
      <3>1. PICK b \in boards[r], x \in Results :
              /\ x # b.result
              /\ boards' = [boards EXCEPT ![r] =
                    Forgotten((boards[r] \ {b}) \cup {[b EXCEPT !.result = x]})]
        BY <2>3, Zenon DEF Result
      <3>2. PICK new : new = Forgotten((boards[r] \ {b}) \cup {[b EXCEPT !.result = x]})
        OBVIOUS
      <3>3. (\A c \in new : PickedLevel(c)) /\ FromLevel(new, boards[r])
        BY <2>2, <3>1, <3>2, ResultLevel, Zenon
      <3>4. QED
        BY <2>1, <3>1, <3>2, <3>3, OneRound, Zenon
    <2>4. CASE Designate(r)
      <3>1. PICK b \in boards[r] : \E p \in Seats(b) \cup {Nobody} :
              /\ b.result = "level"
              /\ boards' = [boards EXCEPT ![r] = (boards[r] \ {b}) \cup {[b EXCEPT !.pick = p]}]
        BY <2>4, Zenon DEF Designate
      <3>2. PICK p \in Seats(b) \cup {Nobody} :
              /\ b.result = "level"
              /\ boards' = [boards EXCEPT ![r] = (boards[r] \ {b}) \cup {[b EXCEPT !.pick = p]}]
        BY <3>1, Zenon
      <3>3. PICK new : new = (boards[r] \ {b}) \cup {[b EXCEPT !.pick = p]}
        BY Zenon
      <3>4. (\A c \in new : PickedLevel(c)) /\ FromLevel(new, boards[r])
        BY <2>2, <3>2, <3>3, DesignateLevel, Zenon
      <3>5. QED
        BY <2>1, <3>2, <3>3, <3>4, OneRound, Zenon
    <2>5. QED
      BY <1>3, <2>3, <2>4
  <1>4. ASSUME NEW q \in Requests, AskDraw(q) \/ AskUnpair(q)
        PROVE  UNCHANGED <<field, reset, boards>>
    BY <1>4 DEF AskDraw, AskUnpair, Asks
  <1>5. CASE UNCHANGED vars
    BY <1>5, SameLevel DEF vars
  <1>6. QED
    BY <1>1, <1>2, <1>3, <1>4, <1>5, SameLevel, Zenon DEF Next

\* A level game that has a designated winner was level before, its designation
\* made then or since, whatever requests draw and unpair meanwhile
\* (KnockoutView.forget_settled_winners).
THEOREM DesignationsAnew == Spec => DesignatedAnew
  <1>1. Init => LevelInv
    BY DEF Init, LevelInv
  <1>2. SeatedInv /\ LevelInv /\ [Next]_vars => LevelInv'
    BY StepLevel
  <1>3. SeatedInv /\ LevelInv /\ [Next]_vars =>
          [\A r \in 1..Rounds : \A b \in boards'[r] :
             b.result = "level" /\ b.pick # Nobody =>
               \E c \in boards[r] : Seats(c) = Seats(b) /\ c.result = "level"]_vars
    BY StepLevel DEF FromLevel
  <1>4. QED
    BY <1>1, <1>2, <1>3, SeatedInvariant, PTL DEF Spec, DesignatedAnew
=============================================================================
