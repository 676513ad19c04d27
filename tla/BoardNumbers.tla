---------------------------- MODULE BoardNumbers ----------------------------
(***************************************************************************)
(* compute_round_board_numbers of data/board.py: the number each board of  *)
(* a round is shown under.  A round is a function: each board has the      *)
(* number one of its players asked for (fixed, 0 for none) and the one it  *)
(* has by its place in the round (standard).                               *)
(***************************************************************************)
EXTENDS Naturals, FiniteSets

\* The boards come in the order of their places.
Before(round, a, b) == round[a].standard < round[b].standard

\* Mutant: a number two players asked for is given to both.
HonouredTwice(round) == {b \in DOMAIN round : round[b].fixed # 0}

\* The boards that have the number they ask for: the first to ask has it.
Honoured(round) ==
  {b \in DOMAIN round :
     /\ round[b].fixed # 0
     /\ \A a \in DOMAIN round : Before(round, a, b) => round[a].fixed # round[b].fixed}

Taken(round) == {round[b].fixed : b \in Honoured(round)}

Places(round) == {round[b].standard : b \in DOMAIN round}

\* Mutant: a board taken out leaves its place.
HolesNone(round, first) == {}

\* The places of the boards taken out: those before the last board that no
\* board is at.
Holes(round, first) ==
  (UNION {first..p : p \in Places(round)}) \ Places(round)

\* The places a number is still to be given to, those of the boards taken out too.
Open(round, first) ==
  {round[b].standard : b \in DOMAIN round \ Honoured(round)} \cup Holes(round, first)

\* The number, from the first one, that is the n-th not taken.
NthFree(round, first, n) ==
  CHOOSE x \in first..first + n + Cardinality(Taken(round)) :
    /\ x \notin Taken(round)
    /\ Cardinality((first..x - 1) \ Taken(round)) = n

\* compute_round_board_numbers
Numbers(round, first, leave_holes) ==
  [b \in DOMAIN round |->
     IF (leave_holes /\ round[b].fixed # 0) \/ (~leave_holes /\ b \in Honoured(round))
     THEN round[b].fixed
     ELSE IF leave_holes THEN round[b].standard
     ELSE NthFree(round, first,
            Cardinality({s \in Open(round, first) : s < round[b].standard}))]
=============================================================================
