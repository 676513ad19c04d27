---------------------------- MODULE RoundNumbers ----------------------------
(***************************************************************************)
(* The numbers the boards of RoundBoards are shown under, whatever tables  *)
(* their players asked for: a board keeps the number asked for when it was *)
(* paired (stored_board.fixed_number), so that an assignment of one to     *)
(* each identifier stands for the snapshots of all the boards there are.   *)
(***************************************************************************)
EXTENDS RoundBoards, BoardNumbers

\* first_board_number, unless the arbiter chose another one
FirstNumber == 1

\* The tables players ask for; 0 for those who ask for none.
Asked == 0..2

\* Board.standard_number and Board.fixed_number of the boards of d.
RoundOf(d, fixed) ==
  [b \in BoardsOf(d) |->
     [fixed |-> fixed[b], standard |-> FirstNumber + d.board[b].index]]

\* _round_board_numbers, when holes are not left
RoundBoardNumbers(d, fixed) == Numbers(RoundOf(d, fixed), FirstNumber, FALSE)

\* "the round has neither gaps nor duplicates": no two boards are shown under
\* one number, whatever their players asked for and whatever was taken out; and
\* when nothing was and the tables asked for are among those of the round, the
\* numbers are the first ones.
NumbersDistinct ==
  \A fixed \in [BoardsOf(db) -> Asked] :
    LET number == RoundBoardNumbers(db, fixed)
        shown == {number[b] : b \in BoardsOf(db)}
        n == Cardinality(BoardsOf(db)) IN
    /\ Cardinality(shown) = n
    /\ Places(RoundOf(db, fixed)) = 1..n /\ (\A b \in BoardsOf(db) : fixed[b] <= n)
         => shown = 1..n

\* The tables given because they were asked for, each with the place of its board.
Given(round) == {<<round[b].standard, round[b].fixed>> : b \in Honoured(round)}

\* "A board taken out of the round (unpaired) still holds its place, so the other
\* boards keep their numbers": whatever is paired, unpaired, drawn or moved, a
\* board that stays at its table keeps its number, so long as the tables given
\* because they were asked for are the same.
NumbersKept ==
  [][\A fixed \in [BoardsOf(db) \cup BoardsOf(db') -> Asked] :
       Given(RoundOf(db, fixed)) = Given(RoundOf(db', fixed)) =>
         \A b \in BoardsOf(db) \cap BoardsOf(db') :
           db.board[b].index = db'.board[b].index =>
             RoundBoardNumbers(db, fixed)[b] = RoundBoardNumbers(db', fixed)[b]]_vars
=============================================================================
