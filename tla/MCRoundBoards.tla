--------------------------- MODULE MCRoundBoards ---------------------------
(* Instances of RoundBoards for TLC: players, identifiers of boards and      *)
(* requests are model values, and interchangeable ones.                      *)
EXTENDS RoundNumbers, TLC

Symmetry == Permutations(Player) \cup Permutations(BoardId) \cup Permutations(Client)
=============================================================================
