SPECIFICATION Spec
CONSTANTS
  Player = {p1, p2, p3, p4, p5, p6}
  BoardId = {b1, b2, b3, b4}
  Client = {c1}
  None = None
  Ops = {"draw", "complete", "pair", "unpair", "unpair_round", "bye", "result", "permute"}
  Concurrent = FALSE
  FreshPages = TRUE
SYMMETRY Symmetry
INVARIANT TypeOK
INVARIANT SeatHasRow
INVARIANT DistinctTables
INVARIANT ByeIsAlone
PROPERTY SeatingSpec
INVARIANT NumbersDistinct
PROPERTY NumbersKept
