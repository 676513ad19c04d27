SPECIFICATION Spec
CONSTANTS
  Player = {p1, p2}
  BoardId = {b1, b2}
  Client = {c1, c2}
  None = None
  Ops = {"draw", "pair", "unpair", "unpair_round", "bye", "result", "permute"}
  Concurrent = TRUE
  FreshPages = FALSE
SYMMETRY Symmetry
INVARIANT BoardsKeepPlayers
INVARIANT RowSeated
