SPECIFICATION Spec
CONSTANTS
  Player = {p1, p2}
  BoardId = {b1, b2, b3}
  Client = {c1, c2}
  None = None
  Ops = {"draw"}
  Concurrent = TRUE
  FreshPages = TRUE
SYMMETRY Symmetry
PROPERTY DrawAnsweredPlainly
