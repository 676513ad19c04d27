SPECIFICATION Spec
CONSTANTS
  Player = {p1, p2}
  BoardId = {b1, b2, b3}
  Client = {c1}
  None = None
  Ops = {"pair", "unpair"}
  Concurrent = FALSE
  FreshPages = FALSE
SYMMETRY Symmetry
INVARIANT NobodyFacesThemself
