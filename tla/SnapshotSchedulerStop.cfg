SPECIFICATION Spec
CONSTANTS
  Event = {e1}
  Client = {c1}
  Worker = {w1, w2}
  Timer = {t1}
  None = None
  Idle = 1
  MaxLatency = 1
  MinAuto = 1
  Retries = 2
  QueueBound = 2
  Ops = {"commit", "stop", "toggle", "mishap"}
SYMMETRY Symmetry
INVARIANT ChangeCovered
INVARIANT WorkersAccounted
