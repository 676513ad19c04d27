SPECIFICATION Spec
CONSTANTS
  Event = {e1}
  Client = {c1, c2}
  Worker = {w1}
  Timer = {t1, t2}
  None = None
  Idle = 1
  MaxLatency = 1
  MinAuto = 1
  Retries = 2
  QueueBound = 1
  Ops = {"commit", "direct", "remove", "mishap"}
SYMMETRY Symmetry
INVARIANT TypeOK
INVARIANT NoStrandedPending
INVARIANT ChangeCovered
