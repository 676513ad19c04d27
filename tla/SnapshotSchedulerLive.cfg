SPECIFICATION FairSpec
CONSTANTS
  Event = {e1}
  Client = {c1}
  Worker = {w1}
  Timer = {t1, t2}
  None = None
  Idle = 1
  MaxLatency = 2
  MinAuto = 2
  Retries = 2
  QueueBound = 2
  Ops = {"commit"}
INVARIANT ChangeNeverForsaken
PROPERTY ChangeIsSaved
PROPERTY PendingIsServed
