SPECIFICATION Spec
CONSTANTS
  Fields = {2}
  Resets = {TRUE}
  Drawish = {2}
  Requests = {q1}
  Overlapping = {}
INVARIANT FinishedSettled
