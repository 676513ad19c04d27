SPECIFICATION Spec
CONSTANTS
  Fields = {3, 4, 5, 6, 7}
  Resets = {TRUE, FALSE}
  Drawish = {4}
  Requests = {q1, q2}
  Overlapping <- UntilOutdated
SYMMETRY Symmetry
INVARIANT TypeOK
 
INVARIANT OutAfterTwoLosses
INVARIANT BoardsMatchBracket
INVARIANT NeverStuck
INVARIANT FinishedSettled
INVARIANT NoQuickRematch
INVARIANT PlacedAreOut
PROPERTY PlacementsStand
PROPERTY DesignatedAnew
