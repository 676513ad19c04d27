SPECIFICATION Spec
CONSTANTS
    Writer = {w1, w2}
    Stock <- SomeStock
    Began = 2
    Aged = 1
    MaxSnaps = 4
    KeepMilestones = 1
    KeepAuto = 1
    None = None
SYMMETRY Symmetry
INVARIANTS
    TypeOK
    CommittedKept
    ReplacedKept
    LoaderAgrees
PROPERTIES
    AllOrNothing
    KeptEnough
