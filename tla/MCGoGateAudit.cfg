CONSTANTS
    h1 = h1
    h2 = h2
    k1 = k1
    NoKey = NoKey
    Calls = {h1, h2}
    Keys = {k1}
    GoExpiry = 1
    MaxClock = 2
SYMMETRY Symmetry
SPECIFICATION Spec
INVARIANTS
    EveryTransitionAudited
