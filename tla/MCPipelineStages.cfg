CONSTANTS
    h1 = h1
    h2 = h2
    s1 = s1
    s2 = s2
    Callers = {h1, h2}
    Stages = {s1, s2}
    MaxSequence = 2
    MaxLength = 2
SPECIFICATION FairSpec
INVARIANTS
    TypeOK
PROPERTIES
    ChangesAreWholeCalls
    EveryCallEnds
CHECK_DEADLOCK FALSE
