CONSTANTS
    i1 = i1
    i2 = i2
    e1 = e1
    Ips = {i1, i2}
    Emails = {e1}
    Window <- MCWindow
    Max <- MCMax
    MaxClock = 2
    MaxRequests = 5
    MaxRestarts = 1
SYMMETRY Symmetry
SPECIFICATION Spec
INVARIANTS
    TypeOK
    BurstBounded
    RefusalsDeserved
CHECK_DEADLOCK FALSE
