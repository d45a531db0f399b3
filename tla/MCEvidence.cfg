CONSTANTS
    h1 = h1
    h2 = h2
    k1 = k1
    w1 = w1
    NoKey = NoKey
    NoWorker = NoWorker
    Calls = {h1, h2}
    Keys = {k1}
    GoExpiry = 1
    MaxClock = 1
    Workers = {w1}
    Lease = 1
    MaxAttempts = 2
    BaseRetry = 1
    MaxLag = 0
    MaxSlips = 0
SPECIFICATION FairEvidenceSpec
PROPERTIES
    HeardOutcomesStand
    EvidenceIsDispatched
