CONSTANTS
    w1 = w1
    w2 = w2
    e1 = e1
    e2 = e2
    NoWorker = NoWorker
    NoEvent = NoEvent
    Workers = {w1, w2}
    Events = {e1, e2}
    Handled = {e1}
    Lease = 2
    MaxAttempts = 2
    BaseRetry = 1
    MaxLag = 1
    MaxSlips = 2
SPECIFICATION FairSpec
INVARIANTS
    TypeOK
    OverlapNeedsOverrun
    AttemptsTellClaimsApart
    AttemptsPastLimitNeedSlips
PROPERTIES
    ClaimEndsByHolderOrLease
    ImplementsDelivery
    EveryEventSettles
