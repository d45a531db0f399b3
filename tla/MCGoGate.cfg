CONSTANTS
    h1 = h1
    h2 = h2
    h3 = h3
    k1 = k1
    NoKey = NoKey
    Calls = {h1, h2, h3}
    Keys = {k1}
    GoExpiry = 1
    MaxClock = 2
SYMMETRY Symmetry
SPECIFICATION Spec
INVARIANTS
    TypeOK
    ExecutionOwned
    EffectOnceAndApproved
    LateCallNeverExecutes
    DecisionOnRecord
    ReceiptMatchesOutcome
    AuditTruthful
    AuditComplete
PROPERTIES
    ExpiresOnlyWhenLapsed
    ImplementsLifecycle
