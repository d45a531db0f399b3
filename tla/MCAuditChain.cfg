CONSTANTS
    w1 = w1
    w2 = w2
    w3 = w3
    NoWriter = NoWriter
    Writers = {w1, w2, w3}
    Legacy = 1
    MaxEvents = 4
SPECIFICATION FairSpec
CHECK_DEADLOCK FALSE
INVARIANTS
    TypeOK
    SequencesGapless
    ChainLinked
    ChainKeepsCausality
PROPERTIES
    ImplementsLog
    EveryRecordEnds
