SPECIFICATION Spec
CONSTANTS
    Mails = {m1, m2}
    Workers = {w1, w2}
    MaxRetry = 2
    BatchSize = 2
    SendTime = 1
    Lease = 3
    MaxBackoff = 2
    MaxTrouble = 2
INVARIANT
    OutboxSafety
PROPERTIES
    KeepsPromise
    EveryMailEnds
CHECK_DEADLOCK FALSE
