SPECIFICATION FairSpec
CONSTANTS
    Callers = {c1, c2, c3}
    MaxBatch = 3
    MaxBatchSize = 2
    Nobody = Nobody
INVARIANTS
    ExactlyOnce
    ResultIsOwn
PROPERTIES
    NoLateJoin
    EveryCallReturns
