SPECIFICATION FairSpec
CONSTANTS
    Buckets = {a, b, c}
    MaxFaults = 2
    Capacity = 2
    MaxErrors = 3
    Root = Root
INVARIANTS
    NoSendAfterClose
    PassedIsClean
PROPERTIES
    CheckEnds
CHECK_DEADLOCK FALSE
