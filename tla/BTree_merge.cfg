SPECIFICATION CursorSpec
CONSTANTS
    NodeHeaderBytes = 1
    InodeBytes = 1
    MaxNodeBytes = 11
    MinMergeBytes = 2
    SplitBytes = 5
    RestoreSplitBytes = 9
    Loads <- MergeLoads
    CursorLoads = {}
    MaxUnbalanced = 2
INVARIANTS
    CheckClean
