SPECIFICATION CursorSpec
CONSTANTS
    NodeHeaderBytes = 1
    InodeBytes = 1
    MaxNodeBytes = 7
    MinMergeBytes = 1
    SplitBytes = 3
    RestoreSplitBytes = 6
    Loads <- BranchLoads
    CursorLoads = {}
    MaxUnbalanced = 2
INVARIANTS
    NoPanic
