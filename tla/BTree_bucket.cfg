SPECIFICATION CursorSpec
CONSTANTS
    NodeHeaderBytes = 1
    InodeBytes = 1
    MaxNodeBytes = 7
    MinMergeBytes = 1
    SplitBytes = 3
    RestoreSplitBytes = 6
    Loads <- AllLoads
    CursorLoads <- RowLoads
    MaxUnbalanced = 1
INVARIANTS
    ReadYourWrites
    GenerationsIntact
    CheckClean
    NoPanic
    Balanced
    CountsAgree
    RoundTripLossless
PROPERTIES
    PositioningExact
    NextInOrder
    PrevInOrder
    CursorDeleteExact
    DeleteLoopOnPublished
    LastReturns
