SPECIFICATION FairSpec
CONSTANTS
    Procs = {p, q}
    Nil = Nil
    MaxDepth = 2
    MaxHandlers = 1
INVARIANTS
    LockIsOpenWriter
    CountedWhenClosed
PROPERTIES
    PublishedOrNot
    WriterServed
