SPECIFICATION FairSpec
CONSTANTS
    Procs = {p1, p2}
    Writers = {p1, p2}
    Closers = {p1, p2}
    Names = {a}
    Keys = {k}
    Vals = {v}
    Nodes = {o1, o2, o3}
    Handles = {h1, h2}
    MaxHandlers = 1
    ReadOnly = FALSE
    Nil = Nil
    NoVal = NoVal
    Absent = Absent
    Closed = Closed
    NoTx = NoTx
INVARIANTS
    DirectoryAgrees
    OpenTxNExact
PROPERTIES
    SnapshotStable
    NoBeginAfterClose
    ImplementsSnapshotStore
    CommitPublishesView
    LockGranted
