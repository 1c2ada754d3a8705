SPECIFICATION Spec
CONSTANTS
    Procs = {p1}
    Writers = {p1}
    Closers = {}
    Names = {a}
    Keys = {k}
    Vals = {v}
    Nodes = {o1, o2, o3}
    Handles = {h1, h2}
    MaxHandlers = 0
    ReadOnly = FALSE
    Nil = Nil
    NoVal = NoVal
    Absent = Absent
    Closed = Closed
    NoTx = NoTx
PROPERTIES
    DeleteBucketDeletes
