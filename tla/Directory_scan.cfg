SPECIFICATION Spec
CONSTANTS
    Names <- Names1to3
    Nil = Nil
    MaxChanges = 3
    Slack = 1
INVARIANTS
    ScanIsView
    ForEachOnce
