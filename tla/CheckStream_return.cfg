SPECIFICATION Spec
CONSTANTS
    Buckets = {a, b}
    MaxFaults = 1
    Capacity = 2
    MaxErrors = 3
    Root = Root
INVARIANTS
    NoNilDereference
CHECK_DEADLOCK FALSE
