SPECIFICATION FairFileSpec
CONSTANTS
    Procs = {p, q}
    Writers = {p, q}
    Names <- Names1to2
    Keys = {1}
    Vals = {7}
    NoVal = NoVal
    Absent = Absent
    Closed = Closed
    NoTx = NoTx
    NoFile = NoFile
    NoProc = NoProc
INVARIANTS
    FileIsView
PROPERTIES
    OpenAllOrNothing
    RestoreAllOrNothing
    RestoreReturns
