SPECIFICATION Spec
CONSTANTS
    Procs = {p, q}
    Fields = {split, spill}
    MaxCount = 1
    MaxTx = 3
    Nil = Nil
INVARIANTS
    CountedOnce
    CopyIsOneMoment
    DifferenceGrows
