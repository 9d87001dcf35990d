\* One account, codes of one and of two cells, put failures, both kinds of crash.
CONSTANTS
    Addr = {a1}
    c1 = c1
    c2 = c2
    Code <- MCCode
    CodeLen <- MCCodeLen
    NoCode = NoCode
    Garbage = Garbage
    MaxLog = 8
    MaxBuried = 6
SPECIFICATION Spec
INVARIANTS
    IndexFindsCodesButBuried
    FlushedCodesSurvive
    CheckpointCodesSynced
CONSTRAINT BuriedBound
