\* The comment of CodeStore::open, against the order of the syncs in persist.
CONSTANTS
    Addr = {a1}
    c1 = c1
    c2 = c2
    Code <- MCCode
    CodeLen <- MCCodeLen
    NoCode = NoCode
    Garbage = Garbage
    MaxLog = 7
    MaxBuried = 6
SPECIFICATION Spec
INVARIANT OpenLosesNoCode
