\* Six keys, sought by every key and every path.
CONSTANTS
    KeyLen = 3
    Radix = 3
    Keys <- MCKeys

SPECIFICATION Spec

INVARIANTS
    VisitsAll
    InOrder

PROPERTIES
    SeekReturns
