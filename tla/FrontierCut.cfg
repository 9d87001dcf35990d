\* Five accounts, two of which share three nibbles.
CONSTANTS
    KeyLen = 4
    Radix = 2
    Keys <- MCKeys
    Val = {v1}

SPECIFICATION Spec

\* The error ends the run.
CHECK_DEADLOCK FALSE

INVARIANTS
    FrontierIsTop
    ReadsReturnWant
    LiveRecordsReferenced
    RecordsAddressable
