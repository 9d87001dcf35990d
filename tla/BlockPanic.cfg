\* Two slots promote the account; the next block wipes it, or the rollback of
\* the block that created it deletes it.
CONSTANTS
    EmptyFields = EmptyFields
    None = None
    Slot = {s1, s2}
    Val = {v1, v2}
    Fields = {EmptyFields, f1}
    MaxUndo = 1
SPECIFICATION Spec
\* A panic ends the process.
CHECK_DEADLOCK FALSE
INVARIANTS
    PackedPathsAreKeys
