\* A wipe and a slot write are enough.
CONSTANTS
    EmptyFields = EmptyFields
    None = None
    Slot = {s1, s2}
    Val = {v1, v2}
    Fields = {EmptyFields, f1}
    MaxUndo = 1
SPECIFICATION Spec
\* A panic ends the process.
CHECK_DEADLOCK FALSE
INVARIANTS
    InverseRestores
