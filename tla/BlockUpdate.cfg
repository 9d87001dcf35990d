\* Every block, of any length, on every account with two slots, and two blocks to
\* roll back.
CONSTANTS
    EmptyFields = EmptyFields
    None = None
    Slot = {s1, s2}
    Val = {v1, v2}
    Fields = {EmptyFields, f1}
    MaxUndo = 2
SPECIFICATION Spec
\* A panic ends the process.
CHECK_DEADLOCK FALSE
INVARIANTS
    MatchesSequentialButCreation
    FailsOnlyOnOpaque
    InverseRestoresButRewritten
