\* No batches; the blocks of MCFrontierGroups, every mode, two record sizes.
CONSTANTS
    KeyLen = 4
    EmptyFields = EmptyFields
    f1 = f1
    v1 = v1
    None = None
    Loads = {}
    Val = {v1}
    FieldsOf <- MCFieldsOf
    SlotOf <- MCSlotOf
    Blocks <- MCBlocks
    Modes <- MCModes
    MaxLeafs = {1, 2}
    MaxRecord = 2
    Radix = 2
SPECIFICATION GroupsSpec
\* A block whose next group would panic goes no further.
CHECK_DEADLOCK FALSE
PROPERTIES
    ImplementsCut
