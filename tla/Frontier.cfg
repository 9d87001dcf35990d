\* Four accounts, one with four slots, every mode and two record sizes.
CONSTANTS
    KeyLen = 4
    EmptyFields = EmptyFields
    f1 = f1
    v1 = v1
    None = None
    Val = {v1}
    FieldsOf <- MCFieldsOf
    SlotOf <- MCSlotOf
    Blocks <- MCBlocks
    Loads <- MCLoads
    Modes <- MCModes
    MaxLeafs = {1, 2}
    MaxRecord = 2
    Radix = 2
    Targets <- MCTargets
SPECIFICATION Spec
\* After an error the embedder drops the instance.
CHECK_DEADLOCK FALSE
INVARIANTS
    TypeOK
    RootIsCanonical
    AuditClean
    LiveRecordsReferenced
    RecordsAddressable
    RecordsFit
    FailsOnlyBelowTwoKeys
    ReadsReturnHeld
    SeekFindsSuccessor
    CursorsVisitAll
    BranchCursorsExact
    RevealIsThePath
    RevealMasksFollowCursors
    RevealedReadsAgree
