\* Two one-record regions, two pin generations with two snapshots each: a
\* region can be dead for the frontier, referenced by a manifest, cached, and
\* seen by snapshots older and newer than its death.
CONSTANTS
    NumRegions = 2
    RegionUnits = 1
    MaxGen = 2
    MaxClones = 2
SPECIFICATION Spec
\* The bounds on regions and generations stop the system.
CHECK_DEADLOCK FALSE
INVARIANTS
    TypeOK
    FrontierNotOverwritten
    SnapshotsNotOverwritten
    CheckpointNotOverwritten
    ReadAheadNotAliased
    LiveCountsExact
    ListedOnce
    ParkedForOldReaders
