\* One record: persist and its failures, gc_step, spills, the cache, a snapshot
\* or a GC batch, and crashes.
CONSTANTS
    NumRegions = 2
    RegionUnits = 1
    MaxGen = 1
    Path = {p1}
    Val = {v1, v2}
    None = None
    Garbage = Garbage
    EvacCap = 1
    BgCap = 1
    HotRecords = TRUE
    Persists = TRUE
    MaxCached = 1
SPECIFICATION Spec
SYMMETRY Symmetric
\* The bounds on regions and generations stop the system.
CHECK_DEADLOCK FALSE
PROPERTIES ImplementsStore ImplementsReuse
