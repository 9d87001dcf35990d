\* All three embedders: a pin always live, with persists or without, and one that
\* persists with a pin live and without.
CONSTANTS
    NumRegions = 3
    RegionUnits = 1
    MaxGen = 2
    Embedders = {"pinned", "persists", "pinned, persists"}
SPECIFICATION Spec
PROPERTIES
    DeadRegionsReturnUnlessPinned
    HeldWhilePinned
