--------------------------- MODULE MCRegionReuse ---------------------------
(* RegionReuse for TLC: the constants are numbers, set in the .cfg files.   *)
EXTENDS RegionReuse
=============================================================================
