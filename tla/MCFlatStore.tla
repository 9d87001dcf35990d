---------------------------- MODULE MCFlatStore ----------------------------
(* FlatStore for TLC: paths and values are model values, interchangeable.  *)
EXTENDS FlatStore, TLC

Symmetric == Permutations(Path) \cup Permutations(Val)
=============================================================================
