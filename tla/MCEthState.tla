----------------------------- MODULE MCEthState -----------------------------
(***************************************************************************)
(* EthState with two codes, of one and of two cells.                       *)
(***************************************************************************)
EXTENDS EthState, TLC

CONSTANTS c1, c2, MaxBuried

MCCode    == {c1, c2}
MCCodeLen == (c1 :> 1) @@ (c2 :> 2)

\* A log that went on behind a torn entry is not followed beyond MaxBuried cells:
\* what it may be read as grows with every cell.
BuriedBound == failed = "buried" => Len(log) <= MaxBuried
=============================================================================
