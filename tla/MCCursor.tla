------------------------------ MODULE MCCursor ------------------------------
(* Model checking of Cursor: keys of three nibbles below three. *)
EXTENDS Cursor

MCKeys == {<<0, 0, 0>>, <<0, 0, 2>>, <<0, 1, 1>>, <<1, 2, 2>>, <<2, 0, 0>>, <<2, 2, 2>>}
=============================================================================
