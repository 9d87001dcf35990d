---------------------------- MODULE MCFrontierCut ----------------------------
(* Model checking of FrontierCut: keys of four bits, two of which share three. *)
EXTENDS FrontierCut

MCKeys == {<<0, 0, 0, 0>>, <<0, 0, 0, 1>>, <<0, 0, 1, 0>>, <<0, 1, 0, 0>>, <<1, 1, 1, 1>>}
=============================================================================
