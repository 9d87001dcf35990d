--------------------------- MODULE MCFrontierGroups ---------------------------
(***************************************************************************)
(* FrontierGroups on four accounts, one of them with two storage slots.    *)
(***************************************************************************)
EXTENDS FrontierGroups

CONSTANTS f1, v1

A == <<0, 0, 1, 0>>
B == <<0, 0, 0, 1>>
C == <<0, 1, 0, 0>>
D == <<1, 1, 1, 1>>
S1 == <<0, 0, 0, 0>>
S2 == <<0, 1, 1, 0>>
MCFieldsOf == [a \in {A, B, C, D} |-> {f1}]
MCSlotOf == A :> {S1, S2}

Upd(w, a, slots) == [wipe |-> w, account |-> a, slots |-> slots]
Destroy == Upd(TRUE, "Delete", <<>>)
SetTo(s) == [slot |-> s, value |-> v1]
Unset(s) == [slot |-> s, value |-> None]
\* Storage written and cleared; accounts of two groups that go, come and cross.
MCBlocks ==
    { A :> Upd(FALSE, "Keep", <<Unset(S1), SetTo(S2)>>),
      (B :> Destroy) @@ (D :> Destroy),
      (C :> Destroy) @@ (D :> Upd(FALSE, f1, <<>>)),
      (A :> Destroy) @@ (C :> Upd(FALSE, f1, <<>>)) }
MCModes == { [hot |-> FALSE, ram |-> FALSE], [hot |-> TRUE, ram |-> FALSE],
             [hot |-> FALSE, ram |-> TRUE] }
=============================================================================
