----------------------------- MODULE MCFrontier -----------------------------
(***************************************************************************)
(* Frontier on four accounts, one of them with storage.  The keys make     *)
(* extensions of one and of two nibbles.                                   *)
(***************************************************************************)
EXTENDS Reveal

CONSTANTS f1, v1

A == <<0, 0, 1, 0>>
B == <<0, 0, 0, 1>>
C == <<0, 1, 0, 0>>
D == <<1, 1, 1, 1>>
MCTargets == {A, B, D, Zero, <<0, 0, 1, 1>>, <<0, 1, 1, 0>>}
MCFieldsOf == (A :> {EmptyFields, f1}) @@ [a \in {B, C, D} |-> {f1}]

S1 == <<0, 0, 0, 0>>
S2 == <<0, 1, 1, 0>>
S3 == <<0, 1, 0, 0>>
S4 == <<1, 1, 1, 1>>
\* S3 comes and goes by blocks and loads only.
MCSlotOf == A :> {S1, S2, S4}

Upd(w, a, slots) == [wipe |-> w, account |-> a, slots |-> slots]
Destroy == Upd(TRUE, "Delete", <<>>)
Set(s) == [slot |-> s, value |-> v1]
Del(s) == [slot |-> s, value |-> None]

\* Creation with all slots, a wipe, a change of slots, deletions, and blocks on
\* two accounts.
MCBlocks ==
    { A :> Upd(FALSE, f1, <<Set(S1), Set(S2), Set(S3), Set(S4)>>),
      A :> Upd(TRUE, EmptyFields, <<Set(S2)>>),
      A :> Upd(FALSE, "Keep", <<Del(S1), Del(S4), Del(S3), Set(S2)>>),
      (B :> Destroy) @@ (D :> Destroy),
      (C :> Destroy) @@ (D :> Upd(FALSE, f1, <<>>)),
      (A :> Destroy) @@ (C :> Upd(FALSE, f1, <<>>)) }

\* Loads on one and on two children of the top, in no order of keys.
Seed(a, slots) == [key |-> a, fields |-> f1, slots |-> slots]
MCLoads == { <<Seed(C, <<>>), Seed(A, <<Set(S1), Set(S2), Set(S4)>>)>>,
             <<Seed(D, <<>>), Seed(A, <<Set(S3)>>), Seed(B, <<>>)>> }

\* A build in memory asks for hot only once it has ended, and goes on from there
\* as a build with or without.
MCModes == { [hot |-> FALSE, ram |-> FALSE], [hot |-> TRUE, ram |-> FALSE],
             [hot |-> FALSE, ram |-> TRUE] }
=============================================================================
