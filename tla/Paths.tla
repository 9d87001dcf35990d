-------------------------------- MODULE Paths --------------------------------
(***************************************************************************)
(* Keys, the paths that lead to them, and their order.  A path is a        *)
(* sequence of nibbles, a key one of KeyLen nibbles.                       *)
(***************************************************************************)
EXTENDS Naturals, SequencesExt

CONSTANTS
    KeyLen,    \* nibbles of a key (64)
    Radix      \* nibbles are below Radix (16)

ASSUME PathsAssumption ==
    /\ KeyLen \in Nat \ {0}
    /\ Radix \in Nat \ {0, 1}

Nibble == 0 .. Radix - 1
Key    == [1 .. KeyLen -> Nibble]
Path   == UNION {[1 .. n -> Nibble] : n \in 0 .. KeyLen}

\* No value, no key, no entry.
Nothing == [none |-> TRUE]

From(s, n) == SubSeq(s, n + 1, Len(s))

\* How many nibbles two paths share.
common_prefix(s, t) ==
    CHOOSE n \in 0 .. Len(s) :
        /\ n <= Len(t) /\ \A i \in 1 .. n : s[i] = t[i]
        /\ n = Len(s) \/ n = Len(t) \/ s[n + 1] # t[n + 1]

\* Where two paths part; the child of a branch on the way to a key.
Meet(s, t)   == SubSeq(s, 1, common_prefix(s, t))
Toward(b, k) == SubSeq(k, 1, Len(b) + 1)
IsChild(b, q) == IsPrefix(b, q) /\ Len(q) = Len(b) + 1

Under(p, ks) == {k \in ks : IsPrefix(p, k)}
\* The branches of the trie of ks.
BranchPoints(ks) == UNION {{Meet(k, l) : l \in ks \ {k}} : k \in ks}

-----------------------------------------------------------------------------
(* The order of Rust's arrays and slices *)

KeyBefore(a, b) ==
    \E n \in 1 .. KeyLen : SubSeq(a, 1, n - 1) = SubSeq(b, 1, n - 1) /\ a[n] < b[n]

LexLess(a, b) ==
    \/ Len(a) < Len(b) /\ IsPrefix(a, b)
    \/ \E n \in 1 .. Min({Len(a), Len(b)}) :
            SubSeq(a, 1, n - 1) = SubSeq(b, 1, n - 1) /\ a[n] < b[n]

\* Mutant: the carry is lost at a nibble boundary.
NoCarry(key) ==
    IF key[KeyLen] = Radix - 1 THEN <<>> ELSE [key EXCEPT ![KeyLen] = @ + 1]
\* The next key, empty past the last one.
key_successor(key) ==
    LET below == {n \in 1 .. KeyLen : key[n] < Radix - 1} IN
    IF below = {} THEN <<>>
    ELSE [n \in 1 .. KeyLen |-> CASE n < Max(below) -> key[n]
                                 [] n = Max(below) -> key[n] + 1
                                 [] n > Max(below) -> 0]

\* Where the leaves under prefix lie, seen from target.
rel(prefix, target) ==
    LET n == Min({Len(prefix), Len(target)})
        p == SubSeq(prefix, 1, n)
        t == SubSeq(target, 1, n)
    IN  CASE p = t         -> "OnPath"
          [] LexLess(p, t) -> "AllLess"
          [] LexLess(t, p) -> "AllGreater"
=============================================================================
