----------------------------- MODULE FrontierCut -----------------------------
(***************************************************************************)
(* What the frontier promises, without the trees: where the state trie is  *)
(* cut into records, through every operation on an account.                *)
(*                                                                         *)
(* branches holds the paths of the frontier's branches; an extension is    *)
(* what lies between two of them.  slots holds the children that are no    *)
(* frontier nodes, at their paths: records, on disk (Disk) or in memory    *)
(* (Mem), and promoted accounts (Account).  A record is its prefix and the *)
(* accounts in it; the node tree inside is module Trie's subject, the      *)
(* storage of an account is part of its value, and module Frontier, which  *)
(* has both, implements this one.                                          *)
(*                                                                         *)
(* The sizes that decide what is promoted are left open: a record that is  *)
(* rewritten may be lifted into the frontier down to any of its branches.  *)
(* So is what decides between Disk and Mem, the modes of the code.  A      *)
(* group of apply_block is one of the actions on accounts; the groups of a *)
(* block that fans out run between StartFanOut and EndFanOut, in any order.*)
(*                                                                         *)
(* Not modelled here: the panic of apply_block (module BlockUpdate), the   *)
(* errors of the file system, the records of promoted storage.             *)
(***************************************************************************)
EXTENDS Paths

CONSTANTS
    Keys,   \* the accounts used
    Val     \* what an account can be: its fields and its storage

ASSUME CutAssumption == Keys \subseteq Key

VARIABLES
    branches,  \* the frontier's branches
    slots,     \* the frontier's other children, a function on their paths
    live,      \* the records of the file that are not freed
    fanOut,    \* the groups of a block run under the top branch
    err,       \* the error that ended the last operation
    want       \* what the trie should hold; never read

vars == <<branches, slots, live, fanOut, err, want>>

-----------------------------------------------------------------------------
Record(p, d) == [prefix |-> p, data |-> d]
Slot(c, r)   == [kind |-> c, rec |-> r]
RecordKinds  == {"Disk", "Mem"}
Kinds        == {"Disk", "Mem", "Account"}

Only(k, v)       == [x \in {k} |-> v]
Over(d, e)       ==
    [x \in DOMAIN d \cup DOMAIN e |-> IF x \in DOMAIN d THEN d[x] ELSE e[x]]
Put(d, k, v)     == Over(Only(k, v), d)
Without(d, k)    == Restrict(d, DOMAIN d \ {k})
IsAlone(d)       == \A k, l \in DOMAIN d : k = l

\* A free of a record that is not live, or a second copy of a live one.
Corrupt == Record(<<>>, <<>>)
Free(s, recs)  == (s \ recs) \cup (IF recs \subseteq s THEN {} ELSE {Corrupt})
Write(s, recs) == s \cup recs \cup (IF recs \cap s = {} THEN {} ELSE {Corrupt})
FreedOf(c)     == IF c.kind = "Disk" THEN {c.rec} ELSE {}

\* What of the branches of the trie of ks may be above the records.
IsTopPart(bs, ks) ==
    /\ bs \subseteq BranchPoints(ks)
    /\ \A b \in bs, c \in BranchPoints(ks) : IsPrefix(c, b) => c \in bs
\* The children of bs where the trie of ks goes on below it.
Ends(bs, ks) ==
    {q \in UNION {{Toward(b, k) : k \in Under(b, ks)} : b \in bs} :
        \A b \in bs : ~IsPrefix(q, b)}

\* Where the walk for a key leaves the branches: the last one on its way, or a
\* place in the extension that leads elsewhere.
LeavesAt(m, k) ==
    /\ \E b \in branches : m = Meet(b, k)
    /\ \A b \in branches : IsPrefix(Meet(b, k), m)
\* The child a walk for k ends at.
ChildFor(m, k) == Toward(m, k)

\* The children of a branch, when the other children are those of s.
Kids(m, s) ==
    {q \in DOMAIN s : IsChild(m, q)}
    \cup {Toward(m, b) : b \in {c \in branches : IsStrictPrefix(m, c)}}

-----------------------------------------------------------------------------
(* The content d becomes frontier children at path p: one, or those below  *)
(* the branches bs that are lifted.                                        *)

Pieces(p, d, bs) == IF bs = {} THEN {p} ELSE Ends(bs, DOMAIN d)
RecordAt(q, d)   == Record(q, Restrict(d, Under(q, DOMAIN d)))

\* An account is promoted only alone.
MayBe(c, q, d) == c = "Account" => IsAlone(RecordAt(q, d).data)

Place(p, d, bs, kinds, s, recs) ==
    LET new == Pieces(p, d, bs) IN
    \E kind \in [new -> kinds] :
        /\ \A q \in new : MayBe(kind[q], q, d)
        /\ slots' = Over([q \in new |-> Slot(kind[q], RecordAt(q, d))], s)
        /\ live' = Write(recs, {RecordAt(q, d) : q \in {n \in new : kind[n] = "Disk"}})

\* finish_child, and RewrittenChild: a record that was rewritten.
Finish(p, d, s, recs) ==
    \E bs \in SUBSET BranchPoints(DOMAIN d) :
        /\ IsTopPart(bs, DOMAIN d)
        /\ branches' = branches \cup bs
        /\ Place(p, d, bs, Kinds, s, recs)

-----------------------------------------------------------------------------
(* A branch that lost a child *)

\* Mutant: the record of the survivor is not freed.
RehomeWithoutFree(a, m, q, s, recs) ==
    /\ branches' = branches \ {m}
    /\ Place(Toward(a, m), s[q].rec.data, {},
             IF s[q].kind = "Disk" THEN RecordKinds ELSE {s[q].kind},
             Without(s, q), recs)
\* Mutant: the survivor stays where it was.
RehomeInPlace(a, m, q, s, recs) ==
    /\ branches' = branches \ {m}
    /\ Place(q, s[q].rec.data, {},
             IF s[q].kind = "Disk" THEN RecordKinds ELSE {s[q].kind},
             Without(s, q), Free(recs, FreedOf(s[q])))
\* rehome_child: the survivor moves up to where m was, below the branch a.
Rehome(a, m, q, s, recs) ==
    /\ branches' = branches \ {m}
    /\ Place(Toward(a, m), s[q].rec.data, {},
             IF s[q].kind = "Disk" THEN RecordKinds ELSE {s[q].kind},
             Without(s, q), Free(recs, FreedOf(s[q])))

\* collapse_root: the survivor becomes the top, if there are two accounts in it.
collapse_root(m, q, s, recs) ==
    LET d == s[q].rec.data IN
    \/ /\ IsAlone(d)
       /\ err' = "below two keys"
       /\ branches' = {} /\ slots' = <<>> /\ live' = Free(recs, FreedOf(s[q]))
    \/ /\ ~IsAlone(d)
       /\ err' = err
       /\ \E bs \in SUBSET BranchPoints(DOMAIN d) :
            /\ bs # {} /\ IsTopPart(bs, DOMAIN d)
            /\ branches' = (branches \ {m}) \cup bs
            /\ Place(<<>>, d, bs, Kinds, Without(s, q), Free(recs, FreedOf(s[q])))

IsParent(a, m) ==
    /\ a \in branches /\ IsStrictPrefix(a, m)
    /\ \A b \in branches : IsStrictPrefix(b, m) => IsPrefix(b, a)

\* Mutant: a branch with a lone child stays.
FoldKeepsLone(m, s, recs) ==
    /\ slots' = s /\ live' = recs /\ err' = err
    /\ branches' = IF Kids(m, s) = {} THEN branches \ {m} ELSE branches
\* The branch m, when the other children are those of s: it stays, it goes, it
\* becomes part of an extension, or its last child moves up.
Fold(m, s, recs) ==
    \/ /\ \E p, q \in Kids(m, s) : p # q
       /\ UNCHANGED <<branches, err>> /\ slots' = s /\ live' = recs
    \/ /\ Kids(m, s) = {}
       /\ branches' = branches \ {m} /\ err' = err /\ slots' = s /\ live' = recs
    \/ \E q \in Kids(m, s) :
        /\ Kids(m, s) = {q}
        /\ \/ /\ q \notin DOMAIN s
              /\ branches' = branches \ {m} /\ err' = err /\ slots' = s /\ live' = recs
           \/ /\ q \in DOMAIN s
              /\ \E a \in branches : IsParent(a, m) /\ Rehome(a, m, q, s, recs) /\ err' = err
           \/ /\ q \in DOMAIN s
              /\ \A a \in branches : ~IsStrictPrefix(a, m)
              /\ collapse_root(m, q, s, recs)

-----------------------------------------------------------------------------
Init ==
    /\ branches = {} /\ slots = <<>> /\ live = {} /\ fanOut = FALSE /\ err = "none"
    /\ want = <<>>

\* The first account makes a branch at the root, with one child.
InsertFirst(k, v) ==
    /\ err = "none" /\ branches = {}
    /\ want' = Put(want, k, v)
    /\ branches' = {<<>>}
    /\ Place(Toward(<<>>, k), Only(k, v), {}, Kinds, slots, live)
    /\ UNCHANGED <<fanOut, err>>

\* An account where the trie has nothing: beside the children of a branch, or of
\* a new one that splits the extension the walk ends in.
InsertBeside(m, k, v) ==
    /\ err = "none" /\ LeavesAt(m, k) /\ ChildFor(m, k) \notin DOMAIN slots
    /\ want' = Put(want, k, v)
    /\ branches' = branches \cup {m}
    /\ Place(ChildFor(m, k), Only(k, v), {}, Kinds, slots, live)
    /\ UNCHANGED <<fanOut, err>>

\* An account where a promoted one is: a branch where the two part.
SplitAccount(m, k, v) ==
    LET p == ChildFor(m, k) IN
    /\ err = "none" /\ LeavesAt(m, k) /\ p \in DOMAIN slots
    /\ slots[p].kind = "Account"
    /\ want' = Put(want, k, v)
    /\ \E a \in DOMAIN slots[p].rec.data :
        LET n == Meet(a, k)
            d == slots[p].rec.data
        IN  /\ a # k
            /\ branches' = branches \cup {n}
            /\ Place(Toward(n, k), Only(k, v), {}, Kinds,
                     Put(Without(slots, p), Toward(n, a),
                         Slot("Account", RecordAt(Toward(n, a), d))), live)
    /\ UNCHANGED <<fanOut, err>>

\* An account in a record, inserted or changed, or a promoted one, changed (and
\* so perhaps demoted).
Rewrite(m, k, v) ==
    LET p == ChildFor(m, k) IN
    /\ err = "none" /\ LeavesAt(m, k) /\ p \in DOMAIN slots
    /\ slots[p].kind \in RecordKinds \/ k \in DOMAIN slots[p].rec.data
    /\ want' = Put(want, k, v)
    /\ Finish(p, Put(slots[p].rec.data, k, v), Without(slots, p),
              Free(live, FreedOf(slots[p])))
    /\ UNCHANGED <<fanOut, err>>

\* An account goes, others of its record stay.
Shrink(m, k) ==
    LET p == ChildFor(m, k) IN
    /\ err = "none" /\ LeavesAt(m, k) /\ p \in DOMAIN slots
    /\ k \in DOMAIN slots[p].rec.data /\ ~IsAlone(slots[p].rec.data)
    /\ want' = Without(want, k)
    /\ Finish(p, Without(slots[p].rec.data, k), Without(slots, p),
              Free(live, FreedOf(slots[p])))
    /\ UNCHANGED <<fanOut, err>>

\* The last account of a child goes, and the branch above folds; but the top of a
\* block that fans out, which waits for EndFanOut.
RemoveLast(m, k) ==
    LET p == ChildFor(m, k)
        s == Without(slots, p)
        l == Free(live, FreedOf(slots[p]))
    IN
    /\ err = "none" /\ LeavesAt(m, k) /\ p \in DOMAIN slots
    /\ k \in DOMAIN slots[p].rec.data /\ IsAlone(slots[p].rec.data)
    /\ want' = Without(want, k)
    /\ \/ fanOut /\ m = <<>> /\ slots' = s /\ live' = l /\ UNCHANGED <<branches, err>>
       \/ ~(fanOut /\ m = <<>>) /\ Fold(m, s, l)
    /\ UNCHANGED fanOut

\* apply_block: with a branch at the root, one thread for each of its children.
StartFanOut ==
    /\ err = "none" /\ ~fanOut /\ <<>> \in branches
    /\ fanOut' = TRUE
    /\ UNCHANGED <<branches, slots, live, err, want>>
EndFanOut ==
    /\ err = "none" /\ fanOut
    /\ Fold(<<>>, slots, live)
    /\ fanOut' = FALSE
    /\ UNCHANGED want

\* Mutant: a spilled record is written under the path of its parent.
SpillAtParent(ps) ==
    /\ err = "none" /\ ~fanOut
    /\ ps # {} /\ \A p \in ps : slots[p].kind = "Mem"
    /\ slots' = [p \in DOMAIN slots |->
                    IF p \in ps THEN Slot("Disk", Record(Front(p), slots[p].rec.data)) ELSE slots[p]]
    /\ live' = Write(live, {Record(Front(p), slots[p].rec.data) : p \in ps})
    /\ UNCHANGED <<branches, fanOut, err, want>>
\* Records in memory are written, each under the path of the walk.
Spill(ps) ==
    /\ err = "none" /\ ~fanOut
    /\ ps # {} /\ \A p \in ps : slots[p].kind = "Mem"
    /\ slots' = [p \in DOMAIN slots |->
                    IF p \in ps THEN Slot("Disk", Record(p, slots[p].rec.data)) ELSE slots[p]]
    /\ live' = Write(live, {Record(p, slots[p].rec.data) : p \in ps})
    /\ UNCHANGED <<branches, fanOut, err, want>>

Walks == {Meet(b, k) : b \in branches, k \in Keys}
Next ==
    \/ \E k \in Keys, v \in Val :
        \/ InsertFirst(k, v)
        \/ \E m \in Walks : InsertBeside(m, k, v) \/ SplitAccount(m, k, v) \/ Rewrite(m, k, v)
    \/ \E k \in Keys, m \in Walks : Shrink(m, k) \/ RemoveLast(m, k)
    \/ StartFanOut \/ EndFanOut
    \/ \E ps \in SUBSET DOMAIN slots : Spill(ps)

Spec == Init /\ [][Next]_vars

-----------------------------------------------------------------------------
(* Properties *)

\* Branches are shorter than keys; slots, the error and the accounts have their
\* types (RamNode, insert_ram and delete_ram).
TypeOK ==
    /\ branches \subseteq UNION {[1 .. n -> Nibble] : n \in 0 .. KeyLen - 1}
    /\ \A p \in DOMAIN slots : slots[p].kind \in Kinds
    /\ fanOut \in BOOLEAN
    /\ err \in {"none", "below two keys"}
    /\ DOMAIN want \subseteq Keys /\ \A k \in DOMAIN want : want[k] \in Val

\* The frontier is the top of the trie of the contents: its branches are branches
\* of that trie (but the root's may have one child), a branch above one of them
\* is among them too, and every account is below exactly one child.  delete_ram
\* folds branches and promote_record_to_ram lifts them, under a block's threads.
FrontierIsTop ==
    err = "none" =>
        /\ branches \subseteq BranchPoints(DOMAIN want) \cup {<<>>}
        /\ \A b \in branches, c \in BranchPoints(DOMAIN want) : IsPrefix(c, b) => c \in branches
        /\ \A k \in DOMAIN want : \E p \in DOMAIN slots :
              IsPrefix(p, k) /\ \A q \in DOMAIN slots : IsPrefix(q, k) => q = p

\* A read (get_value) walks to the child of its key, and finds what was last written.
get_value(k) ==
    LET found == {p \in DOMAIN slots : \E m \in Walks : LeavesAt(m, k) /\ p = ChildFor(m, k)
                                          /\ k \in DOMAIN slots[p].rec.data}
    IN  IF found = {} THEN Nothing ELSE slots[CHOOSE p \in found : TRUE].rec.data[k]
ReadsReturnWant ==
    err = "none" =>
        \A k \in Keys : get_value(k) = IF k \in DOMAIN want THEN want[k] ELSE Nothing

\* The records of the file that are not freed are the frontier's: insert_into_child,
\* delete_in_child, rehome_child and collapse_root free every record they replace,
\* once, and none that a slot still has.
LiveRecordsReferenced ==
    err = "none" => live = {slots[p].rec : p \in {q \in DOMAIN slots : slots[q].kind = "Disk"}}

\* A record's prefix is the path to its slot, which recovery looks it up by; a
\* record that rehome_child moves is written again under its new path.
RecordsAddressable ==
    err = "none" =>
        \A rec \in live : rec.prefix \in DOMAIN slots /\ slots[rec.prefix].rec = rec

\* collapse_root refuses a trie of one account, and nothing else.
FailsOnlyBelowTwoKeys == err # "none" => \E k \in DOMAIN want : DOMAIN want = {k}
=============================================================================
