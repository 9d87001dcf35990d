------------------------------- MODULE Cursor -------------------------------
(***************************************************************************)
(* An ordered cursor: over the leaves of a trie (AccountCursor,            *)
(* StorageCursor), or over its branches in pre-order (TrieNodeCursor,      *)
(* StorageTrieNodeCursor).  seek walks down from the root, next seeks what *)
(* comes after the last entry.                                             *)
(*                                                                         *)
(* The walk is taken node by node.  The code recurses; here "down" is a    *)
(* call on the node at, and "up" its return with None, after which the     *)
(* loop of the branch above goes on.  That branch is the next one on the   *)
(* path, so no stack is kept.  Nodes are at their paths: an extension is   *)
(* what lies between a child's path and the next node.  Where the trie is  *)
(* cut into records makes no difference to the walk; module Views has the  *)
(* walks on the nodes, with the cuts.                                      *)
(*                                                                         *)
(* The view does not change under a cursor, which borrows it.              *)
(***************************************************************************)
EXTENDS Paths

CONSTANT Keys    \* the keys that may be in the trie

ASSUME CursorAssumption == Keys \subseteq Key

VARIABLES
    held,      \* the keys in the trie
    branches,  \* its branches, and perhaps the frontier's root with one child
    over,      \* what the cursor returns: "leaves" or "branches"
    last,      \* what it returned last, <<>> when there was nothing more
    walk,      \* "none", "down" or "up"
    at,        \* the node the walk is at
    target,    \* what the walk is for
    min,       \* the walk takes the first leaf it finds
    start,     \* what the caller sought, <<>> before; never read
    seen       \* what was returned since; never read

trie   == <<held, branches, over>>
inWalk == <<at, target, min>>
vars   == <<trie, last, walk, inWalk, start, seen>>

-----------------------------------------------------------------------------
Node    == branches \cup held
Kids(b) == {Toward(b, k) : k \in Under(b, held)}

\* The node that a child at path p is, or that its extension leads to.
LeadsTo(p, n) ==
    /\ n \in Node /\ IsPrefix(p, n)
    /\ \A l \in Node : IsPrefix(p, l) => IsPrefix(n, l)
\* The first of some children.
FirstKid(qs) == {q \in qs : \A r \in qs : Last(q) <= Last(r)}

\* The call on the child at path p: node_seek and ram_seek, or node_branch_seek
\* and ram_branch_seek, up to the node below its extension.
Enter(p, m, t) ==
    \E n \in Node :
        LET extended == n \in branches /\ n # p
            skipped  == IF over = "leaves" THEN extended /\ ~m /\ rel(n, t) = "AllLess"
                        ELSE n \in held \/ rel(n, t) = "AllLess"
        IN  /\ LeadsTo(p, n)
            /\ at' = n /\ target' = t
            /\ min' = (over = "leaves" /\ (m \/ (extended /\ rel(n, t) = "AllGreater")))
            /\ walk' = IF skipped THEN "up" ELSE "down"

\* The seek returns.
Returned ==
    /\ walk' = "none" /\ at' = <<>> /\ target' = <<>> /\ min' = FALSE
Found(x) == Returned /\ last' = x /\ seen' = Append(seen, x) /\ UNCHANGED <<trie, start>>
NotFound == Returned /\ last' = <<>> /\ UNCHANGED <<trie, start, seen>>

-----------------------------------------------------------------------------
Init ==
    /\ \E ks \in SUBSET Keys :
        /\ held = ks
        /\ branches \in {BranchPoints(ks)}
                        \cup (IF ks = {} THEN {} ELSE {BranchPoints(ks) \cup {<<>>}})
    /\ over \in {"leaves", "branches"}
    /\ last = <<>> /\ walk = "none" /\ at = <<>> /\ target = <<>> /\ min = FALSE
    /\ start = <<>> /\ seen = <<>>

\* seek: an empty trie has nothing.
Begin(t) ==
    \/ held = {} /\ last' = <<>> /\ UNCHANGED <<walk, inWalk>>
    \/ held # {} /\ Enter(<<>>, FALSE, t) /\ UNCHANGED last
\* The root branch is never returned.
PastRoot(t) == IF t = <<>> THEN <<0>> ELSE t
Seek(t) ==
    /\ walk = "none"
    /\ t \in IF over = "leaves" THEN Key ELSE Path
    /\ Begin(PastRoot(t))
    /\ start' = PastRoot(t) /\ seen' = <<>>
    /\ UNCHANGED trie

\* Mutant: the next branch is sought from the last one itself.
AfterItself(x) == IF over = "leaves" THEN key_successor(x) ELSE x
\* next: what comes after a branch in pre-order is its first child.
After(x) == IF over = "leaves" THEN key_successor(x) ELSE Append(x, 0)
NextEntry ==
    /\ walk = "none" /\ last # <<>>
    /\ \/ After(last) = <<>> /\ last' = <<>> /\ UNCHANGED <<walk, inWalk>>
       \/ After(last) # <<>> /\ Begin(After(last))
    /\ UNCHANGED <<trie, start, seen>>

\* A leaf: not before the target, or nothing compared any more.
Leaf ==
    /\ walk = "down" /\ at \in held
    /\ \/ (min \/ ~LexLess(at, target)) /\ Found(at)
       \/ ~(min \/ ~LexLess(at, target)) /\ walk' = "up"
          /\ UNCHANGED <<trie, last, inWalk, start, seen>>

\* A branch: over branches, this one if it is not before the target; else its
\* children, for leaves from the target's on.
Branch ==
    /\ walk = "down" /\ at \in branches
    /\ LET from == IF over = "branches" \/ min THEN 0 ELSE target[Len(at) + 1]
           qs   == {q \in Kids(at) : Last(q) >= from}
       IN  \/ over = "branches" /\ ~LexLess(at, target) /\ Found(at)
           \/ /\ over = "branches" => LexLess(at, target)
              /\ \/ \E q \in FirstKid(qs) : Enter(q, min \/ Last(q) > from, target)
                 \/ qs = {} /\ walk' = "up" /\ UNCHANGED inWalk
              /\ UNCHANGED <<trie, last, start, seen>>

IsParent(b, n) ==
    /\ b \in branches /\ IsStrictPrefix(b, n)
    /\ \A c \in branches : IsStrictPrefix(c, n) => IsPrefix(c, b)
\* Mutant: the loop does not advance past the child that had nothing.
LaterKidsFromHere(b, n) == {q \in Kids(b) : Last(q) >= n[Len(b) + 1]}
LaterKids(b, n) == {q \in Kids(b) : Last(q) > n[Len(b) + 1]}
\* None comes back to the loop of the branch above, or to the caller.
Return ==
    /\ walk = "up"
    /\ \/ \E b \in branches :
            /\ IsParent(b, at)
            /\ \/ \E q \in FirstKid(LaterKids(b, at)) : Enter(q, TRUE, target)
               \/ LaterKids(b, at) = {} /\ at' = b /\ UNCHANGED <<walk, target, min>>
            /\ UNCHANGED <<trie, last, start, seen>>
       \/ (\A b \in branches : ~IsStrictPrefix(b, at)) /\ NotFound

Walk == Leaf \/ Branch \/ Return
Next == (\E t \in Path : Seek(t)) \/ NextEntry \/ Walk

\* A seek runs to its end.
Spec == Init /\ [][Next]_vars /\ WF_vars(Walk)

-----------------------------------------------------------------------------
(* Properties *)

Items == IF over = "leaves" THEN held ELSE branches \ {<<>>}

\* Where a cursor and its walk can be: over branches a walk goes down to branches
\* only, and the root branch is never returned ("never returned: reth's stored
\* tries filter it out").
TypeOK ==
    /\ held \subseteq Keys
    /\ last \in Items \cup {<<>>} /\ seen \in Seq(Items)
    /\ walk \in {"none", "down", "up"} /\ min \in BOOLEAN
    /\ walk # "none" => at \in Node
    /\ walk = "down" /\ over = "branches" => at \in branches

\* A seek and the calls of next after it have returned every entry from what was
\* sought up to the last one, and all of them when there is no last one, from
\* wherever the walks had to turn back (cursor.rs: "the smallest leaf with key
\* `>= k`", "continues strictly after the last returned path").
VisitsAll ==
    walk = "none" /\ start # <<>> =>
        ToSet(seen) = {x \in Items : ~LexLess(x, start) /\ (last # <<>> => ~LexLess(last, x))}

\* Entries are returned in order, and none of them twice, across the carries of
\* key_successor and the branches inside one another.
InOrder == \A j \in 1 .. Len(seen) : \A i \in 1 .. j - 1 : LexLess(seen[i], seen[j])

\* Every seek returns: the walk does not go down where it has been.
SeekReturns == walk # "none" ~> walk = "none"
=============================================================================
