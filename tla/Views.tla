-------------------------------- MODULE Views --------------------------------
(***************************************************************************)
(* Reading the trie: point reads (get_value, get_storage), the scan, and   *)
(* the ordered cursors over leaves and over branches.  A reader works on a *)
(* frontier that does not change under it, the writer's own or the one a   *)
(* snapshot froze, so an operator of it is given as an argument.           *)
(*                                                                         *)
(* A walk is stateless but for the position of its cursor, the last key or *)
(* path it returned.  The memo of the last record parsed is the record.    *)
(* Every child of a branch has a hash: nodes under 32 bytes, which their   *)
(* parents hold inline, are not modelled.                                  *)
(***************************************************************************)
EXTENDS Frontier

CONSTANT
    Targets    \* the keys readers ask for

ASSUME ViewsAssumption == Targets \subseteq Key

\* An account's value: its RLP.
Body(f, root) == [fields |-> f, root |-> root]

-----------------------------------------------------------------------------
(* Point reads *)

RECURSIVE node_get(_, _, _)
node_get(node, nibbles, depth) ==
    CASE node.t = "Empty" -> Nothing
      [] node.t = "Leaf" ->
            IF From(nibbles, depth) = node.path THEN node.value ELSE Nothing
      [] node.t = "Account" ->
            IF From(nibbles, depth) = node.path THEN Body(node.fields, node.storage)
            ELSE Nothing
      [] node.t = "Extension" ->
            IF IsPrefix(node.path, From(nibbles, depth))
            THEN node_get(node.child, nibbles, depth + Len(node.path))
            ELSE Nothing
      [] node.t = "Branch" ->
            IF nibbles[depth + 1] \in DOMAIN node.kids
            THEN node_get(node.kids[nibbles[depth + 1]], nibbles, depth + 1)
            ELSE Nothing

\* Mutant: a record is entered at the depth of its whole prefix.
RecordGetAtPrefix(rec, nibbles) == node_get(rec.node, nibbles, Len(rec.prefix))
\* A record, on disk or in memory, is entered below its prefix.
RecordGet(rec, nibbles) == node_get(rec.node, nibbles, local_depth(rec.prefix))

RECURSIVE ram_get(_, _, _)
ram_get(n, nibbles, depth) ==
    CASE n.t = "Empty" -> Nothing
      [] n.t = "Extension" ->
            IF IsPrefix(n.path, From(nibbles, depth))
            THEN ram_get(n.child, nibbles, depth + Len(n.path))
            ELSE Nothing
      [] n.t = "Branch" ->
            LET c == ChildAt(n.kids, nibbles[depth + 1]) IN
            CASE c.c = "None" -> Nothing
              [] c.c = "Ram" -> ram_get(c.node, nibbles, depth + 1)
              [] c.c \in {"Disk", "Mem"} -> RecordGet(c.rec, nibbles)
              [] c.c = "Account" ->
                    IF From(nibbles, depth + 1) = c.path
                    THEN Body(c.fields, hash_ram(c.storage))
                    ELSE Nothing

\* The walk to the account of a slot, as far as its storage: with_account_storage
\* and record_account_storage, and the same descent in ram_get_storage and
\* node_get_storage.
RECURSIVE record_account_storage(_, _, _)
record_account_storage(node, nibbles, depth) ==
    CASE node.t \in {"Empty", "Leaf"} -> Nothing
      [] node.t = "Account" ->
            IF From(nibbles, depth) = node.path THEN [in |-> "Node", node |-> node.storage]
            ELSE Nothing
      [] node.t = "Extension" ->
            IF IsPrefix(node.path, From(nibbles, depth))
            THEN record_account_storage(node.child, nibbles, depth + Len(node.path))
            ELSE Nothing
      [] node.t = "Branch" ->
            IF nibbles[depth + 1] \in DOMAIN node.kids
            THEN record_account_storage(node.kids[nibbles[depth + 1]], nibbles, depth + 1)
            ELSE Nothing

RECURSIVE StorageBelow(_, _, _)
StorageBelow(n, nibbles, depth) ==
    CASE n.t = "Empty" -> Nothing
      [] n.t = "Extension" ->
            IF IsPrefix(n.path, From(nibbles, depth))
            THEN StorageBelow(n.child, nibbles, depth + Len(n.path))
            ELSE Nothing
      [] n.t = "Branch" ->
            LET c == ChildAt(n.kids, nibbles[depth + 1]) IN
            CASE c.c = "None" -> Nothing
              [] c.c = "Ram" -> StorageBelow(c.node, nibbles, depth + 1)
              [] c.c \in {"Disk", "Mem"} ->
                    record_account_storage(c.rec.node, nibbles, local_depth(c.rec.prefix))
              [] c.c = "Account" ->
                    IF From(nibbles, depth + 1) = c.path THEN [in |-> "Ram", node |-> c.storage]
                    ELSE Nothing
with_account_storage(n, key) == StorageBelow(n, key, 0)

get_value(n, key) == ram_get(n, key, 0)
SlotRead(st, slot) ==
    CASE st = Nothing     -> Nothing
      [] st # Nothing /\ st.in = "Node" -> node_get(st.node, slot, 0)
      [] st # Nothing /\ st.in = "Ram"  -> ram_get(st.node, slot, 0)
get_storage(n, key, slot) == SlotRead(with_account_storage(n, key), slot)

-----------------------------------------------------------------------------
(* The scan: every account, its slots after it *)

AccountLine(k, f)  == [account |-> k, fields |-> f]
SlotLine(a, s, v)  == [account |-> a, slot |-> s, value |-> v]
InOrder(kids)      == SetToSortSeq(DOMAIN kids, <)
ConcatKids(lines, kids) ==
    FoldLeft(LAMBDA all, i : all \o lines[i], <<>>, InOrder(kids))

RECURSIVE scan_record_node(_, _, _)
\* ctx is the account whose storage is walked, Nothing in the account trie.
scan_record_node(node, path, ctx) ==
    CASE node.t = "Empty" -> <<>>
      [] node.t = "Leaf" -> <<SlotLine(ctx, path \o node.path, node.value)>>
      [] node.t = "Account" ->
            <<AccountLine(path \o node.path, node.fields)>>
            \o scan_record_node(node.storage, <<>>, path \o node.path)
      [] node.t = "Extension" -> scan_record_node(node.child, path \o node.path, ctx)
      [] node.t = "Branch" ->
            ConcatKids([i \in DOMAIN node.kids |->
                          scan_record_node(node.kids[i], path \o <<i>>, ctx)], node.kids)

RECURSIVE scan_ram_node(_, _, _)
\* A record's path is its own prefix, less the account's part of a composite one.
scan_ram_child(c, prefix, ctx) ==
    CASE c.c = "Ram" -> scan_ram_node(c.node, prefix, ctx)
      [] c.c \in {"Disk", "Mem"} ->
            scan_record_node(c.rec.node,
                From(c.rec.prefix, Len(c.rec.prefix) - local_depth(c.rec.prefix)), ctx)
      [] c.c = "Account" ->
            <<AccountLine(prefix \o c.path, c.fields)>>
            \o scan_ram_node(c.storage, <<>>, prefix \o c.path)
scan_ram_node(n, prefix, ctx) ==
    CASE n.t = "Empty" -> <<>>
      [] n.t = "Extension" -> scan_ram_node(n.child, prefix \o n.path, ctx)
      [] n.t = "Branch" ->
            ConcatKids([i \in DOMAIN n.kids |->
                          scan_ram_child(n.kids[i], prefix \o <<i>>, ctx)], n.kids)
scan(n) == scan_ram_node(n, <<>>, Nothing)
\* One child of the root branch at a time.
scan_top(n, i) == IF i \in DOMAIN n.kids THEN scan_ram_child(n.kids[i], <<i>>, Nothing) ELSE <<>>

-----------------------------------------------------------------------------
(* Ordered cursors over leaves.  A hit is a key and what its leaf holds. *)

Hit(k, out) == [key |-> k, out |-> out]

\* The first child, in nibble order, under which something was found.
FirstHit(found) ==
    LET hits == {i \in DOMAIN found : found[i] # Nothing} IN
    IF hits = {} THEN Nothing ELSE found[Min(hits)]

\* The children a search looks into, and those where it takes the minimum.
Start(depth, target, min) == IF min \/ depth >= Len(target) THEN 0 ELSE target[depth + 1]
KidsFrom(kids, start)     == {i \in DOMAIN kids : i >= start}
\* Mutant: the target still constrains the children past its own nibble.
MinBelowOnlyIf(i, start, depth, target, min) == min \/ depth >= Len(target)
MinBelow(i, start, depth, target, min) == min \/ i > start \/ depth >= Len(target)

RECURSIVE node_seek(_, _, _, _)
\* The smallest leaf of node, at prefix, that is not below target; min stands
\* for any leaf.
node_seek(node, prefix, target, min) ==
    CASE node.t = "Empty" -> Nothing
      [] node.t = "Leaf" ->
            IF min \/ ~LexLess(prefix \o node.path, target)
            THEN Hit(prefix \o node.path, node.value) ELSE Nothing
      [] node.t = "Account" ->
            IF min \/ ~LexLess(prefix \o node.path, target)
            THEN Hit(prefix \o node.path, Body(node.fields, node.storage)) ELSE Nothing
      [] node.t = "Extension" ->
            LET r == rel(prefix \o node.path, target) IN
            IF ~min /\ r = "AllLess" THEN Nothing
            ELSE node_seek(node.child, prefix \o node.path, target, min \/ r = "AllGreater")
      [] node.t = "Branch" ->
            LET d == Len(prefix)
                start == Start(d, target, min)
            IN  FirstHit([i \in KidsFrom(node.kids, start) |->
                            node_seek(node.kids[i], prefix \o <<i>>, target,
                                      MinBelow(i, start, d, target, min))])

RECURSIVE ram_seek(_, _, _, _)
ram_child_seek(c, prefix, target, min) ==
    CASE c.c = "Ram" -> ram_seek(c.node, prefix, target, min)
      [] c.c \in {"Disk", "Mem"} -> node_seek(c.rec.node, prefix, target, min)
      [] c.c = "Account" ->
            IF min \/ ~LexLess(prefix \o c.path, target)
            THEN Hit(prefix \o c.path, Body(c.fields, hash_ram(c.storage))) ELSE Nothing
ram_seek(n, prefix, target, min) ==
    CASE n.t = "Empty" -> Nothing
      [] n.t = "Extension" ->
            LET r == rel(prefix \o n.path, target) IN
            IF ~min /\ r = "AllLess" THEN Nothing
            ELSE ram_seek(n.child, prefix \o n.path, target, min \/ r = "AllGreater")
      [] n.t = "Branch" ->
            LET d == Len(prefix)
                start == Start(d, target, min)
            IN  FirstHit([i \in KidsFrom(n.kids, start) |->
                            ram_child_seek(n.kids[i], prefix \o <<i>>, target,
                                           MinBelow(i, start, d, target, min))])

AccountSeek(n, target) == ram_seek(n, <<>>, target, FALSE)
\* st is what with_account_storage found.
StorageSeek(st, target) ==
    CASE st = Nothing -> Nothing
      [] st # Nothing /\ st.in = "Node" -> node_seek(st.node, <<>>, target, FALSE)
      [] st # Nothing /\ st.in = "Ram"  -> ram_seek(st.node, <<>>, target, FALSE)

\* What a loop over next() returns once a seek gave hit: next seeks the key after
\* the last one, and the end of the trie or of the key space ends it.
RECURSIVE AccountsFrom(_, _), SlotsFrom(_, _)
AccountsFrom(n, hit) ==
    IF hit = Nothing THEN <<>>
    ELSE <<hit>> \o (IF key_successor(hit.key) = <<>> THEN <<>>
                     ELSE AccountsFrom(n, AccountSeek(n, key_successor(hit.key))))
SlotsFrom(st, hit) ==
    IF hit = Nothing THEN <<>>
    ELSE <<hit>> \o (IF key_successor(hit.key) = <<>> THEN <<>>
                     ELSE SlotsFrom(st, StorageSeek(st, key_successor(hit.key))))

-----------------------------------------------------------------------------
(* Ordered cursors over branches *)

HasBranch(n) == n.t \in {"Branch", "Extension"}

\* A child of a branch: its hash, if the entry is to have it, and whether there
\* is a branch below.
classify_node_child(n) == [hash |-> <<n>>, below |-> HasBranch(n)]
classify_ram_child(c) ==
    CASE c.c = "Ram"            -> [hash |-> <<hash_ram(c.node)>>, below |-> HasBranch(c.node)]
      [] c.c \in {"Disk", "Mem"} -> [hash |-> <<c.root>>, below |-> HasBranch(c.rec.node)]
      [] c.c = "Account"        -> [hash |-> <<>>, below |-> FALSE]

\* Mutant: every child whose hash is listed is taken to have branches below.
EntryAllHashed(path, kids) ==
    [path |-> path, state |-> DOMAIN kids,
     tree |-> {i \in DOMAIN kids : kids[i].hash # <<>>},
     hashes |-> [i \in {j \in DOMAIN kids : kids[j].hash # <<>>} |-> kids[i].hash[1]]]
\* The masks are sets of nibbles; hash_mask is the domain of hashes.
build_branch_entry(path, kids) ==
    [path |-> path, state |-> DOMAIN kids, tree |-> {i \in DOMAIN kids : kids[i].below},
     hashes |-> [i \in {j \in DOMAIN kids : kids[j].hash # <<>>} |-> kids[i].hash[1]]]

lex_ge(path, target) == ~LexLess(path, target)
prefix_range_all_less(prefix, target) == rel(prefix, target) = "AllLess"

RECURSIVE node_branch_seek(_, _, _)
\* The first branch, in pre-order, whose path is not below target.
node_branch_seek(node, prefix, target) ==
    CASE node.t \in {"Empty", "Leaf", "Account"} \/ prefix_range_all_less(prefix, target) ->
            Nothing
      [] node.t = "Extension" -> node_branch_seek(node.child, prefix \o node.path, target)
      [] node.t = "Branch" ->
            IF lex_ge(prefix, target)
            THEN build_branch_entry(prefix, [i \in DOMAIN node.kids |->
                                              classify_node_child(node.kids[i])])
            ELSE FirstHit([i \in DOMAIN node.kids |->
                             node_branch_seek(node.kids[i], prefix \o <<i>>, target)])

RECURSIVE ram_branch_seek(_, _, _)
RamChildBranchSeek(c, prefix, target) ==
    CASE c.c = "Ram"              -> ram_branch_seek(c.node, prefix, target)
      [] c.c \in {"Disk", "Mem"} -> node_branch_seek(c.rec.node, prefix, target)
      [] c.c = "Account"          -> Nothing
ram_branch_seek(n, prefix, target) ==
    CASE n.t = "Empty" \/ prefix_range_all_less(prefix, target) -> Nothing
      [] n.t = "Extension" -> ram_branch_seek(n.child, prefix \o n.path, target)
      [] n.t = "Branch" ->
            IF lex_ge(prefix, target)
            THEN build_branch_entry(prefix, [i \in DOMAIN n.kids |->
                                              classify_ram_child(n.kids[i])])
            ELSE FirstHit([i \in DOMAIN n.kids |->
                             RamChildBranchSeek(n.kids[i], prefix \o <<i>>, target)])

\* The root branch is never returned.
PastRoot(path) == IF path = <<>> THEN <<0>> ELSE path
TrieNodeSeek(n, path) == ram_branch_seek(n, <<>>, PastRoot(path))
StorageTrieNodeSeek(st, path) ==
    CASE st = Nothing -> Nothing
      [] st # Nothing /\ st.in = "Node" -> node_branch_seek(st.node, <<>>, PastRoot(path))
      [] st # Nothing /\ st.in = "Ram"  -> ram_branch_seek(st.node, <<>>, PastRoot(path))

\* next() continues at the first path after the last one.
AfterPath(path) == path \o <<0>>
RECURSIVE BranchesFrom(_, _), StorageBranchesFrom(_, _)
BranchesFrom(n, e) ==
    IF e = Nothing THEN <<>>
    ELSE <<e>> \o BranchesFrom(n, TrieNodeSeek(n, AfterPath(e.path)))
StorageBranchesFrom(st, e) ==
    IF e = Nothing THEN <<>>
    ELSE <<e>> \o StorageBranchesFrom(st, StorageTrieNodeSeek(st, AfterPath(e.path)))

-----------------------------------------------------------------------------
(* Properties.  Each compares what readers of the frontier see with want. *)

HeldBody(a) == Body(want[a].fields, StorageTrie(want[a].slots))
SlotsOf(a)  == IF a \in DOMAIN want THEN want[a].slots ELSE <<>>
Zero        == [n \in 1 .. KeyLen |-> 0]
InKeyOrderOf(keys) == SetToSortSeq(keys, KeyBefore)
\* The entries of f at the keys that are not before target, the first of them.
FirstFrom(f, target) ==
    LET keys == InKeyOrderOf({k \in DOMAIN f : ~KeyBefore(k, target)}) IN
    IF keys = <<>> THEN Nothing ELSE Hit(keys[1], f[keys[1]])
AllOf(f) == LET keys == InKeyOrderOf(DOMAIN f) IN [i \in DOMAIN keys |-> Hit(keys[i], f[keys[i]])]

\* A point read returns what was last written, for keys that are there and keys
\* that are not, through records, in-memory leaves and promoted accounts.
ReadsReturnHeld ==
    err = "none" =>
        \A k \in Targets :
            /\ get_value(upper, k) = IF k \in DOMAIN want THEN HeldBody(k) ELSE Nothing
            /\ \A a \in DOMAIN SlotOf :
                  get_storage(upper, a, k) =
                      IF k \in DOMAIN SlotsOf(a) THEN SlotsOf(a)[k] ELSE Nothing

\* A seek finds the smallest key that is not below its target (cursor.rs: "the
\* smallest leaf with key `>= k`"), with its fields and the root of its storage.
SeekFindsSuccessor ==
    err = "none" =>
        LET bodies == [a \in DOMAIN want |-> HeldBody(a)] IN
        \A k \in Targets :
            /\ AccountSeek(upper, k) = FirstFrom(bodies, k)
            /\ \A a \in DOMAIN SlotOf :
                  StorageSeek(with_account_storage(upper, a), k) = FirstFrom(SlotsOf(a), k)

\* next(), from the first key, visits every account and every slot once and in
\* order, and stops; so does the scan, in one walk or by the children of the
\* root ("in ascending key order", "accounts are emitted before their slots").
ScanLines(a) ==
    <<AccountLine(a, want[a].fields)>>
    \o [i \in DOMAIN AllOf(want[a].slots) |->
          SlotLine(a, AllOf(want[a].slots)[i].key, AllOf(want[a].slots)[i].out)]
CursorsVisitAll ==
    err = "none" =>
        /\ AccountsFrom(upper, AccountSeek(upper, Zero)) = AllOf([a \in DOMAIN want |-> HeldBody(a)])
        /\ \A a \in DOMAIN SlotOf :
              LET st == with_account_storage(upper, a) IN
              SlotsFrom(st, StorageSeek(st, Zero)) = AllOf(SlotsOf(a))
        /\ LET keys  == InKeyOrderOf(DOMAIN want)
               lines == FlattenSeq([i \in DOMAIN keys |-> ScanLines(keys[i])])
           IN  /\ scan(upper) = lines
               /\ upper.t = "Branch" =>
                    FlattenSeq([i \in 1 .. Radix |-> scan_top(upper, i - 1)]) = lines

RECURSIVE BranchesUnder(_, _)
\* The branches of a trie with their paths.
BranchesUnder(n, path) ==
    CASE n.t \in {"Empty", "Leaf", "Account"} -> {}
      [] n.t = "Extension" -> BranchesUnder(n.child, path \o n.path)
      [] n.t = "Branch" ->
            {[path |-> path, kids |-> n.kids]}
            \cup UNION {BranchesUnder(n.kids[i], path \o <<i>>) : i \in DOMAIN n.kids}
\* The children of b that are promoted accounts.
PromotedKids(b) ==
    {i \in DOMAIN b.kids : /\ b.kids[i].t = "Account"
                           /\ IsPromoted(upper, b.path \o <<i>> \o b.kids[i].path, 0)}
\* The entry of a branch: below an extension or a branch there is a branch.
TrueEntry(b, unhashed) ==
    [path |-> b.path, state |-> DOMAIN b.kids,
     tree |-> {i \in DOMAIN b.kids : HasBranch(b.kids[i])},
     hashes |-> [i \in DOMAIN b.kids \ unhashed |-> b.kids[i]]]
InPathOrder(entries) == SetToSortSeq(entries, LAMBDA a, b : LexLess(a.path, b.path))
AccountBranches ==
    InPathOrder({TrueEntry(b, PromotedKids(b)) :
                   b \in {c \in BranchesUnder(ReferenceTrie(0), <<>>) : c.path # <<>>}})
StorageBranches(a) ==
    InPathOrder({TrueEntry(b, {}) :
                   b \in {c \in BranchesUnder(StorageTrie(SlotsOf(a)), <<>>) : c.path # <<>>}})

\* The branch cursors return the branches of the trie, but the root, in
\* pre-order, however the trie is cut into records; the masks are exact, and the
\* hashes those of the children, left out for promoted accounts.
BranchCursorsExact ==
    err = "none" =>
        /\ BranchesFrom(upper, TrieNodeSeek(upper, <<>>)) = AccountBranches
        /\ \A a \in DOMAIN SlotOf :
              LET st == with_account_storage(upper, a) IN
              StorageBranchesFrom(st, StorageTrieNodeSeek(st, <<>>)) = StorageBranches(a)

=============================================================================
