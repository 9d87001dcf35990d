------------------------------- MODULE Reveal -------------------------------
(***************************************************************************)
(* The reveal walks: the nodes on the path of a key, copied out of the     *)
(* frontier and its records for a sparse trie that holds only hashes.      *)
(*                                                                         *)
(* A revealed node is its kind, its path and what it holds, its children   *)
(* as hashes.  The masks of a branch are sets of nibbles.                  *)
(***************************************************************************)
EXTENDS Views

RBranch(path, kids, tree, hash) ==
    [r |-> "Branch", path |-> path, kids |-> kids, tree |-> tree, hash |-> hash]
RExtension(path, key, child) ==
    [r |-> "Extension", path |-> path, key |-> key, child |-> child]
RLeaf(path, key, value) == [r |-> "Leaf", path |-> path, key |-> key, value |-> value]
REmptyRoot == [r |-> "EmptyRoot", path |-> <<>>]

\* The keys of one call share their upper nodes: a position is emitted once.
Emit(out, node) ==
    IF \E i \in DOMAIN out : out[i].path = node.path THEN out ELSE Append(out, node)

-----------------------------------------------------------------------------
(* Emission of a branch *)

\* Every child of a record is a node of the record.
emit_node_branch(out, path, kids) ==
    Emit(out, RBranch(path, kids, {i \in DOMAIN kids : HasBranch(kids[i])}, DOMAIN kids))

\* A record is not read for its bit of tree_mask, and a promoted account is in
\* neither mask.
RamTreeBit(c) == (c.c = "Ram" /\ HasBranch(c.node)) \/ c.c \in {"Disk", "Mem"}
\* Mutant: promoted accounts are in hash_mask too.
EmitAccountsHashed(out, path, kids) ==
    Emit(out, RBranch(path, [i \in DOMAIN kids |-> ram_child_hash(kids[i])],
                      {i \in DOMAIN kids : RamTreeBit(kids[i])}, DOMAIN kids))
emit_ram_branch(out, path, kids) ==
    Emit(out, RBranch(path, [i \in DOMAIN kids |-> ram_child_hash(kids[i])],
                      {i \in DOMAIN kids : RamTreeBit(kids[i])},
                      {i \in DOMAIN kids : kids[i].c # "Account"}))

-----------------------------------------------------------------------------
(* The walks.  A result is what has been emitted. *)

RECURSIVE walk_node(_, _, _, _)
\* An extension that the target leaves: the branch below it is emitted too.
walk_node_step(out, node, prefix, target) ==
    IF target = <<>> /\ node.t = "Branch" THEN emit_node_branch(out, prefix, node.kids)
    ELSE walk_node(out, node, prefix, target)
walk_node(out, node, prefix, target) ==
    CASE node.t = "Empty" -> out
      [] node.t = "Leaf" -> Emit(out, RLeaf(prefix, node.path, node.value))
      [] node.t = "Account" ->
            Emit(out, RLeaf(prefix, node.path, Body(node.fields, node.storage)))
      [] node.t = "Extension" ->
            walk_node_step(Emit(out, RExtension(prefix, node.path, node.child)), node.child,
                prefix \o node.path,
                IF IsPrefix(node.path, From(target, Len(prefix))) THEN target ELSE <<>>)
      [] node.t = "Branch" ->
            LET emitted == emit_node_branch(out, prefix, node.kids)
                d       == Len(prefix)
            IN  IF d >= Len(target) \/ target[d + 1] \notin DOMAIN node.kids THEN emitted
                ELSE walk_node(emitted, node.kids[target[d + 1]],
                               Append(prefix, target[d + 1]), target)

\* Mutant: nothing is emitted below an extension that the target leaves.
StepNothing(out, node, prefix) == out
walk_ram_step(out, node, prefix) ==
    IF node.t = "Branch" THEN emit_ram_branch(out, prefix, node.kids) ELSE out

RECURSIVE walk_ram(_, _, _, _)
walk_ram_child(out, c, prefix, target) ==
    CASE c.c = "Ram" -> walk_ram(out, c.node, prefix, target)
      [] c.c \in {"Disk", "Mem"} -> walk_node(out, c.rec.node, prefix, target)
      [] c.c = "Account" ->
            Emit(out, RLeaf(prefix, c.path, Body(c.fields, hash_ram(c.storage))))
walk_ram(out, n, prefix, target) ==
    CASE n.t = "Empty" -> IF prefix = <<>> THEN Emit(out, REmptyRoot) ELSE out
      [] n.t = "Extension" ->
            LET emitted == Emit(out, RExtension(prefix, n.path, hash_ram(n.child))) IN
            IF IsPrefix(n.path, From(target, Len(prefix)))
            THEN walk_ram(emitted, n.child, prefix \o n.path, target)
            ELSE walk_ram_step(emitted, n.child, prefix \o n.path)
      [] n.t = "Branch" ->
            LET emitted == emit_ram_branch(out, prefix, n.kids)
                d       == Len(prefix)
            IN  IF d >= Len(target) \/ target[d + 1] \notin DOMAIN n.kids THEN emitted
                ELSE walk_ram_child(emitted, n.kids[target[d + 1]],
                                    Append(prefix, target[d + 1]), target)

reveal_account_paths(n, keys) ==
    FoldLeft(LAMBDA out, k : walk_ram(out, n, <<>>, k), <<>>, keys)

OrEmptyRoot(out) == IF out = <<>> THEN <<REmptyRoot>> ELSE out
StorageReveal(st, slots) ==
    CASE st = Nothing -> Nothing
      [] st # Nothing /\ st.in = "Node" ->
            OrEmptyRoot(FoldLeft(LAMBDA out, s : walk_node(out, st.node, <<>>, s), <<>>, slots))
      [] st # Nothing /\ st.in = "Ram" ->
            OrEmptyRoot(FoldLeft(LAMBDA out, s : walk_ram(out, st.node, <<>>, s), <<>>, slots))
reveal_storage_paths(n, account, slots) ==
    StorageReveal(with_account_storage(n, account), slots)

\* Mutant: any leaf is taken for the key's.
ExtractAnyLeaf(nodes, key) ==
    LET leafs == SelectSeq(nodes, LAMBDA n : n.r = "Leaf") IN
    IF leafs = <<>> THEN Nothing ELSE leafs[1].value
\* The value of the leaf that ends the path of key.
extract_exact(nodes, key) ==
    LET exact == SelectSeq(nodes, LAMBDA n : n.r = "Leaf" /\ n.path \o n.key = key) IN
    IF exact = <<>> THEN Nothing ELSE exact[1].value

\* The value read with its reveal (get_value_reveal, get_storage_reveal).
get_value_reveal(n, key) == extract_exact(reveal_account_paths(n, <<key>>), key)
get_storage_reveal(n, account, slot) ==
    IF with_account_storage(n, account) = Nothing THEN get_storage(n, account, slot)
    ELSE extract_exact(reveal_storage_paths(n, account, <<slot>>), slot)

-----------------------------------------------------------------------------
(* Properties *)

\* What a branch, an extension or a leaf of a trie looks like revealed, without
\* the masks.
RECURSIVE TruePath(_, _, _)
Seen(n, path) ==
    CASE n.t = "Leaf"      -> RLeaf(path, n.path, n.value)
      [] n.t = "Account"   -> RLeaf(path, n.path, Body(n.fields, n.storage))
      [] n.t = "Extension" -> RExtension(path, n.path, n.child)
      [] n.t = "Branch"    -> [r |-> "Branch", path |-> path, kids |-> n.kids]
\* The nodes of a trie that a key's path meets, and the branch below an extension
\* at which it leaves the trie.
TruePath(n, path, key) ==
    CASE n.t = "Empty" -> {}
      [] n.t \in {"Leaf", "Account"} -> {Seen(n, path)}
      [] n.t = "Extension" ->
            {Seen(n, path)} \cup
            (IF IsPrefix(n.path, From(key, Len(path))) THEN TruePath(n.child, path \o n.path, key)
             ELSE {Seen(n.child, path \o n.path)})
      [] n.t = "Branch" ->
            LET i == key[Len(path) + 1] IN
            {Seen(n, path)} \cup
            (IF i \in DOMAIN n.kids THEN TruePath(n.kids[i], Append(path, i), key) ELSE {})
TruePaths(n, keys) ==
    IF n.t = "Empty" THEN {REmptyRoot}
    ELSE UNION {TruePath(n, <<>>, keys[i]) : i \in DOMAIN keys}

Unmasked(n) == IF n.r = "Branch" THEN [r |-> n.r, path |-> n.path, kids |-> n.kids] ELSE n
\* A walk emits each of the nodes once.
Reveals(out, nodes) ==
    Len(out) = Cardinality(nodes) /\ {Unmasked(out[i]) : i \in DOMAIN out} = nodes

\* The keys revealed together: each alone, and all of them.
KeyLists == {<<k>> : k \in Targets} \cup {SetToSeq(Targets)}

\* A reveal emits every node from the root to the key's leaf, or to where the
\* path leaves the trie, and nothing else, each with the hashes its trie has:
\* the sparse trie can check them against the root (reveal.rs: "every node from
\* the root to the leaf (or to the divergence point, for absent keys)").  An
\* account without storage reveals an empty root, never nothing.
RevealIsThePath ==
    err = "none" =>
        \A keys \in KeyLists :
            /\ Reveals(reveal_account_paths(upper, keys), TruePaths(hash_ram(upper), keys))
            /\ \A a \in DOMAIN SlotOf \cap DOMAIN want :
                  Reveals(reveal_storage_paths(upper, a, keys),
                          TruePaths(StorageTrie(want[a].slots), keys))

\* The masks of a revealed branch are those the branch cursor serves, but that
\* tree_mask may also have a record without a branch (reveal.rs: "Masks follow
\* the same conventions as the trie cursors").
MasksFollow(node, unhashed) ==
    /\ node.hash = DOMAIN node.kids \ unhashed
    /\ {i \in DOMAIN node.kids : HasBranch(node.kids[i])} \subseteq node.tree
    /\ node.tree \cap unhashed = {}
RevealMasksFollowCursors ==
    err = "none" =>
        \A k \in Targets :
            /\ LET out == reveal_account_paths(upper, <<k>>) IN
               \A i \in DOMAIN out :
                  out[i].r = "Branch" => MasksFollow(out[i], PromotedKids(out[i]))
            /\ \A a \in DOMAIN SlotOf \cap DOMAIN want :
                  LET out == reveal_storage_paths(upper, a, <<k>>) IN
                  \A i \in DOMAIN out : out[i].r = "Branch" => MasksFollow(out[i], {})

\* A read that comes with its reveal returns what the plain read does, for keys
\* that are there and keys that are not (get_value_reveal: "`get_value`
\* semantics for the value").
RevealedReadsAgree ==
    err = "none" =>
        \A k \in Targets :
            /\ get_value_reveal(upper, k) = get_value(upper, k)
            /\ \A a \in DOMAIN SlotOf :
                  get_storage_reveal(upper, a, k) = get_storage(upper, a, k)
=============================================================================
