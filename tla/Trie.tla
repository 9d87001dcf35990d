-------------------------------- MODULE Trie --------------------------------
(***************************************************************************)
(* The node trees inside records: a Merkle-Patricia trie of nibble paths   *)
(* whose account leaves hold a storage trie of the same kind.  The         *)
(* operators are the structural core of the engine: record_node_insert,    *)
(* record_node_delete and what they call.                                  *)
(*                                                                         *)
(* fields stands for nonce, balance and code hash.  A branch holds its     *)
(* present children as a function on their nibbles.  A lazily parsed       *)
(* subtree (Raw) is the subtree it parses to, and the reference a node     *)
(* caches (nref) is the node: the hash is taken to be injective, so a      *)
(* subtree stands for its own hash.                                        *)
(*                                                                         *)
(* Not modelled: an opaque account leaf (an account inserted as a plain    *)
(* value), so that an operation always meets the kind of leaf it is for;   *)
(* on-disk Overflow nodes, which this build never writes.                  *)
(***************************************************************************)
EXTENDS Paths

CONSTANT
    EmptyFields   \* nonce 0, balance 0, the empty code hash

EmptyNode          == [t |-> "Empty"]
Leaf(p, v)         == [t |-> "Leaf", path |-> p, value |-> v]
Account(p, f, st)  == [t |-> "Account", path |-> p, fields |-> f, storage |-> st]
Extension(p, n)    == [t |-> "Extension", path |-> p, child |-> n]
Branch(kids)       == [t |-> "Branch", kids |-> kids]

\* make_extension, where the path may be empty.
ExtensionOver(p, n) == IF p = <<>> THEN n ELSE Extension(p, n)

Put(kids, i, n) == (i :> n) @@ kids
Without(kids, i) == [j \in DOMAIN kids \ {i} |-> kids[j]]
LoneKid(kids)   == CHOOSE j \in DOMAIN kids : TRUE

\* What is placed or deleted at a key (LeafOp, DeleteOp).
SetValue(v)      == [op |-> "Value", value |-> v]
SetFields(f)     == [op |-> "Account", fields |-> f]
SetSlot(s, v)    == [op |-> "Storage", slot |-> s, value |-> v]
DeleteValue      == [op |-> "Value"]
DeleteLeaf       == [op |-> "Account"]
DeleteSlot(s)    == [op |-> "Storage", slot |-> s]
WipeSlots        == [op |-> "WipeStorage"]

-----------------------------------------------------------------------------
(* Insertion *)

\* The node of a key that is not there yet, below the first depth nibbles.
place_new(key, op, depth) ==
    LET path == From(key, depth) IN
    CASE op.op = "Value"   -> Leaf(path, op.value)
      [] op.op = "Account" -> Account(path, op.fields, EmptyNode)
      [] op.op = "Storage" -> Account(path, EmptyFields, Leaf(op.slot, op.value))

RECURSIVE record_node_insert(_, _, _, _)

\* The operation at an exact match.
apply_op(old, op) ==
    CASE op.op = "Value"   -> Leaf(old.path, op.value)
      [] op.op = "Account" -> [old EXCEPT !.fields = op.fields]
      [] op.op = "Storage" ->
            [old EXCEPT !.storage = record_node_insert(@, 0, op.slot, SetValue(op.value))]

\* A path splits after n nibbles: what was under it moves below the branch
\* (under), the new key is placed beside it.
Split(path, n, under, key, op, depth) ==
    ExtensionOver(SubSeq(path, 1, n),
        Branch((path[n + 1] :> under)
               @@ (key[depth + n + 1] :> place_new(key, op, depth + n + 1))))

record_node_insert(node, depth, key, op) ==
    CASE node.t = "Empty" -> place_new(key, op, depth)
      [] node.t \in {"Leaf", "Account"} ->
            LET n == common_prefix(node.path, From(key, depth)) IN
            IF n = Len(node.path) THEN apply_op(node, op)
            ELSE Split(node.path, n, [node EXCEPT !.path = From(@, n + 1)], key, op, depth)
      [] node.t = "Extension" ->
            LET n == common_prefix(node.path, From(key, depth)) IN
            IF n = Len(node.path)
            THEN [node EXCEPT !.child = record_node_insert(@, depth + n, key, op)]
            ELSE Split(node.path, n, ExtensionOver(From(node.path, n + 1), node.child),
                       key, op, depth)
      [] node.t = "Branch" ->
            LET i == key[depth + 1] IN
            Branch(Put(node.kids, i,
                IF i \in DOMAIN node.kids
                THEN record_node_insert(node.kids[i], depth + 1, key, op)
                ELSE place_new(key, op, depth + 1)))

-----------------------------------------------------------------------------
(* Deletion.  A result is an outcome and the node it leaves. *)

Absent(n)  == [out |-> "Absent", node |-> n]
Changed(n) == [out |-> "Changed", node |-> n]
Removed    == [out |-> "Removed", node |-> EmptyNode]

\* A survivor moves up, absorbing the nibbles of edge.
prepend_path(node, edge) ==
    IF node.t = "Branch" THEN ExtensionOver(edge, node)
    ELSE [node EXCEPT !.path = edge \o @]

RECURSIVE record_node_delete(_, _, _, _)

\* The account old, after the deletion of a slot gave r.
AccountAfter(r, old) ==
    IF r.out = "Absent" THEN Absent(old) ELSE Changed([old EXCEPT !.storage = r.node])

apply_delete_op(old, op) ==
    CASE op.op \in {"Value", "Account"} -> Removed
      [] op.op = "Storage" ->
            AccountAfter(record_node_delete(old.storage, 0, op.slot, DeleteValue), old)
      [] op.op = "WipeStorage" ->
            IF old.storage = EmptyNode THEN Absent(old)
            ELSE Changed([old EXCEPT !.storage = EmptyNode])

\* Mutant: a lone survivor stays under its branch.
FoldBranchKeepsLone(kids) ==
    IF DOMAIN kids = {} THEN Removed ELSE Changed(Branch(kids))
\* A branch that lost a child: gone, merged into its lone survivor, or a branch.
FoldBranch(kids) ==
    CASE Cardinality(DOMAIN kids) = 0 -> Removed
      [] Cardinality(DOMAIN kids) = 1 ->
            LET j == LoneKid(kids) IN Changed(prepend_path(kids[j], <<j>>))
      [] OTHER -> Changed(Branch(kids))

\* The extension, and the branch, after the deletion below it gave r.
ExtensionAfter(r, node) ==
    CASE r.out = "Absent"  -> Absent(node)
      [] r.out = "Removed" -> Removed
      [] r.out = "Changed" -> Changed(prepend_path(r.node, node.path))
BranchAfter(r, node, i) ==
    CASE r.out = "Absent"  -> Absent(node)
      [] r.out = "Removed" -> FoldBranch(Without(node.kids, i))
      [] r.out = "Changed" -> Changed(Branch(Put(node.kids, i, r.node)))

record_node_delete(node, depth, key, op) ==
    CASE node.t = "Empty" -> Absent(node)
      [] node.t \in {"Leaf", "Account"} ->
            IF node.path = From(key, depth) THEN apply_delete_op(node, op) ELSE Absent(node)
      [] node.t = "Extension" ->
            IF ~IsPrefix(node.path, From(key, depth)) THEN Absent(node)
            ELSE ExtensionAfter(
                    record_node_delete(node.child, depth + Len(node.path), key, op), node)
      [] node.t = "Branch" ->
            LET i == key[depth + 1] IN
            IF i \notin DOMAIN node.kids THEN Absent(node)
            ELSE BranchAfter(record_node_delete(node.kids[i], depth + 1, key, op), node, i)

-----------------------------------------------------------------------------
(* The reference: the one trie that Ethereum's rules give a set of keys.   *)
(* leafOf maps each key to its leaf, with an empty path.                   *)

RECURSIVE Canonical(_, _)
Canonical(leafOf, depth) ==
    LET keys == DOMAIN leafOf
        any  == CHOOSE k \in keys : TRUE
        n    == Min({common_prefix(any, k) : k \in keys})
        Through(i) == [k \in {q \in keys : q[depth + 1] = i} |-> leafOf[k]]
    IN  CASE keys = {} -> EmptyNode
          [] Cardinality(keys) = 1 -> [leafOf[any] EXCEPT !.path = From(any, depth)]
          [] OTHER ->
                IF n > depth THEN Extension(SubSeq(any, depth + 1, n), Canonical(leafOf, n))
                ELSE Branch([i \in {k[depth + 1] : k \in keys} |->
                                Canonical(Through(i), depth + 1)])
=============================================================================
