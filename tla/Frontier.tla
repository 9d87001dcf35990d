------------------------------ MODULE Frontier ------------------------------
(***************************************************************************)
(* The RAM frontier over the flat file: the top of the state trie is held  *)
(* as RAM nodes whose leaves are records (on disk, or still in memory) and *)
(* promoted accounts, whose storage is a frontier of its own.  The single  *)
(* operations (insert_account, insert_storage, delete_account,             *)
(* delete_storage, wipe_storage), apply_block, insert_batch_accounts and   *)
(* the spill of in-memory records change it; each returns the root hash it *)
(* gives the trie.                                                         *)
(*                                                                         *)
(* A Disk child carries the record it points at, so a relocation, which    *)
(* copies a record and retargets its pointer, leaves the state alone; live *)
(* is the set of records written and not freed.  A record is a prefix and  *)
(* a node tree (module Trie); no two slots have the same prefix, so a      *)
(* record is identified by its value.  The size of a record is its number  *)
(* of leaves.                                                              *)
(*                                                                         *)
(* want is the contents the operations have asked for; it is never read.   *)
(*                                                                         *)
(* Not modelled here: the errors of the file system; the inverse that      *)
(* apply_block returns (module BlockUpdate).                               *)
(***************************************************************************)
EXTENDS Trie

CONSTANTS
    FieldsOf,     \* for each account key, the fields it is given
    SlotOf,       \* the slot keys used, for each account that has storage
    Val,          \* slot values
    None,         \* a slot an update deletes
    MaxLeafs,     \* values of the configuration's max_leaf_bytes, in leaves
    MaxRecord,    \* MAX_RECORD_BYTES, in leaves
    Blocks,       \* the blocks applied, each a function from accounts to updates
    Modes,        \* the configurations: whether hot records are kept, and whether
                  \* the trie is first built in memory
    Loads         \* the batches of whole accounts loaded, each a sequence of seeds

AccountKey == DOMAIN FieldsOf
Fields     == UNION {FieldsOf[a] : a \in AccountKey}

\* Keys are hashes: two account keys never share all but the last nibble, so a
\* frontier branch is never at the last nibble of an account key.
ASSUME FrontierAssumption ==
    /\ AccountKey \subseteq Key
    /\ \A a, b \in AccountKey : a # b => common_prefix(a, b) < KeyLen - 1
    /\ \A a \in DOMAIN SlotOf : a \in AccountKey /\ SlotOf[a] \subseteq Key
    /\ \A m \in MaxLeafs : m \in 1 .. MaxRecord
    /\ MaxRecord >= 2
    /\ \A entries \in Loads : \A i, j \in DOMAIN entries :
         i # j => entries[i].key # entries[j].key

VARIABLES
    upper,     \* the frontier
    live,      \* the records of the file that are not freed
    maxLeaf,   \* cfg.max_leaf_bytes
    hot,       \* hot_records_enabled: rewritten records stay in memory
    ramMode,   \* ram_mode: a build in memory, until the next persist
    err,       \* the error or panic that ended the last operation
    want       \* what the trie should hold, a partial function on accounts

vars == <<upper, live, maxLeaf, hot, ramMode, err, want>>

-----------------------------------------------------------------------------
(* Frontier nodes and children.  hash is the node's HashCell: <<>> or <<h>>. *)

RamEmpty          == [t |-> "Empty"]
RamExt(p, n)      == [t |-> "Extension", path |-> p, child |-> n, hash |-> <<>>]
RamBranch(kids)   == [t |-> "Branch", kids |-> kids, hash |-> <<>>]
RamExtOver(p, n)  == IF p = <<>> THEN n ELSE RamExt(p, n)

Record(p, n)      == [prefix |-> p, node |-> n]
NoRecord          == Record(<<>>, EmptyNode)
Ram(n)            == [c |-> "Ram", node |-> n]
Disk(rec)         == [c |-> "Disk", rec |-> rec, root |-> rec.node]
Mem(rec)          == [c |-> "Mem", rec |-> rec, root |-> rec.node]
Promoted(p, f, n) == [c |-> "Account", path |-> p, fields |-> f, storage |-> n]
NoChild           == [c |-> "None"]

ChildAt(kids, i)     == IF i \in DOMAIN kids THEN kids[i] ELSE NoChild
SetChild(kids, i, c) == IF c = NoChild THEN Without(kids, i) ELSE Put(kids, i, c)

\* A free of a record that is not live, or a second copy of a live one.
Corrupt == Record(<<>>, [t |-> "Corrupt"])
Free(s, recs)  == (s \ recs) \cup (IF recs \subseteq s THEN {} ELSE {Corrupt})
Write(s, recs) == s \cup recs \cup (IF recs \cap s = {} THEN {} ELSE {Corrupt})

\* Depth in the key of a position of the walk, and of a record's prefix: below
\* a promoted account both begin with the account's key.
walk_depth(prefix)  == IF Len(prefix) >= KeyLen THEN Len(prefix) - KeyLen ELSE Len(prefix)
local_depth(prefix) == IF Len(prefix) > KeyLen THEN Len(prefix) - KeyLen ELSE Len(prefix)

-----------------------------------------------------------------------------
(* Hashes *)

RECURSIVE hash_ram(_)
\* The hash of a child: a record's is stored beside the pointer.
ram_child_hash(c) ==
    CASE c.c = "Ram" -> hash_ram(c.node)
      [] c.c \in {"Disk", "Mem"} -> c.root
      [] c.c = "Account" -> Account(c.path, c.fields, hash_ram(c.storage))
hash_ram(n) ==
    CASE n.t = "Empty" -> EmptyNode
      [] n.t # "Empty" /\ n.hash # <<>> -> n.hash[1]
      [] n.t = "Extension" /\ n.hash = <<>> -> Extension(n.path, hash_ram(n.child))
      [] n.t = "Branch" /\ n.hash = <<>> ->
            Branch([i \in DOMAIN n.kids |-> ram_child_hash(n.kids[i])])

RECURSIVE Hashed(_)
\* root() fills the empty cells it meets.
HashedChild(c) ==
    CASE c.c = "Ram"     -> [c EXCEPT !.node = Hashed(@)]
      [] c.c = "Account" -> [c EXCEPT !.storage = Hashed(@)]
      [] OTHER           -> c
HashedBelow(n) ==
    IF n.t = "Extension" THEN [n EXCEPT !.child = Hashed(@)]
    ELSE [n EXCEPT !.kids = [i \in DOMAIN @ |-> HashedChild(@[i])]]
Hashed(n) ==
    IF n.t = "Empty" \/ (n.t # "Empty" /\ n.hash # <<>>) THEN n
    ELSE [HashedBelow(n) EXCEPT !.hash = <<hash_ram(n)>>]

-----------------------------------------------------------------------------
(* Promotion.  A result is a child and the live records. *)

RECURSIVE Size(_)
Size(n) ==
    CASE n.t = "Empty"     -> 0
      [] n.t = "Leaf"      -> 1
      [] n.t = "Account"   -> 1 + Size(n.storage)
      [] n.t = "Extension" -> Size(n.child)
      [] n.t = "Branch"    ->
            FoldFunction(LAMBDA k, total : Size(k) + total, 0, n.kids)

HasTopBranch(n) == n.t \in {"Branch", "Extension"}

should_promote(rec) == Size(rec.node) > maxLeaf /\ HasTopBranch(rec.node)
should_promote_account(rec) ==
    Size(rec.node) > maxLeaf /\ rec.node.t = "Account" /\ HasTopBranch(rec.node.storage)

make_leaf_child(ram, rec, s) ==
    IF ram \/ hot THEN [child |-> Mem(rec), live |-> s]
    ELSE [child |-> Disk(rec), live |-> Write(s, {rec})]

RECURSIVE Lift(_, _)
PromotedWith(a, r) ==
    [child |-> Promoted(a.path, a.fields, r.child.node), written |-> r.written]
\* Mutant: the records of promoted storage carry their storage path alone.
LiftAccountBarePaths(rec, mem) ==
    PromotedWith(rec.node, Lift(Record(<<>>, rec.node.storage), mem))
\* An account whose storage becomes a frontier.  Its records carry the
\* account's full key before their storage path.
LiftAccount(rec, mem) ==
    PromotedWith(rec.node,
                 Lift(Record(rec.prefix \o rec.node.path, rec.node.storage), mem))
\* Mutant: a lifted child is a record whatever its size.
LiftChildAnySize(rec, mem) ==
    IF mem THEN [child |-> Mem(rec), written |-> {}]
    ELSE [child |-> Disk(rec), written |-> {rec}]
\* A lifted child: a record, unless no record can hold it.
LiftChild(rec, mem) ==
    IF Size(rec.node) > MaxRecord
    THEN IF rec.node.t = "Account" THEN LiftAccount(rec, hot) ELSE Lift(rec, mem)
    ELSE IF mem THEN [child |-> Mem(rec), written |-> {}]
    ELSE [child |-> Disk(rec), written |-> {rec}]
\* The top branch of a record becomes a frontier branch, its children records.
LiftedBranch(path, kids) ==
    [child   |-> Ram(RamExtOver(path, RamBranch([i \in DOMAIN kids |-> kids[i].child]))),
     written |-> UNION {kids[i].written : i \in DOMAIN kids}]
Lift(rec, mem) ==
    LET isExt  == rec.node.t = "Extension"
        path   == IF isExt THEN rec.node.path ELSE <<>>
        branch == IF isExt THEN rec.node.child ELSE rec.node
    IN  LiftedBranch(path,
            [i \in DOMAIN branch.kids |->
                LiftChild(Record(rec.prefix \o path \o <<i>>, branch.kids[i]), mem)])

Lifted(r, s) == [child |-> r.child, live |-> Write(s, r.written)]

promote_to_mem(rec, s)        == Lifted(Lift(rec, TRUE), s)
promote_record_to_ram(rec, s) == Lifted(Lift(rec, FALSE), s)
promote_account_to_ram(rec, mem, s) == Lifted(LiftAccount(rec, mem), s)

\* A rebuilt record becomes a frontier child.
finish_child(rec, ram, s) ==
    CASE should_promote(rec) ->
            IF ram THEN promote_to_mem(rec, s) ELSE promote_record_to_ram(rec, s)
      [] should_promote_account(rec) -> promote_account_to_ram(rec, ram \/ hot, s)
      [] OTHER -> make_leaf_child(ram, rec, s)

\* The records a frontier points at.
RECURSIVE DiskRecords(_)
RecordsOfChild(c) ==
    CASE c.c = "Ram"     -> DiskRecords(c.node)
      [] c.c = "Account" -> DiskRecords(c.storage)
      [] c.c = "Disk"    -> {c.rec}
      [] OTHER           -> {}
DiskRecords(n) ==
    CASE n.t = "Empty"     -> {}
      [] n.t = "Extension" -> DiskRecords(n.child)
      [] n.t = "Branch"    -> UNION {RecordsOfChild(n.kids[i]) : i \in DOMAIN n.kids}

free_ram_records(n, s) == Free(s, DiskRecords(n))

-----------------------------------------------------------------------------
(* Insertion.  A result is a node or a child, and the live records. *)

\* A record an insertion has changed.
RewrittenChild(rec, mem, ram, s) ==
    CASE should_promote(rec) ->
            IF mem THEN promote_to_mem(rec, s) ELSE promote_record_to_ram(rec, s)
      [] should_promote_account(rec) -> promote_account_to_ram(rec, ram \/ hot, s)
      [] OTHER -> IF mem THEN [child |-> Mem(rec), live |-> s]
                  ELSE [child |-> Disk(rec), live |-> Write(s, {rec})]

\* The leaf of a new key.
NewLeaf(prefix, key, op, ram, s) ==
    make_leaf_child(ram, Record(prefix, place_new(key, op, walk_depth(prefix))), s)

\* A promoted account moves below a branch, n nibbles down its path; new is
\* the child of the new key, at nibble i of the branch.
SplitAccount(a, n, i, new) ==
    [child |-> Ram(RamExtOver(SubSeq(a.path, 1, n),
                   RamBranch((a.path[n + 1] :> [a EXCEPT !.path = From(@, n + 1)])
                             @@ (i :> new.child)))),
     live  |-> new.live]

\* A frontier extension splits n nibbles down its path.
SplitRamExt(e, n, i, new) ==
    [node |-> RamExtOver(SubSeq(e.path, 1, n),
                 RamBranch((e.path[n + 1] :> Ram(RamExtOver(From(e.path, n + 1), e.child)))
                           @@ (i :> new.child))),
     live |-> new.live]

\* The node over the result of an insertion below it.
RamOver(r)         == [child |-> Ram(r.node), live |-> r.live]
AccountOver(a, r)  == [child |-> [a EXCEPT !.storage = r.node], live |-> r.live]
ExtOver(p, r)      == [node |-> RamExt(p, r.node), live |-> r.live]
BranchOver(k, i, r) == [node |-> RamBranch(Put(k, i, r.child)), live |-> r.live]

RECURSIVE insert_ram(_, _, _, _, _, _)
insert_into_child(c, prefix, key, op, ram, s) ==
    LET depth == walk_depth(prefix)
        Inserted == [c.rec EXCEPT !.node =
                        record_node_insert(@, local_depth(c.rec.prefix), key, op)]
    IN
    CASE c.c = "Ram"  -> RamOver(insert_ram(c.node, prefix, key, op, ram, s))
      [] c.c = "Mem"  -> RewrittenChild(Inserted, TRUE, ram, s)
      [] c.c = "Disk" -> RewrittenChild(Inserted, hot, ram, Free(s, {c.rec}))
      [] c.c = "Account" /\ c.path = From(key, depth) ->
            IF op.op = "Account" THEN [child |-> [c EXCEPT !.fields = op.fields], live |-> s]
            ELSE AccountOver(c, insert_ram(c.storage, key, op.slot, SetValue(op.value), FALSE, s))
      [] c.c = "Account" /\ c.path # From(key, depth) ->
            LET n == common_prefix(c.path, From(key, depth)) IN
            SplitAccount(c, n, key[depth + n + 1],
                NewLeaf(prefix \o SubSeq(key, depth + 1, depth + n + 1), key, op, ram, s))
      [] c.c = "None" -> NewLeaf(prefix, key, op, ram, s)

insert_ram(n, prefix, key, op, ram, s) ==
    LET depth == walk_depth(prefix)
        i     == key[depth + 1]
        m     == common_prefix(n.path, From(key, depth))
        j     == key[depth + m + 1]
    IN
    CASE n.t = "Empty" -> BranchOver(<<>>, i, NewLeaf(prefix \o <<i>>, key, op, ram, s))
      [] n.t = "Extension" /\ m = Len(n.path) ->
            ExtOver(n.path, insert_ram(n.child, prefix \o n.path, key, op, ram, s))
      [] n.t = "Extension" /\ m < Len(n.path) ->
            SplitRamExt(n, m, j,
                NewLeaf(prefix \o SubSeq(n.path, 1, m) \o <<j>>, key, op, ram, s))
      [] n.t = "Branch" ->
            BranchOver(n.kids, i,
                insert_into_child(ChildAt(n.kids, i), prefix \o <<i>>, key, op, ram, s))

-----------------------------------------------------------------------------
(* Deletion.  The outcome is that of RamDelete; edge and survivor are those *)
(* of Collapsed.                                                            *)

RamOut(out, n, s)      == [out |-> out, node |-> n, live |-> s]
ChildOut(out, c, s)    == [out |-> out, child |-> c, live |-> s]
ChildChanged(f)        == ChildOut("Changed", f.child, f.live)
RamChanged(f)          == RamOut("Changed", f.node, f.live)
Collapsed(edge, c, s)  == [out |-> "Collapsed", node |-> RamEmpty, live |-> s,
                           edge |-> edge, survivor |-> c]

\* An extension over a node that may have become an extension.
MergedExt(p, n) ==
    IF n.t = "Extension" THEN RamExt(p \o n.path, n.child) ELSE RamExt(p, n)

\* Mutant: a branch with a lone child stays.
FoldRamBranchLone(kids, s) ==
    IF DOMAIN kids = {} THEN RamOut("Removed", RamEmpty, s)
    ELSE RamOut("Changed", RamBranch(kids), s)

\* A frontier branch that lost a child.
FoldRamBranch(kids, s) ==
    CASE Cardinality(DOMAIN kids) = 0 -> RamOut("Removed", RamEmpty, s)
      [] Cardinality(DOMAIN kids) = 1 ->
            LET j == LoneKid(kids) IN
            IF kids[j].c = "Ram" THEN RamOut("Changed", MergedExt(<<j>>, kids[j].node), s)
            ELSE Collapsed(<<j>>, kids[j], s)
      [] OTHER -> RamOut("Changed", RamBranch(kids), s)

\* Mutant: the record of a survivor is not freed.
RehomeWithoutFree(ram, c, edge, prefix, s) ==
    IF c.c = "Account"
    THEN [child |-> [c EXCEPT !.path = edge \o @], live |-> s]
    ELSE LET rec == Record(prefix, prepend_path(c.rec.node, edge)) IN
         IF c.c = "Mem" THEN [child |-> Mem(rec), live |-> s]
         ELSE make_leaf_child(ram, rec, s)

\* The survivor of a collapse moves up to prefix.
rehome_child(ram, c, edge, prefix, s) ==
    IF c.c = "Account"
    THEN [child |-> [c EXCEPT !.path = edge \o @], live |-> s]
    ELSE LET rec == Record(prefix, prepend_path(c.rec.node, edge)) IN
         IF c.c = "Mem" THEN [child |-> Mem(rec), live |-> s]
         ELSE make_leaf_child(ram, rec, Free(s, {c.rec}))

FreedOf(c) == IF c.c = "Disk" THEN {c.rec} ELSE {}

\* What is left of a storage frontier that fell below the promoted form,
\* as a node tree (materialize_storage_survivor frees its record).
StorageLeft(r) ==
    IF r.out = "Removed" THEN EmptyNode ELSE prepend_path(r.survivor.rec.node, r.edge)
StorageFreed(r) ==
    IF r.out = "Removed" THEN r.live ELSE Free(r.live, FreedOf(r.survivor))

\* The child of a frontier branch, after the RAM subtree under it gave r.
ChildOfRam(r, c, ram, prefix) ==
    CASE r.out = "Absent"  -> ChildOut("Absent", c, r.live)
      [] r.out = "Changed" -> ChildOut("Changed", Ram(r.node), r.live)
      [] r.out = "Removed" -> ChildOut("Removed", NoChild, r.live)
      [] r.out = "Collapsed" ->
            ChildChanged(rehome_child(ram, r.survivor, r.edge, prefix, r.live))

\* Mutant: the extension keeps its cached hash.
RamExtKeepsHash(r, n) ==
    CASE r.out = "Absent"    -> RamOut("Absent", n, r.live)
      [] r.out = "Removed"   -> RamOut("Removed", RamEmpty, r.live)
      [] r.out = "Changed"   ->
            RamOut("Changed", [MergedExt(n.path, r.node) EXCEPT !.hash = n.hash], r.live)
      [] r.out = "Collapsed" -> Collapsed(n.path \o r.edge, r.survivor, r.live)

\* The extension n, after its child gave r.
RamExtAfter(r, n) ==
    CASE r.out = "Absent"    -> RamOut("Absent", n, r.live)
      [] r.out = "Removed"   -> RamOut("Removed", RamEmpty, r.live)
      [] r.out = "Changed"   -> RamOut("Changed", MergedExt(n.path, r.node), r.live)
      [] r.out = "Collapsed" -> Collapsed(n.path \o r.edge, r.survivor, r.live)

\* The branch n, after its child i gave r.
RamBranchAfter(r, n, i) ==
    CASE r.out = "Absent"  -> RamOut("Absent", n, r.live)
      [] r.out = "Changed" -> RamOut("Changed", RamBranch(Put(n.kids, i, r.child)), r.live)
      [] r.out = "Removed" -> FoldRamBranch(Without(n.kids, i), r.live)

RECURSIVE delete_ram(_, _, _, _, _, _)

\* A demoted account: a record again, if one can hold it.
DemotedChild(rec, ram, s) ==
    IF should_promote_account(rec) THEN promote_account_to_ram(rec, ram \/ hot, s)
    ELSE make_leaf_child(ram, rec, s)

\* The promoted account c, after the deletion of a slot gave r.
PromotedAfter(r, c, prefix, ram) ==
    CASE r.out = "Absent"  -> ChildOut("Absent", c, r.live)
      [] r.out = "Changed" -> ChildOut("Changed", [c EXCEPT !.storage = r.node], r.live)
      [] OTHER ->
            ChildChanged(DemotedChild(Record(prefix, Account(c.path, c.fields, StorageLeft(r))),
                                      ram, StorageFreed(r)))

\* A promoted account: deleted, wiped (and so demoted) or one slot less.
DeletePromoted(c, prefix, key, op, ram, s) ==
    CASE op.op = "Account" -> ChildOut("Removed", NoChild, free_ram_records(c.storage, s))
      [] op.op = "WipeStorage" ->
            ChildChanged(make_leaf_child(ram,
                Record(prefix, Account(c.path, c.fields, EmptyNode)),
                free_ram_records(c.storage, s)))
      [] op.op = "Storage" ->
            PromotedAfter(delete_ram(c.storage, key, op.slot, DeleteValue, FALSE, s),
                          c, prefix, ram)

\* A record, after the change of its node tree gave r; Finish makes the child.
RecordAfter(r, c, s, Finish(_, _)) ==
    LET freed == Free(s, FreedOf(c))
    IN  CASE r.out = "Absent"  -> ChildOut("Absent", c, s)
          [] r.out = "Removed" -> ChildOut("Removed", NoChild, freed)
          [] r.out = "Changed" -> ChildChanged(Finish([c.rec EXCEPT !.node = r.node], freed))

delete_in_child(c, prefix, key, op, ram, s) ==
    CASE c.c = "None" -> ChildOut("Absent", c, s)
      [] c.c = "Ram"  -> ChildOfRam(delete_ram(c.node, prefix, key, op, ram, s), c, ram, prefix)
      [] c.c \in {"Mem", "Disk"} ->
            RecordAfter(record_node_delete(c.rec.node, local_depth(c.rec.prefix), key, op),
                        c, s, LAMBDA rec, freed : make_leaf_child(c.c = "Mem", rec, freed))
      [] c.c = "Account" /\ c.path = From(key, walk_depth(prefix)) ->
            DeletePromoted(c, prefix, key, op, ram, s)
      [] c.c = "Account" /\ c.path # From(key, walk_depth(prefix)) -> ChildOut("Absent", c, s)

delete_ram(n, prefix, key, op, ram, s) ==
    LET depth == walk_depth(prefix)
        i     == key[depth + 1]
    IN
    CASE n.t = "Empty" -> RamOut("Absent", n, s)
      [] n.t = "Extension" /\ ~IsPrefix(n.path, From(key, depth)) -> RamOut("Absent", n, s)
      [] n.t = "Extension" /\ IsPrefix(n.path, From(key, depth)) ->
            RamExtAfter(delete_ram(n.child, prefix \o n.path, key, op, ram, s), n)
      [] n.t = "Branch" ->
            RamBranchAfter(delete_in_child(ChildAt(n.kids, i), prefix \o <<i>>, key, op, ram, s),
                        n, i)

\* The top of the trie collapsed to one child: its content becomes a frontier
\* again.  A lone leaf has no frontier: the operation fails, with the record
\* freed and nothing left under upper.
NewRoot(top) == [node |-> top.child.node, err |-> "none", live |-> top.live]
collapse_root(r) ==
    LET node  == prepend_path(r.survivor.rec.node, r.edge)
        freed == Free(r.live, FreedOf(r.survivor))
    IN  IF r.survivor.c = "Account" \/ ~HasTopBranch(node)
        THEN [node |-> RamEmpty, err |-> "below two keys",
              live |-> IF r.survivor.c = "Account" THEN r.live ELSE freed]
        ELSE NewRoot(promote_record_to_ram(Record(<<>>, node), freed))

\* The root after a delete gave r.
RootAfter(r) ==
    IF r.out = "Collapsed" THEN collapse_root(r)
    ELSE [node |-> r.node, err |-> "none", live |-> r.live]

-----------------------------------------------------------------------------
(* apply_block.  An update of an account is                                *)
(*   [wipe, account : {"Keep", "Delete"} \cup Fields,                      *)
(*    slots : sequence of [slot, value]],  value None for a delete.        *)

Creates(upd) ==
    \/ upd.account \notin {"Keep", "Delete"}
    \/ \E k \in DOMAIN upd.slots : upd.slots[k].value # None

\* One part of an update, an insertion or a deletion, on a record's node tree.
RecordInsert(r, depth, key, op) == Changed(record_node_insert(r.node, depth, key, op))
RecordLess(d, r) == IF d.out = "Absent" THEN r ELSE Changed(d.node)
RecordDelete(r, depth, key, op) ==
    RecordLess(record_node_delete(r.node, depth, key, op), r)
RecordWipe(r, depth, key, upd) ==
    IF upd.wipe THEN RecordDelete(r, depth, key, WipeSlots) ELSE r
RecordFields(r, depth, key, upd) ==
    IF upd.account = "Keep" THEN r
    ELSE RecordInsert(r, depth, key, SetFields(upd.account))
RecordSlot(r, depth, key, e) ==
    IF e.value = None THEN RecordDelete(r, depth, key, DeleteSlot(e.slot))
    ELSE RecordInsert(r, depth, key, SetSlot(e.slot, e.value))

\* Wipe, account outcome, slots, in this order.
apply_net_in_record(node, depth, key, upd) ==
    IF upd.account = "Delete" THEN record_node_delete(node, depth, key, DeleteLeaf)
    ELSE FoldLeft(LAMBDA r, e : RecordSlot(r, depth, key, e),
                  RecordFields(RecordWipe(Absent(node), depth, key, upd), depth, key, upd),
                  upd.slots)

\* The child of an account that does not exist, or NoChild.
CreatedChild(node, prefix, ram, s) ==
    IF node = EmptyNode THEN [child |-> NoChild, live |-> s]
    ELSE finish_child(Record(prefix, node), ram, s)
creation_child(prefix, key, upd, ram, s) ==
    CreatedChild(apply_net_in_record(EmptyNode, Len(prefix), key, upd).node, prefix, ram, s)

\* A demoted account: the other slots of the update run on its record form.
DemotedWith(node, prefix, key, slots, ram, s) ==
    finish_child(
        Record(prefix, apply_net_in_record(node, Len(prefix), key,
                           [wipe |-> FALSE, account |-> "Keep", slots |-> slots]).node),
        ram, s)

\* The slot loop of a promoted account: insertions and deletions in its
\* storage frontier until a deletion takes it below the promoted form.
RECURSIVE PromotedSlots(_, _, _, _, _, _, _)
SlotInserted(r, c, prefix, key, slots, ram) ==
    PromotedSlots([c EXCEPT !.storage = r.node], prefix, key, slots, TRUE, ram, r.live)
SlotDeleted(r, c, prefix, key, slots, changed, ram) ==
    IF r.out \in {"Absent", "Changed"}
    THEN PromotedSlots([c EXCEPT !.storage = r.node], prefix, key, slots,
                       changed \/ r.out = "Changed", ram, r.live)
    ELSE ChildChanged(DemotedWith(Account(c.path, c.fields, StorageLeft(r)),
                                  prefix, key, slots, ram, StorageFreed(r)))
PromotedSlots(c, prefix, key, slots, changed, ram, s) ==
    CASE slots = <<>> -> ChildOut(IF changed THEN "Changed" ELSE "Absent", c, s)
      [] slots # <<>> /\ Head(slots).value # None ->
            SlotInserted(insert_ram(c.storage, key, Head(slots).slot,
                                    SetValue(Head(slots).value), FALSE, s),
                         c, prefix, key, Tail(slots), ram)
      [] slots # <<>> /\ Head(slots).value = None ->
            SlotDeleted(delete_ram(c.storage, key, Head(slots).slot, DeleteValue, FALSE, s),
                        c, prefix, key, Tail(slots), changed, ram)

\* A creation at an empty place may leave it empty.
CreatedAt(new, s) ==
    IF new.child = NoChild THEN ChildOut("Absent", NoChild, s) ELSE ChildChanged(new)
CreatedRoot(new, i, s) ==
    IF new.child = NoChild THEN RamOut("Absent", RamEmpty, s)
    ELSE RamChanged(BranchOver(<<>>, i, new))

RECURSIVE apply_ram_group(_, _, _, _, _, _)
apply_group_child(c, prefix, key, upd, ram, s) ==
    LET depth == Len(prefix)
        same  == c.path = From(key, depth)
        n     == common_prefix(c.path, From(key, depth))
    IN
    CASE c.c = "Ram" ->
            ChildOfRam(apply_ram_group(c.node, prefix, key, upd, ram, s), c, ram, prefix)
      [] c.c \in {"Mem", "Disk"} ->
            RecordAfter(apply_net_in_record(c.rec.node, local_depth(c.rec.prefix), key, upd),
                        c, s, LAMBDA rec, freed :
                                finish_child(rec, c.c = "Mem" \/ ram \/ hot, freed))
      [] c.c = "None" /\ Creates(upd) -> CreatedAt(creation_child(prefix, key, upd, ram, s), s)
      [] c.c = "None" /\ ~Creates(upd) -> ChildOut("Absent", c, s)
      [] c.c = "Account" /\ ~same /\ ~Creates(upd) -> ChildOut("Absent", c, s)
      [] c.c = "Account" /\ ~same /\ Creates(upd) ->
            ChildChanged(SplitAccount(c, n, key[depth + n + 1],
                creation_child(prefix \o SubSeq(key, depth + 1, depth + n + 1),
                               key, upd, ram, s)))
      [] c.c = "Account" /\ same ->
            PromotedSlots(IF upd.account = "Keep" THEN c ELSE [c EXCEPT !.fields = upd.account],
                          prefix, key, upd.slots, upd.account # "Keep", ram, s)

apply_ram_group(n, prefix, key, upd, ram, s) ==
    LET depth == Len(prefix)
        i     == key[depth + 1]
        m     == common_prefix(n.path, From(key, depth))
        j     == key[depth + m + 1]
    IN
    CASE n.t = "Empty" /\ Creates(upd) ->
            CreatedRoot(creation_child(prefix \o <<i>>, key, upd, ram, s), i, s)
      [] n.t = "Extension" /\ m = Len(n.path) ->
            RamExtAfter(apply_ram_group(n.child, prefix \o n.path, key, upd, ram, s), n)
      [] n.t = "Extension" /\ m < Len(n.path) /\ Creates(upd) ->
            RamChanged(SplitRamExt(n, m, j,
                creation_child(prefix \o SubSeq(n.path, 1, m) \o <<j>>, key, upd, ram, s)))
      [] n.t = "Branch" ->
            RamBranchAfter(
                apply_group_child(ChildAt(n.kids, i), prefix \o <<i>>, key, upd, ram, s), n, i)
      [] OTHER -> RamOut("Absent", n, s)

\* nibbles_to_key panics on the paths of a promoted account's storage, which a
\* delete and a wipe collect for the inverse (module BlockUpdate).
RECURSIVE IsPromoted(_, _, _)
IsPromoted(n, key, depth) ==
    CASE n.t = "Empty"     -> FALSE
      [] n.t = "Extension" ->
            /\ IsPrefix(n.path, From(key, depth))
            /\ IsPromoted(n.child, key, depth + Len(n.path))
      [] n.t = "Branch"    ->
            LET c == ChildAt(n.kids, key[depth + 1]) IN
            CASE c.c = "Ram"     -> IsPromoted(c.node, key, depth + 1)
              [] c.c = "Account" -> c.path = From(key, depth + 1)
              [] OTHER           -> FALSE
ApplyPanics(n, key, upd) == (upd.wipe \/ upd.account = "Delete") /\ IsPromoted(n, key, 0)

InKeyOrder(block) == SetToSortSeq(DOMAIN block, KeyBefore)

Failed(r, e) == [r EXCEPT !.err = e]

\* A group on a child of the top branch, one thread for each child; the top is
\* folded once they have all ended.
TopChildAfter(g, r, i) ==
    [r EXCEPT !.node = RamBranch(SetChild(@.kids, i, g.child)), !.live = g.live]
FanOutGroup(r, key, upd) ==
    IF r.err # "none" \/ ApplyPanics(r.node, key, upd) THEN Failed(r, "panic")
    ELSE TopChildAfter(apply_group_child(ChildAt(r.node.kids, key[1]), <<key[1]>>, key, upd,
                                         ramMode, r.live), r, key[1])
TopFolded(r) ==
    IF r.err # "none" THEN r ELSE RootAfter(FoldRamBranch(r.node.kids, r.live))
FanOut(block, keys) ==
    TopFolded(FoldLeft(LAMBDA r, key : FanOutGroup(r, key, block[key]),
                       [node |-> upper, live |-> live, err |-> "none"], keys))

\* The groups one after the other, from the root, until one fails; done counts
\* those that were run.
SerialGroup(r, key, upd) ==
    IF r.err # "none" THEN r
    ELSE IF ApplyPanics(r.node, key, upd) THEN Failed(r, "panic")
    ELSE RootAfter(apply_ram_group(r.node, <<>>, key, upd, ramMode, r.live))
         @@ [done |-> r.done + 1]
Serial(block, keys) ==
    FoldLeft(LAMBDA r, key : SerialGroup(r, key, block[key]),
             [node |-> upper, live |-> live, err |-> "none", done |-> 0], keys)

Applied(block, keys) ==
    IF upper.t = "Branch" THEN FanOut(block, keys) @@ [done |-> Len(keys)]
    ELSE Serial(block, keys)

-----------------------------------------------------------------------------
(* Bulk loads of whole accounts *)

Seeded(e) == [wipe |-> FALSE, account |-> e.fields, slots |-> e.slots]

\* The entries by the first nibble of their keys, each bucket in their order.
Bucket(entries, i) == SelectSeq(entries, LAMBDA e : e.key[1] = i)
Nibbles(entries)   == SetToSortSeq({e.key[1] : e \in ToSet(entries)}, <)
Buckets(entries)   == [k \in DOMAIN Nibbles(entries) |-> Bucket(entries, Nibbles(entries)[k])]

\* A top that is no branch is made one, if it can, by the last entry of the
\* first bucket; then one thread for each child of a branch, or the entries one
\* after the other.
AfterFirst(r, buckets) ==
    IF r.node.t = "Branch"
    THEN FoldLeft(LAMBDA q, e : FanOutGroup(q, e.key, Seeded(e)), r, FlattenSeq(buckets))
    ELSE FoldLeft(LAMBDA q, e : SerialGroup(q, e.key, Seeded(e)), r, FlattenSeq(buckets))
Loaded(r, buckets) ==
    IF r.node.t = "Branch" THEN AfterFirst(r, buckets)
    ELSE AfterFirst(SerialGroup(r, Last(buckets[1]).key, Seeded(Last(buckets[1]))),
                    [buckets EXCEPT ![1] = Front(@)])

-----------------------------------------------------------------------------
(* The spill of in-memory records *)

RECURSIVE MemPrefixes(_)
MemOfChild(c) ==
    CASE c.c = "Ram"     -> MemPrefixes(c.node)
      [] c.c = "Account" -> MemPrefixes(c.storage)
      [] c.c = "Mem"     -> {c.rec.prefix}
      [] OTHER           -> {}
MemPrefixes(n) ==
    CASE n.t = "Empty"     -> {}
      [] n.t = "Extension" -> MemPrefixes(n.child)
      [] n.t = "Branch"    -> UNION {MemOfChild(n.kids[i]) : i \in DOMAIN n.kids}

RECURSIVE spill_walk(_, _, _)
SpilledUnder(c, f, r) == [child |-> [c EXCEPT ![f] = r.node], out |-> r.out]
\* Mutant: the walk into a promoted account leaves out its path.
SpillChildNoPath(c, prefix, chosen) ==
    CASE c.c = "Ram" -> SpilledUnder(c, "node", spill_walk(c.node, prefix, chosen))
      [] c.c = "Account" -> SpilledUnder(c, "storage", spill_walk(c.storage, prefix, chosen))
      [] c.c = "Mem" /\ c.rec.prefix \in chosen ->
            [child |-> [Disk(NoRecord) EXCEPT !.root = c.root],
             out |-> {[prefix |-> prefix, rec |-> c.rec]}]
      [] OTHER -> [child |-> c, out |-> {}]
\* A child on the walk: a chosen Mem leaf becomes a Disk child that points
\* nowhere yet, and its bytes are written under the prefix of the walk.
SpillChild(c, prefix, chosen) ==
    CASE c.c = "Ram" -> SpilledUnder(c, "node", spill_walk(c.node, prefix, chosen))
      [] c.c = "Account" ->
            SpilledUnder(c, "storage", spill_walk(c.storage, prefix \o c.path, chosen))
      [] c.c = "Mem" /\ c.rec.prefix \in chosen ->
            [child |-> [Disk(NoRecord) EXCEPT !.root = c.root],
             out |-> {[prefix |-> prefix, rec |-> c.rec]}]
      [] OTHER -> [child |-> c, out |-> {}]
SpilledBranch(n, kids) ==
    [node |-> [n EXCEPT !.kids = [i \in DOMAIN @ |-> kids[i].child]],
     out |-> UNION {kids[i].out : i \in DOMAIN kids}]
SpilledExt(n, r) == [node |-> [n EXCEPT !.child = r.node], out |-> r.out]
spill_walk(n, prefix, chosen) ==
    CASE n.t = "Empty" -> [node |-> n, out |-> {}]
      [] n.t = "Extension" -> SpilledExt(n, spill_walk(n.child, prefix \o n.path, chosen))
      [] n.t = "Branch" ->
            SpilledBranch(n, [i \in DOMAIN n.kids |->
                                SpillChild(n.kids[i], prefix \o <<i>>, chosen)])

RECURSIVE install_ptr_by_prefix(_, _, _, _)
\* The Disk child at the end of prefix points at rec.
InstallInChild(c, prefix, depth, rec) ==
    CASE c.c = "Disk" -> [c EXCEPT !.rec = rec]
      [] c.c = "Ram"  -> [c EXCEPT !.node = install_ptr_by_prefix(@, prefix, depth, rec)]
      [] c.c = "Account" /\ IsPrefix(c.path, From(prefix, depth)) ->
            [c EXCEPT !.storage =
                install_ptr_by_prefix(@, prefix, depth + Len(c.path), rec)]
      [] OTHER -> c
install_ptr_by_prefix(n, prefix, depth, rec) ==
    CASE n.t = "Extension" /\ IsPrefix(n.path, From(prefix, depth)) ->
            [n EXCEPT !.child = install_ptr_by_prefix(@, prefix, depth + Len(n.path), rec)]
      [] n.t = "Branch" /\ depth < Len(prefix) /\ prefix[depth + 1] \in DOMAIN n.kids ->
            [n EXCEPT !.kids[prefix[depth + 1]] = InstallInChild(@, prefix, depth + 1, rec)]
      [] OTHER -> n

\* The chosen Mem leaves are written and their pointers installed by prefix; an
\* install that finds no slot is an error.
Installed(node, s) ==
    [node |-> node, live |-> s,
     err |-> IF NoRecord \in DiskRecords(node) THEN "spill" ELSE "none"]
SpillWritten(w, s) ==
    Installed(FoldSet(LAMBDA o, n : install_ptr_by_prefix(n, o.prefix, 0, o.rec),
                      w.node, w.out),
              Write(s, {o.rec : o \in w.out}))
Spilled(r, chosen) == SpillWritten(spill_walk(r.node, <<>>, chosen), r.live)

\* apply_block spills by the size of the cache and the clock bits of its
\* records: nothing, one record or all of them.
SpillChoices(n) ==
    LET mem == MemPrefixes(n) IN
    IF ramMode \/ ~hot THEN {{}} ELSE {{}, mem} \cup {{p} : p \in mem}

\* maybe_spill: a build in memory that has grown past its threshold writes all
\* its records and goes on in memory.
LoadSpillChoices(n) == IF ramMode THEN {{}, MemPrefixes(n)} ELSE {{}}

-----------------------------------------------------------------------------
Init ==
    /\ upper = RamEmpty /\ live = {} /\ err = "none" /\ want = <<>>
    /\ maxLeaf \in MaxLeafs
    /\ \E mode \in Modes : hot = mode.hot /\ ramMode = mode.ram

\* An operation ends: it returns the root, or an error.
Return(r) ==
    /\ upper' = IF r.err = "none" THEN Hashed(r.node) ELSE r.node
    /\ live' = r.live
    /\ err' = r.err
    /\ UNCHANGED <<maxLeaf, hot>>

\* insert_account, insert_storage.
Insert(key, op) ==
    /\ err = "none"
    /\ Return(insert_ram(upper, <<>>, key, op, ramMode, live) @@ [err |-> "none"])
    /\ UNCHANGED ramMode

\* delete_account, delete_storage, wipe_storage.
Delete(key, op) ==
    /\ err = "none"
    /\ Return(RootAfter(delete_ram(upper, <<>>, key, op, ramMode, live)))
    /\ UNCHANGED ramMode

\* What the operations ask for.
Held(a)     == IF a \in DOMAIN want THEN want[a] ELSE [fields |-> EmptyFields, slots |-> <<>>]
WithSlot(h, s, v) == [h EXCEPT !.slots = Put(@, s, v)]
NoSlot(h, s)      == [h EXCEPT !.slots = Without(@, s)]
WantNet(w, a, upd) ==
    LET there == a \in DOMAIN w
        old   == IF there THEN w[a] ELSE [fields |-> EmptyFields, slots |-> <<>>]
        set   == [fields |-> IF upd.account \in Fields THEN upd.account ELSE old.fields,
                  slots  |-> IF upd.wipe THEN <<>> ELSE old.slots]
        new   == FoldLeft(LAMBDA h, e : IF e.value = None THEN NoSlot(h, e.slot)
                                        ELSE WithSlot(h, e.slot, e.value), set, upd.slots)
    IN  CASE upd.account = "Delete"   -> Without(w, a)
          [] there \/ Creates(upd)    -> Put(w, a, new)
          [] OTHER                    -> w

InsertAccount(a, f) ==
    Insert(a, SetFields(f)) /\ want' = Put(want, a, [Held(a) EXCEPT !.fields = f])
InsertStorage(a, s, v) ==
    Insert(a, SetSlot(s, v)) /\ want' = Put(want, a, WithSlot(Held(a), s, v))
DeleteAccount(a) ==
    Delete(a, DeleteLeaf) /\ want' = Without(want, a)
DeleteStorage(a, s) ==
    /\ Delete(a, DeleteSlot(s))
    /\ want' = IF a \in DOMAIN want THEN Put(want, a, NoSlot(want[a], s)) ELSE want
WipeStorage(a) ==
    /\ Delete(a, WipeSlots)
    /\ want' = IF a \in DOMAIN want THEN Put(want, a, [want[a] EXCEPT !.slots = <<>>]) ELSE want

\* apply_block, with the spill that keeps the cache within its budget.
Finished(r, keys, block) ==
    /\ IF r.err # "none" THEN Return(r)
       ELSE \E chosen \in SpillChoices(r.node) : Return(Spilled(r, chosen))
    /\ want' = FoldLeft(LAMBDA w, a : WantNet(w, a, block[a]), want, SubSeq(keys, 1, r.done))
ApplyBlock(block) ==
    /\ err = "none"
    /\ Finished(Applied(block, InKeyOrder(block)), InKeyOrder(block), block)
    /\ UNCHANGED ramMode

\* insert_batch_accounts: the fields of every entry are set and its slots added.
InsertBatchAccounts(entries) ==
    /\ err = "none"
    /\ LET r == Loaded([node |-> upper, live |-> live, err |-> "none", done |-> 0],
                       Buckets(entries))
       IN  \E chosen \in LoadSpillChoices(r.node) : Return(Spilled(r, chosen))
    /\ want' = FoldLeft(LAMBDA w, e : WantNet(w, e.key, Seeded(e)), want, entries)
    /\ UNCHANGED ramMode

\* The part of persist that changes the frontier: everything is spilled and a
\* build in memory ends.
Persist ==
    /\ err = "none"
    /\ Return(Spilled([node |-> upper, live |-> live, err |-> "none"], MemPrefixes(upper)))
    /\ ramMode' = FALSE
    /\ UNCHANGED want

Next ==
    \/ \E a \in AccountKey : \E f \in FieldsOf[a] : InsertAccount(a, f)
    \/ \E a \in DOMAIN SlotOf : \E s \in SlotOf[a], v \in Val : InsertStorage(a, s, v)
    \/ \E a \in AccountKey : DeleteAccount(a)
    \/ \E a \in DOMAIN SlotOf : \E s \in SlotOf[a] : DeleteStorage(a, s)
    \/ \E a \in DOMAIN SlotOf : WipeStorage(a)
    \/ \E block \in Blocks : ApplyBlock(block)
    \/ \E entries \in Loads : InsertBatchAccounts(entries)
    \/ Persist

Spec == Init /\ [][Next]_vars

-----------------------------------------------------------------------------
(* Properties *)

RECURSIVE AllNodes(_)
\* The frontier nodes below n, n included, those of promoted storage too.
AllNodes(n) ==
    CASE n.t = "Empty"     -> {}
      [] n.t = "Extension" -> {n} \cup AllNodes(n.child)
      [] n.t = "Branch"    ->
            {n} \cup UNION {AllNodes(n.kids[i].node) :
                              i \in {j \in DOMAIN n.kids : n.kids[j].c = "Ram"}}
                \cup UNION {AllNodes(n.kids[i].storage) :
                              i \in {j \in DOMAIN n.kids : n.kids[j].c = "Account"}}
Children(n) == UNION {{m.kids[i] : i \in DOMAIN m.kids} :
                        m \in {b \in AllNodes(n) : b.t = "Branch"}}

\* The shape of a frontier: a branch has two children, but for the branch an
\* insertion into the empty trie makes at the root; under an extension is a
\* branch; the storage of a promoted account is not empty.
TypeOK ==
    /\ upper.t \in {"Empty", "Extension", "Branch"}
    /\ maxLeaf \in MaxLeafs /\ hot \in BOOLEAN /\ ramMode \in BOOLEAN
    /\ DOMAIN want \subseteq AccountKey
    /\ err = "none" =>
        \A n \in AllNodes(upper) :
            /\ n.t = "Branch" => Cardinality(DOMAIN n.kids) >= (IF n = upper THEN 1 ELSE 2)
            /\ n.t = "Extension" => n.path # <<>> /\ n.child.t = "Branch"

\* The trie the contents should have, below the first depth nibbles.
StorageTrie(slots)   == Canonical([s \in DOMAIN slots |-> Leaf(<<>>, slots[s])], 0)
ReferenceTrie(depth) ==
    Canonical([a \in DOMAIN want |->
                 Account(<<>>, want[a].fields, StorageTrie(want[a].slots))], depth)

\* Every operation returns the root of the one trie of the contents, whatever
\* the operations before it and the records the trie is cut into.  The root of a
\* trie whose keys have shared their first nibble since it was empty is a branch
\* with one child.
RootIsCanonical ==
    err = "none" =>
        hash_ram(upper) =
            IF upper.t = "Branch" /\ Cardinality(DOMAIN upper.kids) = 1
            THEN Branch([i \in DOMAIN upper.kids |-> ReferenceTrie(1)])
            ELSE ReferenceTrie(0)

\* The audit: the hash of a node recomputed from the records, ignoring every
\* cache, and what disagrees with it: a HashCell, the root kept beside a record,
\* the prefix a record carries.
RECURSIVE audit_ram_node(_, _)
Audit(h, bad)    == [hash |-> h, bad |-> bad]
Unless(p, name)  == IF p THEN {} ELSE {name}
AuditCell(n, h, bad) == Audit(h, bad \cup Unless(n.hash \in {<<>>, <<h>>}, "stale cell"))
AuditExt(n, below)   == AuditCell(n, Extension(n.path, below.hash), below.bad)
AuditBranch(n, kids) ==
    AuditCell(n, Branch([i \in DOMAIN kids |-> kids[i].hash]),
              UNION {kids[i].bad : i \in DOMAIN kids})
AuditAccount(c, st)  == Audit(Account(c.path, c.fields, st.hash), st.bad)
audit_ram_child(c, prefix) ==
    CASE c.c = "Ram" -> audit_ram_node(c.node, prefix)
      [] c.c \in {"Disk", "Mem"} ->
            Audit(c.rec.node, Unless(c.rec.prefix = prefix, "bad prefix")
                              \cup Unless(c.root = c.rec.node, "bad root"))
      [] c.c = "Account" -> AuditAccount(c, audit_ram_node(c.storage, prefix \o c.path))
audit_ram_node(n, prefix) ==
    CASE n.t = "Empty" -> Audit(EmptyNode, {})
      [] n.t = "Extension" -> AuditExt(n, audit_ram_node(n.child, prefix \o n.path))
      [] n.t = "Branch" ->
            AuditBranch(n, [i \in DOMAIN n.kids |-> audit_ram_child(n.kids[i], prefix \o <<i>>)])
audit_hashes(n) == audit_ram_node(n, <<>>)

\* The audit finds nothing, whatever the operations before it: no cached hash is
\* stale, neither a HashCell of the frontier nor the root kept beside a record,
\* and every record, those of promoted storage too, carries the prefix of its
\* place in the frontier.
AuditClean == err = "none" => audit_hashes(upper).bad = {}

\* A record is live in the file exactly when the frontier points at it: each is
\* freed once, when it is replaced.  (The region accounting rests on it.)
LiveRecordsReferenced == err = "none" => live = DiskRecords(upper)

\* The lookup of the collector.
RECURSIVE find_disk_ptr(_, _, _)
FindInChild(c, nibbles, depth) ==
    CASE c.c = "Disk" -> c.rec
      [] c.c = "Ram"  -> find_disk_ptr(c.node, nibbles, depth)
      [] c.c = "Account" /\ IsPrefix(c.path, From(nibbles, depth)) ->
            find_disk_ptr(c.storage, nibbles, depth + Len(c.path))
      [] OTHER -> NoRecord
find_disk_ptr(n, nibbles, depth) ==
    CASE n.t = "Extension" /\ IsPrefix(n.path, From(nibbles, depth)) ->
            find_disk_ptr(n.child, nibbles, depth + Len(n.path))
      [] n.t = "Branch" /\ depth < Len(nibbles) /\ nibbles[depth + 1] \in DOMAIN n.kids ->
            FindInChild(n.kids[nibbles[depth + 1]], nibbles, depth + 1)
      [] OTHER -> NoRecord

\* The prefix stored in a live record leads to the pointer at it, so the
\* collector can tell that it is live and move it (promote_storage_to_ram: "its
\* stored nibble path is the complete information needed to find its owning
\* pointer from the tree root").
RecordsAddressable ==
    err = "none" => \A rec \in live : find_disk_ptr(upper, rec.prefix, 0) = rec

\* A record always fits a region, however large an update is.
RecordsFit ==
    \A c \in Children(upper) : c.c \in {"Disk", "Mem"} => Size(c.rec.node) <= MaxRecord

\* An operation fails only if it, or the groups of its block run so far, leave
\* a single account (collapse_root: "unsupported below 2 keys"): never by a spill
\* that finds no slot for its pointer.  (The panic of apply_block is that of
\* module BlockUpdate.)
FailsOnlyBelowTwoKeys ==
    err \in {"none", "panic"} \/ (err = "below two keys" /\ Cardinality(DOMAIN want) = 1)

=============================================================================
