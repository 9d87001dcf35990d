---------------------------- MODULE BlockUpdate ----------------------------
(***************************************************************************)
(* apply_block: a block's operations on one account are folded into a net  *)
(* update (normalize_block), which is applied to the account wherever it   *)
(* lives, in a record (apply_net_in_record) or promoted into the frontier  *)
(* (the Account case of apply_group_child), and an inverse block is        *)
(* returned: the rollback primitive for reorgs.                            *)
(*                                                                         *)
(* Accounts are independent: normalize_block groups operations by account, *)
(* each group is applied on its own and the inverses are concatenated, so  *)
(* one account is modelled.  fields stands for nonce, balance and code     *)
(* hash.  Record sizes, which decide promotion and demotion, are           *)
(* abstracted: an account may be promoted whenever its storage has a       *)
(* branch, that is two slots.                                              *)
(*                                                                         *)
(* The operations of a block come one at a time, without end, and the fold *)
(* of those so far is kept.  So is the inverse: the one use of its list is *)
(* to be folded in its turn, so pushing an operation is folding it.  An    *)
(* update writes each slot once, hence the order of its slots is dropped.  *)
(*                                                                         *)
(* An opaque account is a leaf whose value has a storage root folded in,   *)
(* without the slots under it (FlatMpt::insert of an account's encoding).  *)
(* With the empty root folded in it is as good as a plain one.             *)
(***************************************************************************)
EXTENDS Naturals, Sequences

CONSTANTS
    Slot,         \* storage slot keys
    Val,          \* slot values
    Fields,       \* account fields
    EmptyFields,  \* nonce 0, balance 0, the empty code hash
    None,         \* no value in a slot, no account
    MaxUndo       \* bound on the blocks that can still be rolled back

VARIABLES
    acct,      \* the account, or None
    promoted,  \* its storage is a frontier of its own
    undo,      \* the blocks that can be rolled back, oldest first
    pc,        \* "idle", "fold" inside normalize_block; "applied", "rolled" after a call
    stopped,   \* "no", or how the last apply_block ended: in a "panic", an "error"
    upd,       \* the net update of the block's operations so far
    \* History.
    seq,       \* the account after these operations, one by one
    touched,   \* one of them changes an unknown slot, and none after it clears them
    rolled     \* what was rolled back, <<the undo entry, the account it was applied to>>

vars == <<acct, promoted, undo, pc, stopped, upd, seq, touched, rolled>>

Account == [fields : Fields, slots : [Slot -> Val \cup {None}], opaque : BOOLEAN]
StateOp ==
    [op : {"SetAccount"}, fields : Fields]
    \cup [op : {"DeleteAccount", "WipeStorage"}]
    \cup [op : {"SetStorage"}, slot : Slot, value : Val]
    \cup [op : {"DeleteStorage"}, slot : Slot]

Keep   == "Keep"
Delete == "Delete"

\* A net update: wipe the storage, set or delete the account, write the slots.
NetUpdate ==
    [wipe : BOOLEAN, account : Fields \cup {Keep, Delete}, slots : [Slot -> Val \cup {None, Keep}]]

ASSUME BlockAssumption ==
    /\ EmptyFields \in Fields
    /\ None \notin Val \cup Account
    /\ Keep \notin Val \cup Fields \cup {None} /\ Delete \notin Fields
    /\ MaxUndo \in Nat

NoSlots       == [s \in Slot |-> None]
SlotsOf(a)    == IF a = None THEN {} ELSE {s \in Slot : a.slots[s] # None}
Branches(a)   == \E s, t \in SlotsOf(a) : s # t
Plain(f)      == [fields |-> f, slots |-> NoSlots, opaque |-> FALSE]
Opaque(f)     == [fields |-> f, slots |-> NoSlots, opaque |-> TRUE]
EmptyAccount  == Plain(EmptyFields)
IsOpaque(a)   == a # None /\ a.opaque

-----------------------------------------------------------------------------
(* normalize_block *)

NoWrites == [s \in Slot |-> Keep]
NoUpdate == [wipe |-> FALSE, account |-> Keep, slots |-> NoWrites]

\* Mutant: deleting the account keeps the block's earlier slot writes.
NormalizeOpKeepsSlots(u, o) ==
    CASE o.op = "SetAccount"    -> [u EXCEPT !.account = o.fields]
      [] o.op = "DeleteAccount" -> [u EXCEPT !.account = Delete, !.wipe = TRUE]
      [] o.op = "WipeStorage"   -> [u EXCEPT !.wipe = TRUE, !.slots = NoWrites]
      [] o.op = "SetStorage"    ->
            [u EXCEPT !.account = IF @ = Delete THEN EmptyFields ELSE @, !.slots[o.slot] = o.value]
      [] o.op = "DeleteStorage" ->
            IF u.account = Delete THEN u ELSE [u EXCEPT !.slots[o.slot] = None]

\* One operation folded into the net update: the last write to a slot wins.
NormalizeOp(u, o) ==
    CASE o.op = "SetAccount"    -> [u EXCEPT !.account = o.fields]
      [] o.op = "DeleteAccount" -> [wipe |-> TRUE, account |-> Delete, slots |-> NoWrites]
      [] o.op = "WipeStorage"   -> [u EXCEPT !.wipe = TRUE, !.slots = NoWrites]
      [] o.op = "SetStorage"    ->
            [u EXCEPT !.account = IF @ = Delete THEN EmptyFields ELSE @, !.slots[o.slot] = o.value]
      [] o.op = "DeleteStorage" ->
            IF u.account = Delete THEN u ELSE [u EXCEPT !.slots[o.slot] = None]

\* NetUpdate::creates.
Creates(u) == u.account \in Fields \/ \E s \in Slot : u.slots[s] \in Val

-----------------------------------------------------------------------------
(* Applying a net update.  A result is the account and the inverse so far; *)
(* created says that the block creates the account, changed that it has    *)
(* changed anything, failed that a slot of an opaque account was touched.  *)

\* A run of SetStorage and DeleteStorage pushed to the inverse, one for each slot
\* with a value or None.
PushSlots(inv, writes) ==
    [inv EXCEPT !.slots = [s \in Slot |-> IF writes[s] = Keep THEN @[s] ELSE writes[s]]]

\* Every slot of the account, as a write that sets it.
Held(a) == [s \in Slot |-> IF a.slots[s] = None THEN Keep ELSE a.slots[s]]

\* Mutant: a slot the block has added is not deleted.
SlotInverseKeepsNew(prior, v) == IF v = Keep \/ prior = None THEN Keep ELSE prior

\* What undoes writing v to a slot that holds prior.
SlotInverse(prior, v) ==
    IF v = Keep THEN Keep
    ELSE IF prior # None THEN prior
    ELSE IF v # None THEN None ELSE Keep

\* A write to a missing account creates an empty one.
BaseFor(a, writes) ==
    IF a = None /\ \E s \in Slot : writes[s] \in Val THEN EmptyAccount ELSE a
PriorSlots(a) == IF a = None THEN NoSlots ELSE a.slots
Written(a, writes) ==
    IF a = None THEN None
    ELSE [a EXCEPT !.slots = [s \in Slot |-> IF writes[s] = Keep THEN @[s] ELSE writes[s]]]

\* Mutant: deleting a slot of an opaque account does nothing.
ApplySlotsSilent(res, writes) ==
    LET prior == PriorSlots(res.acct) IN
    [res EXCEPT
        !.acct = Written(BaseFor(@, writes), writes),
        !.inv = IF res.created THEN @
                ELSE PushSlots(@, [s \in Slot |-> SlotInverse(prior[s], writes[s])]),
        !.changed = @ \/ \E s \in Slot : writes[s] # Keep /\ (prior[s] # None \/ writes[s] # None),
        !.failed = IsOpaque(res.acct) /\ \E s \in Slot : writes[s] \in Val]

\* The slots of the update; no write can reach a slot of an opaque account.
ApplySlots(res, writes) ==
    LET prior == PriorSlots(res.acct) IN
    [res EXCEPT
        !.acct = Written(BaseFor(@, writes), writes),
        !.inv = IF res.created THEN @
                ELSE PushSlots(@, [s \in Slot |-> SlotInverse(prior[s], writes[s])]),
        !.changed = @ \/ \E s \in Slot : writes[s] # Keep /\ (prior[s] # None \/ writes[s] # None),
        !.failed = IsOpaque(res.acct) /\ \E s \in Slot : writes[s] # Keep]

\* The account outcome Set.  An opaque root, which cannot be recomputed, stays.
ApplyFields(res, f) ==
    [res EXCEPT
        !.acct = IF @ = None THEN Plain(f) ELSE [@ EXCEPT !.fields = f],
        !.inv = IF res.created THEN @ ELSE NormalizeOp(@, [op |-> "SetAccount", fields |-> res.acct.fields]),
        !.changed = TRUE]

\* The wipe, in a record.  An opaque account becomes a plain one.
ApplyWipe(res) ==
    IF res.created THEN res
    ELSE [res EXCEPT !.acct = Plain(@.fields),
                     !.inv = PushSlots(NormalizeOp(@, [op |-> "WipeStorage"]), Held(res.acct)),
                     !.changed = @ \/ SlotsOf(res.acct) # {} \/ IsOpaque(res.acct)]

ApplyDelete(res) ==
    IF res.created THEN res
    ELSE [res EXCEPT !.acct = None,
                     !.inv = PushSlots(NormalizeOp(NormalizeOp(@, [op |-> "WipeStorage"]),
                                                   [op |-> "SetAccount", fields |-> res.acct.fields]),
                                       Held(res.acct)),
                     !.changed = TRUE]

Start(a) == [acct |-> a, inv |-> NoUpdate, created |-> a = None, changed |-> FALSE,
             failed |-> FALSE]

\* Wipe, account outcome, slots, in this order.  What the block created, the
\* inverse deletes.
apply_net_in_record(a, u) ==
    IF u.account = Delete THEN ApplyDelete(Start(a))
    ELSE LET wiped == IF u.wipe THEN ApplyWipe(Start(a)) ELSE Start(a)
             set   == IF u.account = Keep THEN wiped ELSE ApplyFields(wiped, u.account)
             res   == ApplySlots(set, u.slots)
         IN  IF res.created /\ res.changed
             THEN [res EXCEPT !.inv = NormalizeOp(@, [op |-> "DeleteAccount"])] ELSE res

\* A missing account is skipped unless the update creates something.  The slot
\* loop of a promoted account pushes the same inverses; when a deletion
\* collapses its storage it continues in record form.
ApplyGroup(a, u) ==
    IF a = None /\ ~Creates(u) THEN Start(a) ELSE apply_net_in_record(a, u)

\* A storage record of a promoted account carries its full path: the nibbles
\* of the account key, then those of the slot key.  ram_collect_storage packs
\* that path as if it were a slot key, and nibbles_to_key writes past its 32
\* bytes.  Only a wipe and a delete collect the storage.
KeyNibbles == 64
CollectedPath == IF promoted THEN KeyNibbles + KeyNibbles ELSE KeyNibbles
NibblesToKeyPanics(len) == len > KeyNibbles
ApplyPanics(u) ==
    /\ promoted /\ (u.account = Delete \/ u.wipe)
    /\ NibblesToKeyPanics(CollectedPath)

\* Where the account may live afterwards: finish_child promotes a record
\* whose storage has a branch; a promoted account may be demoted only when a
\* slot was deleted, and is when no branch is left.
FormsAfter(res) ==
    IF ~res.changed THEN {promoted}
    ELSE IF promoted /\ SlotsOf(acct) \subseteq SlotsOf(res.acct) THEN {TRUE}
    ELSE IF Branches(res.acct) THEN BOOLEAN ELSE {FALSE}

-----------------------------------------------------------------------------
(* What one operation does to the account, as the tests' reference model has it *)
(* ("Apply ops to the model with the same net semantics as the engine"); to an  *)
(* opaque one, slot operations do nothing.                                      *)
Sequential(a, o) ==
    CASE o.op = "SetAccount"    -> IF a = None THEN Plain(o.fields) ELSE [a EXCEPT !.fields = o.fields]
      [] o.op = "DeleteAccount" -> None
      [] o.op = "WipeStorage"   -> IF a = None THEN None ELSE Plain(a.fields)
      [] o.op = "SetStorage"    ->
            IF IsOpaque(a) THEN a
            ELSE [(IF a = None THEN EmptyAccount ELSE a) EXCEPT !.slots[o.slot] = o.value]
      [] o.op = "DeleteStorage" ->
            IF a = None \/ IsOpaque(a) THEN a ELSE [a EXCEPT !.slots[o.slot] = None]

-----------------------------------------------------------------------------
Init ==
    /\ acct = None /\ promoted = FALSE /\ undo = <<>>
    /\ pc = "idle" /\ stopped = "no"
    /\ upd = NoUpdate /\ seq = None /\ touched = FALSE /\ rolled = <<>>

Ready == pc = "idle" /\ stopped = "no"

\* FlatMpt::insert of an account's encoding, when the database is filled.
LoadOpaque(f) ==
    /\ Ready /\ undo = <<>>
    /\ acct = None \/ IsOpaque(acct)
    /\ acct' = Opaque(f)
    /\ UNCHANGED <<promoted, undo, pc, stopped, upd, seq, touched, rolled>>

\* A call of apply_block, and each operation of its block.
BeginBlock ==
    /\ Ready /\ Len(undo) < MaxUndo
    /\ pc' = "fold" /\ upd' = NoUpdate /\ seq' = acct /\ touched' = FALSE
    /\ UNCHANGED <<acct, promoted, undo, stopped, rolled>>
FoldOp(o) ==
    /\ pc = "fold"
    /\ upd' = NormalizeOp(upd, o)
    /\ seq' = Sequential(seq, o)
    /\ touched' = CASE o.op \in {"SetStorage", "DeleteStorage"}  -> touched \/ IsOpaque(seq)
                    [] o.op \in {"WipeStorage", "DeleteAccount"} -> FALSE
                    [] OTHER -> touched
    /\ UNCHANGED <<acct, promoted, undo, pc, stopped, rolled>>

\* A block that fails leaves the account as it is where its record lies on disk;
\* a record in RAM has been taken out of its slot and is not put back.
ApplyBlock ==
    LET res == ApplyGroup(acct, upd) IN
    /\ pc = "fold" /\ pc' = "applied"
    /\ \/ /\ ApplyPanics(upd)
          /\ stopped' = "panic" /\ UNCHANGED <<acct, promoted, undo>>
       \/ /\ ~ApplyPanics(upd) /\ res.failed
          /\ stopped' = "error" /\ acct' \in {acct, None} /\ UNCHANGED <<promoted, undo>>
       \/ /\ ~ApplyPanics(upd) /\ ~res.failed
          /\ acct' = res.acct /\ promoted' \in FormsAfter(res)
          /\ undo' = Append(undo, [before |-> acct, upd |-> upd, after |-> res.acct, inv |-> res.inv])
          /\ UNCHANGED stopped
    /\ UNCHANGED <<upd, seq, touched, rolled>>

\* The embedder rolls the newest block back: apply_block(inverse).
Rollback ==
    /\ Ready /\ undo # <<>>
    /\ LET e   == undo[Len(undo)]
           res == ApplyGroup(acct, e.inv)
       IN  \/ /\ ApplyPanics(e.inv)
              /\ stopped' = "panic" /\ UNCHANGED <<acct, promoted, undo, pc, rolled>>
           \/ /\ ~ApplyPanics(e.inv) /\ pc' = "rolled" /\ rolled' = <<e, acct>>
              /\ \/ /\ res.failed
                    /\ stopped' = "error" /\ acct' \in {acct, None} /\ UNCHANGED <<promoted, undo>>
                 \/ /\ ~res.failed
                    /\ acct' = res.acct /\ promoted' \in FormsAfter(res)
                    /\ undo' = SubSeq(undo, 1, Len(undo) - 1)
                    /\ UNCHANGED stopped
    /\ UNCHANGED <<upd, seq, touched>>

\* The embedder gives up the oldest inverse: that block is final.
Finalize ==
    /\ Ready /\ undo # <<>>
    /\ undo' = Tail(undo)
    /\ UNCHANGED <<acct, promoted, pc, stopped, upd, seq, touched, rolled>>

\* The embedder goes on after a call.
GoOn ==
    /\ pc \in {"applied", "rolled"} /\ stopped = "no" /\ pc' = "idle"
    /\ upd' = NoUpdate /\ seq' = None /\ touched' = FALSE /\ rolled' = <<>>
    /\ UNCHANGED <<acct, promoted, undo, stopped>>

Next ==
    \/ \E f \in Fields : LoadOpaque(f)
    \/ BeginBlock \/ (\E o \in StateOp : FoldOp(o)) \/ ApplyBlock
    \/ Rollback \/ Finalize \/ GoOn

Spec == Init /\ [][Next]_vars

-----------------------------------------------------------------------------
(* Properties *)

TypeOK ==
    /\ acct \in Account \cup {None} /\ seq \in Account \cup {None} /\ upd \in NetUpdate
    /\ promoted \in BOOLEAN /\ touched \in BOOLEAN
    /\ promoted => Branches(acct)
    /\ \A a \in {acct, seq} : IsOpaque(a) => SlotsOf(a) = {}
    /\ undo \in Seq([before : Account \cup {None}, upd : NetUpdate,
                     after : Account \cup {None}, inv : NetUpdate])
    /\ Len(undo) <= MaxUndo
    /\ pc \in {"idle", "fold", "applied", "rolled"} /\ stopped \in {"no", "panic", "error"}

\* The state after a block is that of its operations one by one, but for one
\* case: slot writes that the block itself takes back do not leave an empty
\* account behind where there was none.
MatchesSequentialButCreation ==
    pc = "applied" /\ stopped = "no" =>
        acct = seq \/ (acct = None /\ undo[Len(undo)].before = None /\ seq = EmptyAccount)

\* A block fails if, and only if, it leaves a change behind of a slot that nobody
\* can apply (opaque_account_apply_preserves_storage_root: "slot ops on a non-empty
\* opaque root fail loudly"), and no rollback fails from where its block led: never
\* is such a change dropped, nor a block refused that clears the storage in time.
FailsOnlyOnOpaque ==
    /\ pc = "applied" => (stopped = "error" <=> touched)
    /\ pc = "rolled" /\ rolled[2] = rolled[1].after => stopped # "error"

\* A rollback restores the account as it was before the block (apply_block:
\* "restores the exact pre-block state (the rollback primitive for reorgs)"), at
\* least if all of its storage was known.
InverseRestores ==
    pc = "rolled" /\ rolled[2] = rolled[1].after /\ ~IsOpaque(rolled[1].before) =>
        acct = rolled[1].before

\* The slots that a block sets after wiping the storage of the account.
RewrittenSlots(u) == {s \in Slot : u.wipe /\ u.slots[s] \in Val}

\* a is what was there before the block u, but for rewritten slots and an opaque
\* root the block cleared.
Restored(a, before, u) ==
    IF a = None \/ before = None THEN a = before
    ELSE /\ a.fields = before.fields
         /\ a.opaque = (before.opaque /\ ~u.wipe)
         /\ \A s \in Slot \ RewrittenSlots(u) : a.slots[s] = before.slots[s]

\* A rollback, from where its block led, restores the account, its fields, every
\* slot the block did not set after a wipe, and an opaque root it did not clear.
InverseRestoresButRewritten ==
    pc = "rolled" /\ rolled[2] = rolled[1].after => Restored(acct, rolled[1].before, rolled[1].upd)

\* apply_block always returns: a path it packs into a key is a full key (the
\* assertion of nibbles_to_key: "debug_assert_eq!(nibbles.len(), 64)").
PackedPathsAreKeys == stopped # "panic"
=============================================================================
