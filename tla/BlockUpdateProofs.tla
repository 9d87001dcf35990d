------------------------- MODULE BlockUpdateProofs -------------------------
(***************************************************************************)
(* Proofs about BlockUpdate, for any slots, values and fields, blocks of   *)
(* any length and any number of blocks to roll back.                       *)
(*                                                                         *)
(*   1. What applying a net update makes of an account and of the inverse, *)
(*      in closed form, by case: the account is missing, created, deleted, *)
(*      updated.                                                           *)
(*   2. The inverse undoes the update (InverseUndoes).                     *)
(*   3. The fold of a block agrees with its operations one by one, by      *)
(*      operation (FoldKeeps), hence so does its outcome (FoldsAgree).     *)
(*   4. The invariant these keep, and the properties that follow.          *)
(***************************************************************************)
EXTENDS BlockUpdate, TLAPS

\* The value of a slot, or of the account fields, where Keep leaves the old one.
Put(w, base) == IF w = Keep THEN base ELSE w

\* A missing account, or one that is opaque only without slots.
WellFormed(a) == a \in Account \cup {None} /\ (IsOpaque(a) => SlotsOf(a) = {})

\* A net update as normalize_block makes it.
WellFolded(u) == u \in NetUpdate /\ (u.account = Delete => u.wipe /\ u.slots = NoWrites)

\* What the proofs use of the constants: the marks Keep and Delete and None are no values.
LEMMA Constants ==
    /\ EmptyFields \in Fields
    /\ None \notin Val /\ None \notin Account /\ None # Keep
    /\ Keep \notin Val /\ Keep \notin Fields
    /\ Delete \notin Fields /\ Keep # Delete
BY BlockAssumption DEF BlockAssumption, Keep, Delete

\* The empty update is an update.
LEMMA NoWritesType == NoWrites \in [Slot -> Val \cup {None, Keep}] /\ NoUpdate \in NetUpdate
BY DEF NoWrites, NoUpdate, NetUpdate

\* normalize_block keeps its update in normal form: one that deletes the account wipes
\* the storage and writes no slot.
LEMMA FoldWellFolded ==
    ASSUME NEW u \in NetUpdate, WellFolded(u), NEW o \in StateOp
    PROVE  WellFolded(NormalizeOp(u, o))
<1>1. CASE o.op = "SetAccount"
  BY <1>1, Constants DEF NormalizeOp, WellFolded, NetUpdate, StateOp
<1>2. CASE o.op = "DeleteAccount"
  BY <1>2, Constants, NoWritesType DEF NormalizeOp, WellFolded, NetUpdate, StateOp
<1>3. CASE o.op = "WipeStorage"
  BY <1>3, Constants, NoWritesType DEF NormalizeOp, WellFolded, NetUpdate, StateOp
<1>4. CASE o.op = "SetStorage"
  BY <1>4, Constants DEF NormalizeOp, WellFolded, NetUpdate, StateOp
<1>5. CASE o.op = "DeleteStorage"
  BY <1>5, Constants DEF NormalizeOp, WellFolded, NetUpdate, StateOp
<1> QED
  BY <1>1, <1>2, <1>3, <1>4, <1>5 DEF StateOp

\* What pushing slot writes to an inverse makes of it.
LEMMA PushSlotsForm ==
    ASSUME NEW i \in NetUpdate, NEW w
    PROVE  PushSlots(i, w) = [wipe |-> i.wipe, account |-> i.account,
                              slots |-> [s \in Slot |-> Put(w[s], i.slots[s])]]
<1>1. i = [wipe |-> i.wipe, account |-> i.account, slots |-> i.slots]
  BY DEF NetUpdate
<1>2. PushSlots(i, w) = [i EXCEPT !.slots = [s \in Slot |-> Put(w[s], i.slots[s])]]
  BY DEF PushSlots, Put
<1> QED
  BY <1>1, <1>2

\* The results of the steps of apply_net_in_record.
Result == [acct : Account \cup {None}, inv : NetUpdate, created : BOOLEAN, changed : BOOLEAN,
           failed : BOOLEAN]

\* What the slots of an update make of a result, field by field.
LEMMA ApplySlotsForm ==
    ASSUME NEW r \in Result, NEW w
    PROVE  LET q == ApplySlots(r, w) IN
           /\ q.acct = Written(BaseFor(r.acct, w), w)
           /\ q.inv = IF r.created THEN r.inv
                      ELSE PushSlots(r.inv, [s \in Slot |-> SlotInverse(PriorSlots(r.acct)[s], w[s])])
           /\ q.created = r.created
           /\ q.changed = (r.changed \/ \E s \in Slot :
                              w[s] # Keep /\ (PriorSlots(r.acct)[s] # None \/ w[s] # None))
           /\ q.failed = (IsOpaque(r.acct) /\ \E s \in Slot : w[s] # Keep)
           /\ \A i : LET p == [q EXCEPT !.inv = i] IN
                      p.inv = i /\ p.acct = q.acct /\ p.failed = q.failed /\ p.changed = q.changed
<1> DEFINE q == ApplySlots(r, w)
<1>1. q.acct = Written(BaseFor(r.acct, w), w)
  BY DEF ApplySlots, Result
<1>2. q.inv = IF r.created THEN r.inv
                      ELSE PushSlots(r.inv, [s \in Slot |-> SlotInverse(PriorSlots(r.acct)[s], w[s])])
  BY DEF ApplySlots, Result
<1>3. q.created = r.created
  BY DEF ApplySlots, Result
<1>4. q.changed = (r.changed \/ \E s \in Slot :
                              w[s] # Keep /\ (PriorSlots(r.acct)[s] # None \/ w[s] # None))
  BY DEF ApplySlots, Result
<1>5. q.failed = (IsOpaque(r.acct) /\ \E s \in Slot : w[s] # Keep)
  BY DEF ApplySlots, Result
<1>6. ASSUME NEW i
      PROVE  LET p == [q EXCEPT !.inv = i] IN
             p.inv = i /\ p.acct = q.acct /\ p.failed = q.failed /\ p.changed = q.changed
  <2>1. [q EXCEPT !.inv = i].inv = i
    BY DEF ApplySlots, Result
  <2>2. [q EXCEPT !.inv = i].acct = q.acct
    BY DEF ApplySlots, Result
  <2>3. [q EXCEPT !.inv = i].failed = q.failed
    BY DEF ApplySlots, Result
  <2>4. [q EXCEPT !.inv = i].changed = q.changed
    BY DEF ApplySlots, Result
  <2> HIDE DEF q
  <2> QED
    BY <2>1, <2>2, <2>3, <2>4
<1> HIDE DEF q
<1> QED
  BY <1>1, <1>2, <1>3, <1>4, <1>5, <1>6 DEF q

-----------------------------------------------------------------------------
(* Applying a net update, in closed form. *)

\* A missing account that the update does not create is skipped.
LEMMA GroupSkipped ==
    ASSUME NEW u \in NetUpdate, ~Creates(u)
    PROVE  ApplyGroup(None, u) = [acct |-> None, inv |-> NoUpdate, created |-> TRUE, changed |-> FALSE,
                                  failed |-> FALSE]
BY DEF ApplyGroup, Start

\* The inverse of an update that creates the account.
Creation == [wipe |-> TRUE, account |-> Delete, slots |-> NoWrites]

\* A missing account that the update creates: its inverse deletes it.
LEMMA GroupCreates ==
    ASSUME NEW u \in NetUpdate, WellFolded(u), Creates(u)
    PROVE  LET r == ApplyGroup(None, u) IN
           /\ ~r.failed /\ r.inv = Creation
           /\ r.acct = [fields |-> Put(u.account, EmptyFields),
                        slots |-> [s \in Slot |-> Put(u.slots[s], None)], opaque |-> FALSE]
<1> DEFINE set == IF u.account = Keep THEN Start(None) ELSE ApplyFields(Start(None), u.account)
           res == ApplySlots(set, u.slots)
<1>1. u.account # Delete
  BY Constants DEF Creates, WellFolded, NoWrites
<1>2. set = [acct |-> IF u.account = Keep THEN None ELSE Plain(u.account), inv |-> NoUpdate,
             created |-> TRUE, changed |-> u.account # Keep, failed |-> FALSE]
  BY DEF Start, ApplyFields
<1>3. BaseFor(set.acct, u.slots) = Plain(Put(u.account, EmptyFields))
  <2>1. CASE u.account = Keep
    BY <1>2, <2>1, Constants DEF BaseFor, Put, Creates, EmptyAccount
  <2>2. CASE u.account # Keep
    <3>1. Plain(u.account) \in Account
      BY <2>2, <1>1 DEF Plain, NoSlots, Account, NetUpdate
    <3> QED
      BY <1>2, <2>2, <3>1, Constants DEF BaseFor, Put
  <2> QED
    BY <2>1, <2>2
<1>4. Plain(Put(u.account, EmptyFields)) # None
  <2>1. Put(u.account, EmptyFields) \in Fields
    BY <1>1, Constants DEF NetUpdate, Put
  <2>2. Plain(Put(u.account, EmptyFields)) \in Account
    BY <2>1 DEF Plain, NoSlots, Account
  <2> QED
    BY <2>2, Constants
<1>5. ~IsOpaque(set.acct)
  BY <1>2 DEF IsOpaque, Plain
<1> HIDE DEF set
<1>6. PriorSlots(set.acct) = NoSlots
  BY <1>2 DEF PriorSlots, Plain
<1>t1. set \in Result
  <2>1. u.account # Keep => Plain(u.account) \in Account
    BY <1>1 DEF Plain, NoSlots, Account, NetUpdate
  <2> QED
    BY <1>2, <2>1, NoWritesType DEF Result
<1>r1. /\ res.acct = Written(BaseFor(set.acct, u.slots), u.slots)
       /\ res.inv = IF set.created THEN set.inv
                    ELSE PushSlots(set.inv, [s \in Slot |-> SlotInverse(PriorSlots(set.acct)[s], u.slots[s])])
       /\ res.created = set.created
       /\ res.changed = (set.changed \/ \E s \in Slot :
                            u.slots[s] # Keep /\ (PriorSlots(set.acct)[s] # None \/ u.slots[s] # None))
       /\ res.failed = (IsOpaque(set.acct) /\ \E s \in Slot : u.slots[s] # Keep)
       /\ \A i : LET p == [res EXCEPT !.inv = i] IN
                  p.inv = i /\ p.acct = res.acct /\ p.failed = res.failed /\ p.changed = res.changed
  BY <1>t1, ApplySlotsForm
<1> HIDE DEF res
<1>7. /\ ~res.failed /\ res.created /\ res.inv = NoUpdate
      /\ res.acct = Written(Plain(Put(u.account, EmptyFields)), u.slots)
  BY <1>2, <1>3, <1>5, <1>r1
<1>8. res.changed
  <2>1. CASE u.account # Keep
    BY <2>1, <1>2, <1>r1
  <2>2. CASE u.account = Keep
    <3>1. PICK s \in Slot : u.slots[s] \in Val
      BY <2>2, Constants DEF Creates
    <3> QED
      BY <3>1, Constants, <1>r1
  <2> QED
    BY <2>1, <2>2
<1>9. ApplyGroup(None, u) = [res EXCEPT !.inv = NormalizeOp(@, [op |-> "DeleteAccount"])]
  BY <1>1, <1>7, <1>8 DEF ApplyGroup, apply_net_in_record, set, res, ApplyWipe, Start
<1>10. Written(Plain(Put(u.account, EmptyFields)), u.slots)
         = [fields |-> Put(u.account, EmptyFields),
            slots |-> [s \in Slot |-> Put(u.slots[s], None)], opaque |-> FALSE]
  BY <1>4 DEF Written, Plain, NoSlots, Put
<1>11. NormalizeOp(NoUpdate, [op |-> "DeleteAccount"]) = Creation
  BY DEF NormalizeOp, Creation
<1>14. LET p == [res EXCEPT !.inv = Creation] IN
       p.inv = Creation /\ p.acct = res.acct /\ p.failed = res.failed
  BY <1>r1
<1>15. ApplyGroup(None, u) = [res EXCEPT !.inv = Creation]
  BY <1>7, <1>9, <1>11
<1> DEFINE r == ApplyGroup(None, u)
<1> HIDE DEF r
<1>16. r.inv = Creation /\ r.acct = res.acct /\ r.failed = res.failed
  BY <1>14, <1>15 DEF r
<1> QED
  BY <1>7, <1>10, <1>16 DEF r

\* An account that the update deletes: its inverse sets it again with all its slots.
LEMMA GroupDeletes ==
    ASSUME NEW u \in NetUpdate, u.account = Delete, NEW a \in Account
    PROVE  LET r == ApplyGroup(a, u) IN
           /\ r.acct = None /\ ~r.failed /\ r.changed
           /\ r.inv = [wipe |-> TRUE, account |-> a.fields, slots |-> Held(a)]
<1>1. a # None
  BY Constants
<1>2. NormalizeOp(NormalizeOp(NoUpdate, [op |-> "WipeStorage"]), [op |-> "SetAccount", fields |-> a.fields])
        = [wipe |-> TRUE, account |-> a.fields, slots |-> NoWrites]
  BY DEF NormalizeOp, NoUpdate
<1>3. PushSlots([wipe |-> TRUE, account |-> a.fields, slots |-> NoWrites], Held(a))
        = [wipe |-> TRUE, account |-> a.fields, slots |-> Held(a)]
  <2>1. [s \in Slot |-> IF Held(a)[s] = Keep THEN NoWrites[s] ELSE Held(a)[s]] = Held(a)
    BY DEF Held, NoWrites
  <2>2. [wipe |-> TRUE, account |-> a.fields, slots |-> NoWrites] \in NetUpdate
    BY NoWritesType DEF NetUpdate, Account
  <2> QED
    BY <2>1, <2>2, PushSlotsForm DEF Put
<1>4. ApplyGroup(a, u) = ApplyDelete(Start(a))
  BY <1>1 DEF ApplyGroup, apply_net_in_record
<1> QED
  BY <1>1, <1>2, <1>3, <1>4 DEF ApplyDelete, Start

\* What the wipe makes of an account.
LEMMA WipeForm ==
    ASSUME NEW a \in Account
    PROVE  LET r == ApplyWipe(Start(a)) IN
           /\ r \in Result /\ ~r.created /\ r.acct = Plain(a.fields)
           /\ r.inv = [wipe |-> TRUE, account |-> Keep, slots |-> Held(a)]
           /\ ~r.changed => SlotsOf(a) = {}
<1>1. a # None
  BY Constants
<1>2. NormalizeOp(NoUpdate, [op |-> "WipeStorage"]) = [wipe |-> TRUE, account |-> Keep, slots |-> NoWrites]
  BY DEF NormalizeOp, NoUpdate
<1>3. PushSlots([wipe |-> TRUE, account |-> Keep, slots |-> NoWrites], Held(a))
        = [wipe |-> TRUE, account |-> Keep, slots |-> Held(a)]
  <2>1. [s \in Slot |-> IF Held(a)[s] = Keep THEN NoWrites[s] ELSE Held(a)[s]] = Held(a)
    BY DEF Held, NoWrites
  <2>2. [wipe |-> TRUE, account |-> Keep, slots |-> NoWrites] \in NetUpdate
    BY NoWritesType DEF NetUpdate
  <2> QED
    BY <2>1, <2>2, PushSlotsForm DEF Put
<1>4. Plain(a.fields) \in Account
  BY DEF Plain, NoSlots, Account
<1>5. [wipe |-> TRUE, account |-> Keep, slots |-> Held(a)] \in NetUpdate
  BY DEF NetUpdate, Held, Account
<1>6. Start(a) \in Result
  BY NoWritesType DEF Start, Result
<1> DEFINE i == [wipe |-> TRUE, account |-> Keep, slots |-> Held(a)]
           c == SlotsOf(a) # {} \/ IsOpaque(a)
           r == [acct |-> Plain(a.fields), inv |-> i, created |-> FALSE, changed |-> c, failed |-> FALSE]
<1>7. c \in BOOLEAN
  OBVIOUS
<1>8. ApplyWipe(Start(a)) = r
  BY <1>1, <1>2, <1>3 DEF ApplyWipe, Start
<1> HIDE DEF c, i
<1>9. r \in Result
  BY <1>4, <1>5, <1>7 DEF Result, i
<1>10. ~r.created /\ r.acct = Plain(a.fields) /\ r.inv = i /\ r.changed = c
  OBVIOUS
<1> HIDE DEF r
<1>11. ~r.changed => SlotsOf(a) = {}
  BY <1>10 DEF c
<1> QED
  BY <1>8, <1>9, <1>10, <1>11 DEF i

\* What the account outcome Set makes of a result.
LEMMA FieldsForm ==
    ASSUME NEW w \in Result, ~w.created, w.acct \in Account, NEW f \in Fields
    PROVE  LET r == ApplyFields(w, f) IN
           /\ r \in Result /\ ~r.created /\ r.changed
           /\ r.acct = [w.acct EXCEPT !.fields = f]
           /\ r.inv = [w.inv EXCEPT !.account = w.acct.fields]
<1>1. w.acct # None
  BY Constants
<1>2. [w.acct EXCEPT !.fields = f] \in Account
  BY DEF Account
<1>3. [w.inv EXCEPT !.account = w.acct.fields] \in NetUpdate
  BY DEF Account, NetUpdate, Result
<1>4. NormalizeOp(w.inv, [op |-> "SetAccount", fields |-> w.acct.fields])
        = [w.inv EXCEPT !.account = w.acct.fields]
  BY DEF NormalizeOp
<1>5. ApplyFields(w, f) = [w EXCEPT !.acct = [w.acct EXCEPT !.fields = f],
                                    !.inv = [w.inv EXCEPT !.account = w.acct.fields],
                                    !.changed = TRUE]
  BY <1>1, <1>4 DEF ApplyFields
<1> QED
  BY <1>2, <1>3, <1>5 DEF Result

\* The slots of the inverse of u, applied to a: those it writes, and after a wipe all
\* that were held before.
InverseSlots(a, u) ==
    [s \in Slot |-> Put(SlotInverse(IF u.wipe THEN None ELSE a.slots[s], u.slots[s]),
                        IF u.wipe THEN Held(a)[s] ELSE Keep)]

\* An account that the update leaves in place, with the inverse slot by slot.  Only
\* a slot of an opaque account that is not wiped makes it fail.
LEMMA GroupUpdates ==
    ASSUME NEW u \in NetUpdate, u.account # Delete, NEW a \in Account
    PROVE  LET r == ApplyGroup(a, u) IN
           /\ r.acct \in Account /\ r.inv \in NetUpdate
           /\ r.acct.fields = Put(u.account, a.fields)
           /\ r.acct.slots = [s \in Slot |-> Put(u.slots[s], IF u.wipe THEN None ELSE a.slots[s])]
           /\ r.acct.opaque = (a.opaque /\ ~u.wipe)
           /\ r.inv.wipe = u.wipe
           /\ r.inv.account = IF u.account = Keep THEN Keep ELSE a.fields
           /\ r.inv.slots = InverseSlots(a, u)
           /\ r.failed = (a.opaque /\ ~u.wipe /\ \E s \in Slot : u.slots[s] # Keep)
           /\ ~r.changed => SlotsOf(a) \subseteq SlotsOf(r.acct)
<1> DEFINE wiped == IF u.wipe THEN ApplyWipe(Start(a)) ELSE Start(a)
           set   == IF u.account = Keep THEN wiped ELSE ApplyFields(wiped, u.account)
           res   == ApplySlots(set, u.slots)
<1>1. a # None
  BY Constants
<1>2. /\ wiped \in Result /\ ~wiped.created
      /\ wiped.acct = IF u.wipe THEN Plain(a.fields) ELSE a
      /\ wiped.inv = IF u.wipe THEN [wipe |-> TRUE, account |-> Keep, slots |-> Held(a)] ELSE NoUpdate
      /\ ~wiped.changed => ~u.wipe \/ SlotsOf(a) = {}
  <2>1. CASE u.wipe
    BY <2>1, WipeForm
  <2>2. CASE ~u.wipe
    BY <2>2, <1>1, NoWritesType DEF Start, Result
  <2> QED
    BY <2>1, <2>2
<1> HIDE DEF wiped
<1>3. wiped.acct \in Account
  BY <1>2 DEF Plain, NoSlots, Account
<1>w1. /\ wiped.acct.slots = IF u.wipe THEN NoSlots ELSE a.slots
       /\ wiped.acct.opaque = (a.opaque /\ ~u.wipe)
       /\ wiped.acct.fields = a.fields
  <2>1. CASE u.wipe
    <3>1. wiped.acct = [fields |-> a.fields, slots |-> NoSlots, opaque |-> FALSE]
      BY <2>1, <1>2 DEF Plain
    <3>2. wiped.acct.fields = a.fields /\ wiped.acct.slots = NoSlots /\ wiped.acct.opaque = FALSE
      BY <3>1
    <3> QED
      BY <2>1, <3>2
  <2>2. CASE ~u.wipe
    BY <2>2, <1>2 DEF Account
  <2> QED
    BY <2>1, <2>2
<1>i1. /\ wiped.inv \in NetUpdate /\ wiped.inv.wipe = u.wipe /\ wiped.inv.account = Keep
       /\ wiped.inv.slots = IF u.wipe THEN Held(a) ELSE NoWrites
  <2>0. wiped.inv \in NetUpdate
    BY <1>2 DEF Result
  <2>1. CASE u.wipe
    BY <2>0, <2>1, <1>2
  <2>2. CASE ~u.wipe
    <3>1. wiped.inv = [wipe |-> FALSE, account |-> Keep, slots |-> NoWrites]
      BY <2>2, <1>2 DEF NoUpdate
    <3>2. u.wipe = FALSE
      BY <2>2 DEF NetUpdate
    <3>3. wiped.inv.wipe = FALSE /\ wiped.inv.account = Keep /\ wiped.inv.slots = NoWrites
      BY <3>1
    <3> QED
      BY <2>0, <3>2, <3>3
  <2> QED
    BY <2>1, <2>2
<1>4. u.account # Keep => u.account \in Fields
  BY DEF NetUpdate
<1>5. /\ set \in Result /\ ~set.created
      /\ set.acct = [wiped.acct EXCEPT !.fields = Put(u.account, a.fields)]
      /\ set.inv = [wiped.inv EXCEPT !.account = IF u.account = Keep THEN Keep ELSE a.fields]
      /\ ~set.changed => ~wiped.changed
  <2>0. wiped.acct.fields = a.fields /\ wiped.inv.account = Keep /\ wiped.inv \in NetUpdate
    BY <1>w1, <1>i1
  <2>1. CASE u.account = Keep
    <3>1. wiped.acct = [wiped.acct EXCEPT !.fields = a.fields]
      BY <2>0, <1>3 DEF Account
    <3>2. wiped.inv = [wiped.inv EXCEPT !.account = Keep]
      BY <2>0 DEF NetUpdate
    <3> QED
      BY <2>1, <1>2, <3>1, <3>2 DEF Put
  <2>2. CASE u.account # Keep
    BY <2>0, <2>2, <1>2, <1>3, <1>4, FieldsForm DEF Put
  <2> QED
    BY <2>1, <2>2
<1> HIDE DEF set
<1>6. set.acct \in Account
  BY <1>3, <1>4, <1>5 DEF Account, Put
<1>7. set.acct # None
  BY <1>6, Constants
<1>8. /\ set.acct.slots = IF u.wipe THEN NoSlots ELSE a.slots
      /\ set.acct.opaque = (a.opaque /\ ~u.wipe)
      /\ set.acct.fields = Put(u.account, a.fields)
  <2>1. set.acct.slots = wiped.acct.slots /\ set.acct.opaque = wiped.acct.opaque
    BY <1>3, <1>5 DEF Account
  <2>2. set.acct.fields = Put(u.account, a.fields)
    BY <1>3, <1>5 DEF Account
  <2> QED
    BY <2>1, <2>2, <1>w1
<1>9. /\ set.inv \in NetUpdate /\ set.inv.wipe = u.wipe
      /\ set.inv.account = IF u.account = Keep THEN Keep ELSE a.fields
      /\ set.inv.slots = IF u.wipe THEN Held(a) ELSE NoWrites
  <2>1. set.inv \in NetUpdate
    BY <1>5 DEF Result
  <2>2. set.inv.wipe = wiped.inv.wipe /\ set.inv.slots = wiped.inv.slots
    BY <1>5, <1>i1 DEF NetUpdate
  <2>3. set.inv.account = IF u.account = Keep THEN Keep ELSE a.fields
    BY <1>5, <1>i1 DEF NetUpdate
  <2> QED
    BY <2>1, <2>2, <2>3, <1>i1
<1>10. /\ res.acct = Written(BaseFor(set.acct, u.slots), u.slots)
       /\ res.inv = PushSlots(set.inv, [s \in Slot |-> SlotInverse(PriorSlots(set.acct)[s], u.slots[s])])
       /\ ~res.created
       /\ res.changed = (set.changed \/ \E s \in Slot :
                            u.slots[s] # Keep /\ (PriorSlots(set.acct)[s] # None \/ u.slots[s] # None))
       /\ res.failed = (IsOpaque(set.acct) /\ \E s \in Slot : u.slots[s] # Keep)
  <2>0. set \in Result
    BY <1>5
  <2>1. /\ res.acct = Written(BaseFor(set.acct, u.slots), u.slots)
        /\ res.inv = IF set.created THEN set.inv
                     ELSE PushSlots(set.inv, [s \in Slot |-> SlotInverse(PriorSlots(set.acct)[s], u.slots[s])])
        /\ res.created = set.created
        /\ res.changed = (set.changed \/ \E s \in Slot :
                             u.slots[s] # Keep /\ (PriorSlots(set.acct)[s] # None \/ u.slots[s] # None))
        /\ res.failed = (IsOpaque(set.acct) /\ \E s \in Slot : u.slots[s] # Keep)
    BY <2>0, ApplySlotsForm
  <2> HIDE DEF res
  <2> QED
    BY <2>1, <1>5
<1>11. ApplyGroup(a, u) = res
  BY <1>1, <1>10 DEF ApplyGroup, apply_net_in_record, set, wiped
<1> HIDE DEF res
<1>12. PriorSlots(set.acct) = set.acct.slots
  BY <1>7 DEF PriorSlots
<1>13. res.acct = [set.acct EXCEPT !.slots = [s \in Slot |-> Put(u.slots[s], set.acct.slots[s])]]
  BY <1>7, <1>10 DEF BaseFor, Written, Put
<1>14. res.acct.slots = [s \in Slot |-> Put(u.slots[s], IF u.wipe THEN None ELSE a.slots[s])]
  BY <1>6, <1>8, <1>13 DEF Account, NoSlots
<1>15. /\ res.acct \in Account /\ res.acct.fields = Put(u.account, a.fields)
       /\ res.acct.opaque = (a.opaque /\ ~u.wipe)
  <2>1. \A s \in Slot : Put(u.slots[s], set.acct.slots[s]) \in Val \cup {None}
    BY <1>6 DEF Put, NetUpdate, Account
  <2>2. res.acct \in Account
    <3> DEFINE m == [s \in Slot |-> Put(u.slots[s], set.acct.slots[s])]
    <3>1. m \in [Slot -> Val \cup {None}]
      BY <2>1
    <3>2. res.acct = [set.acct EXCEPT !.slots = m]
      BY <1>13
    <3> HIDE DEF m
    <3> QED
      BY <3>1, <3>2, <1>6 DEF Account
  <2>3. res.acct.fields = set.acct.fields /\ res.acct.opaque = set.acct.opaque
    BY <1>6, <1>13 DEF Account
  <2> QED
    BY <2>2, <2>3, <1>8
<1>16. res.inv = [wipe |-> u.wipe, account |-> set.inv.account,
                 slots |-> [s \in Slot |-> Put(SlotInverse(set.acct.slots[s], u.slots[s]), set.inv.slots[s])]]
  <2> DEFINE w == [s \in Slot |-> SlotInverse(set.acct.slots[s], u.slots[s])]
  <2>1. res.inv = PushSlots(set.inv, w)
    BY <1>10, <1>12
  <2>2. \A s \in Slot : w[s] = SlotInverse(set.acct.slots[s], u.slots[s])
    OBVIOUS
  <2> HIDE DEF w
  <2>3. res.inv = [wipe |-> set.inv.wipe, account |-> set.inv.account,
                   slots |-> [s \in Slot |-> Put(w[s], set.inv.slots[s])]]
    BY <2>1, <1>9, PushSlotsForm
  <2> QED
    BY <2>2, <2>3, <1>9
<1>17. res.inv.slots = InverseSlots(a, u)
  BY <1>8, <1>9, <1>16 DEF InverseSlots, NoSlots, NoWrites
<1>18. res.inv \in NetUpdate
  <2>1. \A s \in Slot : SlotInverse(set.acct.slots[s], u.slots[s]) \in Val \cup {None, Keep}
    BY <1>6 DEF SlotInverse, Account, NetUpdate
  <2>2. \A s \in Slot : set.inv.slots[s] \in Val \cup {None, Keep}
    BY <1>9 DEF NetUpdate
  <2>3. \A s \in Slot : Put(SlotInverse(set.acct.slots[s], u.slots[s]), set.inv.slots[s])
                            \in Val \cup {None, Keep}
    BY <2>1, <2>2 DEF Put
  <2>4. set.inv.account \in Fields \cup {Keep, Delete}
    BY <1>9 DEF NetUpdate
  <2> QED
    BY <1>16, <2>3, <2>4 DEF NetUpdate
<1>19. res.failed = (a.opaque /\ ~u.wipe /\ \E s \in Slot : u.slots[s] # Keep)
  BY <1>7, <1>8, <1>10 DEF IsOpaque
<1>20. ~res.changed => SlotsOf(a) \subseteq SlotsOf(res.acct)
  <2> SUFFICES ASSUME ~res.changed, NEW s \in Slot, a.slots[s] # None
               PROVE  res.acct.slots[s] # None
    BY <1>1, <1>15, Constants DEF SlotsOf
  <2>1. ~set.changed /\ ~(u.slots[s] # Keep /\ (set.acct.slots[s] # None \/ u.slots[s] # None))
    BY <1>10, <1>12
  <2>2. ~u.wipe
    BY <2>1, <1>1, <1>2, <1>5 DEF SlotsOf
  <2>3. u.slots[s] = Keep
    BY <2>1, <2>2, <1>8
  <2> QED
    BY <2>2, <2>3, <1>14 DEF Put
<1> DEFINE r == ApplyGroup(a, u)
<1> HIDE DEF r
<1>21. r = res
  BY <1>11 DEF r
<1>22. r.inv.wipe = u.wipe /\ r.inv.account = IF u.account = Keep THEN Keep ELSE a.fields
  BY <1>9, <1>16, <1>21
<1> QED
  BY <1>14, <1>15, <1>17, <1>18, <1>19, <1>20, <1>21, <1>22 DEF r

-----------------------------------------------------------------------------
(* The inverse. *)

\* A block that does not fail leaves an account, and an inverse in normal form.
LEMMA GroupShape ==
    ASSUME NEW u, WellFolded(u), NEW a, WellFormed(a), ~ApplyGroup(a, u).failed
    PROVE  WellFormed(ApplyGroup(a, u).acct) /\ WellFolded(ApplyGroup(a, u).inv)
<1> DEFINE r == ApplyGroup(a, u)
<1>0. u \in NetUpdate
  BY DEF WellFolded
<1>1. CASE a = None /\ ~Creates(u)
  <2>1. r.acct = None /\ r.inv = NoUpdate
    BY <1>0, <1>1, GroupSkipped
  <2> HIDE DEF r
  <2>2. WellFolded(r.inv)
    BY <2>1, NoWritesType, Constants DEF WellFolded, NoUpdate
  <2> QED
    BY <2>1, <2>2 DEF WellFormed, IsOpaque, r
<1>2. CASE a = None /\ Creates(u)
  <2>1. /\ r.inv = Creation
        /\ r.acct = [fields |-> Put(u.account, EmptyFields),
                     slots |-> [s \in Slot |-> Put(u.slots[s], None)], opaque |-> FALSE]
    BY <1>0, <1>2, GroupCreates
  <2>2. u.account # Delete
    BY <1>2, Constants DEF Creates, WellFolded, NoWrites
  <2>3. Put(u.account, EmptyFields) \in Fields
    BY <1>0, <2>2, Constants DEF NetUpdate, Put
  <2>4. [s \in Slot |-> Put(u.slots[s], None)] \in [Slot -> Val \cup {None}]
    BY <1>0 DEF NetUpdate, Put
  <2> HIDE DEF r
  <2>5. r.acct \in Account /\ ~r.acct.opaque
    BY <2>1, <2>3, <2>4 DEF Account
  <2>6. WellFolded(r.inv)
    BY <2>1, NoWritesType DEF Creation, WellFolded, NetUpdate
  <2> QED
    BY <2>5, <2>6 DEF WellFormed, IsOpaque, r
<1>3. CASE a # None /\ u.account = Delete
  <2>1. a \in Account
    BY <1>3 DEF WellFormed
  <2>2. r.acct = None /\ r.inv = [wipe |-> TRUE, account |-> a.fields, slots |-> Held(a)]
    BY <1>0, <1>3, <2>1, GroupDeletes
  <2>3. [wipe |-> TRUE, account |-> a.fields, slots |-> Held(a)] \in NetUpdate
    BY <2>1 DEF NetUpdate, Account, Held
  <2>4. a.fields # Delete
    BY <2>1, Constants DEF Account
  <2> HIDE DEF r
  <2>5. WellFolded(r.inv)
    BY <2>2, <2>3, <2>4 DEF WellFolded
  <2>6. WellFormed(r.acct)
    BY <2>2 DEF WellFormed, IsOpaque
  <2> QED
    BY <2>5, <2>6 DEF r
<1>4. CASE a # None /\ u.account # Delete
  <2>1. a \in Account
    BY <1>4 DEF WellFormed
  <2>2. /\ r.acct \in Account /\ r.inv \in NetUpdate
        /\ r.acct.slots = [s \in Slot |-> Put(u.slots[s], IF u.wipe THEN None ELSE a.slots[s])]
        /\ r.acct.opaque = (a.opaque /\ ~u.wipe)
        /\ r.inv.account = IF u.account = Keep THEN Keep ELSE a.fields
        /\ r.failed = (a.opaque /\ ~u.wipe /\ \E s \in Slot : u.slots[s] # Keep)
    BY <1>0, <1>4, <2>1, GroupUpdates
  <2>3. ~r.failed
    OBVIOUS
  <2> HIDE DEF r
  <2>4. r.inv.account # Delete
    BY <2>1, <2>2, Constants DEF Account
  <2>5. ASSUME r.acct.opaque, NEW s \in Slot
        PROVE  r.acct.slots[s] = None
    <3>1. a.opaque /\ ~u.wipe /\ u.slots[s] = Keep
      BY <2>2, <2>3, <2>5
    <3>2. a.slots[s] = None
      BY <1>4, <3>1 DEF WellFormed, IsOpaque, SlotsOf
    <3> QED
      BY <2>2, <3>1, <3>2 DEF Put
  <2>6. WellFormed(r.acct)
    BY <2>2, <2>5 DEF WellFormed, IsOpaque, SlotsOf
  <2>7. WellFolded(r.inv)
    BY <2>2, <2>4 DEF WellFolded
  <2> QED
    BY <2>6, <2>7 DEF r
<1> QED
  BY <1>1, <1>2, <1>3, <1>4

\* The rollback primitive: the inverse of a block, applied to what the block left,
\* neither fails nor leaves anything unrestored but rewritten slots and an opaque
\* root that was wiped.
LEMMA InverseUndoes ==
    ASSUME NEW u, WellFolded(u), NEW a, WellFormed(a), ~ApplyGroup(a, u).failed
    PROVE  LET r == ApplyGroup(a, u)
               q == ApplyGroup(r.acct, r.inv)
           IN  ~q.failed /\ Restored(q.acct, a, u)
<1> DEFINE r == ApplyGroup(a, u)
           q == ApplyGroup(r.acct, r.inv)
<1>0. u \in NetUpdate
  BY DEF WellFolded
<1>s. WellFormed(r.acct) /\ WellFolded(r.inv)
  BY GroupShape
<1>i. r.inv \in NetUpdate
  BY <1>s DEF WellFolded
<1>1. CASE a = None /\ ~Creates(u)
  <2>1. r.acct = None /\ r.inv = NoUpdate
    BY <1>0, <1>1, GroupSkipped
  <2>2. ~Creates(NoUpdate)
    BY Constants DEF Creates, NoUpdate, NoWrites
  <2>3. q = [acct |-> None, inv |-> NoUpdate, created |-> TRUE, changed |-> FALSE, failed |-> FALSE]
    BY <2>1, <2>2, NoWritesType, GroupSkipped
  <2> HIDE DEF q
  <2> QED
    BY <2>3, <1>1 DEF q, Restored
<1>2. CASE a = None /\ Creates(u)
  <2>1. /\ r.inv = Creation
        /\ r.acct = [fields |-> Put(u.account, EmptyFields),
                     slots |-> [s \in Slot |-> Put(u.slots[s], None)], opaque |-> FALSE]
    BY <1>0, <1>2, GroupCreates
  <2>2. r.inv.account = Delete
    BY <2>1 DEF Creation
  <2>3. r.acct \in Account
    <3>1. u.account # Delete
      BY <1>2, Constants DEF Creates, WellFolded, NoWrites
    <3>2. Put(u.account, EmptyFields) \in Fields
      BY <1>0, <3>1, Constants DEF NetUpdate, Put
    <3>3. [s \in Slot |-> Put(u.slots[s], None)] \in [Slot -> Val \cup {None}]
      BY <1>0 DEF NetUpdate, Put
    <3> HIDE DEF r
    <3> QED
      BY <2>1, <3>2, <3>3 DEF Account
  <2> HIDE DEF r
  <2>4. q.acct = None /\ ~q.failed
    BY <1>i, <2>2, <2>3, GroupDeletes
  <2> QED
    BY <2>4, <1>2 DEF q, r, Restored
<1>3. CASE a # None /\ u.account = Delete
  <2>1. a \in Account
    BY <1>3 DEF WellFormed
  <2>2. r.acct = None /\ r.inv = [wipe |-> TRUE, account |-> a.fields, slots |-> Held(a)]
    BY <1>0, <1>3, <2>1, GroupDeletes
  <2> HIDE DEF r
  <2>3. r.inv.wipe /\ r.inv.account = a.fields /\ r.inv.slots = Held(a)
    BY <2>2
  <2>4. Creates(r.inv)
    BY <2>1, <2>3 DEF Creates, Account
  <2>5. /\ ~q.failed
        /\ q.acct = [fields |-> Put(r.inv.account, EmptyFields),
                     slots |-> [s \in Slot |-> Put(r.inv.slots[s], None)], opaque |-> FALSE]
    BY <2>2, <2>4, <1>i, <1>s, GroupCreates
  <2>6. Put(r.inv.account, EmptyFields) = a.fields
    BY <2>1, <2>3, Constants DEF Account, Put
  <2>7. ASSUME NEW s \in Slot
        PROVE  Put(r.inv.slots[s], None) = a.slots[s]
    <3>1. a.slots[s] \in Val \cup {None}
      BY <2>1 DEF Account
    <3>2. r.inv.slots[s] = IF a.slots[s] = None THEN Keep ELSE a.slots[s]
      BY <2>3 DEF Held
    <3> QED
      BY <3>1, <3>2, Constants DEF Put
  <2> HIDE DEF q
  <2>8. /\ q.acct.fields = a.fields /\ q.acct.opaque = FALSE
        /\ \A s \in Slot : q.acct.slots[s] = a.slots[s]
    BY <2>5, <2>6, <2>7
  <2>9. u.wipe
    BY <1>3 DEF WellFolded
  <2>10. Restored(q.acct, a, u)
    <3>1. q.acct \in Account
      <4>1. a.slots = [s \in Slot |-> Put(r.inv.slots[s], None)]
        BY <2>1, <2>7 DEF Account
      <4>2. q.acct = [fields |-> a.fields, slots |-> a.slots, opaque |-> FALSE]
        BY <2>5, <2>6, <4>1
      <4> QED
        BY <4>2, <2>1 DEF Account
    <3> QED
      BY <1>3, <2>8, <2>9, <3>1, Constants DEF Restored
  <2> QED
    BY <2>5, <2>10 DEF q, r
<1>4. CASE a # None /\ u.account # Delete
  <2>1. a \in Account
    BY <1>4 DEF WellFormed
  <2>2. /\ r.acct \in Account
        /\ r.acct.fields = Put(u.account, a.fields)
        /\ r.acct.slots = [s \in Slot |-> Put(u.slots[s], IF u.wipe THEN None ELSE a.slots[s])]
        /\ r.acct.opaque = (a.opaque /\ ~u.wipe)
        /\ r.inv.wipe = u.wipe
        /\ r.inv.account = IF u.account = Keep THEN Keep ELSE a.fields
        /\ r.inv.slots = InverseSlots(a, u)
        /\ r.failed = (a.opaque /\ ~u.wipe /\ \E s \in Slot : u.slots[s] # Keep)
    BY <1>0, <1>4, <2>1, GroupUpdates
  <2>3. ~r.failed
    OBVIOUS
  <2> HIDE DEF r
  <2>4. r.inv.account # Delete
    BY <2>1, <2>2, Constants DEF Account
  <2>5. /\ q.acct \in Account
        /\ q.acct.fields = Put(r.inv.account, r.acct.fields)
        /\ q.acct.slots = [s \in Slot |-> Put(r.inv.slots[s], IF r.inv.wipe THEN None ELSE r.acct.slots[s])]
        /\ q.acct.opaque = (r.acct.opaque /\ ~r.inv.wipe)
        /\ q.failed = (r.acct.opaque /\ ~r.inv.wipe /\ \E s \in Slot : r.inv.slots[s] # Keep)
    BY <1>i, <2>2, <2>4, GroupUpdates
  <2> HIDE DEF q
  <2>6. \A s \in Slot : r.inv.slots[s] = Put(SlotInverse(IF u.wipe THEN None ELSE a.slots[s], u.slots[s]),
                                             IF u.wipe THEN Held(a)[s] ELSE Keep)
    BY <2>2 DEF InverseSlots
  <2>7. ~q.failed
    <3>1. SUFFICES ASSUME r.acct.opaque, ~r.inv.wipe, NEW s \in Slot, r.inv.slots[s] # Keep PROVE FALSE
      BY <2>5
    <3>2. a.opaque /\ ~u.wipe /\ u.slots[s] = Keep
      BY <2>2, <2>3, <3>1
    <3> QED
      BY <2>6, <3>1, <3>2 DEF SlotInverse, Put
  <2>8. q.acct.fields = a.fields
    BY <2>1, <2>2, <2>5, Constants DEF Put, Account
  <2>9. q.acct.opaque = (a.opaque /\ ~u.wipe)
    BY <2>2, <2>5
  <2>10. ASSUME NEW s \in Slot \ RewrittenSlots(u)
         PROVE  q.acct.slots[s] = a.slots[s]
    <3>1. q.acct.slots[s] = Put(r.inv.slots[s], IF u.wipe THEN None ELSE r.acct.slots[s])
      BY <2>2, <2>5
    <3>2. a.slots[s] \in Val \cup {None} /\ u.slots[s] \in Val \cup {None, Keep}
      BY <1>0, <2>1 DEF Account, NetUpdate
    <3>3. CASE u.wipe
      <4>1. u.slots[s] \notin Val
        BY <3>3 DEF RewrittenSlots
      <4>2. SlotInverse(None, u.slots[s]) = Keep
        BY <3>2, <4>1 DEF SlotInverse
      <4>3. r.inv.slots[s] = Held(a)[s]
        BY <2>6, <3>3, <4>2 DEF Put
      <4> QED
        BY <3>1, <3>2, <3>3, <4>3, Constants DEF Held, Put
    <3>4. CASE ~u.wipe
      <4>1. r.inv.slots[s] = SlotInverse(a.slots[s], u.slots[s])
        BY <2>6, <3>4 DEF Put
      <4>2. r.acct.slots[s] = Put(u.slots[s], a.slots[s])
        BY <2>2, <3>4
      <4> QED
        BY <3>1, <3>2, <3>4, <4>1, <4>2, Constants DEF SlotInverse, Put
    <3> QED
      BY <3>3, <3>4
  <2>11. q.acct # None
    BY <2>5, Constants
  <2>12. Restored(q.acct, a, u)
    BY <1>4, <2>8, <2>9, <2>10, <2>11 DEF Restored
  <2> QED
    BY <2>7, <2>12 DEF q, r
<1> QED
  BY <1>1, <1>2, <1>3, <1>4

-----------------------------------------------------------------------------
(* The fold. *)

\* q is what the update u makes of a, when no opaque root stays.
Nets(a, u, q) ==
    IF u.account = Delete \/ (a = None /\ ~Creates(u)) THEN q = None
    ELSE /\ q \in Account /\ ~q.opaque
         /\ q.fields = Put(u.account, IF a = None THEN EmptyFields ELSE a.fields)
         /\ \A s \in Slot : q.slots[s] = Put(u.slots[s], IF a = None \/ u.wipe THEN None ELSE a.slots[s])

\* The block has set slots of a missing account, and taken all of them back.
TakenBack(a, u, q) ==
    /\ a = None /\ u.account = Keep /\ \A s \in Slot : u.slots[s] \notin Val
    /\ q = EmptyAccount

\* The operations of a block so far, on the account a: u is their fold, q the account
\* after them one by one, t whether they touch an unknown slot.
Folded(a, u, q, t) ==
    /\ WellFolded(u) /\ WellFormed(q) /\ t \in BOOLEAN
    /\ t <=> IsOpaque(q) /\ \E s \in Slot : u.slots[s] # Keep
    /\ IsOpaque(q) => IsOpaque(a) /\ ~u.wipe /\ u.account # Delete /\ q.fields = Put(u.account, a.fields)
    /\ ~IsOpaque(q) => (IsOpaque(a) => u.wipe) /\ (Nets(a, u, q) \/ TakenBack(a, u, q))

\* Accounts that agree in every part are the same.
LEMMA SameAccount ==
    ASSUME NEW a \in Account, NEW b \in Account, a.fields = b.fields, a.opaque = b.opaque,
           \A s \in Slot : a.slots[s] = b.slots[s]
    PROVE  a = b
<1>1. a.slots = b.slots
  BY DEF Account
<1> QED
  BY <1>1 DEF Account

\* The account that has its fields and no slots.
LEMMA PlainAccount ==
    ASSUME NEW f \in Fields
    PROVE  /\ Plain(f) \in Account /\ Plain(f) # None /\ ~Plain(f).opaque /\ Plain(f).fields = f
           /\ \A s \in Slot : Plain(f).slots[s] = None
<1>1. Plain(f) \in Account
  BY DEF Plain, NoSlots, Account
<1> QED
  BY <1>1, Constants DEF Plain, NoSlots

\* An account with the empty fields and no slots is the empty account.
LEMMA NothingSet ==
    ASSUME NEW a \in Account, a.fields = EmptyFields, ~a.opaque, \A s \in Slot : a.slots[s] = None
    PROVE  a = EmptyAccount
<1> DEFINE z == Plain(EmptyFields)
<1>1. z \in Account /\ z.fields = EmptyFields /\ ~z.opaque /\ \A s \in Slot : z.slots[s] = None
  BY PlainAccount, Constants
<1> HIDE DEF z
<1>2. a.opaque = z.opaque
  BY <1>1 DEF Account
<1>3. a = z
  BY <1>1, <1>2, SameAccount
<1> QED
  BY <1>3 DEF z, EmptyAccount

\* A block of no operations folds to the empty update.
LEMMA FoldStarts ==
    ASSUME NEW a, WellFormed(a)
    PROVE  Folded(a, NoUpdate, a, FALSE)
<1>1. WellFolded(NoUpdate)
  BY NoWritesType, Constants DEF WellFolded, NoUpdate
<1>2. /\ NoUpdate.account = Keep /\ ~NoUpdate.wipe
      /\ \A s \in Slot : NoUpdate.slots[s] = Keep
  BY DEF NoUpdate, NoWrites
<1>3. ~Creates(NoUpdate)
  BY <1>2, Constants DEF Creates
<1>4. ~IsOpaque(a) => Nets(a, NoUpdate, a)
  BY <1>2, <1>3, Constants DEF Nets, Put, WellFormed, IsOpaque
<1> QED
  BY <1>1, <1>2, <1>4, Constants DEF Folded, Put

\* Folding SetAccount into the update is applying it to the account.
LEMMA FoldSetAccount ==
    ASSUME NEW a, WellFormed(a), NEW u, NEW q, NEW t, Folded(a, u, q, t), NEW f \in Fields
    PROVE  LET o == [op |-> "SetAccount", fields |-> f] IN
           Folded(a, NormalizeOp(u, o), Sequential(q, o), t)
<1> DEFINE o == [op |-> "SetAccount", fields |-> f]
           v == NormalizeOp(u, o)
           p == Sequential(q, o)
<1>0. /\ u \in NetUpdate /\ q \in Account \cup {None} /\ a \in Account \cup {None}
      /\ u.account = Delete => u.wipe /\ u.slots = NoWrites
  BY DEF Folded, WellFolded, WellFormed
<1>1. WellFolded(v)
  <2>1. o \in StateOp
    BY DEF StateOp
  <2> HIDE DEF o
  <2> QED
    BY <2>1, <1>0, FoldWellFolded DEF Folded
<1>2. v.account = f /\ v.wipe = u.wipe /\ v.slots = u.slots
  <2>1. v = [u EXCEPT !.account = f]
    BY DEF NormalizeOp
  <2> QED
    BY <2>1, <1>0 DEF NetUpdate
<1>3. CASE q = None
  <2>1. p = Plain(f)
    BY <1>3 DEF Sequential
  <2> HIDE DEF p, v
  <2>2. p \in Account /\ ~p.opaque /\ p.fields = f /\ \A s \in Slot : p.slots[s] = None
    BY <2>1, PlainAccount
  <2>3. ~IsOpaque(p) /\ ~IsOpaque(q) /\ ~t
    BY <1>3, <2>2 DEF IsOpaque, Folded
  <2>4. EmptyAccount # None
    BY PlainAccount, Constants DEF EmptyAccount
  <2>5. u.account = Delete \/ (a = None /\ ~Creates(u))
    BY <1>3, <2>3, <2>4, <1>0, Constants DEF Folded, Nets, TakenBack
  <2>6. \A s \in Slot : Put(u.slots[s], IF a = None \/ u.wipe THEN None ELSE a.slots[s]) = None
    BY <1>0, <2>5 DEF Put, NoWrites, Creates, NetUpdate
  <2>7. Creates(v)
    BY <1>2 DEF Creates
  <2>8. Nets(a, v, p)
    BY <1>2, <2>2, <2>6, <2>7, Constants DEF Nets, Put
  <2>9. WellFormed(p)
    BY <2>2, <2>3 DEF WellFormed
  <2> QED
    BY <1>1, <1>2, <2>3, <2>8, <2>9 DEF Folded, v, p
<1>4. CASE q # None
  <2>1. p = [q EXCEPT !.fields = f]
    BY <1>4 DEF Sequential
  <2>2. /\ p \in Account /\ p.fields = f /\ p.opaque = q.opaque /\ p.slots = q.slots
        /\ q \in Account
    BY <1>0, <1>4, <2>1 DEF Account
  <2> HIDE DEF p, v
  <2>3. IsOpaque(p) = IsOpaque(q)
    BY <1>4, <2>2, Constants DEF IsOpaque
  <2>4. WellFormed(p)
    BY <2>2, <2>3, <1>4, Constants DEF WellFormed, SlotsOf, Folded
  <2>5. t <=> IsOpaque(p) /\ \E s \in Slot : v.slots[s] # Keep
    BY <2>3, <1>2 DEF Folded
  <2>6. IsOpaque(p) => IsOpaque(a) /\ ~v.wipe /\ v.account # Delete /\ p.fields = Put(v.account, a.fields)
    BY <2>2, <2>3, <1>2, Constants DEF Folded, Put
  <2>7. ASSUME ~IsOpaque(p) PROVE (IsOpaque(a) => v.wipe) /\ Nets(a, v, p)
    <3>1. Creates(v) /\ v.account # Delete /\ Put(v.account, IF a = None THEN EmptyFields ELSE a.fields) = f
      BY <1>2, Constants DEF Creates, Put
    <3>2. CASE TakenBack(a, u, q)
      <4>1. \A s \in Slot : p.slots[s] = None
        <5>1. q = Plain(EmptyFields)
          BY <3>2 DEF TakenBack, EmptyAccount
        <5>2. \A s \in Slot : q.slots[s] = None
          BY <5>1, PlainAccount, Constants
        <5> QED
          BY <5>2, <2>2
      <4>2. \A s \in Slot : Put(v.slots[s], None) = None
        BY <3>2, <1>0, <1>2 DEF TakenBack, Put, NetUpdate
      <4>3. a = None
        BY <3>2 DEF TakenBack
      <4>4. \A s \in Slot : p.slots[s] = Put(v.slots[s], IF a = None \/ v.wipe THEN None ELSE a.slots[s])
        BY <4>1, <4>2, <4>3
      <4>5. ~p.opaque
        BY <2>2, <2>7, Constants DEF IsOpaque
      <4> QED
        BY <4>3, <4>4, <4>5, <3>1, <2>2 DEF Nets, IsOpaque
    <3>3. CASE Nets(a, u, q)
      <4>1. \A s \in Slot : p.slots[s] = Put(v.slots[s], IF a = None \/ v.wipe THEN None ELSE a.slots[s])
        BY <3>3, <1>2, <1>4, <2>2 DEF Nets
      <4>2. ~p.opaque
        BY <2>2, <2>7, Constants DEF IsOpaque
      <4>3. IsOpaque(a) => v.wipe
        BY <2>3, <2>7, <1>2 DEF Folded
      <4> QED
        BY <4>1, <4>2, <4>3, <3>1, <1>2, <2>2 DEF Nets
    <3> QED
      BY <3>2, <3>3, <2>3, <2>7 DEF Folded
  <2>8. t \in BOOLEAN
    BY DEF Folded
  <2> QED
    BY <1>1, <2>4, <2>5, <2>6, <2>7, <2>8 DEF Folded, v, p
<1> QED
  BY <1>3, <1>4

\* Folding DeleteAccount: nothing before it counts.
LEMMA FoldDeleteAccount ==
    ASSUME NEW a, WellFormed(a), NEW u, NEW q, NEW t, Folded(a, u, q, t)
    PROVE  LET o == [op |-> "DeleteAccount"] IN
           Folded(a, NormalizeOp(u, o), Sequential(q, o), FALSE)
<1> DEFINE o == [op |-> "DeleteAccount"]
           v == NormalizeOp(u, o)
           p == Sequential(q, o)
<1>1. v = Creation /\ p = None
  BY DEF NormalizeOp, Sequential, Creation
<1>2. WellFolded(Creation) /\ Creation.account = Delete /\ Creation.wipe
  BY NoWritesType DEF Creation, WellFolded, NetUpdate
<1>3. WellFormed(None) /\ ~IsOpaque(None)
  BY DEF WellFormed, IsOpaque
<1>4. Nets(a, Creation, None)
  BY <1>2 DEF Nets
<1> HIDE DEF v, p
<1> QED
  BY <1>1, <1>2, <1>3, <1>4 DEF Folded, v, p

\* Folding WipeStorage: no slot written before it counts.
LEMMA FoldWipeStorage ==
    ASSUME NEW a, WellFormed(a), NEW u, NEW q, NEW t, Folded(a, u, q, t)
    PROVE  LET o == [op |-> "WipeStorage"] IN
           Folded(a, NormalizeOp(u, o), Sequential(q, o), FALSE)
<1> DEFINE o == [op |-> "WipeStorage"]
           v == NormalizeOp(u, o)
           p == Sequential(q, o)
<1>0. /\ u \in NetUpdate /\ q \in Account \cup {None} /\ a \in Account \cup {None}
      /\ u.account = Delete => u.wipe /\ u.slots = NoWrites
  BY DEF Folded, WellFolded, WellFormed
<1>1. WellFolded(v)
  <2>1. o \in StateOp
    BY DEF StateOp
  <2> HIDE DEF o
  <2> QED
    BY <2>1, <1>0, FoldWellFolded DEF Folded
<1>2. /\ v.account = u.account /\ v.wipe /\ v.slots = NoWrites
      /\ \A s \in Slot : v.slots[s] = Keep
  <2>1. v = [u EXCEPT !.wipe = TRUE, !.slots = NoWrites]
    BY DEF NormalizeOp
  <2> QED
    BY <2>1, <1>0 DEF NetUpdate, NoWrites
<1>3. Creates(v) <=> u.account \in Fields
  BY <1>2, Constants DEF Creates
<1>4. CASE q = None
  <2>1. p = None
    BY <1>4 DEF Sequential
  <2> HIDE DEF p, v
  <2>2. ~IsOpaque(p) /\ ~IsOpaque(q) /\ WellFormed(p)
    BY <1>4, <2>1 DEF IsOpaque, WellFormed
  <2>3. EmptyAccount # None
    BY PlainAccount, Constants DEF EmptyAccount
  <2>4. u.account = Delete \/ (a = None /\ ~Creates(u))
    BY <1>4, <2>2, <2>3, <1>0, Constants DEF Folded, Nets, TakenBack
  <2>5. Nets(a, v, p)
    BY <1>2, <1>3, <2>1, <2>4 DEF Nets, Creates
  <2> QED
    BY <1>1, <1>2, <2>2, <2>5 DEF Folded, v, p
<1>5. CASE q # None
  <2>1. p = Plain(q.fields)
    BY <1>5 DEF Sequential
  <2>2. q \in Account /\ q.fields \in Fields
    BY <1>0, <1>5 DEF Account
  <2> HIDE DEF p, v
  <2>3. /\ p \in Account /\ ~p.opaque /\ p.fields = q.fields
        /\ \A s \in Slot : p.slots[s] = None
    BY <2>1, <2>2, PlainAccount
  <2>4. ~IsOpaque(p) /\ WellFormed(p)
    BY <2>3 DEF IsOpaque, WellFormed
  <2>5. \A s \in Slot : p.slots[s] = Put(v.slots[s], IF a = None \/ v.wipe THEN None ELSE a.slots[s])
    BY <1>2, <2>3, Constants DEF Put
  <2>6. Nets(a, v, p) \/ TakenBack(a, v, p)
    <3>1. CASE IsOpaque(q)
      <4>1. u.account # Delete /\ q.fields = Put(u.account, a.fields) /\ a # None
        BY <3>1 DEF Folded, IsOpaque
      <4> QED
        BY <4>1, <1>2, <2>3, <2>5 DEF Nets
    <3>2. CASE ~IsOpaque(q) /\ TakenBack(a, u, q)
      <4>1. q.fields = EmptyFields
        BY <3>2, PlainAccount, Constants DEF TakenBack, EmptyAccount
      <4>2. p = EmptyAccount
        BY <2>1, <4>1 DEF EmptyAccount
      <4> QED
        BY <3>2, <4>2, <1>2, Constants DEF TakenBack
    <3>3. CASE ~IsOpaque(q) /\ Nets(a, u, q)
      <4>1. u.account # Delete /\ q.fields = Put(u.account, IF a = None THEN EmptyFields ELSE a.fields)
        BY <3>3, <1>5 DEF Nets
      <4>2. CASE a = None /\ ~Creates(v)
        <5>1. u.account = Keep
          BY <4>1, <4>2, <1>0, <1>3 DEF NetUpdate
        <5>2. p = EmptyAccount
          BY <2>1, <4>1, <4>2, <5>1 DEF EmptyAccount, Put
        <5> QED
          BY <4>2, <5>1, <5>2, <1>2, Constants DEF TakenBack
      <4>3. CASE ~(a = None /\ ~Creates(v))
        BY <4>1, <4>3, <1>2, <2>3, <2>5 DEF Nets
      <4> QED
        BY <4>2, <4>3
    <3> QED
      BY <3>1, <3>2, <3>3 DEF Folded
  <2> QED
    BY <1>1, <1>2, <2>4, <2>6 DEF Folded, v, p
<1> QED
  BY <1>4, <1>5

\* Folding SetStorage, which makes an empty account of a missing one.
LEMMA FoldSetStorage ==
    ASSUME NEW a, WellFormed(a), NEW u, NEW q, NEW t, Folded(a, u, q, t), NEW x \in Slot, NEW y \in Val
    PROVE  LET o == [op |-> "SetStorage", slot |-> x, value |-> y] IN
           Folded(a, NormalizeOp(u, o), Sequential(q, o), t \/ IsOpaque(q))
<1> DEFINE o == [op |-> "SetStorage", slot |-> x, value |-> y]
           v == NormalizeOp(u, o)
           p == Sequential(q, o)
           e == IF q = None THEN EmptyAccount ELSE q
<1>0. /\ u \in NetUpdate /\ q \in Account \cup {None} /\ a \in Account \cup {None} /\ t \in BOOLEAN
      /\ u.account = Delete => u.wipe /\ u.slots = NoWrites
  BY DEF Folded, WellFolded, WellFormed
<1>1. WellFolded(v)
  <2>1. o \in StateOp
    BY DEF StateOp
  <2> HIDE DEF o
  <2> QED
    BY <2>1, <1>0, FoldWellFolded DEF Folded
<1>2. /\ v.account = IF u.account = Delete THEN EmptyFields ELSE u.account
      /\ v.wipe = u.wipe
      /\ \A s \in Slot : v.slots[s] = IF s = x THEN y ELSE u.slots[s]
  <2>1. v = [u EXCEPT !.account = IF u.account = Delete THEN EmptyFields ELSE u.account, !.slots[x] = y]
    BY DEF NormalizeOp
  <2> QED
    BY <2>1, <1>0 DEF NetUpdate
<1>3. Creates(v) /\ v.account # Delete
  BY <1>2, Constants DEF Creates
<1>4. CASE IsOpaque(q)
  <2>1. p = q
    BY <1>4 DEF Sequential
  <2> HIDE DEF p, v
  <2>2. v.slots[x] # Keep
    BY <1>2, Constants
  <2> QED
    BY <1>1, <1>2, <1>4, <2>1, <2>2 DEF Folded, v, p
<1>5. CASE ~IsOpaque(q)
  <2>1. p = [e EXCEPT !.slots[x] = y]
    BY <1>5 DEF Sequential
  <2>2. e \in Account /\ ~e.opaque
    BY <1>0, <1>5, PlainAccount, Constants DEF EmptyAccount, IsOpaque
  <2>q. q # None => e = q
    OBVIOUS
  <2>n. q = None => e.fields = EmptyFields /\ \A s \in Slot : e.slots[s] = None
    BY PlainAccount, Constants DEF EmptyAccount
  <2> HIDE DEF p, v, e
  <2>3. /\ p \in Account /\ ~p.opaque /\ p.fields = e.fields
        /\ \A s \in Slot : p.slots[s] = IF s = x THEN y ELSE e.slots[s]
    BY <2>1, <2>2 DEF Account
  <2>4. ~IsOpaque(p) /\ WellFormed(p) /\ ~t
    BY <2>3, <1>5 DEF IsOpaque, WellFormed, Folded
  <2>5. Nets(a, v, p)
    <3>0. \A s \in Slot : Put(v.slots[s], IF a = None \/ v.wipe THEN None ELSE a.slots[s])
                              = IF s = x THEN y ELSE Put(u.slots[s], IF a = None \/ u.wipe THEN None ELSE a.slots[s])
      BY <1>2, Constants DEF Put
    <3>1. CASE TakenBack(a, u, q)
      <4>1. q.fields = EmptyFields /\ q # None /\ \A s \in Slot : q.slots[s] = None
        BY <3>1, PlainAccount, Constants DEF TakenBack, EmptyAccount
      <4>2. a = None /\ v.account = Keep
        BY <3>1, <1>2, Constants DEF TakenBack
      <4>3. \A s \in Slot : Put(u.slots[s], None) = None
        BY <3>1, <1>0 DEF TakenBack, Put, NetUpdate
      <4>4. \A s \in Slot : p.slots[s] = Put(v.slots[s], IF a = None \/ v.wipe THEN None ELSE a.slots[s])
        BY <2>q, <2>3, <3>0, <4>1, <4>2, <4>3
      <4> QED
        BY <2>q, <2>3, <1>3, <4>1, <4>2, <4>4 DEF Nets, Put
    <3>2. CASE Nets(a, u, q) /\ q = None
      <4>1. u.account = Delete \/ (a = None /\ ~Creates(u))
        BY <3>2, Constants DEF Nets
      <4>2. \A s \in Slot : Put(u.slots[s], IF a = None \/ u.wipe THEN None ELSE a.slots[s]) = None
        BY <1>0, <4>1 DEF Put, NoWrites, Creates, NetUpdate
      <4>3. Put(v.account, IF a = None THEN EmptyFields ELSE a.fields) = EmptyFields
        BY <1>0, <1>2, <4>1, Constants DEF Put, Creates, NetUpdate
      <4>4. \A s \in Slot : p.slots[s] = Put(v.slots[s], IF a = None \/ v.wipe THEN None ELSE a.slots[s])
        BY <3>2, <2>n, <2>3, <3>0, <4>2
      <4> QED
        BY <3>2, <2>n, <2>3, <1>3, <4>3, <4>4 DEF Nets
    <3>3. CASE Nets(a, u, q) /\ q # None
      <4>1. u.account # Delete /\ q.fields = Put(u.account, IF a = None THEN EmptyFields ELSE a.fields)
        BY <3>3 DEF Nets
      <4>2. \A s \in Slot : q.slots[s] = Put(u.slots[s], IF a = None \/ u.wipe THEN None ELSE a.slots[s])
        BY <3>3 DEF Nets
      <4>4. \A s \in Slot : p.slots[s] = Put(v.slots[s], IF a = None \/ v.wipe THEN None ELSE a.slots[s])
        BY <3>3, <2>q, <2>3, <3>0, <4>2
      <4> QED
        BY <3>3, <2>q, <2>3, <1>2, <1>3, <4>1, <4>4 DEF Nets
    <3> QED
      BY <3>1, <3>2, <3>3, <1>5 DEF Folded
  <2>6. IsOpaque(a) => v.wipe
    BY <1>2, <1>5 DEF Folded
  <2> QED
    BY <1>0, <1>1, <1>5, <2>4, <2>5, <2>6 DEF Folded, v, p
<1> QED
  BY <1>4, <1>5

\* Folding DeleteStorage, which may take back the only slot that would create one.
LEMMA FoldDeleteStorage ==
    ASSUME NEW a, WellFormed(a), NEW u, NEW q, NEW t, Folded(a, u, q, t), NEW x \in Slot
    PROVE  LET o == [op |-> "DeleteStorage", slot |-> x] IN
           Folded(a, NormalizeOp(u, o), Sequential(q, o), t \/ IsOpaque(q))
<1> DEFINE o == [op |-> "DeleteStorage", slot |-> x]
           v == NormalizeOp(u, o)
           p == Sequential(q, o)
<1>0. /\ u \in NetUpdate /\ q \in Account \cup {None} /\ a \in Account \cup {None} /\ t \in BOOLEAN
      /\ u.account = Delete => u.wipe /\ u.slots = NoWrites
  BY DEF Folded, WellFolded, WellFormed
<1>1. WellFolded(v)
  <2>1. o \in StateOp
    BY DEF StateOp
  <2> HIDE DEF o
  <2> QED
    BY <2>1, <1>0, FoldWellFolded DEF Folded
<1>2. /\ v.account = u.account /\ v.wipe = u.wipe
      /\ u.account # Delete => \A s \in Slot : v.slots[s] = IF s = x THEN None ELSE u.slots[s]
      /\ u.account = Delete => v = u
  <2>1. v = IF u.account = Delete THEN u ELSE [u EXCEPT !.slots[x] = None]
    BY DEF NormalizeOp
  <2> QED
    BY <2>1, <1>0 DEF NetUpdate
<1>3. CASE IsOpaque(q)
  <2>1. p = q
    BY <1>3 DEF Sequential
  <2> HIDE DEF p, v
  <2>2. u.account # Delete
    BY <1>3 DEF Folded
  <2>3. v.slots[x] # Keep
    BY <1>2, <2>2, Constants
  <2> QED
    BY <1>1, <1>2, <1>3, <2>1, <2>3 DEF Folded, v, p
<1>4. CASE q = None
  <2>1. p = q
    BY <1>4 DEF Sequential
  <2> HIDE DEF p, v
  <2>2. ~IsOpaque(q) /\ ~t /\ WellFormed(q)
    BY <1>4 DEF IsOpaque, Folded
  <2>3. EmptyAccount # None
    BY PlainAccount, Constants DEF EmptyAccount
  <2>4. u.account = Delete \/ (a = None /\ ~Creates(u))
    BY <1>4, <2>2, <2>3, <1>0, Constants DEF Folded, Nets, TakenBack
  <2>5. u.account = Delete \/ (a = None /\ ~Creates(v))
    BY <1>2, <2>4, Constants DEF Creates
  <2>6. Nets(a, v, p) /\ (IsOpaque(a) => v.wipe)
    BY <1>2, <1>4, <2>1, <2>2, <2>5 DEF Nets, Folded
  <2> QED
    BY <1>0, <1>1, <2>1, <2>2, <2>6 DEF Folded, v, p
<1>5. CASE q # None /\ ~IsOpaque(q)
  <2>1. p = [q EXCEPT !.slots[x] = None]
    BY <1>5 DEF Sequential
  <2>2. q \in Account /\ ~q.opaque
    BY <1>0, <1>5 DEF IsOpaque
  <2> HIDE DEF p, v
  <2>3. /\ p \in Account /\ ~p.opaque /\ p.fields = q.fields
        /\ \A s \in Slot : p.slots[s] = IF s = x THEN None ELSE q.slots[s]
    BY <2>1, <2>2 DEF Account
  <2>4. ~IsOpaque(p) /\ WellFormed(p) /\ ~t
    BY <2>3, <1>5 DEF IsOpaque, WellFormed, Folded
  <2>5. Nets(a, v, p) \/ TakenBack(a, v, p)
    <3>1. CASE TakenBack(a, u, q)
      <4>1. q.fields = EmptyFields /\ ~q.opaque /\ \A s \in Slot : q.slots[s] = None
        BY <3>1, PlainAccount, Constants DEF TakenBack, EmptyAccount
      <4>2. p.fields = EmptyFields /\ \A s \in Slot : p.slots[s] = None
        BY <2>3, <4>1
      <4>3. p = EmptyAccount
        BY <2>3, <4>2, NothingSet
      <4>4. u.account = Keep /\ u.account # Delete /\ a = None
        BY <3>1, Constants DEF TakenBack
      <4>5. \A s \in Slot : v.slots[s] \notin Val
        BY <3>1, <1>2, <4>4, Constants DEF TakenBack
      <4> QED
        BY <4>3, <4>4, <4>5, <1>2 DEF TakenBack
    <3>2. CASE Nets(a, u, q)
      <4>1. /\ u.account # Delete /\ q.fields = Put(u.account, IF a = None THEN EmptyFields ELSE a.fields)
            /\ \A s \in Slot : q.slots[s] = Put(u.slots[s], IF a = None \/ u.wipe THEN None ELSE a.slots[s])
        BY <3>2, <1>5 DEF Nets
      <4>2. \A s \in Slot : p.slots[s] = Put(v.slots[s], IF a = None \/ v.wipe THEN None ELSE a.slots[s])
        BY <1>2, <2>3, <4>1, Constants DEF Put
      <4>3. CASE a = None /\ ~Creates(v)
        <5>1. u.account = Keep
          BY <4>1, <4>3, <1>0, <1>2 DEF NetUpdate, Creates
        <5>2. \A s \in Slot : v.slots[s] \notin Val
          BY <4>3 DEF Creates
        <5>3. v \in NetUpdate
          BY <1>1 DEF WellFolded
        <5>4. \A s \in Slot : p.slots[s] = None
          BY <4>2, <4>3, <5>2, <5>3 DEF Put, NetUpdate
        <5>5. p.fields = EmptyFields
          BY <2>3, <4>1, <4>3, <5>1 DEF Put
        <5>6. p = EmptyAccount
          BY <2>3, <5>4, <5>5, NothingSet
        <5> QED
          BY <4>3, <5>1, <5>2, <5>6, <1>2 DEF TakenBack
      <4>4. CASE ~(a = None /\ ~Creates(v))
        BY <4>1, <4>2, <4>4, <1>2, <2>3 DEF Nets
      <4> QED
        BY <4>3, <4>4
    <3> QED
      BY <3>1, <3>2, <1>5 DEF Folded
  <2>6. IsOpaque(a) => v.wipe
    BY <1>2, <1>5 DEF Folded
  <2> QED
    BY <1>0, <1>1, <1>5, <2>4, <2>5, <2>6 DEF Folded, v, p
<1> QED
  BY <1>3, <1>4, <1>5

\* A folded block leads where its operations lead one by one, and fails if, and only
\* if, they touch an unknown slot.
LEMMA FoldsAgree ==
    ASSUME NEW a, WellFormed(a), NEW u, NEW q, NEW t, Folded(a, u, q, t)
    PROVE  LET r == ApplyGroup(a, u) IN
           /\ r.failed <=> t
           /\ ~r.failed => r.acct = q \/ (r.acct = None /\ a = None /\ q = EmptyAccount)
<1> DEFINE r == ApplyGroup(a, u)
<1>0. /\ u \in NetUpdate /\ q \in Account \cup {None} /\ a \in Account \cup {None} /\ WellFolded(u)
  BY DEF Folded, WellFolded, WellFormed
<1>1. CASE a # None /\ u.account # Delete
  <2>1. a \in Account
    BY <1>0, <1>1
  <2>2. /\ r.acct \in Account
        /\ r.acct.fields = Put(u.account, a.fields)
        /\ r.acct.slots = [s \in Slot |-> Put(u.slots[s], IF u.wipe THEN None ELSE a.slots[s])]
        /\ r.acct.opaque = (a.opaque /\ ~u.wipe)
        /\ r.failed = (a.opaque /\ ~u.wipe /\ \E s \in Slot : u.slots[s] # Keep)
    BY <1>0, <1>1, <2>1, GroupUpdates
  <2> HIDE DEF r
  <2>3. CASE IsOpaque(q)
    <3>1. /\ a.opaque /\ ~u.wipe /\ q.fields = Put(u.account, a.fields)
          /\ q.opaque /\ q # None /\ q \in Account
      BY <2>3, <1>0 DEF Folded, IsOpaque
    <3>2. r.failed <=> t
      BY <2>2, <2>3, <3>1 DEF Folded
    <3>3. ASSUME ~r.failed, NEW s \in Slot PROVE r.acct.slots[s] = q.slots[s]
      <4>1. u.slots[s] = Keep
        BY <2>2, <3>1, <3>3
      <4>2. a.slots[s] = None
        BY <3>1, <1>1 DEF WellFormed, SlotsOf, IsOpaque
      <4>3. q.slots[s] = None
        BY <3>1, <2>3 DEF Folded, WellFormed, SlotsOf
      <4> QED
        BY <2>2, <3>1, <4>1, <4>2, <4>3 DEF Put
    <3>4. r.acct.opaque = q.opaque
      BY <2>2, <3>1 DEF Account
    <3>5. ~r.failed => r.acct = q
      BY <2>2, <3>1, <3>3, <3>4, SameAccount
    <3> QED
      BY <3>2, <3>5 DEF r
  <2>4. CASE ~IsOpaque(q)
    <3>1. Nets(a, u, q) /\ (a.opaque => u.wipe)
      BY <2>4, <1>1 DEF Folded, TakenBack, IsOpaque
    <3>2. /\ q \in Account /\ ~q.opaque /\ q.fields = Put(u.account, a.fields)
          /\ \A s \in Slot : q.slots[s] = Put(u.slots[s], IF u.wipe THEN None ELSE a.slots[s])
      BY <3>1, <1>1 DEF Nets
    <3>3. ~t /\ ~r.failed
      BY <2>2, <2>4, <3>1 DEF Folded
    <3>4. r.acct.opaque = q.opaque
      BY <2>2, <3>1, <3>2 DEF Account
    <3>5. \A s \in Slot : r.acct.slots[s] = q.slots[s]
      BY <2>2, <3>2
    <3>6. r.acct = q
      BY <2>2, <3>2, <3>4, <3>5, SameAccount
    <3> QED
      BY <3>3, <3>6 DEF r
  <2> QED
    BY <2>3, <2>4
<1>2. CASE a # None /\ u.account = Delete
  <2>1. a \in Account
    BY <1>0, <1>2
  <2>2. r.acct = None /\ ~r.failed
    BY <1>0, <1>2, <2>1, GroupDeletes
  <2>3. ~IsOpaque(q) /\ ~t
    BY <1>2 DEF Folded
  <2>4. q = None
    BY <1>2, <2>3 DEF Folded, TakenBack, Nets
  <2> QED
    BY <2>2, <2>3, <2>4
<1>3. CASE a = None /\ ~Creates(u)
  <2>1. r.acct = None /\ ~r.failed
    BY <1>0, <1>3, GroupSkipped
  <2>2. ~IsOpaque(q) /\ ~t
    BY <1>3 DEF Folded, IsOpaque
  <2>3. q = None \/ q = EmptyAccount
    BY <1>3, <2>2 DEF Folded, TakenBack, Nets
  <2> QED
    BY <1>3, <2>1, <2>2, <2>3
<1>4. CASE a = None /\ Creates(u)
  <2>1. /\ ~r.failed
        /\ r.acct = [fields |-> Put(u.account, EmptyFields),
                     slots |-> [s \in Slot |-> Put(u.slots[s], None)], opaque |-> FALSE]
    BY <1>0, <1>4, GroupCreates
  <2> HIDE DEF r
  <2>2. ~IsOpaque(q) /\ ~t
    BY <1>4 DEF Folded, IsOpaque
  <2>3. u.account # Delete /\ ~TakenBack(a, u, q)
    BY <1>0, <1>4, Constants DEF Creates, WellFolded, NoWrites, TakenBack
  <2>4. Nets(a, u, q)
    BY <2>2, <2>3 DEF Folded
  <2>5. /\ q \in Account /\ ~q.opaque /\ q.fields = Put(u.account, EmptyFields)
        /\ \A s \in Slot : q.slots[s] = Put(u.slots[s], None)
    BY <1>4, <2>3, <2>4 DEF Nets
  <2>6. q.slots = [s \in Slot |-> Put(u.slots[s], None)]
    BY <2>5 DEF Account
  <2>7. r.acct = q
    BY <2>1, <2>5, <2>6 DEF Account
  <2> QED
    BY <2>1, <2>2, <2>7 DEF r
<1> QED
  BY <1>1, <1>2, <1>3, <1>4

\* Every operation keeps the fold in agreement.
LEMMA FoldKeeps ==
    ASSUME NEW a, WellFormed(a), NEW u, NEW q, NEW t, Folded(a, u, q, t), NEW o \in StateOp
    PROVE  Folded(a, NormalizeOp(u, o), Sequential(q, o),
                  CASE o.op \in {"SetStorage", "DeleteStorage"}  -> t \/ IsOpaque(q)
                    [] o.op \in {"WipeStorage", "DeleteAccount"} -> FALSE
                    [] OTHER -> t)
<1>1. CASE o \in [op : {"SetAccount"}, fields : Fields]
  <2>1. PICK f \in Fields : o = [op |-> "SetAccount", fields |-> f]
    BY <1>1
  <2> QED
    BY <2>1, FoldSetAccount
<1>2. CASE o \in [op : {"DeleteAccount", "WipeStorage"}] /\ o.op = "DeleteAccount"
  <2>1. o = [op |-> "DeleteAccount"]
    BY <1>2
  <2> QED
    BY <2>1, FoldDeleteAccount
<1>3. CASE o \in [op : {"DeleteAccount", "WipeStorage"}] /\ o.op = "WipeStorage"
  <2>1. o = [op |-> "WipeStorage"]
    BY <1>3
  <2> QED
    BY <2>1, FoldWipeStorage
<1>4. CASE o \in [op : {"SetStorage"}, slot : Slot, value : Val]
  <2>1. PICK x \in Slot, y \in Val : o = [op |-> "SetStorage", slot |-> x, value |-> y]
    BY <1>4
  <2> QED
    BY <2>1, FoldSetStorage
<1>5. CASE o \in [op : {"DeleteStorage"}, slot : Slot]
  <2>1. PICK x \in Slot : o = [op |-> "DeleteStorage", slot |-> x]
    BY <1>5
  <2> QED
    BY <2>1, FoldDeleteStorage
<1> QED
  BY <1>1, <1>2, <1>3, <1>4, <1>5 DEF StateOp

-----------------------------------------------------------------------------
(* The invariant. *)

\* The blocks that can be rolled back.
Entries == [before : Account \cup {None}, upd : NetUpdate, after : Account \cup {None}, inv : NetUpdate]

\* An entry holds the block's outcome and its inverse.
Exact(e) ==
    /\ WellFormed(e.before) /\ WellFolded(e.upd)
    /\ ~ApplyGroup(e.before, e.upd).failed
    /\ e.after = ApplyGroup(e.before, e.upd).acct /\ e.inv = ApplyGroup(e.before, e.upd).inv

\* While a block is folded.
FoldInv ==
    pc = "fold" => Folded(acct, upd, seq, touched) /\ Len(undo) < MaxUndo /\ stopped = "no"

\* Every block kept can be rolled back.
UndoInv == \A i \in 1..Len(undo) : Exact(undo[i])

Inv ==
    /\ TypeOK /\ FoldInv /\ UndoInv
    /\ MatchesSequentialButCreation /\ FailsOnlyOnOpaque /\ InverseRestoresButRewritten

\* TypeOK in the terms of the proofs.
LEMMA Typed ==
    TypeOK <=>
    /\ WellFormed(acct) /\ WellFormed(seq) /\ upd \in NetUpdate
    /\ promoted \in BOOLEAN /\ touched \in BOOLEAN /\ (promoted => Branches(acct))
    /\ undo \in Seq(Entries) /\ Len(undo) <= MaxUndo
    /\ pc \in {"idle", "fold", "applied", "rolled"} /\ stopped \in {"no", "panic", "error"}
BY DEF TypeOK, WellFormed, Entries

\* An account with a branch in its storage is no opaque one.
LEMMA PromotedPlain ==
    ASSUME NEW a, WellFormed(a), Branches(a)
    PROVE  a # None /\ ~IsOpaque(a)
BY DEF WellFormed, Branches, SlotsOf

\* Wherever the account goes to live, a promoted one has a branch in its storage.
LEMMA FormsBranch ==
    ASSUME NEW u, WellFolded(u), WellFormed(acct), promoted \in BOOLEAN, promoted => Branches(acct),
           NEW b \in FormsAfter(ApplyGroup(acct, u))
    PROVE  b \in BOOLEAN /\ (b => Branches(ApplyGroup(acct, u).acct))
<1> DEFINE r == ApplyGroup(acct, u)
<1>1. CASE promoted /\ SlotsOf(acct) \subseteq SlotsOf(r.acct)
  <2>1. Branches(r.acct)
    BY <1>1 DEF Branches
  <2> HIDE DEF r
  <2> QED
    BY <2>1, <1>1 DEF FormsAfter, r
<1>2. CASE ~r.changed /\ promoted
  <2>1. acct \in Account /\ u \in NetUpdate
    BY <1>2, PromotedPlain DEF WellFormed, WellFolded
  <2>2. u.account # Delete
    BY <1>2, <2>1, GroupDeletes
  <2>3. SlotsOf(acct) \subseteq SlotsOf(r.acct)
    BY <1>2, <2>1, <2>2, GroupUpdates
  <2> QED
    BY <1>1, <1>2, <2>3
<1>3. CASE ~r.changed /\ ~promoted
  BY <1>3 DEF FormsAfter
<1>4. CASE r.changed /\ ~(promoted /\ SlotsOf(acct) \subseteq SlotsOf(r.acct))
  BY <1>4 DEF FormsAfter
<1> QED
  BY <1>1, <1>2, <1>3, <1>4

\* The invariant holds initially.
LEMMA InvInit == Init => Inv
<1> SUFFICES ASSUME Init PROVE Inv
  OBVIOUS
<1>1. TypeOK
  <2>1. WellFormed(None)
    BY DEF WellFormed, IsOpaque
  <2>2. WellFormed(acct) /\ WellFormed(seq) /\ upd \in NetUpdate
    BY <2>1, NoWritesType DEF Init
  <2>3. undo = <<>> /\ undo \in Seq(Entries) /\ Len(undo) <= MaxUndo
    BY BlockAssumption DEF Init, BlockAssumption
  <2> QED
    BY <2>2, <2>3, Typed DEF Init
<1>2. FoldInv /\ UndoInv /\ MatchesSequentialButCreation /\ FailsOnlyOnOpaque /\ InverseRestoresButRewritten
  BY DEF Init, FoldInv, UndoInv, MatchesSequentialButCreation, FailsOnlyOnOpaque, InverseRestoresButRewritten
<1> QED
  BY <1>1, <1>2 DEF Inv

\* TypeOK after a step, in the terms of the proofs.
LEMMA TypedNext ==
    TypeOK' <=>
    /\ WellFormed(acct') /\ WellFormed(seq') /\ upd' \in NetUpdate
    /\ promoted' \in BOOLEAN /\ touched' \in BOOLEAN /\ (promoted' => Branches(acct'))
    /\ undo' \in Seq(Entries) /\ Len(undo') <= MaxUndo
    /\ pc' \in {"idle", "fold", "applied", "rolled"} /\ stopped' \in {"no", "panic", "error"}
BY DEF TypeOK, WellFormed, Entries

\* Filling the database with an opaque account keeps the invariant.
LEMMA InvLoadOpaque ==
    ASSUME Inv, NEW f \in Fields, LoadOpaque(f)
    PROVE  Inv'
<1>1. WellFormed(acct') /\ ~Branches(acct)
  BY Constants, Typed DEF Inv, LoadOpaque, Opaque, Account, NoSlots, WellFormed, IsOpaque, SlotsOf, Branches
<1>2. TypeOK'
  BY <1>1, Typed, TypedNext DEF Inv, LoadOpaque
<1>3. FoldInv' /\ UndoInv'
  BY DEF Inv, LoadOpaque, Ready, FoldInv, UndoInv
<1>4. MatchesSequentialButCreation' /\ FailsOnlyOnOpaque' /\ InverseRestoresButRewritten'
  BY DEF LoadOpaque, Ready, MatchesSequentialButCreation, FailsOnlyOnOpaque, InverseRestoresButRewritten
<1> QED
  BY <1>2, <1>3, <1>4 DEF Inv

\* A call of apply_block begins with the empty fold.
LEMMA InvBeginBlock ==
    ASSUME Inv, BeginBlock
    PROVE  Inv'
<1>1. Folded(acct, NoUpdate, acct, FALSE)
  BY Typed, FoldStarts DEF Inv
<1>2. TypeOK'
  BY NoWritesType, Typed, TypedNext DEF Inv, BeginBlock
<1>3. FoldInv' /\ UndoInv'
  BY <1>1 DEF Inv, BeginBlock, Ready, FoldInv, UndoInv
<1>4. MatchesSequentialButCreation' /\ FailsOnlyOnOpaque' /\ InverseRestoresButRewritten'
  BY DEF BeginBlock, MatchesSequentialButCreation, FailsOnlyOnOpaque, InverseRestoresButRewritten
<1> QED
  BY <1>2, <1>3, <1>4 DEF Inv

\* An operation of the block keeps the fold in agreement.
LEMMA InvFoldOp ==
    ASSUME Inv, NEW o \in StateOp, FoldOp(o)
    PROVE  Inv'
<1>1. Folded(acct, upd, seq, touched) /\ WellFormed(acct)
  BY Typed DEF Inv, FoldOp, FoldInv
<1>2. Folded(acct, NormalizeOp(upd, o), Sequential(seq, o), touched')
  BY <1>1, FoldKeeps DEF FoldOp
<1>3. Folded(acct', upd', seq', touched')
  BY <1>2 DEF FoldOp
<1>4. WellFormed(seq') /\ upd' \in NetUpdate /\ touched' \in BOOLEAN
  BY <1>3 DEF Folded, WellFolded
<1>5. TypeOK'
  BY <1>4, Typed, TypedNext DEF Inv, FoldOp
<1>6. FoldInv' /\ UndoInv'
  BY <1>3 DEF Inv, FoldOp, FoldInv, UndoInv
<1>7. MatchesSequentialButCreation' /\ FailsOnlyOnOpaque' /\ InverseRestoresButRewritten'
  BY DEF FoldOp, MatchesSequentialButCreation, FailsOnlyOnOpaque, InverseRestoresButRewritten
<1> QED
  BY <1>5, <1>6, <1>7 DEF Inv

\* Applying the folded block: here the fold is compared with the operations one by
\* one, and the inverse becomes an exact one.
LEMMA InvApplyBlock ==
    ASSUME Inv, ApplyBlock
    PROVE  Inv'
<1> DEFINE res == ApplyGroup(acct, upd)
           e == [before |-> acct, upd |-> upd, after |-> res.acct, inv |-> res.inv]
<1>1. /\ pc = "fold" /\ pc' = "applied" /\ stopped = "no" /\ Len(undo) < MaxUndo
      /\ Folded(acct, upd, seq, touched) /\ WellFormed(acct) /\ WellFolded(upd)
  BY Typed DEF Inv, ApplyBlock, FoldInv, Folded
<1>2. /\ res.failed <=> touched
      /\ ~res.failed => res.acct = seq \/ (res.acct = None /\ acct = None /\ seq = EmptyAccount)
  BY <1>1, FoldsAgree
<1>3. UNCHANGED <<upd, seq, touched, rolled>>
  BY DEF ApplyBlock
<1>4. FoldInv' /\ InverseRestoresButRewritten'
  BY <1>1 DEF FoldInv, InverseRestoresButRewritten
<1>5. CASE ApplyPanics(upd) /\ stopped' = "panic" /\ UNCHANGED <<acct, promoted, undo>>
  <2>1. ~touched
    BY <1>1, <1>5, Typed, PromotedPlain DEF Inv, ApplyPanics, Folded
  <2>2. TypeOK'
    BY <1>1, <1>3, <1>5, Typed, TypedNext DEF Inv
  <2>3. UndoInv'
    BY <1>5 DEF Inv, UndoInv
  <2>4. MatchesSequentialButCreation' /\ FailsOnlyOnOpaque'
    BY <1>1, <1>3, <1>5, <2>1 DEF MatchesSequentialButCreation, FailsOnlyOnOpaque
  <2> QED
    BY <1>4, <2>2, <2>3, <2>4 DEF Inv
<1>6. CASE res.failed /\ stopped' = "error" /\ acct' \in {acct, None} /\ UNCHANGED <<promoted, undo>>
  <2>1. touched /\ IsOpaque(seq)
    BY <1>1, <1>2, <1>6 DEF Folded
  <2>2. ~promoted
    BY <1>1, <2>1, Typed, PromotedPlain DEF Inv, Folded
  <2>3. WellFormed(acct')
    BY <1>1, <1>6 DEF WellFormed, IsOpaque
  <2>4. TypeOK'
    BY <1>1, <1>3, <1>6, <2>2, <2>3, Typed, TypedNext DEF Inv
  <2>5. UndoInv'
    BY <1>6 DEF Inv, UndoInv
  <2>6. MatchesSequentialButCreation' /\ FailsOnlyOnOpaque'
    BY <1>1, <1>3, <1>6, <2>1 DEF MatchesSequentialButCreation, FailsOnlyOnOpaque
  <2> QED
    BY <1>4, <2>4, <2>5, <2>6 DEF Inv
<1>7. CASE /\ ~res.failed
           /\ acct' = res.acct /\ promoted' \in FormsAfter(res)
           /\ undo' = Append(undo, e)
           /\ UNCHANGED stopped
  <2>1. ~touched /\ WellFormed(res.acct) /\ WellFolded(res.inv)
    BY <1>1, <1>2, <1>7, GroupShape
  <2>2. promoted' \in BOOLEAN /\ (promoted' => Branches(acct'))
    BY <1>1, <1>7, Typed, FormsBranch DEF Inv
  <2>3. e \in Entries /\ Exact(e)
    <3>1. upd \in NetUpdate /\ res.inv \in NetUpdate
      BY <1>1, <2>1 DEF WellFolded
    <3>2. acct \in Account \cup {None} /\ res.acct \in Account \cup {None}
      BY <1>1, <2>1 DEF WellFormed
    <3>3. Exact(e)
      BY <1>1, <1>7 DEF Exact
    <3> HIDE DEF res
    <3>4. e \in Entries
      BY <3>1, <3>2 DEF Entries
    <3> QED
      BY <3>3, <3>4
  <2>e. e.before = acct
    OBVIOUS
  <2> HIDE DEF e
  <2>4. undo \in Seq(Entries) /\ Len(undo) \in Nat /\ MaxUndo \in Nat
    BY Typed, BlockAssumption DEF Inv, BlockAssumption
  <2>5. /\ undo' \in Seq(Entries) /\ Len(undo') = Len(undo) + 1 /\ undo'[Len(undo')] = e
        /\ \A i \in 1..Len(undo) : undo'[i] = undo[i]
    BY <1>7, <2>3, <2>4
  <2>6. TypeOK'
    BY <1>1, <1>3, <1>7, <2>1, <2>2, <2>4, <2>5, Typed, TypedNext DEF Inv
  <2>7. UndoInv'
    <3> SUFFICES ASSUME NEW i \in 1..Len(undo') PROVE Exact(undo'[i])
      BY DEF UndoInv, Exact
    <3>1. i = Len(undo') \/ i \in 1..Len(undo)
      BY <2>4, <2>5
    <3> QED
      BY <3>1, <2>3, <2>5 DEF Inv, UndoInv
  <2>8. MatchesSequentialButCreation'
    BY <1>2, <1>3, <1>7, <2>5, <2>e DEF MatchesSequentialButCreation
  <2>9. FailsOnlyOnOpaque'
    BY <1>1, <1>3, <1>7, <2>1 DEF FailsOnlyOnOpaque
  <2> QED
    BY <1>4, <2>6, <2>7, <2>8, <2>9 DEF Inv
<1> QED
  BY <1>5, <1>6, <1>7 DEF ApplyBlock

\* Rolling a block back: here its inverse is compared with what was there before.
LEMMA InvRollback ==
    ASSUME Inv, Rollback
    PROVE  Inv'
<1> DEFINE e   == undo[Len(undo)]
           res == ApplyGroup(acct, e.inv)
<1>1. /\ pc = "idle" /\ stopped = "no" /\ undo # <<>> /\ UNCHANGED <<upd, seq, touched>>
      /\ undo \in Seq(Entries) /\ WellFormed(acct) /\ Len(undo) \in Nat \ {0} /\ Len(undo) <= MaxUndo
  BY Typed DEF Inv, Rollback, Ready
<1>2. Exact(e) /\ WellFolded(e.inv)
  <2>1. Exact(e)
    BY <1>1 DEF Inv, UndoInv
  <2> HIDE DEF e
  <2> QED
    BY <2>1, GroupShape DEF Exact
<1>3. acct = e.after => ~res.failed /\ Restored(res.acct, e.before, e.upd)
  <2> HIDE DEF e
  <2> QED
    BY <1>2, InverseUndoes DEF Exact
<1>4. CASE ApplyPanics(e.inv) /\ stopped' = "panic" /\ UNCHANGED <<acct, promoted, undo, pc, rolled>>
  <2>1. TypeOK'
    BY <1>1, <1>4, Typed, TypedNext DEF Inv
  <2>2. FoldInv' /\ UndoInv'
    BY <1>1, <1>4 DEF Inv, FoldInv, UndoInv
  <2>3. MatchesSequentialButCreation' /\ FailsOnlyOnOpaque' /\ InverseRestoresButRewritten'
    BY <1>1, <1>4 DEF MatchesSequentialButCreation, FailsOnlyOnOpaque, InverseRestoresButRewritten
  <2> QED
    BY <2>1, <2>2, <2>3 DEF Inv
<1>5. CASE /\ pc' = "rolled" /\ rolled' = <<e, acct>> /\ res.failed
           /\ stopped' = "error" /\ acct' \in {acct, None} /\ UNCHANGED <<promoted, undo>>
  <2>1. rolled'[1] = e /\ rolled'[2] = acct
    BY <1>5
  <2>2. ~promoted
    <3>1. SUFFICES ASSUME promoted PROVE FALSE
      OBVIOUS
    <3>2. acct \in Account /\ ~acct.opaque /\ e.inv \in NetUpdate
      BY <3>1, <1>1, <1>2, Typed, PromotedPlain DEF Inv, WellFormed, WellFolded, IsOpaque
    <3> HIDE DEF e
    <3>3. ~res.failed
      BY <3>2, GroupDeletes, GroupUpdates
    <3> QED
      BY <3>3, <1>5
  <2>3. WellFormed(acct')
    BY <1>1, <1>5 DEF WellFormed, IsOpaque
  <2>4. TypeOK'
    BY <1>1, <1>5, <2>2, <2>3, Typed, TypedNext DEF Inv
  <2>5. FoldInv' /\ UndoInv' /\ MatchesSequentialButCreation'
    BY <1>5 DEF Inv, FoldInv, UndoInv, MatchesSequentialButCreation
  <2> HIDE DEF e
  <2>6. FailsOnlyOnOpaque' /\ InverseRestoresButRewritten'
    BY <1>3, <1>5, <2>1 DEF FailsOnlyOnOpaque, InverseRestoresButRewritten
  <2> QED
    BY <2>4, <2>5, <2>6 DEF Inv
<1>6. CASE /\ pc' = "rolled" /\ rolled' = <<e, acct>> /\ ~res.failed
           /\ acct' = res.acct /\ promoted' \in FormsAfter(res)
           /\ undo' = SubSeq(undo, 1, Len(undo) - 1)
           /\ UNCHANGED stopped
  <2>1. rolled'[1] = e /\ rolled'[2] = acct
    BY <1>6
  <2>2. /\ undo' \in Seq(Entries) /\ Len(undo') = Len(undo) - 1
        /\ \A i \in 1..Len(undo') : undo'[i] = undo[i] /\ i \in 1..Len(undo)
    <3> DEFINE n == Len(undo) - 1
    <3>1. n \in 0..Len(undo) /\ undo' = SubSeq(undo, 1, n)
      BY <1>1, <1>6
    <3> HIDE DEF n
    <3>2. undo' \in Seq(Entries) /\ Len(undo') = n
      BY <1>1, <3>1
    <3>3. \A i \in 1..n : undo'[i] = undo[i] /\ i \in 1..Len(undo)
      BY <1>1, <3>1
    <3> QED
      BY <3>2, <3>3 DEF n
  <2> HIDE DEF e
  <2>3. WellFormed(acct')
    BY <1>1, <1>2, <1>6, GroupShape
  <2>4. promoted' \in BOOLEAN /\ (promoted' => Branches(acct'))
    BY <1>1, <1>2, <1>6, Typed, FormsBranch DEF Inv
  <2>5. Len(undo') <= MaxUndo
    BY <1>1, <2>2, BlockAssumption DEF BlockAssumption
  <2>6. TypeOK'
    BY <1>1, <1>6, <2>2, <2>3, <2>4, <2>5, Typed, TypedNext DEF Inv
  <2>7. FoldInv' /\ MatchesSequentialButCreation'
    BY <1>6 DEF FoldInv, MatchesSequentialButCreation
  <2>8. UndoInv'
    <3> SUFFICES ASSUME NEW i \in 1..Len(undo') PROVE Exact(undo'[i])
      BY DEF UndoInv, Exact
    <3> QED
      BY <2>2 DEF Inv, UndoInv
  <2>9. FailsOnlyOnOpaque' /\ InverseRestoresButRewritten'
    BY <1>1, <1>3, <1>6, <2>1 DEF FailsOnlyOnOpaque, InverseRestoresButRewritten
  <2> QED
    BY <2>6, <2>7, <2>8, <2>9 DEF Inv
<1> QED
  BY <1>4, <1>5, <1>6 DEF Rollback

\* Giving up the oldest inverse keeps the others exact.
LEMMA InvFinalize ==
    ASSUME Inv, Finalize
    PROVE  Inv'
<1>1. /\ undo \in Seq(Entries) /\ Len(undo) \in Nat \ {0} /\ Len(undo) <= MaxUndo /\ MaxUndo \in Nat
      /\ undo' = Tail(undo)
  BY Typed, BlockAssumption DEF Inv, Finalize, BlockAssumption
<1>2. /\ undo' \in Seq(Entries) /\ Len(undo') = Len(undo) - 1
      /\ \A i \in 1..Len(undo') : undo'[i] = undo[i + 1] /\ i + 1 \in 1..Len(undo)
  BY <1>1
<1>3. Len(undo') <= MaxUndo
  BY <1>1, <1>2
<1>4. TypeOK'
  BY <1>2, <1>3, Typed, TypedNext DEF Inv, Finalize
<1>5. UndoInv'
  <2> SUFFICES ASSUME NEW i \in 1..Len(undo') PROVE Exact(undo'[i])
    BY DEF UndoInv, Exact
  <2> QED
    BY <1>2 DEF Inv, UndoInv
<1>6. FoldInv' /\ MatchesSequentialButCreation' /\ FailsOnlyOnOpaque' /\ InverseRestoresButRewritten'
  BY DEF Finalize, Ready, FoldInv, MatchesSequentialButCreation, FailsOnlyOnOpaque,
         InverseRestoresButRewritten
<1> QED
  BY <1>4, <1>5, <1>6 DEF Inv

\* Going on after a call keeps the invariant.
LEMMA InvGoOn ==
    ASSUME Inv, GoOn
    PROVE  Inv'
<1>1. WellFormed(None)
  BY DEF WellFormed, IsOpaque
<1>2. TypeOK'
  BY <1>1, NoWritesType, Typed, TypedNext DEF Inv, GoOn
<1>3. FoldInv' /\ UndoInv'
  BY DEF Inv, GoOn, FoldInv, UndoInv
<1>4. MatchesSequentialButCreation' /\ FailsOnlyOnOpaque' /\ InverseRestoresButRewritten'
  BY DEF GoOn, MatchesSequentialButCreation, FailsOnlyOnOpaque, InverseRestoresButRewritten
<1> QED
  BY <1>2, <1>3, <1>4 DEF Inv

\* So does a step that changes nothing.
LEMMA InvStutters ==
    ASSUME Inv, UNCHANGED vars
    PROVE  Inv'
<1>1. TypeOK'
  BY Typed, TypedNext DEF Inv, vars
<1>2. FoldInv' /\ UndoInv' /\ MatchesSequentialButCreation' /\ FailsOnlyOnOpaque' /\ InverseRestoresButRewritten'
  BY DEF Inv, vars, FoldInv, UndoInv, MatchesSequentialButCreation, FailsOnlyOnOpaque,
         InverseRestoresButRewritten
<1> QED
  BY <1>1, <1>2 DEF Inv

\* The inductive invariant: normalize_block folds as the operations go, and every
\* inverse kept for a rollback is the one of its block.
THEOREM BlockInductive == Spec => []Inv
<1>1. Inv /\ [Next]_vars => Inv'
  <2> SUFFICES ASSUME Inv, [Next]_vars PROVE Inv'
    OBVIOUS
  <2>1. CASE UNCHANGED vars
    BY <2>1, InvStutters
  <2>2. ASSUME NEW f \in Fields, LoadOpaque(f) PROVE Inv'
    BY <2>2, InvLoadOpaque
  <2>3. CASE BeginBlock
    BY <2>3, InvBeginBlock
  <2>4. ASSUME NEW o \in StateOp, FoldOp(o) PROVE Inv'
    BY <2>4, InvFoldOp
  <2>5. CASE ApplyBlock
    BY <2>5, InvApplyBlock
  <2>6. CASE Rollback
    BY <2>6, InvRollback
  <2>7. CASE Finalize
    BY <2>7, InvFinalize
  <2>8. CASE GoOn
    BY <2>8, InvGoOn
  <2> QED
    BY <2>1, <2>2, <2>3, <2>4, <2>5, <2>6, <2>7, <2>8 DEF Next
<1> QED
  BY InvInit, <1>1, PTL DEF Spec

\* The state of apply_block has its type, a promoted account has a branch in its
\* storage, and an opaque one has no slots.
THEOREM BlockTypeCorrect == Spec => []TypeOK
<1>1. Inv => TypeOK
  BY DEF Inv
<1> QED
  BY <1>1, BlockInductive, PTL

\* Whatever operations a block has, in whatever order and however many, apply_block
\* leaves the account they leave one by one (but for an account that the block
\* creates and takes back).
THEOREM BlocksMatchSequential == Spec => []MatchesSequentialButCreation
<1>1. Inv => MatchesSequentialButCreation
  BY DEF Inv
<1> QED
  BY <1>1, BlockInductive, PTL

\* apply_block fails if, and only if, the block leaves a change of an unknown slot
\* behind, and no rollback fails from where its block led.
THEOREM BlocksFailOnlyOnOpaque == Spec => []FailsOnlyOnOpaque
<1>1. Inv => FailsOnlyOnOpaque
  BY DEF Inv
<1> QED
  BY <1>1, BlockInductive, PTL

\* Rolling back any block restores what was there before it, but for slots the block
\* set after a wipe and an opaque root it cleared.
THEOREM RollbacksRestore == Spec => []InverseRestoresButRewritten
<1>1. Inv => InverseRestoresButRewritten
  BY DEF Inv
<1> QED
  BY <1>1, BlockInductive, PTL

=============================================================================
