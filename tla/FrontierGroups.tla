--------------------------- MODULE FrontierGroups ---------------------------
(***************************************************************************)
(* The frontier with apply_block taken apart: one step for each group of a *)
(* block, one to fold the top, one to spill.  In this grain the frontier   *)
(* implements FrontierCut: every step changes the cut the way one of its   *)
(* actions does.                                                           *)
(*                                                                         *)
(* A block whose next group would panic goes no further (module            *)
(* BlockUpdate has that panic), and no batches are loaded.                 *)
(***************************************************************************)
EXTENDS Frontier

VARIABLES
    todo,   \* the groups of the block that are still to run
    phase,  \* "none", "fan" or "serial" while they run, "spill" when they have
    cut     \* the cut of the frontier, a function of the state

groupVars == <<vars, todo, phase, cut>>

-----------------------------------------------------------------------------
(* The cut of a frontier.  An account stands for its leaf with an empty path. *)

RECURSIVE LeavesOf(_, _)
LeavesOf(n, path) ==
    CASE n.t = "Account"   -> (path \o n.path) :> [n EXCEPT !.path = <<>>]
      [] n.t = "Extension" -> LeavesOf(n.child, path \o n.path)
      [] n.t = "Branch"    ->
            FoldFunction(LAMBDA f, g : f @@ g, <<>>,
                         [i \in DOMAIN n.kids |-> LeavesOf(n.kids[i], path \o <<i>>)])
      [] OTHER -> <<>>
CutRecord(rec) == [prefix |-> rec.prefix, data |-> LeavesOf(rec.node, rec.prefix)]

RECURSIVE BranchPaths(_, _)
BranchPaths(n, path) ==
    CASE n.t = "Empty"     -> {}
      [] n.t = "Extension" -> BranchPaths(n.child, path \o n.path)
      [] n.t = "Branch"    ->
            {path} \cup UNION {BranchPaths(n.kids[i].node, path \o <<i>>) :
                                 i \in {j \in DOMAIN n.kids : n.kids[j].c = "Ram"}}

\* A promoted account stands where a record of it would.
CutChild(c, path) ==
    IF c.c = "Account"
    THEN [kind |-> "Account",
          rec  |-> CutRecord(Record(path, Account(c.path, c.fields, hash_ram(c.storage))))]
    ELSE [kind |-> c.c, rec |-> CutRecord(c.rec)]
RECURSIVE CutSlots(_, _)
CutSlots(n, path) ==
    CASE n.t = "Empty"     -> <<>>
      [] n.t = "Extension" -> CutSlots(n.child, path \o n.path)
      [] n.t = "Branch"    ->
            FoldFunction(LAMBDA f, g : f @@ g, <<>>,
                [i \in DOMAIN n.kids |->
                    IF n.kids[i].c = "Ram" THEN CutSlots(n.kids[i].node, path \o <<i>>)
                    ELSE (path \o <<i>>) :> CutChild(n.kids[i], path \o <<i>>)])

\* The records of the account trie: those of promoted storage have longer prefixes.
AccountRecords(recs) == {CutRecord(rec) : rec \in {r \in recs : Len(r.prefix) <= KeyLen}}

Contents(a) == Account(<<>>, want[a].fields, StorageTrie(want[a].slots))
\* What an account can be.
SlotKeys    == UNION {SlotOf[a] : a \in DOMAIN SlotOf}
               \cup UNION {{e.slot : e \in UNION {ToSet(b[a].slots) : a \in DOMAIN b}} : b \in Blocks}
CanBe       == {Account(<<>>, f, StorageTrie(slots)) :
                   f \in Fields \cup {EmptyFields}, slots \in UNION {[ss -> Val] : ss \in SUBSET SlotKeys}}

CutOf == [branches |-> BranchPaths(upper, <<>>), slots |-> CutSlots(upper, <<>>),
          live |-> AccountRecords(live), want |-> [a \in DOMAIN want |-> Contents(a)]]

-----------------------------------------------------------------------------
GroupsInit == Init /\ todo = <<>> /\ phase = "none" /\ cut = CutOf

Single ==
    /\ phase = "none" /\ UNCHANGED <<todo, phase>>
    /\ \/ \E a \in AccountKey : \E f \in FieldsOf[a] : InsertAccount(a, f)
       \/ \E a \in DOMAIN SlotOf : \E s \in SlotOf[a], v \in Val : InsertStorage(a, s, v)
       \/ \E a \in AccountKey : DeleteAccount(a)
       \/ \E a \in DOMAIN SlotOf : \E s \in SlotOf[a] : DeleteStorage(a, s)
       \/ \E a \in DOMAIN SlotOf : WipeStorage(a)
       \/ Persist

BeginBlock(block) ==
    /\ err = "none" /\ phase = "none"
    /\ todo' = block
    /\ phase' = IF upper.t = "Branch" THEN "fan" ELSE "serial"
    /\ UNCHANGED vars

\* What a step leaves; the hashes are computed at the end of the block.
Leaves(r) ==
    /\ upper' = r.node /\ live' = r.live /\ err' = r.err
    /\ UNCHANGED <<maxLeaf, hot, ramMode>>
Here == [node |-> upper, live |-> live, err |-> "none", done |-> 0]

Group ==
    /\ err = "none" /\ phase \in {"fan", "serial"} /\ todo # <<>>
    /\ LET key == InKeyOrder(todo)[1] IN
        /\ ~ApplyPanics(upper, key, todo[key])
        /\ Leaves(IF phase = "fan" THEN FanOutGroup(Here, key, todo[key])
                  ELSE SerialGroup(Here, key, todo[key]))
        /\ want' = WantNet(want, key, todo[key])
        /\ todo' = Without(todo, key)
    /\ UNCHANGED phase
FoldTop ==
    /\ err = "none" /\ phase = "fan" /\ todo = <<>>
    /\ Leaves(TopFolded(Here))
    /\ phase' = "spill"
    /\ UNCHANGED <<want, todo>>
SpillSome ==
    /\ err = "none" /\ (phase = "spill" \/ (phase = "serial" /\ todo = <<>>))
    /\ \E chosen \in SpillChoices(upper) : Return(Spilled(Here, chosen))
    /\ phase' = "none"
    /\ UNCHANGED <<want, todo, ramMode>>

GroupsNext ==
    /\ \/ Single
       \/ \E block \in Blocks : BeginBlock(block)
       \/ Group \/ FoldTop \/ SpillSome
    /\ cut' = CutOf'

GroupsSpec == GroupsInit /\ [][GroupsNext]_groupVars

-----------------------------------------------------------------------------
Cut == INSTANCE FrontierCut WITH
    Keys <- AccountKey, Val <- CanBe,
    branches <- cut.branches, slots <- cut.slots, live <- cut.live, want <- cut.want,
    fanOut <- phase = "fan", err <- err

\* Every step of the frontier is, for the cut into records, one of FrontierCut.
ImplementsCut == Cut!Spec
=============================================================================
