---------------------------- MODULE CursorProofs ----------------------------
(***************************************************************************)
(* Proofs about Cursor, for any keys and number of nibbles.                *)
(*                                                                         *)
(* The inductive invariant is Inv.  Of the walk it says that every entry   *)
(* before the node the walk is at, and after a return with None every      *)
(* entry below it, is before the target; over leaves also that every entry *)
(* after the node is not, nor any below it when the target is no longer    *)
(* compared.  The last part is what allows the loops to go on with the     *)
(* minimum of the next child.                                              *)
(***************************************************************************)
EXTENDS Cursor, PathTheorems

-----------------------------------------------------------------------------
(* The invariant *)

\* The trie that Init chooses.
TrieInv ==
    /\ held \subseteq Key /\ held \subseteq Keys
    /\ branches \subseteq Inner
    /\ BranchPoints(held) \subseteq branches
    /\ \A b \in branches : \E k \in held : IsPrefix(b, k)
    /\ over \in {"leaves", "branches"}

\* What is sought: not the root.
Sought(t) == t \in Path /\ t # <<>> /\ (over = "leaves" => t \in Key)

\* Entries before p are before t.
Passed(p, t)  == \A x \in Items : LexLess(x, p) => LexLess(x, t)
\* Entries below p are before t, or none of them is.
AllLess(p, t) == \A x \in Items : IsPrefix(p, x) => LexLess(x, t)
NoneLess(p, t) == \A x \in Items : IsPrefix(p, x) => ~LexLess(x, t)
\* Entries on the right of p are not before t.
Ahead(p, t)   == \A x \in Items : LeftOf(p, x) => ~LexLess(x, t)

\* A call for t on the child at p, m if any leaf will do.
Enters(p, m, t) ==
    /\ p \in Path /\ Sought(t) /\ Passed(p, t)
    /\ over = "leaves" => Ahead(p, t) /\ (m => NoneLess(p, t)) /\ (~m => IsPrefix(p, t))

\* A walk for t that is at n, going w.
WalkAt(w, n, m, t) ==
    /\ n \in Node /\ Sought(t) /\ Passed(n, t)
    /\ w = "up" => AllLess(n, t)
    /\ w = "down" /\ over = "branches" => n \in branches
    /\ over = "leaves" =>
          /\ Ahead(n, t)
          /\ w = "down" /\ m => NoneLess(n, t)
          /\ w = "down" /\ ~m /\ n \in branches => IsPrefix(n, t)
WalkInv ==
    /\ walk \in {"none", "down", "up"} /\ min \in BOOLEAN
    /\ walk # "none" => WalkAt(walk, at, min, target)

\* What was returned, while no walk is under way and during one.
SeenInv ==
    /\ seen \in Seq(Items) /\ InOrder
    /\ last \in Items \cup {<<>>} /\ start \in Path
    /\ start = <<>> => last = <<>> /\ walk = "none"
    /\ walk = "none" /\ last # <<>> => ~LexLess(last, start)
    /\ VisitsAll
    /\ walk # "none" =>
          /\ ToSet(seen) = {x \in Items : ~LexLess(x, start) /\ LexLess(x, target)}
          /\ ~LexLess(target, start)
    /\ over = "leaves" => start = <<>> \/ start \in Key

Inv == TrieInv /\ WalkInv /\ SeenInv

-----------------------------------------------------------------------------
(* The trie *)

LEMMA NodesAre ==
    ASSUME TrieInv
    PROVE  /\ \A n \in Node : n \in Path /\ \E k \in held : IsPrefix(n, k)
           /\ \A n \in Node, b \in branches : IsPrefix(n, b) => n \in branches
           /\ \A x \in Items : x \in Node /\ x # <<>>
           /\ \A k \in held : k \in Path /\ k \in Key
           /\ \A b \in branches : b \in Path /\ b \in Inner
<1>1. /\ \A k \in held : k \in Path /\ k \in Key /\ k # <<>>
      /\ \A b \in branches : b \in Path /\ b \in Inner
  BY KeyIsPath, InnerIsPath, RootIsInner DEF TrieInv
<1>2. \A n \in Node : n \in Path /\ \E k \in held : IsPrefix(n, k)
  BY <1>1, PrefixRefl DEF TrieInv, Node
<1>3. ASSUME NEW n \in held, NEW b \in branches, IsPrefix(n, b)
      PROVE  FALSE
  <2>1. n = b
    BY <1>1, <1>3, KeysMaximal
  <2> QED
    BY <1>1, <2>1, InnerIsPath
<1> QED
  BY <1>1, <1>2, <1>3 DEF Node, Items

\* No branch lies between a node and the branch above it: everything below that
\* branch on the way to the node is below the node.
LEMMA NothingBetween ==
    ASSUME TrieInv, NEW n \in Node, NEW p \in Path, IsPrefix(p, n),
           \A c \in branches : IsPrefix(p, c) /\ IsPrefix(c, n) => c = n,
           NEW l \in Node, IsPrefix(p, l)
    PROVE  IsPrefix(n, l)
<1>1. n \in Path /\ l \in Path
  BY NodesAre
<1>2. CASE IsPrefix(l, n)
  <2>1. CASE l \in branches
    BY <1>1, <1>2, <2>1, PrefixRefl
  <2>2. CASE l \in held
    BY <1>1, <1>2, <2>2, NodesAre, KeysMaximal, PrefixRefl
  <2> QED
    BY <2>1, <2>2 DEF Node
<1>3. CASE ~IsPrefix(l, n) /\ ~IsPrefix(n, l)
  <2>1. PICK k \in held : IsPrefix(n, k)
    BY NodesAre
  <2>2. PICK j \in held : IsPrefix(l, j)
    BY NodesAre
  <2>3. k \in Path /\ j \in Path
    BY NodesAre
  <2>4. Meet(k, j) = Meet(n, l) /\ k # j
    BY <1>1, <1>3, <2>1, <2>2, <2>3, MeetsBelow
  <2>5. Meet(n, l) \in branches
    BY <2>4, BranchPointsAre DEF TrieInv
  <2>6. /\ IsPrefix(Meet(n, l), n) /\ IsPrefix(Meet(n, l), l)
        /\ IsPrefix(p, Meet(n, l))
    BY <1>1, MeetIsPrefix
  <2>7. Meet(n, l) = n
    BY <2>5, <2>6
  <2> QED
    BY <1>3, <2>6, <2>7
<1> QED
  BY <1>2, <1>3

-----------------------------------------------------------------------------
(* The children of a branch *)

\* Children are in the order of their nibbles.
LEMMA ChildOrder ==
    ASSUME NEW b \in Path, NEW q \in Path, NEW r \in Path, IsChild(b, q), IsChild(b, r)
    PROVE  /\ Last(q) \in Nat /\ Last(r) \in Nat
           /\ Last(q) < Last(r) <=> LeftOf(q, r)
           /\ Last(q) = Last(r) => q = r
<1>1. PICK n : n = Len(b) + 1
  OBVIOUS
<1>2. /\ Len(b) \in Nat /\ n \in Nat /\ n >= 1 /\ n - 1 = Len(b)
      /\ Len(q) = n /\ Len(r) = n
      /\ \A i \in 1 .. Len(b) : q[i] = b[i] /\ r[i] = b[i]
  BY <1>1, PathIsSeq, PathsAssumption, PrefixByNibbles DEF IsChild
<1>3. Last(q) = q[n] /\ Last(r) = r[n]
  BY <1>2 DEF Last
<1>4. n \in 1 .. Len(q) /\ n \in 1 .. Len(r)
  BY <1>2
<1>5. q[n] \in Nat /\ r[n] \in Nat
  BY <1>4, PathIsSeq, PathsAssumption DEF Nibble
<1>6. \A i \in 1 .. n - 1 : q[i] = r[i]
  BY <1>2
<1>7. q[n] < r[n] => LeftOf(q, r)
  BY <1>2, <1>6, LeftFrom
<1>8. r[n] < q[n] => LeftOf(r, q)
  <2>1. \A i \in 1 .. n - 1 : r[i] = q[i]
    BY <1>6
  <2> QED
    BY <1>2, <2>1, LeftFrom
<1>9. q[n] = r[n] => q = r
  <2>1. ASSUME q[n] = r[n]
        PROVE  \A i \in 1 .. Len(q) : q[i] = r[i]
    <3>1. \A i \in 1 .. Len(q) : i \in 1 .. n - 1 \/ i = n
      BY <1>2
    <3> QED
      BY <1>6, <2>1, <3>1
  <2> QED
    BY <1>2, <2>1, PathEqual
<1>10. LeftOf(q, r) => ~LeftOf(r, q) /\ q # r
  BY LeftApart
<1>11. LeftOf(q, r) => q[n] < r[n]
  BY <1>5, <1>8, <1>9, <1>10
<1> QED
  BY <1>3, <1>5, <1>7, <1>9, <1>11

LEMMA TowardLast ==
    ASSUME NEW b \in Path, NEW n \in Path, IsPrefix(b, n), b # n
    PROVE  Last(Toward(b, n)) = n[Len(b) + 1]
<1>1. PICK q : q = Toward(b, n)
  OBVIOUS
<1>2. q \in Path /\ IsChild(b, q) /\ IsPrefix(q, n)
  BY <1>1, TowardIsChild
<1>3. Len(b) \in Nat /\ Len(q) = Len(b) + 1
  BY <1>2, PathIsSeq, PathsAssumption DEF IsChild
<1>4. Len(q) \in 1 .. Len(q)
  BY <1>3
<1>5. q[Len(q)] = n[Len(q)]
  BY <1>2, <1>4, PrefixByNibbles
<1> QED
  BY <1>1, <1>3, <1>5 DEF Last

LEMMA KidsAre ==
    ASSUME TrieInv, NEW b \in branches
    PROVE  /\ \A q \in Kids(b) : q \in Path /\ IsChild(b, q) /\ Last(q) \in Nat
           /\ \A x \in Node : IsPrefix(b, x) /\ x # b =>
                 /\ Toward(b, x) \in Kids(b) /\ Toward(b, x) \in Path
                 /\ IsChild(b, Toward(b, x)) /\ IsPrefix(Toward(b, x), x)
<1>1. b \in Path /\ b \in Inner
  BY NodesAre
<1>2. ASSUME NEW q \in Kids(b)
      PROVE  q \in Path /\ IsChild(b, q) /\ Last(q) \in Nat
  <2>1. PICK k \in held : IsPrefix(b, k) /\ q = Toward(b, k)
    BY <1>2 DEF Kids, Under
  <2>2. k \in Path /\ b # k
    BY <1>1, NodesAre, InnerIsPath
  <2>3. q \in Path /\ IsChild(b, q)
    BY <1>1, <2>1, <2>2, TowardIsChild
  <2> QED
    BY <1>1, <2>3, ChildOrder
<1>3. ASSUME NEW x \in Node, IsPrefix(b, x), x # b
      PROVE  /\ Toward(b, x) \in Kids(b) /\ Toward(b, x) \in Path
             /\ IsChild(b, Toward(b, x)) /\ IsPrefix(Toward(b, x), x)
  <2>1. x \in Path
    BY NodesAre
  <2>2. PICK k \in held : IsPrefix(x, k)
    BY NodesAre
  <2>3. k \in Path
    BY NodesAre
  <2>4. PICK q : q = Toward(b, x)
    OBVIOUS
  <2>5. q \in Path /\ IsChild(b, q) /\ IsPrefix(q, x)
    BY <1>1, <1>3, <2>1, <2>4, TowardIsChild
  <2>6. IsPrefix(q, k) /\ IsPrefix(b, k)
    BY <1>1, <1>3, <2>1, <2>2, <2>3, <2>5, PrefixTrans
  <2>7. q = Toward(b, k)
    BY <1>1, <2>3, <2>5, <2>6, ChildIsToward
  <2>8. q \in Kids(b)
    BY <2>6, <2>7 DEF Kids, Under
  <2> QED
    BY <2>4, <2>5, <2>8
<1> QED
  BY <1>2, <1>3

-----------------------------------------------------------------------------
(* A call on a child *)

LEMMA Entered ==
    ASSUME TrieInv, NEW p, NEW m \in BOOLEAN, NEW t, Enters(p, m, t), Enter(p, m, t)
    PROVE  /\ walk' \in {"down", "up"} /\ min' \in BOOLEAN /\ target' = t
           /\ WalkAt(walk', at', min', t)
<1> DEFINE Extended(n) == n \in branches /\ n # p
<1> DEFINE Skipped(n)  == IF over = "leaves" THEN Extended(n) /\ ~m /\ rel(n, t) = "AllLess"
                          ELSE n \in held \/ rel(n, t) = "AllLess"
<1>1. PICK n \in Node :
        /\ LeadsTo(p, n)
        /\ at' = n /\ target' = t
        /\ min' = (over = "leaves" /\ (m \/ (Extended(n) /\ rel(n, t) = "AllGreater")))
        /\ walk' = IF Skipped(n) THEN "up" ELSE "down"
  BY DEF Enter
<1>2. /\ p \in Path /\ n \in Path /\ t \in Path /\ t # <<>> /\ IsPrefix(p, n)
      /\ \A l \in Node : IsPrefix(p, l) => IsPrefix(n, l)
  BY <1>1, NodesAre DEF LeadsTo, Enters, Sought
<1>3. \A x \in Items : x \in Node /\ x \in Path
  BY NodesAre
<1>4. ASSUME NEW x \in Items, LexLess(x, n)
      PROVE  LexLess(x, t)
  <2>1. CASE LeftOf(x, n)
    <3>1. LeftOf(x, p) \/ IsPrefix(p, x)
      BY <1>2, <1>3, <2>1, LeftAbove
    <3>2. ~IsPrefix(p, x)
      BY <1>2, <1>3, <2>1, LeftApart
    <3> QED
      BY <1>2, <1>3, <3>1, <3>2, LexLessIs DEF Enters, Passed
  <2>2. CASE IsPrefix(x, n) /\ x # n
    <3>1. ~IsPrefix(p, x)
      BY <1>2, <1>3, <2>2, PrefixShorter, PrefixAntisym
    <3>2. IsPrefix(x, p) /\ x # p
      BY <1>2, <1>3, <2>2, <3>1, PrefixChain, PrefixRefl
    <3> QED
      BY <1>2, <1>3, <3>2, LexLessIs DEF Enters, Passed
  <2> QED
    BY <1>2, <1>3, <1>4, <2>1, <2>2, LexLessIs
<1>5. ASSUME walk' = "up"
      PROVE  AllLess(n, t)
  <2> SUFFICES ASSUME NEW x \in Items, IsPrefix(n, x)
               PROVE  LexLess(x, t)
    BY DEF AllLess
  <2>1. Skipped(n)
    BY <1>1, <1>5
  <2>2. CASE rel(n, t) = "AllLess"
    <3>1. LeftOf(n, t)
      BY <1>2, <2>2, RelIs
    <3>2. LeftOf(x, t)
      BY <1>2, <1>3, <3>1, PrefixRefl, LeftBelow
    <3> QED
      BY <1>2, <1>3, <3>2, LexLessIs
  <2>3. CASE rel(n, t) # "AllLess"
    <3>1. over # "leaves" /\ n \in held
      BY <2>1, <2>3
    <3>2. x \in branches
      BY <3>1 DEF Items
    <3>3. n \in Key /\ n = x
      BY <1>2, <1>3, <3>1, NodesAre, KeysMaximal
    <3> QED
      BY <3>2, <3>3, NodesAre, InnerIsPath
  <2> QED
    BY <2>2, <2>3
<1>6. ASSUME walk' = "down", over = "branches"
      PROVE  n \in branches
  BY <1>1, <1>6 DEF Node
<1>7. ASSUME over = "leaves"
      PROVE  Ahead(n, t)
  <2> SUFFICES ASSUME NEW x \in Items, LeftOf(n, x)
               PROVE  ~LexLess(x, t)
    BY DEF Ahead
  <2>1. LeftOf(p, x) \/ IsPrefix(p, x)
    BY <1>2, <1>3, LeftAbove
  <2>2. ~IsPrefix(p, x)
    BY <1>2, <1>3, LeftApart
  <2> QED
    BY <1>7, <2>1, <2>2 DEF Enters, Ahead
<1>8. ASSUME over = "leaves", min'
      PROVE  NoneLess(n, t)
  <2> SUFFICES ASSUME NEW x \in Items, IsPrefix(n, x)
               PROVE  ~LexLess(x, t)
    BY DEF NoneLess
  <2>1. CASE m
    <3>1. IsPrefix(p, x)
      BY <1>2, <1>3, PrefixTrans
    <3> QED
      BY <1>8, <2>1, <3>1 DEF Enters, NoneLess
  <2>2. CASE rel(n, t) = "AllGreater"
    <3>1. LeftOf(t, n)
      BY <1>2, <2>2, RelIs
    <3>2. LeftOf(t, x)
      BY <1>2, <1>3, <3>1, PrefixRefl, LeftBelow
    <3>3. LexLess(t, x)
      BY <1>2, <1>3, <3>2, LexLessIs
    <3> QED
      BY <1>2, <1>3, <3>3, LexOrder
  <2> QED
    BY <1>1, <1>8, <2>1, <2>2
<1>9. ASSUME over = "leaves", walk' = "down", ~min', n \in branches
      PROVE  IsPrefix(n, t)
  <2>1. ~m /\ IsPrefix(p, t) /\ t \in Key
    BY <1>1, <1>9 DEF Enters, Sought
  <2>2. CASE n = p
    BY <2>1, <2>2
  <2>3. CASE n # p
    <3>1. rel(n, t) # "AllLess" /\ rel(n, t) # "AllGreater"
      BY <1>1, <1>9, <2>1, <2>3
    <3>2. IsPrefix(n, t) \/ IsPrefix(t, n)
      BY <1>2, <3>1, RelIs, AboveOrApart
    <3>3. ASSUME IsPrefix(t, n)
          PROVE  FALSE
      <4>1. t = n
        BY <1>2, <2>1, <3>3, KeysMaximal
      <4> QED
        BY <1>9, <2>1, <4>1, NodesAre, InnerIsPath
    <3> QED
      BY <3>2, <3>3
  <2> QED
    BY <2>2, <2>3
<1>10. walk' \in {"down", "up"} /\ min' \in BOOLEAN /\ target' = t /\ at' = n
  BY <1>1
<1>11. Sought(t)
  BY DEF Enters
<1> HIDE DEF Extended, Skipped
<1>12. WalkAt(walk', n, min', t)
  BY <1>1, <1>4, <1>5, <1>6, <1>7, <1>8, <1>9, <1>11 DEF WalkAt, Passed
<1> QED
  BY <1>10, <1>12

\* A seek starts at the root.
LEMMA RootEntered ==
    ASSUME TrieInv, NEW t, Sought(t)
    PROVE  Enters(<<>>, FALSE, t)
<1>1. <<>> \in Path /\ t \in Path
  BY RootIsPath DEF Sought
<1>2. \A x \in Items : x \in Path
  BY NodesAre
<1>3. ASSUME NEW x \in Items
      PROVE  ~LexLess(x, <<>>) /\ ~LeftOf(<<>>, x)
  <2>1. x \in Path /\ x # <<>> /\ IsPrefix(<<>>, x)
    BY <1>2, NodesAre, RootFirst
  <2>2. ~LeftOf(x, <<>>) /\ ~LeftOf(<<>>, x)
    BY <1>1, <2>1, LeftApart
  <2>3. ~IsPrefix(x, <<>>)
    BY <1>1, <2>1, PrefixShorter, PrefixAntisym
  <2> QED
    BY <1>1, <2>1, <2>2, <2>3, LexLessIs
<1>4. IsPrefix(<<>>, t)
  BY <1>1, RootFirst
<1> QED
  BY <1>1, <1>3, <1>4 DEF Enters, Passed, Ahead

-----------------------------------------------------------------------------
(* The loops of a branch *)

\* Entries on the left of a child are before those below the branch, or below an
\* earlier child.
LEMMA LeftOfKid ==
    ASSUME TrieInv, NEW b \in branches, NEW q \in Kids(b), NEW x \in Items
    PROVE  /\ LexLess(x, q) =>
                 \/ LexLess(x, b) \/ x = b
                 \/ /\ IsPrefix(b, x) /\ x # b
                    /\ Toward(b, x) \in Kids(b) /\ Last(Toward(b, x)) < Last(q)
           /\ LeftOf(q, x) =>
                 \/ LeftOf(b, x)
                 \/ /\ IsPrefix(b, x) /\ x # b
                    /\ Toward(b, x) \in Kids(b) /\ Last(q) < Last(Toward(b, x))
<1>1. b \in Path /\ x \in Path /\ x \in Node /\ q \in Path /\ IsChild(b, q)
  BY NodesAre, KidsAre
<1>2. /\ IsPrefix(b, q) /\ b # q /\ ~IsPrefix(q, b)
      /\ \A r \in Path : IsPrefix(r, q) => r = q \/ IsPrefix(r, b)
  BY <1>1, ChildIsLonger
<1>3. ASSUME IsPrefix(b, x), LeftOf(x, q) \/ LeftOf(q, x)
      PROVE  /\ x # b /\ Toward(b, x) \in Kids(b)
             /\ LeftOf(x, q) => Last(Toward(b, x)) < Last(q)
             /\ LeftOf(q, x) => Last(q) < Last(Toward(b, x))
  <2>1. x # b
    BY <1>1, <1>2, <1>3, LeftApart
  <2>2. PICK r : r = Toward(b, x)
    OBVIOUS
  <2>3. r \in Path /\ r \in Kids(b) /\ IsChild(b, r) /\ IsPrefix(r, x)
    BY <1>1, <1>3, <2>1, <2>2, KidsAre
  <2>4. ~IsPrefix(q, x)
    BY <1>1, <1>3, LeftApart
  <2>5. r # q
    BY <2>3, <2>4
  <2>6. LeftOf(x, q) => Last(r) < Last(q)
    <3>1. ASSUME LeftOf(q, r)
          PROVE  ~LeftOf(x, q)
      <4>1. LeftOf(q, x)
        BY <1>1, <2>3, <3>1, PrefixRefl, LeftBelow
      <4> QED
        BY <1>1, <4>1, LeftApart
    <3> QED
      BY <1>1, <2>3, <2>5, <3>1, ChildOrder
  <2>7. LeftOf(q, x) => Last(q) < Last(r)
    <3>1. ASSUME LeftOf(r, q)
          PROVE  ~LeftOf(q, x)
      <4>1. LeftOf(x, q)
        BY <1>1, <2>3, <3>1, PrefixRefl, LeftBelow
      <4> QED
        BY <1>1, <4>1, LeftApart
    <3> QED
      BY <1>1, <2>3, <2>5, <3>1, ChildOrder
  <2> QED
    BY <2>1, <2>2, <2>3, <2>6, <2>7
<1>4. ASSUME LexLess(x, q)
      PROVE  \/ LexLess(x, b) \/ x = b
             \/ /\ IsPrefix(b, x) /\ x # b
                /\ Toward(b, x) \in Kids(b) /\ Last(Toward(b, x)) < Last(q)
  <2>1. CASE LeftOf(x, q)
    <3>1. LeftOf(x, b) \/ IsPrefix(b, x)
      BY <1>1, <1>2, <2>1, LeftAbove
    <3> QED
      BY <1>1, <1>3, <2>1, <3>1, LexLessIs
  <2>2. CASE IsPrefix(x, q) /\ x # q
    <3>1. IsPrefix(x, b)
      BY <1>1, <1>2, <2>2
    <3> QED
      BY <1>1, <3>1, LexLessIs
  <2> QED
    BY <1>1, <1>4, <2>1, <2>2, LexLessIs
<1>5. ASSUME LeftOf(q, x)
      PROVE  \/ LeftOf(b, x)
             \/ /\ IsPrefix(b, x) /\ x # b
                /\ Toward(b, x) \in Kids(b) /\ Last(q) < Last(Toward(b, x))
  <2>1. LeftOf(b, x) \/ IsPrefix(b, x)
    BY <1>1, <1>2, <1>5, LeftAbove
  <2> QED
    BY <1>3, <1>5, <2>1
<1> QED
  BY <1>4, <1>5

\* An entry below another child than n, on n's left or right.
LEMMA BesideKid ==
    ASSUME TrieInv, NEW b \in branches, NEW n \in Path, IsPrefix(b, n), b # n,
           NEW x \in Path, NEW q \in Path, IsChild(b, q), IsPrefix(q, x)
    PROVE  /\ Last(q) \in Nat /\ n[Len(b) + 1] \in Nat
           /\ Last(q) < n[Len(b) + 1] => LeftOf(x, n)
           /\ Last(q) > n[Len(b) + 1] => LeftOf(n, x)
           /\ Last(q) = n[Len(b) + 1] => q = Toward(b, n)
<1>1. b \in Path
  BY NodesAre
<1>2. PICK c : c = Toward(b, n)
  OBVIOUS
<1>3. c \in Path /\ IsChild(b, c) /\ IsPrefix(c, n) /\ Last(c) = n[Len(b) + 1]
  BY <1>1, <1>2, TowardIsChild, TowardLast
<1>4. /\ Last(q) \in Nat /\ Last(c) \in Nat
      /\ Last(q) < Last(c) => LeftOf(q, c)
      /\ Last(c) < Last(q) => LeftOf(c, q)
      /\ Last(q) = Last(c) => q = c
  BY <1>1, <1>3, ChildOrder
<1>5. /\ LeftOf(q, c) => LeftOf(x, n)
      /\ LeftOf(c, q) => LeftOf(n, x)
  BY <1>3, LeftBelow
<1> QED
  BY <1>2, <1>3, <1>4, <1>5

-----------------------------------------------------------------------------
(* The steps of a walk *)

\* The walk goes on, or ends at the first entry that is not before the target,
\* or when all are.
GoesOn ==
    /\ UNCHANGED <<trie, last, start, seen>> /\ target' = target
    /\ walk' \in {"down", "up"} /\ min' \in BOOLEAN
    /\ WalkAt(walk', at', min', target)
FindsFirst ==
    \E x \in Items : Found(x) /\ ~LexLess(x, target) /\ Passed(x, target)
FindsNone == NotFound /\ \A x \in Items : LexLess(x, target)

LEMMA LeafSteps ==
    ASSUME TrieInv, WalkInv, Leaf
    PROVE  GoesOn \/ FindsFirst
<1>1. /\ at \in held /\ at \in Key /\ at \in Path /\ walk = "down"
      /\ WalkAt("down", at, min, target) /\ min \in BOOLEAN
  BY NodesAre DEF Leaf, WalkInv
<1>2. over = "leaves"
  <2>1. at \notin branches
    BY <1>1, NodesAre, InnerIsPath
  <2> QED
    BY <1>1, <2>1 DEF WalkAt, TrieInv
<1>3. at \in Items /\ target \in Path
  BY <1>1, <1>2 DEF Items, WalkAt, Sought
<1>4. CASE min \/ ~LexLess(at, target)
  <2>1. Found(at)
    BY <1>4 DEF Leaf
  <2>2. ~LexLess(at, target)
    BY <1>1, <1>2, <1>3, <1>4, PrefixRefl DEF WalkAt, NoneLess
  <2> QED
    BY <1>1, <1>3, <2>1, <2>2 DEF WalkAt, FindsFirst
<1>5. CASE ~min /\ LexLess(at, target)
  <2>1. walk' = "up" /\ UNCHANGED <<trie, last, inWalk, start, seen>>
    BY <1>5 DEF Leaf
  <2>2. at' = at /\ target' = target /\ min' = min
    BY <2>1 DEF inWalk
  <2>3. AllLess(at, target)
    <3> SUFFICES ASSUME NEW x \in Items, IsPrefix(at, x)
                 PROVE  LexLess(x, target)
      BY DEF AllLess
    <3>1. x = at
      BY <1>1, NodesAre, KeysMaximal
    <3> QED
      BY <1>5, <3>1
  <2>4. WalkAt("up", at, min, target)
    BY <1>1, <2>3 DEF WalkAt
  <2> QED
    BY <1>1, <2>1, <2>2, <2>4 DEF GoesOn
<1> QED
  BY <1>1, <1>4, <1>5

\* Of two children of a branch, the nibbles; the target's child.
LEMMA TargetKid ==
    ASSUME TrieInv, NEW b \in branches, NEW t \in Key, IsPrefix(b, t),
           NEW x \in Path, NEW q \in Path, IsChild(b, q), IsPrefix(q, x)
    PROVE  /\ Last(q) \in Nat /\ t[Len(b) + 1] \in Nat
           /\ Last(q) < t[Len(b) + 1] => LexLess(x, t)
           /\ Last(q) > t[Len(b) + 1] => ~LexLess(x, t)
           /\ Last(q) = t[Len(b) + 1] => IsPrefix(q, t)
<1>1. b \in Path /\ t \in Path /\ b # t
  BY NodesAre, KeyIsPath, InnerIsPath
<1>2. /\ Last(q) \in Nat /\ t[Len(b) + 1] \in Nat
      /\ Last(q) < t[Len(b) + 1] => LeftOf(x, t)
      /\ Last(q) > t[Len(b) + 1] => LeftOf(t, x)
      /\ Last(q) = t[Len(b) + 1] => q = Toward(b, t)
  BY <1>1, BesideKid
<1>3. IsPrefix(Toward(b, t), t)
  BY <1>1, TowardIsChild
<1>4. LeftOf(x, t) => LexLess(x, t)
  BY <1>1, LexLessIs
<1>5. LeftOf(t, x) => ~LexLess(x, t)
  BY <1>1, LexLessIs, LexOrder
<1> QED
  BY <1>2, <1>3, <1>4, <1>5

\* The loop of a branch over leaves, from the target's nibble on.
LEMMA LeafLoop ==
    ASSUME TrieInv, WalkInv, walk = "down", at \in branches, over = "leaves",
           NEW from, from = IF min THEN 0 ELSE target[Len(at) + 1]
    PROVE  LET qs == {q \in Kids(at) : Last(q) >= from} IN
           /\ \A q \in FirstKid(qs) : Enters(q, min \/ Last(q) > from, target)
           /\ qs = {} => AllLess(at, target)
<1> DEFINE qs == {q \in Kids(at) : Last(q) >= from}
<1>1. /\ WalkAt("down", at, min, target) /\ min \in BOOLEAN /\ at \in Path
      /\ target \in Key /\ target \in Path /\ Sought(target)
      /\ \A x \in Items : x \in held /\ x \in Path /\ x \in Node /\ x \in Key /\ x # at
  BY NodesAre, KeyIsPath, InnerIsPath DEF WalkInv, WalkAt, Sought, Items
<1>2. /\ Passed(at, target) /\ Ahead(at, target)
      /\ min => NoneLess(at, target)
      /\ ~min => IsPrefix(at, target)
  BY <1>1 DEF WalkAt
<1>3. ASSUME NEW x \in Items, NEW r \in Kids(at), IsPrefix(r, x)
      PROVE  /\ Last(r) \in Nat /\ from \in Nat
             /\ Last(r) < from => LexLess(x, target)
             /\ min \/ Last(r) > from => ~LexLess(x, target)
             /\ ~(min \/ Last(r) > from) /\ Last(r) >= from => IsPrefix(r, target)
  <2>1. r \in Path /\ IsChild(at, r) /\ Last(r) \in Nat
    BY KidsAre
  <2>2. CASE min
    <3>1. IsPrefix(at, x)
      BY <1>1, <1>3, <2>1, ChildIsLonger, PrefixTrans
    <3>2. from \in Nat /\ ~(Last(r) < from)
      BY <2>1, <2>2
    <3> QED
      BY <1>2, <2>1, <2>2, <3>1, <3>2 DEF NoneLess
  <2>3. CASE ~min
    <3>1. /\ from \in Nat
          /\ Last(r) < from => LexLess(x, target)
          /\ Last(r) > from => ~LexLess(x, target)
          /\ Last(r) = from => IsPrefix(r, target)
      BY <1>1, <1>2, <1>3, <2>1, <2>3, TargetKid
    <3> QED
      BY <2>1, <2>3, <3>1
  <2> QED
    BY <2>2, <2>3
<1>4. ASSUME NEW x \in Items, IsPrefix(at, x)
      PROVE  Toward(at, x) \in Kids(at) /\ IsPrefix(Toward(at, x), x)
  BY <1>1, <1>4, KidsAre
<1>5. ASSUME NEW q \in FirstKid(qs)
      PROVE  Enters(q, min \/ Last(q) > from, target)
  <2>1. q \in Kids(at) /\ Last(q) >= from /\ \A r \in qs : Last(q) <= Last(r)
    BY DEF FirstKid
  <2>2. q \in Path /\ IsChild(at, q) /\ Last(q) \in Nat
    BY <2>1, KidsAre
  <2>3. PICK k \in held : IsPrefix(q, k)
    <3>1. PICK k \in held : IsPrefix(at, k) /\ q = Toward(at, k)
      BY <2>1 DEF Kids, Under
    <3>2. k \in Items
      BY <3>1 DEF Items
    <3> QED
      BY <1>4, <3>1, <3>2
  <2>4. k \in Items
    BY <2>3 DEF Items
  <2>5. from \in Nat
    BY <1>3, <2>1, <2>3, <2>4
  <2>6. Passed(q, target)
    <3> SUFFICES ASSUME NEW x \in Items, LexLess(x, q)
                 PROVE  LexLess(x, target)
      BY DEF Passed
    <3>1. CASE LexLess(x, at)
      BY <1>2, <3>1 DEF Passed
    <3>2. CASE IsPrefix(at, x) /\ Toward(at, x) \in Kids(at) /\ Last(Toward(at, x)) < Last(q)
      <4>1. PICK r : r = Toward(at, x)
        OBVIOUS
      <4>2. r \in Kids(at) /\ Last(r) < Last(q) /\ IsPrefix(r, x) /\ Last(r) \in Nat
        BY <1>4, <3>2, <4>1, KidsAre
      <4>3. ~(Last(q) <= Last(r))
        BY <2>2, <4>2
      <4>4. r \notin qs
        BY <2>1, <4>3
      <4>5. Last(r) < from
        BY <2>5, <4>2, <4>4
      <4> QED
        BY <1>3, <4>2, <4>5
    <3> QED
      BY <1>1, <2>1, <3>1, <3>2, LeftOfKid
  <2>7. Ahead(q, target)
    <3> SUFFICES ASSUME NEW x \in Items, LeftOf(q, x)
                 PROVE  ~LexLess(x, target)
      BY DEF Ahead
    <3>1. CASE LeftOf(at, x)
      BY <1>2, <3>1 DEF Ahead
    <3>2. CASE IsPrefix(at, x) /\ Toward(at, x) \in Kids(at) /\ Last(q) < Last(Toward(at, x))
      <4>1. PICK r : r = Toward(at, x)
        OBVIOUS
      <4>2. r \in Kids(at) /\ Last(q) < Last(r) /\ IsPrefix(r, x) /\ Last(r) \in Nat
        BY <1>4, <3>2, <4>1, KidsAre
      <4>3. Last(r) > from
        BY <2>1, <2>2, <2>5, <4>2
      <4> QED
        BY <1>3, <4>2, <4>3
    <3> QED
      BY <1>1, <2>1, <3>1, <3>2, LeftOfKid
  <2>8. min \/ Last(q) > from => NoneLess(q, target)
    BY <1>3, <2>1 DEF NoneLess
  <2>9. ~(min \/ Last(q) > from) => IsPrefix(q, target)
    BY <1>3, <2>1, <2>3, <2>4
  <2> HIDE DEF qs
  <2> QED
    BY <1>1, <2>2, <2>6, <2>7, <2>8, <2>9 DEF Enters
<1>6. ASSUME qs = {}
      PROVE  AllLess(at, target)
  <2> SUFFICES ASSUME NEW x \in Items, IsPrefix(at, x)
               PROVE  LexLess(x, target)
    BY DEF AllLess
  <2>1. PICK r : r = Toward(at, x)
    OBVIOUS
  <2>2. r \in Kids(at) /\ IsPrefix(r, x)
    BY <1>4, <2>1
  <2>3. Last(r) < from
    BY <1>3, <1>6, <2>2
  <2> QED
    BY <1>3, <2>2, <2>3
<1> QED
  BY <1>5, <1>6

\* The loop of a branch over branches, of all its children.
LEMMA BranchLoop ==
    ASSUME TrieInv, WalkInv, walk = "down", at \in branches, over = "branches",
           LexLess(at, target)
    PROVE  LET qs == {q \in Kids(at) : Last(q) >= 0} IN
           /\ \A q \in FirstKid(qs), m \in BOOLEAN : Enters(q, m, target)
           /\ qs = {} => AllLess(at, target)
<1> DEFINE qs == {q \in Kids(at) : Last(q) >= 0}
<1>1. /\ WalkAt("down", at, min, target) /\ at \in Path /\ Sought(target)
      /\ \A x \in Items : x \in Path /\ x \in Node
      /\ \A q \in Kids(at) : q \in Path /\ Last(q) \in Nat
  BY NodesAre, KidsAre DEF WalkInv, WalkAt
<1>2. Passed(at, target)
  BY <1>1 DEF WalkAt
<1>3. qs = Kids(at)
  BY <1>1
<1>4. ASSUME NEW q \in FirstKid(qs), NEW m \in BOOLEAN
      PROVE  Enters(q, m, target)
  <2>1. q \in Kids(at) /\ \A r \in Kids(at) : Last(q) <= Last(r)
    BY <1>3 DEF FirstKid
  <2>2. Passed(q, target)
    <3> SUFFICES ASSUME NEW x \in Items, LexLess(x, q)
                 PROVE  LexLess(x, target)
      BY DEF Passed
    <3>1. LexLess(x, at) \/ x = at
          \/ (Toward(at, x) \in Kids(at) /\ Last(Toward(at, x)) < Last(q))
      BY <2>1, LeftOfKid
    <3>2. ~(Toward(at, x) \in Kids(at) /\ Last(Toward(at, x)) < Last(q))
      BY <1>1, <2>1
    <3> QED
      BY <1>2, <3>1, <3>2 DEF Passed
  <2> QED
    BY <1>1, <2>1, <2>2 DEF Enters
<1>5. ASSUME qs = {}
      PROVE  AllLess(at, target)
  <2> SUFFICES ASSUME NEW x \in Items, IsPrefix(at, x)
               PROVE  LexLess(x, target)
    BY DEF AllLess
  <2>1. x = at
    BY <1>1, <1>3, <1>5, KidsAre
  <2> QED
    BY <2>1
<1> QED
  BY <1>4, <1>5

LEMMA BranchSteps ==
    ASSUME TrieInv, WalkInv, Branch
    PROVE  GoesOn \/ FindsFirst
<1> DEFINE from == IF over = "branches" \/ min THEN 0 ELSE target[Len(at) + 1]
<1> DEFINE qs   == {q \in Kids(at) : Last(q) >= from}
<1>1. /\ walk = "down" /\ at \in branches /\ WalkAt("down", at, min, target)
      /\ min \in BOOLEAN /\ over \in {"leaves", "branches"} /\ at \in Path
      /\ target \in Path /\ target # <<>>
  BY NodesAre DEF Branch, WalkInv, TrieInv, WalkAt, Sought
<1>2. CASE over = "branches" /\ ~LexLess(at, target)
  <2>1. Found(at)
    BY <1>2 DEF Branch
  <2>2. at # <<>>
    <3>1. LexLess(<<>>, target)
      BY <1>1, RootIsPath, RootFirst, LexLessIs
    <3> QED
      BY <1>2, <3>1
  <2>3. at \in Items
    BY <1>1, <1>2, <2>2 DEF Items
  <2> QED
    BY <1>1, <1>2, <2>1, <2>3 DEF FindsFirst, WalkAt
<1>3. CASE over = "branches" => LexLess(at, target)
  <2>1. /\ \/ \E q \in FirstKid(qs) : Enter(q, min \/ Last(q) > from, target)
           \/ qs = {} /\ walk' = "up" /\ UNCHANGED inWalk
        /\ UNCHANGED <<trie, last, start, seen>>
    BY <1>3 DEF Branch
  <2>2. /\ \A q \in FirstKid(qs) : Enters(q, min \/ Last(q) > from, target)
        /\ qs = {} => AllLess(at, target)
    <3>1. CASE over = "leaves"
      <4>1. PICK f : f = IF min THEN 0 ELSE target[Len(at) + 1]
        OBVIOUS
      <4>2. LET ks == {q \in Kids(at) : Last(q) >= f} IN
            /\ \A q \in FirstKid(ks) : Enters(q, min \/ Last(q) > f, target)
            /\ ks = {} => AllLess(at, target)
        BY <1>1, <3>1, <4>1, LeafLoop
      <4>3. f = from
        BY <3>1, <4>1
      <4> QED
        BY <4>2, <4>3
    <3>2. CASE over = "branches"
      <4>1. /\ \A q \in FirstKid(qs), m \in BOOLEAN : Enters(q, m, target)
            /\ qs = {} => AllLess(at, target)
        BY <1>1, <1>3, <3>2, BranchLoop
      <4> HIDE DEF qs, from
      <4>2. \A q \in FirstKid(qs) : (min \/ Last(q) > from) \in BOOLEAN
        OBVIOUS
      <4> QED
        BY <4>1, <4>2
    <3> QED
      BY <1>1, <3>1, <3>2
  <2> HIDE DEF qs, from
  <2>3. CASE \E q \in FirstKid(qs) : Enter(q, min \/ Last(q) > from, target)
    <3>1. PICK q \in FirstKid(qs) : Enter(q, min \/ Last(q) > from, target)
      BY <2>3
    <3>2. PICK m \in BOOLEAN : m = (min \/ Last(q) > from)
      OBVIOUS
    <3>3. Enters(q, m, target) /\ Enter(q, m, target)
      BY <2>2, <3>1, <3>2
    <3>4. /\ walk' \in {"down", "up"} /\ min' \in BOOLEAN /\ target' = target
          /\ WalkAt(walk', at', min', target)
      BY <3>3, Entered
    <3> QED
      BY <2>1, <3>4 DEF GoesOn
  <2>4. CASE qs = {} /\ walk' = "up" /\ UNCHANGED inWalk
    <3>1. at' = at /\ target' = target /\ min' = min
      BY <2>4 DEF inWalk
    <3>2. WalkAt("up", at, min, target)
      BY <1>1, <2>2, <2>4 DEF WalkAt
    <3> QED
      BY <1>1, <2>1, <2>4, <3>1, <3>2 DEF GoesOn
  <2> QED
    BY <2>1, <2>3, <2>4
<1> QED
  BY <1>2, <1>3

\* An entry below the branch above a node: below the node, or on its left or right.
LEMMA BesideNode ==
    ASSUME TrieInv, NEW n \in Node, NEW b \in branches, IsParent(b, n),
           NEW x \in Items, IsPrefix(b, x), x # b
    PROVE  /\ Toward(b, x) \in Kids(b)
           /\ Last(Toward(b, x)) \in Nat /\ n[Len(b) + 1] \in Nat
           /\ Last(Toward(b, x)) < n[Len(b) + 1] => LeftOf(x, n)
           /\ Last(Toward(b, x)) > n[Len(b) + 1] => LeftOf(n, x)
           /\ Last(Toward(b, x)) = n[Len(b) + 1] => IsPrefix(n, x)
<1>1. /\ n \in Path /\ b \in Path /\ x \in Node /\ x \in Path
      /\ IsPrefix(b, n) /\ b # n
      /\ \A c \in branches : IsPrefix(c, n) /\ c # n => IsPrefix(c, b)
  BY NodesAre DEF IsParent, IsStrictPrefix
<1>2. PICK r : r = Toward(b, x)
  OBVIOUS
<1>3. r \in Kids(b) /\ r \in Path /\ IsChild(b, r) /\ IsPrefix(r, x)
  BY <1>1, <1>2, KidsAre
<1>4. /\ Last(r) \in Nat /\ n[Len(b) + 1] \in Nat
      /\ Last(r) < n[Len(b) + 1] => LeftOf(x, n)
      /\ Last(r) > n[Len(b) + 1] => LeftOf(n, x)
      /\ Last(r) = n[Len(b) + 1] => r = Toward(b, n)
  BY <1>1, <1>3, BesideKid
<1>5. ASSUME r = Toward(b, n)
      PROVE  IsPrefix(n, x)
  <2>1. IsPrefix(r, n) /\ ~IsPrefix(r, b)
    BY <1>1, <1>3, <1>5, TowardIsChild, ChildIsLonger
  <2>2. ASSUME NEW c \in branches, IsPrefix(r, c), IsPrefix(c, n)
        PROVE  c = n
    <3>1. ~IsPrefix(c, b)
      BY <1>1, <1>3, <2>1, <2>2, NodesAre, PrefixTrans
    <3> QED
      BY <1>1, <2>2, <3>1
  <2> QED
    BY <1>1, <1>3, <2>1, <2>2, NothingBetween
<1> QED
  BY <1>2, <1>3, <1>4, <1>5

\* The loop of the branch above goes on past the child that had nothing.
LEMMA LoopGoesOn ==
    ASSUME TrieInv, WalkInv, walk = "up", NEW b \in branches, IsParent(b, at)
    PROVE  /\ \A q \in FirstKid(LaterKids(b, at)) : Enters(q, TRUE, target)
           /\ LaterKids(b, at) = {} => WalkAt("up", b, min, target)
<1>1. /\ WalkAt("up", at, min, target) /\ at \in Node /\ at \in Path /\ b \in Path
      /\ b \in Node /\ IsPrefix(b, at) /\ b # at /\ Sought(target) /\ target \in Path
      /\ \A x \in Items : x \in Path /\ x \in Node
  BY NodesAre DEF WalkInv, WalkAt, IsParent, IsStrictPrefix, Sought, Node
<1>2. /\ Passed(at, target) /\ AllLess(at, target)
      /\ over = "leaves" => Ahead(at, target)
  BY <1>1 DEF WalkAt
<1>3. LexLess(b, at)
  BY <1>1, LexLessIs
<1>4. ASSUME NEW x \in Items, LexLess(x, b) \/ x = b
      PROVE  LexLess(x, target)
  <2>1. LexLess(x, at)
    BY <1>1, <1>3, <1>4, LexTrans
  <2> QED
    BY <1>2, <2>1 DEF Passed
<1>5. ASSUME NEW x \in Items, IsPrefix(b, x), x # b
      PROVE  /\ Toward(b, x) \in Kids(b) /\ Last(Toward(b, x)) \in Nat
             /\ Toward(b, x) \notin LaterKids(b, at) => LexLess(x, target)
             /\ over = "leaves" /\ Last(Toward(b, x)) > at[Len(b) + 1] => ~LexLess(x, target)
  <2>1. PICK r : r = Toward(b, x)
    OBVIOUS
  <2>2. /\ r \in Kids(b) /\ Last(r) \in Nat /\ at[Len(b) + 1] \in Nat
        /\ Last(r) < at[Len(b) + 1] => LeftOf(x, at)
        /\ Last(r) > at[Len(b) + 1] => LeftOf(at, x)
        /\ Last(r) = at[Len(b) + 1] => IsPrefix(at, x)
    BY <1>1, <1>5, <2>1, BesideNode
  <2>3. r \notin LaterKids(b, at) => Last(r) < at[Len(b) + 1] \/ Last(r) = at[Len(b) + 1]
    BY <2>2 DEF LaterKids
  <2>4. LeftOf(x, at) => LexLess(x, target)
    BY <1>1, <1>2, LexLessIs DEF Passed
  <2>5. IsPrefix(at, x) => LexLess(x, target)
    BY <1>2 DEF AllLess
  <2>6. over = "leaves" /\ LeftOf(at, x) => ~LexLess(x, target)
    BY <1>2 DEF Ahead
  <2> QED
    BY <2>1, <2>2, <2>3, <2>4, <2>5, <2>6
<1>6. ASSUME NEW x \in Items, LeftOf(b, x), over = "leaves"
      PROVE  ~LexLess(x, target)
  <2>1. LeftOf(at, x)
    BY <1>1, <1>6, PrefixRefl, LeftBelow
  <2> QED
    BY <1>2, <1>6, <2>1 DEF Ahead
<1>7. ASSUME NEW q \in FirstKid(LaterKids(b, at))
      PROVE  Enters(q, TRUE, target)
  <2>1. /\ q \in Kids(b) /\ Last(q) > at[Len(b) + 1]
        /\ \A r \in LaterKids(b, at) : Last(q) <= Last(r)
    BY DEF FirstKid, LaterKids
  <2>2. q \in Path /\ IsChild(b, q) /\ Last(q) \in Nat
    BY <2>1, KidsAre
  <2>3. Passed(q, target)
    <3> SUFFICES ASSUME NEW x \in Items, LexLess(x, q)
                 PROVE  LexLess(x, target)
      BY DEF Passed
    <3>1. \/ LexLess(x, b) \/ x = b
          \/ /\ IsPrefix(b, x) /\ x # b
             /\ Toward(b, x) \in Kids(b) /\ Last(Toward(b, x)) < Last(q)
      BY <2>1, LeftOfKid
    <3>2. ASSUME IsPrefix(b, x), x # b, Last(Toward(b, x)) < Last(q)
          PROVE  LexLess(x, target)
      <4>1. PICK r : r = Toward(b, x)
        OBVIOUS
      <4>2. Last(r) \in Nat /\ (r \notin LaterKids(b, at) => LexLess(x, target))
        BY <1>5, <3>2, <4>1
      <4>3. ~(Last(q) <= Last(r))
        BY <2>2, <3>2, <4>1, <4>2
      <4> QED
        BY <2>1, <4>2, <4>3
    <3> QED
      BY <1>4, <3>1, <3>2
  <2>4. ASSUME over = "leaves"
        PROVE  Ahead(q, target)
    <3> SUFFICES ASSUME NEW x \in Items, LeftOf(q, x)
                 PROVE  ~LexLess(x, target)
      BY DEF Ahead
    <3>1. \/ LeftOf(b, x)
          \/ /\ IsPrefix(b, x) /\ x # b
             /\ Toward(b, x) \in Kids(b) /\ Last(q) < Last(Toward(b, x))
      BY <2>1, LeftOfKid
    <3>2. ASSUME IsPrefix(b, x), x # b, Last(q) < Last(Toward(b, x))
          PROVE  ~LexLess(x, target)
      <4>1. PICK r : r = Toward(b, x)
        OBVIOUS
      <4>2. Last(r) \in Nat /\ (Last(r) > at[Len(b) + 1] => ~LexLess(x, target))
        BY <1>5, <2>4, <3>2, <4>1
      <4>3. at[Len(b) + 1] \in Nat
        BY <1>1, <3>2, BesideNode
      <4>4. Last(r) > at[Len(b) + 1]
        BY <2>1, <2>2, <3>2, <4>1, <4>2, <4>3
      <4> QED
        BY <4>2, <4>4
    <3> QED
      BY <1>6, <2>4, <3>1, <3>2
  <2>5. ASSUME over = "leaves"
        PROVE  NoneLess(q, target)
    <3> SUFFICES ASSUME NEW x \in Items, IsPrefix(q, x)
                 PROVE  ~LexLess(x, target)
      BY DEF NoneLess
    <3>1. x \in Path
      BY <1>1
    <3>2. Last(q) > at[Len(b) + 1] => LeftOf(at, x)
      BY <1>1, <2>2, <3>1, BesideKid
    <3>3. LeftOf(at, x)
      BY <2>1, <3>2
    <3> QED
      BY <1>2, <2>5, <3>3 DEF Ahead
  <2> QED
    BY <1>1, <2>2, <2>3, <2>4, <2>5 DEF Enters
<1>8. ASSUME LaterKids(b, at) = {}
      PROVE  WalkAt("up", b, min, target)
  <2>1. Passed(b, target)
    BY <1>4 DEF Passed
  <2>2. AllLess(b, target)
    <3> SUFFICES ASSUME NEW x \in Items, IsPrefix(b, x)
                 PROVE  LexLess(x, target)
      BY DEF AllLess
    <3> QED
      BY <1>4, <1>5, <1>8
  <2>3. over = "leaves" => Ahead(b, target)
    BY <1>6 DEF Ahead
  <2> QED
    BY <1>1, <2>1, <2>2, <2>3 DEF WalkAt
<1> QED
  BY <1>7, <1>8

LEMMA ReturnSteps ==
    ASSUME TrieInv, WalkInv, Return
    PROVE  GoesOn \/ FindsNone
<1>1. /\ walk = "up" /\ WalkAt("up", at, min, target) /\ min \in BOOLEAN
      /\ at \in Node /\ at \in Path /\ target \in Path
  BY NodesAre DEF Return, WalkInv, WalkAt, Sought
<1>2. ASSUME NEW b \in branches, IsParent(b, at),
             \/ \E q \in FirstKid(LaterKids(b, at)) : Enter(q, TRUE, target)
             \/ LaterKids(b, at) = {} /\ at' = b /\ UNCHANGED <<walk, target, min>>,
             UNCHANGED <<trie, last, start, seen>>
      PROVE  GoesOn
  <2>1. /\ \A q \in FirstKid(LaterKids(b, at)) : Enters(q, TRUE, target)
        /\ LaterKids(b, at) = {} => WalkAt("up", b, min, target)
    BY <1>1, <1>2, LoopGoesOn
  <2>2. CASE \E q \in FirstKid(LaterKids(b, at)) : Enter(q, TRUE, target)
    <3>1. PICK q \in FirstKid(LaterKids(b, at)) : Enter(q, TRUE, target)
      BY <2>2
    <3>2. Enters(q, TRUE, target) /\ TRUE \in BOOLEAN
      BY <2>1, <3>1
    <3>3. /\ walk' \in {"down", "up"} /\ min' \in BOOLEAN /\ target' = target
          /\ WalkAt(walk', at', min', target)
      BY <3>1, <3>2, Entered
    <3> QED
      BY <1>2, <3>3 DEF GoesOn
  <2>3. CASE LaterKids(b, at) = {} /\ at' = b /\ UNCHANGED <<walk, target, min>>
    BY <1>1, <1>2, <2>1, <2>3 DEF GoesOn
  <2> QED
    BY <1>2, <2>2, <2>3
<1>3. ASSUME \A b \in branches : ~IsStrictPrefix(b, at), NotFound
      PROVE  FindsNone
  <2>1. <<>> \in Path /\ IsPrefix(<<>>, at)
    BY <1>1, RootIsPath, RootFirst
  <2>2. \A c \in branches : IsPrefix(<<>>, c) /\ IsPrefix(c, at) => c = at
    BY <1>3 DEF IsStrictPrefix
  <2>3. ASSUME NEW x \in Items
        PROVE  LexLess(x, target)
    <3>1. x \in Node /\ x \in Path /\ IsPrefix(<<>>, x)
      BY NodesAre, RootFirst
    <3>2. IsPrefix(at, x)
      BY <1>1, <2>1, <2>2, <3>1, NothingBetween
    <3> QED
      BY <1>1, <3>2 DEF WalkAt, AllLess
  <2> QED
    BY <1>3, <2>3 DEF FindsNone
<1> QED
  BY <1>2, <1>3 DEF Return

-----------------------------------------------------------------------------
(* What was returned *)

LEMMA SameTrie ==
    ASSUME UNCHANGED trie
    PROVE  /\ held' = held /\ branches' = branches /\ over' = over
           /\ Node' = Node /\ Items' = Items
           /\ TrieInv => TrieInv'
<1>1. held' = held /\ branches' = branches /\ over' = over
  BY DEF trie
<1>2. Node' = Node /\ Items' = Items
  BY <1>1 DEF Node, Items
<1>3. TrieInv => TrieInv'
  BY <1>1 DEF TrieInv
<1> QED
  BY <1>1, <1>2, <1>3

LEMMA SameWalk ==
    ASSUME UNCHANGED trie, walk' \in {"none", "down", "up"}, min' \in BOOLEAN,
           walk' # "none" => WalkAt(walk', at', min', target')
    PROVE  WalkInv'
<1>1. held' = held /\ branches' = branches /\ over' = over /\ Node' = Node /\ Items' = Items
  BY SameTrie
<1>2. /\ Sought(target') => Sought(target)'
      /\ Passed(at', target') => Passed(at, target)'
      /\ AllLess(at', target') => AllLess(at, target)'
      /\ NoneLess(at', target') => NoneLess(at, target)'
      /\ Ahead(at', target') => Ahead(at, target)'
  BY <1>1 DEF Sought, Passed, AllLess, NoneLess, Ahead
<1> QED
  BY <1>1, <1>2 DEF WalkInv, WalkAt

LEMMA SeenWith ==
    ASSUME NEW S, NEW s \in Seq(S), NEW x \in S
    PROVE  /\ Append(s, x) \in Seq(S) /\ Len(Append(s, x)) = Len(s) + 1 /\ Len(s) \in Nat
           /\ \A i \in 1 .. Len(s) : Append(s, x)[i] = s[i]
           /\ Append(s, x)[Len(s) + 1] = x
           /\ ToSet(Append(s, x)) = ToSet(s) \cup {x}
           /\ ToSet(s) \subseteq S
<1>1. /\ Append(s, x) \in Seq(S) /\ Len(Append(s, x)) = Len(s) + 1 /\ Len(s) \in Nat
      /\ \A i \in 1 .. Len(s) : Append(s, x)[i] = s[i]
      /\ Append(s, x)[Len(s) + 1] = x
      /\ \A i \in 1 .. Len(s) : s[i] \in S
  OBVIOUS
<1>2. ToSet(s) = {s[i] : i \in 1 .. Len(s)}
  BY DEF ToSet
<1>3. ToSet(Append(s, x)) = {Append(s, x)[i] : i \in 1 .. Len(s) + 1}
  BY <1>1 DEF ToSet
<1>4. 1 .. Len(s) + 1 = (1 .. Len(s)) \cup {Len(s) + 1}
  BY <1>1
<1>5. ToSet(Append(s, x)) = {Append(s, x)[i] : i \in 1 .. Len(s)} \cup {x}
  BY <1>1, <1>3, <1>4
<1>6. {Append(s, x)[i] : i \in 1 .. Len(s)} = {s[i] : i \in 1 .. Len(s)}
  BY <1>1
<1> QED
  BY <1>1, <1>2, <1>5, <1>6

\* What comes next after an entry.
LEMMA AfterIs ==
    ASSUME TrieInv, NEW l \in Items
    PROVE  /\ After(l) = <<>> => \A x \in Items : ~LexLess(l, x)
           /\ After(l) # <<>> =>
                 /\ Sought(After(l))
                 /\ \A x \in Items : LexLess(x, After(l)) <=> ~LexLess(l, x)
<1>1. CASE over = "leaves"
  <2>1. After(l) = key_successor(l) /\ Items = held
    BY <1>1 DEF After, Items
  <2>2. l \in Key /\ \A x \in Items : x \in Key
    BY <2>1, NodesAre
  <2>3. \A x \in Items :
           /\ key_successor(l) = <<>> => ~LexLess(l, x)
           /\ key_successor(l) # <<>> =>
                 /\ key_successor(l) \in Key
                 /\ LexLess(x, key_successor(l)) <=> ~LexLess(l, x)
    BY <2>2, SuccessorIsNext
  <2>4. key_successor(l) # <<>> => key_successor(l) \in Key /\ key_successor(l) \in Path
    BY <2>3, KeyIsPath
  <2> QED
    BY <2>1, <2>3, <2>4 DEF Sought
<1>2. CASE over = "branches"
  <2>1. After(l) = Append(l, 0)
    BY <1>2 DEF After
  <2>2. l \in Inner /\ \A x \in Items : x \in Path
    BY <1>2, NodesAre DEF Items
  <2>3. \A x \in Items :
           /\ Append(l, 0) \in Path /\ Append(l, 0) # <<>>
           /\ LexLess(x, Append(l, 0)) <=> ~LexLess(l, x)
    BY <2>2, FirstBelow
  <2> QED
    BY <1>2, <2>1, <2>3 DEF Sought
<1> QED
  BY <1>1, <1>2 DEF TrieInv

-----------------------------------------------------------------------------
(* The steps *)

LEMMA InitInv == Init => Inv
<1> SUFFICES ASSUME Init
             PROVE  Inv
  OBVIOUS
<1>1. PICK ks \in SUBSET Keys :
        /\ held = ks
        /\ branches \in {BranchPoints(ks)}
                        \cup (IF ks = {} THEN {} ELSE {BranchPoints(ks) \cup {<<>>}})
  BY DEF Init
<1>2. ks \in SUBSET Key /\ \A k \in ks : k \in Path
  BY CursorAssumption, KeyIsPath
<1>3. \A b \in BranchPoints(ks) : b \in Inner /\ \E k \in ks : IsPrefix(b, k)
  BY <1>2, BranchIsInner
<1>4. /\ BranchPoints(ks) \subseteq branches
      /\ \A b \in branches : b \in BranchPoints(ks) \/ (b = <<>> /\ ks # {})
  BY <1>1
<1>5. \A b \in branches : b \in Inner /\ \E k \in ks : IsPrefix(b, k)
  BY <1>2, <1>3, <1>4, RootIsInner, RootFirst
<1>6. TrieInv
  BY <1>1, <1>2, <1>4, <1>5 DEF TrieInv, Init
<1>7. WalkInv
  BY DEF WalkInv, Init
<1>8. <<>> \in Seq(Items) /\ Len(<<>>) = 0
  BY EmptySeq
<1>9. SeenInv
  BY <1>8, RootIsPath DEF SeenInv, InOrder, VisitsAll, Init
<1> QED
  BY <1>6, <1>7, <1>9 DEF Inv

LEMMA GoesOnInv ==
    ASSUME Inv, walk # "none", GoesOn
    PROVE  Inv'
<1>1. /\ UNCHANGED trie /\ last' = last /\ start' = start /\ seen' = seen
      /\ target' = target /\ walk' # "none"
      /\ held' = held /\ over' = over /\ Items' = Items /\ TrieInv'
  BY SameTrie DEF GoesOn, Inv
<1>2. WalkInv'
  BY <1>1, SameWalk DEF GoesOn
<1>3. SeenInv'
  BY <1>1 DEF Inv, SeenInv, InOrder, VisitsAll
<1> QED
  BY <1>1, <1>2, <1>3 DEF Inv

LEMMA FindsFirstInv ==
    ASSUME Inv, walk # "none", FindsFirst
    PROVE  Inv'
<1>1. PICK x \in Items : Found(x) /\ ~LexLess(x, target) /\ Passed(x, target)
  BY DEF FindsFirst
<1>2. /\ UNCHANGED trie /\ last' = x /\ start' = start /\ seen' = Append(seen, x)
      /\ walk' = "none" /\ min' = FALSE
      /\ held' = held /\ over' = over /\ Items' = Items /\ TrieInv'
  BY <1>1, SameTrie DEF Found, Returned, Inv
<1>3. WalkInv'
  BY <1>2, SameWalk
<1>4. /\ TrieInv /\ Sought(target) /\ target \in Path
      /\ seen \in Seq(Items) /\ InOrder /\ start \in Path /\ start # <<>>
      /\ ToSet(seen) = {y \in Items : ~LexLess(y, start) /\ LexLess(y, target)}
      /\ ~LexLess(target, start)
      /\ over = "leaves" => start = <<>> \/ start \in Key
  BY DEF Inv, WalkInv, WalkAt, SeenInv, Sought
<1>5. x \in Path /\ x # <<>> /\ \A y \in Items : y \in Path
  BY <1>4, NodesAre
<1>6. \A y \in Items : LexLess(y, target) => LexLess(y, x)
  BY <1>1, <1>4, <1>5, LexOrder, LexTrans
<1>7. ~LexLess(x, start)
  BY <1>1, <1>4, <1>5, LexOrder, LexTrans
<1>8. /\ seen' \in Seq(Items) /\ Len(seen') = Len(seen) + 1 /\ Len(seen) \in Nat
      /\ \A i \in 1 .. Len(seen) : seen'[i] = seen[i]
      /\ seen'[Len(seen) + 1] = x
      /\ ToSet(seen') = ToSet(seen) \cup {x}
  BY <1>2, <1>4, SeenWith
<1>9. InOrder'
  <2> SUFFICES ASSUME NEW j \in 1 .. Len(seen'), NEW i \in 1 .. j - 1
               PROVE  LexLess(seen'[i], seen'[j])
    BY DEF InOrder
  <2>1. CASE j \in 1 .. Len(seen)
    <3>1. i \in 1 .. Len(seen)
      BY <1>8, <2>1
    <3> QED
      BY <1>4, <1>8, <2>1, <3>1 DEF InOrder
  <2>2. CASE j = Len(seen) + 1
    <3>1. i \in 1 .. Len(seen)
      BY <1>8, <2>2
    <3>2. seen[i] \in ToSet(seen)
      BY <3>1 DEF ToSet
    <3> QED
      BY <1>4, <1>6, <1>8, <2>2, <3>1, <3>2
  <2> QED
    BY <1>8, <2>1, <2>2
<1>10. ToSet(seen') = {y \in Items : ~LexLess(y, start) /\ ~LexLess(x, y)}
  <2>1. ASSUME NEW y \in Items
        PROVE  LexLess(y, target) \/ y = x <=> ~LexLess(x, y)
    BY <1>1, <1>5, <1>6, LexOrder DEF Passed
  <2> QED
    BY <1>1, <1>4, <1>7, <1>8, <2>1
<1>11. SeenInv'
  BY <1>1, <1>2, <1>4, <1>5, <1>7, <1>8, <1>9, <1>10 DEF SeenInv, VisitsAll
<1> QED
  BY <1>2, <1>3, <1>11 DEF Inv

LEMMA FindsNoneInv ==
    ASSUME Inv, walk # "none", FindsNone
    PROVE  Inv'
<1>1. /\ UNCHANGED trie /\ last' = <<>> /\ start' = start /\ seen' = seen
      /\ walk' = "none" /\ min' = FALSE
      /\ held' = held /\ over' = over /\ Items' = Items /\ TrieInv'
  BY SameTrie DEF FindsNone, NotFound, Returned, Inv
<1>2. WalkInv'
  BY <1>1, SameWalk
<1>3. ToSet(seen) = {y \in Items : ~LexLess(y, start)}
  BY DEF FindsNone, Inv, SeenInv
<1>4. SeenInv'
  BY <1>1, <1>3 DEF Inv, SeenInv, InOrder, VisitsAll
<1> QED
  BY <1>1, <1>2, <1>4 DEF Inv

\* A seek or a call of next goes into the root, or finds the trie empty.
LEMMA Begins ==
    ASSUME TrieInv, NEW t, Sought(t), held # {}, Enter(<<>>, FALSE, t), UNCHANGED trie
    PROVE  WalkInv' /\ walk' # "none" /\ target' = t
<1>1. Enters(<<>>, FALSE, t) /\ FALSE \in BOOLEAN
  BY RootEntered
<1>2. /\ walk' \in {"down", "up"} /\ min' \in BOOLEAN /\ target' = t
      /\ WalkAt(walk', at', min', t)
  BY <1>1, Entered
<1>3. WalkInv'
  BY <1>2, SameWalk
<1> QED
  BY <1>2, <1>3

LEMMA EmptyTrie ==
    ASSUME TrieInv, held = {}
    PROVE  Items = {}
BY DEF TrieInv, Items

LEMMA SeekInv ==
    ASSUME Inv, NEW s \in Path, Seek(s)
    PROVE  Inv'
<1>1. PICK t : t = PastRoot(s)
  OBVIOUS
<1>2. /\ Begin(t) /\ start' = t /\ seen' = <<>> /\ UNCHANGED trie /\ walk = "none"
      /\ s \in IF over = "leaves" THEN Key ELSE Path
      /\ held' = held /\ over' = over /\ Items' = Items /\ TrieInv' /\ TrieInv
      /\ last \in Items \cup {<<>>}
  BY <1>1, SameTrie DEF Seek, Inv, SeenInv
<1>3. Sought(t)
  <2>1. CASE s = <<>>
    <3>1. PICK z : z = <<0>>
      OBVIOUS
    <3>2. z \in Seq(Nibble) /\ Len(z) <= KeyLen /\ z # <<>>
      BY <3>1, PathsAssumption DEF Nibble
    <3>3. z \in Path
      BY <3>2, SeqIsPath
    <3>4. t = z
      BY <1>1, <2>1, <3>1 DEF PastRoot
    <3>5. over # "leaves"
      BY <1>2, <2>1, RootIsInner, InnerIsPath
    <3> QED
      BY <3>2, <3>3, <3>4, <3>5 DEF Sought
  <2>2. CASE s # <<>>
    BY <1>1, <1>2, <2>2 DEF PastRoot, Sought
  <2> QED
    BY <2>1, <2>2
<1>4. t \in Path /\ t # <<>> /\ (over = "leaves" => t \in Key)
  BY <1>3 DEF Sought
<1>5. seen' \in Seq(Items) /\ Len(seen') = 0 /\ ToSet(seen') = {} /\ InOrder'
  <2>1. <<>> \in Seq(Items) /\ Len(<<>>) = 0
    BY EmptySeq
  <2>2. ToSet(<<>>) = {}
    BY DEF ToSet
  <2> QED
    BY <1>2, <2>1, <2>2 DEF InOrder
<1>6. CASE held = {}
  <2>1. last' = <<>> /\ walk' = "none" /\ min' = min /\ Items = {}
    BY <1>2, <1>6, EmptyTrie DEF Begin, inWalk
  <2>2. WalkInv'
    BY <1>2, <2>1, SameWalk DEF Inv, WalkInv
  <2>3. SeenInv'
    BY <1>2, <1>4, <1>5, <2>1 DEF SeenInv, VisitsAll
  <2> QED
    BY <1>2, <2>2, <2>3 DEF Inv
<1>7. CASE held # {}
  <2>1. Enter(<<>>, FALSE, t) /\ last' = last
    BY <1>2, <1>7 DEF Begin
  <2>2. WalkInv' /\ walk' # "none" /\ target' = t
    BY <1>2, <1>3, <1>7, <2>1, Begins
  <2>3. \A x \in Items : ~(~LexLess(x, t) /\ LexLess(x, t))
    OBVIOUS
  <2>4. ~LexLess(t, t)
    BY <1>4, LexOrder
  <2>5. SeenInv'
    BY <1>2, <1>4, <1>5, <2>1, <2>2, <2>3, <2>4 DEF SeenInv, VisitsAll
  <2> QED
    BY <1>2, <2>2, <2>5 DEF Inv
<1> QED
  BY <1>6, <1>7

LEMMA NextEntryInv ==
    ASSUME Inv, NextEntry
    PROVE  Inv'
<1>1. PICK t : t = After(last)
  OBVIOUS
<1>2. /\ start' = start /\ seen' = seen /\ UNCHANGED trie /\ walk = "none" /\ last # <<>>
      /\ held' = held /\ over' = over /\ Items' = Items /\ TrieInv' /\ TrieInv
      /\ last \in Items /\ start \in Path /\ start # <<>> /\ ~LexLess(last, start)
      /\ seen \in Seq(Items) /\ InOrder
      /\ ToSet(seen) = {x \in Items : ~LexLess(x, start) /\ ~LexLess(last, x)}
  BY SameTrie DEF NextEntry, Inv, SeenInv, VisitsAll
<1>3. /\ t = <<>> => \A x \in Items : ~LexLess(last, x)
      /\ t # <<>> =>
            /\ Sought(t)
            /\ \A x \in Items : LexLess(x, t) <=> ~LexLess(last, x)
  BY <1>1, <1>2, AfterIs
<1>4. CASE t = <<>> /\ last' = <<>> /\ UNCHANGED <<walk, inWalk>>
  <2>1. ToSet(seen) = {x \in Items : ~LexLess(x, start)}
    BY <1>2, <1>3, <1>4
  <2>2. walk' = "none" /\ min' = min
    BY <1>2, <1>4 DEF inWalk
  <2>3. WalkInv'
    BY <1>2, <2>2, SameWalk DEF Inv, WalkInv
  <2>4. SeenInv'
    BY <1>2, <1>4, <2>1, <2>2 DEF Inv, SeenInv, InOrder, VisitsAll
  <2> QED
    BY <1>2, <2>3, <2>4 DEF Inv
<1>5. CASE t # <<>> /\ Begin(t)
  <2>1. held # {}
    BY <1>2, EmptyTrie
  <2>2. Enter(<<>>, FALSE, t) /\ last' = last
    BY <1>5, <2>1 DEF Begin
  <2>3. WalkInv' /\ walk' # "none" /\ target' = t
    BY <1>2, <1>3, <1>5, <2>1, <2>2, Begins
  <2>4. ~LexLess(t, start)
    <3>1. last \in Path /\ t \in Path
      BY <1>2, <1>3, <1>5, NodesAre DEF Sought
    <3>2. LexLess(last, t)
      BY <1>2, <1>3, <1>5, <3>1, LexOrder
    <3> QED
      BY <1>2, <3>1, <3>2, LexTrans
  <2>5. ToSet(seen) = {x \in Items : ~LexLess(x, start) /\ LexLess(x, t)}
    BY <1>2, <1>3, <1>5
  <2>6. SeenInv'
    BY <1>2, <2>2, <2>3, <2>4, <2>5 DEF Inv, SeenInv, InOrder, VisitsAll
  <2> QED
    BY <1>2, <2>3, <2>6 DEF Inv
<1>6. \/ t = <<>> /\ last' = <<>> /\ UNCHANGED <<walk, inWalk>>
      \/ t # <<>> /\ Begin(t)
  BY <1>1 DEF NextEntry
<1> QED
  BY <1>4, <1>5, <1>6

LEMMA NextInv == Inv /\ [Next]_vars => Inv'
<1> SUFFICES ASSUME Inv, [Next]_vars
             PROVE  Inv'
  OBVIOUS
<1>1. TrieInv /\ WalkInv
  BY DEF Inv
<1>2. ASSUME NEW s \in Path, Seek(s)
      PROVE  Inv'
  BY <1>2, SeekInv
<1>3. CASE NextEntry
  BY <1>3, NextEntryInv
<1>4. CASE Leaf
  <2>1. walk # "none"
    BY <1>4 DEF Leaf
  <2>2. GoesOn \/ FindsFirst
    BY <1>1, <1>4, LeafSteps
  <2> QED
    BY <2>1, <2>2, GoesOnInv, FindsFirstInv
<1>5. CASE Branch
  <2>1. walk # "none"
    BY <1>5 DEF Branch
  <2>2. GoesOn \/ FindsFirst
    BY <1>1, <1>5, BranchSteps
  <2> QED
    BY <2>1, <2>2, GoesOnInv, FindsFirstInv
<1>6. CASE Return
  <2>1. walk # "none"
    BY <1>6 DEF Return
  <2>2. GoesOn \/ FindsNone
    BY <1>1, <1>6, ReturnSteps
  <2> QED
    BY <2>1, <2>2, GoesOnInv, FindsNoneInv
<1>7. CASE UNCHANGED vars
  <2>1. /\ UNCHANGED trie /\ last' = last /\ walk' = walk /\ at' = at /\ target' = target
        /\ min' = min /\ start' = start /\ seen' = seen
    BY <1>7 DEF vars, inWalk
  <2>2. held' = held /\ over' = over /\ Items' = Items /\ TrieInv'
    BY <1>1, <2>1, SameTrie
  <2>3. WalkInv'
    BY <1>1, <2>1, SameWalk DEF WalkInv
  <2>4. SeenInv'
    BY <2>1, <2>2 DEF Inv, SeenInv, InOrder, VisitsAll
  <2> QED
    BY <2>2, <2>3, <2>4 DEF Inv
<1> QED
  BY <1>2, <1>3, <1>4, <1>5, <1>6, <1>7 DEF Next, Walk

-----------------------------------------------------------------------------
(* The theorems *)

\* Of a walk under way, every entry it has left behind is before what is sought:
\* the recursion of node_seek and its like forgets nothing when it turns back.
THEOREM CursorWalks == Spec => []Inv
<1>1. Init => Inv
  BY InitInv
<1>2. Inv /\ [Next]_vars => Inv'
  BY NextInv
<1> QED
  BY <1>1, <1>2, PTL DEF Spec

\* A walk is at a node, over branches it goes down to branches, and what is
\* returned is an entry and never the root.
THEOREM CursorTyped == Spec => []TypeOK
<1>1. Inv => TypeOK
  BY DEF Inv, TrieInv, WalkInv, WalkAt, SeenInv, TypeOK
<1> QED
  BY <1>1, CursorWalks, PTL

\* A seek and the calls of next after it return every entry from what was sought.
THEOREM CursorVisitsAll == Spec => []VisitsAll
<1>1. Inv => VisitsAll
  BY DEF Inv, SeenInv
<1> QED
  BY <1>1, CursorWalks, PTL

\* They return them in order, and none twice.
THEOREM CursorInOrder == Spec => []InOrder
<1>1. Inv => InOrder
  BY DEF Inv, SeenInv
<1> QED
  BY <1>1, CursorWalks, PTL
=============================================================================
