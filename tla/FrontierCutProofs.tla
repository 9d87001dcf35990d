-------------------------- MODULE FrontierCutProofs --------------------------
(***************************************************************************)
(* Proofs about FrontierCut, for any keys, values and number of nibbles.   *)
(***************************************************************************)
EXTENDS FrontierCut, PathTheorems

-----------------------------------------------------------------------------
(* A cut of the trie of the keys W: branches B, and below them the slots S *)

Reaches(S, W)   == \A k \in W : \E p \in S : IsPrefix(p, k)
Inhabited(S, W) == \A p \in S : \E k \in W : IsPrefix(p, k)
Hung(B, S)      == \A p \in S : \E b \in B : IsChild(b, p)
Lowest(B, S)    == \A p \in S, b \in B : ~IsPrefix(p, b)
Genuine(B, W)   == \A b \in B : b = <<>> \/ b \in BranchPoints(W)
Complete(B, S, W) == \A c \in BranchPoints(W) : c \in B \/ \E p \in S : IsPrefix(p, c)

\* A cut, but for the branch m, which may have lost its children.
IsCutBut(m, B, S, W) ==
    /\ B \in SUBSET Inner /\ S \in SUBSET Path /\ W \in SUBSET Key
    /\ Reaches(S, W) /\ Inhabited(S, W) /\ Hung(B, S) /\ Lowest(B, S)
    /\ Genuine(B \ {m}, W) /\ Complete(B, S, W)
IsCut(B, S, W) == IsCutBut(<<>>, B, S, W)

LEMMA CutParts ==
    ASSUME NEW B, NEW S, NEW W
    PROVE  IsCut(B, S, W) <=>
             /\ B \in SUBSET Inner /\ S \in SUBSET Path /\ W \in SUBSET Key
             /\ Reaches(S, W) /\ Inhabited(S, W) /\ Hung(B, S) /\ Lowest(B, S)
             /\ Genuine(B, W) /\ Complete(B, S, W)
BY DEF IsCut, IsCutBut, Genuine

LEMMA CutSets ==
    ASSUME NEW m, NEW B, NEW S, NEW W, IsCutBut(m, B, S, W)
    PROVE  /\ B \in SUBSET Inner /\ B \in SUBSET Path /\ S \in SUBSET Path
           /\ W \in SUBSET Key /\ W \in SUBSET Path
BY InnerIsPath, KeyIsPath DEF IsCutBut

\* No slot is below another.
LEMMA SlotsApart ==
    ASSUME NEW B \in SUBSET Path, NEW S \in SUBSET Path, Hung(B, S), Lowest(B, S),
           NEW p \in S, NEW q \in S, NEW k \in Path, IsPrefix(p, k), IsPrefix(q, k)
    PROVE  p = q
<1>1. ASSUME NEW x \in S, NEW y \in S, IsPrefix(x, y)
      PROVE  x = y
  <2>1. PICK b \in B : IsChild(b, y)
    BY DEF Hung
  <2>2. ~IsPrefix(x, b)
    BY DEF Lowest
  <2> QED
    BY <1>1, <2>1, <2>2, ChildIsLonger
<1> QED
  BY <1>1, PrefixChain

\* Branches of the trie above a branch of the cut are in the cut.
LEMMA CutIsTop ==
    ASSUME NEW m, NEW B, NEW S, NEW W, IsCutBut(m, B, S, W),
           NEW b \in B, NEW c \in BranchPoints(W), IsPrefix(c, b)
    PROVE  c \in B
<1>1. b \in Path /\ c \in Path
  BY CutSets, BranchIsInner, InnerIsPath
<1>2. ASSUME NEW p \in S, IsPrefix(p, c)
      PROVE  FALSE
  <2>1. p \in Path
    BY CutSets
  <2>2. IsPrefix(p, b)
    BY <1>1, <1>2, <2>1, PrefixTrans
  <2> QED
    BY <2>2 DEF IsCutBut, Lowest
<1> QED
  BY <1>2 DEF IsCutBut, Complete

\* A walk for k leaves the branches above the slot on its way, if there is one.
LEMMA WalkFinds ==
    ASSUME NEW B, NEW S, NEW W, IsCut(B, S, W), NEW k \in Key,
           NEW p \in S, IsPrefix(p, k), NEW b \in B, IsChild(b, p)
    PROVE  /\ IsPrefix(b, k) /\ b = Meet(b, k) /\ p = Toward(b, k)
           /\ \A c \in B : IsPrefix(Meet(c, k), b)
<1>1. b \in Path /\ p \in Path /\ k \in Path
  BY CutSets, KeyIsPath DEF IsCut
<1>2. IsPrefix(b, k) /\ p = Toward(b, k)
  BY <1>1, ChildIsLonger, ChildIsToward, PrefixTrans
<1>3. b = Meet(b, k)
  <2>1. Meet(b, k) \in Path /\ IsPrefix(Meet(b, k), b) /\ IsPrefix(b, Meet(b, k))
    BY <1>1, <1>2, MeetIsPrefix, PrefixRefl
  <2> QED
    BY <1>1, <2>1, PrefixShorter, PrefixAntisym
<1>4. ASSUME NEW c \in B
      PROVE  IsPrefix(Meet(c, k), b)
  <2>1. c \in Path
    BY CutSets DEF IsCut
  <2>2. PICK n : n = Meet(c, k)
    OBVIOUS
  <2>3. n \in Path /\ IsPrefix(n, c) /\ IsPrefix(n, k)
    BY <1>1, <2>1, <2>2, MeetIsPrefix
  <2>4. ~IsPrefix(p, c)
    BY CutParts DEF Lowest
  <2>5. ~IsPrefix(p, n)
    BY <1>1, <2>1, <2>3, <2>4, PrefixTrans
  <2>6. IsPrefix(n, p) /\ n # p
    BY <1>1, <2>3, <2>5, PrefixChain, PrefixRefl
  <2> QED
    BY <1>1, <2>2, <2>3, <2>6, ChildIsLonger
<1> QED
  BY <1>2, <1>3, <1>4

\* The walk of LeavesAt, for the branches B.
Leaves(B, m, k) == (\E b \in B : m = Meet(b, k)) /\ \A b \in B : IsPrefix(Meet(b, k), m)

LEMMA WalkIs ==
    ASSUME NEW B \in SUBSET Inner, NEW k \in Key, NEW m, Leaves(B, m, k)
    PROVE  /\ m \in Inner /\ m \in Path /\ IsPrefix(m, k) /\ m # k
           /\ Toward(m, k) \in Path /\ IsChild(m, Toward(m, k)) /\ IsPrefix(Toward(m, k), k)
           /\ \A b \in B : ~IsPrefix(Toward(m, k), b)
<1>1. PICK a \in B : m = Meet(a, k)
  BY DEF Leaves
<1>2. a \in Path /\ k \in Path /\ a \in Inner
  BY InnerIsPath, KeyIsPath
<1>3. m \in Path /\ IsPrefix(m, a) /\ IsPrefix(m, k)
  BY <1>1, <1>2, MeetIsPrefix
<1>4. m \in Inner /\ m # k
  BY <1>2, <1>3, InnerPrefix, InnerIsPath
<1>5. Toward(m, k) \in Path /\ IsChild(m, Toward(m, k)) /\ IsPrefix(Toward(m, k), k)
  BY <1>2, <1>3, <1>4, TowardIsChild
<1>6. ASSUME NEW b \in B, IsPrefix(Toward(m, k), b)
      PROVE  FALSE
  <2>1. b \in Path
    BY InnerIsPath
  <2>2. IsPrefix(Toward(m, k), Meet(b, k)) /\ Meet(b, k) \in Path
    BY <1>2, <1>5, <1>6, <2>1, MeetIsPrefix
  <2>3. IsPrefix(Meet(b, k), m)
    BY DEF Leaves
  <2>4. IsPrefix(Toward(m, k), m)
    BY <1>3, <1>5, <2>2, <2>3, PrefixTrans
  <2> QED
    BY <1>3, <1>5, <2>4, ChildIsLonger
<1> QED
  BY <1>3, <1>4, <1>5, <1>6

LEMMA WalkSlot ==
    ASSUME NEW B, NEW S, NEW W, IsCut(B, S, W), NEW k \in Key, NEW m, Leaves(B, m, k),
           NEW p \in S, IsPrefix(p, k)
    PROVE  p = Toward(m, k) /\ m \in B
<1>1. /\ B \in SUBSET Inner /\ B \in SUBSET Path /\ S \in SUBSET Path /\ Hung(B, S) /\ Lowest(B, S)
  BY CutParts, CutSets DEF IsCut
<1>2. PICK b \in B : IsChild(b, p)
  BY <1>1 DEF Hung
<1>3. b = Meet(b, k) /\ p = Toward(b, k) /\ \A c \in B : IsPrefix(Meet(c, k), b)
  BY <1>2, WalkFinds
<1>4. IsPrefix(b, m)
  BY <1>2, <1>3 DEF Leaves
<1>5. IsPrefix(m, b)
  BY <1>3 DEF Leaves
<1>6. m = b
  BY <1>1, <1>4, <1>5, WalkIs, PrefixShorter, PrefixAntisym
<1> QED
  BY <1>2, <1>3, <1>6

-----------------------------------------------------------------------------
(* Cuts and accounts that come and go *)

LEMMA CutFirst ==
    ASSUME NEW S, NEW W, IsCut({}, S, W), NEW k \in Key
    PROVE  /\ S = {} /\ W = {}
           /\ Toward(<<>>, k) \in Path /\ IsPrefix(Toward(<<>>, k), k)
           /\ IsCut({<<>>}, {Toward(<<>>, k)}, {k})
<1>1. S = {} /\ W = {}
  BY CutParts DEF Hung, Reaches
<1>2. PICK p : p = Toward(<<>>, k)
  OBVIOUS
<1>3. <<>> \in Inner /\ <<>> \in Path /\ k \in Path /\ IsPrefix(<<>>, k) /\ <<>> # k
  BY RootIsInner, KeyIsPath, RootFirst, InnerIsPath
<1>4. p \in Path /\ IsChild(<<>>, p) /\ IsPrefix(p, k)
  BY <1>2, <1>3, TowardIsChild
<1>5. ~IsPrefix(p, <<>>)
  BY <1>3, <1>4, ChildIsLonger
<1>6. BranchPoints({k}) = {}
  BY BranchPointsAre
<1>7. /\ {<<>>} \in SUBSET Inner /\ {p} \in SUBSET Path /\ {k} \in SUBSET Key
      /\ Reaches({p}, {k}) /\ Inhabited({p}, {k}) /\ Hung({<<>>}, {p}) /\ Lowest({<<>>}, {p})
  BY <1>3, <1>4, <1>5 DEF Reaches, Inhabited, Hung, Lowest
<1>8. Genuine({<<>>}, {k}) /\ Complete({<<>>}, {p}, {k})
  BY <1>6 DEF Genuine, Complete
<1>9. IsCut({<<>>}, {p}, {k})
  BY <1>7, <1>8, CutParts
<1> QED
  BY <1>1, <1>2, <1>4, <1>9

\* A key in a slot that was there.
LEMMA CutAdd ==
    ASSUME NEW B, NEW S, NEW W, IsCut(B, S, W), NEW p \in S, NEW k \in Key, IsPrefix(p, k)
    PROVE  IsCut(B, S, W \cup {k})
<1> DEFINE V == W \cup {k}
<1>0. /\ B \in SUBSET Inner /\ S \in SUBSET Path /\ W \in SUBSET Key
      /\ Reaches(S, W) /\ Inhabited(S, W) /\ Hung(B, S) /\ Lowest(B, S)
      /\ Genuine(B, W) /\ Complete(B, S, W)
  BY CutParts
<1>1. V \in SUBSET Key /\ Reaches(S, V) /\ Inhabited(S, V)
  BY <1>0 DEF Reaches, Inhabited
<1>2. Genuine(B, V)
  BY <1>0, BranchPointsGrow DEF Genuine
<1>3. ASSUME NEW w \in W, w # k
      PROVE  Meet(k, w) \in BranchPoints(W) \/ IsPrefix(p, Meet(k, w))
  <2>1. w \in Path /\ k \in Path /\ p \in Path
    BY <1>0, KeyIsPath
  <2>2. CASE IsPrefix(p, w)
    BY <2>1, <2>2, MeetIsPrefix
  <2>3. CASE ~IsPrefix(p, w)
    <3>1. PICK j \in W : IsPrefix(p, j)
      BY <1>0 DEF Inhabited
    <3>2. j \in Path /\ j # w
      BY <1>0, <2>3, <3>1, KeyIsPath
    <3>3. Meet(k, w) = Meet(j, w)
      BY <2>1, <2>3, <3>1, <3>2, MeetsAgree
    <3> QED
      BY <3>1, <3>2, <3>3, BranchPointsAre
  <2> QED
    BY <2>2, <2>3
<1>4. ASSUME NEW c \in BranchPoints(V)
      PROVE  c \in B \/ \E q \in S : IsPrefix(q, c)
  <2>1. PICK x \in V, y \in V : x # y /\ c = Meet(x, y)
    BY <1>4, BranchPointsAre
  <2>2. x \in Path /\ y \in Path
    BY <1>1, KeyIsPath
  <2>3. CASE x \in W /\ y \in W
    <3>1. c \in BranchPoints(W)
      BY <2>1, <2>3, BranchPointsAre
    <3> QED
      BY <1>0, <3>1 DEF Complete
  <2>4. CASE x = k /\ y \in W
    BY <1>0, <1>3, <2>1, <2>4 DEF Complete
  <2>5. CASE y = k /\ x \in W
    <3>1. c = Meet(k, x)
      BY <2>1, <2>2, <2>5, MeetCommutes
    <3> QED
      BY <1>0, <1>3, <2>1, <2>5, <3>1 DEF Complete
  <2> QED
    BY <2>1, <2>3, <2>4, <2>5
<1>5. Complete(B, S, V)
  BY <1>4 DEF Complete
<1> HIDE DEF V
<1>6. IsCut(B, S, V)
  BY <1>0, <1>1, <1>2, <1>5, CutParts
<1> QED
  BY <1>6 DEF V

\* A key on whose way there is no slot.
LEMMA CutBeside ==
    ASSUME NEW B, NEW S, NEW W, IsCut(B, S, W), NEW k \in Key, NEW m, Leaves(B, m, k),
           Toward(m, k) \notin S
    PROVE  k \notin W /\ IsCut(B \cup {m}, S \cup {Toward(m, k)}, W \cup {k})
<1>0. /\ B \in SUBSET Inner /\ S \in SUBSET Path /\ W \in SUBSET Key
      /\ Reaches(S, W) /\ Inhabited(S, W) /\ Hung(B, S) /\ Lowest(B, S)
      /\ Genuine(B, W) /\ Complete(B, S, W)
  BY CutParts
<1>1. PICK q : q = Toward(m, k)
  OBVIOUS
<1>2. /\ m \in Inner /\ m \in Path /\ IsPrefix(m, k) /\ m # k
      /\ q \in Path /\ IsChild(m, q) /\ IsPrefix(q, k)
      /\ \A b \in B : ~IsPrefix(q, b)
  BY <1>0, <1>1, WalkIs
<1>3. \A p \in S : ~IsPrefix(p, k)
  BY <1>1, WalkSlot
<1>4. k \notin W
  BY <1>0, <1>3 DEF Reaches
<1>5. k \in Path /\ B \in SUBSET Path /\ W \in SUBSET Path
  BY <1>0, KeyIsPath, InnerIsPath
<1>6. PICK a \in B : m = Meet(a, k)
  BY DEF Leaves
<1>7. m = <<>> \/ m \in B \/ m \in BranchPoints(W \cup {k})
  <2>1. a \in Path /\ IsPrefix(m, a)
    BY <1>5, <1>6, MeetIsPrefix
  <2>2. CASE a = <<>>
    BY <1>2, <2>1, <2>2, RootFirst, RootIsPath, PrefixShorter, PrefixAntisym
  <2>3. CASE m # a /\ a # <<>>
    <3>1. PICK w \in W : IsPrefix(a, w)
      BY <1>0, <2>3, BranchIsInner DEF Genuine
    <3>2. w \in Path
      BY <1>5
    <3>3. ~IsPrefix(a, k)
      BY <1>2, <1>5, <1>6, <2>1, <2>3, MeetIsPrefix, PrefixRefl, PrefixShorter, PrefixAntisym
    <3>4. Meet(w, k) = Meet(a, k)
      BY <1>5, <2>1, <3>1, <3>2, <3>3, PrefixRefl, MeetsAgree
    <3>5. w # k
      BY <3>1, <3>3
    <3> QED
      BY <1>6, <3>1, <3>4, <3>5, BranchPointsAre
  <2> QED
    BY <1>6, <2>2, <2>3
<1>8. ASSUME NEW w \in W
      PROVE  Meet(k, w) = m \/ Meet(k, w) \in BranchPoints(W)
  <2>1. PICK p \in S : IsPrefix(p, w)
    BY <1>0 DEF Reaches
  <2>2. PICK b \in B : IsChild(b, p)
    BY <1>0 DEF Hung
  <2>3. w \in Path /\ p \in Path /\ b \in Path /\ ~IsPrefix(p, k) /\ IsPrefix(b, w)
    BY <1>0, <1>3, <1>5, <2>1, <2>2, ChildIsLonger, PrefixTrans
  <2>4. PICK c : c = Meet(k, w)
    OBVIOUS
  <2>5. c \in Path /\ IsPrefix(c, k) /\ IsPrefix(c, w)
    BY <1>5, <2>3, <2>4, MeetIsPrefix
  <2>6. IsPrefix(c, p) /\ c # p
    <3>1. ~IsPrefix(p, c)
      BY <1>5, <2>3, <2>5, PrefixTrans
    <3> QED
      BY <2>1, <2>3, <2>5, <3>1, PrefixChain, PrefixRefl
  <2>7. IsPrefix(c, b)
    BY <2>2, <2>3, <2>6, <2>5, ChildIsLonger
  <2>8. IsPrefix(c, Meet(b, k)) /\ Meet(b, k) \in Path
    BY <1>5, <2>3, <2>5, <2>7, MeetIsPrefix
  <2>9. IsPrefix(c, m)
    BY <1>2, <2>5, <2>8, PrefixTrans DEF Leaves
  <2>10. CASE ~IsPrefix(m, c)
    <3>1. IsPrefix(m, a) /\ a \in Path
      BY <1>5, <1>6, MeetIsPrefix
    <3>2. a # <<>>
      BY <1>2, <2>5, <2>10, <3>1, RootFirst, RootIsPath, PrefixShorter, PrefixAntisym
    <3>3. PICK v \in W : IsPrefix(a, v)
      BY <1>0, <3>2, BranchIsInner DEF Genuine
    <3>4. v \in Path /\ IsPrefix(m, v)
      BY <1>2, <1>5, <3>1, <3>3, PrefixTrans
    <3>5. ~IsPrefix(m, w)
      BY <1>2, <1>5, <2>3, <2>4, <2>10, MeetIsPrefix
    <3>6. Meet(k, w) = Meet(v, w)
      BY <1>2, <1>5, <2>3, <3>4, <3>5, MeetsAgree
    <3>7. v # w
      BY <3>4, <3>5
    <3> QED
      BY <3>3, <3>6, <3>7, BranchPointsAre
  <2>11. CASE IsPrefix(m, c)
    BY <1>2, <2>4, <2>5, <2>9, <2>11, PrefixShorter, PrefixAntisym
  <2> QED
    BY <2>10, <2>11
<1> DEFINE V == W \cup {k}
           R == S \cup {q}
           C == B \cup {m}
<1>10. C \in SUBSET Inner /\ R \in SUBSET Path /\ V \in SUBSET Key
  BY <1>0, <1>2
<1>11. Reaches(R, V) /\ Inhabited(R, V) /\ Hung(C, R)
  BY <1>0, <1>2 DEF Reaches, Inhabited, Hung
<1>12. Lowest(C, R)
  <2>1. ~IsPrefix(q, m)
    BY <1>2, ChildIsLonger
  <2>2. \A p \in S : ~IsPrefix(p, m)
    BY <1>0, <1>2, <1>3, <1>5, PrefixTrans
  <2> QED
    BY <1>0, <1>2, <2>1, <2>2 DEF Lowest
<1>13. Genuine(C, V)
  BY <1>0, <1>7, BranchPointsGrow DEF Genuine
<1>14. ASSUME NEW c \in BranchPoints(V)
       PROVE  c \in C \/ \E p \in R : IsPrefix(p, c)
  <2>0. ASSUME c \in BranchPoints(W)
        PROVE  c \in C \/ \E p \in R : IsPrefix(p, c)
    BY <1>0, <2>0 DEF Complete
  <2>1. PICK x \in V, y \in V : x # y /\ c = Meet(x, y)
    <3> HIDE DEF C, R, V
    <3> QED
      BY <1>14, BranchPointsAre
  <2>2. CASE x \in W /\ y \in W
    BY <2>0, <2>1, <2>2, BranchPointsAre
  <2>3. CASE x = k /\ y \in W
    BY <1>8, <2>0, <2>1, <2>3
  <2>4. CASE y = k /\ x \in W
    <3>1. c = Meet(k, x)
      BY <1>5, <2>1, <2>4, MeetCommutes
    <3> QED
      BY <1>8, <2>0, <2>4, <3>1
  <2> QED
    BY <2>1, <2>2, <2>3, <2>4
<1>15. Complete(C, R, V)
  BY <1>14 DEF Complete
<1> HIDE DEF C, R, V
<1>16. IsCut(C, R, V)
  BY <1>10, <1>11, <1>12, <1>13, <1>15, CutParts
<1> QED
  BY <1>1, <1>4, <1>16 DEF C, R, V

\* A key that leaves others of its slot behind.
LEMMA CutRemove ==
    ASSUME NEW B, NEW S, NEW W, IsCut(B, S, W), NEW p \in S, NEW k \in W, IsPrefix(p, k),
           NEW j \in W \ {k}, IsPrefix(p, j)
    PROVE  IsCut(B, S, W \ {k})
<1> DEFINE V == W \ {k}
<1>0. /\ B \in SUBSET Inner /\ S \in SUBSET Path /\ W \in SUBSET Key
      /\ Reaches(S, W) /\ Inhabited(S, W) /\ Hung(B, S) /\ Lowest(B, S)
      /\ Genuine(B, W) /\ Complete(B, S, W)
  BY CutParts
<1>1. B \in SUBSET Path /\ W \in SUBSET Path
  BY <1>0, KeyIsPath, InnerIsPath
<1>2. V \in SUBSET Key /\ Reaches(S, V)
  BY <1>0 DEF Reaches
<1>3. Inhabited(S, V)
  <2>1. ASSUME NEW q \in S
        PROVE  \E w \in V : IsPrefix(q, w)
    <3>1. PICK w \in W : IsPrefix(q, w)
      BY <1>0 DEF Inhabited
    <3>2. w = k => q = p
      BY <1>0, <1>1, <3>1, SlotsApart
    <3> QED
      BY <3>1, <3>2
  <2> QED
    BY <2>1 DEF Inhabited
<1>4. ASSUME NEW w \in W, w # k, Meet(k, w) \in B
      PROVE  Meet(k, w) \in BranchPoints(V)
  <2>1. ~IsPrefix(p, w)
    <3>1. ASSUME IsPrefix(p, w)
          PROVE  FALSE
      <4>1. IsPrefix(p, Meet(k, w))
        BY <1>0, <1>1, <3>1, MeetIsPrefix
      <4> QED
        BY <1>0, <1>4, <4>1 DEF Lowest
    <3> QED
      BY <3>1
  <2>2. Meet(k, w) = Meet(j, w)
    BY <1>0, <1>1, <2>1, MeetsAgree
  <2>3. j # w
    BY <2>1
  <2> QED
    BY <1>4, <2>2, <2>3, BranchPointsAre
<1>5. ASSUME NEW b \in B, b # <<>>
      PROVE  b \in BranchPoints(V)
  <2>1. PICK x \in W, y \in W : x # y /\ b = Meet(x, y)
    BY <1>0, <1>5, BranchPointsAre DEF Genuine
  <2>2. b = Meet(y, x)
    BY <1>1, <2>1, MeetCommutes
  <2>3. CASE x = k
    BY <1>4, <2>1, <2>3
  <2>4. CASE y = k
    BY <1>4, <2>1, <2>2, <2>4
  <2>5. CASE x # k /\ y # k
    BY <2>1, <2>5, BranchPointsAre
  <2> QED
    BY <2>3, <2>4, <2>5
<1>6. Genuine(B, V)
  BY <1>5 DEF Genuine
<1>7. Complete(B, S, V)
  BY <1>0, BranchPointsGrow DEF Complete
<1> HIDE DEF V
<1>8. IsCut(B, S, V)
  BY <1>0, <1>2, <1>3, <1>6, <1>7, CutParts
<1> QED
  BY <1>8 DEF V

-----------------------------------------------------------------------------
(* Cuts made by lifting branches *)

LEMMA EndsAre ==
    ASSUME NEW K \in SUBSET Key, NEW L \in SUBSET Inner, NEW q \in Ends(L, K)
    PROVE  /\ q \in Path /\ \A b \in L : ~IsPrefix(q, b)
           /\ \E b \in L, k \in K : IsPrefix(b, k) /\ IsChild(b, q) /\ IsPrefix(q, k)
<1>1. PICK b \in L : \E k \in Under(b, K) : q = Toward(b, k)
  BY DEF Ends
<1>2. PICK k \in K : IsPrefix(b, k) /\ q = Toward(b, k)
  BY <1>1 DEF Under
<1>3. k \in Path /\ b \in Path /\ b # k
  BY KeyIsPath, InnerIsPath
<1>4. q \in Path /\ IsChild(b, q) /\ IsPrefix(q, k)
  BY <1>2, <1>3, TowardIsChild
<1>5. \A c \in L : ~IsPrefix(q, c)
  BY DEF Ends
<1> QED
  BY <1>2, <1>4, <1>5

\* Of the branches on the way to k there is a longest.
LEMMA LongestPrefix ==
    ASSUME NEW L \in SUBSET Path, NEW k \in Path, NEW a \in L, IsPrefix(a, k)
    PROVE  \E b \in L : IsPrefix(b, k) /\ \A c \in L : IsPrefix(c, k) => IsPrefix(c, b)
<1> DEFINE M == {c \in L : IsPrefix(c, k)}
           T == {KeyLen - Len(c) : c \in M}
<1>1. \A c \in Path : KeyLen - Len(c) \in Nat /\ Len(c) \in Nat
  BY PathIsSeq, PathsAssumption
<1>2. T \in SUBSET Nat /\ T # {}
  BY <1>1
<1>3. PICK n \in T : \A m \in T : n <= m
  <2> HIDE DEF T
  <2> QED
    BY <1>2, LeastOfSet
<1>4. PICK b \in M : n = KeyLen - Len(b)
  OBVIOUS
<1>5. ASSUME NEW c \in M
      PROVE  IsPrefix(c, b)
  <2>1. KeyLen - Len(b) <= KeyLen - Len(c)
    BY <1>3, <1>4
  <2>2. Len(c) <= Len(b)
    BY <1>1, <2>1, PathsAssumption
  <2> QED
    BY <2>2, PrefixForest
<1> QED
  BY <1>5

LEMMA EndsReach ==
    ASSUME NEW K \in SUBSET Key, NEW L, IsTopPart(L, K), L # {}, NEW k \in K
    PROVE  \E q \in Ends(L, K) : IsPrefix(q, k)
<1>1. /\ L \in SUBSET BranchPoints(K)
      /\ \A b \in L, c \in BranchPoints(K) : IsPrefix(c, b) => c \in L
  BY DEF IsTopPart
<1>2. L \in SUBSET Inner /\ L \in SUBSET Path /\ K \in SUBSET Path
  BY <1>1, BranchIsInner, InnerIsPath, KeyIsPath
<1>3. ASSUME NEW b \in L, NEW x \in K, IsPrefix(b, x), ~IsPrefix(b, k)
      PROVE  Meet(k, x) \in L
  <2>1. Meet(k, x) \in BranchPoints(K)
    BY <1>3, BranchPointsAre
  <2>2. Meet(k, x) \in Path /\ IsPrefix(Meet(k, x), k) /\ IsPrefix(Meet(k, x), x)
    BY <1>2, MeetIsPrefix
  <2>3. ~IsPrefix(b, Meet(k, x))
    BY <1>2, <1>3, <2>2, PrefixTrans
  <2>4. IsPrefix(Meet(k, x), b)
    BY <1>2, <1>3, <2>2, <2>3, PrefixChain
  <2> QED
    BY <1>1, <2>1, <2>4
<1>4. \E b \in L : IsPrefix(b, k)
  <2>1. PICK b \in L : TRUE
    OBVIOUS
  <2>2. PICK x \in K : IsPrefix(b, x)
    BY <1>1, BranchIsInner
  <2> QED
    BY <1>2, <1>3, <2>2, MeetIsPrefix
<1>5. PICK m \in L : IsPrefix(m, k) /\ \A c \in L : IsPrefix(c, k) => IsPrefix(c, m)
  BY <1>2, <1>4, LongestPrefix
<1>6. PICK q : q = Toward(m, k)
  OBVIOUS
<1>7. m \in Path /\ k \in Path /\ m # k
  BY <1>2, InnerIsPath
<1>8. q \in Path /\ IsChild(m, q) /\ IsPrefix(q, k)
  BY <1>5, <1>6, <1>7, TowardIsChild
<1>9. \A c \in Path : IsPrefix(q, c) => ~IsPrefix(c, m)
  BY <1>7, <1>8, ChildIsLonger, PrefixTrans
<1>10. ASSUME NEW b \in L, IsPrefix(q, b)
       PROVE  FALSE
  <2>1. ~IsPrefix(b, k)
    BY <1>2, <1>5, <1>9, <1>10
  <2>2. PICK x \in K : IsPrefix(b, x)
    BY <1>1, BranchIsInner
  <2>3. Meet(k, x) \in L /\ Meet(k, x) \in Path
    BY <1>2, <1>3, <2>1, <2>2
  <2>4. IsPrefix(q, x)
    BY <1>2, <1>8, <1>10, <2>2, PrefixTrans
  <2>5. IsPrefix(q, Meet(k, x)) /\ IsPrefix(Meet(k, x), k)
    BY <1>2, <1>8, <2>4, MeetIsPrefix
  <2> QED
    BY <1>5, <1>9, <2>3, <2>5
<1>11. k \in Under(m, K)
  BY <1>5 DEF Under
<1>12. q \in Ends(L, K)
  BY <1>6, <1>10, <1>11 DEF Ends
<1> QED
  BY <1>8, <1>12

LEMMA CutFresh ==
    ASSUME NEW K \in SUBSET Key, NEW L, IsTopPart(L, K), L # {}
    PROVE  IsCut(L, Ends(L, K), K)
<1>1. /\ L \in SUBSET BranchPoints(K)
      /\ \A b \in L, c \in BranchPoints(K) : IsPrefix(c, b) => c \in L
  BY DEF IsTopPart
<1>2. L \in SUBSET Inner /\ L \in SUBSET Path /\ K \in SUBSET Path
  BY <1>1, BranchIsInner, InnerIsPath, KeyIsPath
<1>3. PICK E : E = Ends(L, K)
  OBVIOUS
<1>4. E \in SUBSET Path
  BY <1>2, <1>3, EndsAre
<1>5. Reaches(E, K)
  BY <1>3, EndsReach DEF Reaches
<1>6. Inhabited(E, K) /\ Hung(L, E) /\ Lowest(L, E)
  BY <1>2, <1>3, EndsAre DEF Inhabited, Hung, Lowest
<1>7. Genuine(L, K)
  BY <1>1 DEF Genuine
<1>8. ASSUME NEW c \in BranchPoints(K)
      PROVE  c \in L \/ \E p \in E : IsPrefix(p, c)
  <2>1. PICK x \in K : IsPrefix(c, x)
    BY BranchIsInner
  <2>2. c \in Path
    BY BranchIsInner, InnerIsPath
  <2>3. PICK q \in E : IsPrefix(q, x)
    BY <1>5 DEF Reaches
  <2>4. PICK b \in L : IsChild(b, q)
    BY <1>6 DEF Hung
  <2>5. CASE IsPrefix(c, q) /\ c # q
    <3>1. IsPrefix(c, b)
      BY <1>2, <1>4, <2>2, <2>4, <2>5, ChildIsLonger
    <3> QED
      BY <1>1, <3>1
  <2> QED
    BY <1>2, <1>4, <2>1, <2>2, <2>3, <2>5, PrefixChain
<1>9. Complete(L, E, K)
  BY <1>8 DEF Complete
<1> QED
  BY <1>2, <1>3, <1>4, <1>5, <1>6, <1>7, <1>9, CutParts

\* The slot p is replaced by those below the branches L that are lifted.
LEMMA CutRefine ==
    ASSUME NEW B, NEW S, NEW W, IsCut(B, S, W), NEW p \in S,
           NEW L, IsTopPart(L, Under(p, W)), L # {}
    PROVE  LET E == Ends(L, Under(p, W)) IN
           /\ IsCut(B \cup L, (S \ {p}) \cup E, W)
           /\ E \cap (S \ {p}) = {}
           /\ \A q \in E : Under(q, Under(p, W)) = Under(q, W)
<1>0. /\ B \in SUBSET Inner /\ S \in SUBSET Path /\ W \in SUBSET Key
      /\ Reaches(S, W) /\ Inhabited(S, W) /\ Hung(B, S) /\ Lowest(B, S)
      /\ Genuine(B, W) /\ Complete(B, S, W)
  BY CutParts
<1>1. PICK K : K = Under(p, W)
  OBVIOUS
<1>2. PICK E : E = Ends(L, K)
  OBVIOUS
<1>3. K \in SUBSET Key /\ K \in SUBSET W /\ \A k \in W : k \in K <=> IsPrefix(p, k)
  BY <1>0, <1>1 DEF Under
<1>4. /\ L \in SUBSET Inner /\ E \in SUBSET Path /\ K \in SUBSET Key
      /\ Reaches(E, K) /\ Inhabited(E, K) /\ Hung(L, E) /\ Lowest(L, E)
      /\ Genuine(L, K) /\ Complete(L, E, K)
  BY <1>1, <1>2, <1>3, CutFresh, CutParts
<1>5. B \in SUBSET Path /\ L \in SUBSET Path /\ W \in SUBSET Path /\ p \in Path
  BY <1>0, <1>4, KeyIsPath, InnerIsPath
<1>6. L \in SUBSET BranchPoints(K)
  BY <1>1 DEF IsTopPart
<1>7. ASSUME NEW c \in BranchPoints(K)
      PROVE  IsPrefix(p, c)
  <2>1. PICK x \in K, y \in K : c = Meet(x, y)
    BY BranchPointsAre
  <2> QED
    BY <1>3, <1>5, <2>1, MeetIsPrefix
<1>8. \A q \in E : IsPrefix(p, q)
  <2>1. ASSUME NEW q \in E
        PROVE  IsPrefix(p, q)
    <3>1. PICK b \in L : IsChild(b, q)
      BY <1>4 DEF Hung
    <3> QED
      BY <1>4, <1>5, <1>6, <1>7, <3>1, ChildIsLonger, PrefixTrans
  <2> QED
    BY <2>1
<1> DEFINE C == B \cup L
           R == (S \ {p}) \cup E
<1>9. C \in SUBSET Inner /\ R \in SUBSET Path
  BY <1>0, <1>4
<1>10. Reaches(R, W)
  BY <1>0, <1>3, <1>4 DEF Reaches
<1>11. Inhabited(R, W) /\ Hung(C, R)
  BY <1>0, <1>3, <1>4 DEF Inhabited, Hung
<1>12. ASSUME NEW q \in E, NEW b \in B, IsPrefix(q, b)
       PROVE  FALSE
  <2>1. q \in Path /\ b \in Path /\ IsPrefix(p, q)
    BY <1>4, <1>5, <1>8
  <2>2. IsPrefix(p, b)
    BY <1>5, <1>12, <2>1, PrefixTrans
  <2> QED
    BY <1>0, <2>2 DEF Lowest
<1>13. ASSUME NEW q \in S \ {p}, NEW c \in Path, IsPrefix(p, c), IsPrefix(q, c)
       PROVE  FALSE
  BY <1>0, <1>5, <1>13, SlotsApart
<1>14. Lowest(C, R)
  BY <1>0, <1>4, <1>5, <1>6, <1>7, <1>12, <1>13 DEF Lowest
<1>15. Genuine(C, W)
  BY <1>0, <1>3, <1>6, BranchPointsGrow DEF Genuine
<1>16. ASSUME NEW c \in BranchPoints(W), IsPrefix(p, c)
       PROVE  c \in BranchPoints(K)
  <2>1. PICK x \in W, y \in W : x # y /\ c = Meet(x, y)
    BY BranchPointsAre
  <2>2. c \in Path /\ IsPrefix(c, x) /\ IsPrefix(c, y)
    BY <1>5, <2>1, MeetIsPrefix
  <2>3. x \in K /\ y \in K
    BY <1>3, <1>5, <1>16, <2>2, PrefixTrans
  <2> QED
    BY <2>1, <2>3, BranchPointsAre
<1>17. Complete(C, R, W)
  BY <1>0, <1>4, <1>16 DEF Complete
<1>18. E \cap (S \ {p}) = {}
  BY <1>4, <1>8, <1>13, PrefixRefl
<1>19. \A q \in E : Under(q, K) = Under(q, W)
  BY <1>1, <1>4, <1>5, <1>8, PrefixTrans DEF Under
<1> HIDE DEF C, R
<1>20. IsCut(C, R, W)
  BY <1>0, <1>9, <1>10, <1>11, <1>14, <1>15, <1>17, CutParts
<1> QED
  BY <1>1, <1>2, <1>18, <1>19, <1>20 DEF C, R

-----------------------------------------------------------------------------
(* Cuts that lose a branch *)

LEMMA ButParts ==
    ASSUME NEW m, NEW B, NEW S, NEW W, IsCutBut(m, B, S, W)
    PROVE  /\ B \in SUBSET Inner /\ B \in SUBSET Path /\ S \in SUBSET Path
           /\ W \in SUBSET Key /\ W \in SUBSET Path
           /\ Reaches(S, W) /\ Inhabited(S, W) /\ Hung(B, S) /\ Lowest(B, S)
           /\ Genuine(B \ {m}, W) /\ Complete(B, S, W)
BY CutSets DEF IsCutBut

\* The last key of a slot goes, and the slot with it.
LEMMA CutHole ==
    ASSUME NEW B, NEW S, NEW W, IsCut(B, S, W), NEW p \in S, NEW k \in Key,
           Under(p, W) = {k}, NEW m \in B, IsChild(m, p)
    PROVE  IsCutBut(m, B, S \ {p}, W \ {k})
<1> DEFINE V == W \ {k}
           R == S \ {p}
<1>0. /\ B \in SUBSET Inner /\ S \in SUBSET Path /\ W \in SUBSET Key
      /\ Reaches(S, W) /\ Inhabited(S, W) /\ Hung(B, S) /\ Lowest(B, S)
      /\ Genuine(B, W) /\ Complete(B, S, W)
  BY CutParts
<1>1. B \in SUBSET Path /\ W \in SUBSET Path /\ k \in Path
  BY <1>0, KeyIsPath, InnerIsPath
<1>2. k \in W /\ IsPrefix(p, k) /\ \A w \in V : ~IsPrefix(p, w)
  BY DEF Under
<1>3. V \in SUBSET Key /\ R \in SUBSET Path
  BY <1>0
<1>4. Reaches(R, V)
  BY <1>0, <1>2 DEF Reaches
<1>5. Inhabited(R, V)
  <2>1. ASSUME NEW q \in R
        PROVE  \E w \in V : IsPrefix(q, w)
    <3>1. PICK w \in W : IsPrefix(q, w)
      BY <1>0 DEF Inhabited
    <3>2. w = k => q = p
      BY <1>0, <1>1, <1>2, <3>1, SlotsApart
    <3> QED
      BY <3>1, <3>2
  <2> QED
    BY <2>1 DEF Inhabited
<1>6. Hung(B, R) /\ Lowest(B, R)
  BY <1>0 DEF Hung, Lowest
<1>7. ASSUME NEW y \in V, Meet(k, y) \in B, Meet(k, y) # m
      PROVE  Meet(k, y) \in BranchPoints(V)
  <2>1. PICK b : b = Meet(k, y)
    OBVIOUS
  <2>2. b \in Path /\ b \in B /\ y \in Path /\ IsPrefix(b, k) /\ ~IsPrefix(p, b) /\ p \in Path /\ m \in Path
    BY <1>0, <1>1, <1>7, <2>1, MeetIsPrefix DEF Lowest
  <2>3. IsPrefix(b, p) /\ b # p
    BY <1>1, <1>2, <2>2, PrefixChain, PrefixRefl
  <2>4. IsPrefix(b, m)
    BY <2>2, <2>3, ChildIsLonger
  <2>5. m # <<>>
    BY <1>7, <2>1, <2>2, <2>4, RootFirst, RootIsPath, PrefixShorter, PrefixAntisym
  <2>6. PICK u \in W, v \in W : u # v /\ m = Meet(u, v)
    BY <1>0, <2>5, BranchPointsAre DEF Genuine
  <2>7. IsPrefix(m, u) /\ IsPrefix(m, v)
    BY <1>1, <2>6, MeetIsPrefix
  <2>8. PICK x \in V : IsPrefix(m, x)
    BY <2>6, <2>7
  <2>9. IsPrefix(m, k)
    BY <1>1, <1>2, <2>2, ChildIsLonger, PrefixTrans
  <2>10. ~IsPrefix(m, y)
    <3>1. ASSUME IsPrefix(m, y)
          PROVE  FALSE
      <4>1. IsPrefix(m, b)
        BY <1>1, <2>1, <2>2, <2>9, <3>1, MeetIsPrefix
      <4> QED
        BY <1>7, <2>1, <2>2, <2>4, <4>1, PrefixShorter, PrefixAntisym
    <3> QED
      BY <3>1
  <2>11. x \in Path
    BY <1>1
  <2>12. Meet(k, y) = Meet(x, y)
    BY <1>1, <2>2, <2>8, <2>9, <2>10, <2>11, MeetsAgree
  <2>13. x # y
    BY <2>8, <2>10
  <2> QED
    BY <2>12, <2>13, BranchPointsAre
<1>8. ASSUME NEW b \in B, b # m, b # <<>>
      PROVE  b \in BranchPoints(V)
  <2>1. PICK x \in W, y \in W : x # y /\ b = Meet(x, y)
    BY <1>0, <1>8, BranchPointsAre DEF Genuine
  <2>2. b = Meet(y, x)
    BY <1>1, <2>1, MeetCommutes
  <2>3. CASE x = k
    BY <1>7, <1>8, <2>1, <2>3
  <2>4. CASE y = k
    BY <1>7, <1>8, <2>1, <2>2, <2>4
  <2>5. CASE x # k /\ y # k
    BY <2>1, <2>5, BranchPointsAre
  <2> QED
    BY <2>3, <2>4, <2>5
<1>9. Genuine(B \ {m}, V)
  BY <1>8 DEF Genuine
<1>10. ASSUME NEW c \in BranchPoints(V), IsPrefix(p, c)
       PROVE  FALSE
  <2>1. PICK x \in V : IsPrefix(c, x)
    BY <1>3, BranchIsInner
  <2>2. c \in Path /\ x \in Path /\ p \in Path
    BY <1>0, <1>3, BranchIsInner, InnerIsPath, KeyIsPath
  <2>3. IsPrefix(p, x)
    BY <1>10, <2>1, <2>2, PrefixTrans
  <2> QED
    BY <1>2, <2>3
<1>11. Complete(B, R, V)
  <2>1. BranchPoints(V) \subseteq BranchPoints(W)
    BY BranchPointsGrow
  <2> QED
    BY <1>0, <1>10, <2>1 DEF Complete
<1> HIDE DEF V, R
<1>12. IsCutBut(m, B, R, V)
  BY <1>0, <1>3, <1>4, <1>5, <1>6, <1>9, <1>11 DEF IsCutBut
<1> QED
  BY <1>12 DEF V, R

\* The children of m, for the branches B and the slots S.
KidsOf(m, B, S) ==
    {q \in S : IsChild(m, q)} \cup {Toward(m, b) : b \in {c \in B : IsStrictPrefix(m, c)}}

LEMMA KidIs ==
    ASSUME NEW m, NEW B, NEW S, NEW W, IsCutBut(m, B, S, W), m \in B, NEW q \in KidsOf(m, B, S)
    PROVE  /\ q \in Path /\ IsChild(m, q)
           /\ \E w \in W : IsPrefix(q, w)
           /\ q \in S \/ \E b \in B : IsPrefix(q, b)
<1>p. /\ B \in SUBSET Inner /\ B \in SUBSET Path /\ S \in SUBSET Path
      /\ W \in SUBSET Key /\ W \in SUBSET Path
      /\ Reaches(S, W) /\ Inhabited(S, W) /\ Hung(B, S) /\ Lowest(B, S)
      /\ Genuine(B \ {m}, W) /\ Complete(B, S, W)
  BY ButParts
<1>1. m \in Path /\ m \in Inner
  BY <1>p
<1>2. CASE q \in S /\ IsChild(m, q)
  BY <1>p, <1>2 DEF Inhabited
<1>3. CASE \E b \in B : IsStrictPrefix(m, b) /\ q = Toward(m, b)
  <2>1. PICK b \in B : IsStrictPrefix(m, b) /\ q = Toward(m, b)
    BY <1>3
  <2>2. b \in Path /\ IsPrefix(m, b) /\ m # b
    BY <1>p, <2>1 DEF IsStrictPrefix
  <2>3. q \in Path /\ IsChild(m, q) /\ IsPrefix(q, b)
    BY <1>1, <2>1, <2>2, TowardIsChild
  <2>4. b # <<>>
    BY <1>1, <2>2, RootFirst, RootIsPath, PrefixShorter, PrefixAntisym
  <2>5. b \in BranchPoints(W)
    BY <1>p, <2>2, <2>4 DEF Genuine
  <2>6. PICK w \in W : IsPrefix(b, w)
    BY <1>p, <2>5, BranchIsInner
  <2>7. IsPrefix(q, w)
    BY <1>p, <2>2, <2>3, <2>6, PrefixTrans
  <2> QED
    BY <2>3, <2>7
<1> QED
  BY <1>2, <1>3 DEF KidsOf

\* Every key below m is below a child of m.
LEMMA KidOnWay ==
    ASSUME NEW m, NEW B, NEW S, NEW W, IsCutBut(m, B, S, W), m \in B,
           NEW w \in W, IsPrefix(m, w)
    PROVE  Toward(m, w) \in KidsOf(m, B, S) /\ IsPrefix(Toward(m, w), w)
<1>p. /\ B \in SUBSET Inner /\ B \in SUBSET Path /\ S \in SUBSET Path
      /\ W \in SUBSET Key /\ W \in SUBSET Path
      /\ Reaches(S, W) /\ Inhabited(S, W) /\ Hung(B, S) /\ Lowest(B, S)
      /\ Genuine(B \ {m}, W) /\ Complete(B, S, W)
  BY ButParts
<1>1. m \in Path /\ w \in Path /\ m # w
  BY <1>p, InnerIsPath
<1>2. Toward(m, w) \in Path /\ IsChild(m, Toward(m, w)) /\ IsPrefix(Toward(m, w), w)
  BY <1>1, TowardIsChild
<1>3. PICK p \in S : IsPrefix(p, w)
  BY <1>p DEF Reaches
<1>4. PICK b \in B : IsChild(b, p)
  BY <1>p DEF Hung
<1>5. p \in Path /\ b \in Path /\ ~IsPrefix(p, m)
  BY <1>p DEF Lowest
<1>6. IsPrefix(m, p) /\ m # p
  BY <1>1, <1>3, <1>5, PrefixChain, PrefixRefl
<1>7. IsPrefix(m, b)
  BY <1>1, <1>4, <1>5, <1>6, ChildIsLonger
<1>8. CASE m = b
  <2>1. p = Toward(m, w)
    BY <1>1, <1>3, <1>4, <1>5, <1>8, ChildIsToward
  <2> QED
    BY <1>2, <1>4, <1>8, <2>1 DEF KidsOf
<1>9. CASE m # b
  <2>1. Toward(m, b) \in Path /\ IsChild(m, Toward(m, b)) /\ IsPrefix(Toward(m, b), b)
    BY <1>1, <1>5, <1>7, <1>9, TowardIsChild
  <2>2. IsPrefix(b, w)
    BY <1>1, <1>3, <1>4, <1>5, ChildIsLonger, PrefixTrans
  <2>3. Toward(m, b) = Toward(m, w)
    BY <1>1, <1>5, <2>1, <2>2, PrefixTrans, ChildIsToward
  <2>4. Toward(m, b) \in KidsOf(m, B, S)
    BY <1>7, <1>9 DEF KidsOf, IsStrictPrefix
  <2> QED
    BY <1>2, <2>3, <2>4
<1> QED
  BY <1>8, <1>9

\* A branch with two children is one of the trie.
LEMMA TwoKids ==
    ASSUME NEW m, NEW B, NEW S, NEW W, IsCutBut(m, B, S, W), m \in B,
           NEW p \in KidsOf(m, B, S), NEW q \in KidsOf(m, B, S), p # q
    PROVE  IsCut(B, S, W)
<1>p. /\ B \in SUBSET Inner /\ B \in SUBSET Path /\ S \in SUBSET Path
      /\ W \in SUBSET Key /\ W \in SUBSET Path
      /\ Reaches(S, W) /\ Inhabited(S, W) /\ Hung(B, S) /\ Lowest(B, S)
      /\ Genuine(B \ {m}, W) /\ Complete(B, S, W)
  BY ButParts
<1>1. PICK w \in W : IsPrefix(p, w)
  BY KidIs
<1>2. PICK v \in W : IsPrefix(q, v)
  BY KidIs
<1>3. /\ p \in Path /\ q \in Path /\ IsChild(m, p) /\ IsChild(m, q)
      /\ w \in Path /\ v \in Path /\ m \in Path
  BY <1>p, KidIs
<1>4. p = Toward(m, w) /\ q = Toward(m, v)
  BY <1>1, <1>2, <1>3, ChildIsToward
<1>5. IsPrefix(m, w) /\ IsPrefix(m, v)
  BY <1>1, <1>2, <1>3, ChildIsLonger, PrefixTrans
<1>6. ~IsPrefix(p, v)
  BY <1>3, <1>4, ChildIsToward
<1>7. Meet(w, v) = m
  BY <1>p, <1>3, <1>4, <1>5, <1>6, MeetIs, InnerIsPath
<1>8. w # v
  BY <1>4
<1>9. m \in BranchPoints(W)
  BY <1>7, <1>8, BranchPointsAre
<1>10. Genuine(B, W)
  BY <1>p, <1>9 DEF Genuine
<1> QED
  BY <1>p, <1>10, CutParts

\* A branch with fewer is none.
LEMMA LoneKid ==
    ASSUME NEW m, NEW B, NEW S, NEW W, IsCutBut(m, B, S, W), m \in B,
           \A p, q \in KidsOf(m, B, S) : p = q
    PROVE  m \notin BranchPoints(W)
<1>p. /\ B \in SUBSET Inner /\ B \in SUBSET Path /\ S \in SUBSET Path
      /\ W \in SUBSET Key /\ W \in SUBSET Path
      /\ Reaches(S, W) /\ Inhabited(S, W) /\ Hung(B, S) /\ Lowest(B, S)
      /\ Genuine(B \ {m}, W) /\ Complete(B, S, W)
  BY ButParts
<1> SUFFICES ASSUME m \in BranchPoints(W)
             PROVE  FALSE
  OBVIOUS
<1>1. PICK x \in W, y \in W : x # y /\ m = Meet(x, y)
  BY BranchPointsAre
<1>2. x \in Path /\ y \in Path /\ m \in Path
  BY <1>p
<1>3. IsPrefix(m, x) /\ IsPrefix(m, y)
  BY <1>1, <1>2, MeetIsPrefix
<1>4. PICK q \in KidsOf(m, B, S) : IsPrefix(q, x) /\ IsPrefix(q, y)
  BY <1>3, KidOnWay
<1>5. q \in Path /\ IsChild(m, q)
  BY KidIs
<1>6. IsPrefix(q, m)
  BY <1>1, <1>2, <1>4, <1>5, MeetIsPrefix
<1> QED
  BY <1>2, <1>5, <1>6, ChildIsLonger

LEMMA DropBranch ==
    ASSUME NEW m, NEW B, NEW S, NEW W, IsCutBut(m, B, S, W), m \in B,
           m \notin BranchPoints(W), \A q \in S : ~IsChild(m, q)
    PROVE  IsCut(B \ {m}, S, W)
<1>p. /\ B \in SUBSET Inner /\ B \in SUBSET Path /\ S \in SUBSET Path
      /\ W \in SUBSET Key /\ W \in SUBSET Path
      /\ Reaches(S, W) /\ Inhabited(S, W) /\ Hung(B, S) /\ Lowest(B, S)
      /\ Genuine(B \ {m}, W) /\ Complete(B, S, W)
  BY ButParts
<1>1. /\ B \ {m} \in SUBSET Inner /\ S \in SUBSET Path /\ W \in SUBSET Key
      /\ Reaches(S, W) /\ Inhabited(S, W) /\ Genuine(B \ {m}, W)
  BY <1>p
<1>2. Hung(B \ {m}, S)
  BY <1>p DEF Hung
<1>3. Lowest(B \ {m}, S)
  BY <1>p DEF Lowest
<1>4. Complete(B \ {m}, S, W)
  BY <1>p DEF Complete
<1> QED
  BY <1>1, <1>2, <1>3, <1>4, CutParts

\* A branch b that is not above m, and whose last part above m leads to m: the
\* trie has a branch where they part.
LEMMA PartAbove ==
    ASSUME NEW m, NEW B, NEW S, NEW W, IsCutBut(m, B, S, W), m \in B, NEW b \in B,
           ~IsPrefix(b, m), ~IsPrefix(m, b), \E w \in W : IsPrefix(m, w)
    PROVE  Meet(b, m) \in B /\ IsPrefix(Meet(b, m), m) /\ Meet(b, m) # m
<1>p. /\ B \in SUBSET Inner /\ B \in SUBSET Path /\ S \in SUBSET Path
      /\ W \in SUBSET Key /\ W \in SUBSET Path
      /\ Reaches(S, W) /\ Inhabited(S, W) /\ Hung(B, S) /\ Lowest(B, S)
      /\ Genuine(B \ {m}, W) /\ Complete(B, S, W)
  BY ButParts
<1>1. b \in Path /\ m \in Path
  BY <1>p
<1>2. PICK w \in W : IsPrefix(m, w)
  OBVIOUS
<1>3. b # <<>>
  BY <1>1, RootFirst
<1>4. b # m
  BY <1>1, PrefixRefl
<1>5. b \in BranchPoints(W)
  BY <1>p, <1>3, <1>4 DEF Genuine
<1>6. PICK u \in W : IsPrefix(b, u)
  BY <1>p, <1>5, BranchIsInner
<1>7. u \in Path /\ w \in Path
  BY <1>p
<1>8. Meet(u, w) = Meet(b, m) /\ u # w
  BY <1>1, <1>2, <1>6, <1>7, MeetsBelow
<1>9. Meet(b, m) \in BranchPoints(W)
  BY <1>8, BranchPointsAre
<1>10. IsPrefix(Meet(b, m), m) /\ IsPrefix(Meet(b, m), b)
  BY <1>1, MeetIsPrefix
<1>11. Meet(b, m) \in B
  BY <1>9, <1>10, CutIsTop
<1> QED
  BY <1>10, <1>11

\* The last child of m is a slot, and moves up below a.
LEMMA CutRehome ==
    ASSUME NEW m, NEW B, NEW S, NEW W, IsCutBut(m, B, S, W), m \in B,
           NEW q \in S, KidsOf(m, B, S) = {q},
           NEW a \in B, IsStrictPrefix(a, m),
           \A b \in B : IsStrictPrefix(b, m) => IsPrefix(b, a)
    PROVE  /\ IsCut(B \ {m}, (S \ {q}) \cup {Toward(a, m)}, W)
           /\ Toward(a, m) \notin S \ {q}
           /\ Under(Toward(a, m), W) = Under(q, W)
<1>p. /\ B \in SUBSET Inner /\ B \in SUBSET Path /\ S \in SUBSET Path
      /\ W \in SUBSET Key /\ W \in SUBSET Path
      /\ Reaches(S, W) /\ Inhabited(S, W) /\ Hung(B, S) /\ Lowest(B, S)
      /\ Genuine(B \ {m}, W) /\ Complete(B, S, W)
  BY ButParts
<1>0. /\ a \in Path /\ m \in Path /\ q \in Path /\ IsChild(m, q)
      /\ IsPrefix(a, m) /\ a # m
      /\ B \in SUBSET Path /\ S \in SUBSET Path /\ W \in SUBSET Path
  BY <1>p, KidIs DEF IsStrictPrefix
<1>1. PICK r : r = Toward(a, m)
  OBVIOUS
<1>2. r \in Path /\ IsChild(a, r) /\ IsPrefix(r, m)
  BY <1>0, <1>1, TowardIsChild
<1>3. IsPrefix(r, q) /\ IsPrefix(m, q)
  BY <1>0, <1>2, ChildIsLonger, PrefixTrans
<1>4. m \notin BranchPoints(W)
  BY LoneKid
<1>5. ASSUME NEW b \in B, IsPrefix(r, b)
      PROVE  b = m
  <2>0. b \in Path
    BY <1>0
  <2>1. ASSUME NEW c \in B, IsPrefix(r, c), IsPrefix(c, m), c # m
        PROVE  FALSE
    <3>1. IsPrefix(c, a) /\ c \in Path
      BY <1>0, <2>1 DEF IsStrictPrefix
    <3>2. IsPrefix(r, a)
      BY <1>0, <1>2, <2>1, <3>1, PrefixTrans
    <3> QED
      BY <1>0, <1>2, <3>2, ChildIsLonger
  <2>2. CASE IsPrefix(m, b) /\ b # m
    <3>1. Toward(m, b) \in KidsOf(m, B, S)
      BY <2>2 DEF KidsOf, IsStrictPrefix
    <3>2. IsPrefix(q, b)
      BY <1>0, <2>0, <2>2, <3>1, TowardIsChild
    <3> QED
      BY <1>p, <3>2 DEF Lowest
  <2>3. CASE ~IsPrefix(b, m) /\ ~IsPrefix(m, b)
    <3>1. \E w \in W : IsPrefix(m, w)
      <4>1. PICK w \in W : IsPrefix(q, w)
        BY <1>p DEF Inhabited
      <4> QED
        BY <1>0, <1>3, <4>1, PrefixTrans
    <3>2. Meet(b, m) \in B /\ IsPrefix(Meet(b, m), m) /\ Meet(b, m) # m
      BY <2>3, <3>1, PartAbove
    <3>3. IsPrefix(r, Meet(b, m))
      BY <1>0, <1>2, <1>5, <2>0, MeetIsPrefix
    <3> QED
      BY <2>1, <3>2, <3>3
  <2> QED
    BY <1>5, <2>1, <2>2, <2>3
<1>6. ASSUME NEW p \in S, NEW w \in Path, IsPrefix(p, w), IsPrefix(r, w)
      PROVE  p = q
  <2>1. p \in Path
    BY <1>0
  <2>2. ~IsPrefix(p, m)
    BY <1>p DEF Lowest
  <2>3. ~IsPrefix(p, r)
    BY <1>0, <1>2, <2>1, <2>2, PrefixTrans
  <2>4. IsPrefix(r, p) /\ r # p
    BY <1>2, <1>6, <2>1, <2>3, PrefixChain, PrefixRefl
  <2>5. PICK b \in B : IsChild(b, p)
    BY <1>p DEF Hung
  <2>6. IsPrefix(r, b)
    BY <1>0, <1>2, <2>1, <2>4, <2>5, ChildIsLonger
  <2>7. IsChild(m, p)
    BY <1>5, <2>5, <2>6
  <2> QED
    BY <2>7 DEF KidsOf
<1> DEFINE C == B \ {m}
           R == (S \ {q}) \cup {r}
<1>7. C \in SUBSET Inner /\ R \in SUBSET Path /\ W \in SUBSET Key /\ Genuine(C, W)
  BY <1>p, <1>0, <1>2
<1>8. Reaches(R, W)
  <2>1. ASSUME NEW w \in W
        PROVE  \E p \in R : IsPrefix(p, w)
    <3>1. PICK p \in S : IsPrefix(p, w)
      BY <1>p DEF Reaches
    <3>2. CASE p = q
      BY <1>0, <1>2, <1>3, <3>1, <3>2, PrefixTrans
    <3> QED
      BY <3>1, <3>2
  <2> QED
    BY <2>1 DEF Reaches
<1>9. Inhabited(R, W)
  <2>1. PICK w \in W : IsPrefix(q, w)
    BY <1>p DEF Inhabited
  <2>2. IsPrefix(r, w)
    BY <1>0, <1>2, <1>3, <2>1, PrefixTrans
  <2> QED
    BY <1>p, <2>2 DEF Inhabited
<1>10. Hung(C, R)
  <2>1. ASSUME NEW p \in S \ {q}
        PROVE  \E b \in C : IsChild(b, p)
    <3>1. PICK b \in B : IsChild(b, p)
      BY <1>p DEF Hung
    <3>2. b = m => p \in KidsOf(m, B, S)
      BY <3>1 DEF KidsOf
    <3> QED
      BY <3>1, <3>2
  <2>2. a \in C
    BY <1>0
  <2> QED
    BY <1>2, <2>1, <2>2 DEF Hung
<1>11. Lowest(C, R)
  BY <1>p, <1>5 DEF Lowest
<1>12. Complete(C, R, W)
  <2>1. ASSUME NEW c \in BranchPoints(W)
        PROVE  c \in C \/ \E p \in R : IsPrefix(p, c)
    <3>1. c \in Path
      BY <1>p, BranchIsInner, InnerIsPath
    <3>2. CASE IsPrefix(q, c)
      BY <1>0, <1>2, <1>3, <3>1, <3>2, PrefixTrans
    <3> QED
      BY <1>p, <1>4, <3>2 DEF Complete
  <2> QED
    BY <2>1 DEF Complete
<1>13. r \notin S \ {q}
  BY <1>2, <1>6, PrefixRefl
<1>14. Under(r, W) = Under(q, W)
  <2>1. ASSUME NEW w \in W
        PROVE  IsPrefix(r, w) <=> IsPrefix(q, w)
    <3>1. PICK p \in S : IsPrefix(p, w)
      BY <1>p DEF Reaches
    <3> QED
      BY <1>0, <1>2, <1>3, <1>6, <3>1, PrefixTrans
  <2> QED
    BY <2>1 DEF Under
<1> HIDE DEF C, R
<1>15. IsCut(C, R, W)
  BY <1>7, <1>8, <1>9, <1>10, <1>11, <1>12, CutParts
<1> QED
  BY <1>1, <1>13, <1>14, <1>15 DEF C, R

\* The last child of m is a slot, and m is the top: there is nothing else.
LEMMA CutIsOneSlot ==
    ASSUME NEW m, NEW B, NEW S, NEW W, IsCutBut(m, B, S, W), m \in B,
           NEW q \in S, KidsOf(m, B, S) = {q}, \A b \in B : ~IsStrictPrefix(b, m)
    PROVE  B = {m} /\ S = {q} /\ Under(q, W) = W /\ W # {}
<1>p. /\ B \in SUBSET Inner /\ B \in SUBSET Path /\ S \in SUBSET Path
      /\ W \in SUBSET Key /\ W \in SUBSET Path
      /\ Reaches(S, W) /\ Inhabited(S, W) /\ Hung(B, S) /\ Lowest(B, S)
      /\ Genuine(B \ {m}, W) /\ Complete(B, S, W)
  BY ButParts
<1>0. /\ m \in Path /\ q \in Path /\ IsChild(m, q)
      /\ B \in SUBSET Path /\ S \in SUBSET Path /\ W \in SUBSET Path
  BY <1>p, KidIs
<1>1. PICK w \in W : IsPrefix(q, w)
  BY <1>p DEF Inhabited
<1>2. IsPrefix(m, w)
  BY <1>0, <1>1, ChildIsLonger, PrefixTrans
<1>3. ASSUME NEW b \in B, b # m
      PROVE  FALSE
  <2>1. ~IsPrefix(b, m)
    BY <1>3 DEF IsStrictPrefix
  <2>2. CASE IsPrefix(m, b)
    <3>1. Toward(m, b) \in KidsOf(m, B, S)
      BY <1>3, <2>2 DEF KidsOf, IsStrictPrefix
    <3>2. IsPrefix(q, b)
      BY <1>0, <1>3, <2>2, <3>1, TowardIsChild
    <3> QED
      BY <1>p, <3>2 DEF Lowest
  <2>3. CASE ~IsPrefix(m, b)
    <3>1. Meet(b, m) \in B /\ IsPrefix(Meet(b, m), m) /\ Meet(b, m) # m
      BY <1>2, <2>1, <2>3, PartAbove
    <3> QED
      BY <3>1 DEF IsStrictPrefix
  <2> QED
    BY <2>2, <2>3
<1>4. B = {m}
  BY <1>3
<1>5. ASSUME NEW p \in S
      PROVE  p = q
  <2>1. IsChild(m, p)
    BY <1>p, <1>4 DEF Hung
  <2> QED
    BY <2>1 DEF KidsOf
<1>6. S = {q}
  BY <1>5
<1>7. Under(q, W) = W
  BY <1>p, <1>6 DEF Reaches, Under
<1> QED
  BY <1>1, <1>4, <1>6, <1>7

-----------------------------------------------------------------------------
(* The invariant *)

\* Each slot holds what is wanted below it.
SlotsHold(s, w) ==
    \A p \in DOMAIN s :
        /\ s[p].kind \in Kinds /\ s[p] = Slot(s[p].kind, RecordAt(p, w))
        /\ MayBe(s[p].kind, p, w)

DiskOf(s) == {s[p].rec : p \in {q \in DOMAIN s : s[q].kind = "Disk"}}

Wanted(w) == DOMAIN w \subseteq Keys /\ \A k \in DOMAIN w : w[k] \in Val
Sound(B, s, l, w) == IsCut(B, DOMAIN s, DOMAIN w) /\ SlotsHold(s, w) /\ l = DiskOf(s)
Failed(B, s, w)   == B = {} /\ s = <<>> /\ \E k \in DOMAIN w : DOMAIN w = {k}

Inv ==
    /\ Wanted(want) /\ fanOut \in BOOLEAN
    /\ \/ err = "none" /\ Sound(branches, slots, live, want) /\ (fanOut => <<>> \in branches)
       \/ err = "below two keys" /\ Failed(branches, slots, want)

-----------------------------------------------------------------------------
(* Contents of slots *)

LEMMA PutIs ==
    ASSUME NEW d, NEW k, NEW v
    PROVE  /\ DOMAIN Put(d, k, v) = DOMAIN d \cup {k} /\ Put(d, k, v)[k] = v
           /\ \A x \in DOMAIN d \ {k} : Put(d, k, v)[x] = d[x]
BY DEF Put, Over, Only

LEMMA WithoutIs ==
    ASSUME NEW d, NEW k
    PROVE  /\ DOMAIN Without(d, k) = DOMAIN d \ {k}
           /\ \A x \in DOMAIN d \ {k} : Without(d, k)[x] = d[x]
BY DEF Without, Restrict

LEMMA RecordAtSame ==
    ASSUME NEW p, NEW d, NEW e, Under(p, DOMAIN d) = Under(p, DOMAIN e),
           \A k \in Under(p, DOMAIN d) : d[k] = e[k]
    PROVE  RecordAt(p, d) = RecordAt(p, e)
BY DEF RecordAt, Record, Restrict

LEMMA RecordAtIs ==
    ASSUME NEW p, NEW d
    PROVE  /\ RecordAt(p, d).prefix = p
           /\ DOMAIN RecordAt(p, d).data = Under(p, DOMAIN d)
           /\ \A k \in Under(p, DOMAIN d) : RecordAt(p, d).data[k] = d[k]
BY DEF RecordAt, Record, Restrict

\* An account elsewhere changes no record.
LEMMA PutElsewhere ==
    ASSUME NEW p, NEW d, NEW k, NEW v, ~IsPrefix(p, k)
    PROVE  RecordAt(p, Put(d, k, v)) = RecordAt(p, d)
<1>1. PICK e : e = Put(d, k, v)
  OBVIOUS
<1>2. DOMAIN e = DOMAIN d \cup {k} /\ \A x \in DOMAIN d \ {k} : e[x] = d[x]
  BY <1>1 DEF Put, Over, Only
<1>3. Under(p, DOMAIN e) = Under(p, DOMAIN d) /\ \A x \in Under(p, DOMAIN e) : e[x] = d[x]
  BY <1>2 DEF Under
<1> QED
  BY <1>1, <1>3, RecordAtSame

LEMMA WithoutElsewhere ==
    ASSUME NEW p, NEW d, NEW k, ~IsPrefix(p, k)
    PROVE  RecordAt(p, Without(d, k)) = RecordAt(p, d)
<1>1. PICK e : e = Without(d, k)
  OBVIOUS
<1>2. DOMAIN e = DOMAIN d \ {k} /\ \A x \in DOMAIN d \ {k} : e[x] = d[x]
  BY <1>1, WithoutIs
<1>3. Under(p, DOMAIN e) = Under(p, DOMAIN d) /\ \A x \in Under(p, DOMAIN e) : e[x] = d[x]
  BY <1>2 DEF Under
<1> QED
  BY <1>1, <1>3, RecordAtSame

LEMMA SlotIs == \A c, r : Slot(c, r).kind = c /\ Slot(c, r).rec = r
BY DEF Slot

LEMMA HoldsIs ==
    ASSUME NEW s, NEW w, SlotsHold(s, w), NEW p \in DOMAIN s
    PROVE  /\ s[p].kind \in Kinds /\ s[p] = Slot(s[p].kind, RecordAt(p, w))
           /\ MayBe(s[p].kind, p, w)
           /\ s[p].rec = RecordAt(p, w) /\ s[p].rec.prefix = p
           /\ DOMAIN s[p].rec.data = Under(p, DOMAIN w)
           /\ \A k \in Under(p, DOMAIN w) : s[p].rec.data[k] = w[k]
<1>1. s[p].kind \in Kinds /\ s[p] = Slot(s[p].kind, RecordAt(p, w)) /\ MayBe(s[p].kind, p, w)
  BY DEF SlotsHold
<1>2. s[p].rec = RecordAt(p, w)
  BY <1>1, SlotIs
<1> QED
  BY <1>1, <1>2, RecordAtIs

LEMMA HoldsWhenSame ==
    ASSUME NEW s, NEW t, NEW w, NEW v, SlotsHold(s, w), DOMAIN t \subseteq DOMAIN s,
           \A p \in DOMAIN t : t[p] = s[p] /\ RecordAt(p, v) = RecordAt(p, w)
    PROVE  SlotsHold(t, v)
BY DEF SlotsHold, MayBe

\* The records that stay when the one of p is freed.
LEMMA FreedRecords ==
    ASSUME NEW s, NEW w, SlotsHold(s, w), NEW p \in DOMAIN s
    PROVE  Free(DiskOf(s), FreedOf(s[p])) = DiskOf(Without(s, p))
<1>0. PICK t : t = Without(s, p)
  OBVIOUS
<1>a. DOMAIN t = DOMAIN s \ {p} /\ \A q \in DOMAIN s \ {p} : t[q] = s[q]
  BY <1>0, WithoutIs
<1>1. \A q \in DOMAIN s : s[q].rec.prefix = q
  BY HoldsIs
<1>2. \A x : x \in DiskOf(s) <=> \E q \in DOMAIN s : s[q].kind = "Disk" /\ x = s[q].rec
  BY DEF DiskOf
<1>3. \A x : x \in DiskOf(t)
               <=> \E q \in DOMAIN s \ {p} : s[q].kind = "Disk" /\ x = s[q].rec
  BY <1>a DEF DiskOf
<1>4. CASE s[p].kind = "Disk"
  <2>1. FreedOf(s[p]) = {s[p].rec} /\ s[p].rec \in DiskOf(s)
    BY <1>2, <1>4 DEF FreedOf
  <2>2. Free(DiskOf(s), FreedOf(s[p])) = DiskOf(s) \ {s[p].rec}
    BY <2>1 DEF Free
  <2>3. \A x : x \in DiskOf(s) \ {s[p].rec} <=> x \in DiskOf(t)
    BY <1>1, <1>2, <1>3
  <2> QED
    BY <1>0, <2>2, <2>3
<1>5. CASE s[p].kind # "Disk"
  <2>1. Free(DiskOf(s), FreedOf(s[p])) = DiskOf(s)
    BY <1>5 DEF Free, FreedOf
  <2>2. \A x : x \in DiskOf(s) <=> x \in DiskOf(t)
    BY <1>2, <1>3, <1>5
  <2> QED
    BY <1>0, <2>1, <2>2
<1> QED
  BY <1>0, <1>4, <1>5

\* What Place does: the new slots are added to those of s, and hold what is wanted.
LEMMA Placed ==
    ASSUME NEW p, NEW d, NEW bs, NEW kinds \in SUBSET Kinds, NEW s, NEW w,
           SlotsHold(s, w), Place(p, d, bs, kinds, s, DiskOf(s)),
           Pieces(p, d, bs) \cap DOMAIN s = {},
           \A q \in Pieces(p, d, bs) : RecordAt(q, d) = RecordAt(q, w)
    PROVE  /\ DOMAIN slots' = Pieces(p, d, bs) \cup DOMAIN s
           /\ SlotsHold(slots', w) /\ live' = DiskOf(slots')
<1> DEFINE N == Pieces(p, d, bs)
<1>1. PICK kind \in [N -> kinds] :
        /\ \A q \in N : MayBe(kind[q], q, d)
        /\ slots' = Over([q \in N |-> Slot(kind[q], RecordAt(q, d))], s)
        /\ live' = Write(DiskOf(s), {RecordAt(q, d) : q \in {n \in N : kind[n] = "Disk"}})
  BY DEF Place
<1> HIDE DEF N
<1>2. /\ DOMAIN slots' = N \cup DOMAIN s
      /\ \A q \in N : slots'[q] = Slot(kind[q], RecordAt(q, d))
      /\ \A q \in DOMAIN s \ N : slots'[q] = s[q]
  BY <1>1 DEF Over
<1>3. N \cap DOMAIN s = {} /\ \A q \in N : RecordAt(q, d) = RecordAt(q, w)
  BY DEF N
<1>4. ASSUME NEW q \in N
      PROVE  /\ slots'[q].kind = kind[q] /\ slots'[q].rec = RecordAt(q, w)
             /\ slots'[q].kind \in Kinds
             /\ slots'[q] = Slot(slots'[q].kind, RecordAt(q, w)) /\ MayBe(slots'[q].kind, q, w)
  <2>1. slots'[q] = Slot(kind[q], RecordAt(q, w)) /\ kind[q] \in Kinds
    BY <1>1, <1>2, <1>3
  <2>2. slots'[q].kind = kind[q] /\ slots'[q].rec = RecordAt(q, w)
    BY <2>1, SlotIs
  <2>3. MayBe(kind[q], q, w)
    BY <1>1, <1>3 DEF MayBe
  <2> QED
    BY <2>1, <2>2, <2>3
<1>5. ASSUME NEW q \in DOMAIN s
      PROVE  /\ slots'[q] = s[q] /\ slots'[q].kind \in Kinds
             /\ slots'[q] = Slot(slots'[q].kind, RecordAt(q, w)) /\ MayBe(slots'[q].kind, q, w)
  <2>1. slots'[q] = s[q]
    BY <1>2, <1>3
  <2> QED
    BY <2>1, HoldsIs
<1>6. SlotsHold(slots', w)
  BY <1>2, <1>4, <1>5 DEF SlotsHold
<1> DEFINE D == {RecordAt(q, d) : q \in {n \in N : kind[n] = "Disk"}}
<1>7. D \cap DiskOf(s) = {}
  <2>1. ASSUME NEW q \in N, NEW r \in DOMAIN s, RecordAt(q, d) = s[r].rec
        PROVE  FALSE
    <3>1. q = r
      BY <2>1, HoldsIs, RecordAtIs
    <3> QED
      BY <1>3, <3>1
  <2> QED
    BY <2>1 DEF DiskOf
<1>8. live' = DiskOf(s) \cup D
  BY <1>1, <1>7 DEF Write
<1>9. ASSUME NEW x
      PROVE  x \in DiskOf(s) \cup D <=> x \in DiskOf(slots')
  <2>1. x \in DiskOf(slots') <=> \E q \in DOMAIN slots' : slots'[q].kind = "Disk" /\ x = slots'[q].rec
    BY DEF DiskOf
  <2>2. x \in DiskOf(s) <=> \E q \in DOMAIN s : s[q].kind = "Disk" /\ x = s[q].rec
    BY DEF DiskOf
  <2>3. x \in D <=> \E q \in N : kind[q] = "Disk" /\ x = RecordAt(q, w)
    BY <1>3
  <2> HIDE DEF D
  <2>4. x \in D <=> \E q \in N : slots'[q].kind = "Disk" /\ x = slots'[q].rec
    BY <1>4, <2>3
  <2>5. x \in DiskOf(s) <=> \E q \in DOMAIN s : slots'[q].kind = "Disk" /\ x = slots'[q].rec
    BY <1>5, <2>2
  <2> QED
    BY <1>2, <2>1, <2>4, <2>5
<1>10. live' = DiskOf(slots')
  BY <1>8, <1>9
<1> QED
  BY <1>2, <1>6, <1>10 DEF N

\* A record of p that was rewritten, for the wanted accounts w.
LEMMA Finished ==
    ASSUME NEW p, NEW d, NEW s, NEW w, NEW S, p \in S, IsCut(branches, S, DOMAIN w),
           DOMAIN s = S \ {p}, SlotsHold(s, w),
           DOMAIN d = Under(p, DOMAIN w), \A k \in DOMAIN d : d[k] = w[k],
           Finish(p, d, s, DiskOf(s))
    PROVE  Sound(branches', slots', live', w) /\ branches \subseteq branches'
<1>1. PICK bs \in SUBSET BranchPoints(DOMAIN d) :
        /\ IsTopPart(bs, DOMAIN d)
        /\ branches' = branches \cup bs
        /\ Place(p, d, bs, Kinds, s, DiskOf(s))
  BY DEF Finish
<1> DEFINE N == Pieces(p, d, bs)
<1>2. /\ IsCut(branches \cup bs, (S \ {p}) \cup N, DOMAIN w)
      /\ N \cap (S \ {p}) = {}
      /\ \A q \in N : Under(q, DOMAIN d) = Under(q, DOMAIN w)
  <2>1. CASE bs = {}
    <3>1. N = {p} /\ (S \ {p}) \cup N = S /\ branches \cup bs = branches
      BY <2>1 DEF Pieces
    <3>2. Under(p, DOMAIN d) = Under(p, DOMAIN w)
      BY DEF Under
    <3> QED
      BY <3>1, <3>2
  <2>2. CASE bs # {}
    <3>1. N = Ends(bs, Under(p, DOMAIN w))
      BY <2>2 DEF Pieces
    <3>2. IsTopPart(bs, Under(p, DOMAIN w))
      BY <1>1
    <3> HIDE DEF N
    <3> QED
      BY <2>2, <3>1, <3>2, CutRefine
  <2> QED
    BY <2>1, <2>2
<1>3. \A q \in N : RecordAt(q, d) = RecordAt(q, w)
  <2> HIDE DEF N
  <2>1. ASSUME NEW q \in N
        PROVE  RecordAt(q, d) = RecordAt(q, w)
    <3>1. Under(q, DOMAIN d) = Under(q, DOMAIN w) /\ \A k \in Under(q, DOMAIN d) : k \in DOMAIN d
      BY <1>2 DEF Under
    <3> QED
      BY <3>1, RecordAtSame
  <2> QED
    BY <2>1
<1>4. /\ DOMAIN slots' = N \cup DOMAIN s
      /\ SlotsHold(slots', w) /\ live' = DiskOf(slots')
  BY <1>1, <1>2, <1>3, Placed
<1>5. DOMAIN slots' = (S \ {p}) \cup N
  BY <1>4
<1> HIDE DEF N
<1> QED
  BY <1>1, <1>2, <1>4, <1>5 DEF Sound

-----------------------------------------------------------------------------
(* A branch that lost a child *)

LEMMA Folded ==
    ASSUME NEW m \in branches, NEW s, NEW w, IsCutBut(m, branches, DOMAIN s, DOMAIN w),
           SlotsHold(s, w), err = "none", Fold(m, s, DiskOf(s))
    PROVE  \/ /\ err' = "none" /\ Sound(branches', slots', live', w)
              /\ \A b \in branches : b # m /\ IsPrefix(b, m) => b \in branches'
           \/ /\ err' = "below two keys" /\ Failed(branches', slots', w)
              /\ \A b \in branches : b = m
<1>a. PICK S : S = DOMAIN s
  OBVIOUS
<1>b. PICK W : W = DOMAIN w
  OBVIOUS
<1>c. PICK K : K = KidsOf(m, branches, S)
  OBVIOUS
<1>d. IsCutBut(m, branches, S, W)
  BY <1>a, <1>b
<1>1. K = Kids(m, s)
  BY <1>a, <1>c DEF Kids, KidsOf
<1>2. CASE (\E p, q \in Kids(m, s) : p # q) /\ UNCHANGED <<branches, err>> /\ slots' = s /\ live' = DiskOf(s)
  <2>1. IsCut(branches, DOMAIN s, DOMAIN w)
    BY <1>a, <1>b, <1>c, <1>d, <1>1, <1>2, TwoKids
  <2> QED
    BY <1>2, <2>1 DEF Sound
<1>3. ASSUME \A p, q \in K : p = q, \A q \in K : q \notin DOMAIN s,
             branches' = branches \ {m}, err' = err, slots' = s, live' = DiskOf(s)
      PROVE  err' = "none" /\ Sound(branches', slots', live', w)
  <2>1. m \notin BranchPoints(W)
    BY <1>c, <1>d, <1>3, LoneKid
  <2>2. \A q \in S : ~IsChild(m, q)
    BY <1>a, <1>c, <1>3 DEF KidsOf
  <2>3. IsCut(branches \ {m}, S, W)
    BY <1>d, <2>1, <2>2, DropBranch
  <2> QED
    BY <1>a, <1>b, <1>3, <2>3 DEF Sound
<1>4. ASSUME NEW q \in DOMAIN s, K = {q}, NEW a \in branches, IsParent(a, m),
             Rehome(a, m, q, s, DiskOf(s)), err' = err
      PROVE  err' = "none" /\ Sound(branches', slots', live', w) /\ branches' = branches \ {m}
  <2>1. PICK r : r = Toward(a, m)
    OBVIOUS
  <2>2. PICK d : d = s[q].rec.data
    OBVIOUS
  <2>3. PICK t : t = Without(s, q)
    OBVIOUS
  <2>4. PICK kinds : kinds = IF s[q].kind = "Disk" THEN RecordKinds ELSE {s[q].kind}
    OBVIOUS
  <2>5. kinds \in SUBSET Kinds
    BY <2>4, HoldsIs DEF Kinds, RecordKinds
  <2>6. branches' = branches \ {m} /\ Place(r, d, {}, kinds, t, DiskOf(t))
    BY <1>4, <2>1, <2>2, <2>3, <2>4, FreedRecords DEF Rehome
  <2>7. /\ IsCut(branches \ {m}, (S \ {q}) \cup {r}, W)
        /\ r \notin S \ {q}
        /\ Under(r, W) = Under(q, W)
    <3>1. IsStrictPrefix(a, m) /\ \A b \in branches : IsStrictPrefix(b, m) => IsPrefix(b, a)
      BY <1>4 DEF IsParent
    <3> QED
      <4>1. q \in S /\ KidsOf(m, branches, S) = {q} /\ a \in branches
        BY <1>a, <1>c, <1>4
      <4>2. /\ IsCut(branches \ {m}, (S \ {q}) \cup {Toward(a, m)}, W)
            /\ Toward(a, m) \notin S \ {q}
            /\ Under(Toward(a, m), W) = Under(q, W)
        BY <1>d, <3>1, <4>1, CutRehome
      <4> QED
        BY <2>1, <4>2
  <2>8. DOMAIN t = DOMAIN s \ {q} /\ SlotsHold(t, w)
    <3>1. DOMAIN t = DOMAIN s \ {q} /\ \A p \in DOMAIN t : t[p] = s[p]
      BY <2>3, WithoutIs
    <3> QED
      BY <3>1, HoldsWhenSame
  <2>9. DOMAIN d = Under(r, DOMAIN w) /\ \A k \in DOMAIN d : d[k] = w[k]
    BY <1>b, <2>2, <2>7, HoldsIs
  <2>10. Under(r, DOMAIN d) = Under(r, DOMAIN w) /\ \A k \in Under(r, DOMAIN d) : k \in DOMAIN d
    BY <2>9 DEF Under
  <2>11. RecordAt(r, d) = RecordAt(r, w)
    BY <2>9, <2>10, RecordAtSame
  <2>12. Pieces(r, d, {}) = {r}
    BY DEF Pieces
  <2>13. /\ DOMAIN slots' = {r} \cup DOMAIN t
         /\ SlotsHold(slots', w) /\ live' = DiskOf(slots')
    <3>1. Pieces(r, d, {}) \cap DOMAIN t = {}
      BY <1>a, <2>7, <2>8, <2>12
    <3>2. \A n \in Pieces(r, d, {}) : RecordAt(n, d) = RecordAt(n, w)
      BY <2>11, <2>12
    <3>3. /\ DOMAIN slots' = Pieces(r, d, {}) \cup DOMAIN t
          /\ SlotsHold(slots', w) /\ live' = DiskOf(slots')
      BY <2>5, <2>6, <2>8, <3>1, <3>2, Placed
    <3> QED
      BY <2>12, <3>3
  <2>14. DOMAIN slots' = (S \ {q}) \cup {r}
    BY <1>a, <2>8, <2>13
  <2> QED
    BY <1>b, <1>4, <2>6, <2>7, <2>13, <2>14 DEF Sound
<1>5. ASSUME NEW q \in DOMAIN s, K = {q}, \A a \in branches : ~IsStrictPrefix(a, m),
             collapse_root(m, q, s, DiskOf(s))
      PROVE  /\ \A b \in branches : b = m
             /\ \/ err' = "none" /\ Sound(branches', slots', live', w)
                \/ err' = "below two keys" /\ Failed(branches', slots', w)
  <2>1. branches = {m} /\ S = {q} /\ Under(q, W) = W /\ W # {}
    BY <1>a, <1>c, <1>d, <1>5, CutIsOneSlot
  <2>2. PICK d : d = s[q].rec.data
    OBVIOUS
  <2>3. DOMAIN d = DOMAIN w /\ \A k \in DOMAIN d : d[k] = w[k]
    BY <1>b, <2>1, <2>2, HoldsIs
  <2>4. CASE IsAlone(d) /\ err' = "below two keys" /\ branches' = {} /\ slots' = <<>>
    <3>1. \A k, l \in DOMAIN w : k = l
      BY <2>3, <2>4 DEF IsAlone
    <3>2. PICK k \in DOMAIN w : TRUE
      BY <1>b, <2>1
    <3>3. DOMAIN w = {k}
      BY <3>1
    <3> QED
      BY <2>1, <2>4, <3>3 DEF Failed
  <2>5. CASE /\ err' = err
             /\ \E bs \in SUBSET BranchPoints(DOMAIN d) :
                  /\ bs # {} /\ IsTopPart(bs, DOMAIN d)
                  /\ branches' = (branches \ {m}) \cup bs
                  /\ Place(<<>>, d, bs, Kinds, Without(s, q), Free(DiskOf(s), FreedOf(s[q])))
    <3>1. PICK bs \in SUBSET BranchPoints(DOMAIN d) :
            /\ bs # {} /\ IsTopPart(bs, DOMAIN d)
            /\ branches' = (branches \ {m}) \cup bs
            /\ Place(<<>>, d, bs, Kinds, Without(s, q), Free(DiskOf(s), FreedOf(s[q])))
      BY <2>5
    <3>2. PICK t : t = Without(s, q)
      OBVIOUS
    <3>3. Place(<<>>, d, bs, Kinds, t, DiskOf(t))
      BY <3>1, <3>2, FreedRecords
    <3>4. DOMAIN t = {} /\ SlotsHold(t, w)
      <4>1. DOMAIN t = DOMAIN s \ {q}
        BY <3>2, WithoutIs
      <4> QED
        BY <1>a, <2>1, <4>1, HoldsWhenSame
    <3>5. PICK N : N = Ends(bs, W)
      OBVIOUS
    <3>6. Pieces(<<>>, d, bs) = N
      BY <1>b, <2>3, <3>1, <3>5 DEF Pieces
    <3>7. W \in SUBSET Key
      BY <1>d, ButParts
    <3>8. IsCut(bs, N, W)
      BY <1>b, <2>3, <3>1, <3>5, <3>7, CutFresh
    <3>9. \A n \in N : RecordAt(n, d) = RecordAt(n, w)
      <4>1. ASSUME NEW n \in N
            PROVE  RecordAt(n, d) = RecordAt(n, w)
        <5>1. Under(n, DOMAIN d) = Under(n, DOMAIN w) /\ \A k \in Under(n, DOMAIN d) : k \in DOMAIN d
          BY <2>3 DEF Under
        <5> QED
          BY <2>3, <5>1, RecordAtSame
      <4> QED
        BY <4>1
    <3>10. /\ DOMAIN slots' = N \cup DOMAIN t
           /\ SlotsHold(slots', w) /\ live' = DiskOf(slots')
      <4>1. Pieces(<<>>, d, bs) \cap DOMAIN t = {}
        BY <3>4
      <4>2. \A n \in Pieces(<<>>, d, bs) : RecordAt(n, d) = RecordAt(n, w)
        BY <3>6, <3>9
      <4>3. /\ DOMAIN slots' = Pieces(<<>>, d, bs) \cup DOMAIN t
            /\ SlotsHold(slots', w) /\ live' = DiskOf(slots')
        BY <3>3, <3>4, <4>1, <4>2, Placed
      <4> QED
        BY <3>6, <4>3
    <3>11. DOMAIN slots' = N /\ branches' = bs
      BY <2>1, <3>1, <3>4, <3>10
    <3> QED
      BY <1>b, <2>1, <2>5, <3>8, <3>10, <3>11 DEF Sound
  <2> QED
    BY <1>5, <2>2, <2>4, <2>5 DEF collapse_root
<1>6. \A b \in branches : b # m /\ IsPrefix(b, m) => b \in branches \ {m} /\ IsStrictPrefix(b, m)
  BY DEF IsStrictPrefix
<1>7. CASE Kids(m, s) = {} /\ branches' = branches \ {m} /\ err' = err /\ slots' = s /\ live' = DiskOf(s)
  BY <1>1, <1>3, <1>6, <1>7
<1>8. ASSUME NEW q \in Kids(m, s), Kids(m, s) = {q}, q \notin DOMAIN s,
             branches' = branches \ {m}, err' = err, slots' = s, live' = DiskOf(s)
      PROVE  err' = "none" /\ Sound(branches', slots', live', w)
  BY <1>1, <1>3, <1>8
<1> QED
  BY <1>1, <1>2, <1>4, <1>5, <1>6, <1>7, <1>8 DEF Fold

-----------------------------------------------------------------------------
(* The actions *)

\* What an action on accounts starts from.
Ready == Wanted(want) /\ fanOut \in BOOLEAN /\ err = "none"
         /\ Sound(branches, slots, live, want) /\ (fanOut => <<>> \in branches)

LEMMA ReadyIs ==
    ASSUME Inv, err = "none"
    PROVE  Ready
BY DEF Inv, Ready

\* The slot p of the last accounts at which a walk for k ends, and what is there.
LEMMA SlotOnWay ==
    ASSUME Ready, NEW k \in Key, NEW m, LeavesAt(m, k), ChildFor(m, k) \in DOMAIN slots
    PROVE  LET p == ChildFor(m, k) IN
           /\ m \in branches /\ m \in Path /\ IsChild(m, p) /\ IsPrefix(p, k) /\ p \in Path
           /\ \A q \in DOMAIN slots : IsPrefix(q, k) => q = p
           /\ DOMAIN slots[p].rec.data = Under(p, DOMAIN want)
           /\ \A x \in Under(p, DOMAIN want) : slots[p].rec.data[x] = want[x]
           /\ Free(live, FreedOf(slots[p])) = DiskOf(Without(slots, p))
<1>0. PICK S, W : S = DOMAIN slots /\ W = DOMAIN want
  OBVIOUS
<1>1. IsCut(branches, S, W) /\ SlotsHold(slots, want) /\ live = DiskOf(slots)
  BY <1>0 DEF Ready, Sound
<1>2. branches \in SUBSET Inner
  BY <1>1, CutParts
<1>3. PICK p : p = ChildFor(m, k)
  OBVIOUS
<1>4. Leaves(branches, m, k) /\ p = Toward(m, k)
  BY <1>3 DEF LeavesAt, Leaves, ChildFor
<1>5. m \in Path /\ IsChild(m, p) /\ IsPrefix(p, k) /\ p \in Path
  BY <1>2, <1>4, WalkIs
<1>6. \A q \in S : IsPrefix(q, k) => q = p /\ m \in branches
  BY <1>1, <1>4, WalkSlot
<1>7. p \in DOMAIN slots
  BY <1>3
<1>8. /\ DOMAIN slots[p].rec.data = Under(p, DOMAIN want)
      /\ \A x \in Under(p, DOMAIN want) : slots[p].rec.data[x] = want[x]
  BY <1>1, <1>7, HoldsIs
<1>9. Free(live, FreedOf(slots[p])) = DiskOf(Without(slots, p))
  BY <1>1, <1>7, FreedRecords
<1> QED
  BY <1>0, <1>3, <1>5, <1>6, <1>7, <1>8, <1>9

LEMMA WantedPut ==
    ASSUME Wanted(want), NEW k \in Keys, NEW v \in Val
    PROVE  Wanted(Put(want, k, v))
<1>1. PICK w : w = Put(want, k, v)
  OBVIOUS
<1>2. DOMAIN w = DOMAIN want \cup {k} /\ w[k] = v /\ \A x \in DOMAIN want \ {k} : w[x] = want[x]
  BY <1>1 DEF Put, Over, Only
<1>3. Wanted(w)
  BY <1>2 DEF Wanted
<1> QED
  BY <1>1, <1>3

LEMMA WantedWithout ==
    ASSUME Wanted(want), NEW k
    PROVE  Wanted(Without(want, k))
BY DEF Wanted, Without, Restrict

\* A lone account, where it is the only one.
LEMMA LoneRecord ==
    ASSUME NEW q, NEW k, NEW v, NEW w, IsPrefix(q, k), Under(q, DOMAIN w) = {k}, w[k] = v
    PROVE  RecordAt(q, Only(k, v)) = RecordAt(q, w)
<1>1. PICK d : d = Only(k, v)
  OBVIOUS
<1>2. DOMAIN d = {k} /\ d[k] = v
  BY <1>1 DEF Only
<1>3. Under(q, DOMAIN d) = {k}
  BY <1>2 DEF Under
<1>4. RecordAt(q, d) = RecordAt(q, w)
  BY <1>2, <1>3, RecordAtSame
<1> QED
  BY <1>1, <1>4

LEMMA InsertFirstKeeps ==
    ASSUME Ready, NEW k \in Keys, NEW v \in Val, InsertFirst(k, v)
    PROVE  Inv'
<1>0. PICK S, W, w : S = DOMAIN slots /\ W = DOMAIN want /\ w = Put(want, k, v)
  OBVIOUS
<1>1. k \in Key
  BY CutAssumption
<1>2. IsCut({}, S, W)
  BY <1>0 DEF Ready, Sound, InsertFirst
<1>3. PICK q : q = Toward(<<>>, k)
  OBVIOUS
<1>4. S = {} /\ W = {} /\ q \in Path /\ IsPrefix(q, k) /\ IsCut({<<>>}, {q}, {k})
  BY <1>1, <1>2, <1>3, CutFirst
<1>5. DOMAIN w = {k} /\ w[k] = v
  BY <1>0, <1>4 DEF Put, Over, Only
<1>6. Under(q, DOMAIN w) = {k}
  BY <1>4, <1>5 DEF Under
<1>7. RecordAt(q, Only(k, v)) = RecordAt(q, w)
  BY <1>4, <1>5, <1>6, LoneRecord
<1>8. SlotsHold(slots, w) /\ live = DiskOf(slots)
  BY <1>0, <1>4 DEF Ready, Sound, SlotsHold
<1>9. Place(q, Only(k, v), {}, Kinds, slots, DiskOf(slots))
  BY <1>3, <1>8 DEF InsertFirst
<1>10. Pieces(q, Only(k, v), {}) = {q}
  BY DEF Pieces
<1>11. \A n \in Pieces(q, Only(k, v), {}) : RecordAt(n, Only(k, v)) = RecordAt(n, w)
  BY <1>7, <1>10
<1>12. Pieces(q, Only(k, v), {}) \cap DOMAIN slots = {}
  BY <1>0, <1>4
<1>13. /\ DOMAIN slots' = Pieces(q, Only(k, v), {}) \cup DOMAIN slots
       /\ SlotsHold(slots', w) /\ live' = DiskOf(slots')
  BY <1>8, <1>9, <1>11, <1>12, Placed
<1>14. DOMAIN slots' = {q}
  BY <1>0, <1>4, <1>10, <1>13
<1>15. Sound({<<>>}, slots', live', w)
  BY <1>4, <1>5, <1>13, <1>14 DEF Sound
<1>16. Wanted(w)
  BY <1>0, WantedPut DEF Ready
<1> QED
  BY <1>0, <1>15, <1>16 DEF Inv, Ready, InsertFirst

LEMMA InsertBesideKeeps ==
    ASSUME Ready, NEW k \in Keys, NEW v \in Val, NEW m, InsertBeside(m, k, v)
    PROVE  Inv'
<1>0. PICK S, W, w : S = DOMAIN slots /\ W = DOMAIN want /\ w = Put(want, k, v)
  OBVIOUS
<1>1. k \in Key
  BY CutAssumption
<1>2. IsCut(branches, S, W) /\ SlotsHold(slots, want) /\ live = DiskOf(slots)
  BY <1>0 DEF Ready, Sound
<1>3. PICK q : q = Toward(m, k)
  OBVIOUS
<1>4. Leaves(branches, m, k) /\ q \notin S
  BY <1>0, <1>3 DEF InsertBeside, LeavesAt, Leaves, ChildFor
<1>5. k \notin W /\ IsCut(branches \cup {m}, S \cup {q}, W \cup {k})
  BY <1>1, <1>2, <1>3, <1>4, CutBeside
<1>6. branches \in SUBSET Inner
  BY <1>2, CutParts
<1>7. q \in Path /\ IsPrefix(q, k)
  BY <1>1, <1>3, <1>4, <1>6, WalkIs
<1>8. \A p \in S : ~IsPrefix(p, k)
  BY <1>1, <1>2, <1>3, <1>4, WalkSlot
<1>9. DOMAIN w = W \cup {k} /\ w[k] = v
  BY <1>0 DEF Put, Over, Only
<1>10. Under(q, DOMAIN w) = {k}
  <2>1. /\ branches \cup {m} \in SUBSET Path /\ S \cup {q} \in SUBSET Path /\ W \in SUBSET Path
        /\ Hung(branches \cup {m}, S \cup {q}) /\ Lowest(branches \cup {m}, S \cup {q})
        /\ Reaches(S, W)
    BY <1>2, <1>5, CutParts, InnerIsPath, KeyIsPath
  <2>2. ASSUME NEW x \in W, IsPrefix(q, x)
        PROVE  FALSE
    <3>1. PICK p \in S : IsPrefix(p, x)
      BY <2>1 DEF Reaches
    <3>2. x \in Path /\ p \in S \cup {q} /\ q \in S \cup {q}
      BY <2>1
    <3>3. p = q
      BY <2>1, <2>2, <3>1, <3>2, SlotsApart
    <3> QED
      BY <1>4, <3>3
  <2> QED
    BY <1>7, <1>9, <2>2 DEF Under
<1>11. RecordAt(q, Only(k, v)) = RecordAt(q, w)
  BY <1>7, <1>9, <1>10, LoneRecord
<1>12. SlotsHold(slots, w)
  <2>1. \A p \in DOMAIN slots : RecordAt(p, w) = RecordAt(p, want)
    BY <1>0, <1>8, PutElsewhere
  <2> QED
    BY <1>2, <2>1, HoldsWhenSame
<1>13. Place(q, Only(k, v), {}, Kinds, slots, DiskOf(slots))
  BY <1>2, <1>3 DEF InsertBeside, ChildFor
<1>14. Pieces(q, Only(k, v), {}) = {q}
  BY DEF Pieces
<1>15. \A n \in Pieces(q, Only(k, v), {}) : RecordAt(n, Only(k, v)) = RecordAt(n, w)
  BY <1>11, <1>14
<1>16. Pieces(q, Only(k, v), {}) \cap DOMAIN slots = {}
  BY <1>0, <1>4, <1>14
<1>17. /\ DOMAIN slots' = Pieces(q, Only(k, v), {}) \cup DOMAIN slots
       /\ SlotsHold(slots', w) /\ live' = DiskOf(slots')
  BY <1>12, <1>13, <1>15, <1>16, Placed
<1>18. DOMAIN slots' = S \cup {q}
  BY <1>0, <1>14, <1>17
<1>19. Sound(branches \cup {m}, slots', live', w)
  BY <1>5, <1>9, <1>17, <1>18 DEF Sound
<1>20. Wanted(w)
  BY <1>0, WantedPut DEF Ready
<1> QED
  BY <1>0, <1>19, <1>20 DEF Inv, Ready, InsertBeside

LEMMA SplitAccountKeeps ==
    ASSUME Ready, NEW k \in Keys, NEW v \in Val, NEW m, SplitAccount(m, k, v)
    PROVE  Inv'
<1>0. PICK S, W, w, p : S = DOMAIN slots /\ W = DOMAIN want /\ w = Put(want, k, v) /\ p = ChildFor(m, k)
  OBVIOUS
<1>1. k \in Key
  BY CutAssumption
<1>2. IsCut(branches, S, W) /\ SlotsHold(slots, want) /\ live = DiskOf(slots)
  BY <1>0 DEF Ready, Sound
<1>3. PICK d : d = slots[p].rec.data
  OBVIOUS
<1>4. p \in S /\ slots[p].kind = "Account" /\ LeavesAt(m, k)
  BY <1>0 DEF SplitAccount
<1>5. /\ IsPrefix(p, k) /\ p \in Path
      /\ \A q \in S : IsPrefix(q, k) => q = p
      /\ DOMAIN d = Under(p, W) /\ \A x \in Under(p, W) : d[x] = want[x]
      /\ Free(live, FreedOf(slots[p])) = DiskOf(Without(slots, p))
  BY <1>0, <1>1, <1>3, <1>4, SlotOnWay
<1>6. PICK a \in DOMAIN d :
        /\ a # k
        /\ branches' = branches \cup {Meet(a, k)}
        /\ Place(Toward(Meet(a, k), k), Only(k, v), {}, Kinds,
                 Put(Without(slots, p), Toward(Meet(a, k), a),
                     Slot("Account", RecordAt(Toward(Meet(a, k), a), d))), live)
  BY <1>0, <1>3 DEF SplitAccount
<1>7. a \in W /\ IsPrefix(p, a) /\ a \in Key /\ a \in Path /\ k \in Path
  BY <1>1, <1>2, <1>5, <1>6, CutParts, KeyIsPath DEF Under
<1>8. DOMAIN d = {a}
  <2>1. MayBe(slots[p].kind, p, want) /\ DOMAIN RecordAt(p, want).data = Under(p, W)
    BY <1>0, <1>2, <1>4, HoldsIs, RecordAtIs
  <2>2. \A x, y \in Under(p, W) : x = y
    BY <1>4, <2>1 DEF MayBe, IsAlone
  <2> QED
    BY <1>5, <1>6, <2>2
<1>9. PICK n, q, r : n = Meet(a, k) /\ q = Toward(n, k) /\ r = Toward(n, a)
  OBVIOUS
<1>10. /\ n \in Path /\ IsPrefix(n, a) /\ IsPrefix(n, k) /\ n # a /\ n # k
  <2>1. n \in BranchPoints({a, k})
    BY <1>6, <1>9, BranchPointsAre
  <2>2. {a, k} \in SUBSET Key
    BY <1>1, <1>7
  <2>3. n \in Inner
    BY <2>1, <2>2, BranchIsInner
  <2> QED
    BY <1>1, <1>7, <1>9, <2>3, MeetIsPrefix, InnerIsPath
<1>11. /\ q \in Path /\ IsChild(n, q) /\ IsPrefix(q, k)
       /\ r \in Path /\ IsChild(n, r) /\ IsPrefix(r, a)
  BY <1>7, <1>9, <1>10, TowardIsChild
<1>12. ~IsPrefix(q, a) /\ ~IsPrefix(r, k)
  BY <1>7, <1>9, <1>10, <1>11, MeetIsPrefix, ChildIsLonger
<1>13. q # r
  BY <1>11, <1>12
<1>14. PICK V : V = W \cup {k}
  OBVIOUS
<1>15. IsCut(branches, S, V)
  BY <1>1, <1>2, <1>4, <1>5, <1>14, CutAdd
<1>16. Under(p, V) = {a, k}
  BY <1>5, <1>8, <1>14 DEF Under
<1>17. BranchPoints({a, k}) = {n}
  <2>1. Meet(k, a) = n
    BY <1>7, <1>9, MeetCommutes
  <2> QED
    BY <1>6, <1>9, <2>1, BranchPointsAre
<1>18. IsTopPart({n}, {a, k})
  BY <1>17 DEF IsTopPart
<1>19. Ends({n}, {a, k}) = {q, r}
  <2>1. Under(n, {a, k}) = {a, k}
    BY <1>10 DEF Under
  <2>2. UNION {{Toward(b, x) : x \in Under(b, {a, k})} : b \in {n}} = {q, r}
    BY <1>9, <2>1
  <2>3. ~IsPrefix(q, n) /\ ~IsPrefix(r, n)
    BY <1>10, <1>11, ChildIsLonger
  <2> QED
    BY <2>2, <2>3 DEF Ends
<1>20. /\ IsCut(branches \cup {n}, (S \ {p}) \cup {q, r}, V)
       /\ {q, r} \cap (S \ {p}) = {}
       /\ Under(q, {a, k}) = Under(q, V) /\ Under(r, {a, k}) = Under(r, V)
  <2>1. PICK L : L = {n}
    OBVIOUS
  <2>2. L # {} /\ IsTopPart(L, Under(p, V))
    BY <1>16, <1>18, <2>1
  <2>3. PICK E : E = Ends(L, Under(p, V))
    OBVIOUS
  <2>4. /\ IsCut(branches \cup L, (S \ {p}) \cup E, V)
        /\ E \cap (S \ {p}) = {}
        /\ \A x \in E : Under(x, Under(p, V)) = Under(x, V)
    BY <1>4, <1>15, <2>2, <2>3, CutRefine
  <2>5. E = {q, r}
    BY <1>16, <1>19, <2>1, <2>3
  <2> QED
    BY <1>16, <2>1, <2>4, <2>5
<1>21. Under(q, V) = {k} /\ Under(r, V) = {a}
  BY <1>11, <1>12, <1>20 DEF Under
<1>22. DOMAIN w = V /\ w[k] = v /\ w[a] = want[a]
  BY <1>0, <1>6, <1>7, <1>14 DEF Put, Over, Only
<1>23. RecordAt(q, Only(k, v)) = RecordAt(q, w)
  BY <1>11, <1>21, <1>22, LoneRecord
<1>24. RecordAt(r, d) = RecordAt(r, w)
  <2>1. Under(r, DOMAIN d) = {a}
    BY <1>8, <1>11 DEF Under
  <2>2. d[a] = w[a]
    BY <1>5, <1>6, <1>22
  <2> QED
    BY <1>21, <1>22, <2>1, <2>2, RecordAtSame
<1>25. PICK t : t = Put(Without(slots, p), r, Slot("Account", RecordAt(r, d)))
  OBVIOUS
<1>26. /\ DOMAIN t = (S \ {p}) \cup {r} /\ t[r] = Slot("Account", RecordAt(r, w))
       /\ \A x \in S \ {p} : t[x] = slots[x]
  <2>1. r \notin S \ {p}
    BY <1>20
  <2> QED
    BY <1>0, <1>24, <1>25, <2>1 DEF Put, Over, Only, Without, Restrict
<1>27. SlotsHold(t, w)
  <2>1. ASSUME NEW x \in S \ {p}
        PROVE  /\ t[x].kind \in Kinds /\ t[x] = Slot(t[x].kind, RecordAt(x, w))
               /\ MayBe(t[x].kind, x, w)
    <3>1. RecordAt(x, w) = RecordAt(x, want)
      BY <1>0, <1>5, <2>1, PutElsewhere
    <3>2. /\ slots[x].kind \in Kinds /\ slots[x] = Slot(slots[x].kind, RecordAt(x, want))
          /\ MayBe(slots[x].kind, x, want)
      BY <1>0, <1>2, <2>1, HoldsIs
    <3> QED
      BY <1>26, <3>1, <3>2 DEF MayBe
  <2>2. /\ t[r].kind \in Kinds /\ t[r] = Slot(t[r].kind, RecordAt(r, w))
        /\ MayBe(t[r].kind, r, w)
    <3>1. DOMAIN RecordAt(r, w).data = {a}
      BY <1>21, <1>22, RecordAtIs
    <3>2. MayBe("Account", r, w)
      BY <3>1 DEF MayBe, IsAlone
    <3>3. t[r].kind = "Account"
      BY <1>26, SlotIs
    <3> QED
      BY <1>26, <3>2, <3>3 DEF Kinds
  <2> QED
    BY <1>26, <2>1, <2>2 DEF SlotsHold
<1>28. DiskOf(t) = live
  <2>1. live = DiskOf(Without(slots, p))
    BY <1>2, <1>4, <1>5 DEF FreedOf, Free
  <2>2. PICK u : u = Without(slots, p)
    OBVIOUS
  <2>3. DOMAIN u = S \ {p} /\ \A x \in S \ {p} : u[x] = slots[x]
    BY <1>0, <2>2 DEF Without, Restrict
  <2>4. t[r].kind # "Disk"
    BY <1>26, SlotIs
  <2>5. \A x : x \in DiskOf(t) <=> x \in DiskOf(u)
    BY <1>26, <2>3, <2>4 DEF DiskOf
  <2> QED
    BY <2>1, <2>2, <2>5
<1>29. branches' = branches \cup {n} /\ Place(q, Only(k, v), {}, Kinds, t, DiskOf(t))
  BY <1>6, <1>9, <1>25, <1>28
<1>30. Pieces(q, Only(k, v), {}) = {q}
  BY DEF Pieces
<1>31. Pieces(q, Only(k, v), {}) \cap DOMAIN t = {}
  BY <1>13, <1>20, <1>26, <1>30
<1>32. \A x \in Pieces(q, Only(k, v), {}) : RecordAt(x, Only(k, v)) = RecordAt(x, w)
  BY <1>23, <1>30
<1>33. /\ DOMAIN slots' = Pieces(q, Only(k, v), {}) \cup DOMAIN t
       /\ SlotsHold(slots', w) /\ live' = DiskOf(slots')
  BY <1>27, <1>29, <1>31, <1>32, Placed
<1>34. DOMAIN slots' = (S \ {p}) \cup {q, r}
  BY <1>26, <1>30, <1>33
<1>35. Sound(branches', slots', live', w)
  BY <1>20, <1>22, <1>29, <1>33, <1>34 DEF Sound
<1>36. Wanted(w)
  BY <1>0, WantedPut DEF Ready
<1> QED
  BY <1>0, <1>29, <1>35, <1>36 DEF Inv, Ready, SplitAccount

LEMMA RewriteKeeps ==
    ASSUME Ready, NEW k \in Keys, NEW v \in Val, NEW m, Rewrite(m, k, v)
    PROVE  Inv'
<1>0. PICK S, W, w, p : S = DOMAIN slots /\ W = DOMAIN want /\ w = Put(want, k, v) /\ p = ChildFor(m, k)
  OBVIOUS
<1>1. k \in Key
  BY CutAssumption
<1>2. IsCut(branches, S, W) /\ SlotsHold(slots, want) /\ live = DiskOf(slots)
  BY <1>0 DEF Ready, Sound
<1>3. PICK d, t : d = Put(slots[p].rec.data, k, v) /\ t = Without(slots, p)
  OBVIOUS
<1>4. p \in S /\ LeavesAt(m, k)
  BY <1>0 DEF Rewrite
<1>5. /\ IsPrefix(p, k) /\ p \in Path
      /\ \A q \in S : IsPrefix(q, k) => q = p
      /\ DOMAIN slots[p].rec.data = Under(p, W)
      /\ \A x \in Under(p, W) : slots[p].rec.data[x] = want[x]
      /\ Free(live, FreedOf(slots[p])) = DiskOf(Without(slots, p))
  BY <1>0, <1>1, <1>4, SlotOnWay
<1>6. Finish(p, d, t, DiskOf(t))
  BY <1>0, <1>3, <1>5 DEF Rewrite
<1>7. DOMAIN t = S \ {p} /\ \A x \in DOMAIN t : t[x] = slots[x]
  BY <1>0, <1>3 DEF Without, Restrict
<1>8. SlotsHold(t, w)
  <2>1. \A x \in DOMAIN t : RecordAt(x, w) = RecordAt(x, want)
    BY <1>0, <1>5, <1>7, PutElsewhere
  <2> QED
    BY <1>0, <1>2, <1>7, <2>1, HoldsWhenSame
<1>9. DOMAIN w = W \cup {k} /\ w[k] = v /\ \A x \in W \ {k} : w[x] = want[x]
  BY <1>0 DEF Put, Over, Only
<1>10. /\ DOMAIN d = Under(p, W) \cup {k} /\ d[k] = v
       /\ \A x \in Under(p, W) \ {k} : d[x] = want[x]
  BY <1>3, <1>5 DEF Put, Over, Only
<1>11. DOMAIN d = Under(p, DOMAIN w) /\ \A x \in DOMAIN d : d[x] = w[x]
  BY <1>5, <1>9, <1>10 DEF Under
<1>12. IsCut(branches, S, DOMAIN w)
  BY <1>1, <1>2, <1>4, <1>5, <1>9, CutAdd
<1>13. Sound(branches', slots', live', w) /\ branches \subseteq branches'
  BY <1>4, <1>6, <1>7, <1>8, <1>11, <1>12, Finished
<1>14. Wanted(w)
  BY <1>0, WantedPut DEF Ready
<1> QED
  BY <1>0, <1>13, <1>14 DEF Inv, Ready, Rewrite

LEMMA ShrinkKeeps ==
    ASSUME Ready, NEW k \in Keys, NEW m, Shrink(m, k)
    PROVE  Inv'
<1>0. PICK S, W, w, p : S = DOMAIN slots /\ W = DOMAIN want /\ w = Without(want, k) /\ p = ChildFor(m, k)
  OBVIOUS
<1>1. k \in Key
  BY CutAssumption
<1>2. IsCut(branches, S, W) /\ SlotsHold(slots, want) /\ live = DiskOf(slots)
  BY <1>0 DEF Ready, Sound
<1>3. PICK d, t : d = Without(slots[p].rec.data, k) /\ t = Without(slots, p)
  OBVIOUS
<1>4. p \in S /\ LeavesAt(m, k) /\ k \in DOMAIN slots[p].rec.data /\ ~IsAlone(slots[p].rec.data)
  BY <1>0 DEF Shrink
<1>5. /\ IsPrefix(p, k) /\ p \in Path
      /\ \A q \in S : IsPrefix(q, k) => q = p
      /\ DOMAIN slots[p].rec.data = Under(p, W)
      /\ \A x \in Under(p, W) : slots[p].rec.data[x] = want[x]
      /\ Free(live, FreedOf(slots[p])) = DiskOf(Without(slots, p))
  BY <1>0, <1>1, <1>4, SlotOnWay
<1>6. Finish(p, d, t, DiskOf(t))
  BY <1>0, <1>3, <1>5 DEF Shrink
<1>7. DOMAIN t = S \ {p} /\ \A x \in DOMAIN t : t[x] = slots[x]
  BY <1>0, <1>3 DEF Without, Restrict
<1>8. SlotsHold(t, w)
  <2>1. \A x \in DOMAIN t : RecordAt(x, w) = RecordAt(x, want)
    BY <1>0, <1>5, <1>7, WithoutElsewhere
  <2> QED
    BY <1>0, <1>2, <1>7, <2>1, HoldsWhenSame
<1>9. DOMAIN w = W \ {k} /\ \A x \in W \ {k} : w[x] = want[x]
  BY <1>0 DEF Without, Restrict
<1>10. DOMAIN d = Under(p, W) \ {k} /\ \A x \in Under(p, W) \ {k} : d[x] = want[x]
  BY <1>3, <1>5 DEF Without, Restrict
<1>11. DOMAIN d = Under(p, DOMAIN w) /\ \A x \in DOMAIN d : d[x] = w[x]
  BY <1>9, <1>10 DEF Under
<1>12. k \in W /\ \E j \in W \ {k} : IsPrefix(p, j)
  BY <1>4, <1>5 DEF IsAlone, Under
<1>13. IsCut(branches, S, DOMAIN w)
  BY <1>2, <1>4, <1>5, <1>9, <1>12, CutRemove
<1>14. Sound(branches', slots', live', w) /\ branches \subseteq branches'
  BY <1>4, <1>6, <1>7, <1>8, <1>11, <1>13, Finished
<1>15. Wanted(w)
  BY <1>0, WantedWithout DEF Ready
<1> QED
  BY <1>0, <1>14, <1>15 DEF Inv, Ready, Shrink

LEMMA RemoveLastKeeps ==
    ASSUME Ready, NEW k \in Keys, NEW m, RemoveLast(m, k)
    PROVE  Inv'
<1>0. PICK S, W, w, p : S = DOMAIN slots /\ W = DOMAIN want /\ w = Without(want, k) /\ p = ChildFor(m, k)
  OBVIOUS
<1>1. k \in Key
  BY CutAssumption
<1>2. IsCut(branches, S, W) /\ SlotsHold(slots, want) /\ live = DiskOf(slots)
  BY <1>0 DEF Ready, Sound
<1>3. PICK t : t = Without(slots, p)
  OBVIOUS
<1>4. p \in S /\ LeavesAt(m, k) /\ k \in DOMAIN slots[p].rec.data /\ IsAlone(slots[p].rec.data)
  BY <1>0 DEF RemoveLast
<1>5. /\ m \in branches /\ m \in Path /\ IsChild(m, p) /\ IsPrefix(p, k) /\ p \in Path
      /\ \A q \in S : IsPrefix(q, k) => q = p
      /\ DOMAIN slots[p].rec.data = Under(p, W)
      /\ Free(live, FreedOf(slots[p])) = DiskOf(Without(slots, p))
  BY <1>0, <1>1, <1>4, SlotOnWay
<1>6. /\ want' = w /\ fanOut' = fanOut
      /\ \/ fanOut /\ m = <<>> /\ slots' = t /\ live' = DiskOf(t) /\ UNCHANGED <<branches, err>>
         \/ ~(fanOut /\ m = <<>>) /\ Fold(m, t, DiskOf(t))
  BY <1>0, <1>3, <1>5 DEF RemoveLast
<1>7. DOMAIN t = S \ {p} /\ \A x \in DOMAIN t : t[x] = slots[x]
  BY <1>0, <1>3 DEF Without, Restrict
<1>8. SlotsHold(t, w)
  <2>1. \A x \in DOMAIN t : RecordAt(x, w) = RecordAt(x, want)
    BY <1>0, <1>5, <1>7, WithoutElsewhere
  <2> QED
    BY <1>0, <1>2, <1>7, <2>1, HoldsWhenSame
<1>9. DOMAIN w = W \ {k}
  BY <1>0 DEF Without, Restrict
<1>10. Under(p, W) = {k}
  BY <1>4, <1>5 DEF IsAlone
<1>11. IsCutBut(m, branches, DOMAIN t, DOMAIN w)
  BY <1>1, <1>2, <1>4, <1>5, <1>7, <1>9, <1>10, CutHole
<1>12. Wanted(w) /\ err = "none" /\ fanOut \in BOOLEAN /\ (fanOut => <<>> \in branches)
  BY <1>0, WantedWithout DEF Ready
<1>13. CASE fanOut /\ m = <<>> /\ slots' = t /\ live' = DiskOf(t) /\ UNCHANGED <<branches, err>>
  <2>1. Sound(branches', slots', live', w)
    BY <1>8, <1>11, <1>13 DEF Sound, IsCut
  <2> QED
    BY <1>6, <1>12, <1>13, <2>1 DEF Inv
<1>14. CASE ~(fanOut /\ m = <<>>) /\ Fold(m, t, DiskOf(t))
  <2>1. \/ /\ err' = "none" /\ Sound(branches', slots', live', w)
           /\ \A b \in branches : b # m /\ IsPrefix(b, m) => b \in branches'
        \/ /\ err' = "below two keys" /\ Failed(branches', slots', w)
           /\ \A b \in branches : b = m
    BY <1>5, <1>8, <1>11, <1>12, <1>14, Folded
  <2>2. fanOut => <<>> \in branches /\ <<>> # m /\ IsPrefix(<<>>, m)
    BY <1>5, <1>12, <1>14, RootFirst
  <2> QED
    BY <1>6, <1>12, <2>1, <2>2 DEF Inv
<1> QED
  BY <1>6, <1>13, <1>14

LEMMA FanOutKeeps ==
    ASSUME Ready, StartFanOut \/ EndFanOut
    PROVE  Inv'
<1>1. CASE StartFanOut
  BY <1>1 DEF StartFanOut, Ready, Inv
<1>2. CASE EndFanOut
  <2>1. <<>> \in branches /\ Fold(<<>>, slots, DiskOf(slots)) /\ want' = want /\ fanOut' = FALSE
    BY <1>2 DEF EndFanOut, Ready, Sound
  <2>2. IsCutBut(<<>>, branches, DOMAIN slots, DOMAIN want) /\ SlotsHold(slots, want) /\ err = "none"
    BY DEF Ready, Sound, IsCut
  <2>3. \/ err' = "none" /\ Sound(branches', slots', live', want)
        \/ err' = "below two keys" /\ Failed(branches', slots', want)
    BY <2>1, <2>2, Folded
  <2> QED
    BY <2>1, <2>3 DEF Ready, Inv
<1> QED
  BY <1>1, <1>2

LEMMA SpillKeeps ==
    ASSUME Ready, NEW ps \in SUBSET DOMAIN slots, Spill(ps)
    PROVE  Inv'
<1>1. IsCut(branches, DOMAIN slots, DOMAIN want) /\ SlotsHold(slots, want) /\ live = DiskOf(slots)
  BY DEF Ready, Sound
<1>2. /\ \A p \in ps : slots[p].kind = "Mem"
      /\ slots' = [p \in DOMAIN slots |->
                     IF p \in ps THEN Slot("Disk", Record(p, slots[p].rec.data)) ELSE slots[p]]
      /\ live' = Write(live, {Record(p, slots[p].rec.data) : p \in ps})
      /\ UNCHANGED <<branches, fanOut, err, want>>
  BY DEF Spill
<1>3. \A p \in DOMAIN slots : slots[p].rec = RecordAt(p, want) /\ slots[p].rec.prefix = p
  BY <1>1, HoldsIs
<1>4. \A p \in ps : Record(p, slots[p].rec.data) = RecordAt(p, want)
  BY <1>3 DEF RecordAt, Record
<1>5. /\ DOMAIN slots' = DOMAIN slots
      /\ \A p \in ps : slots'[p] = Slot("Disk", RecordAt(p, want))
      /\ \A p \in DOMAIN slots \ ps : slots'[p] = slots[p]
  BY <1>2, <1>4
<1>6. \A p \in ps : slots'[p].kind = "Disk" /\ slots'[p].rec = RecordAt(p, want)
  BY <1>5, SlotIs
<1>7. SlotsHold(slots', want)
  <2>1. ASSUME NEW p \in ps
        PROVE  /\ slots'[p].kind \in Kinds /\ slots'[p] = Slot(slots'[p].kind, RecordAt(p, want))
               /\ MayBe(slots'[p].kind, p, want)
    BY <1>5, <1>6 DEF Kinds, RecordKinds, MayBe
  <2>2. ASSUME NEW p \in DOMAIN slots \ ps
        PROVE  /\ slots'[p].kind \in Kinds /\ slots'[p] = Slot(slots'[p].kind, RecordAt(p, want))
               /\ MayBe(slots'[p].kind, p, want)
    BY <1>1, <1>5, HoldsIs
  <2> QED
    BY <1>5, <2>1, <2>2 DEF SlotsHold
<1>8. PICK D : D = {Record(p, slots[p].rec.data) : p \in ps}
  OBVIOUS
<1>9. \A x : x \in D <=> \E p \in ps : x = RecordAt(p, want)
  BY <1>4, <1>8
<1>10. \A x : x \in live <=> \E q \in DOMAIN slots : slots[q].kind = "Disk" /\ x = slots[q].rec
  BY <1>1 DEF DiskOf
<1>11. D \cap live = {}
  <2>1. ASSUME NEW p \in ps, NEW q \in DOMAIN slots, slots[q].kind = "Disk",
               RecordAt(p, want) = slots[q].rec
        PROVE  FALSE
    <3>1. p = q
      BY <1>3, <2>1, RecordAtIs
    <3> QED
      BY <1>2, <2>1, <3>1
  <2> QED
    BY <1>9, <1>10, <2>1
<1>12. live' = live \cup D
  BY <1>2, <1>8, <1>11 DEF Write
<1>13. \A x : x \in DiskOf(slots') <=> \E q \in DOMAIN slots : slots'[q].kind = "Disk" /\ x = slots'[q].rec
  BY <1>5 DEF DiskOf
<1>14. ASSUME NEW x
       PROVE  x \in live \cup D <=> x \in DiskOf(slots')
  <2>1. ASSUME x \in live
        PROVE  x \in DiskOf(slots')
    <3>1. PICK q \in DOMAIN slots : slots[q].kind = "Disk" /\ x = slots[q].rec
      BY <1>10, <2>1
    <3>2. q \notin ps
      BY <1>2, <3>1
    <3> QED
      BY <1>5, <1>13, <3>1, <3>2
  <2>2. ASSUME x \in D
        PROVE  x \in DiskOf(slots')
    BY <1>6, <1>9, <1>13, <2>2
  <2>3. ASSUME x \in DiskOf(slots')
        PROVE  x \in live \cup D
    <3>1. PICK q \in DOMAIN slots : slots'[q].kind = "Disk" /\ x = slots'[q].rec
      BY <1>13, <2>3
    <3>2. CASE q \in ps
      BY <1>6, <1>9, <3>1, <3>2
    <3>3. CASE q \notin ps
      BY <1>5, <1>10, <3>1, <3>3
    <3> QED
      BY <3>2, <3>3
  <2> QED
    BY <2>1, <2>2, <2>3
<1>15. live' = DiskOf(slots')
  BY <1>12, <1>14
<1>16. Sound(branches', slots', live', want')
  BY <1>1, <1>2, <1>5, <1>7, <1>15 DEF Sound
<1> QED
  BY <1>2, <1>16 DEF Inv, Ready

-----------------------------------------------------------------------------
(* The theorems *)

LEMMA InitInv == Init => Inv
<1> SUFFICES ASSUME Init PROVE Inv
  OBVIOUS
<1>1. branches = {} /\ DOMAIN slots = {} /\ live = {} /\ DOMAIN want = {} /\ err = "none" /\ fanOut = FALSE
  BY DEF Init
<1>2. BranchPoints({}) = {}
  BY BranchPointsAre
<1>3. IsCut({}, {}, {})
  BY <1>2, CutParts DEF Reaches, Inhabited, Hung, Lowest, Genuine, Complete
<1>4. SlotsHold(slots, want) /\ DiskOf(slots) = {}
  BY <1>1 DEF SlotsHold, DiskOf
<1>5. Wanted(want)
  BY <1>1 DEF Wanted
<1> QED
  BY <1>1, <1>3, <1>4, <1>5 DEF Inv, Sound

LEMMA NextInv == Inv /\ [Next]_vars => Inv'
<1> SUFFICES ASSUME Inv, [Next]_vars PROVE Inv'
  OBVIOUS
<1>1. CASE UNCHANGED vars
  BY <1>1 DEF vars, Inv, Wanted, Sound, Failed
<1>2. CASE Next
  <2>1. err = "none"
    BY <1>2 DEF Next, InsertFirst, InsertBeside, SplitAccount, Rewrite, Shrink, RemoveLast,
                StartFanOut, EndFanOut, Spill
  <2>2. Ready
    BY <2>1, ReadyIs
  <2>3. ASSUME NEW k \in Keys, NEW v \in Val, InsertFirst(k, v)
        PROVE  Inv'
    BY <2>2, <2>3, InsertFirstKeeps
  <2>4. ASSUME NEW k \in Keys, NEW v \in Val, NEW m \in Walks, InsertBeside(m, k, v)
        PROVE  Inv'
    BY <2>2, <2>4, InsertBesideKeeps
  <2>5. ASSUME NEW k \in Keys, NEW v \in Val, NEW m \in Walks, SplitAccount(m, k, v)
        PROVE  Inv'
    BY <2>2, <2>5, SplitAccountKeeps
  <2>6. ASSUME NEW k \in Keys, NEW v \in Val, NEW m \in Walks, Rewrite(m, k, v)
        PROVE  Inv'
    BY <2>2, <2>6, RewriteKeeps
  <2>7. ASSUME NEW k \in Keys, NEW m \in Walks, Shrink(m, k)
        PROVE  Inv'
    BY <2>2, <2>7, ShrinkKeeps
  <2>8. ASSUME NEW k \in Keys, NEW m \in Walks, RemoveLast(m, k)
        PROVE  Inv'
    BY <2>2, <2>8, RemoveLastKeeps
  <2>9. CASE StartFanOut \/ EndFanOut
    BY <2>2, <2>9, FanOutKeeps
  <2>10. ASSUME NEW ps \in SUBSET DOMAIN slots, Spill(ps)
         PROVE  Inv'
    BY <2>2, <2>10, SpillKeeps
  <2> QED
    BY <1>2, <2>3, <2>4, <2>5, <2>6, <2>7, <2>8, <2>9, <2>10 DEF Next
<1> QED
  BY <1>1, <1>2

\* The frontier stays a cut of the trie of what is wanted, with records that hold
\* it: insert_ram, delete_ram, the groups of apply_block and spill_walk keep it.
THEOREM CutIsKept == Spec => []Inv
BY InitInv, NextInv, PTL DEF Spec

LEMMA InvTypeOK == Inv => TypeOK
<1> SUFFICES ASSUME Inv PROVE TypeOK
  OBVIOUS
<1>1. CASE err = "none"
  <2>1. IsCut(branches, DOMAIN slots, DOMAIN want) /\ SlotsHold(slots, want)
    BY <1>1 DEF Inv, Sound
  <2>2. branches \subseteq UNION {[1 .. n -> Nibble] : n \in 0 .. KeyLen - 1}
    <3>1. ASSUME NEW b \in branches
          PROVE  \E n \in 0 .. KeyLen - 1 : b \in [1 .. n -> Nibble]
      <4>1. b \in Inner
        BY <2>1, CutParts
      <4>2. b \in Seq(Nibble) /\ Len(b) \in 0 .. KeyLen /\ Len(b) < KeyLen
        BY <4>1, PathIsSeq DEF Inner
      <4>3. b \in [1 .. Len(b) -> Nibble]
        BY <4>2, LenProperties
      <4>4. Len(b) \in 0 .. KeyLen - 1
        BY <4>2, PathsAssumption
      <4> QED
        BY <4>3, <4>4
    <3> QED
      BY <3>1
  <2>3. \A p \in DOMAIN slots : slots[p].kind \in Kinds
    BY <2>1, HoldsIs
  <2> QED
    BY <1>1, <2>2, <2>3 DEF Inv, Wanted, TypeOK
<1>2. CASE err = "below two keys"
  <2>0. branches = {} /\ slots = <<>>
    BY <1>2 DEF Inv, Failed
  <2>1. branches = {} /\ DOMAIN slots = {}
    BY <2>0
  <2> QED
    BY <1>2, <2>1 DEF Inv, Wanted, TypeOK
<1> QED
  BY <1>1, <1>2 DEF Inv

\* Branches, slots and what is wanted have their types.
THEOREM CutTyped == Spec => []TypeOK
BY CutIsKept, InvTypeOK, PTL

LEMMA InvIsTop == Inv => FrontierIsTop
<1> SUFFICES ASSUME Inv, err = "none"
             PROVE  /\ branches \subseteq BranchPoints(DOMAIN want) \cup {<<>>}
                    /\ \A b \in branches, c \in BranchPoints(DOMAIN want) :
                          IsPrefix(c, b) => c \in branches
                    /\ \A k \in DOMAIN want : \E p \in DOMAIN slots :
                          IsPrefix(p, k) /\ \A q \in DOMAIN slots : IsPrefix(q, k) => q = p
  BY DEF FrontierIsTop
<1>1. PICK S, W : S = DOMAIN slots /\ W = DOMAIN want
  OBVIOUS
<1>2. IsCut(branches, S, W)
  BY <1>1 DEF Inv, Sound
<1>3. branches \subseteq BranchPoints(W) \cup {<<>>}
  BY <1>2, CutParts DEF Genuine
<1>4. \A b \in branches, c \in BranchPoints(W) : IsPrefix(c, b) => c \in branches
  BY <1>2, CutIsTop DEF IsCut
<1>5. ASSUME NEW k \in W
      PROVE  \E p \in S : IsPrefix(p, k) /\ \A q \in S : IsPrefix(q, k) => q = p
  <2>1. /\ branches \in SUBSET Path /\ S \in SUBSET Path /\ k \in Path
        /\ Hung(branches, S) /\ Lowest(branches, S) /\ Reaches(S, W)
    BY <1>2, CutParts, InnerIsPath, KeyIsPath
  <2>2. PICK p \in S : IsPrefix(p, k)
    BY <2>1 DEF Reaches
  <2> QED
    BY <2>1, <2>2, SlotsApart
<1> QED
  BY <1>1, <1>3, <1>4, <1>5

\* The branches of the frontier are those of the trie, from the top, and every
\* account is below exactly one child: no branch is left behind by delete_ram,
\* skipped by promote_record_to_ram or doubled by two groups of a block.
THEOREM CutIsTopOfTrie == Spec => []FrontierIsTop
BY CutIsKept, InvIsTop, PTL

LEMMA InvReads == Inv => ReadsReturnWant
<1> SUFFICES ASSUME Inv, err = "none", NEW k \in Keys
             PROVE  get_value(k) = IF k \in DOMAIN want THEN want[k] ELSE Nothing
  BY DEF ReadsReturnWant
<1>1. PICK S, W : S = DOMAIN slots /\ W = DOMAIN want
  OBVIOUS
<1>2. IsCut(branches, S, W) /\ SlotsHold(slots, want) /\ k \in Key
  BY <1>1, CutAssumption DEF Inv, Sound
<1>3. PICK F : F = {p \in DOMAIN slots : \E m \in Walks : LeavesAt(m, k) /\ p = ChildFor(m, k)
                                            /\ k \in DOMAIN slots[p].rec.data}
  OBVIOUS
<1>4. ASSUME NEW p \in F
      PROVE  /\ k \in W /\ IsPrefix(p, k) /\ p \in S
             /\ slots[p].rec.data[k] = want[k]
  <2>1. p \in DOMAIN slots /\ k \in DOMAIN slots[p].rec.data
    BY <1>3
  <2>2. k \in Under(p, W) /\ slots[p].rec.data[k] = want[k]
    BY <1>1, <1>2, <2>1, HoldsIs
  <2> QED
    BY <1>1, <2>1, <2>2 DEF Under
<1>5. CASE k \in W
  <2>1. /\ branches \in SUBSET Path /\ S \in SUBSET Path /\ k \in Path
        /\ Hung(branches, S) /\ Lowest(branches, S) /\ Reaches(S, W)
    BY <1>2, CutParts, InnerIsPath, KeyIsPath
  <2>2. PICK p \in S : IsPrefix(p, k)
    BY <1>5, <2>1 DEF Reaches
  <2>3. PICK b \in branches : IsChild(b, p)
    BY <2>1 DEF Hung
  <2>4. /\ b = Meet(b, k) /\ p = Toward(b, k)
        /\ \A c \in branches : IsPrefix(Meet(c, k), b)
    BY <1>2, <2>2, <2>3, WalkFinds
  <2>5. b \in Walks /\ LeavesAt(b, k) /\ p = ChildFor(b, k)
    BY <2>4 DEF Walks, LeavesAt, ChildFor
  <2>6. k \in DOMAIN slots[p].rec.data
    <3>1. k \in Under(p, W)
      BY <1>5, <2>2 DEF Under
    <3> QED
      BY <1>1, <1>2, <3>1, HoldsIs
  <2>7. p \in F
    BY <1>1, <1>3, <2>5, <2>6
  <2>8. get_value(k) = slots[CHOOSE q \in F : TRUE].rec.data[k]
    BY <1>3, <2>7 DEF get_value
  <2>9. (CHOOSE q \in F : TRUE) \in F
    BY <2>7
  <2> QED
    BY <1>1, <1>4, <1>5, <2>8, <2>9
<1>6. CASE k \notin W
  <2>1. F = {}
    BY <1>4, <1>6
  <2> QED
    BY <1>1, <1>3, <1>6, <2>1 DEF get_value
<1> QED
  BY <1>5, <1>6

\* get_value finds what was last written, and nothing where nothing was.
THEOREM CutReadsRight == Spec => []ReadsReturnWant
BY CutIsKept, InvReads, PTL

LEMMA InvRecords == Inv => LiveRecordsReferenced /\ RecordsAddressable
<1> SUFFICES ASSUME Inv, err = "none"
             PROVE  /\ live = {slots[p].rec : p \in {q \in DOMAIN slots : slots[q].kind = "Disk"}}
                    /\ \A rec \in live : rec.prefix \in DOMAIN slots /\ slots[rec.prefix].rec = rec
  BY DEF LiveRecordsReferenced, RecordsAddressable
<1>1. SlotsHold(slots, want) /\ live = DiskOf(slots)
  BY DEF Inv, Sound
<1>2. \A p \in DOMAIN slots : slots[p].rec.prefix = p
  BY <1>1, HoldsIs
<1> QED
  BY <1>1, <1>2 DEF DiskOf

\* Every record of the file that is not freed is a child of the frontier, once,
\* and none is freed that still is one.
THEOREM CutRecordsReferenced == Spec => []LiveRecordsReferenced
BY CutIsKept, InvRecords, PTL

\* The prefix in a record is the path to it, by which recovery finds its slot.
THEOREM CutRecordsAddressable == Spec => []RecordsAddressable
BY CutIsKept, InvRecords, PTL

LEMMA InvFails == Inv => FailsOnlyBelowTwoKeys
BY DEF Inv, Failed, FailsOnlyBelowTwoKeys

\* A removal fails only when it leaves one account.
THEOREM CutFailsBelowTwo == Spec => []FailsOnlyBelowTwoKeys
BY CutIsKept, InvFails, PTL
=============================================================================
