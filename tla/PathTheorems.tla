---------------------------- MODULE PathTheorems ----------------------------
(***************************************************************************)
(* Facts about paths: prefixes, the child of a path on the way to another, *)
(* where two paths part, the branches of a trie, and the order of paths.   *)
(***************************************************************************)
EXTENDS Paths, SequenceTheorems, FiniteSetTheorems, WellFoundedInduction, TLAPS

-----------------------------------------------------------------------------
(* Paths *)

LEMMA PathIsSeq ==
    ASSUME NEW p \in Path
    PROVE  /\ p \in Seq(Nibble) /\ Len(p) \in 0 .. KeyLen
           /\ \A i \in 1 .. Len(p) : p[i] \in Nibble
<1>1. PICK n \in 0 .. KeyLen : p \in [1 .. n -> Nibble]
  BY DEF Path
<1> n \in Nat
  BY PathsAssumption
<1>2. p \in Seq(Nibble) /\ Len(p) = n
  BY <1>1
<1> QED
  BY <1>1, <1>2

LEMMA SeqIsPath ==
    ASSUME NEW p \in Seq(Nibble), Len(p) <= KeyLen
    PROVE  p \in Path
<1>1. Len(p) \in 0 .. KeyLen
  BY PathsAssumption, LenProperties
<1>2. p \in [1 .. Len(p) -> Nibble]
  BY LenProperties
<1> QED
  BY <1>1, <1>2 DEF Path

LEMMA KeyIsPath ==
    ASSUME NEW k \in Key
    PROVE  k \in Path /\ Len(k) = KeyLen
<1>1. k \in [1 .. KeyLen -> Nibble] /\ KeyLen \in 0 .. KeyLen /\ KeyLen \in Nat
  BY PathsAssumption DEF Key
<1>2. k \in Path
  BY <1>1 DEF Path
<1>3. Len(k) = KeyLen
  BY <1>1, LenProperties, k \in Seq(Nibble)
<1> QED
  BY <1>2, <1>3

LEMMA RootIsPath == <<>> \in Path /\ Len(<<>>) = 0
<1>1. <<>> \in Seq(Nibble) /\ Len(<<>>) = 0
  BY EmptySeq
<1>2. 0 <= KeyLen
  BY PathsAssumption
<1> QED
  BY <1>1, <1>2, SeqIsPath

LEMMA PathEqual ==
    ASSUME NEW p \in Path, NEW q \in Path, Len(p) = Len(q),
           \A i \in 1 .. Len(p) : p[i] = q[i]
    PROVE  p = q
BY PathIsSeq, SeqEqual

LEMMA PrefixByNibbles ==
    ASSUME NEW p \in Path, NEW q \in Path
    PROVE  IsPrefix(p, q) <=> Len(p) <= Len(q) /\ \A i \in 1 .. Len(p) : p[i] = q[i]
<1> DEFINE n == Len(p)
<1>1. n \in Nat /\ Len(q) \in Nat
  BY PathIsSeq, PathsAssumption
<1> SUFFICES ASSUME n <= Len(q)
             PROVE  SubSeq(p, 1, n) = SubSeq(q, 1, n) <=> \A i \in 1 .. n : p[i] = q[i]
  BY <1>1 DEF IsPrefix
<1>2. \A i \in 1 .. n : p[i] \in Nibble /\ q[i] \in Nibble
  BY <1>1, PathIsSeq
<1>3. /\ SubSeq(p, 1, n) \in Seq(Nibble) /\ Len(SubSeq(p, 1, n)) = n
      /\ \A i \in 1 .. n : SubSeq(p, 1, n)[i] = p[i]
  BY <1>1, <1>2, SubSeqProperties
<1>4. /\ SubSeq(q, 1, n) \in Seq(Nibble) /\ Len(SubSeq(q, 1, n)) = n
      /\ \A i \in 1 .. n : SubSeq(q, 1, n)[i] = q[i]
  BY <1>1, <1>2, SubSeqProperties
<1> HIDE DEF n
<1> QED
  BY <1>3, <1>4, SeqEqual

-----------------------------------------------------------------------------
(* Prefixes *)

LEMMA PrefixRefl == \A p \in Path : IsPrefix(p, p)
BY PrefixByNibbles, PathIsSeq

LEMMA PrefixTrans ==
    ASSUME NEW p \in Path, NEW q \in Path, NEW r \in Path, IsPrefix(p, q), IsPrefix(q, r)
    PROVE  IsPrefix(p, r)
<1>1. Len(p) \in Nat /\ Len(q) \in Nat /\ Len(r) \in Nat
  BY PathIsSeq, PathsAssumption
<1>2. /\ Len(p) <= Len(q) /\ \A i \in 1 .. Len(p) : p[i] = q[i]
      /\ Len(q) <= Len(r) /\ \A i \in 1 .. Len(q) : q[i] = r[i]
  BY PrefixByNibbles
<1>3. Len(p) <= Len(r) /\ \A i \in 1 .. Len(p) : p[i] = r[i]
  BY <1>1, <1>2
<1> QED
  BY <1>3, PrefixByNibbles

LEMMA PrefixAntisym ==
    ASSUME NEW p \in Path, NEW q \in Path, IsPrefix(p, q), Len(q) <= Len(p)
    PROVE  p = q
<1>1. Len(p) \in Nat /\ Len(q) \in Nat
  BY PathIsSeq, PathsAssumption
<1>2. Len(p) = Len(q) /\ \A i \in 1 .. Len(p) : p[i] = q[i]
  BY <1>1, PrefixByNibbles
<1> QED
  BY <1>2, PathEqual

LEMMA PrefixShorter ==
    ASSUME NEW p \in Path, NEW q \in Path, IsPrefix(p, q)
    PROVE  Len(p) <= Len(q) /\ (p # q => Len(p) < Len(q))
<1>1. Len(p) \in Nat /\ Len(q) \in Nat
  BY PathIsSeq, PathsAssumption
<1> QED
  BY <1>1, PrefixByNibbles, PrefixAntisym

\* Two prefixes of one path: the shorter is a prefix of the longer.
LEMMA PrefixForest ==
    ASSUME NEW p \in Path, NEW q \in Path, NEW k \in Path,
           IsPrefix(p, k), IsPrefix(q, k), Len(p) <= Len(q)
    PROVE  IsPrefix(p, q)
<1>1. Len(p) \in Nat /\ Len(q) \in Nat
  BY PathIsSeq, PathsAssumption
<1>2. /\ \A i \in 1 .. Len(p) : p[i] = k[i]
      /\ \A i \in 1 .. Len(q) : q[i] = k[i]
  BY PrefixByNibbles
<1>3. \A i \in 1 .. Len(p) : p[i] = q[i]
  BY <1>1, <1>2
<1> QED
  BY <1>3, PrefixByNibbles

LEMMA PrefixChain ==
    ASSUME NEW p \in Path, NEW q \in Path, NEW k \in Path, IsPrefix(p, k), IsPrefix(q, k)
    PROVE  IsPrefix(p, q) \/ (IsPrefix(q, p) /\ p # q)
<1>1. Len(p) \in Nat /\ Len(q) \in Nat
  BY PathIsSeq, PathsAssumption
<1>2. CASE Len(p) <= Len(q)
  BY <1>2, PrefixForest
<1>3. CASE Len(q) < Len(p)
  BY <1>1, <1>3, PrefixForest
<1> QED
  BY <1>1, <1>2, <1>3

LEMMA RootFirst == \A p \in Path : IsPrefix(<<>>, p)
<1> SUFFICES ASSUME NEW p \in Path PROVE IsPrefix(<<>>, p)
  OBVIOUS
<1>1. Len(p) \in Nat
  BY PathIsSeq, PathsAssumption
<1> QED
  BY <1>1, RootIsPath, PrefixByNibbles

\* A key is a prefix of no other path.
LEMMA KeysMaximal ==
    ASSUME NEW k \in Key, NEW p \in Path, IsPrefix(k, p)
    PROVE  k = p
<1>1. Len(p) <= Len(k)
  BY KeyIsPath, PathIsSeq
<1> QED
  BY <1>1, KeyIsPath, PrefixAntisym

-----------------------------------------------------------------------------
(* The beginnings of a path *)

LEMMA BeginsPath ==
    ASSUME NEW p \in Path, NEW n \in 0 .. Len(p)
    PROVE  /\ SubSeq(p, 1, n) \in Path /\ Len(SubSeq(p, 1, n)) = n
           /\ IsPrefix(SubSeq(p, 1, n), p)
<1>1. Len(p) \in Nat /\ Len(p) <= KeyLen /\ p \in Seq(Nibble) /\ n \in Nat
  BY PathIsSeq, PathsAssumption
<1>2. \A i \in 1 .. n : p[i] \in Nibble
  BY <1>1, PathIsSeq
<1>3. /\ SubSeq(p, 1, n) \in Seq(Nibble) /\ Len(SubSeq(p, 1, n)) = n
      /\ \A i \in 1 .. n : SubSeq(p, 1, n)[i] = p[i]
  BY <1>1, <1>2, SubSeqProperties
<1>4. PICK q : q = SubSeq(p, 1, n)
  OBVIOUS
<1>5. n <= KeyLen /\ n <= Len(p)
  BY <1>1, PathsAssumption
<1>6. q \in Path
  BY <1>3, <1>4, <1>5, SeqIsPath
<1>7. IsPrefix(q, p)
  BY <1>3, <1>4, <1>5, <1>6, PrefixByNibbles
<1> QED
  BY <1>3, <1>4, <1>6, <1>7

LEMMA BeginsUnique ==
    ASSUME NEW p \in Path, NEW q \in Path, IsPrefix(q, p)
    PROVE  q = SubSeq(p, 1, Len(q))
<1>1. Len(q) \in 0 .. Len(p)
  BY PathIsSeq, PathsAssumption, PrefixShorter
<1>2. PICK r : r = SubSeq(p, 1, Len(q))
  OBVIOUS
<1>3. r \in Path /\ Len(r) = Len(q) /\ IsPrefix(r, p)
  BY <1>1, <1>2, BeginsPath
<1>4. Len(q) \in Nat
  BY PathIsSeq, PathsAssumption
<1>5. IsPrefix(q, r)
  BY <1>3, <1>4, PrefixForest
<1>6. q = r
  BY <1>3, <1>4, <1>5, PrefixAntisym
<1> QED
  BY <1>2, <1>6

LEMMA ChildIsLonger ==
    ASSUME NEW b \in Path, NEW q \in Path, IsChild(b, q)
    PROVE  /\ IsPrefix(b, q) /\ b # q /\ ~IsPrefix(q, b)
           /\ \A r \in Path : IsPrefix(r, q) => r = q \/ IsPrefix(r, b)
<1>1. Len(b) \in Nat /\ Len(q) \in Nat /\ Len(q) = Len(b) + 1 /\ IsPrefix(b, q)
  BY PathIsSeq, PathsAssumption DEF IsChild
<1>2. ~IsPrefix(q, b)
  BY <1>1, PrefixShorter
<1>3. ASSUME NEW r \in Path, IsPrefix(r, q), r # q
      PROVE  IsPrefix(r, b)
  <2>1. Len(r) \in Nat /\ Len(r) <= Len(b)
    BY <1>1, <1>3, PrefixShorter, PathIsSeq, PathsAssumption
  <2> QED
    BY <1>1, <1>3, <2>1, PrefixForest
<1> QED
  BY <1>1, <1>2, <1>3

LEMMA TowardIsChild ==
    ASSUME NEW b \in Path, NEW k \in Path, IsPrefix(b, k), b # k
    PROVE  Toward(b, k) \in Path /\ IsChild(b, Toward(b, k)) /\ IsPrefix(Toward(b, k), k)
<1>1. Len(b) \in Nat /\ Len(k) \in Nat /\ Len(b) < Len(k)
  BY PathIsSeq, PathsAssumption, PrefixShorter
<1>2. PICK n : n = Len(b) + 1
  OBVIOUS
<1>3. PICK q : q = SubSeq(k, 1, n)
  OBVIOUS
<1>4. q \in Path /\ Len(q) = n /\ IsPrefix(q, k)
  BY <1>1, <1>2, <1>3, BeginsPath
<1>5. IsPrefix(b, q)
  BY <1>1, <1>2, <1>4, PrefixForest
<1>6. q = Toward(b, k)
  BY <1>2, <1>3 DEF Toward
<1>7. IsChild(b, q)
  BY <1>2, <1>4, <1>5 DEF IsChild
<1> QED
  BY <1>4, <1>6, <1>7

LEMMA ChildIsToward ==
    ASSUME NEW b \in Path, NEW q \in Path, NEW k \in Path, IsChild(b, q), IsPrefix(q, k)
    PROVE  q = Toward(b, k)
<1>1. q = SubSeq(k, 1, Len(q))
  BY BeginsUnique
<1> QED
  BY <1>1 DEF Toward, IsChild

LEMMA OneParent ==
    ASSUME NEW a \in Path, NEW b \in Path, NEW q \in Path, IsChild(a, q), IsChild(b, q)
    PROVE  a = b
<1>1. IsPrefix(a, b) /\ IsPrefix(b, a)
  BY ChildIsLonger
<1> QED
  BY <1>1, PrefixShorter, PrefixAntisym, PathIsSeq, PathsAssumption

-----------------------------------------------------------------------------
(* Where two paths part *)

LEMMA LeastOfSet ==
    ASSUME NEW T \in SUBSET Nat, T # {}
    PROVE  \E n \in T : \A m \in T : n <= m
<1> DEFINE Below == {0 .. n : n \in T}
<1>1. Below \subseteq FiniteSubsetsOf(Nat) /\ Below # {}
  <2>1. ASSUME NEW n \in T
        PROVE  IsFiniteSet(0 .. n) /\ 0 .. n \in SUBSET Nat
    <3>1. 0 \in Int /\ n \in Int
      BY <2>1
    <3> QED
      BY <3>1, FS_Interval
  <2> QED
    BY <2>1 DEF FiniteSubsetsOf
<1>2. IsWellFoundedOn(StrictSubsetOrdering(Nat), FiniteSubsetsOf(Nat))
  BY FS_StrictSubsetOrderingWellFounded
<1>3. PICK x \in Below : \A y \in Below : <<y, x>> \notin StrictSubsetOrdering(Nat)
  <2> HIDE DEF Below
  <2> QED
    BY <1>1, <1>2, WFMin
<1>4. PICK n \in T : x = 0 .. n
  BY <1>3
<1>5. ASSUME NEW m \in T, m < n
      PROVE  FALSE
  <2>1. 0 .. m \in Below /\ 0 .. m \subseteq 0 .. n /\ 0 .. m \subseteq Nat /\ 0 .. n \subseteq Nat
    BY <1>5
  <2>2. n \in 0 .. n /\ n \notin 0 .. m
    BY <1>5
  <2>3. <<0 .. m, 0 .. n>> \in StrictSubsetOrdering(Nat)
    BY <2>1, <2>2 DEF StrictSubsetOrdering
  <2> QED
    BY <1>3, <1>4, <2>1, <2>3
<1> QED
  BY <1>5

LEMMA SharedNibbles ==
    ASSUME NEW p \in Path, NEW q \in Path
    PROVE  LET n == common_prefix(p, q) IN
           /\ n \in 0 .. Len(p) /\ n <= Len(q) /\ \A i \in 1 .. n : p[i] = q[i]
           /\ n = Len(p) \/ n = Len(q) \/ p[n + 1] # q[n + 1]
<1> DEFINE Stops == {n \in 0 .. Len(p) : n = Len(p) \/ n = Len(q) \/ p[n + 1] # q[n + 1]}
<1>1. Len(p) \in Nat /\ Len(q) \in Nat
  BY PathIsSeq, PathsAssumption
<1>2. Stops \in SUBSET Nat /\ Len(p) \in Stops
  BY <1>1
<1>3. PICK n \in Stops : \A m \in Stops : n <= m
  BY <1>2, LeastOfSet
<1>4. n <= Len(q)
  <2>1. CASE Len(q) <= Len(p)
    <3>1. Len(q) \in Stops
      BY <1>1, <2>1
    <3> QED
      BY <1>3, <3>1
  <2>2. CASE Len(p) < Len(q)
    BY <1>1, <1>2, <1>3, <2>2
  <2> QED
    BY <1>1, <2>1, <2>2
<1>5. ASSUME NEW i \in 1 .. n
      PROVE  p[i] = q[i]
  <2>1. i - 1 \in 0 .. Len(p) /\ i - 1 < n /\ (i - 1) + 1 = i
    BY <1>1, <1>3, <1>5
  <2>2. PICK j : j = i - 1
    OBVIOUS
  <2>3. j \in 0 .. Len(p) /\ j < n /\ j + 1 = i
    BY <2>1, <2>2
  <2>4. j \notin Stops
    BY <1>1, <1>3, <2>3
  <2> QED
    BY <2>3, <2>4
<1>6. /\ n \in 0 .. Len(p) /\ n <= Len(q) /\ \A i \in 1 .. n : p[i] = q[i]
      /\ n = Len(p) \/ n = Len(q) \/ p[n + 1] # q[n + 1]
  BY <1>3, <1>4, <1>5
<1> QED
  BY <1>6 DEF common_prefix

LEMMA MeetIsPrefix ==
    ASSUME NEW p \in Path, NEW q \in Path
    PROVE  /\ Meet(p, q) \in Path /\ IsPrefix(Meet(p, q), p) /\ IsPrefix(Meet(p, q), q)
           /\ \A r \in Path : IsPrefix(r, p) /\ IsPrefix(r, q) => IsPrefix(r, Meet(p, q))
<1>0. Len(p) \in Nat /\ Len(q) \in Nat
  BY PathIsSeq, PathsAssumption
<1>1. PICK n : n = common_prefix(p, q)
  OBVIOUS
<1>2. /\ n \in 0 .. Len(p) /\ n <= Len(q) /\ \A i \in 1 .. n : p[i] = q[i]
      /\ n = Len(p) \/ n = Len(q) \/ p[n + 1] # q[n + 1]
  BY <1>1, SharedNibbles
<1>3. PICK m : m = SubSeq(p, 1, n)
  OBVIOUS
<1>4. m \in Path /\ Len(m) = n /\ IsPrefix(m, p)
  BY <1>2, <1>3, BeginsPath
<1>5. \A i \in 1 .. n : m[i] = p[i]
  BY <1>4, PrefixByNibbles
<1>6. IsPrefix(m, q)
  BY <1>2, <1>4, <1>5, PrefixByNibbles
<1>7. ASSUME NEW r \in Path, IsPrefix(r, p), IsPrefix(r, q)
      PROVE  IsPrefix(r, m)
  <2>1. /\ Len(r) \in Nat /\ Len(r) <= Len(p) /\ \A i \in 1 .. Len(r) : r[i] = p[i]
        /\ Len(r) <= Len(q) /\ \A i \in 1 .. Len(r) : r[i] = q[i]
    BY <1>7, PrefixByNibbles, PathIsSeq, PathsAssumption
  <2>2. Len(r) <= n
    BY <1>0, <1>2, <2>1
  <2> QED
    BY <1>4, <1>7, <2>2, PrefixForest
<1>8. m = Meet(p, q)
  BY <1>1, <1>3 DEF Meet
<1> QED
  BY <1>4, <1>6, <1>7, <1>8

LEMMA MeetCommutes ==
    ASSUME NEW p \in Path, NEW q \in Path
    PROVE  Meet(p, q) = Meet(q, p)
<1>1. IsPrefix(Meet(p, q), Meet(q, p)) /\ IsPrefix(Meet(q, p), Meet(p, q))
  BY MeetIsPrefix
<1> QED
  BY <1>1, MeetIsPrefix, PrefixShorter, PrefixAntisym

-----------------------------------------------------------------------------
(* The branches of a trie *)

Inner == {b \in Path : Len(b) < KeyLen}

LEMMA InnerIsPath == \A b \in Inner : b \in Path /\ \A k \in Key : b # k
BY KeyIsPath, PathIsSeq, PathsAssumption DEF Inner

LEMMA RootIsInner == <<>> \in Inner
BY RootIsPath, PathsAssumption DEF Inner

LEMMA InnerPrefix ==
    ASSUME NEW p \in Path, NEW b \in Inner, IsPrefix(p, b)
    PROVE  p \in Inner
<1>1. Len(p) \in Nat /\ Len(b) \in Nat /\ Len(b) < KeyLen /\ Len(p) <= Len(b)
  BY PathIsSeq, PathsAssumption, PrefixShorter DEF Inner
<1> QED
  BY <1>1, PathsAssumption DEF Inner

LEMMA BranchPointsAre ==
    ASSUME NEW ks
    PROVE  \A c : c \in BranchPoints(ks) <=> \E k \in ks, l \in ks : k # l /\ c = Meet(k, l)
BY DEF BranchPoints

LEMMA BranchPointsGrow ==
    ASSUME NEW ks, NEW js \in SUBSET ks
    PROVE  BranchPoints(js) \subseteq BranchPoints(ks)
BY BranchPointsAre

LEMMA BranchIsInner ==
    ASSUME NEW ks \in SUBSET Key, NEW c \in BranchPoints(ks)
    PROVE  c \in Inner /\ \E k \in ks : IsPrefix(c, k)
<1>1. PICK k \in ks, l \in ks : k # l /\ c = Meet(k, l)
  BY BranchPointsAre
<1>2. k \in Path /\ l \in Path /\ Len(k) = KeyLen /\ k \in Key
  BY KeyIsPath
<1>3. c \in Path /\ IsPrefix(c, k) /\ IsPrefix(c, l)
  BY <1>1, <1>2, MeetIsPrefix
<1>4. c # k
  BY <1>1, <1>2, <1>3, KeysMaximal
<1>5. Len(c) < KeyLen
  BY <1>2, <1>3, <1>4, PrefixShorter
<1> QED
  BY <1>3, <1>5 DEF Inner

\* Below p, keys part from the others where p does.
LEMMA MeetsAgree ==
    ASSUME NEW p \in Path, NEW k \in Path, NEW j \in Path, NEW l \in Path,
           IsPrefix(p, k), IsPrefix(p, j), ~IsPrefix(p, l)
    PROVE  Meet(k, l) = Meet(j, l)
<1>1. ASSUME NEW x \in Path, NEW y \in Path, IsPrefix(p, x), IsPrefix(p, y)
      PROVE  IsPrefix(Meet(x, l), Meet(y, l))
  <2>1. PICK n : n = Meet(x, l)
    OBVIOUS
  <2>2. n \in Path /\ IsPrefix(n, x) /\ IsPrefix(n, l)
    BY <2>1, MeetIsPrefix
  <2>3. ~IsPrefix(p, n)
    BY <2>2, PrefixTrans
  <2>4. IsPrefix(n, p)
    BY <1>1, <2>2, <2>3, PrefixChain
  <2>5. IsPrefix(n, y)
    BY <1>1, <2>2, <2>4, PrefixTrans
  <2> QED
    BY <2>1, <2>2, <2>5, MeetIsPrefix
<1>2. Meet(k, l) \in Path /\ Meet(j, l) \in Path
  BY MeetIsPrefix
<1> QED
  BY <1>1, <1>2, PrefixShorter, PrefixAntisym

\* Two paths that part below no other prefix part at m.
LEMMA MeetIs ==
    ASSUME NEW m \in Path, NEW k \in Path, NEW l \in Path, IsPrefix(m, k), IsPrefix(m, l),
           m # k, ~IsPrefix(Toward(m, k), l)
    PROVE  Meet(k, l) = m
<1>1. PICK n : n = Meet(k, l)
  OBVIOUS
<1>2. n \in Path /\ IsPrefix(n, k) /\ IsPrefix(n, l) /\ IsPrefix(m, n)
  BY <1>1, MeetIsPrefix
<1>3. /\ Toward(m, k) \in Path /\ IsChild(m, Toward(m, k)) /\ IsPrefix(Toward(m, k), k)
  BY TowardIsChild
<1>4. CASE IsPrefix(Toward(m, k), n)
  BY <1>2, <1>3, <1>4, PrefixTrans
<1>5. CASE IsPrefix(n, Toward(m, k)) /\ n # Toward(m, k)
  <2>1. IsPrefix(n, m)
    BY <1>2, <1>3, <1>5, ChildIsLonger
  <2> QED
    BY <1>1, <1>2, <2>1, PrefixShorter, PrefixAntisym
<1> QED
  BY <1>2, <1>3, <1>4, <1>5, PrefixChain

\* Two paths neither of which is a prefix of the other: keys below them part where they do.
LEMMA MeetsBelow ==
    ASSUME NEW b \in Path, NEW c \in Path, NEW k \in Path, NEW l \in Path,
           IsPrefix(b, k), IsPrefix(c, l), ~IsPrefix(b, c), ~IsPrefix(c, b)
    PROVE  Meet(k, l) = Meet(b, c) /\ k # l
<1>1. ~IsPrefix(b, l) /\ ~IsPrefix(c, k)
  BY PrefixChain
<1>2. Meet(k, l) = Meet(b, l)
  BY <1>1, PrefixRefl, MeetsAgree
<1>3. Meet(l, b) = Meet(c, b)
  BY PrefixRefl, MeetsAgree
<1> QED
  BY <1>1, <1>2, <1>3, MeetCommutes

-----------------------------------------------------------------------------
(* The order of paths *)

\* p is on the left of q: they part, and p goes to the smaller nibble.
LeftOf(p, q) ==
    \E n \in 1 .. KeyLen :
        /\ n <= Len(p) /\ n <= Len(q)
        /\ (\A i \in 1 .. n - 1 : p[i] = q[i]) /\ p[n] < q[n]

LEMMA LeftIs ==
    ASSUME NEW p \in Path, NEW q \in Path, LeftOf(p, q)
    PROVE  \E n \in 1 .. KeyLen :
              /\ n \in Nat /\ n >= 1 /\ n <= Len(p) /\ n <= Len(q)
              /\ (\A i \in 1 .. n - 1 : p[i] = q[i])
              /\ p[n] < q[n] /\ p[n] \in Nat /\ q[n] \in Nat
<1>1. /\ Len(p) \in Nat /\ Len(q) \in Nat /\ KeyLen \in Nat /\ Nibble \subseteq Nat
      /\ \A i \in 1 .. Len(p) : p[i] \in Nibble
      /\ \A i \in 1 .. Len(q) : q[i] \in Nibble
  BY PathIsSeq, PathsAssumption DEF Nibble
<1>2. PICK n \in 1 .. KeyLen :
        /\ n <= Len(p) /\ n <= Len(q)
        /\ (\A i \in 1 .. n - 1 : p[i] = q[i]) /\ p[n] < q[n]
  BY DEF LeftOf
<1>3. n \in Nat /\ n >= 1 /\ n \in 1 .. Len(p) /\ n \in 1 .. Len(q)
  BY <1>1, <1>2
<1> QED
  BY <1>1, <1>2, <1>3

LEMMA LeftFrom ==
    ASSUME NEW p \in Path, NEW q \in Path, NEW n \in Nat, n >= 1, n <= Len(p), n <= Len(q),
           \A i \in 1 .. n - 1 : p[i] = q[i], p[n] < q[n]
    PROVE  LeftOf(p, q)
<1>1. n \in 1 .. KeyLen
  BY PathIsSeq, PathsAssumption
<1> QED
  BY <1>1 DEF LeftOf

\* Paths that part are apart.
LEMMA LeftApart ==
    ASSUME NEW p \in Path, NEW q \in Path, LeftOf(p, q)
    PROVE  ~IsPrefix(p, q) /\ ~IsPrefix(q, p) /\ ~LeftOf(q, p) /\ p # q
<1>1. PICK n \in 1 .. KeyLen :
          /\ n \in Nat /\ n >= 1 /\ n <= Len(p) /\ n <= Len(q)
          /\ (\A i \in 1 .. n - 1 : p[i] = q[i])
          /\ p[n] < q[n] /\ p[n] \in Nat /\ q[n] \in Nat
  BY LeftIs
<1>2. Len(p) \in Nat /\ Len(q) \in Nat
  BY PathIsSeq, PathsAssumption
<1>3. ~IsPrefix(p, q) /\ ~IsPrefix(q, p) /\ p # q
  BY <1>1, <1>2, PrefixByNibbles
<1>4. ASSUME LeftOf(q, p)
      PROVE  FALSE
  <2>1. PICK m \in 1 .. KeyLen :
            /\ m \in Nat /\ m >= 1 /\ m <= Len(q) /\ m <= Len(p)
            /\ (\A i \in 1 .. m - 1 : q[i] = p[i])
            /\ q[m] < p[m] /\ q[m] \in Nat /\ p[m] \in Nat
    BY <1>4, LeftIs
  <2>2. CASE m < n
    <3>1. m \in 1 .. n - 1
      BY <1>1, <2>1, <2>2
    <3> QED
      BY <1>1, <2>1, <3>1
  <2>3. CASE n < m
    <3>1. n \in 1 .. m - 1
      BY <1>1, <2>1, <2>3
    <3> QED
      BY <1>1, <2>1, <3>1
  <2>4. CASE m = n
    BY <1>1, <2>1, <2>4
  <2> QED
    BY <1>1, <2>1, <2>2, <2>3, <2>4
<1> QED
  BY <1>3, <1>4

\* One is above the other, or they part.
LEMMA AboveOrApart ==
    ASSUME NEW p \in Path, NEW q \in Path
    PROVE  IsPrefix(p, q) \/ IsPrefix(q, p) \/ LeftOf(p, q) \/ LeftOf(q, p)
<1>1. PICK n : n = common_prefix(p, q)
  OBVIOUS
<1>2. /\ n \in 0 .. Len(p) /\ n <= Len(q) /\ \A i \in 1 .. n : p[i] = q[i]
      /\ n = Len(p) \/ n = Len(q) \/ p[n + 1] # q[n + 1]
  BY <1>1, SharedNibbles
<1>3. Len(p) \in Nat /\ Len(q) \in Nat /\ n \in Nat
  BY <1>2, PathIsSeq, PathsAssumption
<1>4. CASE n = Len(p) \/ n = Len(q)
  BY <1>2, <1>3, <1>4, PrefixByNibbles
<1>5. CASE n # Len(p) /\ n # Len(q)
  <2>1. PICK m : m = n + 1
    OBVIOUS
  <2>2. /\ m \in Nat /\ m >= 1 /\ m <= Len(p) /\ m <= Len(q) /\ m - 1 = n
        /\ m \in 1 .. Len(p) /\ m \in 1 .. Len(q)
    BY <1>2, <1>3, <1>5, <2>1
  <2>3. p[m] \in Nat /\ q[m] \in Nat /\ p[m] # q[m]
    BY <1>2, <1>5, <2>1, <2>2, PathIsSeq, PathsAssumption DEF Nibble
  <2>4. /\ \A i \in 1 .. m - 1 : p[i] = q[i]
        /\ \A i \in 1 .. m - 1 : q[i] = p[i]
    BY <1>2, <2>2
  <2>5. CASE p[m] < q[m]
    BY <2>2, <2>4, <2>5, LeftFrom
  <2>6. CASE q[m] < p[m]
    BY <2>2, <2>4, <2>6, LeftFrom
  <2> QED
    BY <2>3, <2>5, <2>6
<1> QED
  BY <1>4, <1>5

LEMMA LeftTrans ==
    ASSUME NEW p \in Path, NEW q \in Path, NEW r \in Path, LeftOf(p, q), LeftOf(q, r)
    PROVE  LeftOf(p, r)
<1>1. PICK n \in 1 .. KeyLen :
          /\ n \in Nat /\ n >= 1 /\ n <= Len(p) /\ n <= Len(q)
          /\ (\A i \in 1 .. n - 1 : p[i] = q[i])
          /\ p[n] < q[n] /\ p[n] \in Nat /\ q[n] \in Nat
  BY LeftIs
<1>2. PICK m \in 1 .. KeyLen :
          /\ m \in Nat /\ m >= 1 /\ m <= Len(q) /\ m <= Len(r)
          /\ (\A i \in 1 .. m - 1 : q[i] = r[i])
          /\ q[m] < r[m] /\ q[m] \in Nat /\ r[m] \in Nat
  BY LeftIs
<1>3. Len(p) \in Nat /\ Len(q) \in Nat /\ Len(r) \in Nat
  BY PathIsSeq, PathsAssumption
<1>4. CASE n < m
  <2>1. n \in 1 .. m - 1 /\ \A i \in 1 .. n - 1 : i \in 1 .. m - 1
    BY <1>1, <1>2, <1>4
  <2>2. p[n] < r[n] /\ (\A i \in 1 .. n - 1 : p[i] = r[i]) /\ n <= Len(r)
    BY <1>1, <1>2, <1>3, <1>4, <2>1
  <2> QED
    BY <1>1, <2>2, LeftFrom
<1>5. CASE m < n
  <2>1. m \in 1 .. n - 1 /\ \A i \in 1 .. m - 1 : i \in 1 .. n - 1
    BY <1>1, <1>2, <1>5
  <2>2. p[m] < r[m] /\ (\A i \in 1 .. m - 1 : p[i] = r[i]) /\ m <= Len(p)
    BY <1>1, <1>2, <1>3, <1>5, <2>1
  <2> QED
    BY <1>2, <2>2, LeftFrom
<1>6. CASE m = n
  <2>1. p[m] < r[m] /\ (\A i \in 1 .. m - 1 : p[i] = r[i]) /\ m <= Len(p)
    BY <1>1, <1>2, <1>6
  <2> QED
    BY <1>2, <2>1, LeftFrom
<1> QED
  BY <1>1, <1>2, <1>4, <1>5, <1>6

\* What is on the left of a path is on the left of all below it, and so is all
\* below what is on the left.
LEMMA LeftBelow ==
    ASSUME NEW p \in Path, NEW q \in Path, NEW a \in Path, NEW b \in Path,
           LeftOf(p, q), IsPrefix(p, a), IsPrefix(q, b)
    PROVE  LeftOf(a, b)
<1>1. PICK n \in 1 .. KeyLen :
          /\ n \in Nat /\ n >= 1 /\ n <= Len(p) /\ n <= Len(q)
          /\ (\A i \in 1 .. n - 1 : p[i] = q[i])
          /\ p[n] < q[n] /\ p[n] \in Nat /\ q[n] \in Nat
  BY LeftIs
<1>2. /\ Len(p) \in Nat /\ Len(q) \in Nat /\ Len(a) \in Nat /\ Len(b) \in Nat
      /\ Len(p) <= Len(a) /\ \A i \in 1 .. Len(p) : p[i] = a[i]
      /\ Len(q) <= Len(b) /\ \A i \in 1 .. Len(q) : q[i] = b[i]
  BY PrefixByNibbles, PathIsSeq, PathsAssumption
<1>3. /\ n \in 1 .. Len(p) /\ n \in 1 .. Len(q)
      /\ \A i \in 1 .. n - 1 : i \in 1 .. Len(p) /\ i \in 1 .. Len(q)
  BY <1>1, <1>2
<1>4. n <= Len(a) /\ n <= Len(b) /\ (\A i \in 1 .. n - 1 : a[i] = b[i]) /\ a[n] < b[n]
  BY <1>1, <1>2, <1>3
<1> QED
  BY <1>1, <1>4, LeftFrom

\* What is on the left of a path is on the left of what is above it, or below that.
LEMMA LeftAbove ==
    ASSUME NEW p \in Path, NEW q \in Path, NEW r \in Path, IsPrefix(q, r)
    PROVE  /\ LeftOf(p, r) => LeftOf(p, q) \/ IsPrefix(q, p)
           /\ LeftOf(r, p) => LeftOf(q, p) \/ IsPrefix(q, p)
<1>1. ASSUME IsPrefix(p, q)
      PROVE  ~LeftOf(p, r) /\ ~LeftOf(r, p)
  BY <1>1, PrefixTrans, LeftApart
<1>2. ASSUME LeftOf(q, p)
      PROVE  ~LeftOf(p, r)
  <2>1. LeftOf(r, p)
    BY <1>2, PrefixRefl, LeftBelow
  <2> QED
    BY <2>1, LeftApart
<1>3. ASSUME LeftOf(p, q)
      PROVE  ~LeftOf(r, p)
  <2>1. LeftOf(p, r)
    BY <1>3, PrefixRefl, LeftBelow
  <2> QED
    BY <2>1, LeftApart
<1> QED
  BY <1>1, <1>2, <1>3, AboveOrApart

LEMMA LeastOfTwo ==
    ASSUME NEW m \in Nat, NEW n \in Nat
    PROVE  Min({m, n}) = IF m <= n THEN m ELSE n
<1> DEFINE l == IF m <= n THEN m ELSE n
<1>1. l \in {m, n} /\ \A y \in {m, n} : l =< y
  OBVIOUS
<1>2. \A x \in {m, n} : (\A y \in {m, n} : x =< y) => x = l
  OBVIOUS
<1> QED
  BY <1>1, <1>2 DEF Min

\* The beginnings of two paths are the same when their nibbles are.
LEMMA BeginsSame ==
    ASSUME NEW p \in Path, NEW q \in Path, NEW n \in Nat, n <= Len(p), n <= Len(q)
    PROVE  SubSeq(p, 1, n) = SubSeq(q, 1, n) <=> \A i \in 1 .. n : p[i] = q[i]
<1>0. Len(p) \in Nat /\ Len(q) \in Nat /\ n \in 0 .. Len(p) /\ n \in 0 .. Len(q)
  BY PathIsSeq, PathsAssumption
<1>1. PICK a : a = SubSeq(p, 1, n)
  OBVIOUS
<1>2. PICK b : b = SubSeq(q, 1, n)
  OBVIOUS
<1>3. /\ a \in Path /\ Len(a) = n /\ IsPrefix(a, p)
      /\ b \in Path /\ Len(b) = n /\ IsPrefix(b, q)
  BY <1>0, <1>1, <1>2, BeginsPath
<1>4. (\A i \in 1 .. n : a[i] = p[i]) /\ (\A i \in 1 .. n : b[i] = q[i])
  BY <1>3, PrefixByNibbles
<1>5. a = b <=> \A i \in 1 .. n : a[i] = b[i]
  BY <1>3, PathEqual
<1> QED
  BY <1>1, <1>2, <1>4, <1>5

\* The order of slices is that of the trie's walks, a path before what is below it.
LEMMA LexLessIs ==
    ASSUME NEW p \in Path, NEW q \in Path
    PROVE  LexLess(p, q) <=> (IsPrefix(p, q) /\ p # q) \/ LeftOf(p, q)
<1>1. Len(p) \in Nat /\ Len(q) \in Nat /\ Len(p) <= KeyLen /\ KeyLen \in Nat
  BY PathIsSeq, PathsAssumption
<1>2. PICK l : l = Min({Len(p), Len(q)})
  OBVIOUS
<1>3. l \in Nat /\ l <= Len(p) /\ l <= Len(q) /\ (l = Len(p) \/ l = Len(q))
  BY <1>1, <1>2, LeastOfTwo
<1>4. (Len(p) < Len(q) /\ IsPrefix(p, q)) <=> (IsPrefix(p, q) /\ p # q)
  BY <1>1, PrefixShorter
<1>5. ASSUME NEW n \in Nat, n >= 1, n <= l
      PROVE  SubSeq(p, 1, n - 1) = SubSeq(q, 1, n - 1) <=> \A i \in 1 .. n - 1 : p[i] = q[i]
  <2>1. PICK j : j = n - 1
    OBVIOUS
  <2>2. j \in Nat /\ j <= Len(p) /\ j <= Len(q)
    BY <1>1, <1>3, <1>5, <2>1
  <2> QED
    BY <2>1, <2>2, BeginsSame
<1>6. (\E n \in 1 .. l : SubSeq(p, 1, n - 1) = SubSeq(q, 1, n - 1) /\ p[n] < q[n])
      <=> LeftOf(p, q)
  <2>1. ASSUME NEW n \in 1 .. l, SubSeq(p, 1, n - 1) = SubSeq(q, 1, n - 1), p[n] < q[n]
        PROVE  LeftOf(p, q)
    <3>1. n \in Nat /\ n >= 1 /\ n <= l /\ n <= Len(p) /\ n <= Len(q)
      BY <1>1, <1>3, <2>1
    <3> QED
      BY <1>5, <2>1, <3>1, LeftFrom
  <2>2. ASSUME LeftOf(p, q)
        PROVE  \E n \in 1 .. l : SubSeq(p, 1, n - 1) = SubSeq(q, 1, n - 1) /\ p[n] < q[n]
    <3>1. PICK n \in 1 .. KeyLen :
              /\ n \in Nat /\ n >= 1 /\ n <= Len(p) /\ n <= Len(q)
              /\ (\A i \in 1 .. n - 1 : p[i] = q[i])
              /\ p[n] < q[n] /\ p[n] \in Nat /\ q[n] \in Nat
      BY <2>2, LeftIs
    <3>2. n \in 1 .. l /\ n <= l
      BY <1>1, <1>3, <3>1
    <3> QED
      BY <1>5, <3>1, <3>2
  <2> QED
    BY <2>1, <2>2
<1> QED
  BY <1>2, <1>4, <1>6 DEF LexLess

\* Slices are in a strict total order.
LEMMA LexOrder ==
    ASSUME NEW p \in Path, NEW q \in Path
    PROVE  /\ ~LexLess(p, p)
           /\ LexLess(p, q) \/ LexLess(q, p) \/ p = q
           /\ ~(LexLess(p, q) /\ LexLess(q, p))
<1>1. ~LexLess(p, p)
  BY LexLessIs, LeftApart
<1>2. LexLess(p, q) \/ LexLess(q, p) \/ p = q
  BY LexLessIs, AboveOrApart
<1>3. ASSUME IsPrefix(p, q), IsPrefix(q, p)
      PROVE  p = q
  BY <1>3, PrefixShorter, PrefixAntisym
<1>4. ~(LexLess(p, q) /\ LexLess(q, p))
  BY <1>3, LexLessIs, LeftApart
<1> QED
  BY <1>1, <1>2, <1>4

LEMMA LexTrans ==
    ASSUME NEW p \in Path, NEW q \in Path, NEW r \in Path, LexLess(p, q), LexLess(q, r)
    PROVE  LexLess(p, r)
<1>1. CASE LeftOf(p, q) /\ LeftOf(q, r)
  BY <1>1, LeftTrans, LexLessIs
<1>2. CASE LeftOf(p, q) /\ IsPrefix(q, r)
  <2>1. LeftOf(p, r)
    BY <1>2, PrefixRefl, LeftBelow
  <2> QED
    BY <2>1, LexLessIs
<1>3. CASE IsPrefix(p, q) /\ p # q /\ IsPrefix(q, r) /\ q # r
  <2>1. IsPrefix(p, r)
    BY <1>3, PrefixTrans
  <2>2. p # r
    BY <1>3, PrefixShorter, PrefixAntisym
  <2> QED
    BY <2>1, <2>2, LexLessIs
<1>4. CASE IsPrefix(p, q) /\ LeftOf(q, r)
  <2>1. LeftOf(p, r) \/ IsPrefix(p, r)
    BY <1>4, LeftAbove
  <2>2. p # r
    BY <1>4, LeftApart
  <2> QED
    BY <2>1, <2>2, LexLessIs
<1> QED
  BY <1>1, <1>2, <1>3, <1>4, LexLessIs

\* Seen from a target: above or below it, before it or after it.
LEMMA RelIs ==
    ASSUME NEW p \in Path, NEW t \in Path
    PROVE  /\ rel(p, t) = "AllLess" <=> LeftOf(p, t)
           /\ rel(p, t) = "AllGreater" <=> LeftOf(t, p)
<1>1. Len(p) \in Nat /\ Len(t) \in Nat
  BY PathIsSeq, PathsAssumption
<1>2. PICK n : n = Min({Len(p), Len(t)})
  OBVIOUS
<1>3. n \in Nat /\ n <= Len(p) /\ n <= Len(t) /\ n \in 0 .. Len(p) /\ n \in 0 .. Len(t)
      /\ (n = Len(p) \/ n = Len(t))
  BY <1>1, <1>2, LeastOfTwo
<1>4. PICK a : a = SubSeq(p, 1, n)
  OBVIOUS
<1>5. PICK b : b = SubSeq(t, 1, n)
  OBVIOUS
<1>6. /\ a \in Path /\ Len(a) = n /\ IsPrefix(a, p)
      /\ b \in Path /\ Len(b) = n /\ IsPrefix(b, t)
  BY <1>3, <1>4, <1>5, BeginsPath
<1>7. ASSUME NEW x \in Path, NEW y \in Path, IsPrefix(x, y), Len(x) = Len(y)
      PROVE  x = y
  BY <1>7, <1>1, PrefixAntisym, PathIsSeq, PathsAssumption
<1>8. n \in Nat /\ (a = p \/ b = t)
  BY <1>3, <1>6, <1>7
<1>9. LexLess(a, b) <=> LeftOf(a, b)
  BY <1>6, <1>7, LexLessIs
<1>10. LexLess(b, a) <=> LeftOf(b, a)
  BY <1>6, <1>7, LexLessIs
<1>11. /\ LeftOf(a, b) => LeftOf(p, t)
       /\ LeftOf(b, a) => LeftOf(t, p)
  BY <1>6, LeftBelow
<1>12. a = b => ~LeftOf(p, t) /\ ~LeftOf(t, p)
  <2>1. a = b => IsPrefix(p, t) \/ IsPrefix(t, p)
    BY <1>6, <1>8
  <2> QED
    BY <2>1, LeftApart
<1>13. a = b \/ LeftOf(a, b) \/ LeftOf(b, a)
  BY <1>6, <1>7, AboveOrApart
<1>14. /\ LeftOf(a, b) => a # b /\ ~LeftOf(b, a) /\ ~LeftOf(t, p)
       /\ LeftOf(b, a) => a # b /\ ~LeftOf(a, b) /\ ~LeftOf(p, t)
  <2>1. /\ LeftOf(a, b) => a # b /\ ~LeftOf(b, a)
        /\ LeftOf(b, a) => a # b /\ ~LeftOf(a, b)
    BY <1>6, LeftApart
  <2>2. /\ LeftOf(p, t) => ~LeftOf(t, p)
        /\ LeftOf(t, p) => ~LeftOf(p, t)
    BY LeftApart
  <2> QED
    BY <1>11, <2>1, <2>2
<1>15. rel(p, t) = CASE a = b         -> "OnPath"
                     [] LexLess(a, b) -> "AllLess"
                     [] LexLess(b, a) -> "AllGreater"
  BY <1>2, <1>4, <1>5 DEF rel
<1>16. CASE a = b
  <2>1. rel(p, t) = "OnPath"
    BY <1>9, <1>10, <1>14, <1>15, <1>16
  <2> QED
    BY <1>12, <1>16, <2>1
<1>17. CASE LeftOf(a, b)
  <2>1. rel(p, t) = "AllLess"
    BY <1>9, <1>10, <1>14, <1>15, <1>17
  <2> QED
    BY <1>11, <1>14, <1>17, <2>1
<1>18. CASE LeftOf(b, a)
  <2>1. rel(p, t) = "AllGreater"
    BY <1>9, <1>10, <1>14, <1>15, <1>18
  <2> QED
    BY <1>11, <1>14, <1>18, <2>1
<1> QED
  BY <1>13, <1>16, <1>17, <1>18

-----------------------------------------------------------------------------
(* What comes next *)

\* Nothing lies between a branch and the first path below it.
LEMMA FirstBelow ==
    ASSUME NEW p \in Inner, NEW x \in Path
    PROVE  /\ Append(p, 0) \in Path /\ Append(p, 0) # <<>>
           /\ LexLess(x, Append(p, 0)) <=> ~LexLess(p, x)
<1>0. p \in Path /\ Len(p) < KeyLen /\ Len(p) \in Nat /\ 0 \in Nibble /\ p \in Seq(Nibble)
  BY PathIsSeq, PathsAssumption DEF Inner, Nibble
<1>1. PICK q : q = Append(p, 0)
  OBVIOUS
<1>2. /\ q \in Seq(Nibble) /\ Len(q) = Len(p) + 1
      /\ \A i \in 1 .. Len(p) : q[i] = p[i]
      /\ q[Len(p) + 1] = 0
  BY <1>0, <1>1, AppendProperties
<1>3. q \in Path
  BY <1>0, <1>2, PathsAssumption, SeqIsPath
<1>4. IsPrefix(p, q) /\ IsChild(p, q)
  BY <1>0, <1>2, <1>3, PrefixByNibbles DEF IsChild
<1>5. ~LeftOf(x, q) \/ LeftOf(x, p)
  <2>1. SUFFICES ASSUME LeftOf(x, q), ~LeftOf(x, p)
                 PROVE  FALSE
    OBVIOUS
  <2>2. IsPrefix(p, x)
    BY <1>0, <1>3, <1>4, <2>1, LeftAbove
  <2>3. PICK n \in 1 .. KeyLen :
          /\ n \in Nat /\ n >= 1 /\ n <= Len(x) /\ n <= Len(q)
          /\ (\A i \in 1 .. n - 1 : x[i] = q[i])
          /\ x[n] < q[n] /\ x[n] \in Nat /\ q[n] \in Nat
    BY <1>3, <2>1, LeftIs
  <2>4. n # Len(p) + 1
    BY <1>2, <2>3
  <2>5. n \in 1 .. Len(p)
    BY <1>0, <1>2, <2>3, <2>4
  <2>6. x[n] = p[n]
    BY <1>0, <2>2, <2>5, PrefixByNibbles
  <2> QED
    BY <1>2, <2>3, <2>5, <2>6
<1>6. LexLess(x, q) => ~LexLess(p, x)
  <2>1. ASSUME LeftOf(x, p)
        PROVE  ~LexLess(p, x)
    BY <1>0, <2>1, LexLessIs, LeftApart
  <2>2. ASSUME IsPrefix(x, q), x # q
        PROVE  ~LexLess(p, x)
    <3>1. IsPrefix(x, p)
      BY <1>0, <1>3, <1>4, <2>2, ChildIsLonger
    <3>2. CASE x = p
      BY <1>0, <3>2, LexOrder
    <3>3. CASE x # p
      BY <1>0, <3>1, <3>3, LexLessIs, LexOrder
    <3> QED
      BY <3>2, <3>3
  <2> QED
    BY <1>3, <1>5, <2>1, <2>2, LexLessIs
<1>7. ~LexLess(p, x) => LexLess(x, q)
  <2>1. LexLess(p, q)
    BY <1>0, <1>3, <1>4, LexLessIs, ChildIsLonger
  <2> QED
    BY <1>0, <1>3, <2>1, LexOrder, LexTrans
<1>8. q # <<>>
  BY <1>0, <1>2, RootIsPath
<1> QED
  BY <1>1, <1>3, <1>6, <1>7, <1>8

LEMMA GreatestOfSet ==
    ASSUME NEW S \in SUBSET (1 .. KeyLen), S # {}
    PROVE  Max(S) \in S /\ \A y \in S : Max(S) >= y
<1>1. KeyLen \in Nat
  BY PathsAssumption
<1> DEFINE T == {KeyLen - n : n \in S}
<1>2. T \in SUBSET Nat /\ T # {}
  <2>1. ASSUME NEW n \in S
        PROVE  KeyLen - n \in Nat
    <3>1. n \in 1 .. KeyLen
      OBVIOUS
    <3> QED
      BY <1>1, <3>1
  <2> QED
    BY <2>1
<1>3. PICK t \in T : \A u \in T : t <= u
  BY <1>2, LeastOfSet
<1>4. PICK m \in S : t = KeyLen - m
  BY <1>3
<1>5. ASSUME NEW y \in S
      PROVE  m >= y
  <2>1. KeyLen - m <= KeyLen - y
    BY <1>3, <1>4
  <2> QED
    BY <1>1, <2>1
<1> QED
  BY <1>4, <1>5 DEF Max

LEMMA NibblesOfKey ==
    ASSUME NEW k \in Key
    PROVE  /\ k \in Path /\ Len(k) = KeyLen /\ KeyLen \in Nat /\ KeyLen >= 1
           /\ \A i \in 1 .. KeyLen : k[i] \in Nat /\ k[i] <= Radix - 1
<1>1. k \in [1 .. KeyLen -> 0 .. Radix - 1]
  BY DEF Key, Nibble
<1> QED
  BY <1>1, KeyIsPath, PathsAssumption

\* Between keys, the order is that of the nibble where they part.
LEMMA KeysApart ==
    ASSUME NEW k \in Key, NEW l \in Key
    PROVE  LexLess(k, l) <=> LeftOf(k, l)
BY LexLessIs, KeysMaximal, KeyIsPath

\* Nothing lies between a key and its successor; the last key has none.
LEMMA SuccessorIsNext ==
    ASSUME NEW k \in Key, NEW x \in Key
    PROVE  /\ key_successor(k) = <<>> => ~LexLess(k, x)
           /\ key_successor(k) # <<>> =>
                 /\ key_successor(k) \in Key
                 /\ LexLess(x, key_successor(k)) <=> ~LexLess(k, x)
<1> DEFINE below == {n \in 1 .. KeyLen : k[n] < Radix - 1}
<1>0. /\ KeyLen \in Nat /\ KeyLen >= 1 /\ Radix \in Nat /\ Radix >= 2
      /\ \A i \in 1 .. KeyLen : k[i] \in Nat /\ k[i] <= Radix - 1
      /\ \A i \in 1 .. KeyLen : x[i] \in Nat /\ x[i] <= Radix - 1
      /\ k \in Path /\ Len(k) = KeyLen /\ x \in Path /\ Len(x) = KeyLen
  BY NibblesOfKey, PathsAssumption
<1>1. CASE below = {}
  <2>1. key_successor(k) = <<>>
    BY <1>1 DEF key_successor
  <2>2. ASSUME LeftOf(k, x)
        PROVE  FALSE
    <3>1. PICK n \in 1 .. KeyLen : k[n] < x[n]
      BY <1>0, <2>2, LeftIs
    <3>2. n \in below
      BY <1>0, <3>1
    <3> QED
      BY <1>1, <3>2
  <2> QED
    BY <2>1, <2>2, KeysApart
<1>2. CASE below # {}
  <2>1. PICK m : m = Max(below)
    OBVIOUS
  <2>2. m \in below /\ \A y \in below : m >= y
    BY <1>2, <2>1, GreatestOfSet
  <2>3. /\ m \in Nat /\ m >= 1 /\ m <= KeyLen /\ m \in 1 .. KeyLen /\ k[m] < Radix - 1
        /\ \A n \in 1 .. KeyLen : n > m => k[n] = Radix - 1
    <3>1. ASSUME NEW n \in 1 .. KeyLen, n > m, k[n] # Radix - 1
          PROVE  FALSE
      <4>1. n \in below
        BY <1>0, <3>1
      <4> QED
        BY <1>0, <2>2, <3>1, <4>1
    <3> QED
      BY <1>0, <2>2, <3>1
  <2>4. PICK s : s = [n \in 1 .. KeyLen |-> CASE n < Max(below) -> k[n]
                                              [] n = Max(below) -> k[n] + 1
                                              [] n > Max(below) -> 0]
    OBVIOUS
  <2>5. key_successor(k) = s
    BY <1>2, <2>4 DEF key_successor
  <2>6. /\ \A n \in 1 .. KeyLen : n < m => s[n] = k[n]
        /\ s[m] = k[m] + 1
        /\ \A n \in 1 .. KeyLen : n > m => s[n] = 0
    <3> HIDE DEF below
    <3> QED
      BY <1>0, <2>1, <2>3, <2>4
  <2>7. s \in Key
    <3>1. ASSUME NEW n \in 1 .. KeyLen
          PROVE  s[n] \in 0 .. Radix - 1
      <4>1. k[n] \in Nat /\ k[n] <= Radix - 1 /\ Radix - 1 \in Nat
        BY <1>0
      <4>2. CASE n < m
        BY <2>6, <4>1, <4>2
      <4>3. CASE n = m
        BY <1>0, <2>3, <2>6, <4>1, <4>3
      <4>4. CASE n > m
        BY <2>6, <4>1, <4>4
      <4> QED
        BY <2>3, <4>2, <4>3, <4>4
    <3>2. s = [n \in 1 .. KeyLen |-> s[n]]
      <4> DEFINE d(n) == CASE n < Max(below) -> k[n]
                           [] n = Max(below) -> k[n] + 1
                           [] n > Max(below) -> 0
      <4>1. s = [n \in 1 .. KeyLen |-> d(n)]
        BY <2>4
      <4> HIDE DEF d
      <4> QED
        BY <4>1
    <3> QED
      BY <3>1, <3>2 DEF Key, Nibble
  <2>8. s # <<>> /\ s \in Path /\ Len(s) = KeyLen
    BY <1>0, <2>7, KeyIsPath, RootIsPath
  <2>9. LexLess(k, s)
    <3>1. \A i \in 1 .. m - 1 : i \in 1 .. KeyLen /\ i < m
      BY <1>0, <2>3
    <3>2. (\A i \in 1 .. m - 1 : k[i] = s[i]) /\ k[m] < s[m]
      BY <1>0, <2>3, <2>6, <3>1
    <3>3. LeftOf(k, s)
      BY <1>0, <2>3, <2>8, <3>2, LeftFrom
    <3> QED
      BY <2>7, <3>3, KeysApart
  <2>10. ASSUME LexLess(k, x), LexLess(x, s)
         PROVE  FALSE
    <3>1. PICK n \in 1 .. KeyLen :
            /\ n \in Nat /\ n >= 1
            /\ (\A i \in 1 .. n - 1 : k[i] = x[i]) /\ k[n] < x[n]
      BY <1>0, <2>10, KeysApart, LeftIs
    <3>2. ~LeftOf(s, x)
      BY <1>0, <2>7, <2>8, <2>10, KeysApart, LeftApart
    <3>3. n <= m
      BY <1>0, <2>3, <3>1
    <3>4. \A i \in 1 .. n - 1 : i \in 1 .. KeyLen /\ i < m /\ s[i] = x[i]
      <4>1. \A i \in 1 .. n - 1 : i \in 1 .. KeyLen /\ i < m
        BY <1>0, <2>3, <3>1, <3>3
      <4> QED
        BY <2>6, <3>1, <4>1
    <3>5. ~(s[n] < x[n])
      <4>1. n <= KeyLen /\ \A i \in 1 .. n - 1 : s[i] = x[i]
        BY <1>0, <3>1, <3>4
      <4> QED
        BY <1>0, <2>8, <3>1, <3>2, <4>1, LeftFrom
    <3>6. n = m
      BY <1>0, <2>3, <2>6, <3>1, <3>3, <3>5
    <3>7. s[m] = x[m]
      BY <1>0, <2>3, <2>6, <3>1, <3>5, <3>6
    <3>8. PICK j \in 1 .. KeyLen :
            /\ j \in Nat /\ j >= 1
            /\ (\A i \in 1 .. j - 1 : x[i] = s[i]) /\ x[j] < s[j]
      BY <1>0, <2>7, <2>8, <2>10, KeysApart, LeftIs
    <3>9. CASE j < m
      <4>1. j \in 1 .. n - 1
        BY <2>3, <3>6, <3>8, <3>9
      <4> QED
        BY <1>0, <3>4, <3>8, <4>1
    <3>10. CASE j = m
      BY <1>0, <3>7, <3>8, <3>10
    <3>11. CASE j > m
      BY <1>0, <2>6, <3>8, <3>11
    <3> QED
      BY <2>3, <3>8, <3>9, <3>10, <3>11
  <2>11. ~LexLess(k, x) => LexLess(x, s)
    BY <1>0, <2>8, <2>9, LexOrder, LexTrans
  <2> QED
    BY <2>5, <2>7, <2>8, <2>10, <2>11
<1> QED
  BY <1>1, <1>2
=============================================================================
