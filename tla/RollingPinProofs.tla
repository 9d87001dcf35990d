-------------------------- MODULE RollingPinProofs --------------------------
(***************************************************************************)
(* Type correctness of RollingPin, for any number of regions and           *)
(* generations, and with it that the pins the allocator counts are the     *)
(* snapshots the embedder has published, and that a dead region waits in   *)
(* one place only.  It follows that no step takes a region a checkpoint    *)
(* may refer to out of that place while a pin stays live.                  *)
(*                                                                         *)
(* What the allocator's methods keep is proved in RegionReuseProofs.       *)
(***************************************************************************)
EXTENDS RollingPin, TLAPS

\* The lemmas about the allocator alone; its clients there do not matter.
RP == INSTANCE RegionReuseProofs WITH
    MaxClones <- 0, held <- live, copies <- live, lost <- live, snaps <- livePins, seen <- livePins,
    cached <- freeRegions, durable <- live, durableEnd <- fileEnd, pend <- live, pendEnd <- fileEnd,
    wpc <- "idle", gpc <- "idle", gcGen <- 0

Pinned(g, gen) == IF g = gen THEN 1 ELSE 0

\* The live pins are the published snapshot and the one it replaces.
PinsInv ==
    /\ \A g \in Gen : livePins[g] = Pinned(g, published) + Pinned(g, old)
    /\ old # 0 => old < published
    /\ published <= pinGen

\* A dead region waits in one place, within the file, and what lives lies below
\* the append point.
ListsInv == RP!HeadInv /\ RP!ListInv

Inv == TypeOK /\ ListsInv /\ PinsInv

\* The allocator here is the one of RegionReuse.
LEMMA SameAllocator ==
    /\ \A run, units : Alloc(run, units) => RP!Alloc(run, units)
    /\ \A r, units : Free(r, units) => RP!Free(r, units)
    /\ \A g : Unpin(g) => RP!Unpin(g)
    /\ OnPersisted => RP!OnPersisted
    /\ DrainStaged => RP!DrainStaged
    /\ RP!AllocTypeOK <=> AllocTypeOK
    /\ RP!Region = Region /\ RP!Gen = Gen /\ RP!headVars = headVars /\ RP!listVars = listVars
    /\ RP!pinVars = pinVars
<1>1. /\ RP!Region = Region /\ RP!Gen = Gen /\ RP!headVars = headVars /\ RP!listVars = listVars
      /\ RP!pinVars = pinVars
  BY DEF Region, RP!Region, Gen, RP!Gen, headVars, RP!headVars, listVars, RP!listVars, pinVars,
         RP!pinVars
<1>2. \A run, units : Alloc(run, units) => RP!Alloc(run, units)
  BY DEF Alloc, RP!Alloc, AllocInHead, RP!AllocInHead, AllocNewHead, RP!AllocNewHead,
         Fits, RP!Fits, MaxOf, RP!MaxOf, NewHeadChoices, RP!NewHeadChoices, NoRegion,
         RP!NoRegion, Region, RP!Region, listVars, RP!listVars, pinVars, RP!pinVars
<1>3. \A r, units : Free(r, units) => RP!Free(r, units)
  BY DEF Free, RP!Free, Dies, RP!Dies, SaturatingSub, RP!SaturatingSub, AnyPinLive,
         RP!AnyPinLive, Gen, RP!Gen, headVars, RP!headVars, pinVars, RP!pinVars
<1>4. \A g : Unpin(g) => RP!Unpin(g)
  BY DEF Unpin, RP!Unpin, ReleaseSnapHold, RP!ReleaseSnapHold, Released, RP!Released,
         Gen, RP!Gen, Region, RP!Region, headVars, RP!headVars
<1>5. (OnPersisted => RP!OnPersisted) /\ (DrainStaged => RP!DrainStaged)
  BY DEF OnPersisted, RP!OnPersisted, DrainStaged, RP!DrainStaged, AnyPinLive, RP!AnyPinLive, Gen,
         RP!Gen, Region, RP!Region, headVars, RP!headVars, pinVars, RP!pinVars
<1>6. RP!AllocTypeOK <=> AllocTypeOK
  BY DEF AllocTypeOK, RP!AllocTypeOK, Region, RP!Region, NoRegion, RP!NoRegion, Gen, RP!Gen
<1> QED
  BY <1>1, <1>2, <1>3, <1>4, <1>5, <1>6

\* What the lemmas of RegionReuseProofs assume of the constants.
LEMMA Sizes ==
    NumRegions \in Nat \ {0} /\ RegionUnits \in Nat \ {0} /\ MaxGen \in Nat /\ MaxGen >= 2
BY AllocAssumption, EmbedderAssumption

\* The invariant in the terms of those lemmas.
LEMMA InvForm ==
    Inv <=> RP!AllocOK /\ embedder \in Embedders /\ published \in 0 .. MaxGen /\ old \in 0 .. MaxGen
            /\ PinsInv
BY SameAllocator DEF Inv, TypeOK, ListsInv, RP!AllocOK

\* A new database, with nothing published.
LEMMA InvInit == Init => Inv
<1> SUFFICES ASSUME Init PROVE Inv
  OBVIOUS
<1>1. TypeOK
  BY Sizes DEF Init, AllocInit, TypeOK, AllocTypeOK, Region, Gen, NoRegion
<1>2. RP!HeadInv
  BY Sizes DEF Init, AllocInit, RP!HeadInv, RP!NoRegion, RP!Region, Region, NoRegion
<1>3. RP!ListInv
  BY DEF Init, AllocInit, RP!ListInv, RP!ListedOnce, RP!Waiting
<1>4. PinsInv
  BY Sizes DEF Init, AllocInit, PinsInv, Pinned, Gen
<1> QED
  BY <1>1, <1>2, <1>3, <1>4 DEF Inv, ListsInv

\* The same of the next state.
LEMMA InvFormNext ==
    ASSUME RP!AllocOK', embedder' \in Embedders, published' \in 0 .. MaxGen,
           old' \in 0 .. MaxGen, PinsInv'
    PROVE  Inv'
BY SameAllocator DEF Inv, TypeOK, ListsInv, RP!AllocOK, RP!AllocTypeOK, AllocTypeOK, Region,
   RP!Region, Gen, RP!Gen, NoRegion, RP!NoRegion

-----------------------------------------------------------------------------
(* Each action preserves the invariant. *)

\* What leaves the pins and the snapshots alone keeps what is said of them.
LEMMA SamePins ==
    ASSUME Inv, RP!AllocOK', UNCHANGED <<livePins, pinGen, embedder, published, old>>
    PROVE  Inv'
<1>1. PinsInv'
  BY InvForm DEF PinsInv
<1> QED
  BY <1>1, InvForm, InvFormNext

\* A block writes a record.
LEMMA InvWrite == ASSUME Inv, Write PROVE Inv'
<1>1. RP!AllocOK' /\ UNCHANGED <<livePins, pinGen>>
  BY InvForm, SameAllocator, Sizes, RP!AllocEffect DEF Write
<1> QED
  BY <1>1, SamePins DEF Write

\* A block frees a record, and its region may die.
LEMMA InvFree == ASSUME Inv, NEW r \in Region, FreeRecord(r) PROVE Inv'
<1>1. live[r] \in Nat /\ 1 \in 1 .. live[r] /\ r \in RP!Region /\ RP!Free(r, 1)
  BY InvForm, SameAllocator, Sizes DEF FreeRecord, RP!AllocOK, AllocTypeOK
<1>2. RP!AllocOK' /\ UNCHANGED pinVars
  BY <1>1, InvForm, SameAllocator, Sizes, RP!FreeEffect DEF pinVars, RP!pinVars
<1> QED
  BY <1>2, SamePins DEF FreeRecord, pinVars

\* A persist ends.
LEMMA InvPersist == ASSUME Inv, Persist PROVE Inv'
<1>1. RP!AllocOK' /\ UNCHANGED <<livePins, pinGen>>
  BY InvForm, SameAllocator, Sizes, RP!PersistedEffect DEF Persist
<1> QED
  BY <1>1, SamePins DEF Persist

\* The read-ahead cache is cleared.
LEMMA InvClear == ASSUME Inv, Clear PROVE Inv'
<1>1. RP!AllocOK' /\ UNCHANGED pinVars
  BY InvForm, SameAllocator, Sizes, RP!DrainEffect DEF Clear, pinVars, RP!pinVars
<1> QED
  BY <1>1, SamePins DEF Clear, pinVars

\* A new snapshot is pinned and published: it is newer than the one it
\* replaces, so that the two are counted apart.
LEMMA InvPublish == ASSUME Inv, Publish PROVE Inv'
<1> DEFINE g == pinGen + 1
<1>1. /\ g \in Gen /\ livePins' = [livePins EXCEPT ![g] = @ + 1] /\ pinGen' = g
      /\ UNCHANGED <<live, headVars, listVars, embedder>>
      /\ published' = g /\ old' = published /\ old = 0
  BY InvForm, SameAllocator, Sizes DEF Publish, Pin, Gen, RP!AllocOK, AllocTypeOK
<1>2. /\ livePins \in [Gen -> Nat] /\ pinGen \in 0 .. MaxGen /\ published \in 0 .. MaxGen
      /\ published <= pinGen
  BY InvForm, SameAllocator DEF RP!AllocOK, AllocTypeOK, PinsInv
<1>3. RP!AllocOK'
  BY <1>1, InvForm, SameAllocator, Sizes, RP!PinEffect
     DEF headVars, RP!headVars, listVars, RP!listVars
<1>4. PinsInv'
  BY <1>1, <1>2, InvForm, Sizes DEF PinsInv, Pinned, Gen
<1> QED
  BY <1>1, <1>2, <1>3, <1>4, InvForm, InvFormNext, Sizes DEF Gen

\* A live pin is given back.
LEMMA InvUnpin ==
    ASSUME Inv, NEW g \in Gen, livePins[g] > 0, Unpin(g)
    PROVE  RP!AllocOK' /\ livePins' = [livePins EXCEPT ![g] = @ - 1] /\ pinGen' = pinGen
BY InvForm, SameAllocator, Sizes, RP!UnpinEffect

\* The replaced snapshot is dropped; it was pinned.
LEMMA InvDropOld == ASSUME Inv, DropOld PROVE Inv'
<1>1. /\ livePins \in [Gen -> Nat] /\ pinGen \in 0 .. MaxGen /\ published \in 0 .. MaxGen
      /\ old \in Gen /\ old < published /\ PinsInv
  BY InvForm, SameAllocator, Sizes DEF RP!AllocOK, AllocTypeOK, PinsInv, DropOld, Gen
<1>2. livePins[old] > 0
  BY <1>1 DEF PinsInv, Pinned
<1>3. RP!AllocOK' /\ livePins' = [livePins EXCEPT ![old] = @ - 1] /\ pinGen' = pinGen
  BY <1>1, <1>2, InvUnpin DEF DropOld
<1>4. PinsInv'
  BY <1>1, <1>3, Sizes DEF PinsInv, Pinned, DropOld, Gen
<1> QED
  BY <1>1, <1>3, <1>4, InvForm, InvFormNext, Sizes DEF DropOld

\* The last snapshot is let go; it was pinned.
LEMMA InvUnpublish == ASSUME Inv, Unpublish PROVE Inv'
<1>1. /\ livePins \in [Gen -> Nat] /\ pinGen \in 0 .. MaxGen
      /\ published \in Gen /\ old = 0 /\ PinsInv
  BY InvForm, SameAllocator, Sizes DEF RP!AllocOK, AllocTypeOK, Unpublish, Gen
<1>2. livePins[published] > 0
  BY <1>1, Sizes DEF PinsInv, Pinned, Gen
<1>3. RP!AllocOK' /\ livePins' = [livePins EXCEPT ![published] = @ - 1] /\ pinGen' = pinGen
  BY <1>1, <1>2, InvUnpin DEF Unpublish
<1>4. PinsInv'
  BY <1>1, <1>3, Sizes DEF PinsInv, Pinned, Unpublish, Gen
<1> QED
  BY <1>1, <1>3, <1>4, InvForm, InvFormNext, Sizes DEF Unpublish

\* The generations are numbered anew: the parked regions stay the same.
LEMMA InvRenumber == ASSUME Inv, Renumber PROVE Inv'
<1> DEFINE shift(g) == IF g = MaxGen THEN 1 ELSE 0
<1>1. /\ pinGen = MaxGen /\ old = 0 /\ published \in {0, MaxGen} /\ pinGen' = 1
      /\ livePins' = [g \in Gen |-> IF g = 1 THEN livePins[MaxGen] ELSE 0]
      /\ snapHold' = {<<h[1], shift(h[2])>> : h \in snapHold}
      /\ published' = shift(published)
      /\ UNCHANGED <<live, head, nextUnit, fileEnd, fresh, evacPinned>>
      /\ UNCHANGED <<freeRegions, quarantine, stagedFree, embedder, old>>
  BY DEF Renumber, headVars
<1>2. RP!AllocOK /\ AllocTypeOK /\ PinsInv /\ RP!ListInv /\ RP!HeadInv
  BY InvForm, SameAllocator DEF RP!AllocOK
<1>3. \A k \in snapHold' : \E h \in snapHold : k = <<h[1], shift(h[2])>>
  BY <1>1
<1>4. \A h \in snapHold : h[1] \in Region /\ shift(h[2]) \in 0 .. MaxGen
  BY <1>2, Sizes DEF AllocTypeOK
<1>5. AllocTypeOK'
  <2>1. livePins' \in [Gen -> Nat]
    BY <1>1, <1>2, Sizes DEF AllocTypeOK, Gen
  <2>2. snapHold' \in SUBSET (Region \X (0 .. MaxGen))
    BY <1>3, <1>4
  <2> QED
    BY <2>1, <2>2, <1>1, <1>2, Sizes DEF AllocTypeOK
<1>6. RP!ListedOnce'
  <2>1. \A k \in snapHold' : /\ k[1] \notin freeRegions \cup stagedFree \cup quarantine
                             /\ live[k[1]] = 0 /\ k[1] # head
    BY <1>2, <1>3 DEF RP!ListInv, RP!ListedOnce
  <2>2. \A k, l \in snapHold' : k[1] = l[1] => k = l
    BY <1>2, <1>3 DEF RP!ListInv, RP!ListedOnce
  <2> QED
    BY <2>1, <2>2, <1>1, <1>2 DEF RP!ListInv, RP!ListedOnce
<1>7. RP!ListInv'
  <2>1. \A k \in snapHold' : k[1] < fileEnd
    BY <1>2, <1>3 DEF RP!ListInv
  <2> QED
    BY <2>1, <1>6, <1>1, <1>2 DEF RP!ListInv, RP!Waiting
<1>8. RP!HeadInv'
  BY <1>1, <1>2 DEF RP!HeadInv, RP!NoRegion, RP!Region
<1>9. RP!AllocTypeOK'
  BY <1>5 DEF RP!AllocTypeOK, AllocTypeOK, Region, RP!Region, Gen, RP!Gen, NoRegion, RP!NoRegion
<1>10. PinsInv'
  BY <1>1, <1>2, Sizes DEF PinsInv, Pinned, Gen
<1> QED
  BY <1>1, <1>7, <1>8, <1>9, <1>10, InvForm, InvFormNext, Sizes DEF RP!AllocOK

\* Every step preserves the invariant.
LEMMA InvNext == Inv /\ [Next]_vars => Inv'
<1> SUFFICES ASSUME Inv, [Next]_vars PROVE Inv'
  OBVIOUS
<1>1. CASE UNCHANGED vars
  <2> USE <1>1 DEF vars, raVars
  <2>1. TypeOK'
    BY DEF Inv, TypeOK, AllocTypeOK
  <2>2. ListsInv'
    BY DEF Inv, ListsInv, RP!HeadInv, RP!ListInv, RP!ListedOnce, RP!Waiting
  <2>3. PinsInv'
    BY DEF Inv, PinsInv
  <2> QED
    BY <2>1, <2>2, <2>3 DEF Inv
<1> QED
  BY <1>1, InvWrite, InvFree, InvPersist, InvClear, InvPublish, InvDropOld, InvUnpublish,
     InvRenumber DEF Next

-----------------------------------------------------------------------------
\* The invariant holds in every state the embedders reach.
THEOREM RollingInductive == Spec => []Inv
<1> QED
  BY InvInit, InvNext, PTL DEF Spec

\* TypeOK: the allocator keeps its types under every embedder, however long
\* its snapshots roll (live_pins, snap_hold and the region lists of RegionAlloc).
THEOREM RollingTypeCorrect == Spec => []TypeOK
<1>1. Inv => TypeOK
  BY DEF Inv
<1> QED
  BY <1>1, RollingInductive, PTL

-----------------------------------------------------------------------------
(* What a live pin holds *)

\* A held region lies within the file and is not reusable: no new head opens it.
LEMMA HeldApart ==
    ASSUME Inv, NEW r \in Region, Held(r)
    PROVE  r < fileEnd /\ r \notin freeRegions
BY DEF Inv, ListsInv, Held, RP!ListInv, RP!ListedOnce, RP!Waiting

\* Writing a record opens none of them.
LEMMA HeldWrite ==
    ASSUME Inv, NEW r \in Region, Held(r), Write
    PROVE  Held(r)'
<1>1. r < fileEnd /\ r \notin freeRegions /\ fileEnd \in Nat
  BY HeldApart, Sizes DEF Inv, TypeOK, AllocTypeOK
<1>2. CASE AllocInHead(1, 1)
  BY <1>2 DEF AllocInHead, listVars, Held
<1>3. CASE AllocNewHead(1, 1)
  <2>1. PICK h \in NewHeadChoices : fresh' = [fresh EXCEPT ![h] = TRUE]
    BY <1>3 DEF AllocNewHead
  <2>2. h # r
    BY <1>1 DEF NewHeadChoices
  <2>3. fresh'[r] = fresh[r]
    BY <2>1, <2>2 DEF Inv, TypeOK, AllocTypeOK
  <2> QED
    BY <1>3, <2>3 DEF AllocNewHead, Held
<1> QED
  BY <1>2, <1>3 DEF Write, Alloc

\* Persist parks the quarantine anew, for the pin that is live.
LEMMA HeldPersist ==
    ASSUME Inv, NEW r \in Region, Held(r), AnyPinLive, Persist
    PROVE  Held(r)'
<1>1. fresh'[r] = FALSE
  BY DEF Persist, OnPersisted
<1>2. snapHold' = snapHold \cup {<<q, pinGen>> : q \in quarantine}
  BY DEF Persist, OnPersisted
<1>3. \E h \in snapHold' : h[1] = r
  <2>1. CASE r \in quarantine
    <3>1. <<r, pinGen>> \in snapHold'
      BY <1>2, <2>1
    <3> QED
      BY <3>1
  <2>2. CASE \E h \in snapHold : h[1] = r
    BY <1>2, <2>2
  <2> QED
    BY <2>1, <2>2 DEF Held
<1> QED
  BY <1>1, <1>3 DEF Held

\* What a dropped pin releases goes back to the quarantine.
LEMMA HeldUnpin ==
    ASSUME NEW r \in Region, Held(r), NEW g, Unpin(g)
    PROVE  Held(r)'
<1>1. fresh' = fresh
  BY DEF Unpin, headVars
<1>2. CASE r \in quarantine
  BY <1>1, <1>2 DEF Unpin, ReleaseSnapHold, Held
<1>3. CASE \E h \in Released(livePins') : h[1] = r
  BY <1>1, <1>3 DEF Unpin, ReleaseSnapHold, Held
<1>4. CASE \E h \in snapHold \ Released(livePins') : h[1] = r
  BY <1>1, <1>4 DEF Unpin, ReleaseSnapHold, Held
<1> QED
  BY <1>2, <1>3, <1>4 DEF Held

\* New numbers for the generations leave every region where it is.
LEMMA HeldRenumber ==
    ASSUME NEW r \in Region, Held(r), Renumber
    PROVE  Held(r)'
<1>1. UNCHANGED <<fresh, quarantine>>
  BY DEF Renumber, headVars
<1>2. ASSUME NEW h \in snapHold
      PROVE  \E k \in snapHold' : k[1] = h[1]
  <2>1. PICK n : <<h[1], n>> \in snapHold'
    BY DEF Renumber
  <2> QED
    BY <2>1
<1> QED
  BY <1>1, <1>2 DEF Held

LEMMA HeldNext ==
    ASSUME Inv, [Next]_vars, NEW r \in Region, Held(r), AnyPinLive
    PROVE  Held(r)'
<1>1. CASE UNCHANGED vars
  BY <1>1 DEF vars, raVars, Held
<1>2. CASE Write
  BY <1>2, HeldWrite
<1>3. ASSUME NEW q \in Region, FreeRecord(q)
      PROVE  Held(r)'
  <2>1. UNCHANGED fresh /\ quarantine \subseteq quarantine' /\ snapHold \subseteq snapHold'
    BY <1>3 DEF FreeRecord, Free, headVars
  <2> QED
    BY <2>1 DEF Held
<1>4. CASE Persist
  BY <1>4, HeldPersist
<1>5. CASE Clear
  BY <1>5 DEF Clear, DrainStaged, headVars, Held
<1>6. CASE Publish
  BY <1>6 DEF Publish, Pin, headVars, listVars, Held
<1>7. CASE DropOld
  BY <1>7, HeldUnpin DEF DropOld
<1>8. CASE Unpublish
  BY <1>8, HeldUnpin DEF Unpublish
<1>9. CASE Renumber
  BY <1>9, HeldRenumber
<1> QED
  BY <1>1, <1>2, <1>3, <1>4, <1>5, <1>6, <1>7, <1>8, <1>9 DEF Next

\* HeldWhilePinned: a region that died after a checkpoint saw it leaves snap_hold
\* and quarantine in no step from one live pin to another (on_persisted and
\* release_snap_hold), for any number of regions and generations.
THEOREM RollingHeldWhilePinned == Spec => HeldWhilePinned
<1> DEFINE Kept == \A r \in Region : Held(r) /\ AnyPinLive /\ AnyPinLive' => Held(r)'
<1>1. Inv /\ [Next]_vars => [Kept]_vars
  BY HeldNext
<1> QED
  BY <1>1, RollingInductive, PTL DEF Spec, HeldWhilePinned
=============================================================================
