-------------------------- MODULE FlatStoreProofs ---------------------------
(***************************************************************************)
(* The theorems about the store: its invariant (StoreInductive), its types *)
(* (StoreTypeCorrect), that it uses the allocator as RegionReuse says      *)
(* (ReuseRefines), that it keeps what SnapshotStore promises its callers   *)
(* (StoreRefines), and that no record is overwritten while somebody        *)
(* references it (RecordsNotOverwritten).                                  *)
(*                                                                         *)
(* The invariant Inv is in two halves.  RP!IInv is RegionReuse's, under    *)
(* the mapping of the store to it: no region that may be reopened is       *)
(* referenced. StoreInv is about records: which slot owns which unit       *)
(* (OwnerInv, FrontInv), what gc_step and a background batch have in       *)
(* flight (EvacInv, BatchInv), that the records of snapshots, cache and    *)
(* manifest are still on disk (SnapInv, CoherentInv, ManifestInv), and     *)
(* that all of them lie below the append point (BelowInv).  Each half      *)
(* needs the other: a record is not overwritten because its region is not  *)
(* reopened, and a region's count is exact because no unit has two owners. *)
(*                                                                         *)
(* First the invariant and what the proofs of its steps have in common;    *)
(* then a lemma for each action, or group of actions that differ in the    *)
(* control state only: it keeps StoreInv, and is for the allocator a step  *)
(* of RegionReuse or none; then the theorems.                              *)
(***************************************************************************)
EXTENDS FlatStore, FiniteSetTheorems, FunctionTheorems, TLAPS

RP == INSTANCE RegionReuseProofs WITH
    MaxClones <- 1, held <- heldBar, copies <- copiesBar, lost <- lostBar,
    snaps <- snapsBar, seen <- seenBar, cached <- cachedBar,
    durable <- durableBar, durableEnd <- durableEndBar,
    pend <- pendBar, pendEnd <- pendEndBar, wpc <- wpcBar, gpc <- gpcBar

-----------------------------------------------------------------------------
(* Addresses *)

\* A unit of a region is an address of the file, and lies in that region
\* (addresses are region * REGION_UNITS + offset in alloc and free).
LEMMA Addresses ==
    ASSUME NEW r \in Region, NEW k \in 0 .. RegionUnits - 1
    PROVE  r * RegionUnits + k \in Unit /\ RegionOf(r * RegionUnits + k) = r
BY AllocAssumption DEF Region, Unit, RegionOf

\* Every address lies in a region: what free and region_of_unit index live by
\* is in range.
LEMMA UnitRegion ==
    ASSUME NEW u \in Unit
    PROVE  u \in Nat /\ RegionOf(u) \in Region
BY AllocAssumption DEF Region, Unit, RegionOf

\* A slot of the frontier is empty, a leaf in RAM or a pointer to a unit, and
\* one of these only (RamChild in lib.rs).
LEMMA Slots ==
    /\ \A s \in Slot : /\ IsDisk(s) => s[2] \in Unit /\ s = Disk(s[2]) /\ s \in DiskSlot
                       /\ IsMem(s) => s[2] \in Val /\ s = Mem(s[2])
                       /\ s # None /\ ~IsMem(s) => IsDisk(s)
                       /\ ~(IsMem(s) /\ IsDisk(s))
    /\ \A u \in Unit : /\ Disk(u) \in Slot /\ Disk(u) \in DiskSlot
                       /\ IsDisk(Disk(u)) /\ ~IsMem(Disk(u)) /\ Disk(u)[2] = u
                       /\ Disk(u) # None
    /\ \A v \in Val : Mem(v) \in Slot /\ IsMem(Mem(v)) /\ ~IsDisk(Mem(v)) /\ Mem(v)[2] = v
    /\ None \in Slot /\ None \in DiskSlot /\ ~IsDisk(None) /\ ~IsMem(None)
    /\ DiskSlot \subseteq Slot
    /\ \A s \in DiskSlot : ~IsMem(s)
BY NoneAssumption DEF Slot, DiskSlot, IsDisk, IsMem, Disk, Mem

-----------------------------------------------------------------------------
(* Counts *)

\* The file has finitely many addresses, so records can be counted per region.
LEMMA UnitsFinite == IsFiniteSet(Unit)
<1>1. NumRegions * RegionUnits - 1 \in Int
  BY AllocAssumption
<1> QED
  BY <1>1, FS_Interval DEF Unit

\* The units of a set in one region are a number, positive when there is one:
\* a region whose live count is zero holds none of them.
LEMMA CountType ==
    ASSUME NEW S \in SUBSET Unit
    PROVE  /\ CountIn(S) \in [Region -> Nat]
           /\ \A r \in Region : CountIn(S)[r] > 0 <=> \E u \in S : RegionOf(u) = r
<1> SUFFICES ASSUME NEW r \in Region
             PROVE  /\ CountIn(S)[r] \in Nat
                    /\ CountIn(S)[r] > 0 <=> \E u \in S : RegionOf(u) = r
  BY DEF CountIn
<1> DEFINE T == {u \in S : RegionOf(u) = r}
<1>1. IsFiniteSet(T)
  BY UnitsFinite, FS_Subset
<1>2. Cardinality(T) \in Nat /\ (Cardinality(T) = 0 <=> T = {})
  BY <1>1, FS_CardinalityType, FS_EmptySet
<1>3. CountIn(S)[r] = Cardinality(T)
  BY DEF CountIn
<1> QED
  BY <1>2, <1>3

\* A new record adds one to the count of its region (alloc).
LEMMA CountAdd ==
    ASSUME NEW S \in SUBSET Unit, NEW u \in Unit, u \notin S
    PROVE  CountIn(S \cup {u}) = [CountIn(S) EXCEPT ![RegionOf(u)] = @ + 1]
<1> SUFFICES ASSUME NEW r \in Region
             PROVE  CountIn(S \cup {u})[r] =
                        IF r = RegionOf(u) THEN CountIn(S)[r] + 1 ELSE CountIn(S)[r]
  BY UnitRegion DEF CountIn
<1> DEFINE T == {w \in S : RegionOf(w) = r}
           U == {w \in S \cup {u} : RegionOf(w) = r}
<1>1. IsFiniteSet(T) /\ u \notin T
  BY UnitsFinite, FS_Subset
<1>2. CountIn(S)[r] = Cardinality(T) /\ CountIn(S \cup {u})[r] = Cardinality(U)
  BY DEF CountIn
<1>3. U = IF r = RegionOf(u) THEN T \cup {u} ELSE T
  OBVIOUS
<1>4. Cardinality(T \cup {u}) = Cardinality(T) + 1
  BY <1>1, FS_AddElement
<1> QED
  BY <1>2, <1>3, <1>4

\* A record that goes takes one from the count of its region, which was
\* positive, so the saturating subtraction of free never saturates.
LEMMA CountRemove ==
    ASSUME NEW S \in SUBSET Unit, NEW u \in S
    PROVE  /\ CountIn(S \ {u}) = [CountIn(S) EXCEPT ![RegionOf(u)] = @ - 1]
           /\ CountIn(S)[RegionOf(u)] > 0
<1> DEFINE T == S \ {u}
<1>1. u \in Unit /\ RegionOf(u) \in Region /\ T \in SUBSET Unit /\ u \notin T /\ T \cup {u} = S
  BY UnitRegion
<1>2. CountIn(S) = [CountIn(T) EXCEPT ![RegionOf(u)] = @ + 1]
  BY <1>1, CountAdd
<1>3. CountIn(T) \in [Region -> Nat] /\ CountIn(S) \in [Region -> Nat]
  BY <1>1, CountType
<1> HIDE DEF T
<1>4. /\ CountIn(S)[RegionOf(u)] = CountIn(T)[RegionOf(u)] + 1
      /\ \A r \in Region : r # RegionOf(u) => CountIn(S)[r] = CountIn(T)[r]
  BY <1>1, <1>2, <1>3
<1>5. CountIn(T) = [CountIn(S) EXCEPT ![RegionOf(u)] = @ - 1] /\ CountIn(S)[RegionOf(u)] > 0
  BY <1>1, <1>3, <1>4
<1> QED
  BY <1>5 DEF T

\* Counts of disjoint owners add up.
LEMMA CountUnion ==
    ASSUME NEW S \in SUBSET Unit, NEW T \in SUBSET Unit, S \cap T = {}
    PROVE  CountIn(S \cup T) = [r \in Region |-> CountIn(S)[r] + CountIn(T)[r]]
<1> SUFFICES ASSUME NEW r \in Region
             PROVE  CountIn(S \cup T)[r] = CountIn(S)[r] + CountIn(T)[r]
  BY DEF CountIn
<1> DEFINE A == {u \in S : RegionOf(u) = r}
           B == {u \in T : RegionOf(u) = r}
<1>1. IsFiniteSet(A) /\ IsFiniteSet(B)
  BY UnitsFinite, FS_Subset
<1>2. A \cap B = {}
  OBVIOUS
<1>5. Cardinality({}) = 0 /\ Cardinality(A) \in Nat /\ Cardinality(B) \in Nat
  BY <1>1, FS_EmptySet, FS_CardinalityType
<1>3. {u \in S \cup T : RegionOf(u) = r} = A \cup B
  OBVIOUS
<1>4. Cardinality(A \cup B) = Cardinality(A) + Cardinality(B) - Cardinality(A \cap B)
  BY <1>1, FS_Union
<1>6. /\ CountIn(S)[r] = Cardinality(A) /\ CountIn(T)[r] = Cardinality(B)
      /\ CountIn(S \cup T)[r] = Cardinality(A \cup B)
  BY <1>3 DEF CountIn
<1> HIDE DEF A, B
<1>7. Cardinality(A \cap B) = 0
  BY <1>2, <1>5, Zenon
<1> QED
  BY <1>4, <1>5, <1>6, <1>7

\* Nothing owned, nothing counted.
LEMMA CountEmpty == CountIn({}) = [r \in Region |-> 0]
BY FS_EmptySet DEF CountIn

UnitsOf(f)   == {f[p][2] : p \in {p \in Path : IsDisk(f[p])}}
Injective(f) == \A p, q \in Path : IsDisk(f[p]) /\ f[p] = f[q] => p = q

\* When no two slots share a record, the liveness open() recomputes from a
\* manifest's slots (recompute_live) is the count of its records.
LEMMA CountPaths ==
    ASSUME NEW f \in [Path -> Slot], Injective(f)
    PROVE  RecomputeLive(f) = CountIn(UnitsOf(f))
<1> SUFFICES ASSUME NEW r \in Region
             PROVE  RecomputeLive(f)[r] = CountIn(UnitsOf(f))[r]
  BY DEF CountIn, RecomputeLive
<1> DEFINE P == {p \in Path : IsDisk(f[p]) /\ RegionOf(f[p][2]) = r}
           U == {u \in UnitsOf(f) : RegionOf(u) = r}
           h == [p \in P |-> f[p][2]]
<1>1. UnitsOf(f) \subseteq Unit
  BY Slots DEF UnitsOf
<1>2. IsFiniteSet(U)
  BY <1>1, UnitsFinite, FS_Subset
<1>3. h \in Bijection(P, U)
  <2>1. h \in [P -> U]
    BY DEF UnitsOf
  <2>2. \A p, q \in P : h[p] = h[q] => p = q
    BY Slots DEF Injective
  <2>3. \A u \in U : \E p \in P : h[p] = u
    BY DEF UnitsOf
  <2> HIDE DEF P, U, h
  <2>4. DOMAIN h = P
    BY <2>1
  <2> QED
    BY <2>1, <2>2, <2>3, <2>4 DEF Bijection, Injection, Surjection, IsInjective
<1>4. ExistsBijection(U, P)
  BY <1>3, Fun_ExistsBijSymmetric DEF ExistsBijection
<1>5. Cardinality(P) = Cardinality(U)
  BY <1>2, <1>4, FS_Bijection
<1> QED
  BY <1>5 DEF CountIn, RecomputeLive

-----------------------------------------------------------------------------
(* The inductive invariant, by concern. *)

\* The record at u is one of path p.
Stored(p, u) == disk[u] \in Rec /\ disk[u][1] = p

\* The slot p of the frontier owns a record: not while the writer, having
\* freed it, has its successor in hand.
Owns(p) == IsDisk(front[p]) /\ (wpc = "apply" => wput[1] # p)

\* u lies below the append point, if it lies in the head.
Below(u) == RegionOf(u) = head => u < head * RegionUnits + nextUnit

OwnedUnits == FrontierUnits \cup Copies \cup lost

\* Somebody may still read the record at u, or counts it as live.
Referenced(u) ==
    \/ u \in OwnedUnits
    \/ cache[u] # None
    \/ \E g \in Gen, p \in Path : snapFront[g] # None /\ snapFront[g][p] = Disk(u)
    \/ meta # None /\ \E p \in Path : meta.front[p] = Disk(u)

BelowInv == \A u \in Unit : Referenced(u) => Below(u)

\* No unit has two owners.
OwnerInv ==
    /\ FrontierUnits \cap Copies = {}
    /\ FrontierUnits \cap lost = {}
    /\ Copies \cap lost = {}

\* A record of the frontier is there, under its own path, and nobody else's.
FrontInv ==
    /\ wpc = "apply" <=> wput # None
    /\ \A p \in Path : Owns(p) => Stored(p, front[p][2])
    /\ \A p, q \in Path : Owns(p) /\ Owns(q) /\ front[p] = front[q] => p = q

\* The relocations of gc_step: each of a record of the frontier, whose copy
\* nobody else has.
EvacInv ==
    /\ wpc \notin {"scanned", "copy", "free"} => evac = {}
    /\ wpc = "scanned" => \A e \in evac : e.new = None
    /\ wpc = "free" => \A e \in evac : e.new # None
    /\ \A e \in evac : /\ front[e.path] = Disk(e.old)
                       /\ disk[e.old] = e.rec
                       /\ e.new # None => /\ disk[e.new] = e.rec
                                          /\ \A p \in Path : front[p] # Disk(e.new)
    /\ \A e, f \in evac : e.path = f.path \/ (e.new # None /\ e.new = f.new) => e = f

\* The relocations of a background batch: each of a record of its snapshot, in
\* a region that is not the head and so does not get the copy.
BatchInv ==
    /\ gpc = "idle" => gcGen = 0 /\ gcItems = {}
    /\ gpc # "idle" => gcGen \in Gen \ taken
    /\ gpc = "pinned" => gcItems = {}
    /\ gpc \in {"scanned", "checked"} => \A e \in gcItems : e.new = None
    /\ gpc = "collected" => \A e \in gcItems : e.new # None
    /\ wpc \in {"install", "installed"} => gpc = "collected"
    /\ wpc = "installed" => gcItems = {}
    /\ \A e \in gcItems : /\ snapFront[gcGen][e.path] = Disk(e.old)
                          /\ disk[e.old] = e.rec
                          /\ RegionOf(e.old) # head
                          /\ e.new # None => /\ disk[e.new] = e.rec
                                             /\ RegionOf(e.new) # RegionOf(e.old)
    /\ \A e, f \in gcItems : e.path = f.path \/ (e.new # None /\ e.new = f.new) => e = f

\* The frontier of a live snapshot, and only of one, is kept, and its records
\* are there.
SnapInv ==
    \A g \in Gen :
        /\ snapFront[g] # None <=> g \in taken \/ (gpc # "idle" /\ gcGen = g)
        /\ snapFront[g] # None =>
              \A p \in Path : IsDisk(snapFront[g][p]) => Stored(p, snapFront[g][p][2])

\* A cached record is the one on disk.
CoherentInv == \A u \in Unit : cache[u] # None => cache[u] = disk[u]

\* The records of the manifest are on disk to stay; the manifest being written
\* is of the frontier, whose records are all synced.
ManifestInv ==
    /\ meta # None =>
          /\ Injective(meta.front)
          /\ \A p \in Path : IsDisk(meta.front[p]) =>
                Stored(p, meta.front[p][2]) /\ meta.front[p][2] \in synced
    /\ mnew # None <=> wpc \in {"captured", "linked", "renamed"}
    /\ mnew # None =>
          /\ mnew.front = front
          /\ \A p \in Path : IsDisk(front[p]) => front[p][2] \in synced

\* Once persist has spilled, nothing is in RAM only.
SpilledInv ==
    wpc \in {"gc", "captured", "linked", "renamed", "durable"}
        \/ (wret = "gc" /\ wpc \in {"scanned", "copy", "free"}) => MemPaths = {}

StoreInv ==
    /\ TypeOK
    /\ BelowInv
    /\ OwnerInv
    /\ FrontInv
    /\ EvacInv
    /\ BatchInv
    /\ SnapInv
    /\ CoherentInv
    /\ ManifestInv
    /\ SpilledInv

Inv == StoreInv /\ RP!IInv

-----------------------------------------------------------------------------
(* The allocator, seen from the store *)

\* FlatStore extends RegionAlloc, and RegionReuseProofs does under the mapping:
\* the two copies of the allocator's methods agree.
LEMMA SameAllocator ==
    /\ \A run, units : Alloc(run, units) => RP!Alloc(run, units)
    /\ \A r, units : Free(r, units) => RP!Free(r, units)
    /\ \A g : Unpin(g) => RP!Unpin(g)
    /\ Pin => RP!Pin
    /\ OnPersisted => RP!OnPersisted
    /\ DrainStaged => RP!DrainStaged
    /\ \A victims : PinStillLive(victims) => RP!PinStillLive(victims)
    /\ \A l, end : AllocOpen(l, end) => RP!AllocOpen(l, end)
    /\ AllocInit => RP!AllocInit
    /\ RP!AllocTypeOK <=> AllocTypeOK
    /\ RP!Region = Region /\ RP!Gen = Gen /\ RP!NoUnits = [r \in Region |-> 0]
    /\ RP!NoManifest = -1 /\ RP!Units = 1 .. RegionUnits
    /\ RP!raVars = raVars
    /\ RP!NewHeadChoices = NewHeadChoices
<1>1. /\ RP!Region = Region /\ RP!Gen = Gen /\ RP!NoUnits = [r \in Region |-> 0]
      /\ RP!NoManifest = -1 /\ RP!Units = 1 .. RegionUnits
      /\ RP!raVars = raVars
      /\ RP!NewHeadChoices = NewHeadChoices
  BY DEF Region, RP!Region, Gen, RP!Gen, RP!NoUnits, RP!NoManifest, RP!Units, raVars, RP!raVars,
         NewHeadChoices, RP!NewHeadChoices
<1>2. \A run, units : Alloc(run, units) => RP!Alloc(run, units)
  BY DEF Alloc, RP!Alloc, AllocInHead, RP!AllocInHead, AllocNewHead, RP!AllocNewHead,
         Fits, RP!Fits, MaxOf, RP!MaxOf, NewHeadChoices, RP!NewHeadChoices, NoRegion,
         RP!NoRegion, Region, RP!Region, listVars, RP!listVars, pinVars, RP!pinVars
<1>3. \A r, units : Free(r, units) => RP!Free(r, units)
  BY DEF Free, RP!Free, Dies, RP!Dies, SaturatingSub, RP!SaturatingSub, AnyPinLive,
         RP!AnyPinLive, Gen, RP!Gen, headVars, RP!headVars, pinVars, RP!pinVars
<1>4. \A g : Unpin(g) => RP!Unpin(g)
  BY DEF Unpin, RP!Unpin, ReleaseSnapHold, RP!ReleaseSnapHold, Released, RP!Released,
         Gen, RP!Gen, Region, RP!Region, headVars, RP!headVars
<1>5. (Pin => RP!Pin) /\ (OnPersisted => RP!OnPersisted) /\ (DrainStaged => RP!DrainStaged)
  BY DEF Pin, RP!Pin, OnPersisted, RP!OnPersisted, DrainStaged, RP!DrainStaged,
         AnyPinLive, RP!AnyPinLive, Gen, RP!Gen, Region, RP!Region, headVars, RP!headVars,
         listVars, RP!listVars, pinVars, RP!pinVars
<1>6. \A victims : PinStillLive(victims) => RP!PinStillLive(victims)
  BY DEF PinStillLive, RP!PinStillLive, Region, RP!Region, listVars, RP!listVars, pinVars, RP!pinVars
<1>7. \A l, end : AllocOpen(l, end) => RP!AllocOpen(l, end)
  BY DEF AllocOpen, RP!AllocOpen, Region, RP!Region, Gen, RP!Gen
<1>8. (AllocInit => RP!AllocInit) /\ (RP!AllocTypeOK <=> AllocTypeOK)
  BY DEF AllocInit, RP!AllocInit, AllocTypeOK, RP!AllocTypeOK, Region, RP!Region, Gen, RP!Gen,
         NoRegion, RP!NoRegion
<1> QED
  BY <1>1, <1>2, <1>3, <1>4, <1>5, <1>6, <1>7, <1>8

\* The parts of the state, for a state of the right type.
LEMMA Types ==
    ASSUME TypeOK
    PROVE  /\ front \in [Path -> Slot] /\ disk \in [Unit -> Rec \cup {None}]
           /\ cache \in [Unit -> Rec \cup {None}] /\ synced \subseteq Unit /\ lost \subseteq Unit
           /\ \A e \in evac \cup gcItems : /\ e.path \in Path /\ e.old \in Unit /\ e.rec \in Rec
                                           /\ e.new \in Unit \cup {None}
           /\ \A g \in Gen : snapFront[g] # None => snapFront[g] \in [Path -> Slot]
           /\ taken \subseteq Gen
           /\ meta # None => /\ meta.front \in [Path -> DiskSlot] /\ meta.end \in 0 .. NumRegions
                             /\ meta.front \in [Path -> Slot]
           /\ mnew # None => /\ mnew.front \in [Path -> DiskSlot] /\ mnew.end \in 0 .. NumRegions
                             /\ mnew.front \in [Path -> Slot]
           /\ wput # None => wput[1] \in Path /\ wput[2] \in Val \cup {None} /\ wput = <<wput[1], wput[2]>>
<1>1. DiskSlot \subseteq Slot
  BY Slots
<1>2. \A e \in evac \cup gcItems : /\ e.path \in Path /\ e.old \in Unit /\ e.rec \in Rec
                                   /\ e.new \in Unit \cup {None}
  BY DEF TypeOK, Item
<1>3. /\ meta # None => /\ meta.front \in [Path -> DiskSlot] /\ meta.end \in 0 .. NumRegions
      /\ mnew # None => /\ mnew.front \in [Path -> DiskSlot] /\ mnew.end \in 0 .. NumRegions
  BY DEF TypeOK, Manifest
<1>4. \A f \in [Path -> DiskSlot] : f \in [Path -> Slot]
  BY <1>1
<1>5. \A g \in Gen : snapFront[g] # None => snapFront[g] \in [Path -> Slot]
  BY DEF TypeOK
<1> QED
  BY <1>2, <1>3, <1>4, <1>5 DEF TypeOK

\* The units the store owns, one by one.
LEMMA Owned ==
    ASSUME TypeOK
    PROVE  /\ FrontierUnits \subseteq Unit /\ Copies \subseteq Unit /\ OwnedUnits \subseteq Unit
           /\ \A u : u \in FrontierUnits <=> \/ \E p \in Path : Owns(p) /\ front[p] = Disk(u)
                                             \/ u # None /\ \E e \in evac : e.new = u
           /\ \A u : u \in Copies <=> u # None /\ \E e \in gcItems : e.new = u
<1>1. \A u : u \in FrontierUnits <=> \/ \E p \in Path : Owns(p) /\ front[p][2] = u
                                     \/ u # None /\ \E e \in evac : e.new = u
  BY DEF FrontierUnits, Owns
<1>2. \A p \in Path : \A u : Owns(p) /\ front[p][2] = u <=> Owns(p) /\ front[p] = Disk(u)
  BY Types, Slots DEF Owns, Disk
<1>3. \A u : u \in Copies <=> u # None /\ \E e \in gcItems : e.new = u
  BY DEF Copies
<1>4. \A p \in Path : Owns(p) => front[p][2] \in Unit
  BY Types, Slots DEF Owns
<1>5. \A u : u \in FrontierUnits <=> \/ \E p \in Path : Owns(p) /\ front[p] = Disk(u)
                                     \/ u # None /\ \E e \in evac : e.new = u
  BY <1>1, <1>2
<1>6. FrontierUnits \subseteq Unit
  BY <1>1, <1>4, Types
<1>7. Copies \subseteq Unit
  BY <1>3, Types
<1> QED
  BY <1>3, <1>5, <1>6, <1>7, Types DEF OwnedUnits

\* What RegionReuse's invariant says of the store.
LEMMA ReuseFacts ==
    ASSUME Inv
    PROVE  /\ AllocTypeOK
           /\ \A g \in Gen : snapFront[g] # None => livePins[g] = 1 /\ g <= pinGen
           /\ \A r \in NewHeadChoices : r \in Region /\ \A u \in Unit : Referenced(u) => RegionOf(u) # r
<1> USE DEF Inv
<1>1. AllocTypeOK /\ TypeOK
  BY DEF StoreInv, TypeOK
<1>2. /\ RP!FrontierNotOverwritten /\ RP!SnapshotsNotOverwritten
      /\ RP!CheckpointNotOverwritten /\ RP!ReadAheadNotAliased
  BY RP!InvImplies, AllocAssumption DEF RP!AllocAssumption, RP!ClonesAssumption
<1>3. \A g \in Gen : snapFront[g] # None => livePins[g] = 1 /\ g <= pinGen /\ RP!Readers(g) > 0
  <2> SUFFICES ASSUME NEW g \in Gen, snapFront[g] # None
               PROVE  livePins[g] = 1 /\ g <= pinGen /\ RP!Readers(g) > 0
    OBVIOUS
  <2>1. RP!PinCountInv /\ RP!PinInv /\ RP!Gen = Gen
    BY SameAllocator DEF RP!IInv
  <2>2. livePins[g] = RP!Readers(g)
    BY <2>1 DEF RP!PinCountInv
  <2>3. (g \in taken \/ (gpc # "idle" /\ gcGen = g)) /\ ~(g \in taken /\ gpc # "idle" /\ gcGen = g)
    BY DEF StoreInv, SnapInv, BatchInv
  <2>4. RP!Readers(g) = 1
    BY <2>3 DEF RP!Readers, RP!GcPins, snapsBar, gpcBar
  <2>5. g <= pinGen
    BY <2>1, <2>2, <2>4 DEF RP!PinInv
  <2> QED
    BY <2>2, <2>4, <2>5
<1>4. \A r \in NewHeadChoices : r \in Region
  BY <1>1 DEF NewHeadChoices, AllocTypeOK
<1>5. ASSUME NEW r \in NewHeadChoices, NEW u \in Unit, Referenced(u)
      PROVE  RegionOf(u) # r
  <2>1. r \in Region /\ r \in RP!NewHeadChoices /\ RP!Region = Region /\ RP!Gen = Gen
    BY <1>4, <1>5, SameAllocator
  <2>2. CASE u \in FrontierUnits \cup Copies
    <3>1. FrontierUnits \in SUBSET Unit /\ Copies \in SUBSET Unit
      BY <1>1, Owned
    <3>2. heldBar[r] = 0 /\ copiesBar[r] = 0
      BY <1>2, <2>1 DEF RP!FrontierNotOverwritten
    <3> QED
      BY <2>1, <2>2, <3>1, <3>2, CountType DEF heldBar, copiesBar
  <2>3. CASE u \in lost
    <3>1. lost \in SUBSET Unit
      BY <1>1, Types
    <3>2. live[r] = 0
      <4>1. RP!HeadInv /\ RP!ListInv
        BY DEF RP!IInv
      <4>2. CASE r \in freeRegions
        BY <4>1, <4>2 DEF RP!ListInv, RP!ListedOnce
      <4>3. CASE r = fileEnd
        BY <2>1, <4>1, <4>3, AllocAssumption DEF RP!HeadInv, Region
      <4> QED
        BY <1>5, <4>2, <4>3 DEF NewHeadChoices
    <3>3. live[r] = heldBar[r] + copiesBar[r] + lostBar[r]
      BY <2>1 DEF RP!IInv, RP!LiveCountsExact
    <3>4. heldBar[r] \in Nat /\ copiesBar[r] \in Nat /\ lostBar[r] \in Nat
      BY <1>1, <2>1, <3>1, Owned, CountType DEF heldBar, copiesBar, lostBar
    <3>5. lostBar[r] = 0
      BY <3>2, <3>3, <3>4
    <3> QED
      BY <2>1, <2>3, <3>1, <3>5, CountType DEF lostBar
  <2>4. CASE cache[u] # None
    BY <1>2, <2>1, <2>4 DEF RP!ReadAheadNotAliased, cachedBar
  <2>5. ASSUME NEW g \in Gen, NEW p \in Path, snapFront[g] # None, snapFront[g][p] = Disk(u)
        PROVE  RegionOf(u) # r
    <3>1. r \notin seenBar[g]
      BY <1>2, <1>3, <2>1, <2>5 DEF RP!SnapshotsNotOverwritten
    <3>2. RegionOf(u) \in seenBar[g]
      BY <2>5, Slots DEF seenBar, RegionsOf
    <3> QED
      BY <3>1, <3>2
  <2>6. ASSUME meta # None, NEW p \in Path, meta.front[p] = Disk(u)
        PROVE  RegionOf(u) # r
    <3>1. meta.front \in [Path -> Slot] /\ Injective(meta.front)
      BY <1>1, <2>6, Types DEF StoreInv, ManifestInv
    <3>2. UnitsOf(meta.front) \in SUBSET Unit /\ u \in UnitsOf(meta.front)
      BY <2>6, <3>1, Slots DEF UnitsOf
    <3>3. durableBar[r] = 0
      BY <1>2, <2>1 DEF RP!CheckpointNotOverwritten
    <3>4. durableBar = CountIn(UnitsOf(meta.front))
      BY <2>6, <3>1, CountPaths DEF durableBar
    <3> QED
      BY <2>1, <3>2, <3>3, <3>4, CountType
  <2> QED
    BY <1>5, <2>2, <2>3, <2>4, <2>5, <2>6 DEF Referenced, OwnedUnits
<1> QED
  BY <1>1, <1>3, <1>4, <1>5

\* The unit alloc hands out is in nobody's hands.
LEMMA FreshUnit ==
    ASSUME Inv, Alloc(1, 1), NEW n, n = NewUnit
    PROVE  /\ n \in Unit /\ head' \in Region /\ RegionOf(n) = head' /\ Below(n)'
           /\ \A u \in Unit : Referenced(u) =>
                 u # n /\ Below(u)' /\ (RegionOf(u) = head' => head' = head)
<1> USE AllocAssumption
<1>1. AllocTypeOK /\ BelowInv
  BY DEF Inv, StoreInv, TypeOK
<1>2. CASE AllocInHead(1, 1)
  <2>1. /\ head \in Region /\ head' = head /\ nextUnit' = nextUnit + 1
        /\ nextUnit \in 0 .. RegionUnits - 1
    BY <1>1, <1>2 DEF AllocInHead, Fits, AllocTypeOK
  <2>2. n = head * RegionUnits + nextUnit
    BY <2>1 DEF NewUnit, Region
  <2>3. n \in Unit /\ RegionOf(n) = head
    BY <2>1, <2>2, Addresses
  <2>4. head * RegionUnits \in Int
    BY <2>1 DEF Region
  <2>5. ASSUME NEW u \in Unit, Referenced(u)
        PROVE  u # n /\ Below(u)'
    <3>1. u \in Int /\ (RegionOf(u) = head => u < head * RegionUnits + nextUnit)
      BY <1>1, <2>5, UnitRegion DEF BelowInv, Below
    <3> QED
      BY <2>1, <2>2, <2>3, <2>4, <3>1 DEF Below
  <2>6. Below(n)'
    BY <2>1, <2>2, <2>4 DEF Below
  <2> QED
    BY <2>1, <2>3, <2>5, <2>6
<1>3. CASE AllocNewHead(1, 1)
  <2>1. head' \in NewHeadChoices /\ nextUnit' = 1
    BY <1>3 DEF AllocNewHead
  <2>2. /\ head' \in Region
        /\ \A u \in Unit : Referenced(u) => RegionOf(u) # head'
    BY <2>1, ReuseFacts
  <2>3. n = head' * RegionUnits + 0
    BY <2>1, <2>2 DEF NewUnit, Region
  <2>4. n \in Unit /\ RegionOf(n) = head'
    BY <2>2, <2>3, Addresses
  <2>6. head' * RegionUnits \in Int
    BY <2>2 DEF Region
  <2>5. Below(n)'
    BY <2>1, <2>3, <2>6 DEF Below
  <2> QED
    BY <2>2, <2>4, <2>5 DEF Below
<1> QED
  BY <1>2, <1>3 DEF Alloc

-----------------------------------------------------------------------------
(* What a step leaves alone *)

ReuseStep == [RP!Next]_RP!vars

\* Each part of RegionReuse's state depends on one part of the store's.
LEMMA BarFrame ==
    /\ UNCHANGED gcItems => Copies' = Copies /\ copiesBar' = copiesBar
    /\ UNCHANGED lost => lostBar' = lostBar
    /\ UNCHANGED taken => snapsBar' = snapsBar
    /\ UNCHANGED snapFront => seenBar' = seenBar
    /\ UNCHANGED cache => cachedBar' = cachedBar
    /\ UNCHANGED meta => durableBar' = durableBar /\ durableEndBar' = durableEndBar
    /\ UNCHANGED mnew => pendBar' = pendBar /\ pendEndBar' = pendEndBar
    /\ UNCHANGED wpc => wpcBar' = wpcBar
    /\ UNCHANGED gpc => gpcBar' = gpcBar
BY DEF Copies, copiesBar, lostBar, snapsBar, seenBar, cachedBar, durableBar, durableEndBar,
       pendBar, pendEndBar, wpcBar, gpcBar

\* The frontier owns the same units as long as neither its slots, nor the
\* relocations of gc_step, nor the slot in the writer's hand change.
LEMMA FrontierFrame ==
    ASSUME UNCHANGED <<front, evac>>,
           \/ UNCHANGED <<wpc, wput>>
           \/ wpc # "apply" /\ wpc' # "apply"
    PROVE  /\ \A p \in Path : Owns(p)' <=> Owns(p)
           /\ FrontierUnits' = FrontierUnits /\ heldBar' = heldBar
<1>1. FrontierUnits' = FrontierUnits
  BY DEF FrontierUnits
<1> QED
  BY <1>1 DEF heldBar, Owns

\* A step that keeps the cache, the snapshots and the manifest references only
\* what was referenced and the units it comes to own.
LEMMA ReferencedFrame ==
    ASSUME UNCHANGED <<cache, snapFront, meta>>, NEW S, OwnedUnits' \subseteq OwnedUnits \cup S
    PROVE  \A u \in Unit : Referenced(u)' => Referenced(u) \/ u \in S
BY DEF Referenced

\* A step that does not append keeps the units it references below the head.
LEMMA BelowFrame ==
    ASSUME BelowInv, UNCHANGED <<head, nextUnit, cache, snapFront, meta>>,
           OwnedUnits' \subseteq OwnedUnits
    PROVE  BelowInv'
<1>1. \A u \in Unit : Referenced(u)' => Referenced(u)
  BY DEF Referenced
<1> QED
  BY <1>1 DEF BelowInv, Below

\* A step of RegionReuse keeps its invariant.
LEMMA ReuseKept ==
    ASSUME Inv, ReuseStep
    PROVE  RP!IInv' /\ AllocTypeOK'
<1>1. RP!IInv'
  BY RP!NextInv, AllocAssumption DEF RP!AllocAssumption, RP!ClonesAssumption, Inv, ReuseStep
<1>2. RP!AllocTypeOK'
  BY <1>1 DEF RP!IInv, RP!TypeOK
<1>3. RP!AllocTypeOK' <=> AllocTypeOK'
  BY DEF AllocTypeOK, RP!AllocTypeOK, Region, RP!Region, Gen, RP!Gen, NoRegion, RP!NoRegion
<1> QED
  BY <1>1, <1>2, <1>3

\* What the append of a record leaves to everybody else.
LEMMA WriteFrame ==
    ASSUME Inv, NEW rec \in Rec, WritePayload(rec), NEW n, n = NewUnit,
           UNCHANGED <<cache, snapFront, taken, meta, gpc, gcGen>>
    PROVE  /\ n \in Unit /\ disk'[n] = rec
           /\ \A u \in Unit : u # n => disk'[u] = disk[u]
           /\ disk' \in [Unit -> Rec \cup {None}] /\ synced' = synced \ {n}
           /\ \A u \in Unit, p \in Path : Referenced(u) /\ Stored(p, u) => Stored(p, u)'
           /\ SnapInv' /\ CoherentInv'
           /\ meta # None =>
                 /\ Injective(meta.front)
                 /\ \A p \in Path : IsDisk(meta.front[p]) =>
                       Stored(p, meta.front[p][2])' /\ meta.front[p][2] \in synced'
<1>1. /\ n \in Unit /\ \A u \in Unit : Referenced(u) => u # n
  BY FreshUnit DEF WritePayload
<1>2. TypeOK /\ SnapInv /\ CoherentInv /\ ManifestInv
  BY DEF Inv, StoreInv
<1>3. /\ disk'[n] = rec /\ \A u \in Unit : u # n => disk'[u] = disk[u]
      /\ disk' \in [Unit -> Rec \cup {None}] /\ synced' = synced \ {n}
  BY <1>1, <1>2, Types DEF WritePayload
<1>4. \A u \in Unit, p \in Path : Referenced(u) /\ Stored(p, u) => Stored(p, u)'
  BY <1>1, <1>3 DEF Stored
<1>5. SnapInv'
  <2> SUFFICES ASSUME NEW g \in Gen, snapFront[g] # None, NEW p \in Path, IsDisk(snapFront[g][p])
               PROVE  Stored(p, snapFront[g][p][2])'
    BY <1>2 DEF SnapInv
  <2>1. /\ snapFront[g][p][2] \in Unit /\ Stored(p, snapFront[g][p][2])
        /\ snapFront[g][p] = Disk(snapFront[g][p][2])
    BY <1>2, Types, Slots DEF SnapInv
  <2>2. Referenced(snapFront[g][p][2])
    BY <2>1 DEF Referenced
  <2> QED
    BY <1>1, <1>3, <2>1, <2>2 DEF Stored
<1>6. CoherentInv'
  BY <1>1, <1>2, <1>3 DEF CoherentInv, Referenced
<1>7. ASSUME meta # None, NEW p \in Path, IsDisk(meta.front[p])
      PROVE  Stored(p, meta.front[p][2])' /\ meta.front[p][2] \in synced'
  <2>1. /\ meta.front[p][2] \in Unit /\ Stored(p, meta.front[p][2]) /\ meta.front[p][2] \in synced
        /\ meta.front[p] = Disk(meta.front[p][2])
    BY <1>2, <1>7, Types, Slots DEF ManifestInv
  <2>2. Referenced(meta.front[p][2])
    BY <1>7, <2>1 DEF Referenced
  <2> QED
    BY <1>1, <1>3, <2>1, <2>2 DEF Stored
<1> QED
  BY <1>1, <1>2, <1>3, <1>4, <1>5, <1>6, <1>7 DEF ManifestInv

-----------------------------------------------------------------------------
(* Appending a record *)

\* The records of the frontier and of the relocations outlive the append.
LEMMA WriteOwners ==
    ASSUME Inv, NEW rec \in Rec, WritePayload(rec), NEW n, n = NewUnit,
           UNCHANGED <<cache, snapFront, taken, meta, gpc, gcGen>>
    PROVE  /\ \A p \in Path, u \in Unit : Owns(p) /\ front[p] = Disk(u) => u # n /\ Stored(p, u)'
           /\ \A e \in evac : /\ disk'[e.old] = e.rec /\ e.new # n
                              /\ e.new # None => disk'[e.new] = e.rec
           /\ \A e \in gcItems : /\ disk'[e.old] = e.rec /\ e.new # n
                                 /\ RegionOf(e.old) # head'
                                 /\ e.new # None => disk'[e.new] = e.rec
           /\ n \notin OwnedUnits
<1>1. /\ n \in Unit /\ \A u \in Unit : u # n => disk'[u] = disk[u]
      /\ \A u \in Unit, p \in Path : Referenced(u) /\ Stored(p, u) => Stored(p, u)'
  BY WriteFrame
<1>2. \A u \in Unit : Referenced(u) => u # n /\ (RegionOf(u) = head' => head' = head)
  BY FreshUnit DEF WritePayload
<1>3. TypeOK /\ FrontInv /\ EvacInv /\ BatchInv /\ SnapInv
  BY DEF Inv, StoreInv
<1>4. n \notin OwnedUnits /\ \A u \in OwnedUnits : u \in Unit /\ Referenced(u)
  BY <1>1, <1>2, <1>3, Owned DEF Referenced
<1>5. ASSUME NEW p \in Path, NEW u \in Unit, Owns(p), front[p] = Disk(u)
      PROVE  u # n /\ Stored(p, u)'
  <2>1. Stored(p, u)
    BY <1>3, <1>5, Slots DEF FrontInv
  <2>2. u \in OwnedUnits
    BY <1>3, <1>5, Owned DEF OwnedUnits
  <2> QED
    BY <1>1, <1>4, <2>1, <2>2
<1>6. ASSUME NEW e \in evac
      PROVE  /\ disk'[e.old] = e.rec /\ e.new # n
             /\ e.new # None => disk'[e.new] = e.rec
  <2>1. /\ e.path \in Path /\ e.old \in Unit /\ e.new \in Unit \cup {None}
        /\ front[e.path] = Disk(e.old) /\ disk[e.old] = e.rec
        /\ e.new # None => disk[e.new] = e.rec
        /\ wpc # "apply"
    BY <1>3, <1>6, Types DEF EvacInv
  <2>2. Owns(e.path) /\ e.old \in OwnedUnits
    BY <1>3, <2>1, Owned, Slots DEF OwnedUnits, Owns
  <2>3. e.new # None => e.new \in OwnedUnits
    BY <1>3, <1>6, Owned DEF OwnedUnits
  <2> QED
    BY <1>1, <1>4, <2>1, <2>2, <2>3, NoneAssumption
<1>7. ASSUME NEW e \in gcItems
      PROVE  /\ disk'[e.old] = e.rec /\ e.new # n
             /\ RegionOf(e.old) # head'
             /\ e.new # None => disk'[e.new] = e.rec
  <2>1. /\ e.path \in Path /\ e.old \in Unit /\ e.new \in Unit \cup {None}
        /\ snapFront[gcGen][e.path] = Disk(e.old) /\ disk[e.old] = e.rec
        /\ RegionOf(e.old) # head
        /\ e.new # None => disk[e.new] = e.rec
        /\ gpc # "idle" /\ gcGen \in Gen
    BY <1>3, <1>7, Types DEF BatchInv
  <2>2. Referenced(e.old)
    BY <1>3, <2>1 DEF Referenced, SnapInv
  <2>3. e.new # None => e.new \in OwnedUnits
    BY <1>3, <1>7, Owned DEF OwnedUnits
  <2> QED
    BY <1>1, <1>2, <1>4, <2>1, <2>2, <2>3, NoneAssumption
<1> QED
  BY <1>4, <1>5, <1>6, <1>7

\* The writer appends the record of a slot that has none: finish_child, a spill.
LEMMA PutRecord ==
    ASSUME Inv, NEW p \in Path, NEW v \in Val, WritePayload(<<p, v>>),
           front' = [front EXCEPT ![p] = Disk(NewUnit)], ~Owns(p),
           \/ wpc = "apply" /\ wput[1] = p /\ wpc' = "idle" /\ wput' = None
           \/ wpc = "spill" /\ UNCHANGED <<wpc, wput>>,
           UNCHANGED <<cache, snapVars, durVars, wret, evac, evacVict, gcVars, lost>>
    PROVE  StoreInv' /\ ReuseStep
<1>0. /\ UNCHANGED <<cache, snapFront, taken, meta, prev, mnew, wret, evac, evacVict, gpc, gcGen,
                     gcItems, gcVict, lost>>
      /\ <<p, v>> \in Rec /\ Alloc(1, 1)
  BY DEF snapVars, durVars, gcVars, Rec, WritePayload
<1>n. PICK n : n = NewUnit
  OBVIOUS
<1>1. /\ TypeOK /\ BelowInv /\ OwnerInv /\ FrontInv /\ EvacInv /\ BatchInv /\ ManifestInv /\ SpilledInv
      /\ RP!IInv
  BY DEF Inv, StoreInv
<1>2. /\ n \in Unit /\ head' \in Region /\ RegionOf(n) = head' /\ Below(n)'
      /\ \A u \in Unit : Referenced(u) => Below(u)'
  BY <1>0, <1>n, FreshUnit
<1>3. /\ disk'[n] = <<p, v>> /\ disk' \in [Unit -> Rec \cup {None}] /\ synced' = synced \ {n}
      /\ SnapInv' /\ CoherentInv'
      /\ meta # None =>
            /\ Injective(meta.front)
            /\ \A q \in Path : IsDisk(meta.front[q]) =>
                  Stored(q, meta.front[q][2])' /\ meta.front[q][2] \in synced'
  BY <1>0, <1>n, WriteFrame
<1>4. /\ \A q \in Path, u \in Unit : Owns(q) /\ front[q] = Disk(u) => u # n /\ Stored(q, u)'
      /\ \A e \in gcItems : /\ disk'[e.old] = e.rec /\ RegionOf(e.old) # head'
                            /\ e.new # None => disk'[e.new] = e.rec
      /\ n \notin OwnedUnits
  BY <1>0, <1>n, WriteOwners
<1>5. evac = {}
  BY <1>1 DEF EvacInv
<1>6. /\ front'[p] = Disk(n) /\ front' \in [Path -> Slot]
      /\ \A q \in Path : q # p => front'[q] = front[q]
  BY <1>1, <1>2, <1>n, Types, Slots
<1>7. \A q \in Path : Owns(q)' <=> q = p \/ Owns(q)
  BY <1>2, <1>6, Slots DEF Owns
<1>8. FrontierUnits' = FrontierUnits \cup {n}
  <2>1. FrontierUnits = {front[q][2] : q \in {q \in Path : Owns(q)}}
    BY <1>5 DEF FrontierUnits, Owns
  <2>2. FrontierUnits' = {front'[q][2] : q \in {q \in Path : Owns(q)'}}
    BY <1>0, <1>5 DEF FrontierUnits, Owns
  <2>3. {front'[q][2] : q \in {q \in Path : Owns(q)'}}
           = {front[q][2] : q \in {q \in Path : Owns(q)}} \cup {n}
    BY <1>2, <1>6, <1>7, Slots
  <2> QED
    BY <2>1, <2>2, <2>3
<1>9. Copies' = Copies
  BY <1>0, BarFrame
<1>10. ReuseStep
  <2>1. heldBar' = [heldBar EXCEPT ![head'] = @ + 1]
    <3>1. FrontierUnits \in SUBSET Unit /\ n \notin FrontierUnits
      BY <1>1, <1>4, Owned DEF OwnedUnits
    <3> QED
      BY <1>2, <1>8, <3>1, CountAdd DEF heldBar
  <2>2. RP!Alloc(1, 1) /\ wpcBar \in {"idle", "batch"} /\ UNCHANGED wpcBar
    BY <1>0, SameAllocator DEF wpcBar
  <2>3. UNCHANGED <<copiesBar, lostBar, snapsBar, seenBar, cachedBar, durableBar, durableEndBar,
                    pendBar, pendEndBar, gpcBar, gcGen>>
    BY <1>0, BarFrame
  <2>4. RP!WriteRecord(1, 1)
    BY <2>1, <2>2, <2>3 DEF RP!WriteRecord
  <2>5. 1 \in RP!Units
    BY AllocAssumption DEF RP!Units
  <2> QED
    BY <2>4, <2>5 DEF ReuseStep, RP!Next
<1>11. TypeOK'
  <2>1. AllocTypeOK'
    BY <1>10, ReuseKept
  <2>2. wput' \in (Path \X (Val \cup {None})) \cup {None}
    BY <1>1 DEF TypeOK
  <2> QED
    BY <1>0, <1>1, <1>3, <1>6, <2>1, <2>2 DEF TypeOK
<1>12. BelowInv'
  <2>1. OwnedUnits' \subseteq OwnedUnits \cup {n}
    BY <1>0, <1>8, <1>9 DEF OwnedUnits
  <2>2. \A u \in Unit : Referenced(u)' => Referenced(u) \/ u \in {n}
    BY <1>0, <2>1, ReferencedFrame
  <2> QED
    BY <1>2, <2>2 DEF BelowInv
<1>13. OwnerInv'
  BY <1>0, <1>1, <1>4, <1>8, <1>9 DEF OwnerInv, OwnedUnits
<1>14. FrontInv'
  <2>1. (wpc = "apply" <=> wput # None)'
    BY <1>1 DEF FrontInv
  <2>2. Stored(p, front[p][2])'
    BY <1>0, <1>2, <1>3, <1>6, Slots DEF Stored
  <2>5. \A q \in Path : Owns(q) => front[q][2] \in Unit /\ front[q] = Disk(front[q][2])
    BY <1>1, Types, Slots DEF Owns
  <2>3. \A q \in Path : Owns(q)' => Stored(q, front[q][2])'
    <3> SUFFICES ASSUME NEW q \in Path, Owns(q), q # p
                 PROVE  Stored(q, front[q][2])'
      BY <1>7, <2>2
    <3>1. PICK u \in Unit : u = front[q][2] /\ front[q] = Disk(u)
      BY <2>5
    <3>2. Stored(q, u)' /\ front'[q][2] = u
      BY <1>4, <1>6, <3>1
    <3> QED
      BY <3>2 DEF Stored
  <2>4. \A q, r \in Path : Owns(q)' /\ Owns(r)' /\ front'[q] = front'[r] => q = r
    BY <1>1, <1>2, <1>4, <1>6, <1>7, <2>5, Slots DEF FrontInv
  <2> QED
    BY <2>1, <2>3, <2>4 DEF FrontInv
<1>15. EvacInv'
  BY <1>0, <1>5 DEF EvacInv
<1>16. BatchInv'
  BY <1>0, <1>1, <1>4 DEF BatchInv
<1>17. ManifestInv' /\ SpilledInv'
  BY <1>0, <1>1, <1>3 DEF ManifestInv, SpilledInv, Stored
<1> QED
  BY <1>3, <1>10, <1>11, <1>12, <1>13, <1>14, <1>15, <1>16, <1>17 DEF StoreInv

-----------------------------------------------------------------------------
(* Steps that move no record *)

\* The cache is empty for RegionReuse when it is for the store.
LEMMA CacheEmpty ==
    ASSUME TypeOK
    PROVE  /\ cachedBar = {} <=> cache = NoCache
           /\ DrainStagedIfUnaliased =>
                 /\ IF cachedBar = {} THEN RP!DrainStaged ELSE UNCHANGED RP!raVars
                 /\ UNCHANGED <<head, nextUnit>>
<1>1. cache \in [Unit -> Rec \cup {None}]
  BY Types
<1>2. cachedBar = {} <=> \A u \in Unit : cache[u] = None
  BY DEF cachedBar
<1>3. (\A u \in Unit : cache[u] = None) <=> cache = NoCache
  BY <1>1 DEF NoCache
<1>4. cachedBar = {} <=> cache = NoCache
  BY <1>2, <1>3
<1>5. /\ DrainStaged => RP!DrainStaged /\ UNCHANGED <<head, nextUnit>>
      /\ UNCHANGED raVars => UNCHANGED RP!raVars /\ UNCHANGED <<head, nextUnit>>
  BY SameAllocator DEF DrainStaged, headVars, raVars, RP!raVars
<1> QED
  BY <1>4, <1>5 DEF DrainStagedIfUnaliased

\* A step in which only the writer or the GC thread moves on.
LEMMA ControlFrame ==
    ASSUME StoreInv,
           UNCHANGED <<disk, front, cache, snapFront, taken, meta, evac, gcItems, lost, wput,
                       gcGen, head, nextUnit>>,
           UNCHANGED wpc \/ (wpc # "apply" /\ wpc' # "apply"),
           gpc' = "idle" <=> gpc = "idle"
    PROVE  /\ BelowInv' /\ OwnerInv' /\ FrontInv' /\ SnapInv' /\ CoherentInv'
           /\ UNCHANGED <<heldBar, copiesBar, lostBar, snapsBar, seenBar, cachedBar, durableBar,
                          durableEndBar>>
           /\ MemPaths' = MemPaths
<1>1. BelowInv /\ OwnerInv /\ FrontInv /\ SnapInv /\ CoherentInv
  BY DEF StoreInv
<1>2. /\ \A p \in Path : Owns(p)' <=> Owns(p)
      /\ FrontierUnits' = FrontierUnits /\ heldBar' = heldBar
  BY FrontierFrame
<1>3. /\ Copies' = Copies
      /\ UNCHANGED <<copiesBar, lostBar, snapsBar, seenBar, cachedBar, durableBar, durableEndBar>>
  BY BarFrame
<1>4. OwnedUnits' \subseteq OwnedUnits
  BY <1>2, <1>3 DEF OwnedUnits
<1>6. BelowInv'
  BY <1>1, <1>4, BelowFrame
<1>7. OwnerInv'
  BY <1>1, <1>2, <1>3 DEF OwnerInv
<1>8. FrontInv'
  BY <1>1, <1>2 DEF FrontInv, Stored
<1>9. SnapInv' /\ CoherentInv'
  BY <1>1 DEF SnapInv, CoherentInv, Stored
<1>10. MemPaths' = MemPaths
  BY DEF MemPaths
<1> QED
  BY <1>2, <1>3, <1>6, <1>7, <1>8, <1>9, <1>10

\* write_batch begins, for a spill or for gc_step: the staged regions are
\* drained if the read-ahead cache is empty.
LEMMA BatchesBegin ==
    ASSUME Inv, (\E ret \in {"idle", "gc"} : SpillBegin(ret)) \/ EvacDrain
    PROVE  StoreInv' /\ ReuseStep
<1>0. /\ UNCHANGED <<disk, synced, front, cache, snapFront, taken, meta, prev, mnew, wput, evac,
                     evacVict, gpc, gcGen, gcItems, gcVict, lost>>
      /\ DrainStagedIfUnaliased
      /\ wpc \in {"idle", "scanned"}
      /\ \/ wpc = "idle" /\ wpc' = "spill" /\ wret' \in {"idle", "gc"}
         \/ wpc = "scanned" /\ wpc' = "copy" /\ wret' = wret
  BY DEF SpillBegin, EvacDrain, snapVars, durVars, gcVars
<1>1. StoreInv /\ TypeOK /\ EvacInv /\ BatchInv /\ ManifestInv /\ SpilledInv
  BY DEF Inv, StoreInv
<1>2. /\ IF cachedBar = {} THEN RP!DrainStaged ELSE UNCHANGED RP!raVars
      /\ UNCHANGED <<head, nextUnit>>
  BY <1>0, <1>1, CacheEmpty
<1>3. /\ BelowInv' /\ OwnerInv' /\ FrontInv' /\ SnapInv' /\ CoherentInv'
      /\ UNCHANGED <<heldBar, copiesBar, lostBar, snapsBar, seenBar, cachedBar, durableBar,
                     durableEndBar>>
      /\ MemPaths' = MemPaths
  BY <1>0, <1>1, <1>2, ControlFrame
<1>4. ReuseStep
  <2>1. wpcBar = "idle" /\ wpcBar' = "batch"
    BY <1>0 DEF wpcBar
  <2>2. UNCHANGED <<pendBar, pendEndBar, gpcBar>>
    BY <1>0, BarFrame
  <2>3. RP!WriteBatch
    BY <1>0, <1>2, <1>3, <2>1, <2>2 DEF RP!WriteBatch
  <2> QED
    BY <2>3 DEF ReuseStep, RP!Next
<1>5. TypeOK'
  <2>1. AllocTypeOK'
    BY <1>4, ReuseKept
  <2> QED
    BY <1>0, <1>1, <2>1 DEF TypeOK
<1>6. EvacInv'
  BY <1>0, <1>1 DEF EvacInv
<1>7. BatchInv'
  BY <1>0, <1>1, <1>2 DEF BatchInv
<1>8. ManifestInv' /\ SpilledInv'
  BY <1>0, <1>1, <1>3 DEF ManifestInv, SpilledInv, Stored
<1> QED
  BY <1>3, <1>4, <1>5, <1>6, <1>7, <1>8 DEF StoreInv

\* write_batch returns.
LEMMA BatchesEnd ==
    ASSUME Inv, SpillEnd \/ EvacCopied
    PROVE  StoreInv' /\ ReuseStep
<1>0. /\ UNCHANGED <<disk, front, cache, snapFront, taken, meta, evac, gcItems, lost, wput,
                     gcGen, gcVict, head, nextUnit>>
      /\ UNCHANGED <<raVars, synced, prev, mnew, wret, evacVict, gpc>>
      /\ \/ wpc = "spill" /\ wpc' = wret /\ (wret = "gc" => MemPaths = {})
         \/ wpc = "copy" /\ wpc' = "free" /\ \A e \in evac : e.new # None
      /\ wpc \in {"spill", "copy"} /\ wpc' # "apply" /\ wret \in {"idle", "gc"}
  BY DEF SpillEnd, EvacCopied, snapVars, durVars, gcVars, raVars, Inv, StoreInv, TypeOK
<1>1. StoreInv /\ TypeOK /\ EvacInv /\ BatchInv /\ ManifestInv /\ SpilledInv
  BY DEF Inv, StoreInv
<1>3. /\ BelowInv' /\ OwnerInv' /\ FrontInv' /\ SnapInv' /\ CoherentInv'
      /\ UNCHANGED <<heldBar, copiesBar, lostBar, snapsBar, seenBar, cachedBar, durableBar,
                     durableEndBar>>
      /\ MemPaths' = MemPaths
  BY <1>0, <1>1, ControlFrame
<1>4. ReuseStep
  <2>2. wpcBar = "batch" /\ wpcBar' = "idle"
    BY <1>0 DEF wpcBar
  <2>3. UNCHANGED <<pendBar, pendEndBar, gpcBar>> /\ UNCHANGED RP!raVars
    BY <1>0, BarFrame DEF raVars, RP!raVars
  <2>9. RP!WriteBatchDone
    BY <1>0, <1>3, <2>2, <2>3 DEF RP!WriteBatchDone
  <2> QED
    BY <2>9 DEF ReuseStep, RP!Next
<1>5. TypeOK'
  <2>1. AllocTypeOK'
    BY <1>4, ReuseKept
  <2> QED
    BY <1>0, <1>1, <2>1 DEF TypeOK
<1>6. EvacInv'
  BY <1>0, <1>1 DEF EvacInv
<1>7. BatchInv'
  BY <1>0, <1>1 DEF BatchInv
<1>8. ManifestInv' /\ SpilledInv'
  BY <1>0, <1>1, <1>3 DEF ManifestInv, SpilledInv, Stored
<1> QED
  BY <1>3, <1>4, <1>5, <1>6, <1>7, <1>8 DEF StoreInv

\* gc_step and gc_install pin the victims they could not empty.
LEMMA VictimsPinned ==
    ASSUME Inv, EvacEnd \/ InstallPin
    PROVE  StoreInv' /\ ReuseStep
<1>0. /\ UNCHANGED <<disk, front, cache, snapFront, taken, meta, evac, gcItems, lost, wput,
                     gcGen, gcVict, head, nextUnit>>
      /\ UNCHANGED <<synced, prev, mnew, wret, gpc>>
      /\ \E victims \in SUBSET Region : PinStillLive(victims)
      /\ \/ wpc = "free" /\ wpc' = wret /\ evac = {} /\ evacVict' = {}
         \/ wpc = "install" /\ wpc' = "installed" /\ gcItems = {} /\ evacVict' = evacVict
      /\ wpc # "apply" /\ wpc' # "apply" /\ wret \in {"idle", "gc"}
  BY DEF EvacEnd, InstallPin, PinStillLive, snapVars, durVars, gcVars, raVars, Inv, StoreInv, TypeOK
<1>1. StoreInv /\ TypeOK /\ EvacInv /\ BatchInv /\ ManifestInv /\ SpilledInv
  BY DEF Inv, StoreInv
<1>3. /\ BelowInv' /\ OwnerInv' /\ FrontInv' /\ SnapInv' /\ CoherentInv'
      /\ UNCHANGED <<heldBar, copiesBar, lostBar, snapsBar, seenBar, cachedBar, durableBar,
                     durableEndBar>>
      /\ MemPaths' = MemPaths
  BY <1>0, <1>1, ControlFrame
<1>4. ReuseStep
  <2>2. wpcBar = "idle" /\ wpcBar' = "idle"
    BY <1>0 DEF wpcBar
  <2>3. UNCHANGED <<pendBar, pendEndBar, gpcBar>>
    BY <1>0, BarFrame
  <2>4. \E victims \in SUBSET RP!Region : RP!PinStillLive(victims)
    BY <1>0, SameAllocator
  <2>9. \E victims \in SUBSET RP!Region : RP!PinVictims(victims)
    BY <1>0, <1>3, <2>2, <2>3, <2>4 DEF RP!PinVictims, RP!clientVars
  <2> QED
    BY <2>9 DEF ReuseStep, RP!Next
<1>5. TypeOK'
  <2>1. AllocTypeOK'
    BY <1>4, ReuseKept
  <2> QED
    BY <1>0, <1>1, <2>1 DEF TypeOK
<1>6. EvacInv'
  BY <1>0, <1>1 DEF EvacInv
<1>7. BatchInv'
  BY <1>0, <1>1 DEF BatchInv
<1>8. ManifestInv' /\ SpilledInv'
  BY <1>0, <1>1, <1>3 DEF ManifestInv, SpilledInv, Stored
<1> QED
  BY <1>3, <1>4, <1>5, <1>6, <1>7, <1>8 DEF StoreInv

\* persist starts, or links the manifest and renames the new one over it; gc_install starts.
LEMMA WriterMovesOn ==
    ASSUME Inv, PersistBegin \/ PersistLink \/ PersistRename \/ InstallBegin
    PROVE  StoreInv' /\ ReuseStep
<1>0. /\ UNCHANGED <<disk, front, cache, snapFront, taken, meta, evac, gcItems, lost, wput,
                     gcGen, gcVict, head, nextUnit>>
      /\ UNCHANGED <<raVars, synced, mnew, wret, gpc, evacVict>> /\ prev' \in {prev, meta}
      /\ \/ wpc = "idle" /\ wpc' = "gc" /\ MemPaths = {}
         \/ wpc = "captured" /\ wpc' = "linked"
         \/ wpc = "linked" /\ wpc' = "renamed"
         \/ wpc = "idle" /\ wpc' = "install" /\ gpc = "collected"
      /\ wpc # "apply" /\ wpc' # "apply"
  BY DEF PersistBegin, PersistLink, PersistRename, InstallBegin, snapVars, durVars, gcVars, raVars
<1>1. StoreInv /\ TypeOK /\ EvacInv /\ BatchInv /\ ManifestInv /\ SpilledInv
  BY DEF Inv, StoreInv
<1>3. /\ BelowInv' /\ OwnerInv' /\ FrontInv' /\ SnapInv' /\ CoherentInv'
      /\ UNCHANGED <<heldBar, copiesBar, lostBar, snapsBar, seenBar, cachedBar, durableBar,
                     durableEndBar>>
      /\ MemPaths' = MemPaths
  BY <1>0, <1>1, ControlFrame
<1>4. ReuseStep
  <2>2. UNCHANGED wpcBar
    BY <1>0 DEF wpcBar
  <2>3. UNCHANGED <<pendBar, pendEndBar, gpcBar>>
    BY <1>0, BarFrame
  <2>9. UNCHANGED RP!vars
    BY <1>0, <1>3, <2>2, <2>3 DEF RP!vars, RP!clientVars, raVars, RP!raVars
  <2> QED
    BY <2>9 DEF ReuseStep, RP!Next
<1>5. TypeOK'
  <2>1. AllocTypeOK'
    BY <1>4, ReuseKept
  <2> QED
    BY <1>0, <1>1, <2>1 DEF TypeOK
<1>6. EvacInv'
  BY <1>0, <1>1 DEF EvacInv
<1>7. BatchInv'
  BY <1>0, <1>1 DEF BatchInv
<1>8. ManifestInv' /\ SpilledInv'
  BY <1>0, <1>1, <1>3 DEF ManifestInv, SpilledInv, Stored
<1> QED
  BY <1>3, <1>4, <1>5, <1>6, <1>7, <1>8 DEF StoreInv

\* persist tells the allocator and returns.
LEMMA PersistEnds ==
    ASSUME Inv, PersistDone
    PROVE  StoreInv' /\ ReuseStep
<1>0. /\ UNCHANGED <<disk, front, cache, snapFront, taken, meta, evac, gcItems, lost, wput,
                     gcGen, gcVict, head, nextUnit>>
      /\ UNCHANGED <<synced, prev, mnew, evacVict, gpc>>
      /\ wpc = "durable" /\ wpc' = "idle" /\ wret' = "idle"
  BY DEF PersistDone, OnPersisted, snapVars, durVars, gcVars, raVars
<1>1. StoreInv /\ TypeOK /\ EvacInv /\ BatchInv /\ ManifestInv /\ SpilledInv
  BY DEF Inv, StoreInv
<1>3. /\ BelowInv' /\ OwnerInv' /\ FrontInv' /\ SnapInv' /\ CoherentInv'
      /\ UNCHANGED <<heldBar, copiesBar, lostBar, snapsBar, seenBar, cachedBar, durableBar,
                     durableEndBar>>
      /\ MemPaths' = MemPaths
  BY <1>0, <1>1, ControlFrame
<1>4. ReuseStep
  <2>1. RP!OnPersisted
    BY SameAllocator DEF PersistDone
  <2>2. wpcBar = "renamed" /\ wpcBar' = "idle"
    BY <1>0 DEF wpcBar
  <2>3. UNCHANGED <<pendBar, pendEndBar, gpcBar>>
    BY <1>0, BarFrame
  <2>9. RP!PersistDone
    BY <1>0, <1>3, <2>1, <2>2, <2>3 DEF RP!PersistDone
  <2> QED
    BY <2>9 DEF ReuseStep, RP!Next
<1>5. TypeOK'
  <2>1. AllocTypeOK'
    BY <1>4, ReuseKept
  <2> QED
    BY <1>0, <1>1, <2>1 DEF TypeOK
<1>6. EvacInv'
  BY <1>0, <1>1 DEF EvacInv
<1>7. BatchInv'
  BY <1>0, <1>1 DEF BatchInv
<1>8. ManifestInv' /\ SpilledInv'
  BY <1>0, <1>1, <1>3 DEF ManifestInv, SpilledInv, Stored
<1> QED
  BY <1>3, <1>4, <1>5, <1>6, <1>7, <1>8 DEF StoreInv

\* persist returns an error.
LEMMA PersistGivesUp ==
    ASSUME Inv, PersistFails
    PROVE  StoreInv' /\ ReuseStep
<1>0. /\ UNCHANGED <<disk, front, cache, snapFront, taken, meta, evac, gcItems, lost, wput,
                     gcGen, gcVict, head, nextUnit>>
      /\ UNCHANGED <<raVars, synced, prev, evacVict, gpc>>
      /\ wpc \in {"gc", "captured", "linked"} /\ mnew' = None /\ wpc' = "idle" /\ wret' = "idle"
  BY DEF PersistFails, snapVars, durVars, gcVars, raVars
<1>1. StoreInv /\ TypeOK /\ EvacInv /\ BatchInv /\ ManifestInv /\ SpilledInv
  BY DEF Inv, StoreInv
<1>3. /\ BelowInv' /\ OwnerInv' /\ FrontInv' /\ SnapInv' /\ CoherentInv'
      /\ UNCHANGED <<heldBar, copiesBar, lostBar, snapsBar, seenBar, cachedBar, durableBar,
                     durableEndBar>>
      /\ MemPaths' = MemPaths
  BY <1>0, <1>1, ControlFrame
<1>4. ReuseStep
  <2>1. wpcBar' = "idle" /\ pendBar' = [r \in Region |-> 0] /\ pendEndBar' = 0 /\ UNCHANGED gpcBar
    BY <1>0, BarFrame DEF wpcBar, pendBar, pendEndBar
  <2>2. UNCHANGED RP!raVars /\ RP!NoUnits = [r \in Region |-> 0]
    BY <1>0, SameAllocator DEF raVars, RP!raVars
  <2>3. CASE wpc = "gc"
    <3>1. mnew = None
      BY <1>1, <2>3 DEF ManifestInv
    <3>2. UNCHANGED <<pendBar, pendEndBar>> /\ wpcBar = "idle"
      BY <1>0, <2>3, <3>1, BarFrame DEF wpcBar
    <3> QED
      BY <1>0, <1>3, <2>1, <2>2, <3>2 DEF RP!vars, RP!clientVars, ReuseStep
  <2>4. CASE wpc \in {"captured", "linked"}
    <3>1. wpcBar = "captured"
      BY <2>4 DEF wpcBar
    <3> QED
      BY <1>0, <1>3, <2>1, <2>2, <3>1 DEF RP!PersistFails, ReuseStep, RP!Next
  <2> QED
    BY <1>0, <2>3, <2>4
<1>5. TypeOK'
  <2>1. AllocTypeOK'
    BY <1>4, ReuseKept
  <2> QED
    BY <1>0, <1>1, <2>1 DEF TypeOK
<1>6. EvacInv'
  BY <1>0, <1>1 DEF EvacInv
<1>7. BatchInv'
  BY <1>0, <1>1 DEF BatchInv
<1>8. ManifestInv' /\ SpilledInv'
  BY <1>0, <1>1, <1>3 DEF ManifestInv, SpilledInv, Stored
<1> QED
  BY <1>3, <1>4, <1>5, <1>6, <1>7, <1>8 DEF StoreInv

\* gc_collect looks at the cache, drains, has copied all.
LEMMA CollectMovesOn ==
    ASSUME Inv, GcCheckCache \/ GcDrain \/ GcCollected
    PROVE  StoreInv' /\ ReuseStep
<1>0. /\ UNCHANGED <<disk, front, cache, snapFront, taken, meta, evac, gcItems, lost, wput,
                     gcGen, gcVict, head, nextUnit>>
      /\ UNCHANGED <<synced, prev, mnew, wpc, wret, evacVict>>
      /\ \/ gpc = "scanned" /\ gpc' = (IF cache = NoCache THEN "checked" ELSE "copying") /\ UNCHANGED raVars
         \/ gpc = "checked" /\ gpc' = "copying" /\ DrainStaged
         \/ gpc = "copying" /\ gpc' = "collected" /\ UNCHANGED raVars /\ \A e \in gcItems : e.new # None
  BY DEF GcCheckCache, GcDrain, GcCollected, DrainStaged, headVars, snapVars, durVars, writerVars, raVars
<1>1. StoreInv /\ TypeOK /\ EvacInv /\ BatchInv /\ ManifestInv /\ SpilledInv
  BY DEF Inv, StoreInv
<1>3. /\ BelowInv' /\ OwnerInv' /\ FrontInv' /\ SnapInv' /\ CoherentInv'
      /\ UNCHANGED <<heldBar, copiesBar, lostBar, snapsBar, seenBar, cachedBar, durableBar,
                     durableEndBar>>
      /\ MemPaths' = MemPaths
  BY <1>0, <1>1, ControlFrame
<1>4. ReuseStep
  <2>1. UNCHANGED <<pendBar, pendEndBar, wpcBar>>
    BY <1>0, BarFrame
  <2>2. UNCHANGED raVars => UNCHANGED RP!raVars
    BY DEF raVars, RP!raVars
  <2>3. CASE gpc = "scanned"
    <3>1. gpcBar = "pinned" /\ gpcBar' = IF cachedBar = {} THEN "checked" ELSE "copying"
      BY <1>0, <1>1, <2>3, CacheEmpty DEF gpcBar
    <3> QED
      BY <1>0, <1>3, <2>1, <2>2, <2>3, <3>1 DEF RP!GcCheckCache, ReuseStep, RP!Next
  <2>4. CASE gpc = "checked"
    <3>1. gpcBar = "checked" /\ gpcBar' = "copying" /\ RP!DrainStaged
      BY <1>0, <2>4, SameAllocator DEF gpcBar
    <3> QED
      BY <1>0, <1>3, <2>1, <2>4, <3>1 DEF RP!GcDrain, ReuseStep, RP!Next
  <2>5. CASE gpc = "copying"
    <3>1. gpcBar = "copying" /\ gpcBar' = "collected"
      BY <1>0, <2>5 DEF gpcBar
    <3> QED
      BY <1>0, <1>3, <2>1, <2>2, <2>5, <3>1 DEF RP!GcCollected, ReuseStep, RP!Next
  <2> QED
    BY <1>0, <2>3, <2>4, <2>5
<1>5. TypeOK'
  <2>1. AllocTypeOK'
    BY <1>4, ReuseKept
  <2> QED
    BY <1>0, <1>1, <2>1 DEF TypeOK
<1>6. EvacInv'
  BY <1>0, <1>1 DEF EvacInv
<1>7. BatchInv'
  BY <1>0, <1>1 DEF BatchInv
<1>8. ManifestInv' /\ SpilledInv'
  BY <1>0, <1>1, <1>3 DEF ManifestInv, SpilledInv, Stored
<1> QED
  BY <1>3, <1>4, <1>5, <1>6, <1>7, <1>8 DEF StoreInv

-----------------------------------------------------------------------------
(* persist, spills and changes of a record *)

\* What a pointer to a record of its own path reads, cached or not.
LEMMA ReadsStored ==
    ASSUME CoherentInv, NEW p \in Path, NEW u \in Unit, Stored(p, u)
    PROVE  Value(p, Disk(u)) = disk[u][2] /\ disk[u][2] \in Val
<1>1. ReadLazy(u) = disk[u]
  BY DEF CoherentInv, ReadLazy
<1>2. disk[u] # None /\ disk[u][1] = p /\ disk[u][2] \in Val
  BY NoneAssumption DEF Stored, Rec
<1>3. Disk(u) # None /\ ~IsMem(Disk(u)) /\ Disk(u)[2] = u
  BY Slots
<1> QED
  BY <1>1, <1>2, <1>3 DEF Value, Decode

\* persist serializes a manifest of the frontier.
LEMMA Captures ==
    ASSUME Inv, PersistCapture
    PROVE  StoreInv' /\ ReuseStep
<1>0. /\ UNCHANGED <<disk, front, cache, snapFront, taken, meta, evac, gcItems, lost, wput,
                     gcGen, gcVict, head, nextUnit>>
      /\ UNCHANGED <<raVars, prev, wret, evacVict, gpc>>
      /\ wpc = "gc" /\ wpc' = "captured" /\ synced' = Unit
      /\ mnew' = [front |-> front, end |-> fileEnd, db |-> [p \in Path |-> Value(p, front[p])]]
  BY DEF PersistCapture, snapVars, gcVars, raVars
<1>1. /\ StoreInv /\ TypeOK /\ FrontInv /\ EvacInv /\ BatchInv /\ CoherentInv /\ ManifestInv
      /\ SpilledInv
  BY DEF Inv, StoreInv
<1>2. front \in [Path -> Slot] /\ evac = {} /\ MemPaths = {}
  BY <1>0, <1>1, Types DEF EvacInv, SpilledInv
<1>3. /\ BelowInv' /\ OwnerInv' /\ FrontInv' /\ SnapInv' /\ CoherentInv'
      /\ UNCHANGED <<heldBar, copiesBar, lostBar, snapsBar, seenBar, cachedBar, durableBar,
                     durableEndBar>>
      /\ MemPaths' = MemPaths
  BY <1>0, <1>1, ControlFrame
<1>4. mnew' \in Manifest /\ mnew' # None /\ mnew'.front = front /\ mnew'.end = fileEnd
  <2>1. \A p \in Path : front[p] \in DiskSlot
    BY <1>2, Slots DEF MemPaths
  <2>2. front \in [Path -> DiskSlot]
    BY <1>2, <2>1
  <2>3. \A p \in Path : Value(p, front[p]) \in Val \cup {None}
    <3> SUFFICES ASSUME NEW p \in Path, front[p] # None
                 PROVE  Value(p, front[p]) \in Val \cup {None}
      BY DEF Value
    <3>1. front[p][2] \in Unit /\ front[p] = Disk(front[p][2]) /\ IsDisk(front[p])
      BY <1>2, Slots DEF MemPaths
    <3>2. Stored(p, front[p][2])
      BY <1>0, <1>1, <3>1 DEF FrontInv, Owns
    <3> QED
      BY <1>1, <3>1, <3>2, ReadsStored
  <2>4. fileEnd \in 0 .. NumRegions
    BY <1>1 DEF TypeOK, AllocTypeOK
  <2>5. mnew' \in Manifest
    BY <1>0, <2>2, <2>3, <2>4 DEF Manifest
  <2> QED
    BY <1>0, <2>5, NoneAssumption
<1>5. ReuseStep
  <2>1. Injective(front)
    BY <1>0, <1>1 DEF Injective, FrontInv, Owns
  <2>2. FrontierUnits = UnitsOf(front)
    BY <1>0, <1>2 DEF FrontierUnits, UnitsOf
  <2>3. pendBar' = heldBar /\ pendEndBar' = fileEnd
    <3>1. RecomputeLive(front) = heldBar
      BY <1>2, <2>1, <2>2, CountPaths DEF heldBar
    <3> QED
      BY <1>4, <3>1 DEF pendBar, pendEndBar, RecomputeLive
  <2>4. wpcBar = "idle" /\ wpcBar' = "captured" /\ UNCHANGED gpcBar
    BY <1>0, BarFrame DEF wpcBar
  <2>5. UNCHANGED RP!raVars
    BY <1>0 DEF raVars, RP!raVars
  <2>6. RP!PersistCapture
    BY <1>0, <1>3, <2>3, <2>4, <2>5 DEF RP!PersistCapture
  <2> QED
    BY <2>6 DEF ReuseStep, RP!Next
<1>6. TypeOK'
  <2>1. AllocTypeOK'
    BY <1>5, ReuseKept
  <2> QED
    BY <1>0, <1>1, <1>4, <2>1 DEF TypeOK
<1>7. EvacInv' /\ SpilledInv'
  BY <1>0, <1>1, <1>3 DEF EvacInv, SpilledInv
<1>8. BatchInv'
  BY <1>0, <1>1 DEF BatchInv
<1>9. ManifestInv'
  <2>1. \A p \in Path : IsDisk(front[p]) => front[p][2] \in Unit
    BY <1>2, Slots
  <2>2. meta # None => \A p \in Path : IsDisk(meta.front[p]) => meta.front[p][2] \in Unit
    BY <1>1, Types, Slots
  <2> QED
    BY <1>0, <1>1, <1>4, <2>1, <2>2 DEF ManifestInv, Stored
<1> QED
  BY <1>3, <1>5, <1>6, <1>7, <1>8, <1>9 DEF StoreInv

\* The rename is durable: the manifest of the frontier is the one to reopen.
LEMMA Renames ==
    ASSUME Inv, RenameDurable
    PROVE  StoreInv' /\ ReuseStep
<1>0. /\ UNCHANGED <<raVars, disk, synced, front, cache, snapFront, taken, prev, evac, evacVict,
                     gcItems, gcVict, lost, wput, wret, gpc, gcGen, head, nextUnit>>
      /\ wpc = "renamed" /\ wpc' = "durable" /\ meta' = mnew /\ mnew' = None
  BY DEF RenameDurable, snapVars, gcVars, raVars
<1>1. /\ TypeOK /\ BelowInv /\ OwnerInv /\ FrontInv /\ EvacInv /\ BatchInv /\ SnapInv
      /\ CoherentInv /\ ManifestInv /\ SpilledInv
  BY DEF Inv, StoreInv
<1>2. /\ mnew # None /\ mnew.front = front /\ front \in [Path -> Slot]
      /\ \A p \in Path : IsDisk(front[p]) => front[p][2] \in synced
  BY <1>0, <1>1, Types DEF ManifestInv
<1>3. /\ \A p \in Path : Owns(p)' <=> Owns(p)
      /\ FrontierUnits' = FrontierUnits /\ heldBar' = heldBar
  BY <1>0, FrontierFrame
<1>4. Copies' = Copies /\ UNCHANGED <<copiesBar, lostBar, snapsBar, seenBar, cachedBar, gpcBar>>
  BY <1>0, BarFrame
<1>5. ReuseStep
  <2>1. wpcBar = "captured" /\ wpcBar' = "renamed"
    BY <1>0 DEF wpcBar
  <2>2. /\ durableBar' = pendBar /\ durableEndBar' = pendEndBar
        /\ pendBar' = RP!NoUnits /\ pendEndBar' = 0
    BY <1>0, <1>2, SameAllocator DEF durableBar, durableEndBar, pendBar, pendEndBar, RecomputeLive
  <2>3. UNCHANGED RP!raVars
    BY <1>0 DEF raVars, RP!raVars
  <2>4. RP!PersistRename
    BY <1>0, <1>3, <1>4, <2>1, <2>2, <2>3 DEF RP!PersistRename
  <2> QED
    BY <2>4 DEF ReuseStep, RP!Next
<1>6. TypeOK'
  <2>1. AllocTypeOK'
    BY <1>5, ReuseKept
  <2> QED
    BY <1>0, <1>1, <2>1 DEF TypeOK
<1>7. BelowInv'
  <2>1. \A u \in Unit, p \in Path : front[p] = Disk(u) => u \in FrontierUnits
    BY <1>0, <1>1, Owned, Slots DEF Owns
  <2>2. \A u \in Unit : Referenced(u)' => Referenced(u)
    BY <1>0, <1>2, <1>3, <1>4, <2>1 DEF Referenced, OwnedUnits
  <2> QED
    BY <1>0, <1>1, <2>2 DEF BelowInv, Below
<1>8. OwnerInv' /\ FrontInv' /\ SnapInv' /\ CoherentInv'
  BY <1>0, <1>1, <1>3, <1>4 DEF OwnerInv, FrontInv, SnapInv, CoherentInv, Stored
<1>9. EvacInv' /\ SpilledInv'
  BY <1>0, <1>1 DEF EvacInv, SpilledInv, MemPaths
<1>10. BatchInv'
  BY <1>0, <1>1 DEF BatchInv
<1>11. ManifestInv'
  <2>1. Injective(front) /\ \A p \in Path : IsDisk(front[p]) => Stored(p, front[p][2])
    BY <1>0, <1>1 DEF FrontInv, Owns, Injective
  <2> QED
    BY <1>0, <1>2, <2>1 DEF ManifestInv, Stored, Injective
<1> QED
  BY <1>5, <1>6, <1>7, <1>8, <1>9, <1>10, <1>11 DEF StoreInv

\* A spill, or a change of a record, writes one.
LEMMA Writes ==
    ASSUME Inv, (\E p \in Path : SpillWrite(p)) \/ ApplyDone
    PROVE  StoreInv' /\ ReuseStep
<1>1. TypeOK /\ FrontInv
  BY DEF Inv, StoreInv
<1>2. ASSUME NEW p \in Path, SpillWrite(p)
      PROVE  StoreInv' /\ ReuseStep
  <2>1. wpc = "spill" /\ front[p][2] \in Val /\ ~Owns(p)
    BY <1>1, <1>2, Types, Slots DEF SpillWrite, MemPaths, Owns
  <2>2. PICK v \in Val : v = front[p][2]
    BY <2>1
  <2> QED
    BY <1>2, <2>1, <2>2, PutRecord DEF SpillWrite, writerVars
<1>3. CASE ApplyDone
  <2>1. /\ wpc = "apply" /\ wput # None /\ wput[1] \in Path /\ wput[2] \in Val \cup {None}
        /\ wput = <<wput[1], wput[2]>>
    BY <1>1, <1>3, Types DEF ApplyDone, FrontInv
  <2>2. PICK p \in Path, v \in Val \cup {None} : wput = <<p, v>> /\ wput[1] = p /\ wput[2] = v
    BY <2>1
  <2>3. ~Owns(p) /\ wpc' = "idle" /\ wput' = None
    BY <1>3, <2>2 DEF ApplyDone, Owns
  <2>4. CASE WritePayload(wput) /\ front' = [front EXCEPT ![p] = Disk(NewUnit)] /\ v # None
    <3>1. v \in Val
      BY <2>2, <2>4
    <3> QED
      BY <1>3, <2>1, <2>2, <2>3, <2>4, <3>1, PutRecord DEF ApplyDone
  <2>5. CASE UNCHANGED <<raVars, disk, synced>> /\ \E s \in Slot : ~IsDisk(s) /\ front' = [front EXCEPT ![p] = s]
    <3>0. /\ UNCHANGED <<raVars, disk, synced, cache, snapFront, taken, meta, prev, mnew, wret,
                         evac, evacVict, gcItems, gcVict, lost, gpc, gcGen, head, nextUnit>>
      BY <1>3, <2>5 DEF ApplyDone, snapVars, durVars, gcVars, raVars
    <3>1. /\ BelowInv /\ OwnerInv /\ EvacInv /\ BatchInv /\ SnapInv /\ CoherentInv /\ ManifestInv
          /\ SpilledInv
      BY DEF Inv, StoreInv
    <3>2. /\ front' \in [Path -> Slot] /\ ~IsDisk(front'[p])
          /\ \A q \in Path : q # p => front'[q] = front[q]
      BY <1>1, <2>5, Types
    <3>3. \A q \in Path : /\ Owns(q)' <=> Owns(q)
                          /\ Owns(q) => front'[q] = front[q]
      BY <2>1, <2>2, <2>3, <3>2 DEF Owns
    <3>4. evac = {}
      BY <2>1, <3>1 DEF EvacInv
    <3>5. FrontierUnits' = FrontierUnits /\ heldBar' = heldBar
      <4>1. FrontierUnits = {front[q][2] : q \in {q \in Path : Owns(q)}}
        BY <3>4 DEF FrontierUnits, Owns
      <4>2. FrontierUnits' = {front'[q][2] : q \in {q \in Path : Owns(q)'}}
        BY <3>0, <3>4 DEF FrontierUnits, Owns
      <4>3. FrontierUnits' = FrontierUnits
        BY <3>3, <4>1, <4>2
      <4> QED
        BY <4>3 DEF heldBar
    <3>6. /\ Copies' = Copies
          /\ UNCHANGED <<copiesBar, lostBar, snapsBar, seenBar, cachedBar, durableBar,
                         durableEndBar, pendBar, pendEndBar, gpcBar>>
      BY <3>0, BarFrame
    <3>7. ReuseStep
      <4>1. UNCHANGED wpcBar
        BY <2>1, <2>3 DEF wpcBar
      <4>2. UNCHANGED RP!raVars
        BY <3>0 DEF raVars, RP!raVars
      <4> QED
        BY <3>0, <3>5, <3>6, <4>1, <4>2 DEF ReuseStep, RP!vars, RP!clientVars
    <3>8. TypeOK'
      <4>1. AllocTypeOK'
        BY <3>7, ReuseKept
      <4> QED
        BY <1>1, <2>3, <3>0, <3>2, <4>1 DEF TypeOK
    <3>9. BelowInv'
      <4>1. OwnedUnits' \subseteq OwnedUnits
        BY <3>0, <3>5, <3>6 DEF OwnedUnits
      <4> QED
        BY <3>0, <3>1, <4>1, BelowFrame
    <3>10. OwnerInv' /\ FrontInv'
      BY <1>1, <2>3, <3>0, <3>1, <3>3, <3>5, <3>6 DEF OwnerInv, FrontInv, Stored
    <3>11. EvacInv' /\ SnapInv' /\ CoherentInv'
      BY <3>0, <3>1, <3>4 DEF EvacInv, SnapInv, CoherentInv, Stored
    <3>12. BatchInv'
      BY <2>1, <2>3, <3>0, <3>1 DEF BatchInv
    <3>13. ManifestInv' /\ SpilledInv'
      BY <2>1, <2>3, <3>0, <3>1 DEF ManifestInv, SpilledInv, Stored
    <3> QED
      BY <3>7, <3>8, <3>9, <3>10, <3>11, <3>12, <3>13 DEF StoreInv
  <2> QED
    <3>1. v # None => v \in Val
      BY <2>2
    <3>2. /\ None \in Slot /\ ~IsDisk(None)
          /\ v # None => Mem(v) \in Slot /\ ~IsDisk(Mem(v))
      BY <3>1, Slots
    <3> QED
      BY <1>3, <2>2, <2>4, <2>5, <3>2 DEF ApplyDone
<1> QED
  BY <1>2, <1>3

\* The writer begins a change: it frees the old record, if there is one.
LEMMA Begins ==
    ASSUME Inv, \E p \in Path, v \in Val \cup {None} : ApplyFree(p, v) \/ ApplyRam(p, v)
    PROVE  StoreInv' /\ ReuseStep
<1>1. /\ TypeOK /\ BelowInv /\ OwnerInv /\ FrontInv /\ EvacInv /\ BatchInv /\ SnapInv /\ CoherentInv
      /\ ManifestInv /\ SpilledInv
  BY DEF Inv, StoreInv
<1>2. PICK p \in Path, v \in Val \cup {None} : ApplyFree(p, v) \/ ApplyRam(p, v)
  OBVIOUS
<1>0. /\ UNCHANGED <<disk, synced, front, cache, snapFront, taken, meta, prev, mnew, wret,
                     evac, evacVict, gcItems, gcVict, lost, gpc, gcGen, head, nextUnit>>
      /\ wpc = "idle" /\ wpc' = "apply" /\ wput' = <<p, v>> /\ wput' # None /\ wput'[1] = p
  BY <1>2, NoneAssumption
     DEF ApplyFree, ApplyRam, FreeUnit, Free, snapVars, durVars, gcVars, raVars, headVars
<1>3. front \in [Path -> Slot] /\ evac = {} /\ wput = None
  BY <1>0, <1>1, Types DEF EvacInv, FrontInv
<1>4. \A q \in Path : Owns(q)' <=> Owns(q) /\ q # p
  BY <1>0 DEF Owns
<1>5. /\ FrontierUnits = {front[q][2] : q \in {q \in Path : Owns(q)}}
      /\ FrontierUnits' = {front[q][2] : q \in {q \in Path : Owns(q) /\ q # p}}
  BY <1>0, <1>3, <1>4 DEF FrontierUnits, Owns
<1>6. /\ Copies' = Copies
      /\ UNCHANGED <<copiesBar, lostBar, snapsBar, seenBar, cachedBar, durableBar, durableEndBar,
                     pendBar, pendEndBar, gpcBar>>
  BY <1>0, BarFrame
<1>7. wpcBar = "idle" /\ wpcBar' = "idle"
  BY <1>0 DEF wpcBar
<1>8. ReuseStep /\ FrontierUnits' \subseteq FrontierUnits
  <2>1. CASE ApplyFree(p, v)
    <3>1. PICK u \in Unit : front[p] = Disk(u) /\ front[p][2] = u /\ Owns(p)
      BY <1>0, <1>3, <2>1, Slots DEF ApplyFree, Owns
    <3>2. \A q \in Path : Owns(q) /\ front[q][2] = u => q = p
      BY <1>1, <1>3, <3>1, Slots DEF FrontInv, Owns
    <3>3. FrontierUnits' = FrontierUnits \ {u} /\ u \in FrontierUnits
      BY <1>5, <3>1, <3>2
    <3>4. FrontierUnits \in SUBSET Unit /\ RegionOf(u) \in Region
      BY <1>1, Owned, UnitRegion
    <3>5. /\ heldBar' = [heldBar EXCEPT ![RegionOf(u)] = @ - 1]
          /\ heldBar[RegionOf(u)] > 0 /\ heldBar[RegionOf(u)] \in Nat
      BY <3>3, <3>4, CountRemove, CountType DEF heldBar
    <3>6. RP!Free(RegionOf(u), 1) /\ 1 \in 1 .. heldBar[RegionOf(u)]
      BY <2>1, <3>1, <3>5, SameAllocator DEF ApplyFree, FreeUnit
    <3>7. RP!FreeRecord(RegionOf(u), 1)
      BY <1>0, <1>6, <1>7, <3>5, <3>6 DEF RP!FreeRecord
    <3>8. 1 \in RP!Units /\ RegionOf(u) \in RP!Region
      BY <3>4, AllocAssumption, SameAllocator
    <3> QED
      BY <3>3, <3>7, <3>8 DEF ReuseStep, RP!Next
  <2>2. CASE ApplyRam(p, v)
    <3>1. ~Owns(p) /\ UNCHANGED RP!raVars
      BY <2>2 DEF ApplyRam, Owns, raVars, RP!raVars
    <3>2. FrontierUnits' = FrontierUnits
      BY <1>5, <3>1
    <3>3. heldBar' = heldBar
      BY <3>2 DEF heldBar
    <3> QED
      BY <1>0, <1>6, <1>7, <3>1, <3>2, <3>3 DEF ReuseStep, RP!vars, RP!clientVars
  <2> QED
    BY <1>2, <2>1, <2>2
<1>9. TypeOK'
  <2>1. AllocTypeOK'
    BY <1>8, ReuseKept
  <2>2. wput' \in Path \X (Val \cup {None})
    BY <1>0
  <2> QED
    BY <1>0, <1>1, <2>1, <2>2 DEF TypeOK
<1>10. BelowInv'
  <2>1. OwnedUnits' \subseteq OwnedUnits
    BY <1>0, <1>6, <1>8 DEF OwnedUnits
  <2> QED
    BY <1>0, <1>1, <2>1, BelowFrame
<1>11. OwnerInv'
  BY <1>0, <1>1, <1>6, <1>8 DEF OwnerInv
<1>12. FrontInv'
  BY <1>0, <1>1, <1>4 DEF FrontInv, Stored
<1>13. EvacInv' /\ SnapInv' /\ CoherentInv'
  BY <1>0, <1>1, <1>3 DEF EvacInv, SnapInv, CoherentInv, Stored
<1>14. BatchInv'
  BY <1>0, <1>1 DEF BatchInv
<1>15. ManifestInv' /\ SpilledInv'
  BY <1>0, <1>1 DEF ManifestInv, SpilledInv, Stored
<1> QED
  BY <1>8, <1>9, <1>10, <1>11, <1>12, <1>13, <1>14, <1>15 DEF StoreInv

\* gc_step frees the old copy of a record and installs the new one.
LEMMA Relocates ==
    ASSUME Inv, NEW e \in evac, EvacFree(e)
    PROVE  StoreInv' /\ ReuseStep
<1>1. /\ TypeOK /\ BelowInv /\ OwnerInv /\ FrontInv /\ EvacInv /\ BatchInv /\ SnapInv /\ CoherentInv
      /\ ManifestInv /\ SpilledInv
  BY DEF Inv, StoreInv
<1>0. /\ UNCHANGED <<disk, synced, cache, snapFront, taken, meta, prev, mnew, wpc, wret, wput,
                     evacVict, gcItems, gcVict, lost, gpc, gcGen, head, nextUnit>>
      /\ wpc = "free" /\ front' = [front EXCEPT ![e.path] = Disk(e.new)] /\ evac' = evac \ {e}
      /\ Free(RegionOf(e.old), 1)
  BY DEF EvacFree, FreeUnit, Free, snapVars, durVars, gcVars, headVars
<1>2. /\ e.path \in Path /\ e.old \in Unit /\ e.new \in Unit
      /\ front[e.path] = Disk(e.old) /\ disk[e.new] = disk[e.old]
      /\ \A q \in Path : front[q] # Disk(e.new)
  BY <1>0, <1>1, Types DEF EvacInv
<1>3. /\ front \in [Path -> Slot] /\ front' \in [Path -> Slot] /\ front'[e.path] = Disk(e.new)
      /\ \A q \in Path : q # e.path => front'[q] = front[q]
  BY <1>0, <1>1, <1>2, Types, Slots
<1>4. \A q \in Path : (Owns(q) <=> IsDisk(front[q])) /\ (Owns(q)' <=> IsDisk(front'[q]))
  BY <1>0 DEF Owns
<1>5. \A q \in Path : IsDisk(front'[q]) <=> IsDisk(front[q])
  BY <1>2, <1>3, Slots
<1>6. FrontierUnits' = FrontierUnits \ {e.old} /\ e.old \in FrontierUnits
  <2>1. /\ \A u : u \in FrontierUnits <=> \/ \E q \in Path : IsDisk(front[q]) /\ front[q] = Disk(u)
                                          \/ u # None /\ \E f \in evac : f.new = u
        /\ \A u : u \in FrontierUnits' <=> \/ \E q \in Path : IsDisk(front'[q]) /\ front'[q][2] = u
                                           \/ u # None /\ \E f \in evac \ {e} : f.new = u
    BY <1>0, <1>1, <1>4, Owned DEF FrontierUnits, Owns
  <2>2. \A q \in Path, u \in Unit : /\ IsDisk(front'[q]) /\ front'[q][2] = u <=> front'[q] = Disk(u)
                                    /\ IsDisk(front[q]) /\ front[q][2] = u <=> front[q] = Disk(u)
    BY <1>3, Slots
  <2>3. \A q \in Path : front[q] = Disk(e.old) => q = e.path
    BY <1>1, <1>2, <1>4, Slots DEF FrontInv
  <2>4. \A f \in evac \ {e} : f.new # e.new /\ f.new # e.old
    BY <1>0, <1>1, <1>2 DEF EvacInv
  <2>5. e.old # e.new /\ e.old # None /\ e.new # None
    BY <1>2, NoneAssumption
  <2>6. FrontierUnits \subseteq Unit
    BY <1>1, Owned
  <2>7. \A q \in Path : IsDisk(front'[q]) => front'[q][2] \in Unit
    BY <1>3, Slots
  <2>8. e.old \in FrontierUnits
    BY <1>2, <2>1, Slots
  <2>9. ASSUME NEW u, u \in FrontierUnits'
        PROVE  u \in FrontierUnits \ {e.old}
    <3>1. CASE \E f \in evac \ {e} : f.new = u /\ u # None
      BY <2>1, <2>4, <3>1
    <3>2. ASSUME NEW q \in Path, IsDisk(front'[q]), front'[q][2] = u
          PROVE  u \in FrontierUnits \ {e.old}
      <4>1. CASE q = e.path
        BY <1>2, <1>3, <2>1, <2>5, <3>2, <4>1, Slots
      <4>2. CASE q # e.path
        BY <1>3, <2>1, <2>2, <2>3, <2>7, <3>2, <4>2
      <4> QED
        BY <4>1, <4>2
    <3> QED
      BY <2>1, <2>9, <3>1, <3>2
  <2>10. ASSUME NEW u, u \in FrontierUnits, u # e.old
         PROVE  u \in FrontierUnits'
    <3>1. CASE \E f \in evac : f.new = u /\ u # None
      <4>1. CASE u = e.new
        BY <1>2, <1>3, <2>1, <4>1, Slots
      <4> QED
        BY <2>1, <3>1, <4>1
    <3>2. ASSUME NEW q \in Path, IsDisk(front[q]), front[q] = Disk(u)
          PROVE  u \in FrontierUnits'
      <4>1. q # e.path
        BY <1>2, <2>6, <2>10, <3>2, Slots
      <4> QED
        BY <1>3, <2>1, <2>2, <2>6, <2>10, <3>2, <4>1
    <3> QED
      BY <2>1, <2>10, <3>1, <3>2
  <2> QED
    BY <2>8, <2>9, <2>10
<1>7. /\ Copies' = Copies
      /\ UNCHANGED <<copiesBar, lostBar, snapsBar, seenBar, cachedBar, durableBar, durableEndBar,
                     pendBar, pendEndBar, wpcBar, gpcBar>>
  BY <1>0, BarFrame
<1>8. ReuseStep
  <2>1. FrontierUnits \in SUBSET Unit /\ RegionOf(e.old) \in Region
    BY <1>1, <1>2, Owned, UnitRegion
  <2>2. /\ heldBar' = [heldBar EXCEPT ![RegionOf(e.old)] = @ - 1]
        /\ heldBar[RegionOf(e.old)] > 0 /\ heldBar[RegionOf(e.old)] \in Nat
    BY <1>6, <2>1, CountRemove, CountType DEF heldBar
  <2>3. RP!Free(RegionOf(e.old), 1) /\ 1 \in 1 .. heldBar[RegionOf(e.old)] /\ wpcBar = "idle"
    BY <1>0, <2>2, SameAllocator DEF wpcBar
  <2>4. RP!FreeRecord(RegionOf(e.old), 1)
    BY <1>0, <1>7, <2>2, <2>3 DEF RP!FreeRecord
  <2>5. 1 \in RP!Units /\ RegionOf(e.old) \in RP!Region
    BY <2>1, AllocAssumption, SameAllocator
  <2> QED
    BY <2>4, <2>5 DEF ReuseStep, RP!Next
<1>9. TypeOK'
  <2>1. AllocTypeOK'
    BY <1>8, ReuseKept
  <2> QED
    BY <1>0, <1>1, <1>3, <2>1 DEF TypeOK
<1>10. BelowInv'
  <2>1. OwnedUnits' \subseteq OwnedUnits
    BY <1>0, <1>6, <1>7 DEF OwnedUnits
  <2> QED
    BY <1>0, <1>1, <2>1, BelowFrame
<1>11. OwnerInv'
  BY <1>0, <1>1, <1>6, <1>7 DEF OwnerInv
<1>12. FrontInv'
  <2>1. \A q \in Path : Owns(q)' => Stored(q, front[q][2])'
    <3>1. Stored(e.path, e.old)
      BY <1>1, <1>2, <1>4, Slots DEF FrontInv
    <3>2. Stored(e.path, front[e.path][2])'
      BY <1>0, <1>2, <1>3, <3>1, Slots DEF Stored
    <3> QED
      BY <1>0, <1>1, <1>3, <1>4, <3>2 DEF FrontInv, Stored
  <2>2. \A q, r \in Path : Owns(q)' /\ Owns(r)' /\ front'[q] = front'[r] => q = r
    BY <1>1, <1>2, <1>3, <1>4, <1>5 DEF FrontInv
  <2> QED
    BY <1>0, <1>1, <2>1, <2>2 DEF FrontInv
<1>13. EvacInv'
  <2>1. ASSUME NEW f \in evac'
        PROVE  /\ front'[f.path] = Disk(f.old) /\ disk[f.old] = f.rec
               /\ f.new # None /\ disk[f.new] = f.rec
               /\ \A q \in Path : front'[q] # Disk(f.new)
    <3>1. /\ f \in evac /\ f.path \in Path /\ f.path # e.path /\ f.new # e.new
          /\ f.new \in Unit
      BY <1>0, <1>1, <1>2, <2>1, Types DEF EvacInv
    <3>2. Disk(f.new) # Disk(e.new)
      BY <1>2, <3>1, Slots
    <3> QED
      BY <1>0, <1>1, <1>3, <3>1, <3>2 DEF EvacInv
  <2> QED
    BY <1>0, <1>1, <2>1 DEF EvacInv
<1>14. BatchInv' /\ SnapInv' /\ CoherentInv'
  BY <1>0, <1>1 DEF BatchInv, SnapInv, CoherentInv, Stored
<1>15. ManifestInv'
  BY <1>0, <1>1 DEF ManifestInv, Stored
<1>16. SpilledInv'
  <2>1. MemPaths' \subseteq MemPaths
    BY <1>2, <1>3, Slots DEF MemPaths
  <2> QED
    BY <1>0, <1>1, <2>1 DEF SpilledInv
<1> QED
  BY <1>8, <1>9, <1>10, <1>11, <1>12, <1>13, <1>14, <1>15, <1>16 DEF StoreInv

-----------------------------------------------------------------------------
(* Copies made by gc_step and gc_collect *)

\* A relocation once its copy is written.
LEMMA CopiedItem ==
    ASSUME NEW e \in Item, NEW n \in Unit, NEW c, c = [e EXCEPT !.new = n]
    PROVE  c \in Item /\ c.path = e.path /\ c.old = e.old /\ c.rec = e.rec /\ c.new = n
BY DEF Item

\* gc_step writes the new copy of a record.
LEMMA EvacCopies ==
    ASSUME Inv, NEW e \in evac, EvacCopy(e)
    PROVE  StoreInv' /\ ReuseStep
<1>1. /\ TypeOK /\ BelowInv /\ OwnerInv /\ FrontInv /\ EvacInv /\ BatchInv /\ ManifestInv /\ SpilledInv
  BY DEF Inv, StoreInv
<1>n. PICK n : n = NewUnit
  OBVIOUS
<1>0. /\ UNCHANGED <<front, cache, snapFront, taken, meta, prev, mnew, wpc, wret, wput, evacVict,
                     gcItems, gcVict, lost, gpc, gcGen>>
      /\ WritePayload(e.rec) /\ Alloc(1, 1) /\ wpc = "copy" /\ e.new = None /\ e.rec \in Rec
      /\ evac' = (evac \ {e}) \cup {[e EXCEPT !.new = n]}
  BY <1>1, <1>n, Types DEF EvacCopy, WritePayload, snapVars, durVars, gcVars
<1>2. /\ n \in Unit /\ head' \in Region /\ RegionOf(n) = head' /\ Below(n)'
      /\ \A u \in Unit : Referenced(u) => Below(u)'
  BY <1>0, <1>n, FreshUnit
<1>3. /\ disk'[n] = e.rec /\ disk' \in [Unit -> Rec \cup {None}] /\ synced' = synced \ {n}
      /\ SnapInv' /\ CoherentInv'
      /\ meta # None =>
            /\ Injective(meta.front)
            /\ \A q \in Path : IsDisk(meta.front[q]) =>
                  Stored(q, meta.front[q][2])' /\ meta.front[q][2] \in synced'
  BY <1>0, <1>n, WriteFrame
<1>4. /\ \A q \in Path, u \in Unit : Owns(q) /\ front[q] = Disk(u) => u # n /\ Stored(q, u)'
      /\ \A f \in evac : /\ disk'[f.old] = f.rec /\ f.new # n
                         /\ f.new # None => disk'[f.new] = f.rec
      /\ \A f \in gcItems : /\ disk'[f.old] = f.rec /\ RegionOf(f.old) # head'
                            /\ f.new # None => disk'[f.new] = f.rec
      /\ n \notin OwnedUnits
  BY <1>0, <1>n, WriteOwners
<1>c. PICK c : c = [e EXCEPT !.new = n]
  OBVIOUS
<1>5. /\ c \in Item /\ c.path = e.path /\ c.old = e.old /\ c.rec = e.rec /\ c.new = n
      /\ evac' = (evac \ {e}) \cup {c}
  <2>1. e \in Item
    BY <1>1 DEF TypeOK
  <2> QED
    BY <1>0, <1>2, <1>c, <2>1, CopiedItem
<1>i. \A f \in evac' : (f \in evac /\ f # e) \/ f = c
  BY <1>5
<1>6. \A q \in Path : Owns(q)' <=> Owns(q)
  BY <1>0 DEF Owns
<1>7. FrontierUnits' = FrontierUnits \cup {n}
  <2>1. /\ FrontierUnits = {front[q][2] : q \in {q \in Path : Owns(q)}} \cup ({f.new : f \in evac} \ {None})
        /\ FrontierUnits' = {front[q][2] : q \in {q \in Path : Owns(q)}} \cup ({f.new : f \in evac'} \ {None})
    BY <1>0, <1>6 DEF FrontierUnits, Owns
  <2>2. {f.new : f \in evac'} \ {None} = ({f.new : f \in evac} \ {None}) \cup {n}
    BY <1>0, <1>2, <1>5, NoneAssumption
  <2> QED
    BY <2>1, <2>2
<1>9. Copies' = Copies
  BY <1>0, BarFrame
<1>10. ReuseStep
  <2>1. heldBar' = [heldBar EXCEPT ![head'] = @ + 1]
    <3>1. FrontierUnits \in SUBSET Unit /\ n \notin FrontierUnits
      BY <1>1, <1>4, Owned DEF OwnedUnits
    <3> QED
      BY <1>2, <1>7, <3>1, CountAdd DEF heldBar
  <2>2. RP!Alloc(1, 1) /\ wpcBar = "batch"
    BY <1>0, SameAllocator DEF wpcBar
  <2>3. UNCHANGED <<copiesBar, lostBar, snapsBar, seenBar, cachedBar, durableBar, durableEndBar,
                    pendBar, pendEndBar, wpcBar, gpcBar, gcGen>>
    BY <1>0, BarFrame
  <2>4. RP!WriteRecord(1, 1)
    BY <2>1, <2>2, <2>3 DEF RP!WriteRecord
  <2>5. 1 \in RP!Units
    BY AllocAssumption, SameAllocator
  <2> QED
    BY <2>4, <2>5 DEF ReuseStep, RP!Next
<1>11. TypeOK'
  <2>1. AllocTypeOK'
    BY <1>10, ReuseKept
  <2> QED
    BY <1>0, <1>1, <1>3, <1>5, <2>1 DEF TypeOK
<1>12. BelowInv'
  <2>1. OwnedUnits' \subseteq OwnedUnits \cup {n}
    BY <1>0, <1>7, <1>9 DEF OwnedUnits
  <2>2. \A u \in Unit : Referenced(u)' => Referenced(u) \/ u \in {n}
    BY <1>0, <2>1, ReferencedFrame
  <2> QED
    BY <1>2, <2>2 DEF BelowInv
<1>13. OwnerInv'
  BY <1>0, <1>1, <1>4, <1>7, <1>9 DEF OwnerInv, OwnedUnits
<1>14. FrontInv'
  <2>1. \A q \in Path : Owns(q) => Stored(q, front[q][2])'
    <3> SUFFICES ASSUME NEW q \in Path, Owns(q)
                 PROVE  Stored(q, front[q][2])'
      OBVIOUS
    <3>1. PICK u \in Unit : front[q] = Disk(u) /\ front[q][2] = u
      BY <1>1, Types, Slots DEF Owns
    <3> QED
      BY <1>0, <1>4, <3>1 DEF Stored
  <2> QED
    BY <1>0, <1>1, <1>6, <2>1 DEF FrontInv
<1>15. EvacInv'
  <2>1. \A q \in Path : front[q] # Disk(n)
    BY <1>0, <1>2, <1>4, Slots DEF Owns
  <2>2. ASSUME NEW f \in evac'
        PROVE  /\ front[f.path] = Disk(f.old) /\ disk'[f.old] = f.rec
               /\ f.new # None => /\ disk'[f.new] = f.rec
                                  /\ \A q \in Path : front[q] # Disk(f.new)
    BY <1>1, <1>3, <1>4, <1>5, <1>i, <2>1, <2>2 DEF EvacInv
  <2>3. ASSUME NEW f \in evac', NEW g \in evac', f.path = g.path \/ (f.new # None /\ f.new = g.new)
        PROVE  f = g
    BY <1>1, <1>4, <1>5, <1>i, <2>3 DEF EvacInv
  <2> QED
    BY <1>0, <2>2, <2>3 DEF EvacInv
<1>16. BatchInv'
  BY <1>0, <1>1, <1>4 DEF BatchInv
<1>17. ManifestInv' /\ SpilledInv'
  BY <1>0, <1>1, <1>3 DEF ManifestInv, SpilledInv, Stored, MemPaths
<1> QED
  BY <1>3, <1>10, <1>11, <1>12, <1>13, <1>14, <1>15, <1>16, <1>17 DEF StoreInv

\* gc_collect writes the new copy of a record, whatever the writer is doing.
LEMMA GcCopies ==
    ASSUME Inv, NEW e \in gcItems, GcCopy(e)
    PROVE  StoreInv' /\ ReuseStep
<1>1. /\ TypeOK /\ BelowInv /\ OwnerInv /\ FrontInv /\ EvacInv /\ BatchInv /\ ManifestInv /\ SpilledInv
  BY DEF Inv, StoreInv
<1>n. PICK n : n = NewUnit
  OBVIOUS
<1>0. /\ UNCHANGED <<front, cache, snapFront, taken, meta, prev, mnew, wpc, wret, wput, evac,
                     evacVict, gcVict, lost, gpc, gcGen>>
      /\ WritePayload(e.rec) /\ Alloc(1, 1) /\ gpc = "copying" /\ e.new = None /\ e.rec \in Rec
      /\ gcItems' = (gcItems \ {e}) \cup {[e EXCEPT !.new = n]}
  BY <1>1, <1>n, Types DEF GcCopy, WritePayload, snapVars, durVars, writerVars
<1>2. /\ n \in Unit /\ head' \in Region /\ RegionOf(n) = head' /\ Below(n)'
      /\ \A u \in Unit : Referenced(u) => Below(u)'
  BY <1>0, <1>n, FreshUnit
<1>3. /\ disk'[n] = e.rec /\ disk' \in [Unit -> Rec \cup {None}] /\ synced' = synced \ {n}
      /\ SnapInv' /\ CoherentInv'
      /\ meta # None =>
            /\ Injective(meta.front)
            /\ \A q \in Path : IsDisk(meta.front[q]) =>
                  Stored(q, meta.front[q][2])' /\ meta.front[q][2] \in synced'
  BY <1>0, <1>n, WriteFrame
<1>4. /\ \A q \in Path, u \in Unit : Owns(q) /\ front[q] = Disk(u) => u # n /\ Stored(q, u)'
      /\ \A f \in evac : /\ disk'[f.old] = f.rec /\ f.new # n
                         /\ f.new # None => disk'[f.new] = f.rec
      /\ \A f \in gcItems : /\ disk'[f.old] = f.rec /\ RegionOf(f.old) # head' /\ f.new # n
                            /\ f.new # None => disk'[f.new] = f.rec
      /\ n \notin OwnedUnits
  BY <1>0, <1>n, WriteOwners
<1>c. PICK c : c = [e EXCEPT !.new = n]
  OBVIOUS
<1>5. /\ c \in Item /\ c.path = e.path /\ c.old = e.old /\ c.rec = e.rec /\ c.new = n
      /\ gcItems' = (gcItems \ {e}) \cup {c}
  <2>1. e \in Item
    BY <1>1 DEF TypeOK
  <2> QED
    BY <1>0, <1>2, <1>c, <2>1, CopiedItem
<1>i. \A f \in gcItems' : (f \in gcItems /\ f # e) \/ f = c
  BY <1>5
<1>6. /\ \A q \in Path : Owns(q)' <=> Owns(q)
      /\ FrontierUnits' = FrontierUnits /\ heldBar' = heldBar
  BY <1>0, FrontierFrame
<1>7. Copies' = Copies \cup {n}
  BY <1>0, <1>2, <1>5, NoneAssumption DEF Copies
<1>10. ReuseStep
  <2>1. copiesBar' = [copiesBar EXCEPT ![head'] = @ + 1]
    <3>1. Copies \in SUBSET Unit /\ n \notin Copies
      BY <1>1, <1>4, Owned DEF OwnedUnits
    <3> QED
      BY <1>2, <1>7, <3>1, CountAdd DEF copiesBar
  <2>2. RP!Alloc(1, 1) /\ gpcBar = "copying"
    BY <1>0, SameAllocator DEF gpcBar
  <2>3. UNCHANGED <<lostBar, snapsBar, seenBar, cachedBar, durableBar, durableEndBar,
                    pendBar, pendEndBar, wpcBar, gpcBar, gcGen>>
    BY <1>0, BarFrame
  <2>4. RP!GcCopy(1, 1)
    BY <1>6, <2>1, <2>2, <2>3 DEF RP!GcCopy
  <2>5. 1 \in RP!Units
    BY AllocAssumption, SameAllocator
  <2> QED
    BY <2>4, <2>5 DEF ReuseStep, RP!Next
<1>11. TypeOK'
  <2>1. AllocTypeOK'
    BY <1>10, ReuseKept
  <2> QED
    BY <1>0, <1>1, <1>3, <1>5, <2>1 DEF TypeOK
<1>12. BelowInv'
  <2>1. OwnedUnits' \subseteq OwnedUnits \cup {n}
    BY <1>0, <1>6, <1>7 DEF OwnedUnits
  <2>2. \A u \in Unit : Referenced(u)' => Referenced(u) \/ u \in {n}
    BY <1>0, <2>1, ReferencedFrame
  <2> QED
    BY <1>2, <2>2 DEF BelowInv
<1>13. OwnerInv'
  BY <1>0, <1>1, <1>4, <1>6, <1>7 DEF OwnerInv, OwnedUnits
<1>f. \A q \in Path : IsDisk(front[q]) => front[q][2] \in Unit /\ front[q] = Disk(front[q][2])
  BY <1>1, Types, Slots
<1>14. FrontInv'
  <2>1. \A q \in Path : Owns(q) => Stored(q, front[q][2])'
    <3> SUFFICES ASSUME NEW q \in Path, Owns(q)
                 PROVE  Stored(q, front[q][2])'
      OBVIOUS
    <3>1. PICK u \in Unit : front[q] = Disk(u) /\ front[q][2] = u
      BY <1>f DEF Owns
    <3> QED
      BY <1>0, <1>4, <3>1 DEF Stored
  <2> QED
    BY <1>0, <1>1, <1>6, <2>1 DEF FrontInv
<1>15. EvacInv'
  BY <1>0, <1>1, <1>4 DEF EvacInv
<1>16. BatchInv'
  <2>1. ASSUME NEW f \in gcItems'
        PROVE  /\ snapFront[gcGen][f.path] = Disk(f.old) /\ disk'[f.old] = f.rec
               /\ RegionOf(f.old) # head'
               /\ f.new # None => disk'[f.new] = f.rec /\ RegionOf(f.new) # RegionOf(f.old)
    BY <1>1, <1>2, <1>3, <1>4, <1>5, <1>i, <2>1 DEF BatchInv
  <2>2. ASSUME NEW f \in gcItems', NEW g \in gcItems',
               f.path = g.path \/ (f.new # None /\ f.new = g.new)
        PROVE  f = g
    BY <1>1, <1>4, <1>5, <1>i, <2>2 DEF BatchInv
  <2>3. wpc # "installed" /\ wpc # "install"
    BY <1>0, <1>1 DEF BatchInv
  <2> QED
    BY <1>0, <1>1, <2>1, <2>2, <2>3 DEF BatchInv
<1>17. ManifestInv'
  <2>1. mnew # None => \A q \in Path : IsDisk(front[q]) => front[q][2] \in synced'
    BY <1>1, <1>3, <1>4, <1>f DEF ManifestInv, Owns
  <2> QED
    BY <1>0, <1>1, <1>3, <2>1 DEF ManifestInv, Stored
<1>18. SpilledInv'
  BY <1>0, <1>1 DEF SpilledInv, MemPaths
<1> QED
  BY <1>3, <1>10, <1>11, <1>12, <1>13, <1>14, <1>15, <1>16, <1>17, <1>18 DEF StoreInv

-----------------------------------------------------------------------------
(* Scans, and the installation of a batch *)

\* What a region scan returns.
LEMMA Scans ==
    ASSUME TypeOK, NEW f \in [Path -> Slot], NEW victims, NEW S, S = LiveRecords(victims, f)
    PROVE  /\ \A e \in S : /\ e \in Item /\ e.path \in Path /\ e.old \in Unit /\ e.new = None
                           /\ f[e.path] = Disk(e.old) /\ disk[e.old] = e.rec
                           /\ RegionOf(e.old) \in victims
           /\ \A e, d \in S : e.path = d.path => e = d
<1>1. ASSUME NEW p \in Path, IsDisk(f[p]), disk[f[p][2]] # None,
             NEW e, e = [path |-> p, old |-> f[p][2], rec |-> disk[f[p][2]], new |-> None]
      PROVE  /\ e \in Item /\ e.path = p /\ e.old = f[p][2] /\ e.new = None
             /\ f[p] = Disk(e.old) /\ disk[e.old] = e.rec
  <2>1. f[p][2] \in Unit /\ f[p] = Disk(f[p][2])
    BY <1>1, Slots
  <2>2. disk[f[p][2]] \in Rec
    BY <1>1, <2>1, Types
  <2> QED
    BY <1>1, <2>1, <2>2 DEF Item
<1>2. \A e \in S : \E p \in Path :
          /\ IsDisk(f[p]) /\ disk[f[p][2]] # None /\ RegionOf(f[p][2]) \in victims
          /\ e = [path |-> p, old |-> f[p][2], rec |-> disk[f[p][2]], new |-> None]
  BY DEF LiveRecords
<1>3. \A e \in S : /\ e \in Item /\ e.path \in Path /\ e.new = None
                   /\ f[e.path] = Disk(e.old) /\ disk[e.old] = e.rec
                   /\ RegionOf(e.old) \in victims
  BY <1>1, <1>2
<1>4. \A e \in S : e.old \in Unit
  BY <1>3 DEF Item
<1>5. \A e \in S : e = [path |-> e.path, old |-> f[e.path][2], rec |-> disk[f[e.path][2]], new |-> None]
  BY <1>1, <1>2
<1>6. \A e, d \in S : e.path = d.path => e = d
  BY <1>5
<1> QED
  BY <1>3, <1>4, <1>6

\* gc_step selects victims and reads their live records.
LEMMA EvacScans ==
    ASSUME Inv, NEW victims \in SUBSET Region, EvacScan(victims)
    PROVE  StoreInv' /\ ReuseStep
<1>1. /\ TypeOK /\ BelowInv /\ OwnerInv /\ FrontInv /\ EvacInv /\ BatchInv /\ SnapInv /\ CoherentInv
      /\ ManifestInv /\ SpilledInv
  BY DEF Inv, StoreInv
<1>0. /\ UNCHANGED <<raVars, disk, synced, front, cache, snapFront, taken, meta, prev, mnew, wput,
                     gcItems, gcVict, lost, gpc, gcGen, head, nextUnit>>
      /\ wpc \in {"idle", "gc"} /\ evac' = LiveRecords(victims, front) /\ evacVict' = victims
      /\ wpc' = (IF evac' = {} THEN "free" ELSE "scanned") /\ wret' = wpc
  BY DEF EvacScan, snapVars, durVars, gcVars, raVars
<1>2. front \in [Path -> Slot] /\ evac = {}
  BY <1>0, <1>1, Types DEF EvacInv
<1>3. /\ \A e \in evac' : /\ e \in Item /\ e.new = None
                          /\ front[e.path] = Disk(e.old) /\ disk[e.old] = e.rec
      /\ \A e, d \in evac' : e.path = d.path => e = d
  BY <1>0, <1>1, <1>2, Scans
<1>4. wpc # "apply" /\ wpc' \in {"free", "scanned"} /\ (wpc' = "free" => evac' = {})
  BY <1>0
<1>5. \A q \in Path : Owns(q)' <=> Owns(q)
  BY <1>0, <1>4 DEF Owns
<1>6. FrontierUnits' = FrontierUnits /\ heldBar' = heldBar
  <2>1. {e.new : e \in evac'} \ {None} = {} /\ {e.new : e \in evac} \ {None} = {}
    BY <1>2, <1>3
  <2>2. FrontierUnits' = FrontierUnits
    BY <1>0, <1>4, <2>1 DEF FrontierUnits
  <2> QED
    BY <2>2 DEF heldBar
<1>7. /\ Copies' = Copies
      /\ UNCHANGED <<copiesBar, lostBar, snapsBar, seenBar, cachedBar, durableBar, durableEndBar,
                     pendBar, pendEndBar, gpcBar>>
  BY <1>0, BarFrame
<1>8. ReuseStep
  <2>1. UNCHANGED wpcBar
    BY <1>0 DEF wpcBar
  <2>2. UNCHANGED RP!raVars
    BY <1>0 DEF raVars, RP!raVars
  <2> QED
    BY <1>0, <1>6, <1>7, <2>1, <2>2 DEF ReuseStep, RP!vars, RP!clientVars
<1>9. TypeOK'
  <2>1. AllocTypeOK'
    BY <1>8, ReuseKept
  <2> QED
    BY <1>0, <1>1, <1>3, <1>4, <2>1 DEF TypeOK
<1>10. BelowInv'
  <2>1. OwnedUnits' \subseteq OwnedUnits
    BY <1>0, <1>6, <1>7 DEF OwnedUnits
  <2> QED
    BY <1>0, <1>1, <2>1, BelowFrame
<1>11. OwnerInv'
  BY <1>0, <1>1, <1>6, <1>7 DEF OwnerInv
<1>12. FrontInv'
  BY <1>0, <1>1, <1>4, <1>5 DEF FrontInv, Stored
<1>13. EvacInv'
  BY <1>0, <1>3, <1>4 DEF EvacInv
<1>14. BatchInv' /\ SnapInv' /\ CoherentInv'
  BY <1>0, <1>1, <1>4 DEF BatchInv, SnapInv, CoherentInv, Stored
<1>15. ManifestInv' /\ SpilledInv'
  BY <1>0, <1>1, <1>4 DEF ManifestInv, SpilledInv, Stored, MemPaths
<1> QED
  BY <1>8, <1>9, <1>10, <1>11, <1>12, <1>13, <1>14, <1>15 DEF StoreInv

\* gc_collect selects victims now and scans them under its snapshot.
LEMMA GcScans ==
    ASSUME Inv, NEW victims \in SUBSET Region, GcScan(victims)
    PROVE  StoreInv' /\ ReuseStep
<1>1. /\ TypeOK /\ BelowInv /\ OwnerInv /\ FrontInv /\ EvacInv /\ BatchInv /\ SnapInv /\ CoherentInv
      /\ ManifestInv /\ SpilledInv
  BY DEF Inv, StoreInv
<1>0. /\ UNCHANGED <<raVars, disk, synced, front, cache, snapFront, taken, meta, prev, mnew, wpc,
                     wret, wput, evac, evacVict, lost, gcGen, head, nextUnit>>
      /\ gpc = "pinned" /\ gcItems' = LiveRecords(victims, snapFront[gcGen]) /\ gcVict' = victims
      /\ gpc' = (IF gcItems' = {} THEN "collected" ELSE "scanned")
      /\ \A r \in victims : r # head
  BY DEF GcScan, Eligible, snapVars, durVars, writerVars, raVars
<1>2. /\ gcGen \in Gen /\ snapFront[gcGen] \in [Path -> Slot] /\ gcItems = {}
      /\ wpc \notin {"install", "installed"}
  BY <1>0, <1>1, Types DEF BatchInv, SnapInv
<1>3. /\ \A e \in gcItems' : /\ e \in Item /\ e.new = None
                             /\ snapFront[gcGen][e.path] = Disk(e.old) /\ disk[e.old] = e.rec
                             /\ RegionOf(e.old) # head
      /\ \A e, d \in gcItems' : e.path = d.path => e = d
  <2>1. /\ \A e \in gcItems' : /\ e \in Item /\ e.new = None
                               /\ snapFront[gcGen][e.path] = Disk(e.old) /\ disk[e.old] = e.rec
                               /\ RegionOf(e.old) \in victims
        /\ \A e, d \in gcItems' : e.path = d.path => e = d
    BY <1>0, <1>1, <1>2, Scans
  <2> QED
    BY <1>0, <2>1
<1>4. gpc' \in {"scanned", "collected"} /\ (gpc' = "collected" => gcItems' = {})
  BY <1>0
<1>6. /\ \A p \in Path : Owns(p)' <=> Owns(p)
      /\ FrontierUnits' = FrontierUnits /\ heldBar' = heldBar
  BY <1>0, FrontierFrame
<1>7. Copies' = Copies /\ copiesBar' = copiesBar
  <2>1. Copies' = {} /\ Copies = {}
    BY <1>2, <1>3 DEF Copies
  <2> QED
    BY <2>1 DEF copiesBar
<1>8. ReuseStep
  <2>1. UNCHANGED <<lostBar, snapsBar, seenBar, cachedBar, durableBar, durableEndBar,
                    pendBar, pendEndBar, wpcBar>>
    BY <1>0, BarFrame
  <2>2. UNCHANGED RP!raVars
    BY <1>0 DEF raVars, RP!raVars
  <2>3. CASE gpc' = "scanned"
    <3>1. UNCHANGED gpcBar
      BY <1>0, <2>3 DEF gpcBar
    <3> QED
      BY <1>0, <1>6, <1>7, <2>1, <2>2, <3>1 DEF ReuseStep, RP!vars, RP!clientVars
  <2>4. CASE gpc' = "collected"
    <3>1. gpcBar = "pinned" /\ gpcBar' = "collected"
      BY <1>0, <2>4 DEF gpcBar
    <3>2. RP!GcCollected
      BY <1>0, <1>6, <1>7, <2>1, <2>2, <3>1 DEF RP!GcCollected
    <3> QED
      BY <3>2 DEF ReuseStep, RP!Next
  <2> QED
    BY <1>4, <2>3, <2>4
<1>9. TypeOK'
  <2>1. AllocTypeOK'
    BY <1>8, ReuseKept
  <2> QED
    BY <1>0, <1>1, <1>3, <1>4, <2>1 DEF TypeOK
<1>10. BelowInv'
  <2>1. OwnedUnits' \subseteq OwnedUnits
    BY <1>0, <1>6, <1>7 DEF OwnedUnits
  <2> QED
    BY <1>0, <1>1, <2>1, BelowFrame
<1>11. OwnerInv'
  BY <1>0, <1>1, <1>6, <1>7 DEF OwnerInv
<1>12. FrontInv'
  BY <1>0, <1>1, <1>6 DEF FrontInv, Stored
<1>13. EvacInv' /\ SnapInv' /\ CoherentInv'
  BY <1>0, <1>1, <1>4 DEF EvacInv, SnapInv, CoherentInv, Stored
<1>14. BatchInv'
  BY <1>0, <1>1, <1>2, <1>3, <1>4 DEF BatchInv
<1>15. ManifestInv' /\ SpilledInv'
  BY <1>0, <1>1 DEF ManifestInv, SpilledInv, Stored, MemPaths
<1> QED
  BY <1>8, <1>9, <1>10, <1>11, <1>12, <1>13, <1>14, <1>15 DEF StoreInv

\* gc_install finds one relocation current, and swaps the slot, or stale, and
\* frees the copy.
LEMMA Installs ==
    ASSUME Inv, NEW e \in gcItems, InstallItem(e) \/ DiscardItem(e)
    PROVE  StoreInv' /\ ReuseStep
<1>1. /\ TypeOK /\ BelowInv /\ OwnerInv /\ FrontInv /\ EvacInv /\ BatchInv /\ SnapInv /\ CoherentInv
      /\ ManifestInv /\ SpilledInv
  BY DEF Inv, StoreInv
<1>0. /\ UNCHANGED <<disk, synced, cache, snapFront, taken, meta, prev, mnew, wpc, wret, wput, evac,
                     evacVict, gcVict, lost, gpc, gcGen, head, nextUnit>>
      /\ wpc = "install" /\ gcItems' = gcItems \ {e}
  BY DEF InstallItem, DiscardItem, FreeUnit, Free, headVars, snapVars, durVars, writerVars
<1>2. /\ front \in [Path -> Slot] /\ evac = {} /\ gpc = "collected" /\ mnew = None
      /\ e.path \in Path /\ e.old \in Unit /\ e.new \in Unit /\ e.new # None
      /\ disk[e.new] = disk[e.old] /\ RegionOf(e.new) # RegionOf(e.old)
      /\ RegionOf(e.old) \in Region /\ RegionOf(e.new) \in Region
  <2>1. gpc = "collected"
    BY <1>0, <1>1 DEF BatchInv
  <2>2. e.new # None
    BY <1>1, <2>1 DEF BatchInv
  <2>3. /\ front \in [Path -> Slot]
        /\ e.path \in Path /\ e.old \in Unit /\ e.new \in Unit
    BY <1>1, <2>2, Types
  <2> QED
    BY <1>0, <1>1, <2>1, <2>2, <2>3, UnitRegion DEF EvacInv, ManifestInv, BatchInv
<1>3. Copies' = Copies \ {e.new} /\ e.new \in Copies
  <2>1. \A f \in gcItems \ {e} : f.new # e.new
    BY <1>1, <1>2 DEF BatchInv
  <2> QED
    BY <1>0, <1>2, <2>1 DEF Copies
<1>4. /\ UNCHANGED <<lostBar, snapsBar, seenBar, cachedBar, durableBar, durableEndBar,
                     pendBar, pendEndBar, wpcBar, gpcBar>>
      /\ wpcBar = "idle" /\ gpcBar = "collected"
  BY <1>0, <1>2, BarFrame DEF wpcBar, gpcBar
<1>5. FrontierUnits \in SUBSET Unit /\ Copies \in SUBSET Unit
  BY <1>1, Owned
<1>6. /\ copiesBar' = [copiesBar EXCEPT ![RegionOf(e.new)] = @ - 1]
      /\ 1 \in 1 .. copiesBar[RegionOf(e.new)]
  BY <1>2, <1>3, <1>5, CountRemove, CountType DEF copiesBar
<1>7. 1 \in RP!Units /\ RegionOf(e.old) \in RP!Region /\ RegionOf(e.new) \in RP!Region
  BY <1>2, AllocAssumption, SameAllocator
<1>8. \A q \in Path : (Owns(q) <=> IsDisk(front[q])) /\ (Owns(q)' <=> IsDisk(front'[q]))
  BY <1>0 DEF Owns
<1>9. /\ FrontierUnits = {front[q][2] : q \in {q \in Path : IsDisk(front[q])}}
      /\ FrontierUnits' = {front'[q][2] : q \in {q \in Path : IsDisk(front'[q])}}
  BY <1>0, <1>2 DEF FrontierUnits
<1>10. BatchInv'
  BY <1>0, <1>1 DEF BatchInv
<1>11. SnapInv' /\ CoherentInv' /\ ManifestInv' /\ SpilledInv' /\ EvacInv'
  BY <1>0, <1>1, <1>2 DEF SnapInv, CoherentInv, ManifestInv, SpilledInv, EvacInv, Stored
<1>12. CASE InstallItem(e)
  <2>0. /\ front[e.path] = Disk(e.old) /\ Free(RegionOf(e.old), 1)
        /\ front' = [front EXCEPT ![e.path] = Disk(e.new)]
    BY <1>12 DEF InstallItem, FreeUnit
  <2>1. /\ front' \in [Path -> Slot] /\ front'[e.path] = Disk(e.new)
        /\ \A q \in Path : q # e.path => front'[q] = front[q]
    BY <1>2, <2>0, Slots
  <2>2. e.new \notin FrontierUnits /\ e.old # e.new
    BY <1>1, <1>2, <1>3 DEF OwnerInv
  <2>3. \A q \in Path : /\ IsDisk(front[q]) => /\ front[q][2] \in Unit
                                               /\ front[q] = Disk(front[q][2])
                                               /\ front[q][2] # e.new
                        /\ IsDisk(front[q]) /\ front[q][2] = e.old => q = e.path
    <3> SUFFICES ASSUME NEW q \in Path, IsDisk(front[q])
                 PROVE  /\ front[q][2] \in Unit /\ front[q] = Disk(front[q][2])
                        /\ front[q][2] # e.new
                        /\ front[q][2] = e.old => q = e.path
      OBVIOUS
    <3>1. front[q][2] \in Unit /\ front[q] = Disk(front[q][2])
      BY <1>2, Slots
    <3>2. front[q][2] # e.new
      BY <1>9, <2>2
    <3>3. front[q] = front[e.path] => q = e.path
      BY <1>1, <1>2, <1>8 DEF FrontInv
    <3> QED
      BY <2>0, <3>1, <3>2, <3>3
  <2>4. IsDisk(front[e.path]) /\ front[e.path][2] = e.old /\ IsDisk(front'[e.path]) /\ front'[e.path][2] = e.new
    BY <1>2, <2>0, <2>1, Slots
  <2>5. FrontierUnits' = (FrontierUnits \ {e.old}) \cup {e.new} /\ e.old \in FrontierUnits
    BY <1>2, <1>9, <2>1, <2>2, <2>3, <2>4
  <2>6. ReuseStep
    <3>1. /\ CountIn(FrontierUnits \ {e.old}) = [heldBar EXCEPT ![RegionOf(e.old)] = @ - 1]
          /\ heldBar[RegionOf(e.old)] > 0 /\ heldBar[RegionOf(e.old)] \in Nat
          /\ heldBar \in [Region -> Nat]
      BY <1>2, <1>5, <2>5, CountRemove, CountType DEF heldBar
    <3>2. heldBar' = [CountIn(FrontierUnits \ {e.old}) EXCEPT ![RegionOf(e.new)] = @ + 1]
      <4>1. FrontierUnits \ {e.old} \in SUBSET Unit /\ e.new \notin FrontierUnits \ {e.old}
        BY <1>5, <2>2
      <4> QED
        BY <1>2, <2>5, <4>1, CountAdd DEF heldBar
    <3>3. heldBar' = [heldBar EXCEPT ![RegionOf(e.old)] = @ - 1, ![RegionOf(e.new)] = @ + 1]
      BY <1>2, <3>1, <3>2
    <3>4. RP!Free(RegionOf(e.old), 1) /\ 1 <= heldBar[RegionOf(e.old)]
      BY <2>0, <3>1, SameAllocator
    <3>5. RP!InstallCopy(RegionOf(e.old), RegionOf(e.new), 1)
      BY <1>0, <1>2, <1>4, <1>6, <3>3, <3>4 DEF RP!InstallCopy
    <3> QED
      BY <1>7, <3>5 DEF ReuseStep, RP!Next
  <2>7. TypeOK'
    <3>1. AllocTypeOK'
      BY <2>6, ReuseKept
    <3> QED
      BY <1>0, <1>1, <2>1, <3>1 DEF TypeOK
  <2>8. BelowInv'
    <3>1. OwnedUnits' \subseteq OwnedUnits
      BY <1>0, <1>3, <2>5 DEF OwnedUnits
    <3> QED
      BY <1>0, <1>1, <3>1, BelowFrame
  <2>9. OwnerInv'
    BY <1>0, <1>1, <1>3, <2>5 DEF OwnerInv
  <2>10. FrontInv'
    <3>1. Stored(e.path, e.old)
      BY <1>1, <1>2, <1>8, <2>4 DEF FrontInv
    <3>4. Stored(e.path, front[e.path][2])'
      BY <1>0, <1>2, <2>4, <3>1 DEF Stored
    <3>2. \A q \in Path : Owns(q)' => Stored(q, front[q][2])'
      BY <1>0, <1>1, <1>8, <2>1, <3>4 DEF FrontInv, Stored
    <3>3. \A q, r \in Path : Owns(q)' /\ Owns(r)' /\ front'[q] = front'[r] => q = r
      BY <1>1, <1>8, <2>1, <2>3, <2>4 DEF FrontInv
    <3> QED
      BY <1>0, <1>1, <3>2, <3>3 DEF FrontInv
  <2> QED
    BY <1>10, <1>11, <2>6, <2>7, <2>8, <2>9, <2>10 DEF StoreInv
<1>13. CASE DiscardItem(e)
  <2>0. UNCHANGED front /\ Free(RegionOf(e.new), 1)
    BY <1>13 DEF DiscardItem, FreeUnit
  <2>1. FrontierUnits' = FrontierUnits /\ heldBar' = heldBar
    BY <1>0, <2>0, FrontierFrame
  <2>2. ReuseStep
    <3>1. RP!Free(RegionOf(e.new), 1)
      BY <2>0, SameAllocator
    <3>2. RP!DiscardCopy(RegionOf(e.new), 1)
      BY <1>0, <1>4, <1>6, <2>1, <3>1 DEF RP!DiscardCopy
    <3> QED
      BY <1>7, <3>2 DEF ReuseStep, RP!Next
  <2>3. TypeOK'
    <3>1. AllocTypeOK'
      BY <2>2, ReuseKept
    <3> QED
      BY <1>0, <1>1, <2>0, <3>1 DEF TypeOK
  <2>4. BelowInv'
    <3>1. OwnedUnits' \subseteq OwnedUnits
      BY <1>0, <1>3, <2>1 DEF OwnedUnits
    <3> QED
      BY <1>0, <1>1, <3>1, BelowFrame
  <2>5. OwnerInv' /\ FrontInv'
    BY <1>0, <1>1, <1>3, <1>8, <2>0, <2>1 DEF OwnerInv, FrontInv, Stored
  <2> QED
    BY <1>10, <1>11, <2>2, <2>3, <2>4, <2>5 DEF StoreInv
<1> QED
  BY <1>12, <1>13

-----------------------------------------------------------------------------
(* Snapshots *)

\* Between the writer's calls, the units of the frontier are those its slots
\* point at.
LEMMA FrontierAtRest ==
    ASSUME TypeOK, FrontInv, EvacInv, wpc = "idle"
    PROVE  /\ evac = {} /\ front \in [Path -> Slot] /\ front # None
           /\ \A p \in Path : (Owns(p) <=> IsDisk(front[p])) /\ (IsDisk(front[p]) => Stored(p, front[p][2]))
           /\ \A p \in Path, u \in Unit : front[p] = Disk(u) => u \in FrontierUnits
           /\ FrontierUnits \in SUBSET Unit
           /\ RegionsOf(front) = {r \in Region : heldBar[r] > 0}
<1>1. evac = {} /\ front \in [Path -> Slot] /\ front # None
  BY Types, NoneAssumption DEF EvacInv
<1>2. \A p \in Path : (Owns(p) <=> IsDisk(front[p])) /\ (IsDisk(front[p]) => Stored(p, front[p][2]))
  BY DEF Owns, FrontInv
<1>3. \A p \in Path, u \in Unit : front[p] = Disk(u) => u \in FrontierUnits
  BY <1>2, Owned, Slots
<1>4. FrontierUnits \in SUBSET Unit /\ FrontierUnits = UnitsOf(front)
  BY <1>1, Owned DEF FrontierUnits, UnitsOf
<1>5. RegionsOf(front) = {RegionOf(u) : u \in UnitsOf(front)}
  BY DEF RegionsOf, UnitsOf
<1>6. \A u \in FrontierUnits : RegionOf(u) \in Region
  BY <1>4, UnitRegion
<1>7. \A r \in Region : heldBar[r] > 0 <=> \E u \in FrontierUnits : RegionOf(u) = r
  BY <1>4, CountType DEF heldBar
<1> QED
  BY <1>1, <1>2, <1>3, <1>4, <1>5, <1>6, <1>7

\* A snapshot of the frontier, for a reader or for gc_collect.
LEMMA TakesSnapshot ==
    ASSUME Inv, TakeSnapshot \/ GcPin
    PROVE  StoreInv' /\ ReuseStep
<1>1. /\ TypeOK /\ BelowInv /\ OwnerInv /\ FrontInv /\ EvacInv /\ BatchInv /\ SnapInv /\ CoherentInv
      /\ ManifestInv /\ SpilledInv
  BY DEF Inv, StoreInv
<1>g. PICK g : g = pinGen + 1
  OBVIOUS
<1>0. /\ UNCHANGED <<disk, synced, front, cache, meta, prev, mnew, wpc, wret, wput, evac, evacVict,
                     gcItems, gcVict, lost, head, nextUnit>>
      /\ wpc = "idle" /\ Pin /\ pinGen < MaxGen
      /\ snapFront' = [snapFront EXCEPT ![g] = front]
  BY <1>g DEF TakeSnapshot, GcPin, Pin, headVars, durVars, writerVars, gcVars
<1>2. /\ evac = {} /\ front \in [Path -> Slot] /\ front # None
      /\ \A p \in Path : IsDisk(front[p]) => Stored(p, front[p][2])
      /\ \A p \in Path, u \in Unit : front[p] = Disk(u) => u \in FrontierUnits
      /\ RegionsOf(front) = {r \in Region : heldBar[r] > 0}
  BY <1>0, <1>1, FrontierAtRest
<1>3. /\ g \in Gen /\ snapFront[g] = None /\ g \notin taken /\ ~(gpc # "idle" /\ gcGen = g)
  <2>1. pinGen \in 0 .. MaxGen /\ \A h \in Gen : snapFront[h] # None => h <= pinGen
    BY ReuseFacts DEF AllocTypeOK
  <2>2. g \in Gen /\ ~(g <= pinGen)
    BY <1>0, <1>g, <2>1, AllocAssumption DEF Gen
  <2> QED
    BY <1>1, <2>1, <2>2 DEF SnapInv
<1>4. /\ snapFront' \in [Gen -> [Path -> Slot] \cup {None}] /\ snapFront'[g] = front
      /\ \A h \in Gen : h # g => snapFront'[h] = snapFront[h]
  BY <1>0, <1>1, <1>2, <1>3 DEF TypeOK
<1>5. /\ \A p \in Path : Owns(p)' <=> Owns(p)
      /\ FrontierUnits' = FrontierUnits /\ heldBar' = heldBar
  BY <1>0, FrontierFrame
<1>6. /\ Copies' = Copies
      /\ UNCHANGED <<copiesBar, lostBar, cachedBar, durableBar, durableEndBar, pendBar, pendEndBar,
                     wpcBar>>
      /\ wpcBar = "idle"
  BY <1>0, BarFrame DEF wpcBar
<1>7. seenBar' = [seenBar EXCEPT ![g] = RP!HeldRegions]
  <2>1. RP!HeldRegions = RegionsOf(front)
    BY <1>2, SameAllocator DEF RP!HeldRegions
  <2>2. /\ seenBar = [h \in Gen |-> IF snapFront[h] = None THEN {} ELSE RegionsOf(snapFront[h])]
        /\ seenBar' = [h \in Gen |-> IF snapFront'[h] = None THEN {} ELSE RegionsOf(snapFront'[h])]
    BY DEF seenBar, RegionsOf
  <2> QED
    BY <1>2, <1>3, <1>4, <2>1, <2>2
<1>8. RP!Pin
  BY <1>0, SameAllocator
<1>9. BelowInv'
  <2>1. \A u \in Unit : Referenced(u)' => Referenced(u)
    <3> SUFFICES ASSUME NEW u \in Unit, Referenced(u)'
                 PROVE  Referenced(u)
      OBVIOUS
    <3>1. CASE \E p \in Path : front[p] = Disk(u)
      BY <1>2, <3>1 DEF Referenced, OwnedUnits
    <3> QED
      BY <1>0, <1>4, <1>5, <1>6, <3>1 DEF Referenced, OwnedUnits
  <2> QED
    BY <1>0, <1>1, <2>1 DEF BelowInv, Below
<1>10. OwnerInv' /\ FrontInv' /\ CoherentInv'
  BY <1>0, <1>1, <1>5, <1>6 DEF OwnerInv, FrontInv, CoherentInv, Stored
<1>11. EvacInv' /\ ManifestInv' /\ SpilledInv'
  BY <1>0, <1>1, <1>2 DEF EvacInv, ManifestInv, SpilledInv, Stored
<1>12. \A h \in Gen : snapFront'[h] # None =>
          \A p \in Path : IsDisk(snapFront'[h][p]) => Stored(p, snapFront[h][p][2])'
  BY <1>0, <1>1, <1>2, <1>4 DEF SnapInv, Stored
<1>13. CASE TakeSnapshot
  <2>0. UNCHANGED <<gpc, gcGen>> /\ taken' = taken \cup {g}
    BY <1>13, <1>g DEF TakeSnapshot, gcVars
  <2>1. ReuseStep
    <3>1. snapsBar' = [snapsBar EXCEPT ![g] = @ + 1]
      <4>1. snapsBar[g] = 0 /\ \A h \in Gen : snapsBar'[h] = IF h = g THEN 1 ELSE snapsBar[h]
        BY <1>3, <2>0 DEF snapsBar
      <4>2. snapsBar \in [Gen -> Nat] /\ snapsBar' \in [Gen -> Nat]
        BY DEF snapsBar
      <4> QED
        BY <1>3, <4>1, <4>2
    <3>2. RP!TakeSnapshot
      BY <1>g, <1>5, <1>6, <1>7, <1>8, <2>0, <3>1, BarFrame DEF RP!TakeSnapshot
    <3> QED
      BY <3>2 DEF ReuseStep, RP!Next
  <2>2. TypeOK'
    <3>1. AllocTypeOK'
      BY <2>1, ReuseKept
    <3> QED
      BY <1>0, <1>1, <1>3, <1>4, <2>0, <3>1 DEF TypeOK
  <2>3. SnapInv'
    BY <1>1, <1>2, <1>3, <1>4, <1>12, <2>0 DEF SnapInv
  <2>4. BatchInv'
    BY <1>0, <1>1, <1>3, <1>4, <2>0 DEF BatchInv
  <2> QED
    BY <1>9, <1>10, <1>11, <2>1, <2>2, <2>3, <2>4 DEF StoreInv
<1>14. CASE GcPin
  <2>0. gpc = "idle" /\ gpc' = "pinned" /\ gcGen' = g /\ UNCHANGED taken
    BY <1>14, <1>g DEF GcPin
  <2>1. ReuseStep
    <3>1. gpcBar = "idle" /\ gpcBar' = "pinned" /\ UNCHANGED snapsBar
      BY <2>0, BarFrame DEF gpcBar
    <3>2. RP!GcPin
      BY <1>g, <1>5, <1>6, <1>7, <1>8, <2>0, <3>1 DEF RP!GcPin
    <3> QED
      BY <3>2 DEF ReuseStep, RP!Next
  <2>2. TypeOK'
    <3>1. AllocTypeOK'
      BY <2>1, ReuseKept
    <3>2. g \in 0 .. MaxGen
      BY <1>3 DEF Gen
    <3> QED
      BY <1>0, <1>1, <1>4, <2>0, <3>1, <3>2 DEF TypeOK
  <2>3. SnapInv'
    BY <1>1, <1>2, <1>3, <1>4, <1>12, <2>0 DEF SnapInv
  <2>4. BatchInv'
    <3>1. gcItems = {} /\ wpc \notin {"install", "installed"}
      BY <1>0, <1>1, <2>0 DEF BatchInv
    <3> QED
      BY <1>0, <1>3, <2>0, <3>1 DEF BatchInv
  <2> QED
    BY <1>9, <1>10, <1>11, <2>1, <2>2, <2>3, <2>4 DEF StoreInv
<1> QED
  BY <1>13, <1>14

\* A snapshot goes: a reader's, or the batch's, dropped or installed.
LEMMA DropsSnapshot ==
    ASSUME Inv, (\E g \in Gen : DropSnapshot(g)) \/ GcDropped \/ InstallEnd
    PROVE  StoreInv' /\ ReuseStep
<1>1. /\ TypeOK /\ BelowInv /\ OwnerInv /\ FrontInv /\ EvacInv /\ BatchInv /\ SnapInv /\ CoherentInv
      /\ ManifestInv /\ SpilledInv
  BY DEF Inv, StoreInv
<1>b. InstallEnd => gpc = "collected" /\ gcItems = {}
  BY <1>1 DEF BatchInv, InstallEnd
<1>g. PICK g \in Gen : \/ DropSnapshot(g)
                       \/ g = gcGen /\ gpc # "idle" /\ (GcDropped \/ InstallEnd)
  BY <1>1, <1>b DEF BatchInv, GcDropped
<1>0. /\ UNCHANGED <<disk, synced, front, cache, meta, prev, mnew, wret, wput, evac, evacVict,
                     head, nextUnit>>
      /\ Unpin(g) /\ snapFront' = [snapFront EXCEPT ![g] = None]
      /\ UNCHANGED wpc \/ (wpc = "installed" /\ wpc' = "idle")
  <2>1. Unpin(g) => UNCHANGED <<head, nextUnit>>
    BY DEF Unpin, headVars
  <2>0. g = gcGen /\ Unpin(gcGen) => Unpin(g)
    BY DEF Unpin
  <2>2. CASE DropSnapshot(g)
    BY <2>1, <2>2 DEF DropSnapshot, durVars, writerVars
  <2>3. CASE g = gcGen /\ GcDropped
    BY <2>0, <2>1, <2>3 DEF GcDropped, durVars, writerVars
  <2>4. CASE g = gcGen /\ InstallEnd
    BY <2>0, <2>1, <2>4 DEF InstallEnd, durVars
  <2> QED
    BY <1>g, <2>2, <2>3, <2>4
<1>2. /\ DropSnapshot(g) => /\ g \in taken /\ taken' = taken \ {g}
                            /\ UNCHANGED <<gpc, gcGen, gcItems, gcVict, lost, wpc>>
      /\ GcDropped \/ InstallEnd =>
            /\ taken' = taken /\ gpc' = "idle" /\ gcGen' = 0 /\ gcItems' = {} /\ gcVict' = {}
      /\ GcDropped => UNCHANGED wpc /\ wpc \notin {"install", "installed"} /\ lost' = lost \cup Copies
      /\ InstallEnd => wpc = "installed" /\ wpc' = "idle" /\ UNCHANGED <<gcItems, lost>>
  BY <1>b DEF DropSnapshot, GcDropped, InstallEnd, gcVars, writerVars
<1>3. /\ g \in taken <=> ~(gpc # "idle" /\ gcGen = g)
      /\ gpc # "idle" => gcGen \in Gen /\ gcGen \notin taken
  BY <1>1, <1>2, <1>g DEF BatchInv
<1>4. /\ snapFront' \in [Gen -> [Path -> Slot] \cup {None}] /\ snapFront'[g] = None
      /\ \A h \in Gen : h # g => snapFront'[h] = snapFront[h]
  BY <1>0, <1>1 DEF TypeOK
<1>5. /\ \A p \in Path : Owns(p)' <=> Owns(p)
      /\ FrontierUnits' = FrontierUnits /\ heldBar' = heldBar
  BY <1>0, FrontierFrame
<1>6. UNCHANGED <<cachedBar, durableBar, durableEndBar, pendBar, pendEndBar, wpcBar>>
  BY <1>0, BarFrame DEF wpcBar
<1>7. seenBar' = RP!SeenAfterDrop(g)
  <2>1. RP!Readers(g) = 1
    BY <1>3 DEF RP!Readers, RP!GcPins, snapsBar, gpcBar
  <2>2. /\ seenBar = [h \in Gen |-> IF snapFront[h] = None THEN {} ELSE RegionsOf(snapFront[h])]
        /\ seenBar' = [h \in Gen |-> IF snapFront'[h] = None THEN {} ELSE RegionsOf(snapFront'[h])]
    BY DEF seenBar, RegionsOf
  <2>3. RP!SeenAfterDrop(g) = [seenBar EXCEPT ![g] = {}]
    BY <2>1 DEF RP!SeenAfterDrop
  <2> QED
    BY <1>4, <2>2, <2>3
<1>8. RP!Unpin(g) /\ g \in RP!Gen
  BY <1>0, SameAllocator
<1>9. Copies' \cup lost' = Copies \cup lost /\ Copies' \subseteq Copies /\ lost' \subseteq lost \cup Copies
      /\ Copies' \cap lost' = {}
  <2>1. CASE DropSnapshot(g)
    BY <1>1, <1>2, <2>1 DEF Copies, OwnerInv
  <2>2. CASE GcDropped
    BY <1>1, <1>2, <2>2 DEF Copies
  <2>3. CASE InstallEnd
    BY <1>b, <1>2, <2>3 DEF Copies
  <2> QED
    BY <1>g, <2>1, <2>2, <2>3
<1>10. BelowInv'
  <2>1. \A u \in Unit : Referenced(u)' => Referenced(u)
    BY <1>0, <1>4, <1>5, <1>9 DEF Referenced, OwnedUnits
  <2> QED
    BY <1>0, <1>1, <2>1 DEF BelowInv, Below
<1>11. OwnerInv'
  BY <1>1, <1>5, <1>9 DEF OwnerInv
<1>12. FrontInv' /\ CoherentInv'
  BY <1>0, <1>1, <1>5 DEF FrontInv, CoherentInv, Stored
<1>13. EvacInv' /\ ManifestInv' /\ SpilledInv'
  BY <1>0, <1>1 DEF EvacInv, ManifestInv, SpilledInv, Stored, MemPaths
<1>14. SnapInv'
  <2>1. \A h \in Gen : snapFront'[h] # None =>
           \A p \in Path : IsDisk(snapFront'[h][p]) => Stored(p, snapFront[h][p][2])'
    BY <1>0, <1>1, <1>4 DEF SnapInv, Stored
  <2> QED
    BY <1>1, <1>2, <1>3, <1>4, <1>g, <2>1 DEF SnapInv
<1>15. BatchInv'
  <2>1. CASE DropSnapshot(g)
    <3>1. gcItems # {} => gpc # "idle" /\ gcGen # g
      BY <1>1, <1>2, <1>3, <2>1 DEF BatchInv
    <3>2. \A e \in gcItems : snapFront'[gcGen][e.path] = Disk(e.old)
      BY <1>1, <1>3, <1>4, <3>1 DEF BatchInv
    <3> QED
      BY <1>0, <1>1, <1>2, <2>1, <3>2 DEF BatchInv
  <2>2. CASE GcDropped \/ InstallEnd
    BY <1>2, <2>2 DEF BatchInv
  <2> QED
    BY <1>g, <2>1, <2>2
<1>16. ReuseStep
  <2>1. CASE DropSnapshot(g)
    <3>1. snapsBar' = [snapsBar EXCEPT ![g] = @ - 1] /\ snapsBar[g] > 0
      <4>1. snapsBar[g] = 1 /\ \A h \in Gen : snapsBar'[h] = IF h = g THEN 0 ELSE snapsBar[h]
        BY <1>2, <2>1 DEF snapsBar
      <4>2. snapsBar \in [Gen -> Nat] /\ snapsBar' \in [Gen -> Nat]
        BY DEF snapsBar
      <4> QED
        BY <4>1, <4>2
    <3>2. RP!DropSnapshot(g)
      BY <1>2, <1>5, <1>6, <1>7, <1>8, <2>1, <3>1, BarFrame DEF RP!DropSnapshot
    <3> QED
      BY <1>8, <3>2 DEF ReuseStep, RP!Next
  <2>2. CASE GcDropped
    <3>1. gpcBar # "idle" /\ gpcBar' = "idle" /\ UNCHANGED snapsBar /\ g = gcGen /\ gcGen' = 0
      BY <1>2, <1>3, <1>g, <2>2, BarFrame DEF gpcBar, GcDropped, DropSnapshot
    <3>2. lostBar' = [r \in Region |-> lostBar[r] + copiesBar[r]]
      <4>1. lost \in SUBSET Unit /\ Copies \in SUBSET Unit /\ lost \cap Copies = {}
        BY <1>1, Owned, Types DEF OwnerInv
      <4> QED
        BY <1>2, <2>2, <4>1, CountUnion DEF lostBar, copiesBar
    <3>3. copiesBar' = [r \in Region |-> 0]
      <4>1. Copies' = {}
        BY <1>2, <2>2 DEF Copies
      <4> QED
        BY <4>1, CountEmpty DEF copiesBar
    <3>4. RP!GcDropped
      BY <1>2, <1>5, <1>6, <1>7, <1>8, <2>2, <3>1, <3>2, <3>3, SameAllocator DEF RP!GcDropped
    <3> QED
      BY <3>4 DEF ReuseStep, RP!Next
  <2>3. CASE InstallEnd
    <3>1. /\ gpcBar = "collected" /\ gpcBar' = "idle" /\ g = gcGen /\ gcGen' = 0 /\ wpcBar = "idle"
          /\ UNCHANGED <<snapsBar, copiesBar, lostBar>>
      BY <1>b, <1>2, <1>g, <2>3, BarFrame DEF gpcBar, wpcBar, DropSnapshot, InstallEnd, gcVars, writerVars
    <3>2. copiesBar = [r \in Region |-> 0]
      <4>1. Copies = {}
        BY <1>b, <2>3 DEF Copies
      <4> QED
        BY <4>1, CountEmpty DEF copiesBar
    <3>3. RP!GcInstalled
      BY <1>5, <1>6, <1>7, <1>8, <3>1, <3>2, SameAllocator DEF RP!GcInstalled
    <3> QED
      BY <3>3 DEF ReuseStep, RP!Next
  <2> QED
    BY <1>g, <2>1, <2>2, <2>3
<1>17. TypeOK'
  <2>1. AllocTypeOK'
    BY <1>16, ReuseKept
  <2>2. taken' \in SUBSET Gen /\ gpc' \in {"idle", "pinned", "scanned", "checked", "copying", "collected"}
        /\ gcGen' \in 0 .. MaxGen /\ gcItems' \in SUBSET Item /\ gcVict' \in SUBSET Region
    BY <1>1, <1>2, <1>g, AllocAssumption DEF TypeOK
  <2>3. lost' \in SUBSET Unit
    BY <1>1, <1>9, Owned, Types
  <2> QED
    BY <1>0, <1>1, <1>4, <2>1, <2>2, <2>3 DEF TypeOK
<1> QED
  BY <1>10, <1>11, <1>12, <1>13, <1>14, <1>15, <1>16, <1>17 DEF StoreInv

-----------------------------------------------------------------------------
(* The read-ahead cache, and crashes *)

\* prefetch_block caches a record of the frontier; prefetch_clear empties the
\* cache.
LEMMA Prefetches ==
    ASSUME Inv, (\E p \in Path : Prefetch(p)) \/ PrefetchClear
    PROVE  StoreInv' /\ ReuseStep
<1>1. /\ TypeOK /\ BelowInv /\ OwnerInv /\ FrontInv /\ EvacInv /\ BatchInv /\ SnapInv /\ CoherentInv
      /\ ManifestInv /\ SpilledInv
  BY DEF Inv, StoreInv
<1>0. /\ UNCHANGED <<disk, synced, front, snapFront, taken, meta, prev, mnew, wpc, wret, wput, evac,
                     evacVict, gpc, gcGen, gcItems, gcVict, lost, head, nextUnit>>
      /\ wpc = "idle"
  BY DEF Prefetch, PrefetchClear, DrainStaged, headVars, raVars, snapVars, durVars, writerVars, gcVars
<1>2. /\ front \in [Path -> Slot]
      /\ \A p \in Path : IsDisk(front[p]) => Stored(p, front[p][2])
      /\ \A p \in Path, u \in Unit : front[p] = Disk(u) => u \in FrontierUnits
      /\ FrontierUnits \in SUBSET Unit
  BY <1>0, <1>1, FrontierAtRest
<1>3. /\ \A p \in Path : Owns(p)' <=> Owns(p)
      /\ FrontierUnits' = FrontierUnits /\ heldBar' = heldBar
  BY <1>0, FrontierFrame
<1>4. /\ Copies' = Copies
      /\ UNCHANGED <<copiesBar, lostBar, snapsBar, seenBar, durableBar, durableEndBar,
                     pendBar, pendEndBar, wpcBar, gpcBar>>
      /\ wpcBar = "idle"
  BY <1>0, BarFrame DEF wpcBar
<1>5. OwnerInv' /\ FrontInv' /\ SnapInv'
  BY <1>0, <1>1, <1>3, <1>4 DEF OwnerInv, FrontInv, SnapInv, Stored
<1>6. EvacInv' /\ ManifestInv' /\ SpilledInv'
  BY <1>0, <1>1 DEF EvacInv, ManifestInv, SpilledInv, Stored, MemPaths
<1>7. BatchInv'
  BY <1>0, <1>1 DEF BatchInv
<1>8. /\ ReuseStep /\ CoherentInv' /\ cache' \in [Unit -> Rec \cup {None}]
      /\ \A u \in Unit : cache'[u] # None => cache[u] # None \/ u \in FrontierUnits
  <2>1. ASSUME NEW p \in Path, Prefetch(p)
        PROVE  /\ ReuseStep /\ CoherentInv' /\ cache' \in [Unit -> Rec \cup {None}]
               /\ \A u \in Unit : cache'[u] # None => cache[u] # None \/ u \in FrontierUnits
    <3>1. PICK u \in Unit : front[p] = Disk(u) /\ front[p][2] = u /\ IsDisk(front[p])
      BY <1>2, <2>1, Slots DEF Prefetch
    <3>2. u \in FrontierUnits /\ disk[u] \in Rec /\ disk[u] # None
      BY <1>2, <3>1, NoneAssumption DEF Stored, Rec
    <3>3. /\ cache' \in [Unit -> Rec \cup {None}] /\ cache'[u] = disk[u]
          /\ \A w \in Unit : w # u => cache'[w] = cache[w]
      BY <1>1, <2>1, <3>1, <3>2, Types DEF Prefetch
    <3>4. CoherentInv'
      BY <1>0, <1>1, <3>3 DEF CoherentInv
    <3>5. cachedBar' = cachedBar \cup {RegionOf(u)}
      <4>1. {w \in Unit : cache'[w] # None} = {w \in Unit : cache[w] # None} \cup {u}
        BY <3>2, <3>3
      <4> QED
        BY <4>1 DEF cachedBar
    <3>6. heldBar[RegionOf(u)] > 0 /\ RegionOf(u) \in Region
      BY <1>2, <3>2, CountType, UnitRegion DEF heldBar
    <3>7. RP!Prefetch(RegionOf(u)) /\ RegionOf(u) \in RP!Region
      <4>1. UNCHANGED RP!raVars
        BY <2>1 DEF Prefetch, raVars, RP!raVars
      <4> QED
        BY <1>0, <1>3, <1>4, <3>5, <3>6, <4>1, SameAllocator DEF RP!Prefetch
    <3> QED
      BY <3>2, <3>3, <3>4, <3>7 DEF ReuseStep, RP!Next
  <2>2. CASE PrefetchClear
    <3>1. cache' = NoCache /\ DrainStaged
      BY <2>2 DEF PrefetchClear
    <3>2. cachedBar' = {} /\ CoherentInv' /\ cache' \in [Unit -> Rec \cup {None}]
      BY <3>1 DEF cachedBar, CoherentInv, NoCache
    <3>3. RP!PrefetchClear
      BY <1>0, <1>3, <1>4, <3>1, <3>2, SameAllocator DEF RP!PrefetchClear
    <3> QED
      BY <3>1, <3>2, <3>3 DEF ReuseStep, RP!Next, NoCache
  <2> QED
    BY <2>1, <2>2
<1>9. TypeOK'
  <2>1. AllocTypeOK'
    BY <1>8, ReuseKept
  <2> QED
    BY <1>0, <1>1, <1>8, <2>1 DEF TypeOK
<1>10. BelowInv'
  <2>1. \A u \in Unit : Referenced(u)' => Referenced(u)
    BY <1>0, <1>3, <1>4, <1>8 DEF Referenced, OwnedUnits
  <2> QED
    BY <1>0, <1>1, <2>1 DEF BelowInv, Below
<1> QED
  BY <1>5, <1>6, <1>7, <1>8, <1>9, <1>10 DEF StoreInv

\* The process dies, and open() rebuilds the frontier and the allocator from
\* the manifest.
LEMMA Crashes ==
    ASSUME Inv, Crash
    PROVE  StoreInv' /\ ReuseStep
<1>1. TypeOK /\ ManifestInv /\ meta # None
  BY DEF Inv, StoreInv, Crash
<1>0. /\ synced' = Unit /\ front' = meta.front /\ cache' = NoCache
      /\ snapFront' = [g \in Gen |-> None] /\ taken' = {} /\ mnew' = None
      /\ wpc' = "idle" /\ wret' = "idle" /\ wput' = None /\ evac' = {} /\ evacVict' = {}
      /\ gpc' = "idle" /\ gcGen' = 0 /\ gcItems' = {} /\ gcVict' = {} /\ lost' = {}
      /\ UNCHANGED <<meta, prev>>
      /\ meta.end \in Region /\ head' = meta.end
  BY DEF Crash, AllocOpen
<1>2. PICK f \in [Path -> Slot] : f = meta.front
  BY <1>1, Types
<1>3. /\ f \in [Path -> DiskSlot] /\ Injective(f)
      /\ \A p \in Path : IsDisk(f[p]) => Stored(p, f[p][2]) /\ f[p][2] \in synced /\ f[p][2] \in Unit
  BY <1>1, <1>2, Types, Slots DEF ManifestInv
<1>4. disk' \in [Unit -> Rec \cup {None}] /\ \A u \in Unit : u \in synced => disk'[u] = disk[u]
  BY <1>1, Types DEF Crash
<1>5. \A p \in Path : IsDisk(f[p]) => Stored(p, f[p][2])'
  <2> SUFFICES ASSUME NEW p \in Path, IsDisk(f[p])
               PROVE  Stored(p, f[p][2])'
    OBVIOUS
  <2>1. PICK u \in Unit : u = f[p][2]
    BY <1>3
  <2>2. Stored(p, u) /\ u \in synced
    BY <1>3, <2>1
  <2> QED
    BY <1>4, <2>1, <2>2 DEF Stored
<1>6. /\ FrontierUnits' = UnitsOf(f) /\ Copies' = {} /\ UnitsOf(f) \in SUBSET Unit
      /\ \A p \in Path : Owns(p)' <=> IsDisk(f[p])
  BY <1>0, <1>2, <1>3 DEF FrontierUnits, UnitsOf, Copies, Owns
<1>7. durableBar = CountIn(UnitsOf(f)) /\ durableEndBar = meta.end
  BY <1>1, <1>2, <1>3, CountPaths DEF durableBar, durableEndBar
<1>8. ReuseStep
  <2>1. heldBar' = durableBar
    BY <1>6, <1>7 DEF heldBar
  <2>2. copiesBar' = [r \in Region |-> 0] /\ lostBar' = [r \in Region |-> 0]
    BY <1>0, <1>6, CountEmpty DEF copiesBar, lostBar
  <2>3. snapsBar' = [g \in Gen |-> 0] /\ seenBar' = [g \in Gen |-> {}] /\ cachedBar' = {}
    BY <1>0 DEF snapsBar, seenBar, cachedBar, NoCache
  <2>4. /\ pendBar' = [r \in Region |-> 0] /\ pendEndBar' = 0
        /\ wpcBar' = "idle" /\ gpcBar' = "idle" /\ UNCHANGED <<durableBar, durableEndBar>>
    BY <1>0, BarFrame DEF pendBar, pendEndBar, wpcBar, gpcBar
  <2>5. RP!AllocOpen(durableBar, durableEndBar)
    <3>1. durableBar = RecomputeLive(meta.front)
      BY <1>1 DEF durableBar
    <3> QED
      BY <1>7, <3>1 DEF Crash, AllocOpen, RP!AllocOpen, Region, RP!Region, Gen, RP!Gen
  <2>6. durableEndBar # -1
    BY <1>0, <1>7 DEF Region
  <2>7. RP!Crash
    BY <1>0, <2>1, <2>2, <2>3, <2>4, <2>5, <2>6, SameAllocator DEF RP!Crash
  <2> QED
    BY <2>7 DEF ReuseStep, RP!Next
<1>9. TypeOK'
  <2>1. AllocTypeOK'
    BY <1>8, ReuseKept
  <2>2. front' \in [Path -> Slot] /\ cache' \in [Unit -> Rec \cup {None}]
        /\ snapFront' \in [Gen -> [Path -> Slot] \cup {None}] /\ gcGen' \in 0 .. MaxGen
    BY <1>0, <1>2, AllocAssumption DEF NoCache
  <2> QED
    BY <1>0, <1>1, <1>4, <2>1, <2>2 DEF TypeOK
<1>10. BelowInv'
  <2>1. \A u \in Unit : Referenced(u)' => u \in UnitsOf(f)
    <3>1. \A p \in Path, u \in Unit : f[p] = Disk(u) => u \in UnitsOf(f)
      BY Slots DEF UnitsOf
    <3> QED
      BY <1>0, <1>2, <1>6, <3>1 DEF Referenced, OwnedUnits, NoCache
  <2>2. \A u \in UnitsOf(f) : RegionOf(u) # meta.end
    <3>1. durableBar[meta.end] = 0
      <4>1. \A r \in Region : r >= meta.end => durableBar[r] = 0
        BY <1>7, SameAllocator DEF Inv, RP!IInv, RP!CheckpointInv
      <4> QED
        BY <1>0, <4>1 DEF Region
    <3> QED
      BY <1>0, <1>6, <1>7, <3>1, CountType
  <2> QED
    BY <1>0, <1>6, <2>1, <2>2 DEF BelowInv, Below
<1>11. OwnerInv' /\ EvacInv' /\ CoherentInv' /\ SpilledInv'
  BY <1>0, <1>6 DEF OwnerInv, EvacInv, CoherentInv, SpilledInv, NoCache
<1>12. FrontInv'
  BY <1>0, <1>2, <1>3, <1>5, <1>6 DEF FrontInv, Injective, Stored
<1>13. BatchInv' /\ SnapInv'
  BY <1>0 DEF BatchInv, SnapInv
<1>14. ManifestInv'
  <2>1. \A p \in Path : IsDisk(f[p]) => f[p][2] \in synced'
    BY <1>0, <1>3
  <2> QED
    BY <1>0, <1>2, <1>3, <1>5, <2>1 DEF ManifestInv, Injective, Stored
<1> QED
  BY <1>8, <1>9, <1>10, <1>11, <1>12, <1>13, <1>14 DEF StoreInv

-----------------------------------------------------------------------------
(* The invariant *)

\* A new database is an initial state of RegionReuse.
LEMMA InitReuse == Init => RP!Init
<1> SUFFICES ASSUME Init
             PROVE  RP!Init
  OBVIOUS
<1>1. FrontierUnits = {} /\ Copies = {} /\ lost = {}
  BY Slots DEF Init, FrontierUnits, Copies, EmptyFront
<1>2. /\ heldBar = [r \in Region |-> 0] /\ copiesBar = [r \in Region |-> 0]
      /\ lostBar = [r \in Region |-> 0]
  BY <1>1, CountEmpty DEF heldBar, copiesBar, lostBar
<1>3. snapsBar = [g \in Gen |-> 0] /\ seenBar = [g \in Gen |-> {}] /\ cachedBar = {}
  BY DEF Init, snapsBar, seenBar, cachedBar, NoCache
<1>4. /\ durableBar = [r \in Region |-> 0] /\ durableEndBar = -1
      /\ pendBar = [r \in Region |-> 0] /\ pendEndBar = 0 /\ wpcBar = "idle" /\ gpcBar = "idle"
  BY DEF Init, durableBar, durableEndBar, pendBar, pendEndBar, wpcBar, gpcBar
<1>5. RP!AllocInit /\ gcGen = 0
  BY SameAllocator DEF Init
<1> QED
  BY <1>2, <1>3, <1>4, <1>5, SameAllocator DEF RP!Init

\* A new database satisfies the invariant.
LEMMA InitStore == Init => Inv
<1> SUFFICES ASSUME Init
             PROVE  Inv
  OBVIOUS
<1>1. RP!IInv
  BY InitReuse, RP!InitInv, AllocAssumption DEF RP!AllocAssumption, RP!ClonesAssumption
<1>2. AllocTypeOK
  BY <1>1, SameAllocator DEF RP!IInv, RP!TypeOK
<1>3. TypeOK
  BY <1>2, Slots, AllocAssumption DEF Init, TypeOK, EmptyFront, NoCache
<1>4. FrontierUnits = {} /\ Copies = {} /\ lost = {} /\ \A p \in Path : ~Owns(p) /\ ~IsMem(front[p])
  BY Slots DEF Init, FrontierUnits, Copies, EmptyFront, Owns
<1>5. BelowInv /\ OwnerInv
  BY <1>4 DEF Init, BelowInv, OwnerInv, Referenced, OwnedUnits, NoCache
<1>6. FrontInv /\ EvacInv /\ BatchInv /\ SnapInv /\ CoherentInv /\ ManifestInv /\ SpilledInv
  BY <1>4 DEF Init, FrontInv, EvacInv, BatchInv, SnapInv, CoherentInv, ManifestInv, SpilledInv, NoCache
<1> QED
  BY <1>1, <1>3, <1>5, <1>6 DEF Inv, StoreInv

\* Every step of the store keeps its invariant, and is a step of RegionReuse or
\* one that the allocator does not see.  One lemma per action above.
LEMMA StepStore ==
    ASSUME Inv, [Next]_vars
    PROVE  Inv' /\ ReuseStep
<1>1. StoreInv' /\ ReuseStep
  <2>1. CASE UNCHANGED vars
    <3>1. UNCHANGED <<disk, synced, front, cache, snapFront, taken, meta, prev, mnew, wpc, wret,
                      wput, evac, evacVict, gpc, gcGen, gcItems, gcVict, lost, raVars, head, nextUnit>>
      BY <2>1 DEF vars, storeVars, raVars
    <3>2. StoreInv
      BY DEF Inv
    <3>3. /\ BelowInv' /\ OwnerInv' /\ FrontInv' /\ SnapInv' /\ CoherentInv'
          /\ UNCHANGED <<heldBar, copiesBar, lostBar, snapsBar, seenBar, cachedBar, durableBar,
                         durableEndBar>>
          /\ MemPaths' = MemPaths
      BY <3>1, <3>2, ControlFrame
    <3>4. ReuseStep
      <4>1. UNCHANGED <<pendBar, pendEndBar, wpcBar, gpcBar>> /\ UNCHANGED RP!raVars
        BY <3>1, BarFrame DEF raVars, RP!raVars
      <4> QED
        BY <3>1, <3>3, <4>1 DEF ReuseStep, RP!vars, RP!clientVars
    <3>5. TypeOK'
      <4>1. AllocTypeOK'
        BY <3>4, ReuseKept
      <4> QED
        BY <3>1, <3>2, <4>1 DEF StoreInv, TypeOK
    <3>6. EvacInv' /\ BatchInv' /\ ManifestInv' /\ SpilledInv'
      BY <3>1, <3>2, <3>3 DEF StoreInv, EvacInv, BatchInv, ManifestInv, SpilledInv, Stored
    <3> QED
      BY <3>3, <3>4, <3>5, <3>6 DEF StoreInv
  <2>2. CASE Next
    BY <2>2, Begins, Writes, BatchesBegin, BatchesEnd, EvacScans, GcScans, EvacCopies, Relocates,
       VictimsPinned, WriterMovesOn, Captures, PersistGivesUp, Renames, PersistEnds, TakesSnapshot,
       DropsSnapshot, Prefetches, CollectMovesOn, GcCopies, Installs, Crashes DEF Next
  <2> QED
    BY <2>1, <2>2
<1>2. RP!IInv'
  BY <1>1, ReuseKept
<1> QED
  BY <1>1, <1>2 DEF Inv

\* The invariant holds always: for every number of regions, region size, set
\* of paths and of values and bound on the snapshots, whatever the order of the
\* writer's, the GC thread's and the readers' steps, and across crashes.
THEOREM StoreInductive == Spec => []Inv
<1>1. Inv /\ [Next]_vars => Inv'
  BY StepStore
<1> QED
  BY <1>1, InitStore, PTL DEF Spec

\* Every variable of the store keeps its type; in particular no allocation
\* lands outside the file, and a manifest has no slot in RAM.
THEOREM StoreTypeCorrect == Spec => []TypeOK
<1>1. Inv => TypeOK
  BY DEF Inv, StoreInv
<1> QED
  BY <1>1, StoreInductive, PTL

-----------------------------------------------------------------------------
(* FlatStore instantiates RegionReuse, the proofs RegionReuseProofs, which  *)
(* extends it, under the same mapping.  The two copies of its definitions   *)
(* say the same: the allocator's first, then the clients'.                  *)

\* What a method of the allocator (RegionAlloc in lib.rs) does is the same in
\* both copies.
LEMMA SameOperations ==
    /\ \A run, units : RP!Alloc(run, units) => Reuse!Alloc(run, units)
    /\ \A r, units : RP!Free(r, units) => Reuse!Free(r, units)
    /\ \A g : (RP!Unpin(g) => Reuse!Unpin(g)) /\ (RP!PinAt(g) => Reuse!PinAt(g))
    /\ RP!Pin => Reuse!Pin
    /\ RP!OnPersisted => Reuse!OnPersisted
    /\ RP!DrainStaged => Reuse!DrainStaged
    /\ \A victims : RP!PinStillLive(victims) => Reuse!PinStillLive(victims)
    /\ \A l, end : RP!AllocOpen(l, end) => Reuse!AllocOpen(l, end)
    /\ RP!AllocInit => Reuse!AllocInit
    /\ RP!Region = Reuse!Region /\ RP!Gen = Reuse!Gen /\ RP!NoUnits = Reuse!NoUnits
    /\ RP!NoManifest = Reuse!NoManifest /\ RP!Units = Reuse!Units
    /\ RP!raVars = Reuse!raVars /\ RP!clientVars = Reuse!clientVars
    /\ RP!HeldRegions = Reuse!HeldRegions
    /\ \A g : RP!Readers(g) = Reuse!Readers(g) /\ RP!SeenAfterDrop(g) = Reuse!SeenAfterDrop(g)
<1>1. /\ RP!Region = Reuse!Region /\ RP!Gen = Reuse!Gen /\ RP!NoUnits = Reuse!NoUnits
      /\ RP!NoManifest = Reuse!NoManifest /\ RP!Units = Reuse!Units
      /\ RP!raVars = Reuse!raVars /\ RP!clientVars = Reuse!clientVars
  BY DEF RP!Region, Reuse!Region, RP!Gen, Reuse!Gen, RP!NoUnits, Reuse!NoUnits, RP!NoManifest,
         Reuse!NoManifest, RP!Units, Reuse!Units, RP!raVars, Reuse!raVars, RP!clientVars,
         Reuse!clientVars
<1>2. \A run, units : RP!Alloc(run, units) => Reuse!Alloc(run, units)
  BY DEF RP!Alloc, Reuse!Alloc, RP!AllocInHead, Reuse!AllocInHead, RP!AllocNewHead,
         Reuse!AllocNewHead, RP!Fits, Reuse!Fits, RP!MaxOf, Reuse!MaxOf, RP!NewHeadChoices,
         Reuse!NewHeadChoices, RP!NoRegion, Reuse!NoRegion, RP!Region, Reuse!Region,
         RP!listVars, Reuse!listVars, RP!pinVars, Reuse!pinVars
<1>3. \A r, units : RP!Free(r, units) => Reuse!Free(r, units)
  BY DEF RP!Free, Reuse!Free, RP!Dies, Reuse!Dies, RP!SaturatingSub, Reuse!SaturatingSub,
         RP!AnyPinLive, Reuse!AnyPinLive, RP!Gen, Reuse!Gen, RP!headVars, Reuse!headVars,
         RP!pinVars, Reuse!pinVars
<1>4. \A g : (RP!Unpin(g) => Reuse!Unpin(g)) /\ (RP!PinAt(g) => Reuse!PinAt(g))
  BY DEF RP!Unpin, Reuse!Unpin, RP!PinAt, Reuse!PinAt, RP!ReleaseSnapHold,
         Reuse!ReleaseSnapHold, RP!Released, Reuse!Released, RP!Gen, Reuse!Gen, RP!Region,
         Reuse!Region, RP!headVars, Reuse!headVars, RP!listVars, Reuse!listVars
<1>5. /\ RP!Pin => Reuse!Pin
      /\ RP!OnPersisted => Reuse!OnPersisted
      /\ RP!DrainStaged => Reuse!DrainStaged
  BY DEF RP!Pin, Reuse!Pin, RP!OnPersisted, Reuse!OnPersisted, RP!DrainStaged,
         Reuse!DrainStaged, RP!AnyPinLive, Reuse!AnyPinLive, RP!Gen, Reuse!Gen, RP!Region,
         Reuse!Region, RP!headVars, Reuse!headVars, RP!listVars, Reuse!listVars, RP!pinVars,
         Reuse!pinVars
<1>6. \A victims : RP!PinStillLive(victims) => Reuse!PinStillLive(victims)
  BY DEF RP!PinStillLive, Reuse!PinStillLive, RP!Region, Reuse!Region, RP!listVars,
         Reuse!listVars, RP!pinVars, Reuse!pinVars
<1>7. /\ \A l, end : RP!AllocOpen(l, end) => Reuse!AllocOpen(l, end)
      /\ RP!AllocInit => Reuse!AllocInit
  BY DEF RP!AllocOpen, Reuse!AllocOpen, RP!AllocInit, Reuse!AllocInit, RP!Region, Reuse!Region,
         RP!Gen, Reuse!Gen, RP!NoRegion, Reuse!NoRegion
<1>8. /\ RP!HeldRegions = Reuse!HeldRegions
      /\ \A g : RP!Readers(g) = Reuse!Readers(g) /\ RP!SeenAfterDrop(g) = Reuse!SeenAfterDrop(g)
  BY DEF RP!HeldRegions, Reuse!HeldRegions, RP!Region, Reuse!Region, RP!Readers, Reuse!Readers,
         RP!GcPins, Reuse!GcPins, RP!SeenAfterDrop, Reuse!SeenAfterDrop
<1> QED
  BY <1>1, <1>2, <1>3, <1>4, <1>5, <1>6, <1>7, <1>8

\* And so is a step of the allocator's clients: the writer, the snapshots, the
\* read-ahead cache, the GC thread and a crash.
LEMMA SameReuse ==
    /\ RP!Init => Reuse!Init
    /\ [RP!Next]_RP!vars => [Reuse!Next]_Reuse!vars
<1>1. RP!Init => Reuse!Init
  BY SameOperations DEF RP!Init, Reuse!Init, RP!Gen, Reuse!Gen
<1>2. UNCHANGED RP!vars => UNCHANGED Reuse!vars
  BY DEF RP!vars, Reuse!vars, RP!raVars, Reuse!raVars, RP!clientVars, Reuse!clientVars
<1>3. \A run, units \in RP!Units : /\ RP!WriteRecord(run, units) => Reuse!WriteRecord(run, units)
                                   /\ RP!GcCopy(run, units) => Reuse!GcCopy(run, units)
  BY SameOperations DEF RP!WriteRecord, Reuse!WriteRecord, RP!GcCopy, Reuse!GcCopy
<1>4. \A r, q, units : /\ RP!FreeRecord(r, units) => Reuse!FreeRecord(r, units)
                       /\ RP!InstallCopy(r, q, units) => Reuse!InstallCopy(r, q, units)
                       /\ RP!DiscardCopy(q, units) => Reuse!DiscardCopy(q, units)
  BY SameOperations DEF RP!FreeRecord, Reuse!FreeRecord, RP!InstallCopy, Reuse!InstallCopy,
     RP!DiscardCopy, Reuse!DiscardCopy
<1>5. /\ RP!WriteBatch => Reuse!WriteBatch
      /\ RP!WriteBatchDone => Reuse!WriteBatchDone
      /\ \A victims : RP!PinVictims(victims) => Reuse!PinVictims(victims)
  BY SameOperations DEF RP!WriteBatch, Reuse!WriteBatch, RP!WriteBatchDone,
     Reuse!WriteBatchDone, RP!PinVictims, Reuse!PinVictims, RP!raVars, Reuse!raVars,
     RP!clientVars, Reuse!clientVars
<1>6. /\ RP!PersistCapture => Reuse!PersistCapture
      /\ RP!PersistRename => Reuse!PersistRename
      /\ RP!PersistFails => Reuse!PersistFails
      /\ RP!PersistDone => Reuse!PersistDone
  BY SameOperations DEF RP!PersistCapture, Reuse!PersistCapture, RP!PersistRename,
     Reuse!PersistRename, RP!PersistFails, Reuse!PersistFails, RP!PersistDone,
     Reuse!PersistDone, RP!raVars, Reuse!raVars
<1>7. /\ RP!TakeSnapshot => Reuse!TakeSnapshot
      /\ \A g : /\ RP!CloneSnapshot(g) => Reuse!CloneSnapshot(g)
                /\ RP!DropSnapshot(g) => Reuse!DropSnapshot(g)
      /\ \A r : RP!Prefetch(r) => Reuse!Prefetch(r)
      /\ RP!PrefetchClear => Reuse!PrefetchClear
  BY SameOperations DEF RP!TakeSnapshot, Reuse!TakeSnapshot, RP!CloneSnapshot,
     Reuse!CloneSnapshot, RP!DropSnapshot, Reuse!DropSnapshot, RP!Prefetch, Reuse!Prefetch,
     RP!PrefetchClear, Reuse!PrefetchClear, RP!raVars, Reuse!raVars
<1>8. /\ RP!GcPin => Reuse!GcPin
      /\ RP!GcCheckCache => Reuse!GcCheckCache
      /\ RP!GcDrain => Reuse!GcDrain
      /\ RP!GcCollected => Reuse!GcCollected
      /\ RP!GcInstalled => Reuse!GcInstalled
      /\ RP!GcDropped => Reuse!GcDropped
  BY SameOperations DEF RP!GcPin, Reuse!GcPin, RP!GcCheckCache, Reuse!GcCheckCache, RP!GcDrain,
     Reuse!GcDrain, RP!GcCollected, Reuse!GcCollected, RP!GcInstalled, Reuse!GcInstalled,
     RP!GcDropped, Reuse!GcDropped, RP!raVars, Reuse!raVars
<1>9. RP!Crash => Reuse!Crash
  BY SameOperations DEF RP!Crash, Reuse!Crash
<1>10. RP!Next => Reuse!Next
  BY <1>3, <1>4, <1>5, <1>6, <1>7, <1>8, <1>9, SameOperations DEF RP!Next, Reuse!Next
<1> QED
  BY <1>1, <1>2, <1>10

\* The store, record by record, does to the allocator only what RegionReuse
\* lets its clients do: what RegionReuseProofs proves of the regions holds of
\* the regions of the store.
THEOREM ReuseRefines == Spec => ImplementsReuse
<1>1. Init => Reuse!Init
  BY InitReuse, SameReuse
<1>2. Inv /\ [Next]_vars => [Reuse!Next]_Reuse!vars
  BY StepStore, SameReuse DEF ReuseStep
<1> QED
  BY <1>1, <1>2, StoreInductive, PTL DEF Spec, ImplementsReuse, Reuse!Spec

-----------------------------------------------------------------------------
(* What reads return *)

\* What the slot s says, read without the cache and the checks of a decode.
Content(s) == IF s = None THEN None ELSE IF IsMem(s) THEN s[2] ELSE disk[s[2]][2]

InHand(p) == wpc = "apply" /\ wput[1] = p

\* Reads by the frontier, by the snapshots and by open() see the contents.
ReadsContent ==
    /\ dbBar = [p \in Path |-> IF InHand(p) THEN wput[2] ELSE Content(front[p])]
    /\ snapBar = [g \in Gen |-> IF snapFront[g] = None THEN None
                                ELSE [p \in Path |-> Content(snapFront[g][p])]]
    /\ ckptBar = IF meta = None THEN None ELSE [p \in Path |-> Content(meta.front[p])]
    /\ \A g \in Gen : snapFront[g] # None => snapBar[g] # None
    /\ meta # None => ckptBar # None

\* In a state that satisfies the invariant, read_record finds at every pointer
\* the record of its own path, in the cache or on disk.
LEMMA Reads == StoreInv => ReadsContent
<1> SUFFICES ASSUME StoreInv
             PROVE  ReadsContent
  OBVIOUS
<1>1. TypeOK /\ FrontInv /\ SnapInv /\ CoherentInv /\ ManifestInv
  BY DEF StoreInv
<1>2. ASSUME NEW p \in Path, NEW s \in Slot, IsDisk(s) => Stored(p, s[2])
      PROVE  Value(p, s) = Content(s) /\ Content(s) \in Val \cup {None}
  <2>1. CASE s = None
    BY <2>1 DEF Value, Content
  <2>2. CASE s # None /\ IsMem(s)
    BY <2>2, Slots DEF Value, Content
  <2>3. CASE s # None /\ ~IsMem(s)
    <3>1. IsDisk(s) /\ s[2] \in Unit /\ s = Disk(s[2])
      BY <2>3, Slots
    <3>2. Value(p, Disk(s[2])) = disk[s[2]][2] /\ disk[s[2]][2] \in Val
      BY <1>1, <1>2, <3>1, ReadsStored
    <3> QED
      BY <2>3, <3>1, <3>2 DEF Content
  <2> QED
    BY <2>1, <2>2, <2>3
<1>3. ASSUME NEW p \in Path
      PROVE  CurrentValue(p) = IF InHand(p) THEN wput[2] ELSE Content(front[p])
  <2>1. front[p] \in Slot
    BY <1>1, Types
  <2>2. ~InHand(p) /\ IsDisk(front[p]) => Stored(p, front[p][2])
    BY <1>1 DEF InHand, Owns, FrontInv
  <2> QED
    BY <1>2, <2>1, <2>2 DEF CurrentValue, InHand
<1>4. ASSUME NEW g \in Gen, snapFront[g] # None
      PROVE  /\ \A p \in Path : Value(p, snapFront[g][p]) = Content(snapFront[g][p])
             /\ [p \in Path |-> Content(snapFront[g][p])] # None
             /\ [p \in Path |-> Value(p, snapFront[g][p])] = [p \in Path |-> Content(snapFront[g][p])]
  <2>1. snapFront[g] \in [Path -> Slot]
    BY <1>1, <1>4, Types
  <2>2. \A p \in Path : IsDisk(snapFront[g][p]) => Stored(p, snapFront[g][p][2])
    BY <1>1, <1>4 DEF SnapInv
  <2>3. \A p \in Path : /\ Value(p, snapFront[g][p]) = Content(snapFront[g][p])
                        /\ Content(snapFront[g][p]) \in Val \cup {None}
    BY <1>2, <2>1, <2>2
  <2>4. [p \in Path |-> Content(snapFront[g][p])] \in [Path -> Val \cup {None}]
    BY <2>3
  <2> QED
    BY <2>3, <2>4, NoneAssumption
<1>5. ASSUME meta # None
      PROVE  /\ [p \in Path |-> Content(meta.front[p])] # None
             /\ [p \in Path |-> DurableValue(p, meta.front[p])] = [p \in Path |-> Content(meta.front[p])]
  <2>1. meta.front \in [Path -> Slot] /\ meta.front \in [Path -> DiskSlot]
    BY <1>1, <1>5, Types
  <2>2. \A p \in Path : IsDisk(meta.front[p]) =>
           Stored(p, meta.front[p][2]) /\ meta.front[p][2] \in synced
    BY <1>1, <1>5 DEF ManifestInv
  <2>3. \A p \in Path : Content(meta.front[p]) \in Val \cup {None}
    BY <1>2, <2>1, <2>2
  <2>4. ASSUME NEW p \in Path
        PROVE  DurableValue(p, meta.front[p]) = Content(meta.front[p])
    <3>1. CASE meta.front[p] = None
      BY <3>1 DEF DurableValue, Content
    <3>2. CASE meta.front[p] # None
      <4>1. IsDisk(meta.front[p]) /\ ~IsMem(meta.front[p])
        BY <2>1, <3>2, Slots
      <4>2. disk[meta.front[p][2]] # None /\ disk[meta.front[p][2]][1] = p
        BY <2>2, <4>1, NoneAssumption DEF Stored, Rec
      <4> QED
        BY <2>2, <3>2, <4>1, <4>2 DEF DurableValue, Content, Decode
    <3> QED
      BY <3>1, <3>2
  <2>5. [p \in Path |-> Content(meta.front[p])] \in [Path -> Val \cup {None}]
    BY <2>3
  <2> QED
    BY <2>4, <2>5, NoneAssumption
<1>6. dbBar = [p \in Path |-> IF InHand(p) THEN wput[2] ELSE Content(front[p])]
  BY <1>3 DEF dbBar
<1>7. snapBar = [g \in Gen |-> IF snapFront[g] = None THEN None
                               ELSE [p \in Path |-> Content(snapFront[g][p])]]
  BY <1>4 DEF snapBar
<1>8. ckptBar = IF meta = None THEN None ELSE [p \in Path |-> Content(meta.front[p])]
  BY <1>5 DEF ckptBar
<1>9. \A g \in Gen : snapFront[g] # None => snapBar[g] # None
  BY <1>4, <1>7
<1>10. meta # None => ckptBar # None
  BY <1>5, <1>8
<1> QED
  BY <1>6, <1>7, <1>8, <1>9, <1>10 DEF ReadsContent

\* The same of the state a step ends in.
LEMMA ReadsNext == StoreInv' => ReadsContent'
BY Reads, PTL

-----------------------------------------------------------------------------
(* SnapshotStore: steps that its callers see, and steps that they do not *)

StoreStep == [Store!Next]_<<dbBar, wput, snapBar, ckptBar>>

\* No record that anybody references changes on disk.
DiskKept == \A u \in Unit : Referenced(u) => disk'[u] = disk[u]

\* write_payload writes at an address nobody references.
LEMMA WritesFresh ==
    ASSUME Inv, UNCHANGED disk \/ \E rec \in Rec : WritePayload(rec)
    PROVE  DiskKept
<1>1. ASSUME NEW rec \in Rec, WritePayload(rec), NEW u \in Unit, Referenced(u)
      PROVE  disk'[u] = disk[u]
  <2>1. PICK n : n = NewUnit
    OBVIOUS
  <2>2. n \in Unit /\ u # n
    BY <1>1, <2>1, FreshUnit DEF WritePayload
  <2>3. disk \in [Unit -> Rec \cup {None}] /\ disk' = [disk EXCEPT ![n] = rec]
    BY <1>1, <2>1, Types DEF WritePayload, Inv, StoreInv
  <2> QED
    BY <2>2, <2>3
<1> QED
  BY <1>1 DEF DiskKept

\* So the contents of the slots of the frontier, of the snapshots and of the
\* manifest stay what they were.
LEMMA ContentKept ==
    ASSUME Inv, DiskKept
    PROVE  /\ \A p \in Path, s \in Slot : s = front[p] /\ ~InHand(p) => Content(s)' = Content(s)
           /\ \A g \in Gen, p \in Path, s \in Slot :
                 snapFront[g] # None /\ s = snapFront[g][p] => Content(s)' = Content(s)
           /\ \A p \in Path, s \in Slot : meta # None /\ s = meta.front[p] => Content(s)' = Content(s)
<1>1. TypeOK
  BY DEF Inv, StoreInv
<1>2. ASSUME NEW s \in Slot, \A u \in Unit : s = Disk(u) => Referenced(u)
      PROVE  Content(s)' = Content(s)
  <2>1. CASE ~IsDisk(s)
    BY <2>1, Slots DEF Content
  <2>2. CASE IsDisk(s)
    <3>1. s[2] \in Unit /\ s = Disk(s[2])
      BY <2>2, Slots
    <3>2. disk'[s[2]] = disk[s[2]]
      BY <1>2, <3>1 DEF DiskKept
    <3> QED
      BY <3>2 DEF Content
  <2> QED
    BY <2>1, <2>2
<1>3. \A p \in Path, u \in Unit : front[p] = Disk(u) /\ ~InHand(p) => Referenced(u)
  <2> SUFFICES ASSUME NEW p \in Path, NEW u \in Unit, front[p] = Disk(u), ~InHand(p)
               PROVE  Referenced(u)
    OBVIOUS
  <2>1. Owns(p)
    BY Slots DEF Owns, InHand
  <2> QED
    BY <1>1, <2>1, Owned DEF Referenced, OwnedUnits
<1> QED
  BY <1>2, <1>3 DEF Referenced

\* Snapshots and the checkpoint that stay are read as before.
LEMMA FrozenKept ==
    ASSUME Inv, StoreInv', DiskKept
    PROVE  /\ UNCHANGED snapFront => snapBar' = snapBar
           /\ UNCHANGED meta => ckptBar' = ckptBar
<1>1. ReadsContent /\ ReadsContent' /\ TypeOK
  BY Reads, ReadsNext DEF Inv, StoreInv
<1>2. ASSUME UNCHANGED snapFront
      PROVE  snapBar' = snapBar
  <2>1. \A g \in Gen, p \in Path : snapFront[g] # None => Content(snapFront[g][p])' = Content(snapFront[g][p])
    <3> SUFFICES ASSUME NEW g \in Gen, NEW p \in Path, snapFront[g] # None
                 PROVE  Content(snapFront[g][p])' = Content(snapFront[g][p])
      OBVIOUS
    <3>1. PICK s \in Slot : s = snapFront[g][p]
      BY <1>1, Types
    <3>2. Content(s)' = Content(s)
      BY <3>1, ContentKept
    <3> QED
      BY <1>2, <3>1, <3>2 DEF Content
  <2>2. \A g \in Gen : snapFront[g] # None =>
           [p \in Path |-> Content(snapFront[g][p])]' = [p \in Path |-> Content(snapFront[g][p])]
    BY <2>1
  <2> QED
    BY <1>1, <1>2, <2>2 DEF ReadsContent
<1>3. ASSUME UNCHANGED meta
      PROVE  ckptBar' = ckptBar
  <2>1. \A p \in Path : meta # None => Content(meta.front[p])' = Content(meta.front[p])
    <3> SUFFICES ASSUME NEW p \in Path, meta # None
                 PROVE  Content(meta.front[p])' = Content(meta.front[p])
      OBVIOUS
    <3>1. PICK s \in Slot : s = meta.front[p]
      BY <1>1, Types
    <3>2. Content(s)' = Content(s)
      BY <3>1, ContentKept
    <3> QED
      BY <1>3, <3>1, <3>2 DEF Content
  <2> QED
    BY <1>1, <1>3, <2>1 DEF ReadsContent
<1> QED
  BY <1>2, <1>3

\* Slots that stay, and are not in the writer's hand, are read as before.
LEMMA SlotsKept ==
    ASSUME Inv, StoreInv', DiskKept, NEW P \in SUBSET Path,
           \A q \in P : front'[q] = front[q] /\ ~InHand(q) /\ ~InHand(q)'
    PROVE  \A q \in P : dbBar'[q] = dbBar[q]
<1> SUFFICES ASSUME NEW q \in P
             PROVE  dbBar'[q] = dbBar[q]
  OBVIOUS
<1>1. ReadsContent /\ ReadsContent' /\ TypeOK
  BY Reads, ReadsNext DEF Inv, StoreInv
<1>2. PICK s \in Slot : s = front[q]
  BY <1>1, Types
<1>3. Content(s)' = Content(s)
  BY <1>2, ContentKept
<1>4. dbBar[q] = Content(s) /\ dbBar'[q] = Content(s)'
  BY <1>1, <1>2 DEF ReadsContent, Content
<1> QED
  BY <1>3, <1>4

\* The steps the caller does not see.
LEMMA QuietStep ==
    ASSUME Inv, StoreInv', UNCHANGED <<front, wput, snapFront, meta>>,
           UNCHANGED wpc \/ (wpc # "apply" /\ wpc' # "apply"),
           UNCHANGED disk \/ \E rec \in Rec : WritePayload(rec)
    PROVE  UNCHANGED <<dbBar, wput, snapBar, ckptBar>>
<1>1. DiskKept
  BY WritesFresh
<1>2. snapBar' = snapBar /\ ckptBar' = ckptBar
  BY <1>1, FrozenKept
<1>3. ReadsContent /\ ReadsContent'
  BY Reads, ReadsNext DEF Inv
<1>4. \A q \in Path : InHand(q)' <=> InHand(q)
  BY DEF InHand
<1>5. \A q \in {q \in Path : ~InHand(q)} : dbBar'[q] = dbBar[q]
  BY <1>1, <1>4, SlotsKept
<1>6. \A q \in Path : InHand(q) => dbBar'[q] = dbBar[q]
  BY <1>3, <1>4 DEF ReadsContent
<1>7. \A q \in Path : dbBar'[q] = dbBar[q]
  BY <1>5, <1>6
<1>8. dbBar' = dbBar
  BY <1>7 DEF dbBar
<1> QED
  BY <1>2, <1>8

\* A slot is redirected to a record, or a leaf, of the same contents.
LEMMA MoveStep ==
    ASSUME Inv, StoreInv', UNCHANGED <<snapFront, meta>>, DiskKept, NEW p \in Path,
           \A q \in Path : q # p => front'[q] = front[q],
           \A q \in Path : q # p => ~InHand(q) /\ ~InHand(q)',
           ~InHand(p)',
           Content(front[p])' = dbBar[p]
    PROVE  UNCHANGED <<dbBar, snapBar, ckptBar>>
<1>1. snapBar' = snapBar /\ ckptBar' = ckptBar
  BY FrozenKept
<1>2. ReadsContent'
  BY ReadsNext
<1>3. \A q \in Path \ {p} : dbBar'[q] = dbBar[q]
  BY SlotsKept
<1>4. dbBar'[p] = dbBar[p]
  BY <1>2 DEF ReadsContent
<1>5. dbBar' = dbBar
  BY <1>3, <1>4 DEF dbBar
<1> QED
  BY <1>1, <1>5

\* The writer takes a value in hand: a Put.
LEMMA PutStep ==
    ASSUME Inv, StoreInv', NEW p \in Path, NEW v \in Val \cup {None}, ApplyFree(p, v) \/ ApplyRam(p, v)
    PROVE  Store!Put(p, v)
<1>1. /\ UNCHANGED <<disk, front, snapFront, meta>> /\ wpc = "idle" /\ wpc' = "apply"
      /\ wput' = <<p, v>> /\ wput'[1] = p /\ wput'[2] = v
  BY DEF ApplyFree, ApplyRam, snapVars, durVars
<1>2. wput = None /\ DiskKept
  BY <1>1, WritesFresh DEF Inv, StoreInv, FrontInv
<1>3. snapBar' = snapBar /\ ckptBar' = ckptBar
  BY <1>1, <1>2, FrozenKept
<1>4. ReadsContent'
  BY ReadsNext
<1>5. \A q \in Path : ~InHand(q) /\ (InHand(q)' <=> q = p)
  BY <1>1 DEF InHand
<1>6. \A q \in Path \ {p} : dbBar'[q] = dbBar[q]
  BY <1>1, <1>2, <1>5, SlotsKept
<1>7. dbBar'[p] = v
  BY <1>1, <1>4, <1>5 DEF ReadsContent
<1>8. dbBar' = [dbBar EXCEPT ![p] = v]
  <2>1. dbBar = [q \in Path |-> dbBar[q]] /\ dbBar' = [q \in Path |-> dbBar'[q]]
    BY DEF dbBar
  <2> QED
    BY <1>6, <1>7, <2>1
<1> QED
  BY <1>1, <1>2, <1>3, <1>8 DEF Store!Put

\* finish_child leaves in the slot what the writer had in hand: the PutDone.
LEMMA PutDoneStep ==
    ASSUME Inv, StoreInv', ApplyDone
    PROVE  Store!PutDone
<1>1. TypeOK /\ FrontInv /\ front \in [Path -> Slot]
  BY Types DEF Inv, StoreInv
<1>2. /\ wpc = "apply" /\ wput # None /\ wput' = None /\ wpc' = "idle"
      /\ wput[1] \in Path /\ wput[2] \in Val \cup {None} /\ wput = <<wput[1], wput[2]>>
      /\ UNCHANGED <<snapFront, meta>>
  BY <1>1, Types DEF ApplyDone, FrontInv, snapVars, durVars
<1>3. PICK p \in Path, v \in Val \cup {None} : wput = <<p, v>> /\ wput[1] = p /\ wput[2] = v
  BY <1>2
<1>4. \A q \in Path : (InHand(q) <=> q = p) /\ ~InHand(q)'
  BY <1>2, <1>3 DEF InHand
<1>5. dbBar[p] = v
  BY <1>3, <1>4, Reads DEF ReadsContent, Inv
<1>6. /\ DiskKept /\ \A q \in Path : q # p => front'[q] = front[q]
      /\ Content(front[p])' = v
  <2>1. CASE v = None /\ front' = [front EXCEPT ![p] = None] /\ UNCHANGED disk
    BY <1>1, <2>1, WritesFresh DEF Content
  <2>2. CASE v # None /\ front' = [front EXCEPT ![p] = Mem(v)] /\ UNCHANGED disk
    <3>1. v \in Val
      BY <2>2
    <3>2. front'[p] = Mem(v)
      BY <1>1, <2>2
    <3>3. Content(front[p])' = v
      BY <3>1, <3>2, Slots DEF Content
    <3> QED
      BY <1>1, <2>2, <3>3, WritesFresh
  <2>3. CASE v # None /\ WritePayload(wput) /\ front' = [front EXCEPT ![p] = Disk(NewUnit)]
    <3>1. PICK n : n = NewUnit
      OBVIOUS
    <3>2. wput \in Rec /\ n \in Unit
      BY <1>3, <2>3, <3>1, FreshUnit DEF WritePayload, Rec
    <3>3. front'[p] = Disk(n) /\ disk'[n] = wput /\ \A q \in Path : q # p => front'[q] = front[q]
      BY <1>1, <2>3, <3>1, <3>2, Types DEF WritePayload
    <3>4. Content(front[p])' = v
      BY <1>3, <3>2, <3>3, Slots DEF Content
    <3> QED
      BY <2>3, <3>2, <3>3, <3>4, WritesFresh
  <2> QED
    BY <1>3, <2>1, <2>2, <2>3 DEF ApplyDone
<1>7. UNCHANGED <<dbBar, snapBar, ckptBar>>
  BY <1>2, <1>4, <1>5, <1>6, MoveStep
<1> QED
  BY <1>2, <1>7 DEF Store!PutDone

\* Spills, gc_step and gc_install redirect a slot; the caller does not see it.
LEMMA RedirectStep ==
    ASSUME Inv, StoreInv',
           \/ \E p \in Path : SpillWrite(p)
           \/ \E e \in evac : EvacFree(e)
           \/ \E e \in gcItems : InstallItem(e)
    PROVE  UNCHANGED <<dbBar, wput, snapBar, ckptBar>>
<1>1. TypeOK /\ EvacInv /\ BatchInv /\ front \in [Path -> Slot] /\ ReadsContent
  BY Types, Reads DEF Inv, StoreInv
<1>2. /\ UNCHANGED <<wpc, wput, snapFront, meta>> /\ wpc \in {"spill", "free", "install"}
  BY DEF SpillWrite, EvacFree, InstallItem, writerVars, snapVars, durVars
<1>3. \A q \in Path : ~InHand(q) /\ ~InHand(q)'
  BY <1>2 DEF InHand
<1>4. \E p \in Path : /\ DiskKept /\ \A q \in Path : q # p => front'[q] = front[q]
                      /\ Content(front[p])' = Content(front[p])
  <2>1. ASSUME NEW p \in Path, SpillWrite(p)
        PROVE  /\ DiskKept /\ \A q \in Path : q # p => front'[q] = front[q]
               /\ Content(front[p])' = Content(front[p])
    <3>1. PICK n : n = NewUnit
      OBVIOUS
    <3>2. PICK v \in Val : front[p] = Mem(v) /\ front[p][2] = v
      BY <1>1, <2>1, Slots DEF SpillWrite, MemPaths
    <3>3. <<p, v>> \in Rec /\ WritePayload(<<p, v>>) /\ n \in Unit
      BY <2>1, <3>1, <3>2, FreshUnit DEF SpillWrite, WritePayload, Rec
    <3>4. front'[p] = Disk(n) /\ disk'[n] = <<p, v>> /\ \A q \in Path : q # p => front'[q] = front[q]
      BY <1>1, <2>1, <3>1, <3>3, Types DEF SpillWrite, WritePayload
    <3>5. Content(front[p])' = v /\ Content(front[p]) = v
      BY <3>2, <3>3, <3>4, Slots DEF Content
    <3> QED
      BY <3>3, <3>4, <3>5, WritesFresh
  <2>2. ASSUME NEW e \in evac \cup gcItems, e.new # None, front[e.path] = Disk(e.old),
               disk[e.new] = disk[e.old], UNCHANGED disk,
               front' = [front EXCEPT ![e.path] = Disk(e.new)]
        PROVE  /\ e.path \in Path
               /\ DiskKept /\ \A q \in Path : q # e.path => front'[q] = front[q]
               /\ Content(front[e.path])' = Content(front[e.path])
    <3>1. e.path \in Path /\ e.old \in Unit /\ e.new \in Unit
      BY <1>1, <2>2, Types
    <3>2. front'[e.path] = Disk(e.new) /\ \A q \in Path : q # e.path => front'[q] = front[q]
      BY <1>1, <2>2, <3>1
    <3>3. Content(front[e.path])' = Content(front[e.path])
      BY <2>2, <3>1, <3>2, Slots DEF Content
    <3> QED
      BY <2>2, <3>1, <3>2, <3>3, WritesFresh
  <2>3. ASSUME NEW e \in evac, EvacFree(e)
        PROVE  /\ e.new # None /\ front[e.path] = Disk(e.old) /\ disk[e.new] = disk[e.old]
               /\ UNCHANGED disk /\ front' = [front EXCEPT ![e.path] = Disk(e.new)]
    BY <1>1, <2>3 DEF EvacFree, EvacInv
  <2>4. ASSUME NEW e \in gcItems, InstallItem(e)
        PROVE  /\ e.new # None /\ front[e.path] = Disk(e.old) /\ disk[e.new] = disk[e.old]
               /\ UNCHANGED disk /\ front' = [front EXCEPT ![e.path] = Disk(e.new)]
    BY <1>1, <2>4 DEF InstallItem, BatchInv
  <2> QED
    BY <2>1, <2>2, <2>3, <2>4
<1>5. PICK p \in Path : /\ DiskKept /\ \A q \in Path : q # p => front'[q] = front[q]
                        /\ Content(front[p])' = Content(front[p])
  BY <1>4
<1>6. Content(front[p])' = dbBar[p]
  BY <1>1, <1>3, <1>5 DEF ReadsContent
<1>7. UNCHANGED <<dbBar, snapBar, ckptBar>>
  BY <1>2, <1>3, <1>5, <1>6, MoveStep
<1> QED
  BY <1>2, <1>7

\* A snapshot freezes the contents, and goes.
LEMMA SnapshotStep ==
    ASSUME Inv, StoreInv', TakeSnapshot \/ GcPin
    PROVE  \E g \in Gen : Store!Snapshot(g)
<1>g. PICK g : g = pinGen + 1
  OBVIOUS
<1>1. /\ UNCHANGED <<front, disk, wpc, wput, meta>> /\ wpc = "idle" /\ pinGen < MaxGen
      /\ snapFront' = [snapFront EXCEPT ![g] = front]
  BY <1>g DEF TakeSnapshot, GcPin, Pin, writerVars, durVars
<1>2. g \in Gen /\ snapFront[g] = None
  <2>1. pinGen \in 0 .. MaxGen /\ \A h \in Gen : snapFront[h] # None => h <= pinGen
    BY ReuseFacts DEF AllocTypeOK
  <2>2. g \in Gen /\ ~(g <= pinGen)
    BY <1>1, <1>g, <2>1, AllocAssumption DEF Gen
  <2> QED
    BY <2>1, <2>2
<1>3. TypeOK /\ FrontInv /\ EvacInv /\ ReadsContent /\ ReadsContent' /\ DiskKept
  BY <1>1, Reads, ReadsNext, WritesFresh DEF Inv, StoreInv
<1>4. ckptBar' = ckptBar
  BY <1>1, <1>3, FrozenKept
<1>5. \A q \in Path : ~InHand(q) /\ ~InHand(q)'
  BY <1>1 DEF InHand
<1>6. dbBar' = dbBar
  <2>1. \A q \in Path : dbBar'[q] = dbBar[q]
    BY <1>1, <1>3, <1>5, SlotsKept
  <2> QED
    BY <2>1 DEF dbBar
<1>7. snapBar' = [snapBar EXCEPT ![g] = dbBar]
  <2>1. /\ snapFront'[g] = front /\ front # None
        /\ \A h \in Gen : h # g => snapFront'[h] = snapFront[h]
    BY <1>1, <1>2, <1>3, FrontierAtRest DEF TypeOK
  <2>2. snapBar'[g] = dbBar
    <3>1. snapBar'[g] = [p \in Path |-> Content(snapFront[g][p])']
      BY <1>2, <1>3, <2>1 DEF ReadsContent
    <3>2. dbBar = [p \in Path |-> Content(front[p])]
      BY <1>3, <1>5 DEF ReadsContent
    <3>3. \A p \in Path : Content(snapFront[g][p])' = Content(front[p])
      BY <1>1, <2>1 DEF Content
    <3> QED
      BY <3>1, <3>2, <3>3
  <2>3. \A h \in Gen : h # g => snapBar'[h] = snapBar[h]
    <3> SUFFICES ASSUME NEW h \in Gen, h # g
                 PROVE  snapBar'[h] = snapBar[h]
      OBVIOUS
    <3>1. \A p \in Path : Content(snapFront[h][p])' = Content(snapFront[h][p])
      BY <1>1, <2>1 DEF Content
    <3> QED
      BY <1>3, <2>1, <3>1 DEF ReadsContent
  <2>4. snapBar = [h \in Gen |-> snapBar[h]] /\ snapBar' = [h \in Gen |-> snapBar'[h]]
    BY DEF snapBar
  <2> QED
    BY <1>2, <2>2, <2>3, <2>4
<1>8. snapBar[g] = None
  BY <1>2 DEF snapBar
<1>9. Store!Snapshot(g)
  BY <1>1, <1>4, <1>6, <1>7, <1>8 DEF Store!Snapshot
<1> QED
  BY <1>2, <1>9

\* A snapshot goes, with its reader or with the GC batch that owned it.
LEMMA DropStep ==
    ASSUME Inv, StoreInv', (\E g \in Gen : DropSnapshot(g)) \/ GcDropped \/ InstallEnd
    PROVE  \E g \in Gen : Store!Drop(g)
<1>1. TypeOK /\ BatchInv /\ SnapInv /\ ReadsContent /\ ReadsContent'
  BY Reads, ReadsNext DEF Inv, StoreInv
<1>g. PICK g \in Gen : snapFront[g] # None /\ snapFront' = [snapFront EXCEPT ![g] = None]
  BY <1>1 DEF SnapInv, BatchInv, DropSnapshot, GcDropped, InstallEnd
<1>2. /\ UNCHANGED <<front, disk, wput, meta>>
      /\ UNCHANGED wpc \/ (wpc # "apply" /\ wpc' # "apply")
  BY DEF DropSnapshot, GcDropped, InstallEnd, writerVars, durVars
<1>3. DiskKept
  BY <1>2, WritesFresh
<1>4. ckptBar' = ckptBar
  BY <1>2, <1>3, FrozenKept
<1>5. dbBar' = dbBar
  <2>1. \A q \in Path : (InHand(q)' <=> InHand(q)) /\ Content(front[q])' = Content(front[q])
    BY <1>2 DEF InHand, Content
  <2> QED
    BY <1>1, <1>2, <2>1 DEF ReadsContent
<1>6. snapBar' = [snapBar EXCEPT ![g] = None]
  <2>1. snapFront'[g] = None /\ \A h \in Gen : h # g => snapFront'[h] = snapFront[h]
    BY <1>1, <1>g DEF TypeOK
  <2>2. \A h \in Gen : h # g => snapBar'[h] = snapBar[h]
    <3> SUFFICES ASSUME NEW h \in Gen, h # g
                 PROVE  snapBar'[h] = snapBar[h]
      OBVIOUS
    <3>1. \A p \in Path : Content(snapFront[h][p])' = Content(snapFront[h][p])
      BY <1>2, <2>1 DEF Content
    <3> QED
      BY <1>1, <2>1, <3>1 DEF ReadsContent
  <2>3. snapBar'[g] = None
    BY <2>1 DEF snapBar
  <2>4. snapBar = [h \in Gen |-> snapBar[h]] /\ snapBar' = [h \in Gen |-> snapBar'[h]]
    BY DEF snapBar
  <2> QED
    BY <2>2, <2>3, <2>4
<1>7. Store!Drop(g)
  BY <1>1, <1>2, <1>4, <1>5, <1>6, <1>g DEF Store!Drop, ReadsContent
<1> QED
  BY <1>7

\* The durable rename makes the contents the checkpoint.
LEMMA CheckpointStep ==
    ASSUME Inv, StoreInv', RenameDurable
    PROVE  Store!Checkpoint
<1>1. /\ UNCHANGED <<front, disk, wput, snapFront>> /\ meta' = mnew
      /\ wpc = "renamed" /\ wpc' = "durable"
  BY DEF RenameDurable, snapVars
<1>2. wput = None /\ mnew # None /\ mnew.front = front
  BY <1>1 DEF Inv, StoreInv, FrontInv, ManifestInv
<1>3. ReadsContent /\ ReadsContent' /\ DiskKept
  BY <1>1, Reads, ReadsNext, WritesFresh DEF Inv
<1>4. snapBar' = snapBar
  BY <1>1, <1>3, FrozenKept
<1>5. \A q \in Path : ~InHand(q) /\ ~InHand(q)'
  BY <1>1 DEF InHand
<1>6. dbBar' = dbBar
  <2>1. \A q \in Path : dbBar'[q] = dbBar[q]
    BY <1>1, <1>3, <1>5, SlotsKept
  <2> QED
    BY <2>1 DEF dbBar
<1>7. ckptBar' = dbBar
  <2>1. ckptBar' = [p \in Path |-> Content(meta.front[p])']
    BY <1>1, <1>2, <1>3 DEF ReadsContent
  <2>2. dbBar = [p \in Path |-> Content(front[p])]
    BY <1>3, <1>5 DEF ReadsContent
  <2>3. \A p \in Path : Content(meta.front[p])' = Content(front[p])
    BY <1>1, <1>2 DEF Content
  <2> QED
    BY <2>1, <2>2, <2>3
<1> QED
  BY <1>1, <1>2, <1>4, <1>6, <1>7 DEF Store!Checkpoint

\* A crash goes back to the checkpoint.
LEMMA CrashStep ==
    ASSUME Inv, StoreInv', Crash
    PROVE  Store!Crash
<1>1. /\ meta # None /\ UNCHANGED meta /\ front' = meta.front /\ wput' = None /\ wpc' = "idle"
      /\ snapFront' = [g \in Gen |-> None]
  BY DEF Crash
<1>2. ReadsContent /\ ReadsContent' /\ TypeOK /\ ManifestInv
  BY Reads, ReadsNext DEF Inv, StoreInv
<1>3. \A p \in Path : Content(meta.front[p])' = Content(meta.front[p])
  <2> SUFFICES ASSUME NEW p \in Path
               PROVE  Content(meta.front[p])' = Content(meta.front[p])
    OBVIOUS
  <2>1. PICK s \in DiskSlot : s = meta.front[p] /\ s \in Slot
    BY <1>1, <1>2, Types
  <2>2. IsDisk(s) => s[2] \in Unit /\ s[2] \in synced
    BY <1>1, <1>2, <2>1, Slots DEF ManifestInv
  <2>3. \A u \in Unit : u \in synced => disk'[u] = disk[u]
    BY DEF Crash
  <2>4. s # None => IsDisk(s)
    BY <2>1, Slots
  <2>5. Content(s)' = Content(s)
    BY <2>2, <2>3, <2>4 DEF Content
  <2> QED
    BY <1>1, <2>1, <2>5 DEF Content
<1>4. ckptBar' = ckptBar
  BY <1>1, <1>2, <1>3 DEF ReadsContent
<1>5. dbBar' = ckptBar
  <2>1. \A q \in Path : ~InHand(q)'
    BY <1>1 DEF InHand
  <2>2. \A p \in Path : Content(front[p])' = Content(meta.front[p])'
    BY <1>1 DEF Content
  <2> QED
    BY <1>1, <1>2, <1>3, <2>1, <2>2 DEF ReadsContent
<1>6. snapBar' = [g \in Gen |-> None]
  BY <1>1 DEF snapBar
<1> QED
  BY <1>1, <1>2, <1>4, <1>5, <1>6 DEF Store!Crash, ReadsContent

\* Every step of the store is one that SnapshotStore promises, or invisible.
LEMMA StepPromises ==
    ASSUME Inv, StoreInv', [Next]_vars
    PROVE  StoreStep
<1>q. ASSUME UNCHANGED <<front, wput, snapFront, meta>>,
             UNCHANGED wpc \/ (wpc # "apply" /\ wpc' # "apply"),
             UNCHANGED disk \/ \E rec \in Rec : WritePayload(rec)
      PROVE  StoreStep
  BY <1>q, QuietStep DEF StoreStep
<1>1. CASE UNCHANGED vars
  BY <1>1, <1>q DEF vars, storeVars
<1>2. TypeOK
  BY DEF Inv, StoreInv
<1>3. ASSUME NEW p \in Path, NEW v \in Val \cup {None}, ApplyFree(p, v) \/ ApplyRam(p, v)
      PROVE  StoreStep
  BY <1>3, PutStep DEF StoreStep, Store!Next
<1>4. CASE ApplyDone
  BY <1>4, PutDoneStep DEF StoreStep, Store!Next
<1>5. CASE (\E p \in Path : SpillWrite(p)) \/ (\E e \in evac : EvacFree(e)) \/ (\E e \in gcItems : InstallItem(e))
  BY <1>5, RedirectStep DEF StoreStep
<1>6. CASE TakeSnapshot \/ GcPin
  BY <1>6, SnapshotStep DEF StoreStep, Store!Next
<1>7. CASE (\E g \in Gen : DropSnapshot(g)) \/ GcDropped \/ InstallEnd
  BY <1>7, DropStep DEF StoreStep, Store!Next
<1>8. CASE RenameDurable
  BY <1>8, CheckpointStep DEF StoreStep, Store!Next
<1>9. CASE Crash
  BY <1>9, CrashStep DEF StoreStep, Store!Next
<1>10. CASE (\E ret \in {"idle", "gc"} : SpillBegin(ret)) \/ SpillEnd \/ EvacDrain \/ EvacCopied \/ EvacEnd
  <2>1. wret \in {"idle", "gc"}
    BY <1>2 DEF TypeOK
  <2> QED
    BY <1>10, <1>q, <2>1 DEF SpillBegin, SpillEnd, EvacDrain, EvacCopied, EvacEnd, snapVars, durVars
<1>11. CASE \E victims \in SUBSET Region : EvacScan(victims) \/ GcScan(victims)
  BY <1>11, <1>q DEF EvacScan, GcScan, snapVars, durVars, writerVars
<1>12. CASE (\E e \in evac : EvacCopy(e)) \/ (\E e \in gcItems : GcCopy(e))
  <2>1. \A e \in evac \cup gcItems : e.rec \in Rec
    BY <1>2, Types
  <2>2. \E rec \in Rec : WritePayload(rec)
    BY <1>12, <2>1 DEF EvacCopy, GcCopy
  <2>3. UNCHANGED <<front, wput, snapFront, meta, wpc>>
    BY <1>12 DEF EvacCopy, GcCopy, snapVars, durVars, writerVars
  <2> QED
    BY <1>q, <2>2, <2>3
<1>13. CASE PersistBegin \/ PersistCapture \/ PersistLink \/ PersistRename \/ PersistFails \/ PersistDone
  BY <1>13, <1>q DEF PersistBegin, PersistCapture, PersistLink, PersistRename, PersistFails,
     PersistDone, snapVars, durVars
<1>14. CASE (\E p \in Path : Prefetch(p)) \/ PrefetchClear \/ GcCheckCache \/ GcDrain \/ GcCollected
  BY <1>14, <1>q DEF Prefetch, PrefetchClear, GcCheckCache, GcDrain, GcCollected, snapVars, durVars,
     writerVars
<1>15. CASE (\E e \in gcItems : DiscardItem(e)) \/ InstallBegin \/ InstallPin
  BY <1>15, <1>q DEF DiscardItem, InstallBegin, InstallPin, snapVars, durVars, writerVars
<1> QED
  BY <1>1, <1>3, <1>4, <1>5, <1>6, <1>7, <1>8, <1>9, <1>10, <1>11, <1>12, <1>13, <1>14, <1>15 DEF Next

\* A new database is an initial state of SnapshotStore.
LEMMA InitPromises == Init => Store!Init
<1> SUFFICES ASSUME Init
             PROVE  Store!Init
  OBVIOUS
<1>1. dbBar = [p \in Path |-> None]
  BY DEF Init, dbBar, CurrentValue, Value, EmptyFront
<1> QED
  BY <1>1 DEF Init, Store!Init, snapBar, ckptBar

\* The store implements SnapshotStore: reads return the last value put, a
\* snapshot returns what it was taken from as long as it lives, while records
\* are spilled, evacuated, relocated in the background and prefetched, and a
\* crash returns to the contents of the last durable checkpoint.
THEOREM StoreRefines == Spec => ImplementsStore
<1>1. Init => Store!Init
  BY InitPromises
<1>2. Inv /\ Inv' /\ [Next]_vars => [Store!Next]_<<dbBar, wput, snapBar, ckptBar>>
  BY StepPromises DEF Inv, StoreStep
<1> QED
  BY <1>1, <1>2, StoreInductive, PTL DEF Spec, ImplementsStore, Store!Spec

-----------------------------------------------------------------------------
(* No record is overwritten while somebody references it. *)

\* A step changes no record on disk that anybody references; a crash loses
\* what was not synced, but nothing of the manifest.
RecordsKept ==
    /\ DiskKept \/ Crash
    /\ meta # None =>
          \A p \in Path : IsDisk(meta.front[p]) => disk'[meta.front[p][2]] = disk[meta.front[p][2]]

\* No step overwrites a record that the frontier, a relocation in flight, a
\* live snapshot, the read-ahead cache or the manifest references: a region is
\* reopened by open_new_head only when it is nobody's.  Even a crash keeps the
\* records of the manifest that open() is going to read.
THEOREM RecordsNotOverwritten == Spec => [][RecordsKept]_vars
<1>1. ASSUME Inv, Next
      PROVE  RecordsKept
  <2>1. TypeOK /\ ManifestInv
    BY <1>1 DEF Inv, StoreInv
  <2>2. (UNCHANGED disk \/ \E rec \in Rec : WritePayload(rec)) \/ Crash
    <3>1. \A e \in evac \cup gcItems : e.rec \in Rec
      BY <2>1, Types
    <3>2. \A p \in Path : IsMem(front[p]) => <<p, front[p][2]>> \in Rec
      BY <2>1, Types, Slots DEF Rec
    <3>3. wput # None => wput \in Path \X (Val \cup {None})
      BY <2>1 DEF TypeOK
    <3>4. wpc = "apply" => wput # None
      BY <1>1 DEF Inv, StoreInv, FrontInv
    <3>5. ApplyDone => UNCHANGED disk \/ \E rec \in Rec : WritePayload(rec)
      BY <3>3, <3>4 DEF ApplyDone, Rec
    <3>6. ASSUME NEW p \in Path, SpillWrite(p)
          PROVE  \E rec \in Rec : WritePayload(rec)
      BY <3>2, <3>6 DEF SpillWrite, MemPaths
    <3>7. /\ \A e \in evac : EvacCopy(e) => \E rec \in Rec : WritePayload(rec)
          /\ \A e \in gcItems : GcCopy(e) => \E rec \in Rec : WritePayload(rec)
      BY <3>1 DEF EvacCopy, GcCopy
    <3> QED
      BY <1>1, <3>5, <3>6, <3>7 DEF Next, ApplyFree, ApplyRam, SpillBegin, Prefetch, SpillEnd,
         EvacScan, GcScan, EvacDrain, EvacFree, EvacCopied, EvacEnd, PersistBegin,
         PersistCapture, PersistLink, PersistRename, PersistFails, RenameDurable, PersistDone,
         TakeSnapshot, DropSnapshot, PrefetchClear, GcPin, GcCheckCache, GcDrain, GcCollected,
         GcDropped, InstallBegin, InstallItem, DiscardItem, InstallPin, InstallEnd,
         snapVars, durVars, writerVars
  <2>3. DiskKept \/ Crash
    BY <1>1, <2>2, WritesFresh
  <2>4. ASSUME meta # None, NEW p \in Path, IsDisk(meta.front[p])
        PROVE  disk'[meta.front[p][2]] = disk[meta.front[p][2]]
    <3>1. PICK s \in Slot : s = meta.front[p]
      BY <2>1, <2>4, Types
    <3>2. s[2] \in Unit /\ s = Disk(s[2]) /\ s[2] \in synced
      BY <2>1, <2>4, <3>1, Slots DEF ManifestInv
    <3>3. CASE DiskKept
      BY <2>4, <3>1, <3>2, <3>3 DEF DiskKept, Referenced
    <3>4. CASE Crash
      BY <3>1, <3>2, <3>4 DEF Crash
    <3> QED
      BY <2>3, <3>3, <3>4
  <2> QED
    BY <2>3, <2>4 DEF RecordsKept
<1>2. Inv /\ [Next]_vars => [RecordsKept]_vars
  BY <1>1
<1> QED
  BY <1>2, StoreInductive, PTL DEF Spec
=============================================================================
