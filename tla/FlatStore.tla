----------------------------- MODULE FlatStore -----------------------------
(***************************************************************************)
(* The flat file under the RAM frontier, record by record: FlatMpt's       *)
(* writer, its snapshots, the background GC, the read-ahead cache, persist *)
(* and open, over the allocator of RegionAlloc.                            *)
(*                                                                         *)
(* A frontier slot is empty, an in-RAM (Mem) leaf or a pointer to a record *)
(* (Disk).  The subtree a record holds is one value, and a record takes    *)
(* one address unit; its stored prefix is the path of its slot.            *)
(*                                                                         *)
(* Two actors take steps: the writer, inside one &mut self method at a     *)
(* time (wpc), and the GC thread (gpc).  A step ends where the code lets   *)
(* go of the allocator's mutex.  The writer's frontier is private to it:   *)
(* snapshots share the immutable old nodes (copy on write).                *)
(***************************************************************************)
EXTENDS RegionAlloc, FiniteSets

CONSTANTS
    Path,      \* frontier slots
    Val,       \* contents of a record
    None,      \* an empty slot, an unwritten unit, no manifest ...
    Garbage,   \* what reading a foreign or unwritten unit gives
    EvacCap,   \* live units a gc_step victim may have
    BgCap,     \* live units a gc_collect victim may have
    HotRecords,  \* MPT_HOT_RECORDS: a rewritten record may stay in RAM
    Persists,  \* bound: FALSE leaves out persist, and with it the crash
    MaxCached  \* bound on the units in the read-ahead cache

ASSUME StoreAssumption ==
    /\ None \notin Val /\ Garbage \notin Val \cup {None}
    /\ EvacCap \in 0 .. RegionUnits /\ BgCap \in 0 .. RegionUnits
    /\ HotRecords \in BOOLEAN /\ Persists \in BOOLEAN
    /\ MaxCached \in Nat

VARIABLES
    disk,      \* the record at each unit: <<path, value>>
    synced,    \* units whose content survives a power loss
    front,     \* the frontier (FlatMpt.upper)
    cache,     \* FlatFile.read_ahead: the record cached for each unit
    snapFront, \* the frontier of the snapshots of each generation
    taken,     \* generations with a FlatSnapshot in a reader's hands
    meta,      \* the manifest open() would read, None or a manifest
    prev,      \* the previous one (".prev")
    mnew,      \* the manifest persist is writing
    wpc, wret, \* where the writer is, and where its gc_step or spill returns
    wput,      \* <<path, value>> the writer has read, freed and not written
    evac,      \* relocations of gc_step: [path, old, rec, new]
    evacVict,  \* victims of gc_step
    gpc, gcGen, gcItems, gcVict, \* the same of the background GC
    lost       \* units of the copies of dropped batches

storeVars == <<disk, synced, front, cache, snapFront, taken, meta, prev, mnew,
               wpc, wret, wput, evac, evacVict, gpc, gcGen, gcItems, gcVict, lost>>
vars == <<raVars, storeVars>>

writerVars == <<wpc, wret, wput, evac, evacVict>>
gcVars     == <<gpc, gcGen, gcItems, gcVict>>
durVars    == <<meta, prev, mnew>>
snapVars   == <<snapFront, taken>>

Unit        == 0 .. NumRegions * RegionUnits - 1
RegionOf(u) == u \div RegionUnits
Rec         == Path \X Val
Mem(v)      == <<"mem", v>>
Disk(u)     == <<"disk", u>>
Slot        == {None} \cup {Mem(v) : v \in Val} \cup {Disk(u) : u \in Unit}
IsMem(s)    == s # None /\ s[1] = "mem"
IsDisk(s)   == s # None /\ s[1] = "disk"
NoCache     == [u \in Unit |-> None]
EmptyFront  == [p \in Path |-> None]
Item        == [path : Path, old : Unit, rec : Rec, new : Unit \cup {None}]
DiskSlot    == {None} \cup {Disk(u) : u \in Unit}
Manifest    == [front : [Path -> DiskSlot], end : 0 .. NumRegions,
                db : [Path -> Val \cup {None}]]

\* None is no address, record, slot, frontier or manifest: the Option::None of
\* each of them is told apart from a value.
ASSUME NoneAssumption ==
    /\ None \notin Unit
    /\ None \notin Path \X (Val \cup {None})
    /\ None \notin {Mem(v) : v \in Val} \cup {Disk(u) : u \in Unit}
    /\ None \notin [Path -> Slot] \cup [Path -> Val \cup {None}]
    /\ None \notin Manifest

TypeOK ==
    /\ AllocTypeOK
    /\ disk \in [Unit -> Rec \cup {None}]
    /\ synced \in SUBSET Unit
    /\ front \in [Path -> Slot]
    /\ cache \in [Unit -> Rec \cup {None}]
    /\ snapFront \in [Gen -> [Path -> Slot] \cup {None}]
    /\ taken \in SUBSET Gen
    /\ {meta, prev, mnew} \subseteq Manifest \cup {None}
    /\ wpc \in {"idle", "apply", "spill", "gc", "scanned", "copy", "free", "captured",
                "linked", "renamed", "durable", "install", "installed"}
    /\ wret \in {"idle", "gc"}
    /\ wput \in (Path \X (Val \cup {None})) \cup {None}
    /\ evac \in SUBSET Item /\ gcItems \in SUBSET Item
    /\ evacVict \in SUBSET Region /\ gcVict \in SUBSET Region
    /\ gpc \in {"idle", "pinned", "scanned", "checked", "copying", "collected"}
    /\ gcGen \in 0 .. MaxGen
    /\ lost \in SUBSET Unit

Init ==
    /\ AllocInit
    /\ disk = [u \in Unit |-> None] /\ synced = Unit
    /\ front = EmptyFront
    /\ cache = NoCache
    /\ snapFront = [g \in Gen |-> None] /\ taken = {}
    /\ meta = None /\ prev = None /\ mnew = None
    /\ wpc = "idle" /\ wret = "idle" /\ wput = None
    /\ evac = {} /\ evacVict = {}
    /\ gpc = "idle" /\ gcGen = 0 /\ gcItems = {} /\ gcVict = {}
    /\ lost = {}

-----------------------------------------------------------------------------
(* Reads *)

\* read_lazy: a read-ahead entry for the unit is served before the file.
ReadLazy(u) == IF cache[u] # None THEN cache[u] ELSE disk[u]

\* What decoding the record at a pointer of path p gives.
Decode(p, rec) == IF rec # None /\ rec[1] = p THEN rec[2] ELSE Garbage

Value(p, s) ==
    IF s = None THEN None ELSE IF IsMem(s) THEN s[2] ELSE Decode(p, ReadLazy(s[2]))

\* What open() would find: no cache, and only what reached the disk.
DurableValue(p, s) ==
    IF s = None THEN None
    ELSE Decode(p, IF s[2] \in synced THEN disk[s[2]] ELSE None)

\* recompute_live: the units the records of a frontier occupy in each region.
RecomputeLive(f) ==
    [r \in Region |-> Cardinality({p \in Path : IsDisk(f[p]) /\ RegionOf(f[p][2]) = r})]

\* A region scan (evacuate_regions, gc_collect): the records of the victims
\* whose stored prefix leads, in the frontier, to the unit they lie at.
LiveRecords(victims, f) ==
    {[path |-> p, old |-> f[p][2], rec |-> disk[f[p][2]], new |-> None] :
        p \in {p \in Path : /\ IsDisk(f[p])
                            /\ RegionOf(f[p][2]) \in victims
                            /\ disk[f[p][2]] # None
                            /\ disk[f[p][2]][1] = p}}

-----------------------------------------------------------------------------
(* Calls of FlatFile *)

\* The unit of the one-unit run alloc has just reserved.
NewUnit == head' * RegionUnits + nextUnit' - 1

\* alloc and pwrite of one record.
WritePayload(rec) ==
    /\ Alloc(1, 1)
    /\ disk' = [disk EXCEPT ![NewUnit] = rec]
    /\ synced' = synced \ {NewUnit}

FreeUnit(u) == Free(RegionOf(u), 1)

\* drain_staged_if_unaliased of the writer: no prefetch runs meanwhile.
DrainStagedIfUnaliased == IF cache = NoCache THEN DrainStaged ELSE UNCHANGED raVars

-----------------------------------------------------------------------------
(* The writer: a change of one record (apply_group_child and its like) *)

\* The old record is read and freed ...
ApplyFree(p, v) ==
    /\ wpc = "idle" /\ IsDisk(front[p])
    /\ FreeUnit(front[p][2])
    /\ wpc' = "apply" /\ wput' = <<p, v>>
    /\ UNCHANGED <<disk, synced, front, cache, snapVars, durVars, wret, evac,
                   evacVict, gcVars, lost>>

\* ... or there is none on disk.
ApplyRam(p, v) ==
    /\ wpc = "idle" /\ ~IsDisk(front[p])
    /\ wpc' = "apply" /\ wput' = <<p, v>>
    /\ UNCHANGED <<raVars, disk, synced, front, cache, snapVars, durVars, wret,
                   evac, evacVict, gcVars, lost>>

\* finish_child: a record that became empty leaves no slot, a hot one stays in
\* RAM as a Mem leaf, a cold one is written.
ApplyDone ==
    /\ wpc = "apply"
    /\ \/ /\ wput[2] = None
          /\ front' = [front EXCEPT ![wput[1]] = None]
          /\ UNCHANGED <<raVars, disk, synced>>
       \/ /\ wput[2] # None /\ HotRecords
          /\ front' = [front EXCEPT ![wput[1]] = Mem(wput[2])]
          /\ UNCHANGED <<raVars, disk, synced>>
       \/ /\ wput[2] # None
          /\ WritePayload(wput)
          /\ front' = [front EXCEPT ![wput[1]] = Disk(NewUnit)]
    /\ wpc' = "idle" /\ wput' = None
    /\ UNCHANGED <<cache, snapVars, durVars, wret, evac, evacVict, gcVars, lost>>

-----------------------------------------------------------------------------
(* The writer: spills (spill_quota) and gc_step *)

MemPaths == {p \in Path : IsMem(front[p])}

\* spill_quota, on its own or first thing in persist: write_batch drains.
SpillBegin(ret) ==
    /\ wpc = "idle" /\ MemPaths # {} /\ (ret = "gc" => Persists)
    /\ DrainStagedIfUnaliased
    /\ wpc' = "spill" /\ wret' = ret
    /\ UNCHANGED <<disk, synced, front, cache, snapVars, durVars, wput, evac,
                   evacVict, gcVars, lost>>

SpillWrite(p) ==
    /\ wpc = "spill" /\ p \in MemPaths
    /\ WritePayload(<<p, front[p][2]>>)
    /\ front' = [front EXCEPT ![p] = Disk(NewUnit)]
    /\ UNCHANGED <<cache, snapVars, durVars, writerVars, gcVars, lost>>

\* A quota may leave leaves in RAM, persist leaves none.
SpillEnd ==
    /\ wpc = "spill"
    /\ wret = "gc" => MemPaths = {}
    /\ wpc' = wret
    /\ UNCHANGED <<raVars, disk, synced, front, cache, snapVars, durVars, wret,
                   wput, evac, evacVict, gcVars, lost>>

\* One round of gc_step, from the embedder or from persist: victims are
\* selected and their live records read.
EvacScan(victims) ==
    /\ wpc \in {"idle", "gc"}
    /\ victims # {} /\ victims \subseteq Eligible(EvacCap)
    /\ evac' = LiveRecords(victims, front) /\ evacVict' = victims
    /\ wpc' = IF evac' = {} THEN "free" ELSE "scanned"
    /\ wret' = wpc
    /\ UNCHANGED <<raVars, disk, synced, front, cache, snapVars, durVars, wput,
                   gcVars, lost>>

EvacDrain ==
    /\ wpc = "scanned"
    /\ DrainStagedIfUnaliased
    /\ wpc' = "copy"
    /\ UNCHANGED <<disk, synced, front, cache, snapVars, durVars, wret, wput,
                   evac, evacVict, gcVars, lost>>

EvacCopy(e) ==
    /\ wpc = "copy" /\ e \in evac /\ e.new = None
    /\ WritePayload(e.rec)
    /\ evac' = (evac \ {e}) \cup {[e EXCEPT !.new = NewUnit]}
    /\ UNCHANGED <<front, cache, snapVars, durVars, wpc, wret, wput, evacVict,
                   gcVars, lost>>

EvacCopied ==
    /\ wpc = "copy" /\ \A e \in evac : e.new # None
    /\ wpc' = "free"
    /\ UNCHANGED <<raVars, disk, synced, front, cache, snapVars, durVars, wret,
                   wput, evac, evacVict, gcVars, lost>>

\* The old copy is freed and the new one installed (the code installs after
\* the last free: the frontier is the writer's own meanwhile).
EvacFree(e) ==
    /\ wpc = "free" /\ e \in evac
    /\ FreeUnit(e.old)
    /\ front' = [front EXCEPT ![e.path] = Disk(e.new)]
    /\ evac' = evac \ {e}
    /\ UNCHANGED <<disk, synced, cache, snapVars, durVars, wpc, wret, wput,
                   evacVict, gcVars, lost>>

EvacEnd ==
    /\ wpc = "free" /\ evac = {}
    /\ PinStillLive(evacVict)
    /\ wpc' = wret /\ evacVict' = {}
    /\ UNCHANGED <<disk, synced, front, cache, snapVars, durVars, wret, wput,
                   evac, gcVars, lost>>

-----------------------------------------------------------------------------
(* The writer: persist *)

\* With nothing to spill, persist starts at its gc_step.
PersistBegin ==
    /\ wpc = "idle" /\ MemPaths = {} /\ Persists
    /\ wpc' = "gc"
    /\ UNCHANGED <<raVars, disk, synced, front, cache, snapVars, durVars, wret,
                   wput, evac, evacVict, gcVars, lost>>

\* Mutant: the file is not synced.
PersistCaptureUnsynced ==
    /\ wpc = "gc"
    /\ mnew' = [front |-> front, end |-> fileEnd,
                db |-> [p \in Path |-> Value(p, front[p])]]
    /\ wpc' = "captured"
    /\ UNCHANGED <<raVars, disk, synced, front, cache, snapVars, meta, prev, wret,
                   wput, evac, evacVict, gcVars, lost>>

\* The file is synced and the manifest serialized.  db is what it records,
\* kept to state the properties.
PersistCapture ==
    /\ wpc = "gc"
    /\ synced' = Unit
    /\ mnew' = [front |-> front, end |-> fileEnd,
                db |-> [p \in Path |-> Value(p, front[p])]]
    /\ wpc' = "captured"
    /\ UNCHANGED <<raVars, disk, front, cache, snapVars, meta, prev, wret, wput,
                   evac, evacVict, gcVars, lost>>

\* ".prev" is replaced by a link to the manifest, the new one written to a
\* temporary file and synced.
PersistLink ==
    /\ wpc = "captured"
    /\ prev' = meta
    /\ wpc' = "linked"
    /\ UNCHANGED <<raVars, disk, synced, front, cache, snapVars, meta, mnew, wret,
                   wput, evac, evacVict, gcVars, lost>>

PersistRename ==
    /\ wpc = "linked"
    /\ wpc' = "renamed"
    /\ UNCHANGED <<raVars, disk, synced, front, cache, snapVars, durVars, wret,
                   wput, evac, evacVict, gcVars, lost>>

\* A sync, the write of the temporary file or the rename fails: persist returns
\* the error, and may be called again.
PersistFails ==
    /\ wpc \in {"gc", "captured", "linked"}
    /\ mnew' = None
    /\ wpc' = "idle" /\ wret' = "idle"
    /\ UNCHANGED <<raVars, disk, synced, front, cache, snapVars, meta, prev, wput,
                   evac, evacVict, gcVars, lost>>

\* The rename survives a power loss from the directory's sync on, or before it.
RenameDurable ==
    /\ wpc = "renamed"
    /\ meta' = mnew /\ mnew' = None
    /\ wpc' = "durable"
    /\ UNCHANGED <<raVars, disk, synced, front, cache, snapVars, prev, wret, wput,
                   evac, evacVict, gcVars, lost>>

PersistDone ==
    /\ wpc = "durable"
    /\ OnPersisted
    /\ wpc' = "idle" /\ wret' = "idle"
    /\ UNCHANGED <<disk, synced, front, cache, snapVars, durVars, wput, evac,
                   evacVict, gcVars, lost>>

-----------------------------------------------------------------------------
(* Snapshots and the read-ahead cache *)

TakeSnapshot ==
    /\ wpc = "idle"
    /\ Pin
    /\ snapFront' = [snapFront EXCEPT ![pinGen + 1] = front]
    /\ taken' = taken \cup {pinGen + 1}
    /\ UNCHANGED <<disk, synced, front, cache, durVars, writerVars, gcVars, lost>>

DropSnapshot(g) ==
    /\ g \in taken
    /\ Unpin(g)
    /\ snapFront' = [snapFront EXCEPT ![g] = None]
    /\ taken' = taken \ {g}
    /\ UNCHANGED <<disk, synced, front, cache, durVars, writerVars, gcVars, lost>>

\* prefetch_block: the record a live pointer leads to.
Prefetch(p) ==
    /\ wpc = "idle" /\ IsDisk(front[p])
    /\ Cardinality({u \in Unit : cache[u] # None}) < MaxCached
    /\ cache' = [cache EXCEPT ![front[p][2]] = disk[front[p][2]]]
    /\ UNCHANGED <<raVars, disk, synced, front, snapVars, durVars, writerVars,
                   gcVars, lost>>

PrefetchClear ==
    /\ wpc = "idle"
    /\ cache' = NoCache
    /\ DrainStaged
    /\ UNCHANGED <<disk, synced, front, snapVars, durVars, writerVars, gcVars, lost>>

-----------------------------------------------------------------------------
(* The background GC: gc_collect *)

GcPin ==
    /\ gpc = "idle" /\ wpc = "idle"
    /\ Pin
    /\ snapFront' = [snapFront EXCEPT ![pinGen + 1] = front]
    /\ gpc' = "pinned" /\ gcGen' = pinGen + 1
    /\ UNCHANGED <<disk, synced, front, cache, taken, durVars, writerVars,
                   gcItems, gcVict, lost>>

\* Victims are selected now, but their live records are those of the snapshot.
GcScan(victims) ==
    /\ gpc = "pinned"
    /\ victims \subseteq Eligible(BgCap)
    /\ gcVict' = victims
    /\ gcItems' = LiveRecords(victims, snapFront[gcGen])
    /\ gpc' = IF gcItems' = {} THEN "collected" ELSE "scanned"
    /\ UNCHANGED <<raVars, disk, synced, front, cache, snapVars, durVars,
                   writerVars, gcGen, lost>>

\* Mutant: the cache is not looked at.
GcCheckCacheSkipped ==
    /\ gpc = "scanned"
    /\ gpc' = "checked"
    /\ UNCHANGED <<raVars, disk, synced, front, cache, snapVars, durVars,
                   writerVars, gcGen, gcItems, gcVict, lost>>

\* drain_staged_if_unaliased of the GC thread: the cache's length is read,
\* and acted upon later.
GcCheckCache ==
    /\ gpc = "scanned"
    /\ gpc' = IF cache = NoCache THEN "checked" ELSE "copying"
    /\ UNCHANGED <<raVars, disk, synced, front, cache, snapVars, durVars,
                   writerVars, gcGen, gcItems, gcVict, lost>>

GcDrain ==
    /\ gpc = "checked"
    /\ DrainStaged
    /\ gpc' = "copying"
    /\ UNCHANGED <<disk, synced, front, cache, snapVars, durVars, writerVars,
                   gcGen, gcItems, gcVict, lost>>

GcCopy(e) ==
    /\ gpc = "copying" /\ e \in gcItems /\ e.new = None
    /\ WritePayload(e.rec)
    /\ gcItems' = (gcItems \ {e}) \cup {[e EXCEPT !.new = NewUnit]}
    /\ UNCHANGED <<front, cache, snapVars, durVars, writerVars, gpc, gcGen, gcVict,
                   lost>>

GcCollected ==
    /\ gpc = "copying" /\ \A e \in gcItems : e.new # None
    /\ gpc' = "collected"
    /\ UNCHANGED <<raVars, disk, synced, front, cache, snapVars, durVars,
                   writerVars, gcGen, gcItems, gcVict, lost>>

Copies == {e.new : e \in gcItems} \ {None}

\* The batch, or gc_collect with it, is dropped: nobody frees the copies.
GcDropped ==
    /\ gpc # "idle" /\ wpc \notin {"install", "installed"}
    /\ Unpin(gcGen)
    /\ snapFront' = [snapFront EXCEPT ![gcGen] = None]
    /\ lost' = lost \cup Copies
    /\ gpc' = "idle" /\ gcGen' = 0 /\ gcItems' = {} /\ gcVict' = {}
    /\ UNCHANGED <<disk, synced, front, cache, taken, durVars, writerVars>>

-----------------------------------------------------------------------------
(* The writer: gc_install *)

InstallBegin ==
    /\ wpc = "idle" /\ gpc = "collected"
    /\ wpc' = "install"
    /\ UNCHANGED <<raVars, disk, synced, front, cache, snapVars, durVars, wret,
                   wput, evac, evacVict, gcVars, lost>>

\* The slot still points at the record that was copied: swap and free it.
InstallItem(e) ==
    /\ wpc = "install" /\ e \in gcItems
    /\ front[e.path] = Disk(e.old)
    /\ front' = [front EXCEPT ![e.path] = Disk(e.new)]
    /\ FreeUnit(e.old)
    /\ gcItems' = gcItems \ {e}
    /\ UNCHANGED <<disk, synced, cache, snapVars, durVars, writerVars, gpc, gcGen,
                   gcVict, lost>>

\* It died or moved: the copy is freed.
DiscardItem(e) ==
    /\ wpc = "install" /\ e \in gcItems
    /\ front[e.path] # Disk(e.old)
    /\ FreeUnit(e.new)
    /\ gcItems' = gcItems \ {e}
    /\ UNCHANGED <<disk, synced, front, cache, snapVars, durVars, writerVars, gpc,
                   gcGen, gcVict, lost>>

InstallPin ==
    /\ wpc = "install" /\ gcItems = {}
    /\ PinStillLive(gcVict)
    /\ wpc' = "installed"
    /\ UNCHANGED <<disk, synced, front, cache, snapVars, durVars, wret, wput,
                   evac, evacVict, gcVars, lost>>

\* gc_install returns, and the batch's snapshot goes.
InstallEnd ==
    /\ wpc = "installed"
    /\ Unpin(gcGen)
    /\ snapFront' = [snapFront EXCEPT ![gcGen] = None]
    /\ gpc' = "idle" /\ gcGen' = 0 /\ gcVict' = {}
    /\ wpc' = "idle"
    /\ UNCHANGED <<disk, synced, front, cache, taken, durVars, wret, wput, evac,
                   evacVict, gcItems, lost>>

-----------------------------------------------------------------------------
\* The process dies and open() restarts from the manifest: unsynced units may
\* have lost their content.
Crash ==
    /\ meta # None
    /\ \E kept \in SUBSET (Unit \ synced) :
          disk' = [u \in Unit |-> IF u \in synced \cup kept THEN disk[u] ELSE None]
    /\ synced' = Unit
    /\ AllocOpen(RecomputeLive(meta.front), meta.end)
    /\ front' = meta.front
    /\ cache' = NoCache
    /\ snapFront' = [g \in Gen |-> None] /\ taken' = {}
    /\ mnew' = None
    /\ wpc' = "idle" /\ wret' = "idle" /\ wput' = None
    /\ evac' = {} /\ evacVict' = {}
    /\ gpc' = "idle" /\ gcGen' = 0 /\ gcItems' = {} /\ gcVict' = {}
    /\ lost' = {}
    /\ UNCHANGED <<meta, prev>>

Next ==
    \/ \E p \in Path, v \in Val \cup {None} : ApplyFree(p, v) \/ ApplyRam(p, v)
    \/ ApplyDone
    \/ \E ret \in {"idle", "gc"} : SpillBegin(ret)
    \/ \E p \in Path : SpillWrite(p) \/ Prefetch(p)
    \/ SpillEnd
    \/ \E victims \in SUBSET Region : EvacScan(victims) \/ GcScan(victims)
    \/ EvacDrain
    \/ \E e \in evac : EvacCopy(e) \/ EvacFree(e)
    \/ EvacCopied \/ EvacEnd
    \/ PersistBegin \/ PersistCapture \/ PersistLink \/ PersistRename
    \/ PersistFails \/ RenameDurable \/ PersistDone
    \/ TakeSnapshot
    \/ \E g \in Gen : DropSnapshot(g)
    \/ PrefetchClear
    \/ GcPin \/ GcCheckCache \/ GcDrain \/ GcCollected \/ GcDropped
    \/ \E e \in gcItems : GcCopy(e) \/ InstallItem(e) \/ DiscardItem(e)
    \/ InstallBegin \/ InstallPin \/ InstallEnd
    \/ Crash

Spec == Init /\ [][Next]_vars

-----------------------------------------------------------------------------
(* Properties *)

\* The current contents.  Between the free of a record and the write of its
\* successor the writer has the value in hand.
CurrentValue(p) ==
    IF wpc = "apply" /\ wput[1] = p THEN wput[2] ELSE Value(p, front[p])

\* What SnapshotStore sees of the store.
dbBar   == [p \in Path |-> CurrentValue(p)]
snapBar == [g \in Gen |-> IF snapFront[g] = None THEN None
                          ELSE [p \in Path |-> Value(p, snapFront[g][p])]]
ckptBar == IF meta = None THEN None
           ELSE [p \in Path |-> DurableValue(p, meta.front[p])]

Store == INSTANCE SnapshotStore WITH
    db <- dbBar, op <- wput, snap <- snapBar, ckpt <- ckptBar

\* Whatever the allocator reuses, the GC moves or the cache serves: reads of
\* the frontier see the last write, reads of a snapshot what it froze, and a
\* crash brings back exactly the last checkpoint.
ImplementsStore == Store!Spec

CountIn(units) == [r \in Region |-> Cardinality({u \in units : RegionOf(u) = r})]

\* The units of the frontier's records, the relocated ones included.
FrontierUnits ==
    {front[p][2] : p \in {p \in Path : IsDisk(front[p]) /\ (wpc = "apply" => wput[1] # p)}}
        \cup ({e.new : e \in evac} \ {None})

\* The regions a frontier's records lie in.
RegionsOf(f) == {RegionOf(f[p][2]) : p \in {p \in Path : IsDisk(f[p])}}

\* What RegionReuse sees of the store.
heldBar       == CountIn(FrontierUnits)
copiesBar     == CountIn(Copies)
lostBar       == CountIn(lost)
snapsBar      == [g \in Gen |-> IF g \in taken THEN 1 ELSE 0]
seenBar       == [g \in Gen |-> IF snapFront[g] = None THEN {} ELSE RegionsOf(snapFront[g])]
cachedBar     == {RegionOf(u) : u \in {u \in Unit : cache[u] # None}}
durableBar    == IF meta = None THEN [r \in Region |-> 0] ELSE RecomputeLive(meta.front)
durableEndBar == IF meta = None THEN -1 ELSE meta.end
pendBar       == IF mnew = None THEN [r \in Region |-> 0] ELSE RecomputeLive(mnew.front)
pendEndBar    == IF mnew = None THEN 0 ELSE mnew.end
wpcBar        == CASE wpc \in {"spill", "copy"} -> "batch"
                   [] wpc \in {"captured", "linked", "renamed"} -> "captured"
                   [] wpc = "durable" -> "renamed"
                   [] OTHER -> "idle"
gpcBar        == IF gpc = "scanned" THEN "pinned" ELSE gpc

Reuse == INSTANCE RegionReuse WITH
    MaxClones <- 1, held <- heldBar, copies <- copiesBar, lost <- lostBar,
    snaps <- snapsBar, seen <- seenBar, cached <- cachedBar,
    durable <- durableBar, durableEnd <- durableEndBar,
    pend <- pendBar, pendEnd <- pendEndBar, wpc <- wpcBar, gpc <- gpcBar

\* The store calls the allocator only as RegionReuse lets its clients: what is
\* proved of that specification holds of the store's regions.
ImplementsReuse == Reuse!Spec
=============================================================================
