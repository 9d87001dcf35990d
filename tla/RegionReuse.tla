---------------------------- MODULE RegionReuse ----------------------------
(***************************************************************************)
(* Who may still read a region when the allocator reopens it for writing.  *)
(* The allocator of RegionAlloc runs under all of its callers, at the      *)
(* granularity of one call under the allocator's mutex:                    *)
(*                                                                         *)
(*   - the writer (every &mut self method of FlatMpt): writes and frees    *)
(*     records, installs a background GC batch, persists;                  *)
(*   - snapshots, taken between writer calls, dropped and cloned anywhere; *)
(*   - one background GC thread (gc_collect): pins a snapshot, drains the  *)
(*     staged regions if it saw the read-ahead cache empty, then appends   *)
(*     copies that the writer later installs or discards;                  *)
(*   - the prefetcher that fills the read-ahead cache, keyed by unit;      *)
(*   - a crash, after which open() restarts from the last manifest.        *)
(*                                                                         *)
(* What each of them references is kept per region: held, copies and lost  *)
(* count the units of the frontier's records, of the copies of a batch in  *)
(* flight and of the copies of a batch that was dropped; seen is what each *)
(* snapshot's frontier references, cached what the read-ahead cache holds, *)
(* durable and pend what the last manifest and the one being written do.   *)
(***************************************************************************)
EXTENDS RegionAlloc

CONSTANTS MaxClones   \* bound on the pins of one generation

ASSUME ClonesAssumption == MaxClones \in Nat

VARIABLES
    held, copies, lost,     \* units per region, by who references them
    snaps,                  \* FlatSnapshots of each generation readers own
    seen,                   \* regions the snapshots of a generation may read
    cached,                 \* regions with an entry in the read-ahead cache
    durable, durableEnd,    \* units per region and file end of the manifest
    pend, pendEnd,          \* the same of the manifest being written
    wpc,                    \* where the writer is in write_batch or persist
    gpc, gcGen              \* where gc_collect is, and its pin generation

clientVars == <<held, copies, lost, snaps, seen, cached, durable, durableEnd, pend,
                pendEnd, wpc, gpc, gcGen>>
vars == <<raVars, clientVars>>

Counts     == [Region -> 0 .. RegionUnits]
NoUnits    == [r \in Region |-> 0]
NoManifest == -1

TypeOK ==
    /\ AllocTypeOK
    /\ held \in Counts /\ copies \in Counts /\ lost \in Counts
    /\ snaps \in [Gen -> Nat]
    /\ seen \in [Gen -> SUBSET Region]
    /\ cached \in SUBSET Region
    /\ durable \in Counts /\ durableEnd \in (0 .. NumRegions) \cup {NoManifest}
    /\ pend \in Counts /\ pendEnd \in 0 .. NumRegions
    /\ wpc \in {"idle", "batch", "captured", "renamed"}
    /\ gpc \in {"idle", "pinned", "checked", "copying", "collected"}
    /\ gcGen \in 0 .. MaxGen

Init ==
    /\ AllocInit
    /\ held = NoUnits /\ copies = NoUnits /\ lost = NoUnits
    /\ snaps = [g \in Gen |-> 0] /\ seen = [g \in Gen |-> {}]
    /\ cached = {}
    /\ durable = NoUnits /\ durableEnd = NoManifest
    /\ pend = NoUnits /\ pendEnd = 0
    /\ wpc = "idle" /\ gpc = "idle" /\ gcGen = 0

HeldRegions == {r \in Region : held[r] > 0}

-----------------------------------------------------------------------------
(* The writer *)

\* write_payload, or one run of write_batch: the frontier gets a new record.
WriteRecord(run, units) ==
    /\ wpc \in {"idle", "batch"}
    /\ units \in 1 .. run
    /\ Alloc(run, units)
    /\ held' = [held EXCEPT ![head'] = @ + units]
    /\ UNCHANGED <<copies, lost, snaps, seen, cached, durable, durableEnd, pend,
                   pendEnd, wpc, gpc, gcGen>>

\* write_batch begins with drain_staged_if_unaliased.  The writer borrows the
\* FlatMpt, so no prefetch runs between the test and the drain.  Its own worker
\* threads (apply_block runs one per top-level slot) may be writing and freeing
\* records, or inside a write_batch, meanwhile.
WriteBatch ==
    /\ wpc \in {"idle", "batch"}
    /\ wpc' = "batch"
    /\ IF cached = {} THEN DrainStaged ELSE UNCHANGED raVars
    /\ UNCHANGED <<held, copies, lost, snaps, seen, cached, durable, durableEnd,
                   pend, pendEnd, gpc, gcGen>>

WriteBatchDone ==
    /\ wpc = "batch"
    /\ wpc' = "idle"
    /\ UNCHANGED <<raVars, held, copies, lost, snaps, seen, cached, durable,
                   durableEnd, pend, pendEnd, gpc, gcGen>>

\* FlatFile::free of a record the frontier drops.
FreeRecord(r, units) ==
    /\ wpc \in {"idle", "batch"}
    /\ units \in 1 .. held[r]
    /\ Free(r, units)
    /\ held' = [held EXCEPT ![r] = @ - units]
    /\ UNCHANGED <<copies, lost, snaps, seen, cached, durable, durableEnd, pend,
                   pendEnd, wpc, gpc, gcGen>>

\* gc_install, one relocation whose record is still where it was collected:
\* the frontier takes the copy in region q, the old record is freed.
InstallCopy(r, q, units) ==
    /\ gpc = "collected" /\ wpc = "idle"
    /\ r # q
    /\ units \in 1 .. copies[q] /\ units <= held[r]
    /\ Free(r, units)
    /\ held' = [held EXCEPT ![r] = @ - units, ![q] = @ + units]
    /\ copies' = [copies EXCEPT ![q] = @ - units]
    /\ UNCHANGED <<lost, snaps, seen, cached, durable, durableEnd, pend, pendEnd,
                   wpc, gpc, gcGen>>

\* Mutant: a stale copy is forgotten.
DiscardCopyLeaks(q, units) ==
    /\ gpc = "collected" /\ wpc = "idle"
    /\ units \in 1 .. copies[q]
    /\ copies' = [copies EXCEPT ![q] = @ - units]
    /\ UNCHANGED <<raVars, held, lost, snaps, seen, cached, durable, durableEnd,
                   pend, pendEnd, wpc, gpc, gcGen>>

\* gc_install, one relocation gone stale: the copy is freed.
DiscardCopy(q, units) ==
    /\ gpc = "collected" /\ wpc = "idle"
    /\ units \in 1 .. copies[q]
    /\ Free(q, units)
    /\ copies' = [copies EXCEPT ![q] = @ - units]
    /\ UNCHANGED <<held, lost, snaps, seen, cached, durable, durableEnd, pend,
                   pendEnd, wpc, gpc, gcGen>>

\* The end of gc_step and of gc_install: victims that could not be emptied.
PinVictims(victims) ==
    /\ wpc = "idle"
    /\ PinStillLive(victims)
    /\ UNCHANGED clientVars

\* persist(): the file is synced and the manifest serialized ...
PersistCapture ==
    /\ wpc = "idle"
    /\ wpc' = "captured"
    /\ pend' = held /\ pendEnd' = fileEnd
    /\ UNCHANGED <<raVars, held, copies, lost, snaps, seen, cached, durable,
                   durableEnd, gpc, gcGen>>

\* ... renamed over the last one, which commits it ...
PersistRename ==
    /\ wpc = "captured"
    /\ wpc' = "renamed"
    /\ durable' = pend /\ durableEnd' = pendEnd
    /\ pend' = NoUnits /\ pendEnd' = 0
    /\ UNCHANGED <<raVars, held, copies, lost, snaps, seen, cached, gpc, gcGen>>

\* ... unless a write, a sync or the rename fails ...
PersistFails ==
    /\ wpc = "captured"
    /\ wpc' = "idle"
    /\ pend' = NoUnits /\ pendEnd' = 0
    /\ UNCHANGED <<raVars, held, copies, lost, snaps, seen, cached, durable,
                   durableEnd, gpc, gcGen>>

\* ... and the allocator is told.
PersistDone ==
    /\ wpc = "renamed"
    /\ wpc' = "idle"
    /\ OnPersisted
    /\ UNCHANGED <<held, copies, lost, snaps, seen, cached, durable, durableEnd,
                   pend, pendEnd, gpc, gcGen>>

-----------------------------------------------------------------------------
(* Snapshots and the read-ahead cache *)

\* FlatMpt::snapshot: it shares the frontier, hence the regions it references.
TakeSnapshot ==
    /\ wpc = "idle"
    /\ Pin
    /\ snaps' = [snaps EXCEPT ![pinGen + 1] = @ + 1]
    /\ seen' = [seen EXCEPT ![pinGen + 1] = HeldRegions]
    /\ UNCHANGED <<held, copies, lost, cached, durable, durableEnd, pend,
                   pendEnd, wpc, gpc, gcGen>>

\* Those who read through a pin of generation g: snapshots, and the GC batch
\* in flight, which owns the one it was collected from.
GcPins(g)  == IF gpc # "idle" /\ gcGen = g THEN 1 ELSE 0
Readers(g) == snaps[g] + GcPins(g)

\* FlatSnapshot::clone.
CloneSnapshot(g) ==
    /\ Readers(g) > 0 /\ Readers(g) < MaxClones
    /\ PinAt(g)
    /\ snaps' = [snaps EXCEPT ![g] = @ + 1]
    /\ UNCHANGED <<held, copies, lost, seen, cached, durable, durableEnd, pend,
                   pendEnd, wpc, gpc, gcGen>>

\* The last reader of a generation takes its frontier along.
SeenAfterDrop(g) == [seen EXCEPT ![g] = IF Readers(g) > 1 THEN @ ELSE {}]

\* Drop of a FlatSnapshot, at any moment.
DropSnapshot(g) ==
    /\ snaps[g] > 0
    /\ Unpin(g)
    /\ snaps' = [snaps EXCEPT ![g] = @ - 1]
    /\ seen' = SeenAfterDrop(g)
    /\ UNCHANGED <<held, copies, lost, cached, durable, durableEnd, pend,
                   pendEnd, wpc, gpc, gcGen>>

\* prefetch_block: the record of a live pointer is cached under its unit.
Prefetch(r) ==
    /\ wpc = "idle"
    /\ held[r] > 0
    /\ cached' = cached \cup {r}
    /\ UNCHANGED <<raVars, held, copies, lost, snaps, seen, durable, durableEnd, pend,
                   pendEnd, wpc, gpc, gcGen>>

\* prefetch_clear: the cache is emptied and the staged regions released,
\* with the cache locked.
PrefetchClear ==
    /\ wpc = "idle"
    /\ cached' = {}
    /\ DrainStaged
    /\ UNCHANGED <<held, copies, lost, snaps, seen, durable, durableEnd, pend,
                   pendEnd, wpc, gpc, gcGen>>

-----------------------------------------------------------------------------
(* The background GC thread *)

\* snapshot() for a collect.
GcPin ==
    /\ gpc = "idle" /\ wpc = "idle"
    /\ Pin
    /\ seen' = [seen EXCEPT ![pinGen + 1] = HeldRegions]
    /\ gpc' = "pinned" /\ gcGen' = pinGen + 1
    /\ UNCHANGED <<held, copies, lost, snaps, cached, durable, durableEnd, pend,
                   pendEnd, wpc>>

\* drain_staged_if_unaliased of the GC thread, first half: the length is
\* read without a lock.
GcCheckCache ==
    /\ gpc = "pinned"
    /\ gpc' = IF cached = {} THEN "checked" ELSE "copying"
    /\ UNCHANGED <<raVars, held, copies, lost, snaps, seen, cached, durable,
                   durableEnd, pend, pendEnd, wpc, gcGen>>

\* Second half: by now the prefetcher may have filled the cache and the
\* writer freed what it cached.
GcDrain ==
    /\ gpc = "checked"
    /\ gpc' = "copying"
    /\ DrainStaged
    /\ UNCHANGED <<held, copies, lost, snaps, seen, cached, durable, durableEnd, pend,
                   pendEnd, wpc, gcGen>>

\* write_batch_parallel: one run of copies.
GcCopy(run, units) ==
    /\ gpc = "copying"
    /\ units \in 1 .. run
    /\ Alloc(run, units)
    /\ copies' = [copies EXCEPT ![head'] = @ + units]
    /\ UNCHANGED <<held, lost, snaps, seen, cached, durable, durableEnd, pend,
                   pendEnd, wpc, gpc, gcGen>>

\* gc_collect returns, early when there is nothing to copy.
GcCollected ==
    /\ gpc \in {"pinned", "copying"}
    /\ gpc' = "collected"
    /\ UNCHANGED <<raVars, held, copies, lost, snaps, seen, cached, durable,
                   durableEnd, pend, pendEnd, wpc, gcGen>>

\* gc_install returns: the batch drops its snapshot.
GcInstalled ==
    /\ gpc = "collected" /\ wpc = "idle"
    /\ copies = NoUnits
    /\ Unpin(gcGen)
    /\ seen' = SeenAfterDrop(gcGen)
    /\ gpc' = "idle" /\ gcGen' = 0
    /\ UNCHANGED <<held, copies, lost, snaps, cached, durable, durableEnd, pend,
                   pendEnd, wpc>>

\* gc_collect fails, or its batch is dropped: nobody frees the copies.
GcDropped ==
    /\ gpc # "idle"
    /\ Unpin(gcGen)
    /\ seen' = SeenAfterDrop(gcGen)
    /\ lost' = [r \in Region |-> lost[r] + copies[r]]
    /\ copies' = NoUnits
    /\ gpc' = "idle" /\ gcGen' = 0
    /\ UNCHANGED <<held, snaps, cached, durable, durableEnd, pend, pendEnd, wpc>>

-----------------------------------------------------------------------------
\* Crash and open().
Crash ==
    /\ durableEnd # NoManifest
    /\ AllocOpen(durable, durableEnd)
    /\ held' = durable /\ copies' = NoUnits /\ lost' = NoUnits
    /\ snaps' = [g \in Gen |-> 0] /\ seen' = [g \in Gen |-> {}]
    /\ cached' = {}
    /\ wpc' = "idle" /\ gpc' = "idle" /\ gcGen' = 0
    /\ pend' = NoUnits /\ pendEnd' = 0
    /\ UNCHANGED <<durable, durableEnd>>

Units == 1 .. RegionUnits

Next ==
    \/ \E run, units \in Units : WriteRecord(run, units)
    \/ \E r \in Region, units \in Units : FreeRecord(r, units)
    \/ WriteBatch \/ WriteBatchDone
    \/ \E r, q \in Region, units \in Units : InstallCopy(r, q, units)
    \/ \E q \in Region, units \in Units : DiscardCopy(q, units)
    \/ \E victims \in SUBSET Region : PinVictims(victims)
    \/ PersistCapture \/ PersistRename \/ PersistFails \/ PersistDone
    \/ TakeSnapshot
    \/ \E g \in Gen : CloneSnapshot(g) \/ DropSnapshot(g)
    \/ \E r \in Region : Prefetch(r)
    \/ PrefetchClear
    \/ GcPin \/ GcCheckCache \/ GcDrain
    \/ \E run, units \in Units : GcCopy(run, units)
    \/ GcCollected \/ GcInstalled \/ GcDropped
    \/ Crash

Spec == Init /\ [][Next]_vars

-----------------------------------------------------------------------------
(* Properties.  A region is about to be overwritten from its start when it *)
(* is one of NewHeadChoices: it must then be nobody's.                     *)

\* No region open_new_head may pick holds a record of the frontier or a copy
\* that a GC batch may still install.
FrontierNotOverwritten ==
    \A r \in NewHeadChoices : held[r] = 0 /\ copies[r] = 0

\* No region open_new_head may pick is referenced by a live snapshot's
\* frontier: what snapshot() promises ("every record the snapshot can reach
\* stays readable at its recorded location").
SnapshotsNotOverwritten ==
    \A r \in NewHeadChoices, g \in Gen : Readers(g) > 0 => r \notin seen[g]

\* No region open_new_head may pick is referenced by the manifest a crash
\* would reopen, at any point of persist().
CheckpointNotOverwritten ==
    \A r \in NewHeadChoices : durable[r] = 0 /\ (wpc = "captured" => pend[r] = 0)

\* No region open_new_head may pick has an entry in the read-ahead cache,
\* which would be served to the reader of the new record.
ReadAheadNotAliased == \A r \in NewHeadChoices : r \notin cached

\* The allocator's count is exact: it is what the frontier, a batch in flight
\* and the dropped batches hold (what audit_live_units compares).
LiveCountsExact == \A r \in Region : live[r] = held[r] + copies[r] + lost[r]

\* A region waits in at most one place, once, and only when dead: nothing
\* pushes it twice, so it is never handed out twice.
ListedOnce ==
    /\ freeRegions \cap stagedFree = {}
    /\ freeRegions \cap quarantine = {}
    /\ stagedFree \cap quarantine = {}
    /\ \A h \in snapHold : h[1] \notin freeRegions \cup stagedFree \cup quarantine
    /\ \A h, k \in snapHold : h[1] = k[1] => h = k
    /\ \A r \in freeRegions \cup stagedFree \cup quarantine : live[r] = 0 /\ r # head
    /\ \A h \in snapHold : live[h[1]] = 0 /\ h[1] # head

\* A dead region is parked only while a snapshot, or a batch, is live that was
\* taken before it was parked: later ones hold nothing back (the documentation of
\* live_pins: "it re-enters circulation as soon as the OLDEST live pin is newer
\* than G", the generation it was parked at).
ParkedForOldReaders ==
    \A h \in snapHold : \E g \in Gen : g <= h[2] /\ Readers(g) > 0
=============================================================================
