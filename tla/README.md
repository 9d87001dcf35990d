# A TLA+ verification of mpt-flat-poc

`mpt-flat-poc` is an Ethereum Merkle-Patricia trie kept in two places: a RAM
*frontier* (the upper trie) and a *flat file* of records, each holding one
subtree below the frontier. Records are never updated in place: a change reads
a record, frees it, and writes its successor at the head of a log cut into
regions. Everything hard in the program follows from that: when may a region
be written again, while snapshots, a checkpoint, a prefetch cache and a
background garbage collector may all still point into it?

This directory holds TLA+ models of that program, TLC configurations that
check them on small instances, and TLAPS proofs for every size.

## Inventory

| Component | Where | State | Operations | Correct when |
|---|---|---|---|---|
| Region allocator | `RegionAlloc` | live units per region, head, free / staged / quarantined / held regions, pins, fresh and pinned flags | `alloc`, `free`, `on_persisted`, `pin`, `pin_at`, `unpin`, `drain_staged`, `select_victims` | a region is reopened only when nobody reads it; a dead one comes back |
| Flat file and read-ahead cache | `FlatFile` | the file, the cache (unit → payload) and its length | `write_payload`, `write_batch`, `write_batch_parallel`, `read_lazy`, `read_region`, `free`, `read_ahead_*` | a read returns the record its pointer was made for |
| Snapshots | `FlatSnapshot`, `GcBatch` | a frontier, a pin generation | `snapshot`, `clone`, drop, reads | a snapshot reads what it froze, whatever the writer does |
| Inline GC | `gc_step`, `evacuate_regions` | cleaning rate | scan, copy, free, install, pin | contents unchanged, garbage shrinks |
| Background GC | `gc_collect`, `gc_install` | the batch in flight | collect on a thread, install by the writer | no record lost or resurrected |
| Checkpoint and recovery | `persist`, `open` | manifest, `.prev` | spill, GC, sync, link, rename, sync, `on_persisted`; reopen | a crash anywhere goes back to the last checkpoint |
| Hot-record cache | `MemLeaf`, `spill_*` | Mem leaves, clock bits, byte count | spill by quota or in full | nothing in RAM is lost by a checkpoint |
| Block updates | `apply_block`, `normalize_block` | – | fold to net updates, apply, inverse | net = one by one; fails only on what nobody can apply; inverse restores |
| Frontier structure | `insert_ram`, `delete_ram`, `apply_ram_group`, promotion, demotion, collapse | the RAM trie | insert, delete, rehome, collapse | same contents, canonical shape |
| Record trie | `record_node_insert`, `record_node_delete`, `prepend_path` | a record's nodes | insert, delete, wipe | canonical trie, hence canonical root |
| Bulk loads | `insert_batch*`, fold passes | – | group by record, fold in parallel | same as one by one |
| Record codec | `serialize_*`, `LazyReader` | – | encode, decode lazily | decode inverts encode |
| Hashing, audits | `hash_ram`, `HashCell`, `audit_*` | cached hashes | hash, clear, audit | a cached hash is never stale |
| Reads and cursors | `get_*`, `scan`, `cursor.rs` | position in the trie | read, scan; seek, next over leaves and over branches | every key once, in order, wherever it lives; the branches of the trie, wherever they are cut |
| Reveal walks | `reveal.rs` | – | the nodes on a key's path, with masks | the whole path and nothing else |
| Typed state, code store | `state.rs` | code log, its index and end | get and set accounts, codes; `persist`; scan on open | a code that was flushed is found for ever; a torn tail is dropped |

Interactions. The writer is whoever holds `&mut FlatMpt`; its own worker
threads share the allocator's mutex. Snapshots share the frontier's immutable
nodes (copy on write) and the store, and are dropped on any thread. The GC
thread works through a snapshot and the store only; the writer installs its
batch. Prefetching borrows `&FlatMpt`, so it never overlaps the writer, but it
does overlap the GC thread. A crash leaves the file, the manifest and `.prev`.

Hard behaviours: the order in which a region's last reader goes (snapshot,
checkpoint, cache); the GC thread's unlocked test of the cache; a batch that
is stale when installed; a crash between any two steps of `persist`; blocks
whose operations undo each other; readers that cross from the frontier into
records and promoted storage; two files synced one after the other; and what
never happens again (a region that is never reused). `PROJECT.json` lists them
as hazards, line by line.

## Modules

| Module | Models | Uses |
|---|---|---|
| `RegionAlloc` | `RegionAlloc`: one operator per method | |
| `RegionReuse` | all callers of the allocator, counting who references each region | `RegionAlloc` |
| `RegionReuseProofs` | the TLAPS proofs about `RegionReuse` | |
| `SnapshotStore` | what the store promises: a map, frozen snapshots, one durable copy | |
| `FlatStore` | the store record by record: writer, spills, both GCs, persist, cache, crash | `RegionAlloc`; implements `SnapshotStore` and `RegionReuse` |
| `FlatStoreProofs` | the proofs about `FlatStore`: its invariant, one lemma per action, the theorems | `RegionReuseProofs`, through the refinement mapping |
| `RollingPin` | the allocator under an embedder that republishes its snapshot: dead regions return, or do not | `RegionAlloc` |
| `RollingPinProofs` | its type correctness, its pins and what they hold, proved | the lemmas of `RegionReuseProofs` |
| `BlockUpdate` | `normalize_block`, `apply_net_in_record`, opaque accounts, failure, the inverse, for one account | |
| `BlockUpdateProofs` | the proofs about it | |
| `Paths` | keys, the paths to them, and their order: what the trie modules and the cursors share | |
| `PathTheorems` | lemmas about paths: prefixes, where two paths part, the branches of a trie, the order, what comes next | |
| `Trie` | the node trees inside records: insert, delete, and the reference trie of a set of keys | |
| `Frontier` | the RAM frontier over records: single operations, `apply_block`, `insert_batch_accounts`, promotion, demotion, collapse, spill, cached hashes and their audit | `Trie` |
| `FrontierCut` | what the frontier promises without the trees: where the one trie is cut into records | `Paths` |
| `FrontierCutProofs` | the proofs about it | the lemmas of `PathTheorems` |
| `FrontierGroups` | the frontier with a block taken group by group, implementing `FrontierCut` | `Frontier`, `FrontierCut` |
| `Views` | point reads, the scan, ordered cursors over leaves and over branches | `Frontier` |
| `Cursor` | an ordered cursor: `seek` walking node by node, and `next` | `Paths` |
| `CursorProofs` | the proofs about it | the lemmas of `PathTheorems` |
| `Reveal` | the reveal walks and the reads that come with one | `Views` |
| `EthState` | the typed state's code log beside the checkpoints of the trie | |
| `EthStateProofs` | the proofs about it | |
| `MCRegionReuse`, `MCFlatStore`, `MCFrontier`, `MCFrontierCut`, `MCFrontierGroups`, `MCCursor`, `MCEthState` | the instances TLC runs | |

Correspondence. In `RegionAlloc` the variables are the struct's fields
(`freeRegions` is `free_regions`, and so on) and each operator is one method,
run under the mutex, hence one step. The lists are sets, and the next head is
any free region where the code pops the last. `fileEnd` is `end_page` rounded
up to regions. Epochs, which order the victims of a GC pass, are dropped: a
pass takes any subset of the eligible regions.

In `FlatStore` a frontier is a function from slots (paths) to nothing, a Mem
leaf or a unit; a record is its path and one value, one unit long. A method of
the code is a sequence of steps, cut where the allocator's mutex is released
(`wpc` is the writer's position, `gpc` the GC thread's). `db` in a manifest is
a history variable: what it recorded. Between the free of a record and the
write of its successor the writer holds the value (`wput`); nobody can read in
between, since the frontier is the writer's own. `PersistFails` is an I/O error
of `persist` up to the rename, after which the embedder may go on; an error
after the rename is taken for a crash.

In `BlockUpdate` one account is enough: `normalize_block` groups by account
and each group is applied on its own. Record sizes are abstracted to "a
storage with two slots may be promoted". The operations of a block come one at
a time (`FoldOp`) and the variable `upd` is the net update so far, which is the
loop of `normalize_block`; `seq` is the account they would leave one by one. An
update writes a slot once, so it is a function on slots and the order of the
writes plays no part; the inverse is kept folded, since `apply_block` is all
that is ever done with it. Several blocks may be rolled back, newest first,
until `Finalize` drops the oldest inverse. An opaque account, whose storage is
known by its root only, is the flag `opaque`. A block that fails on one stops
the model (the embedder drops the instance), and leaves the account where its
record was on disk, or loses it where the record was in RAM: `apply_group_child`
takes a Mem record out of its slot before it tries.

In `Trie` and `Frontier` a key is a short sequence of nibbles and a hash is the
trie it is the hash of, so two roots are equal exactly when the tries are. A
record is a prefix and a node tree; a Disk child carries the record it points
at, so the moves of the GC are invisible here (they are `FlatStore`'s subject)
and `live` is the set of records written and not freed. Sizes are counted in
leaves, which is enough to have every record above and below `max_leaf_bytes`
and `MAX_RECORD_BYTES`. The recursive functions of the code are recursive
operators with the same names; a Rust `&mut` argument is a result, a `?` on an
I/O error is left out. One action is one call of the public API, as the writer
holds `&mut self`; the threads `apply_block` starts work on disjoint children
and meet only in the allocator, so their order does not matter here. The
hashes that `root()` caches at the end of each call are part of the action.
`want` is a history variable: what the operations asked for. A bulk load goes
through the code's steps: buckets by first nibble, the last entry of the first
one to bootstrap the top, then a thread for each child of the top, or one entry
after the other. In a load no two entries have the same key.

`FrontierCut` is the frontier without trees, and so without recursion. A frontier
is the set of paths of its branches and a function from the paths of its other
children to what they are; an extension is what lies between two branches; a
record is its prefix and the accounts in it. A walk for a key leaves the
branches at one place (`LeavesAt`), where `insert_ram` and `delete_ram` end, and
the actions are the cases they meet there. Which records are lifted into
branches, and what is on disk or in memory, depends on sizes and modes and is
left open: any upward-closed set of a record's branches. `FrontierGroups` takes
`apply_block` apart (`Group`, `FoldTop`, `SpillSome`) and maps the trees to a
cut (`CutOf`), where an account is its leaf; under that map each step of the
frontier is a step of `FrontierCut`, or none.

`Cursor` is one seek of `node_seek` and `ram_seek`, or of their branch twins,
taken node by node. A call on a node is "down", its return with `None` is "up";
the loop that goes on is the one of the branch above, which the path of the node
determines, so there is no stack. An extension is skipped, or gives up comparing
(`min`), in the step that enters the node below it. Where the trie is cut into
records makes no difference to the walk: `rel` and the comparisons see paths
only. The walks on the nodes, with the cuts, are in `Views`.

`Views` and `Reveal` add no variables: a reader walks a frontier that does not
change under it, so each read is an operator of the frontier, and TLC evaluates
it in every state the writer can reach. The recursion is the code's, function
by function, with the boundary between frontier, record and promoted storage
where the code has it; a cursor is its last key or path, and `AccountsFrom` is
the list a loop over `next` would give. Masks are sets of nibbles.

In `EthState` the log is a sequence of cells: two of header (the hash, the
length) and the code's own, so a write or a crash can stop at any of the
boundaries the scan has to tell apart. Of the trie it keeps the code hash of
each account and the last checkpoint. `SetCodeFails` leaves the file's cursor
and `end` apart, as a failing `write_all` does; a power failure keeps what was
synced and any prefix of the rest. `open` reads the log in steps (`Open`, a
`ScanEntry` for each entry, `ScanEnds`); nothing else runs before it is done.
Any number of puts may fail, one behind the other. `failed`, `flushed`, `risky`
and `lost` are history.

## Runs

Passing runs:

| Run | Instance | Shows |
|---|---|---|
| `region_reuse` | 2 regions of 1 unit, 2 generations, 2 clones | no region about to be overwritten is the frontier's, a batch's, a snapshot's, a manifest's or a cache entry's; counts exact; a region waits in one place, and never for a snapshot taken after it was parked |
| `store_durability` | 2 regions of 1 unit, 1 slot, 2 values, 1 generation, hot records, 1 cached unit | reads, checkpoints that succeed or fail and crashes, over spills, `gc_step`, prefetches and a snapshot or a GC batch |
| `rolling_pin` | 3 regions; a pin always live, with persists or without, and persists with and without a pin live | dead regions return, unless the embedder persists and always has a pin live; while pins overlap, a parked region that a checkpoint may refer to stays parked |
| `block_update` | 2 slots, 2 values, 2 field values, blocks of any length, 2 blocks to roll back, plain and opaque accounts | net = one by one but for creation; fails exactly on changes of unknown slots; inverse restores but for rewritten slots |
| `frontier` | 4 accounts, one of them with 4 slots, records of 1 or 2 leaves, with and without hot cache, and a RAM build | the root is that of the one trie of the contents; the audit finds nothing; every record referenced once, found by its prefix, within its bound; nothing fails but the removal of the last account but one; reads, scans, cursors and reveals return the contents and the trie's own branches and paths |
| `frontier_cut` | 5 accounts with keys of 4 bits | the frontier is the top of the one trie; reads, records and their prefixes |
| `frontier_groups` | the accounts of `frontier`, one with 2 slots, 4 blocks, all modes | `Frontier` implements `FrontierCut`, blocks taken group by group |
| `cursor` | up to 6 keys of 3 nibbles below 3, any key or path sought, any number of calls of `next` | everything from what was sought, in order, once; every seek returns |
| `eth_state` | 1 account, codes of 1 and 2 cells, a log of 8 cells | the index leads to the codes after any crash and reopening; flushed codes survive; after a persist no power failure takes a code of the checkpoint |

Bounds. A region must be able to be dead for the frontier and referenced by
another at the same time, with one more to write into: two regions do, for the
allocator and for the store (a checkpoint fills one). Two generations give a
snapshot older and one newer than a death. A region is never reclaimed while it
is the head, so with one slot only a reopened store reuses regions, which a
crash in every state gives. A batch over several records, in regions that die in
part, is left to the proofs, which have no bound. `MaxGen`, `NumRegions`,
`Persists` and `MaxCached` (units in the read-ahead cache) cut the state space:
with no free region a write waits, which is why the two runs do not check
deadlock. Slots and values are symmetric; symmetry is used with safety
properties only. Where a type invariant is proved and says no more than types,
no run checks it.

In `block_update` the state space is finite although blocks are of any length:
of the operations so far only the fold, the account they leave and whether they
change an unknown slot matter. `MaxUndo`, the number of blocks that can be rolled back, is
the one bound, and two blocks are enough to roll one back to where another led.
The run does not check deadlock because a panic ends the process.

In `frontier` the keys of 4 nibbles make extensions of one and two nibbles in
the account trie and in the storage trie, next to branches without; a limit of
one leaf promotes every record that has a branch, a limit of two keeps records
with a branch of their own, and the blocks (`MCBlocks`) create an account that
is at once too large for one record, wipe it, demote it in the middle of a
slot loop, and delete on both sides of a branch; the loads (`MCLoads`) come
out of key order, on one and on two children of the top. `MCTargets`, the keys
readers ask for, are keys that are there, keys that part from them in every
position, and the last key. The state space is finite and nothing is cut; the
run does not check deadlock because an error ends the instance.

In `frontier_cut` the five keys part at every depth, the last nibble included, so
that a branch may hold two records of one account, a lone one, or another
branch; every shape of a split, a fold and a collapse is reached. In
`frontier_groups` the blocks delete and create on both sides of the top, so that
`FoldTop` finds it with two children, one and none. In `cursor` every subset of
the keys is a trie, with the root as a branch of its own or not; two keys differ
in the last nibble, two in the first, and the last key is the greatest there is,
so that carries of every length and the end of the key space occur.
`frontier_cut` and `frontier_groups` do not check deadlock because an error, or
a panic, ends the instance; `cursor` does check it.

In `eth_state` eight cells let a torn entry be followed by two whole ones or a
whole one by a torn one. Once an entry was put behind the remains of a failed
put, what the log may be read as grows with every cell, and `BuriedBound` follows
it up to `MaxBuried` cells: enough for any remains with a code buried behind
them. The proofs do not have this bound, and hold for every `MaxLog`.

The store's refinements tie the layers: `ImplementsStore` says that what
callers see is `SnapshotStore`, `ImplementsReuse` that the store calls the
allocator only as `RegionReuse` allows, so what is proved of `RegionReuse`
holds of the store. Both are proved as well, for every size.

Fairness appears in `RollingPin` and `Cursor`. In `Cursor` it is weak fairness
of the walk: a seek is a call that runs, alone, until it returns. In
`RollingPin` it is the embedder's: it clears the
cache after each block, republishes and drops the old snapshot (weak
fairness). The embedder "persists" also lets its last snapshot go again and
again, and persists again and again before it publishes the next one; both are
disabled now and then, and are not put off for ever (strong fairness). A persist
with a pin live may come at any time, or never. Writes and frees need none. `Renumber` shifts the pin generations,
which the code only ever compares, so that republishing can go on for ever.

### Findings

Runs that end in a counterexample, each against what a comment or a test says:

- `block_inverse`: the inverse of a wipe followed by a write of a slot that
  had a value ends in a `DeleteStorage` of that slot: the rollback loses it.
- `block_panic`: wiping or deleting a promoted account packs 128 nibbles into
  a 32-byte key; the rollback of the block that created it is enough.
- `eth_code_order`: `EthState::persist` checkpoints the trie, then syncs the
  code log. A power failure in between leaves an account whose code was never on
  disk, though `CodeStore::open` calls it always safe to drop a torn entry.

Met while modelling, without a run of their own:

- With a snapshot live at every persist, a dead region that a checkpoint
  referenced is not reused: `on_persisted` (lib.rs:687) moves the quarantine to
  `snap_hold` under the current generation, and `release_snap_hold` moves it
  back to the quarantine. The documentation of `live_pins` (lib.rs:574) says
  that such a region re-enters circulation once the oldest live pin is newer
  than its death, and the test `rolling_pin_does_not_starve_reclamation` wants
  reclamation to work with a snapshot pinned at all times; it does not persist.
  `HeldWhilePinned`, checked in `rolling_pin` and proved for every size, says what
  the code does instead: while pins overlap, such a region stays in `snap_hold`
  and `quarantine`. An embedder that replaces its published snapshot before it
  drops the old one always has a pin live, so it never gets the region back; this
  is why `DeadRegionsReturnUnlessPinned` leaves out "pinned, persists". The test
  of the parking (lib.rs:10718) agrees with the code: it is "the NEXT unpinned
  persist" that frees the region.
- `on_persisted` (lib.rs:695) makes every quarantined region reusable at once,
  among them those that only `.prev` references: once something has been
  written, a fallback to `.prev` opens on foreign records. The test of the
  fallback (lib.rs:9407) writes nothing after the second persist.
- A region that dies while it is the head, or is dead when `open` rebuilds the
  allocator, is on no list and never reused (`free`, lib.rs:665), though the
  allocator's documentation (lib.rs:527) says that a region whose live count
  reaches zero returns to the free regions.
- `ram_child_seek` asserts (debug builds) that the prefix of a record is as long
  as the path of the walk (cursor.rs:254). Records of promoted storage carry
  composite prefixes, so a storage cursor over such an account panics in a debug
  build; `Views` models the release build, which ignores the prefix. Same root
  cause as `block_panic`.
- The reveal sets `tree_mask` for every record, even one that holds a single
  leaf, while reveal.rs:39 says that it follows the cursors' rule.
  `RevealMasksFollowCursors` states the exception.
- `insert_batch_accounts` and `insert_batch_ram` apply the last entry of the
  first bucket first. If a load had the same key twice, the first of the two
  would win; `Loads` is assumed to have no such batch.
- `maybe_spill` says that it reverts to disk mode; it keeps building in memory,
  as `persist` and a test say it should.
- A sync of the directory that fails after the rename returns before
  `on_persisted`: the regions the new manifest references stay fresh, and an
  embedder that goes on may overwrite them. With a bare file name as path,
  `File::open("")` always fails there.
- `create` truncates the flat file and leaves an old `.meta` and `.prev` in
  place: a crash before the first `persist` reopens on a manifest whose records
  are gone.
- An error in the middle of a block drops a whole hot record from the frontier
  (lib.rs:4934), the other accounts in it included.
- Victims of a background GC are chosen from current live counts and scanned
  through an older snapshot; a record written in between stays behind in a
  victim, though `gc_install` says that cannot happen. Nothing is lost:
  `StoreRefines` is proved with that choice left open.
- A slot of a missing account written and deleted in one block leaves nothing;
  the same operations one by one leave an empty account. Hence the exception in
  `MatchesSequentialButCreation`.
- An insertion into the empty trie makes a root branch with one child, which
  stays until a deletion folds it: the root of a trie whose keys all share
  their first nibble depends on its history, and `delete_ram`'s "no frontier
  branch has fewer than two children" does not hold of it. `RootIsCanonical`
  and `TypeOK` state the exception.
- `apply_block` folds such a root, so on a trie with one account every block
  that adds no second one fails with "below 2 keys", and the failed collapse
  leaves `upper` empty. Its serial path also fails when the groups run so far
  leave one account although the block would add another.
  `FailsOnlyBelowTwoKeys` states exactly this.
- Two comments are out of date: `snapshot()` says that it makes `gc_step` a
  no-op, while `gc_step` says "Snapshot pins do NOT defer GC"; and the
  `read_ahead` field is described as consumed one-shot, while
  `read_ahead_take` leaves the entry.

## Proofs

Each proof module states its invariant in named parts, has a lemma for each
action (or for each allocator method, with the actions that call it), and ends
in theorems that follow by PTL. Nothing is bounded in them but by the constants,
and of those they use only the named assumptions beside their declarations.

### The allocator (`RegionReuseProofs`)

For every `NumRegions`, `RegionUnits`, `MaxGen` and `MaxClones`
(`AllocAssumption` and `ClonesAssumption`: the first two positive, the others
natural numbers), `Spec` implies `[]TypeOK`, `[]FrontierNotOverwritten`,
`[]SnapshotsNotOverwritten`, `[]CheckpointNotOverwritten`,
`[]ReadAheadNotAliased`, `[]LiveCountsExact`, `[]ListedOnce` and
`[]ParkedForOldReaders`, a `persist` that fails half-way included.

None of these is inductive alone: whether a region may be reopened depends on
how it got to where it waits. The inductive invariant `IInv` adds

- `HeadInv`: the live units of the head lie below the append point, and
  nothing lives past the file end;
- `ListInv`: dead regions lie within the file, each on one list;
- `PinCountInv`: the pins the allocator counts are the readers there are;
- `PinInv`: a region a live snapshot references waits, if dead, only in
  `snapHold`, under a tag not older than that snapshot;
- `CheckpointInv`: a fresh region, and one past the quarantine, is not the
  manifest's; a manifest being committed is the frontier's, since the writer is
  inside `persist`;
- `CacheInv`: nothing free is cached, and once the GC thread has seen the cache
  empty, nothing staged is cached either, nor anything that could be staged
  before it drains. This is the argument that makes its unlocked test safe:
  its own pin keeps every region that dies in the meantime in `snapHold`;
- `GcInv`: the batch in flight owns a live pin.

`ParkedForOldReaders` is the other direction of `SnapshotsNotOverwritten`: a dead
region is held back by nothing but a pin taken before it was parked. It needs
`ParkedInv` on top. That is not yet that the region returns: `on_persisted`
parks a region anew under the current generation, which is how a snapshot live at
every persist keeps one for ever.

`RollingPinProofs` uses the lemmas about the allocator's methods for the
embedders of `RollingPin` (`EmbedderAssumption`: at least two generations):
`[]TypeOK`, with an invariant that also says that the live pins are exactly the
published snapshot and the one it replaces, older than it, and that a dead region
waits in one place, within the file. From the latter follows the action property
`HeldWhilePinned`: a new head opens a free region or one past the end of the
file, neither of which is parked, so that a parked region does not become fresh
again; and every other way out of `snapHold` and `quarantine` needs a region that
is fresh, or a persist with no pin live.

### The store (`FlatStoreProofs`)

For every number of regions and units, any paths and values, any number of
generations, any utilisation caps, with and without hot records and checkpoints
(`AllocAssumption`, `StoreAssumption`, and `NoneAssumption`, that the marks for
"nothing" are not values):

- `ReuseRefines`: `Spec => ImplementsReuse`. Every step of the store is, for the
  allocator, a step of `RegionReuse` or none; so the theorems above hold of it.
- `StoreRefines`: `Spec => ImplementsStore`. Every step is a step of
  `SnapshotStore` or a stutter: reads return the last write, a snapshot what it
  froze, and a crash the last checkpoint.
- `RecordsNotOverwritten`: `Spec => [][RecordsKept]_vars`, an action property:
  no step changes a unit that the frontier, a relocation in flight, a live
  snapshot, the read-ahead cache or the manifest references. A crash keeps the
  records of the manifest.
- `StoreTypeCorrect`: `Spec => []TypeOK`.

The invariant `Inv` is in two halves. `RP!IInv` is the invariant of
`RegionReuse` under the refinement mapping (`heldBar` and so on count the units
of a region). `StoreInv` is about records: who owns a unit (`OwnerInv`,
`FrontInv`), what `gc_step` and a batch have in flight (`EvacInv`, `BatchInv`),
that the records of snapshots, cache and manifest are still on disk (`SnapInv`,
`CoherentInv`, `ManifestInv`), that nothing referenced lies at or behind the
append point (`BelowInv`), and that a checkpoint has no leaf left in RAM
(`SpilledInv`). Neither half is inductive without the other: a record is kept
because its region is not reopened, which is what `RP!IInv` says; and the counts
of `RP!IInv` follow the store only because no unit has two owners.

### The cut into records (`FrontierCutProofs`)

For any keys and values, any number of nibbles and any radix from two on
(`PathsAssumption`, `CutAssumption`): `[]FrontierIsTop`, `[]ReadsReturnWant`,
`[]LiveRecordsReferenced`, `[]RecordsAddressable`, `[]FailsOnlyBelowTwoKeys`,
and `[]TypeOK`.

`FrontierIsTop` is not inductive, nor are the others with it: whether the branch
that is left after a fold is one of the trie depends on what its children hold,
and a fold must find a survivor that nothing else holds. The invariant `Inv`
says, as long as nothing has failed, that branches and slots are a *cut* of the
trie of `want` (`IsCut`), that each slot holds exactly the accounts below it
(`SlotsHold`), that the live records are those of the slots on disk, and that a
block's threads run below a root branch; after a failure, that one account was
left and nothing is kept. `IsCut` has six parts: every account is below a slot
(`Reaches`), every slot has an account (`Inhabited`), is the child of a branch
(`Hung`) and has no branch below it (`Lowest`); a branch other than the root is
one of the trie (`Genuine`), and a branch of the trie is either a branch of the
frontier or lies below a slot (`Complete`). That a branch is one of the trie
means that two accounts part there (`Meet`), which is what a fold has to keep.

The proof reduces the actions to a few ways of changing a cut: a slot is refilled
or lifted into branches, a slot is added beside others, a branch splits an
extension, a slot goes. A removal passes through a cut in which one branch may
have lost a child (`IsCutBut`); `Fold` repairs it in each of its cases, and the
block that fans out keeps it as it is, for the root, until `EndFanOut`.

### Cursors (`CursorProofs`)

For any keys, any number of nibbles and any trie, with or without a root branch
(`PathsAssumption`, `CursorAssumption`): `[]VisitsAll`, `[]InOrder`, `[]TypeOK`.

What is returned says nothing of a walk that is half done, so `Inv` says what the
walk knows. Every entry before the node it is at is before the target
(`Passed`); when it comes back with `None`, so is every entry below
(`AllLess`). Over leaves the other direction is needed too: nothing on the
node's right is before the target (`Ahead`), and once the target is no longer
compared (`min`), nothing below the node is either (`NoneLess`): this is what
makes the first leaf the right one. `SeenInv` joins it to what the caller got:
during a walk that is everything from the start up to the target, since the
target is what comes right after the last entry. That the next target is right
after it is the lemma `SuccessorIsNext` for keys, with its carries, and
`FirstBelow` for branches.

The steps lean on three facts about the trie: no branch lies between a node and
the branch above it (`NothingBetween`), so what is below the branch on the way
to the node is below the node; the children of a branch lie in the order of
their nibbles (`ChildOrder`); and the order of paths is that of where they part
(`LexLessIs`, `AboveOrApart` in `PathTheorems`).

### Block updates (`BlockUpdateProofs`)

For any slots, values and fields, blocks of any length and any `MaxUndo`
(`BlockAssumption`: the marks `None`, `Keep` and `Delete` are not values):
`[]MatchesSequentialButCreation`, `[]FailsOnlyOnOpaque`,
`[]InverseRestoresButRewritten` and `[]TypeOK`.

The argument is in four steps: what applying a net update makes of an account and
of the inverse, in closed form and by case (missing, created, deleted, updated);
that the inverse undoes it (`InverseUndoes`); that one more operation keeps the
agreement between the fold and the operations one by one (`FoldKeeps`), which is
the invariant `FoldInv` while a block is being folded, so that no induction over
the operations is needed; and `UndoInv`, that every inverse kept is the one of
its block, through rollbacks that fail or panic.

### The code log (`EthStateProofs`)

For any accounts, codes, code lengths and bound on the log
(`EthStateAssumption`: codes have at least one cell, and the two marks are not
codes): `[]IndexFindsCodesButBuried`, `[]FlushedCodesSurvive`,
`[]CheckpointCodesSynced` and `[]TypeOK`.

The argument is about where entries begin. A log in which nothing was buried is
clean: entries one behind the other, at most the last one cut off. A scan that
starts at a boundary of a clean log stands at a boundary for ever, meets each
entry once and stops where none is left (`LogInv`). Once a put was buried behind
the remains of a failed one this holds of a first part of the log only, the one
that was flushed before (`FlushedInv`); hence a flushed code is found whatever
happens behind it. `CheckpointInv` follows the codes of the checkpoint from the
log to the disk, and `DownInv` says what a crash leaves for `open`.

### Only model-checked

- `DeadRegionsReturnUnlessPinned` and `SeekReturns`: liveness under fairness is
  out of the prover's reach.
- `Trie`, `Frontier`, `Views` and `Reveal`: their operators are recursive, as the
  code is, and what a recursive definition computes for every tree takes an
  induction over trees, which the provers cannot do. `FrontierCut` and `Cursor`
  say without recursion what the frontier does with its records and what a walk
  does with the order, and are proved; that `Frontier` implements `FrontierCut`
  (`ImplementsCut`) is model-checked, since the map goes through the trees. What
  `FrontierCut` leaves open stays with `Frontier`'s run: the hashes
  (`RootIsCanonical`, `AuditClean`), the sizes (`RecordsFit`), the tries of
  promoted storage and their records. What `Cursor` leaves out stays with
  `Views`: what an entry holds (`BranchCursorsExact`), and the boundary of a
  record.
- The counterexamples of the findings, which are behaviours.

## Not modelled

- I/O errors other than those of `persist` before the rename and of the code
  log: they leave the frontier inconsistent and are notes in the hazards. A
  writer that stops anywhere and is reopened is covered.
- `insert_batch`, its parallel fold and the evacuations inside it: it loads
  plain values, which no account operation, cursor or reveal of the models works
  on. Opaque leaves appear in `BlockUpdate` only.
- The bytes: hashes, RLP, the record codec and its lazy reader, the inlining of
  nodes under 32 bytes, direct I/O beyond the alignment pad.
- The threads of `hash_ram_parallel`: they fill hash cells that only ever get
  the one value the tree determines.
- Overflow nodes, which only files of an older format hold.
- The rate controller of `gc_step` (any number of rounds), the clock bits of the
  hot cache (any choice), and how long a GC pass may take.
- Examples and benchmarks: drivers over the public API.

`PROJECT.json` gives the reason part by part.

## Plan

What is left, in order of importance:

1. A failing write inside the frontier: between the free of a record and the
   write of its successor, between a spill's placeholders and their pointers.
2. Opaque leaves in `Trie` and `Frontier`, and what cursors and reveals make of
   them.
3. `insert_batch` of values, with its fold and its evacuations.
4. The records of promoted storage in `FrontierCut`: a second cut below each
   promoted account, so that the whole of `LiveRecordsReferenced` is proved.
