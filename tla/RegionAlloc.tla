---------------------------- MODULE RegionAlloc ----------------------------
(***************************************************************************)
(* The log-structured region allocator of the flat file (RegionAlloc in    *)
(* src/src/lib.rs).  The file is cut into regions of RegionUnits address   *)
(* units.  Records are appended to a head region; a region is reclaimed as *)
(* a whole once its live count drops to zero.  A dead region is never      *)
(* reusable at once: it waits in one of three places, for the snapshots    *)
(* that may still read it (snapHold), for the next checkpoint (quarantine) *)
(* and for the read-ahead cache (stagedFree).                              *)
(*                                                                         *)
(* Every operator below is one method of the allocator, executed under     *)
(* its mutex, hence one step.  Modules that use the allocator conjoin one  *)
(* of these actions with what the caller does.                             *)
(*                                                                         *)
(* Abstractions: the Vec lists of regions are sets, and the region a new   *)
(* head reuses is any free one (the code pops the last one pushed); the    *)
(* epochs order the victims of a GC pass, which is any subset of the       *)
(* eligible regions here.  head = NoRegion stands for "no region was ever  *)
(* opened" (live.is_empty() in alloc).                                     *)
(***************************************************************************)
EXTENDS Integers

CONSTANTS
    NumRegions,   \* bound on the file: regions 0 .. NumRegions-1
    RegionUnits,  \* capacity of a region, in address units
    MaxGen        \* bound on the pin generations handed out

ASSUME AllocAssumption ==
    /\ NumRegions \in Nat \ {0}
    /\ RegionUnits \in Nat \ {0}
    /\ MaxGen \in Nat

Region   == 0 .. NumRegions - 1
NoRegion == -1
Gen      == 1 .. MaxGen

VARIABLES
    live,         \* live units of each region
    head,         \* region being appended to
    nextUnit,     \* next free unit, counted from the start of the head
    fileEnd,      \* regions the file spans: end_page rounded up
    freeRegions,  \* reusable as the next head
    fresh,        \* (re)opened since the last persist
    quarantine,   \* dead, perhaps referenced by the last durable manifest
    stagedFree,   \* dead, waiting for the read-ahead boundary
    snapHold,     \* <<region, tag>>: dead while pins were live
    livePins,     \* number of live pins of each generation
    pinGen,       \* last generation handed out
    evacPinned    \* scanned by an evacuation that could not empty it

listVars == <<freeRegions, quarantine, stagedFree, snapHold>>
pinVars  == <<livePins, pinGen>>
headVars == <<head, nextUnit, fileEnd, fresh, evacPinned>>
raVars   == <<live, head, nextUnit, fileEnd, freeRegions, fresh, quarantine,
              stagedFree, snapHold, livePins, pinGen, evacPinned>>

AllocTypeOK ==
    /\ live \in [Region -> 0 .. RegionUnits]
    /\ head \in Region \cup {NoRegion}
    /\ nextUnit \in 0 .. RegionUnits
    /\ fileEnd \in 0 .. NumRegions
    /\ freeRegions \in SUBSET Region
    /\ fresh \in [Region -> BOOLEAN]
    /\ quarantine \in SUBSET Region
    /\ stagedFree \in SUBSET Region
    /\ snapHold \in SUBSET (Region \X (0 .. MaxGen))
    /\ livePins \in [Gen -> Nat]
    /\ pinGen \in 0 .. MaxGen
    /\ evacPinned \in [Region -> BOOLEAN]

\* RegionAlloc::default(), as FlatFile::new builds it for a new database.
AllocInit ==
    /\ live = [r \in Region |-> 0]
    /\ head = NoRegion
    /\ nextUnit = 0
    /\ fileEnd = 0
    /\ freeRegions = {}
    /\ fresh = [r \in Region |-> FALSE]
    /\ quarantine = {}
    /\ stagedFree = {}
    /\ snapHold = {}
    /\ livePins = [g \in Gen |-> 0]
    /\ pinGen = 0
    /\ evacPinned = [r \in Region |-> FALSE]

\* The allocator open() rebuilds: liveness recomputed from the manifest's
\* frontier, an empty head past the file end, every list empty.
AllocOpen(manifestLive, manifestEnd) ==
    /\ manifestEnd \in Region
    /\ live' = manifestLive
    /\ head' = manifestEnd
    /\ nextUnit' = 0
    /\ fileEnd' = manifestEnd
    /\ freeRegions' = {}
    /\ fresh' = [r \in Region |-> FALSE]
    /\ quarantine' = {}
    /\ stagedFree' = {}
    /\ snapHold' = {}
    /\ livePins' = [g \in Gen |-> 0]
    /\ pinGen' = 0
    /\ evacPinned' = [r \in Region |-> FALSE]

-----------------------------------------------------------------------------
\* The regions open_new_head may take: a reclaimed one before the file end.
NewHeadChoices == IF freeRegions # {} THEN freeRegions ELSE {fileEnd} \cap Region

\* Mutant: the region end is taken as inclusive.
FitsInclusive(run) == head # NoRegion /\ nextUnit + run <= RegionUnits + 1

Fits(run) == head # NoRegion /\ nextUnit + run <= RegionUnits

MaxOf(a, b) == IF a >= b THEN a ELSE b

\* alloc when the run fits behind the last one.
AllocInHead(run, units) ==
    /\ Fits(run)
    /\ nextUnit' = nextUnit + run
    /\ live' = [live EXCEPT ![head] = @ + units]
    /\ fileEnd' = MaxOf(fileEnd, head + 1)
    /\ UNCHANGED <<head, fresh, evacPinned, listVars, pinVars>>

\* Mutant: the new head stays on the free list.
AllocNewHeadStaysFree(run, units) ==
    /\ ~Fits(run)
    /\ \E r \in NewHeadChoices :
          /\ head' = r
          /\ nextUnit' = run
          /\ fresh' = [fresh EXCEPT ![r] = TRUE]
          /\ evacPinned' = [evacPinned EXCEPT ![r] = FALSE]
          /\ live' = [live EXCEPT ![r] = @ + units]
          /\ fileEnd' = MaxOf(fileEnd, r + 1)
    /\ UNCHANGED <<freeRegions, quarantine, stagedFree, snapHold, pinVars>>

\* alloc when open_new_head runs first.
AllocNewHead(run, units) ==
    /\ ~Fits(run)
    /\ \E r \in NewHeadChoices :
          /\ head' = r
          /\ freeRegions' = freeRegions \ {r}
          /\ nextUnit' = run
          /\ fresh' = [fresh EXCEPT ![r] = TRUE]
          /\ evacPinned' = [evacPinned EXCEPT ![r] = FALSE]
          /\ live' = [live EXCEPT ![r] = @ + units]
          /\ fileEnd' = MaxOf(fileEnd, r + 1)
    /\ UNCHANGED <<quarantine, stagedFree, snapHold, pinVars>>

\* alloc(run_units, live_units): a run stays within one region.
Alloc(run, units) ==
    /\ run \in 1 .. RegionUnits
    /\ AllocInHead(run, units) \/ AllocNewHead(run, units)

AnyPinLive == \E g \in Gen : livePins[g] > 0

SaturatingSub(a, b) == IF a >= b THEN a - b ELSE 0

\* The region becomes fully dead with this free, and is not the head.
Dies(r, units) ==
    /\ live[r] > 0
    /\ SaturatingSub(live[r], units) = 0
    /\ r # head

\* Mutant: pins are ignored.
FreeIgnoringPins(r, units) ==
    /\ live' = [live EXCEPT ![r] = SaturatingSub(@, units)]
    /\ stagedFree' = IF Dies(r, units) /\ fresh[r] THEN stagedFree \cup {r} ELSE stagedFree
    /\ quarantine' = IF Dies(r, units) /\ ~fresh[r] THEN quarantine \cup {r} ELSE quarantine
    /\ UNCHANGED <<freeRegions, snapHold, headVars, pinVars>>

\* Mutant: a fresh region is free at once, as before the read-ahead cache.
FreeUnstaged(r, units) ==
    /\ live' = [live EXCEPT ![r] = SaturatingSub(@, units)]
    /\ snapHold' = IF Dies(r, units) /\ AnyPinLive
                   THEN snapHold \cup {<<r, pinGen>>} ELSE snapHold
    /\ freeRegions' = IF Dies(r, units) /\ ~AnyPinLive /\ fresh[r]
                      THEN freeRegions \cup {r} ELSE freeRegions
    /\ quarantine' = IF Dies(r, units) /\ ~AnyPinLive /\ ~fresh[r]
                     THEN quarantine \cup {r} ELSE quarantine
    /\ UNCHANGED <<stagedFree, headVars, pinVars>>

\* free(unit, units): a region that dies is parked for the pins, else staged
\* for the read-ahead boundary if born after the last persist, else
\* quarantined until the next one.
Free(r, units) ==
    /\ live' = [live EXCEPT ![r] = SaturatingSub(@, units)]
    /\ snapHold' = IF Dies(r, units) /\ AnyPinLive
                   THEN snapHold \cup {<<r, pinGen>>} ELSE snapHold
    /\ stagedFree' = IF Dies(r, units) /\ ~AnyPinLive /\ fresh[r]
                     THEN stagedFree \cup {r} ELSE stagedFree
    /\ quarantine' = IF Dies(r, units) /\ ~AnyPinLive /\ ~fresh[r]
                     THEN quarantine \cup {r} ELSE quarantine
    /\ UNCHANGED <<freeRegions, headVars, pinVars>>

\* Mutant: the regions of the new checkpoint stay fresh.
OnPersistedStillFresh ==
    /\ snapHold' = IF AnyPinLive
                   THEN snapHold \cup {<<r, pinGen>> : r \in quarantine}
                   ELSE snapHold
    /\ stagedFree' = IF AnyPinLive THEN stagedFree ELSE stagedFree \cup quarantine
    /\ quarantine' = {}
    /\ UNCHANGED <<live, headVars, freeRegions, pinVars>>

\* Mutant: pins are ignored.
OnPersistedIgnoringPins ==
    /\ stagedFree' = stagedFree \cup quarantine
    /\ quarantine' = {}
    /\ fresh' = [r \in Region |-> FALSE]
    /\ UNCHANGED <<live, head, nextUnit, fileEnd, evacPinned, freeRegions, snapHold, pinVars>>

\* on_persisted(): the quarantine is dead for both checkpoints; it is parked
\* if a pin is live, else staged.  Nothing is fresh any more.
OnPersisted ==
    /\ snapHold' = IF AnyPinLive
                   THEN snapHold \cup {<<r, pinGen>> : r \in quarantine}
                   ELSE snapHold
    /\ stagedFree' = IF AnyPinLive THEN stagedFree ELSE stagedFree \cup quarantine
    /\ quarantine' = {}
    /\ fresh' = [r \in Region |-> FALSE]
    /\ UNCHANGED <<live, head, nextUnit, fileEnd, evacPinned, freeRegions, pinVars>>

\* Mutant: parked regions wait until no pin at all is live.
ReleasedWhenUnpinned(pins) ==
    IF \E g \in Gen : pins[g] > 0 THEN {} ELSE snapHold

\* The parked regions no live pin (of the given counts) holds any more.
Released(pins) ==
    {h \in snapHold : \A g \in Gen : pins[g] > 0 => g > h[2]}

\* Mutant: what is released stays on the list.
ReleaseKeepsHold(pins) ==
    /\ snapHold' = snapHold
    /\ stagedFree' = stagedFree \cup {r \in Region :
                        fresh[r] /\ \E h \in Released(pins) : h[1] = r}
    /\ quarantine' = quarantine \cup {r \in Region :
                        ~fresh[r] /\ \E h \in Released(pins) : h[1] = r}

\* release_snap_hold(), with the pin counts that hold after the caller's step.
ReleaseSnapHold(pins) ==
    /\ snapHold' = snapHold \ Released(pins)
    /\ stagedFree' = stagedFree \cup {r \in Region :
                        fresh[r] /\ \E h \in Released(pins) : h[1] = r}
    /\ quarantine' = quarantine \cup {r \in Region :
                        ~fresh[r] /\ \E h \in Released(pins) : h[1] = r}

\* pin(): a snapshot of the current frontier, at a generation of its own.
Pin ==
    /\ pinGen < MaxGen
    /\ pinGen' = pinGen + 1
    /\ livePins' = [livePins EXCEPT ![pinGen + 1] = @ + 1]
    /\ UNCHANGED <<live, headVars, listVars>>

\* pin_at(g): a clone of a live snapshot shares its generation.
PinAt(g) ==
    /\ livePins' = [livePins EXCEPT ![g] = @ + 1]
    /\ UNCHANGED <<live, headVars, listVars, pinGen>>

\* unpin(g): drop one pin, then route what it alone was holding.
Unpin(g) ==
    /\ livePins' = [livePins EXCEPT ![g] = IF @ > 0 THEN @ - 1 ELSE @]
    /\ ReleaseSnapHold(livePins')
    /\ UNCHANGED <<live, headVars, freeRegions, pinGen>>

\* drain_staged(): the caller knows the read-ahead cache to be empty.
DrainStaged ==
    /\ freeRegions' = freeRegions \cup stagedFree
    /\ stagedFree' = {}
    /\ UNCHANGED <<live, headVars, quarantine, snapHold, pinVars>>

\* The regions select_victims may return under a utilisation cap.
Eligible(capLive) ==
    {r \in Region : /\ live[r] > 0
                    /\ live[r] <= capLive
                    /\ r # head
                    /\ r \notin freeRegions
                    /\ ~evacPinned[r]}

\* Victims a GC pass could not empty leave the selection.
PinStillLive(victims) ==
    /\ evacPinned' = [r \in Region |-> evacPinned[r] \/ (r \in victims /\ live[r] > 0)]
    /\ UNCHANGED <<live, head, nextUnit, fileEnd, fresh, listVars, pinVars>>
=============================================================================
