------------------------- MODULE RegionReuseProofs -------------------------
(***************************************************************************)
(* The reuse-safety properties of RegionReuse, for every number of         *)
(* regions, region size, pin generation and clone bound.                   *)
(***************************************************************************)
EXTENDS RegionReuse, TLAPS

-----------------------------------------------------------------------------
(* The inductive invariant, by concern. *)

Waiting == freeRegions \cup stagedFree \cup quarantine

\* Live units fit below the append point, nothing lives past the file end.
HeadInv ==
    /\ head # NoRegion => live[head] <= nextUnit
    /\ head = NoRegion => fileEnd = 0
    /\ head >= fileEnd => head = fileEnd /\ nextUnit = 0
    /\ \A r \in Region : r >= fileEnd => live[r] = 0

\* Dead regions lie within the file.
ListInv ==
    /\ ListedOnce
    /\ \A r \in Waiting : r < fileEnd
    /\ \A h \in snapHold : h[1] < fileEnd

\* The pins the allocator counts are the readers there are.
PinCountInv == \A g \in Gen : livePins[g] = Readers(g)

\* A region a live snapshot references waits, if dead, in snapHold only, under
\* a tag that is not older than the snapshot.
PinInv ==
    /\ \A g \in Gen : livePins[g] > 0 => g <= pinGen
    /\ \A h \in snapHold : h[2] <= pinGen
    /\ \A g \in Gen : livePins[g] > 0 =>
          \A r \in seen[g] : r \notin Waiting /\ r < fileEnd
    /\ \A g \in Gen, h \in snapHold :
          livePins[g] > 0 /\ h[1] \in seen[g] => g <= h[2]

\* Fresh regions and the regions past the quarantine are not the manifest's;
\* a manifest being written, or just renamed, is the frontier's.
CheckpointInv ==
    /\ durableEnd <= fileEnd /\ pendEnd <= fileEnd
    /\ \A r \in Region : r >= durableEnd => durable[r] = 0
    /\ \A r \in Region : r >= pendEnd => pend[r] = 0
    /\ \A r \in freeRegions \cup stagedFree : durable[r] = 0
    /\ \A r \in Region : wpc # "renamed" /\ fresh[r] => durable[r] = 0
    /\ wpc = "captured" => pend = held
    /\ wpc = "renamed" => durable = held

\* Nothing free is cached; once the GC thread has seen the cache empty,
\* nothing staged, or to be staged while its own pin lives, is cached.
CacheInv ==
    /\ \A r \in cached : r < fileEnd /\ r \notin freeRegions
    /\ gpc = "checked" =>
          /\ \A r \in cached : r \notin stagedFree
          /\ \A h \in snapHold : h[2] < gcGen => h[1] \notin cached

\* The batch in flight owns a live pin.
GcInv ==
    /\ gpc # "idle" => gcGen \in Gen /\ livePins[gcGen] > 0
    /\ gpc = "idle" => copies = NoUnits

IInv ==
    /\ TypeOK
    /\ LiveCountsExact
    /\ HeadInv
    /\ ListInv
    /\ PinCountInv
    /\ PinInv
    /\ CheckpointInv
    /\ CacheInv
    /\ GcInv

-----------------------------------------------------------------------------
(* What each allocator operation does to the allocator's own invariants. *)

AllocOK == AllocTypeOK /\ HeadInv /\ ListInv

\* The components of a parked entry.
LEMMA HoldTypes ==
    ASSUME AllocTypeOK
    PROVE  \A h \in snapHold : h[1] \in Region /\ h[2] \in 0 .. MaxGen /\ h = <<h[1], h[2]>>
BY DEF AllocTypeOK

\* A region is the head, is past the file end or holds a record: it waits nowhere.
LEMMA NotWaiting ==
    ASSUME AllocOK, NEW r \in Region, live[r] > 0 \/ r = head \/ r >= fileEnd
    PROVE  r \notin Waiting /\ \A h \in snapHold : h[1] # r
<1> USE AllocAssumption DEF AllocOK
<1>1. live \in [Region -> Nat] /\ fileEnd \in Nat /\ Waiting \subseteq Region
  BY DEF AllocTypeOK, Waiting
<1>2. r \notin Waiting
  BY <1>1 DEF ListInv, ListedOnce, Waiting, Region
<1>3. \A h \in snapHold : h[1] # r
  BY <1>1, HoldTypes DEF ListInv, ListedOnce, Region
<1> QED
  BY <1>2, <1>3

\* alloc credits one region, which was the head, free, or past the file end.
LEMMA AllocEffect ==
    ASSUME AllocOK, NEW run \in Nat, NEW units \in 1 .. run, Alloc(run, units)
    PROVE  /\ AllocOK'
           /\ head' \in Region
           /\ live[head'] + units <= RegionUnits
           /\ live' = [live EXCEPT ![head'] = @ + units]
           /\ fileEnd <= fileEnd'
           /\ freeRegions' \subseteq freeRegions
           /\ UNCHANGED <<stagedFree, quarantine, snapHold, livePins, pinGen>>
           /\ \A r \in Region : fresh'[r] =>
                 fresh[r] \/ r \in freeRegions \/ r = fileEnd
<1> USE AllocAssumption DEF AllocOK, AllocTypeOK, Region, NoRegion, Alloc
<1>1. CASE AllocInHead(run, units)
  <2> USE <1>1 DEF AllocInHead, Fits, listVars, pinVars
  <2>1. head \in Region /\ live[head] <= nextUnit /\ live[head] + units <= RegionUnits
    BY DEF HeadInv
  <2>2. AllocTypeOK' /\ fileEnd <= fileEnd' /\ head < fileEnd'
    BY <2>1, SMTT(40) DEF MaxOf
  <2>3. HeadInv'
    BY <2>1, <2>2 DEF HeadInv, MaxOf
  <2>4. head \notin Waiting /\ \A h \in snapHold : h[1] # head /\ h[1] \in Region
    BY <2>1, NotWaiting, HoldTypes
  <2>5. ListInv'
    <3>1. \A q \in Region : q # head => live'[q] = live[q]
      BY <2>1
    <3>2. UNCHANGED <<head, freeRegions, stagedFree, quarantine, snapHold>>
      OBVIOUS
    <3>3. ListedOnce'
      BY <2>4, <3>1, <3>2 DEF ListInv, ListedOnce, Waiting
    <3>4. \A q \in Region : q < fileEnd => q < fileEnd'
      BY <2>2
    <3>5. Waiting' = Waiting /\ Waiting \subseteq Region
      BY <3>2 DEF Waiting
    <3>6. \A h \in snapHold' : h[1] < fileEnd'
      BY <3>2, <3>4, HoldTypes DEF ListInv
    <3> QED
      BY <3>3, <3>4, <3>5, <3>6 DEF ListInv
  <2> QED
    BY <2>1, <2>2, <2>3, <2>5
<1>2. CASE AllocNewHead(run, units)
  <2> USE <1>2 DEF AllocNewHead, pinVars
  <2>1. head' \in NewHeadChoices /\ head' \in Region
    BY DEF NewHeadChoices
  <2>2. live[head'] = 0 /\ head' \notin stagedFree \cup quarantine
           /\ \A h \in snapHold : h[1] # head'
    BY <2>1 DEF NewHeadChoices, HeadInv, ListInv, ListedOnce, Waiting
  <2>3. /\ live' = [live EXCEPT ![head'] = @ + units]
        /\ fresh' = [fresh EXCEPT ![head'] = TRUE]
        /\ evacPinned' = [evacPinned EXCEPT ![head'] = FALSE]
        /\ freeRegions' = freeRegions \ {head'}
        /\ nextUnit' = run /\ fileEnd' = MaxOf(fileEnd, head' + 1)
    OBVIOUS
  <2>4. AllocTypeOK' /\ fileEnd <= fileEnd' /\ head' < fileEnd'
    BY <2>1, <2>2, <2>3 DEF MaxOf
  <2>5. HeadInv'
    BY <2>1, <2>2, <2>3, <2>4 DEF HeadInv, MaxOf
  <2>6. ListInv'
    <3>1. \A q \in Region : q # head' => live'[q] = live[q]
      BY <2>1, <2>3
    <3>2. UNCHANGED <<stagedFree, quarantine, snapHold>>
      OBVIOUS
    <3>3. ListedOnce'
      <4>1. freeRegions' \subseteq freeRegions /\ head' \notin freeRegions'
        BY <2>3
      <4>2. /\ freeRegions' \cap stagedFree' = {}
            /\ freeRegions' \cap quarantine' = {}
            /\ stagedFree' \cap quarantine' = {}
            /\ \A h \in snapHold' : h[1] \notin freeRegions' \cup stagedFree' \cup quarantine'
            /\ \A h, k \in snapHold' : h[1] = k[1] => h = k
        BY <3>2, <4>1 DEF ListInv, ListedOnce
      <4>3. \A r \in freeRegions' \cup stagedFree' \cup quarantine' :
               live'[r] = 0 /\ r # head'
        BY <2>2, <3>1, <3>2, <4>1 DEF ListInv, ListedOnce
      <4>4. \A h \in snapHold' : live'[h[1]] = 0 /\ h[1] # head'
        BY <2>2, <3>1, <3>2, HoldTypes DEF ListInv, ListedOnce
      <4> QED
        BY <4>2, <4>3, <4>4 DEF ListedOnce
    <3>4. \A q \in Region : q < fileEnd => q < fileEnd'
      BY <2>4
    <3>5. Waiting' \subseteq Waiting /\ Waiting \subseteq Region
      BY <2>3, <3>2 DEF Waiting
    <3>6. \A h \in snapHold' : h[1] < fileEnd'
      BY <3>2, <3>4, HoldTypes DEF ListInv
    <3> QED
      BY <3>3, <3>4, <3>5, <3>6 DEF ListInv
  <2> QED
    BY <2>1, <2>2, <2>3, <2>4, <2>5, <2>6, SMTT(40) DEF NewHeadChoices
<1> QED
  BY <1>1, <1>2

\* free debits one region; if that kills it, it joins exactly one list.
LEMMA FreeEffect ==
    ASSUME AllocOK, NEW r \in Region, NEW units \in 1 .. live[r], Free(r, units)
    PROVE  /\ AllocOK'
           /\ live' = [live EXCEPT ![r] = @ - units]
           /\ stagedFree' \subseteq stagedFree \cup {r}
           /\ quarantine' \subseteq quarantine \cup {r}
           /\ snapHold' \subseteq snapHold \cup {<<r, pinGen>>}
           /\ AnyPinLive => stagedFree' = stagedFree /\ quarantine' = quarantine
           /\ r \in stagedFree' => fresh[r]
           /\ r < fileEnd
           /\ UNCHANGED <<freeRegions, headVars, pinVars>>
<1> USE AllocAssumption DEF AllocOK
<1>0. /\ live \in [Region -> 0 .. RegionUnits] /\ fileEnd \in 0 .. NumRegions
      /\ pinGen \in 0 .. MaxGen /\ r \in Nat
  BY DEF AllocTypeOK, Region
<1>1. /\ live' = [live EXCEPT ![r] = @ - units]
      /\ live[r] > 0 /\ live'[r] = live[r] - units
      /\ \A q \in Region : q # r => live'[q] = live[q]
  BY <1>0 DEF Free, SaturatingSub
<1>2. r < fileEnd
  BY <1>0, <1>1 DEF HeadInv
<1>3. r \notin Waiting /\ \A h \in snapHold : h[1] # r
  BY <1>1, NotWaiting
<1>4. Dies(r, units) => live'[r] = 0 /\ r # head
  BY <1>0, <1>1 DEF Dies, SaturatingSub
<1>5. /\ UNCHANGED <<freeRegions, headVars, pinVars>>
      /\ UNCHANGED <<head, nextUnit, fileEnd, fresh, evacPinned, livePins, pinGen>>
  BY DEF Free, headVars, pinVars
<1>6. /\ stagedFree' \subseteq stagedFree \cup {r}
      /\ quarantine' \subseteq quarantine \cup {r}
      /\ snapHold' \subseteq snapHold \cup {<<r, pinGen>>}
      /\ AnyPinLive => stagedFree' = stagedFree /\ quarantine' = quarantine
      /\ r \in stagedFree' => fresh[r]
  BY <1>3 DEF Free, Waiting
<1>7. AllocTypeOK'
  <2>1. live' \in [Region -> 0 .. RegionUnits]
    BY <1>0, <1>1
  <2>2. snapHold' \in SUBSET (Region \X (0 .. MaxGen))
    BY <1>0, <1>6 DEF AllocTypeOK
  <2> QED
    BY <2>1, <2>2, <1>5, <1>6 DEF AllocTypeOK
<1>8. HeadInv'
  BY <1>0, <1>1, <1>2, <1>5 DEF HeadInv, AllocTypeOK, Region, NoRegion
<1>9. ListInv'
  <2>1. CASE ~Dies(r, units)
    <3>1. UNCHANGED <<stagedFree, quarantine, snapHold>>
      BY <2>1 DEF Free
    <3> QED
      BY <1>1, <1>3, <1>5, <3>1, HoldTypes DEF ListInv, ListedOnce, Waiting, AllocTypeOK
  <2>2. CASE Dies(r, units) /\ AnyPinLive
    <3>1. snapHold' = snapHold \cup {<<r, pinGen>>} /\ UNCHANGED <<stagedFree, quarantine>>
      BY <2>2 DEF Free
    <3>2. ListedOnce'
      BY <1>1, <1>3, <1>4, <1>5, <2>2, <3>1, HoldTypes
         DEF ListInv, ListedOnce, Waiting, AllocTypeOK
    <3> QED
      BY <1>2, <1>5, <3>1, <3>2 DEF ListInv, Waiting
  <2>3. CASE Dies(r, units) /\ ~AnyPinLive
    <3>1. /\ snapHold' = snapHold
          /\ stagedFree' = IF fresh[r] THEN stagedFree \cup {r} ELSE stagedFree
          /\ quarantine' = IF fresh[r] THEN quarantine ELSE quarantine \cup {r}
      BY <2>3 DEF Free
    <3>2. ListedOnce'
      BY <1>1, <1>3, <1>4, <1>5, <2>3, <3>1, HoldTypes
         DEF ListInv, ListedOnce, Waiting, AllocTypeOK
    <3> QED
      BY <1>2, <1>5, <3>1, <3>2 DEF ListInv, Waiting
  <2> QED
    BY <2>1, <2>2, <2>3
<1> QED
  BY <1>1, <1>2, <1>5, <1>6, <1>7, <1>8, <1>9

\* drain_staged moves the staged regions to the free ones.
LEMMA DrainEffect ==
    ASSUME AllocOK, DrainStaged
    PROVE  /\ AllocOK'
           /\ Waiting' = Waiting
           /\ freeRegions' \cup stagedFree' = freeRegions \cup stagedFree
           /\ UNCHANGED <<live, headVars, quarantine, snapHold, pinVars>>
<1> USE AllocAssumption DEF AllocOK, DrainStaged, headVars, pinVars
<1>1. AllocTypeOK'
  BY DEF AllocTypeOK
<1>2. HeadInv'
  BY DEF HeadInv
<1>3. Waiting' = Waiting /\ freeRegions' \cup stagedFree' = freeRegions \cup stagedFree
  BY DEF Waiting
<1>4. ListInv'
  BY <1>3 DEF ListInv, ListedOnce, Waiting
<1> QED
  BY <1>1, <1>2, <1>3, <1>4

\* on_persisted empties the quarantine, into one of the other lists.
LEMMA PersistedEffect ==
    ASSUME AllocOK, OnPersisted
    PROVE  /\ AllocOK'
           /\ quarantine' = {}
           /\ Waiting' \subseteq Waiting
           /\ \A h \in snapHold' : h \in snapHold \/ (h[2] = pinGen /\ h[1] \in quarantine)
           /\ AnyPinLive => stagedFree' = stagedFree
           /\ fresh' = [r \in Region |-> FALSE]
           /\ UNCHANGED <<live, head, nextUnit, fileEnd, freeRegions, livePins, pinGen>>
<1> USE AllocAssumption DEF AllocOK
<1>1. /\ UNCHANGED <<live, head, nextUnit, fileEnd, evacPinned, freeRegions>>
      /\ UNCHANGED <<livePins, pinGen>>
      /\ quarantine' = {} /\ fresh' = [r \in Region |-> FALSE]
  BY DEF OnPersisted, pinVars
<1>2. HeadInv'
  BY <1>1 DEF HeadInv
<1>3. CASE AnyPinLive
  <2>1. /\ snapHold' = snapHold \cup {<<r, pinGen>> : r \in quarantine}
        /\ stagedFree' = stagedFree
    BY <1>3 DEF OnPersisted
  <2>2. \A h \in snapHold' : h \in snapHold \/ (h = <<h[1], pinGen>> /\ h[1] \in quarantine)
    BY <2>1
  <2>3. AllocTypeOK'
    BY <1>1, <2>1 DEF AllocTypeOK
  <2>4. ListedOnce'
    <3>1. \A h \in snapHold' : h[1] \notin freeRegions \cup stagedFree
      BY <2>2 DEF ListInv, ListedOnce
    <3>2. \A h, k \in snapHold' : h[1] = k[1] => h = k
      <4> SUFFICES ASSUME NEW h \in snapHold', NEW k \in snapHold', h[1] = k[1]
                   PROVE  h = k
        OBVIOUS
      <4>1. CASE h \in snapHold /\ k \in snapHold
        BY <4>1 DEF ListInv, ListedOnce
      <4>2. CASE h \notin snapHold /\ k \notin snapHold
        BY <4>2, <2>2
      <4> QED
        BY <2>2, <4>1, <4>2 DEF ListInv, ListedOnce
    <3>3. \A h \in snapHold' : live[h[1]] = 0 /\ h[1] # head
      BY <2>2 DEF ListInv, ListedOnce
    <3> QED
      BY <1>1, <2>1, <3>1, <3>2, <3>3 DEF ListInv, ListedOnce
  <2>5. ListInv'
    BY <1>1, <2>1, <2>2, <2>4 DEF ListInv, Waiting
  <2>6. Waiting' \subseteq Waiting
    BY <1>1, <2>1 DEF Waiting
  <2> QED
    BY <1>1, <1>2, <2>1, <2>2, <2>3, <2>5, <2>6
<1>4. CASE ~AnyPinLive
  <2>1. snapHold' = snapHold /\ stagedFree' = stagedFree \cup quarantine
    BY <1>4 DEF OnPersisted
  <2>2. AllocTypeOK'
    BY <1>1, <2>1 DEF AllocTypeOK
  <2>3. Waiting' \subseteq Waiting
    BY <1>1, <2>1 DEF Waiting
  <2>4. ListInv'
    BY <1>1, <2>1, <2>3 DEF ListInv, ListedOnce, Waiting
  <2> QED
    BY <1>1, <1>2, <1>4, <2>1, <2>2, <2>3, <2>4
<1> QED
  BY <1>3, <1>4

\* pin and pin_at only count.
LEMMA PinEffect ==
    ASSUME AllocOK, NEW g \in Gen, livePins' = [livePins EXCEPT ![g] = @ + 1],
           UNCHANGED <<live, headVars, listVars>>, pinGen' \in {pinGen, g}
    PROVE  AllocOK'
<1> USE AllocAssumption DEF AllocOK, headVars, listVars
<1>1. AllocTypeOK'
  BY DEF AllocTypeOK, Gen
<1>2. HeadInv'
  BY DEF HeadInv
<1>3. ListInv'
  BY DEF ListInv, ListedOnce, Waiting
<1> QED
  BY <1>1, <1>2, <1>3

\* unpin releases the parked regions no live pin is old enough to hold.
LEMMA UnpinEffect ==
    ASSUME AllocOK, NEW g \in Gen, livePins[g] > 0, Unpin(g)
    PROVE  /\ AllocOK'
           /\ livePins' = [livePins EXCEPT ![g] = @ - 1]
           /\ snapHold' \subseteq snapHold
           /\ \A r \in Waiting' : r \in Waiting \/
                 \E h \in snapHold : /\ h[1] = r
                                     /\ \A k \in Gen : livePins'[k] > 0 => k > h[2]
           /\ \A r \in stagedFree' : r \in stagedFree \/
                 /\ fresh[r]
                 /\ \E h \in snapHold : /\ h[1] = r
                                        /\ \A k \in Gen : livePins'[k] > 0 => k > h[2]
           /\ UNCHANGED <<live, headVars, freeRegions, pinGen>>
<1> USE AllocAssumption DEF AllocOK
<1> DEFINE R == Released(livePins')
<1>1. /\ livePins' = [livePins EXCEPT ![g] = @ - 1]
      /\ UNCHANGED <<live, headVars, freeRegions, pinGen>>
      /\ UNCHANGED <<head, nextUnit, fileEnd, fresh, evacPinned>>
  BY DEF Unpin, headVars
<1>2. /\ snapHold' = snapHold \ R
      /\ stagedFree' = stagedFree \cup {r \in Region : fresh[r] /\ \E h \in R : h[1] = r}
      /\ quarantine' = quarantine \cup {r \in Region : ~fresh[r] /\ \E h \in R : h[1] = r}
  BY DEF Unpin, ReleaseSnapHold
<1>3. \A h \in R : h \in snapHold /\ \A k \in Gen : livePins'[k] > 0 => k > h[2]
  BY DEF Released
<1> HIDE DEF R
<1>4. AllocTypeOK'
  BY <1>1, <1>2 DEF AllocTypeOK, Gen
<1>5. HeadInv'
  BY <1>1 DEF HeadInv
<1>6. ListedOnce'
  BY <1>1, <1>2, <1>3, HoldTypes DEF ListInv, ListedOnce
<1>7. ListInv'
  BY <1>1, <1>2, <1>3, <1>6 DEF ListInv, Waiting
<1> QED
  BY <1>1, <1>2, <1>3, <1>4, <1>5, <1>7 DEF Waiting

-----------------------------------------------------------------------------
(* Each step of a client preserves the invariant. *)

\* A new database satisfies the invariant.
LEMMA InitInv == Init => IInv
<1> SUFFICES ASSUME Init PROVE IInv
  OBVIOUS
<1> USE AllocAssumption DEF Init, AllocInit, Region, NoRegion, Gen, NoUnits, NoManifest
<1>1. TypeOK
  BY DEF TypeOK, AllocTypeOK, Counts
<1>2. LiveCountsExact /\ HeadInv
  BY DEF LiveCountsExact, HeadInv
<1>3. ListInv /\ PinInv
  BY DEF ListInv, ListedOnce, PinInv, Waiting
<1>4. CheckpointInv /\ CacheInv /\ GcInv /\ PinCountInv
  BY DEF CheckpointInv, CacheInv, GcInv, PinCountInv, Readers, GcPins
<1> QED
  BY <1>1, <1>2, <1>3, <1>4 DEF IInv

\* The frontier's and the batch's units are live, so their regions wait nowhere.
LEMMA HeldAlive ==
    ASSUME IInv, NEW r \in Region, held[r] > 0 \/ copies[r] > 0
    PROVE  /\ live[r] > 0 /\ r < fileEnd /\ r \notin Waiting
           /\ \A h \in snapHold : h[1] # r
<1> USE AllocAssumption
<1>1. AllocOK
  BY DEF IInv, TypeOK, AllocOK
<1>2. live[r] > 0
  BY DEF IInv, TypeOK, Counts, LiveCountsExact
<1>3. r < fileEnd
  BY <1>2 DEF IInv, HeadInv, TypeOK, AllocTypeOK, Region
<1> QED
  BY <1>1, <1>2, <1>3, NotWaiting

\* alloc by the writer or by the GC thread.
LEMMA AllocStep ==
    ASSUME IInv, NEW run \in Units, NEW units \in Units,
           WriteRecord(run, units) \/ GcCopy(run, units)
    PROVE  IInv'
<1> USE AllocAssumption
<1>1. /\ Alloc(run, units) /\ units \in 1 .. run /\ run \in Nat
      /\ UNCHANGED <<lost, snaps, seen, cached, durable, durableEnd, pend, pendEnd, wpc, gpc, gcGen>>
      /\ \/ /\ wpc \in {"idle", "batch"} /\ copies' = copies
            /\ held' = [held EXCEPT ![head'] = @ + units]
         \/ /\ gpc = "copying" /\ held' = held
            /\ copies' = [copies EXCEPT ![head'] = @ + units]
  BY DEF WriteRecord, GcCopy, Units
<1>2. AllocOK
  BY DEF IInv, TypeOK, AllocOK
<1>3. /\ AllocOK'
      /\ head' \in Region
      /\ live[head'] + units <= RegionUnits
      /\ live' = [live EXCEPT ![head'] = @ + units]
      /\ fileEnd <= fileEnd'
      /\ freeRegions' \subseteq freeRegions
      /\ UNCHANGED <<stagedFree, quarantine, snapHold, livePins, pinGen>>
      /\ \A r \in Region : fresh'[r] =>
            fresh[r] \/ r \in freeRegions \/ r = fileEnd
  BY <1>1, <1>2, AllocEffect
<1>4. fileEnd \in Nat /\ fileEnd' \in Nat
  BY <1>2, <1>3 DEF AllocOK, AllocTypeOK
<1>5. TypeOK' /\ LiveCountsExact'
  <2>1. held[head'] + units <= RegionUnits /\ copies[head'] + units <= RegionUnits
    <3>1. live[head'] = held[head'] + copies[head'] + lost[head']
      BY <1>3 DEF IInv, LiveCountsExact
    <3>2. held[head'] \in Nat /\ copies[head'] \in Nat /\ lost[head'] \in Nat
      BY <1>3 DEF IInv, TypeOK, Counts
    <3> QED
      BY <1>3, <3>1, <3>2 DEF Units
  <2>2. held' \in Counts /\ copies' \in Counts
    BY <1>1, <1>3, <2>1 DEF IInv, TypeOK, Counts
  <2> QED
    BY <1>1, <1>3, <2>2
       DEF IInv, TypeOK, AllocOK, AllocTypeOK, Counts, LiveCountsExact
<1>6. PinInv'
  BY <1>3, <1>1, <1>4 DEF IInv, TypeOK, PinInv, Waiting, Region
<1>7. CheckpointInv'
  <2>1. \A r \in Region : r = fileEnd => durable[r] = 0
    BY <1>4 DEF IInv, TypeOK, CheckpointInv, Region, NoManifest
  <2> QED
    BY <1>1, <1>3, <1>4, <2>1 DEF IInv, TypeOK, CheckpointInv, NoManifest
<1>8. CacheInv' /\ GcInv'
  BY <1>1, <1>3, <1>4 DEF IInv, TypeOK, CacheInv, GcInv, Region
<1>9. PinCountInv'
  BY <1>1, <1>3 DEF IInv, PinCountInv, Readers, GcPins
<1> QED
  BY <1>3, <1>5, <1>6, <1>7, <1>8, <1>9 DEF IInv, AllocOK

\* free by the writer, for a record or for a copy.
LEMMA FreeStep ==
    ASSUME IInv, NEW r \in Region, NEW q \in Region, NEW units \in Units,
           \/ FreeRecord(r, units)
           \/ InstallCopy(r, q, units)
           \/ DiscardCopy(r, units)
    PROVE  IInv'
<1> USE AllocAssumption
<1>1. /\ Free(r, units) /\ wpc \in {"idle", "batch"} /\ (held[r] >= units \/ copies[r] >= units)
      /\ UNCHANGED <<lost, snaps, seen, cached, durable, durableEnd, pend, pendEnd, wpc, gpc, gcGen>>
  BY DEF FreeRecord, InstallCopy, DiscardCopy, IInv, TypeOK, Counts
<1>2. AllocOK
  BY DEF IInv, TypeOK, AllocOK
<1>3. units \in 1 .. live[r] /\ units \in Nat \ {0}
  BY <1>1 DEF Units, IInv, TypeOK, AllocTypeOK, Counts, LiveCountsExact
<1>4. /\ AllocOK'
      /\ live' = [live EXCEPT ![r] = @ - units]
      /\ stagedFree' \subseteq stagedFree \cup {r}
      /\ quarantine' \subseteq quarantine \cup {r}
      /\ snapHold' \subseteq snapHold \cup {<<r, pinGen>>}
      /\ AnyPinLive => stagedFree' = stagedFree /\ quarantine' = quarantine
      /\ r \in stagedFree' => fresh[r]
      /\ r < fileEnd
      /\ UNCHANGED <<freeRegions, headVars, pinVars>>
  BY <1>1, <1>2, <1>3, FreeEffect
<1>5. UNCHANGED <<freeRegions, head, nextUnit, fileEnd, fresh, livePins, pinGen>>
  BY <1>4 DEF headVars, pinVars
<1>6. held' \in Counts /\ copies' \in Counts /\ LiveCountsExact'
  <2>1. CASE FreeRecord(r, units)
    BY <1>3, <1>4, <2>1
       DEF FreeRecord, IInv, TypeOK, AllocTypeOK, Counts, LiveCountsExact
  <2>2. CASE DiscardCopy(r, units)
    BY <1>3, <1>4, <2>2
       DEF DiscardCopy, IInv, TypeOK, AllocTypeOK, Counts, LiveCountsExact
  <2>3. CASE InstallCopy(r, q, units)
    <3>1. /\ r # q /\ held[r] >= units /\ copies[q] >= units /\ lost' = lost
          /\ held' = [held EXCEPT ![r] = @ - units, ![q] = @ + units]
          /\ copies' = [copies EXCEPT ![q] = @ - units]
      BY <2>3 DEF InstallCopy, IInv, TypeOK, Counts
    <3>2. held[q] + units <= RegionUnits
      BY <3>1, <1>3 DEF IInv, TypeOK, AllocTypeOK, Counts, LiveCountsExact
    <3>3. held' \in Counts /\ copies' \in Counts
      BY <1>3, <3>1, <3>2 DEF IInv, TypeOK, Counts
    <3>4. \A k \in Region : live'[k] = held'[k] + copies'[k] + lost'[k]
      BY <1>3, <1>4, <3>1, <3>2
         DEF IInv, TypeOK, AllocTypeOK, Counts, LiveCountsExact
    <3> QED
      BY <3>3, <3>4 DEF LiveCountsExact
  <2> QED
    BY <2>1, <2>2, <2>3
<1>7. TypeOK'
  BY <1>1, <1>4, <1>6 DEF IInv, TypeOK, AllocOK
<1>8. PinInv'
  <2>1. \A g \in Gen : livePins[g] > 0 => AnyPinLive
    BY DEF AnyPinLive
  <2>2. \A g \in Gen : livePins[g] > 0 => \A k \in seen[g] : k \notin Waiting'
    BY <1>4, <1>5, <2>1 DEF IInv, PinInv, Waiting
  <2>3. \A h \in snapHold' : h \in snapHold \/ h[2] = pinGen
    BY <1>4
  <2> QED
    BY <1>1, <1>5, <2>2, <2>3 DEF IInv, TypeOK, AllocTypeOK, PinInv
<1>9. CheckpointInv'
  <2>1. held' = held \/ wpc \in {"idle", "batch"}
    BY <1>1
  <2> QED
    BY <1>1, <1>4, <1>5, <2>1 DEF IInv, TypeOK, CheckpointInv
<1>10. CacheInv'
  <2>1. gpc = "checked" => AnyPinLive /\ gcGen <= pinGen
    BY DEF AnyPinLive, IInv, GcInv, PinInv
  <2>2. \A h \in snapHold' : h \in snapHold \/ h[2] = pinGen
    BY <1>4
  <2> QED
    BY <1>1, <1>4, <1>5, <2>1, <2>2 DEF IInv, TypeOK, AllocTypeOK, CacheInv, Gen
<1>11. GcInv'
  <2>1. gpc = "idle" => copies' = copies
    BY DEF FreeRecord, InstallCopy, DiscardCopy
  <2> QED
    BY <1>1, <1>5, <2>1 DEF IInv, GcInv
<1>12. PinCountInv'
  BY <1>1, <1>5 DEF IInv, PinCountInv, Readers, GcPins
<1> QED
  BY <1>4, <1>6, <1>7, <1>8, <1>9, <1>10, <1>11, <1>12 DEF IInv, AllocOK

\* drain_staged by the writer, by prefetch_clear and by the GC thread.
LEMMA DrainStep ==
    ASSUME IInv, (WriteBatch /\ cached = {}) \/ PrefetchClear \/ GcDrain
    PROVE  IInv'
<1> USE AllocAssumption
<1>1. /\ DrainStaged
      /\ UNCHANGED <<held, copies, lost, snaps, seen, durable, durableEnd, pend, pendEnd, gcGen>>
      /\ wpc' = wpc \/ (wpc \in {"idle", "batch"} /\ wpc' = "batch")
      /\ cached' \subseteq cached
      /\ gpc' # "checked" \/ cached' = {}
      /\ gpc' = gpc \/ (gpc = "checked" /\ gpc' = "copying")
      /\ cached' = {} \/ gpc = "checked"
  BY DEF WriteBatch, PrefetchClear, GcDrain
<1>2. AllocOK
  BY DEF IInv, TypeOK, AllocOK
<1>3. /\ AllocOK'
      /\ Waiting' = Waiting
      /\ freeRegions' \cup stagedFree' = freeRegions \cup stagedFree
      /\ UNCHANGED <<live, headVars, quarantine, snapHold, pinVars>>
  BY <1>1, <1>2, DrainEffect
<1>4. UNCHANGED <<live, head, nextUnit, fileEnd, fresh, snapHold, livePins, pinGen>>
  BY <1>3 DEF headVars, pinVars
<1>5. TypeOK' /\ LiveCountsExact'
  BY <1>1, <1>3, <1>4 DEF IInv, TypeOK, AllocOK, LiveCountsExact
<1>6. PinInv'
  BY <1>1, <1>3, <1>4 DEF IInv, PinInv
<1>7. CheckpointInv'
  BY <1>1, <1>3, <1>4 DEF IInv, CheckpointInv
<1>8. CacheInv'
  BY <1>1, <1>3, <1>4 DEF IInv, CacheInv
<1>9. GcInv' /\ PinCountInv'
  BY <1>1, <1>4 DEF IInv, GcInv, PinCountInv, Readers, GcPins
<1> QED
  BY <1>3, <1>5, <1>6, <1>7, <1>8, <1>9 DEF IInv, AllocOK

\* The steps of persist.
LEMMA PersistStep ==
    ASSUME IInv, PersistCapture \/ PersistRename \/ PersistFails \/ PersistDone
    PROVE  IInv'
<1> USE AllocAssumption
<1>0. \A r \in Region : (r \in Waiting => held[r] = 0) /\ (r >= fileEnd => held[r] = 0)
  <2> SUFFICES ASSUME NEW r \in Region, held[r] # 0
               PROVE  r \notin Waiting /\ ~(r >= fileEnd)
    OBVIOUS
  <2>1. held[r] \in 0 .. RegionUnits /\ fileEnd \in 0 .. NumRegions
    BY DEF IInv, TypeOK, AllocTypeOK, Counts
  <2>2. held[r] > 0 /\ r \in Nat /\ fileEnd \in Nat
    BY <2>1 DEF Region
  <2> QED
    BY <2>2, HeldAlive
<1>1. CASE PersistCapture
  <2> USE <1>1 DEF PersistCapture, raVars
  <2>1. TypeOK' /\ LiveCountsExact'
    BY DEF IInv, TypeOK, AllocTypeOK, LiveCountsExact
  <2>2. HeadInv' /\ ListInv' /\ PinInv'
    BY DEF IInv, HeadInv, ListInv, ListedOnce, PinInv, Waiting
  <2>3. CheckpointInv'
    BY <1>0 DEF IInv, TypeOK, AllocTypeOK, CheckpointInv
  <2>4. CacheInv' /\ GcInv' /\ PinCountInv'
    BY DEF IInv, CacheInv, GcInv, PinCountInv, Readers, GcPins
  <2> QED
    BY <2>1, <2>2, <2>3, <2>4 DEF IInv
<1>2. CASE PersistRename
  <2> USE <1>2 DEF PersistRename, raVars
  <2>1. TypeOK' /\ LiveCountsExact'
    BY DEF IInv, TypeOK, AllocTypeOK, LiveCountsExact, Counts, NoUnits
  <2>2. HeadInv' /\ ListInv' /\ PinInv'
    BY DEF IInv, HeadInv, ListInv, ListedOnce, PinInv, Waiting
  <2>3. CheckpointInv'
    BY <1>0 DEF IInv, TypeOK, AllocTypeOK, CheckpointInv, NoUnits, Waiting
  <2>4. CacheInv' /\ GcInv' /\ PinCountInv'
    BY DEF IInv, CacheInv, GcInv, PinCountInv, Readers, GcPins
  <2> QED
    BY <2>1, <2>2, <2>3, <2>4 DEF IInv
<1>3. CASE PersistDone
  <2>1. /\ OnPersisted /\ wpc = "renamed" /\ wpc' = "idle"
        /\ UNCHANGED <<held, copies, lost, snaps, seen, cached, durable, durableEnd, pend,
                       pendEnd, gpc, gcGen>>
    BY <1>3 DEF PersistDone
  <2>2. AllocOK
    BY DEF IInv, TypeOK, AllocOK
  <2>3. /\ AllocOK'
        /\ quarantine' = {}
        /\ Waiting' \subseteq Waiting
        /\ \A h \in snapHold' : h \in snapHold \/ (h[2] = pinGen /\ h[1] \in quarantine)
        /\ AnyPinLive => stagedFree' = stagedFree
        /\ fresh' = [r \in Region |-> FALSE]
        /\ UNCHANGED <<live, head, nextUnit, fileEnd, freeRegions, livePins, pinGen>>
    BY <2>1, <2>2, PersistedEffect
  <2>4. TypeOK' /\ LiveCountsExact'
    BY <2>1, <2>3 DEF IInv, TypeOK, AllocOK, LiveCountsExact
  <2>5. PinInv'
    BY <2>1, <2>3 DEF IInv, TypeOK, AllocTypeOK, PinInv, Waiting
  <2>6. CheckpointInv'
    <3>1. \A r \in Waiting' : r \in Region /\ durable[r] = 0
      BY <1>0, <2>1, <2>3 DEF IInv, CheckpointInv, TypeOK, AllocTypeOK, Waiting
    <3> QED
      BY <2>1, <2>3, <3>1 DEF IInv, CheckpointInv, Waiting
  <2>7. CacheInv'
    <3>1. gpc = "checked" => AnyPinLive /\ gcGen <= pinGen
      BY DEF AnyPinLive, IInv, GcInv, PinInv
    <3> QED
      BY <2>1, <2>3, <3>1 DEF IInv, TypeOK, AllocTypeOK, CacheInv
  <2>8. GcInv' /\ PinCountInv'
    BY <2>1, <2>3 DEF IInv, GcInv, PinCountInv, Readers, GcPins
  <2> QED
    BY <2>3, <2>4, <2>5, <2>6, <2>7, <2>8 DEF IInv, AllocOK
<1>4. CASE PersistFails
  <2> USE <1>4 DEF PersistFails, raVars
  <2>1. TypeOK' /\ LiveCountsExact'
    BY DEF IInv, TypeOK, AllocTypeOK, LiveCountsExact, Counts, NoUnits
  <2>2. HeadInv' /\ ListInv' /\ PinInv'
    BY DEF IInv, HeadInv, ListInv, ListedOnce, PinInv, Waiting
  <2>3. CheckpointInv'
    BY DEF IInv, TypeOK, AllocTypeOK, CheckpointInv, NoUnits
  <2>4. CacheInv' /\ GcInv' /\ PinCountInv'
    BY DEF IInv, CacheInv, GcInv, PinCountInv, Readers, GcPins
  <2> QED
    BY <2>1, <2>2, <2>3, <2>4 DEF IInv
<1> QED
  BY <1>1, <1>2, <1>3, <1>4

\* A new pin, of a snapshot of the frontier or of a live snapshot.
LEMMA PinStep ==
    ASSUME IInv, TakeSnapshot \/ GcPin \/ \E k \in Gen : CloneSnapshot(k)
    PROVE  IInv'
<1> USE AllocAssumption
<1>1. PICK g \in Gen :
         /\ livePins' = [livePins EXCEPT ![g] = @ + 1]
         /\ UNCHANGED <<live, headVars, listVars>>
         /\ UNCHANGED <<held, copies, lost, cached, durable, durableEnd, pend, pendEnd, wpc>>
         /\ \/ /\ g = pinGen + 1 /\ pinGen' = g
               /\ seen' = [seen EXCEPT ![g] = HeldRegions]
               /\ \/ UNCHANGED <<gpc, gcGen>> /\ snaps' = [snaps EXCEPT ![g] = @ + 1]
                  \/ gpc = "idle" /\ gpc' = "pinned" /\ gcGen' = g /\ snaps' = snaps
            \/ /\ livePins[g] > 0 /\ UNCHANGED <<pinGen, seen, gpc, gcGen>>
               /\ snaps' = [snaps EXCEPT ![g] = @ + 1]
  <2>1. ASSUME TakeSnapshot \/ GcPin PROVE pinGen + 1 \in Gen
    BY <2>1 DEF TakeSnapshot, GcPin, Pin, Gen, IInv, TypeOK, AllocTypeOK
  <2> QED
    BY <2>1 DEF TakeSnapshot, GcPin, CloneSnapshot, Pin, PinAt, IInv, PinCountInv
<1>2. AllocOK
  BY DEF IInv, TypeOK, AllocOK
<1>3. AllocOK'
  BY <1>1, <1>2, PinEffect
<1>4. /\ UNCHANGED <<live, head, nextUnit, fileEnd, fresh, evacPinned>>
      /\ UNCHANGED <<freeRegions, quarantine, stagedFree, snapHold>> /\ Waiting' = Waiting
  BY <1>1 DEF headVars, listVars, Waiting
<1>5. TypeOK' /\ LiveCountsExact'
  <2>1. snaps' \in [Gen -> Nat] /\ seen' \in [Gen -> SUBSET Region]
    BY <1>1 DEF IInv, TypeOK, HeldRegions
  <2>2. gpc' \in {"idle", "pinned", "checked", "copying", "collected"} /\ gcGen' \in 0 .. MaxGen
    BY <1>1 DEF IInv, TypeOK, Gen
  <2> QED
    BY <1>1, <1>3, <1>4, <2>1, <2>2 DEF IInv, TypeOK, AllocOK, LiveCountsExact
<1>6. PinInv'
  <2>1. \A r \in HeldRegions :
           r \in Region /\ r < fileEnd /\ r \notin Waiting /\ \A h \in snapHold : h[1] # r
    BY HeldAlive DEF HeldRegions
  <2>2. livePins \in [Gen -> Nat] /\ pinGen \in Nat /\ seen \in [Gen -> SUBSET Region]
    BY DEF IInv, TypeOK, AllocTypeOK
  <2>3. \A h \in snapHold : h[2] \in Nat
    BY <1>2, HoldTypes DEF AllocOK
  <2>4. CASE /\ g = pinGen + 1 /\ pinGen' = g
             /\ seen' = [seen EXCEPT ![g] = HeldRegions]
    <3>1. \A k \in Gen : k # g => seen'[k] = seen[k] /\ livePins'[k] = livePins[k]
      BY <1>1, <2>2, <2>4
    <3>2. seen'[g] = HeldRegions
      BY <2>2, <2>4
    <3> QED
      BY <1>4, <2>1, <2>2, <2>3, <2>4, <3>1, <3>2 DEF IInv, PinInv, Gen
  <2>5. CASE livePins[g] > 0 /\ UNCHANGED <<pinGen, seen>>
    BY <1>1, <1>4, <2>2, <2>5 DEF IInv, PinInv
  <2> QED
    BY <1>1, <2>4, <2>5
<1>7. CheckpointInv'
  BY <1>1, <1>4 DEF IInv, CheckpointInv
<1>8. CacheInv'
  BY <1>1, <1>4 DEF IInv, CacheInv
<1>9. GcInv'
  BY <1>1 DEF IInv, TypeOK, AllocTypeOK, GcInv
<1>10. PinCountInv'
  BY <1>1 DEF IInv, TypeOK, AllocTypeOK, PinCountInv, Readers, GcPins
<1> QED
  BY <1>3, <1>5, <1>6, <1>7, <1>8, <1>9, <1>10 DEF IInv, AllocOK

\* A pin goes, of a snapshot or of the batch in flight.
LEMMA UnpinStep ==
    ASSUME IInv, (\E k \in Gen : DropSnapshot(k)) \/ GcInstalled \/ GcDropped
    PROVE  IInv'
<1> USE AllocAssumption
<1>1. PICK g \in Gen :
         /\ livePins[g] > 0 /\ Unpin(g) /\ seen' = SeenAfterDrop(g)
         /\ UNCHANGED <<held, cached, durable, durableEnd, pend, pendEnd, wpc>>
         /\ \/ /\ UNCHANGED <<copies, lost, gpc, gcGen>> /\ livePins[g] > GcPins(g)
               /\ snaps' = [snaps EXCEPT ![g] = @ - 1] /\ snaps[g] > 0
            \/ /\ gpc' = "idle" /\ gcGen' = 0 /\ copies' = NoUnits
               /\ gpc # "idle" /\ gcGen = g /\ snaps' = snaps
               /\ lost' = [r \in Region |-> lost[r] + copies[r]]
  <2>1. CASE \E k \in Gen : DropSnapshot(k)
    <3>1. PICK g \in Gen : DropSnapshot(g)
      BY <2>1
    <3>2. livePins[g] = snaps[g] + GcPins(g) /\ snaps[g] > 0
      BY <3>1 DEF DropSnapshot, IInv, PinCountInv, Readers
    <3>3. GcPins(g) \in Nat /\ snaps[g] \in Nat
      BY DEF GcPins, IInv, TypeOK
    <3>4. livePins[g] > 0 /\ livePins[g] > GcPins(g)
      BY <3>2, <3>3
    <3> QED
      BY <3>1, <3>2, <3>4 DEF DropSnapshot
  <2>2. CASE GcDropped
    BY <2>2 DEF GcDropped, IInv, GcInv
  <2>3. CASE GcInstalled
    <3>1. lost = [r \in Region |-> lost[r] + copies[r]]
      BY <2>3 DEF GcInstalled, IInv, TypeOK, Counts, NoUnits
    <3> QED
      BY <2>3, <3>1 DEF GcInstalled, IInv, GcInv
  <2> QED
    BY <2>1, <2>2, <2>3
<1>2. AllocOK
  BY DEF IInv, TypeOK, AllocOK
<1>3. /\ AllocOK'
      /\ livePins' = [livePins EXCEPT ![g] = @ - 1]
      /\ snapHold' \subseteq snapHold
      /\ \A r \in Waiting' : r \in Waiting \/
            \E h \in snapHold : /\ h[1] = r
                                /\ \A k \in Gen : livePins'[k] > 0 => k > h[2]
      /\ \A r \in stagedFree' : r \in stagedFree \/
            /\ fresh[r]
            /\ \E h \in snapHold : /\ h[1] = r
                                   /\ \A k \in Gen : livePins'[k] > 0 => k > h[2]
      /\ UNCHANGED <<live, headVars, freeRegions, pinGen>>
  BY <1>1, <1>2, UnpinEffect
<1>4. UNCHANGED <<live, head, nextUnit, fileEnd, fresh, evacPinned, freeRegions, pinGen>>
  BY <1>3 DEF headVars
<1>5. livePins \in [Gen -> Nat] /\ seen \in [Gen -> SUBSET Region] /\ Gen \subseteq Nat
  BY DEF IInv, TypeOK, AllocTypeOK, Gen
<1>6. TypeOK' /\ LiveCountsExact'
  <2>1. \A r \in Region : lost[r] + copies[r] \in 0 .. RegionUnits
    BY DEF IInv, TypeOK, AllocTypeOK, Counts, LiveCountsExact
  <2>2. lost' \in Counts /\ copies' \in Counts
    BY <1>1, <2>1 DEF IInv, TypeOK, Counts, NoUnits
  <2>3. seen' \in [Gen -> SUBSET Region]
    BY <1>1, <1>5 DEF SeenAfterDrop
  <2>4. TypeOK'
    BY <1>1, <1>3, <2>2, <2>3 DEF IInv, TypeOK, AllocOK
  <2> QED
    BY <1>1, <1>4, <2>4 DEF IInv, TypeOK, Counts, LiveCountsExact, NoUnits
<1>7. \A h \in snapHold : h[2] \in Nat /\ h[1] \in Region
  BY <1>2, HoldTypes DEF AllocOK
<1>8. PinInv'
  <2>1. \A k \in Gen : livePins'[k] > 0 => livePins[k] > 0 /\ seen'[k] = seen[k]
    BY <1>1, <1>3, <1>5 DEF SeenAfterDrop, IInv, PinCountInv
  <2>2. ASSUME NEW k \in Gen, livePins'[k] > 0, NEW r \in seen[k]
        PROVE  r \notin Waiting'
    BY <1>3, <1>5, <1>7, <2>1, <2>2 DEF IInv, PinInv
  <2> QED
    BY <1>3, <1>4, <2>1, <2>2 DEF IInv, PinInv
<1>9. CheckpointInv'
  <2>1. wpc # "renamed" => \A r \in stagedFree' : durable[r] = 0
    BY <1>3, <1>7 DEF IInv, CheckpointInv
  <2>2. wpc = "renamed" => \A r \in Waiting' : durable[r] = 0
    <3>1. \A r \in Region : held[r] > 0 => r \notin Waiting /\ \A h \in snapHold : h[1] # r
      BY HeldAlive
    <3>2. Waiting' \subseteq Region
      BY <1>3 DEF AllocOK, AllocTypeOK, Waiting
    <3>3. \A r \in Waiting' : held[r] = 0
      BY <1>3, <3>1, <3>2 DEF IInv, TypeOK, Counts
    <3> QED
      BY <3>3 DEF IInv, CheckpointInv
  <2> QED
    BY <1>1, <1>4, <2>1, <2>2 DEF IInv, CheckpointInv, Waiting
<1>10. GcInv'
  <2>1. CASE gpc' = "idle"
    BY <1>1, <2>1 DEF IInv, GcInv
  <2>2. CASE gpc' # "idle"
    <3>1. gpc' = gpc /\ gcGen' = gcGen /\ copies' = copies /\ livePins[g] > GcPins(g)
      BY <1>1, <2>2
    <3>2. gcGen \in Gen /\ livePins[gcGen] > 0
      BY <2>2, <3>1 DEF IInv, GcInv
    <3>3. livePins'[gcGen] > 0
      BY <1>3, <1>5, <2>2, <3>1, <3>2 DEF GcPins
    <3> QED
      BY <2>2, <3>1, <3>2, <3>3 DEF GcInv
  <2> QED
    BY <2>1, <2>2
<1>11. CacheInv'
  <2>1. \A r \in cached' : r < fileEnd' /\ r \notin freeRegions'
    BY <1>1, <1>4 DEF IInv, CacheInv
  <2>2. CASE gpc' = "checked"
    <3>1. gpc = "checked" /\ gcGen' = gcGen /\ gcGen \in Gen /\ livePins'[gcGen] > 0
      BY <1>1, <1>10, <2>2 DEF GcInv
    <3>2. \A r \in stagedFree' : r \notin cached
      BY <1>3, <1>5, <1>7, <3>1 DEF IInv, CacheInv
    <3> QED
      BY <1>1, <1>3, <2>1, <3>1, <3>2 DEF IInv, CacheInv
  <2> QED
    BY <2>1, <2>2 DEF CacheInv
<1>12. PinCountInv'
  BY <1>1, <1>3, <1>5 DEF IInv, TypeOK, PinCountInv, Readers, GcPins
<1> QED
  BY <1>3, <1>6, <1>8, <1>9, <1>10, <1>11, <1>12 DEF IInv, AllocOK

\* The steps that leave the allocator alone.
LEMMA OtherStep ==
    ASSUME IInv,
           \/ \E k \in Region : Prefetch(k)
           \/ GcCheckCache
           \/ GcCollected
           \/ WriteBatch /\ cached # {}
           \/ WriteBatchDone
    PROVE  IInv'
<1> USE AllocAssumption
<1>1. /\ UNCHANGED raVars
      /\ UNCHANGED <<held, copies, lost, snaps, seen, durable, durableEnd, pend, pendEnd, gcGen>>
      /\ wpc' = wpc \/ (wpc \in {"idle", "batch"} /\ wpc' \in {"idle", "batch"})
      /\ \/ UNCHANGED <<gpc, cached>>
         \/ UNCHANGED gpc /\ \E k \in Region : held[k] > 0 /\ cached' = cached \cup {k}
         \/ /\ cached' = cached /\ gpc # "idle"
            /\ \/ gpc' = "checked" /\ cached = {}
               \/ gpc' \in {"copying", "collected"}
  BY DEF Prefetch, GcCheckCache, GcCollected, WriteBatch, WriteBatchDone
<1>2. UNCHANGED <<live, head, nextUnit, fileEnd, freeRegions, fresh, quarantine,
              stagedFree, snapHold, livePins, pinGen, evacPinned>>
  BY <1>1 DEF raVars
<1>3. TypeOK' /\ LiveCountsExact'
  BY <1>1, <1>2 DEF IInv, TypeOK, AllocTypeOK, LiveCountsExact
<1>4. HeadInv' /\ ListInv' /\ PinInv'
  BY <1>1, <1>2 DEF IInv, HeadInv, ListInv, ListedOnce, PinInv, Waiting
<1>5. CheckpointInv'
  BY <1>1, <1>2 DEF IInv, CheckpointInv
<1>6. CacheInv'
  <2>1. \A k \in Region : held[k] > 0 =>
           k < fileEnd /\ k \notin Waiting /\ \A h \in snapHold : h[1] # k
    BY HeldAlive
  <2> QED
    BY <1>1, <1>2, <2>1 DEF IInv, CacheInv, Waiting
<1>7. GcInv' /\ PinCountInv'
  BY <1>1, <1>2 DEF IInv, GcInv, PinCountInv, Readers, GcPins
<1> QED
  BY <1>3, <1>4, <1>5, <1>6, <1>7 DEF IInv

\* Victims that could not be emptied: a flag only the victim selection reads.
LEMMA VictimStep ==
    ASSUME IInv, NEW victims \in SUBSET Region, PinVictims(victims)
    PROVE  IInv'
<1>1. /\ UNCHANGED <<live, head, nextUnit, fileEnd, freeRegions, fresh, quarantine,
                     stagedFree, snapHold, livePins, pinGen>>
      /\ UNCHANGED <<held, copies, lost, snaps, seen, cached, durable, durableEnd,
                     pend, pendEnd, wpc, gpc, gcGen>>
  BY DEF PinVictims, PinStillLive, clientVars, listVars, pinVars
<1>2. evacPinned' \in [Region -> BOOLEAN]
  BY DEF PinVictims, PinStillLive
<1>3. TypeOK' /\ LiveCountsExact' /\ HeadInv'
  BY <1>1, <1>2 DEF IInv, TypeOK, AllocTypeOK, LiveCountsExact, HeadInv
<1>4. ListInv' /\ PinInv'
  BY <1>1 DEF IInv, ListInv, ListedOnce, PinInv, Waiting
<1>5. CheckpointInv' /\ CacheInv' /\ GcInv' /\ PinCountInv'
  BY <1>1 DEF IInv, CheckpointInv, CacheInv, GcInv, PinCountInv, Readers, GcPins
<1> QED
  BY <1>3, <1>4, <1>5 DEF IInv

\* open() after a crash.
LEMMA CrashStep ==
    ASSUME IInv, Crash
    PROVE  IInv'
<1> USE AllocAssumption DEF Crash, AllocOpen
<1>1. TypeOK' /\ LiveCountsExact'
  <2>1. AllocTypeOK'
    <3>1. live' \in [Region -> 0 .. RegionUnits]
      BY DEF IInv, TypeOK, Counts
    <3>2. head' \in Region /\ fileEnd' \in 0 .. NumRegions /\ nextUnit' \in 0 .. RegionUnits
      BY DEF Region
    <3>3. fresh' \in [Region -> BOOLEAN] /\ evacPinned' \in [Region -> BOOLEAN]
      OBVIOUS
    <3>4. livePins' \in [Gen -> Nat] /\ pinGen' \in 0 .. MaxGen
      OBVIOUS
    <3> QED
      BY <3>1, <3>2, <3>3, <3>4 DEF AllocTypeOK
  <2>2. NoUnits \in Counts /\ seen' \in [Gen -> SUBSET Region] /\ 0 \in 0 .. NumRegions
    BY DEF NoUnits, Counts
  <2>3. TypeOK'
    BY <2>1, <2>2 DEF IInv, TypeOK
  <2>4. LiveCountsExact'
    BY DEF IInv, TypeOK, Counts, NoUnits, LiveCountsExact
  <2> QED
    BY <2>3, <2>4
<1>2. HeadInv' /\ ListInv'
  BY DEF IInv, TypeOK, Counts, CheckpointInv, HeadInv, ListInv, ListedOnce, Waiting, Region, NoRegion
<1>3. PinInv' /\ PinCountInv' /\ CacheInv' /\ GcInv'
  BY DEF PinInv, PinCountInv, Readers, GcPins, CacheInv, GcInv
<1>4. CheckpointInv'
  BY DEF IInv, CheckpointInv, NoUnits, Region
<1> QED
  BY <1>1, <1>2, <1>3, <1>4 DEF IInv

\* Every step of the system preserves the invariant.
LEMMA NextInv == IInv /\ [Next]_vars => IInv'
<1> SUFFICES ASSUME IInv, [Next]_vars PROVE IInv'
  OBVIOUS
<1>1. CASE \E run, units \in Units : WriteRecord(run, units) \/ GcCopy(run, units)
  BY <1>1, AllocStep
<1>2. CASE \E r, q \in Region, units \in Units :
             FreeRecord(r, units) \/ InstallCopy(r, q, units) \/ DiscardCopy(r, units)
  BY <1>2, FreeStep
<1>3. CASE (WriteBatch /\ cached = {}) \/ PrefetchClear \/ GcDrain
  BY <1>3, DrainStep
<1>4. CASE PersistCapture \/ PersistRename \/ PersistFails \/ PersistDone
  BY <1>4, PersistStep
<1>5. CASE TakeSnapshot \/ GcPin \/ \E g \in Gen : CloneSnapshot(g)
  BY <1>5, PinStep
<1>6. CASE (\E g \in Gen : DropSnapshot(g)) \/ GcInstalled \/ GcDropped
  BY <1>6, UnpinStep
<1>7. CASE \/ \E r \in Region : Prefetch(r)
           \/ GcCheckCache
           \/ GcCollected
           \/ WriteBatch /\ cached # {}
           \/ WriteBatchDone
  BY <1>7, OtherStep
<1>8. CASE Crash
  BY <1>8, CrashStep
<1>9. CASE UNCHANGED vars
  <2>1. UNCHANGED <<live, head, nextUnit, fileEnd, freeRegions, fresh, quarantine,
              stagedFree, snapHold, livePins, pinGen, evacPinned>>
    BY <1>9 DEF vars, raVars
  <2>2. UNCHANGED <<held, copies, lost, snaps, seen, cached, durable, durableEnd, pend,
                pendEnd, wpc, gpc, gcGen>>
    BY <1>9 DEF vars, clientVars
  <2>3. TypeOK' /\ LiveCountsExact' /\ HeadInv'
    BY <2>1, <2>2 DEF IInv, TypeOK, AllocTypeOK, LiveCountsExact, HeadInv
  <2>4. ListInv' /\ PinInv'
    BY <2>1, <2>2 DEF IInv, ListInv, ListedOnce, PinInv, Waiting
  <2>5. CheckpointInv' /\ CacheInv' /\ GcInv' /\ PinCountInv'
    BY <2>1, <2>2 DEF IInv, CheckpointInv, CacheInv, GcInv, PinCountInv, Readers, GcPins
  <2> QED
    BY <2>3, <2>4, <2>5 DEF IInv
<1>10. CASE \E victims \in SUBSET Region : PinVictims(victims)
  BY <1>10, VictimStep
<1> QED
  BY <1>1, <1>2, <1>3, <1>4, <1>5, <1>6, <1>7, <1>8, <1>9, <1>10 DEF Next

\* The invariant implies what the runs check.
LEMMA InvImplies ==
    ASSUME IInv
    PROVE  /\ FrontierNotOverwritten /\ SnapshotsNotOverwritten
           /\ CheckpointNotOverwritten /\ ReadAheadNotAliased
<1> USE AllocAssumption
<1>1. /\ fileEnd \in Nat /\ freeRegions \subseteq Region
      /\ \A r \in Region : held[r] \in Nat /\ copies[r] \in Nat /\ r \in Nat
  BY SMTT(40) DEF IInv, TypeOK, AllocTypeOK, Counts, Region
<1>2. \A r \in NewHeadChoices : r \in Region /\ (r \in Waiting \/ r = fileEnd)
  BY <1>1 DEF NewHeadChoices, Waiting
<1>3. \A r \in NewHeadChoices : r \in freeRegions \/ r = fileEnd
  BY DEF NewHeadChoices
<1>4. \A r \in NewHeadChoices : held[r] = 0 /\ copies[r] = 0
  <2> SUFFICES ASSUME NEW r \in NewHeadChoices, held[r] > 0 \/ copies[r] > 0
               PROVE  FALSE
    BY <1>1, <1>2
  <2> QED
    BY <1>1, <1>2, HeldAlive
<1>5. SnapshotsNotOverwritten
  BY <1>1, <1>2 DEF IInv, PinInv, PinCountInv, SnapshotsNotOverwritten
<1>6. CheckpointNotOverwritten
  <2>1. \A r \in NewHeadChoices : durable[r] = 0
    BY <1>1, <1>2, <1>3 DEF IInv, TypeOK, CheckpointInv, NoManifest
  <2> QED
    BY <1>4, <2>1 DEF IInv, CheckpointInv, CheckpointNotOverwritten
<1>7. ReadAheadNotAliased
  BY <1>1, <1>3 DEF IInv, TypeOK, CacheInv, ReadAheadNotAliased
<1> QED
  BY <1>4, <1>5, <1>6, <1>7 DEF FrontierNotOverwritten

-----------------------------------------------------------------------------
(* What keeps a region parked. *)

\* Every parked region has a live pin that its tag does not outdate.
ParkedInv == \A h \in snapHold : \E g \in Gen : livePins[g] > 0 /\ g <= h[2]

\* Nothing released leaves a pin behind that would have held it, and what is
\* parked anew is parked for a live pin.
LEMMA ParkedStep == IInv /\ ParkedInv /\ [Next]_vars => ParkedInv'
<1> SUFFICES ASSUME IInv, ParkedInv, [Next]_vars PROVE ParkedInv'
  OBVIOUS
<1>1. /\ AllocTypeOK /\ AllocOK /\ \A g \in Gen : livePins[g] > 0 => g <= pinGen
      /\ livePins \in [Gen -> Nat]
  BY DEF IInv, TypeOK, PinInv, AllocOK, AllocTypeOK
<1>2. ASSUME UNCHANGED <<snapHold, livePins>> PROVE ParkedInv'
  BY <1>2 DEF ParkedInv
<1>3. ASSUME NEW run, NEW units, Alloc(run, units) PROVE ParkedInv'
  BY <1>2, <1>3 DEF Alloc, AllocInHead, AllocNewHead, listVars, pinVars
<1>4. ASSUME NEW r, NEW units, Free(r, units) PROVE ParkedInv'
  <2>1. UNCHANGED livePins /\ snapHold' = (IF Dies(r, units) /\ AnyPinLive
                                          THEN snapHold \cup {<<r, pinGen>>} ELSE snapHold)
    BY <1>4 DEF Free, pinVars
  <2> QED
    BY <1>1, <2>1 DEF ParkedInv, AnyPinLive
<1>5. ASSUME DrainStaged PROVE ParkedInv'
  BY <1>2, <1>5 DEF DrainStaged, pinVars
<1>6. ASSUME OnPersisted PROVE ParkedInv'
  <2>1. UNCHANGED livePins /\ snapHold' = (IF AnyPinLive
                                          THEN snapHold \cup {<<r, pinGen>> : r \in quarantine}
                                          ELSE snapHold)
    BY <1>6 DEF OnPersisted, pinVars
  <2> QED
    BY <1>1, <2>1 DEF ParkedInv, AnyPinLive
<1>7. ASSUME NEW g \in Gen, livePins' = [livePins EXCEPT ![g] = @ + 1], UNCHANGED snapHold
      PROVE  ParkedInv'
  <2>1. \A k \in Gen : livePins[k] > 0 => livePins'[k] > 0
    BY <1>1, <1>7
  <2> QED
    BY <1>7, <2>1 DEF ParkedInv
<1>8. ASSUME NEW g, Unpin(g) PROVE ParkedInv'
  <2>1. snapHold' = snapHold \ Released(livePins')
    BY <1>8 DEF Unpin, ReleaseSnapHold
  <2>2. \A h \in snapHold' : \E k \in Gen : livePins'[k] > 0 /\ ~(k > h[2])
    BY <2>1 DEF Released
  <2>3. \A h \in snapHold' : h[2] \in Int
    BY <1>1, <2>1 DEF AllocTypeOK
  <2> QED
    BY <2>2, <2>3 DEF ParkedInv, Gen
<1>9. ASSUME Pin PROVE ParkedInv'
  <2>1. pinGen + 1 \in Gen
    BY <1>1, <1>9, AllocAssumption DEF Pin, AllocTypeOK, Gen
  <2> QED
    BY <1>7, <1>9, <2>1 DEF Pin, listVars
<1>10. ASSUME Crash PROVE ParkedInv'
  BY <1>10 DEF Crash, AllocOpen, ParkedInv
<1>11. CASE UNCHANGED vars
  BY <1>2, <1>11 DEF vars, raVars
<1>12. CASE \E run, units \in Units : WriteRecord(run, units) \/ GcCopy(run, units)
  BY <1>3, <1>12 DEF WriteRecord, GcCopy
<1>13. CASE \E r, q \in Region, units \in Units :
              FreeRecord(r, units) \/ InstallCopy(r, q, units) \/ DiscardCopy(q, units)
  BY <1>4, <1>13 DEF FreeRecord, InstallCopy, DiscardCopy
<1>14. CASE WriteBatch \/ PrefetchClear \/ GcDrain
  BY <1>2, <1>5, <1>14 DEF WriteBatch, PrefetchClear, GcDrain, raVars
<1>15. CASE PersistCapture \/ PersistRename \/ PersistFails \/ PersistDone
  BY <1>2, <1>6, <1>15 DEF PersistCapture, PersistRename, PersistFails, PersistDone, raVars
<1>16. CASE TakeSnapshot \/ GcPin
  BY <1>9, <1>16 DEF TakeSnapshot, GcPin
<1>17. CASE \E g \in Gen : CloneSnapshot(g) \/ DropSnapshot(g)
  BY <1>7, <1>8, <1>17 DEF CloneSnapshot, DropSnapshot, PinAt, listVars
<1>18. CASE GcInstalled \/ GcDropped
  BY <1>8, <1>18 DEF GcInstalled, GcDropped
<1>19. CASE \/ \E r \in Region : Prefetch(r)
            \/ GcCheckCache \/ GcCollected \/ WriteBatchDone
  BY <1>2, <1>19 DEF Prefetch, GcCheckCache, GcCollected, WriteBatchDone, raVars
<1>20. CASE \E victims \in SUBSET Region : PinVictims(victims)
  BY <1>2, <1>20 DEF PinVictims, PinStillLive, listVars, pinVars
<1> QED
  BY <1>10, <1>11, <1>12, <1>13, <1>14, <1>15, <1>16, <1>17, <1>18, <1>19, <1>20 DEF Next

-----------------------------------------------------------------------------
\* The invariant holds in every reachable state.
THEOREM Inductive == Spec => []IInv
<1> QED
  BY InitInv, NextInv, PTL DEF Spec

\* Type correctness: counts stay within a region, whatever the interleaving
\* of allocations, frees and recoveries.
THEOREM TypeCorrect == Spec => []TypeOK
<1>1. IInv => TypeOK
  BY DEF IInv
<1> QED
  BY Inductive, <1>1, PTL

\* open_new_head never picks a region with a record of the frontier or of a
\* GC batch in flight.
THEOREM FrontierSafe == Spec => []FrontierNotOverwritten
<1>1. IInv => FrontierNotOverwritten
  BY InvImplies
<1> QED
  BY Inductive, <1>1, PTL

\* open_new_head never picks a region that a live snapshot can reach.
THEOREM SnapshotsSafe == Spec => []SnapshotsNotOverwritten
<1>1. IInv => SnapshotsNotOverwritten
  BY InvImplies
<1> QED
  BY Inductive, <1>1, PTL

\* open_new_head never picks a region of the manifest a crash would reopen.
THEOREM CheckpointSafe == Spec => []CheckpointNotOverwritten
<1>1. IInv => CheckpointNotOverwritten
  BY InvImplies
<1> QED
  BY Inductive, <1>1, PTL

\* open_new_head never picks a region the read-ahead cache knows.
THEOREM ReadAheadSafe == Spec => []ReadAheadNotAliased
<1>1. IInv => ReadAheadNotAliased
  BY InvImplies
<1> QED
  BY Inductive, <1>1, PTL

\* The live counts of the allocator are exact, so a region dies with its last
\* record, and neither before nor never.
THEOREM AccountingExact == Spec => []LiveCountsExact
<1>1. IInv => LiveCountsExact
  BY DEF IInv
<1> QED
  BY Inductive, <1>1, PTL

\* A dead region waits in one place only: free() and the two ways back from a
\* hold never list it twice, or it would be opened twice.
THEOREM WaitsInOnePlace == Spec => []ListedOnce
<1>1. IInv => ListedOnce
  BY DEF IInv, ListInv
<1> QED
  BY Inductive, <1>1, PTL

\* A dead region never waits for a snapshot taken after it was parked: free()
\* and on_persisted() park it under a tag some live pin is not newer than, and
\* release_snap_hold() lets it go with the last such pin.
THEOREM ParkedOnlyForOldReaders == Spec => []ParkedForOldReaders
<1>1. Init => ParkedInv
  BY DEF Init, AllocInit, ParkedInv
<1>2. IInv /\ ParkedInv => ParkedForOldReaders
  BY DEF IInv, PinCountInv, ParkedInv, ParkedForOldReaders
<1> QED
  BY Inductive, ParkedStep, <1>1, <1>2, PTL DEF Spec
=============================================================================
