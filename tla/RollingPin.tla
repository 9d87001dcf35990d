----------------------------- MODULE RollingPin -----------------------------
(***************************************************************************)
(* Does a dead region come back?  The allocator of RegionAlloc under an    *)
(* embedder that publishes a read snapshot after each block: the new one   *)
(* is pinned, then the old one dropped, so that from the first one on a    *)
(* pin is live at all times ("pinned"); that persists as well, with that   *)
(* pin live ("pinned, persists"); or that persists as well and now and     *)
(* then lets its last snapshot go ("persists").                            *)
(*                                                                         *)
(* Pin generations are u64 and only compared with each other and with the  *)
(* tags of snapHold.  Renumber shifts them all once only the newest is     *)
(* live, which keeps every comparison and makes the state space finite.    *)
(***************************************************************************)
EXTENDS RegionAlloc

CONSTANTS
    Embedders  \* the embedders considered

ASSUME EmbedderAssumption ==
    /\ Embedders \subseteq {"pinned", "persists", "pinned, persists"}
    /\ MaxGen >= 2

VARIABLES
    embedder,   \* chosen once and for all
    published,  \* generation of the published snapshot, 0 before the first
    old         \* generation of the one it replaces, until that is dropped

vars == <<raVars, embedder, published, old>>

KeepPinned == embedder # "persists"
Persists   == embedder # "pinned"

Init ==
    /\ AllocInit
    /\ embedder \in Embedders
    /\ published = 0 /\ old = 0

\* A record is written, or freed, by a block.
Write ==
    /\ Alloc(1, 1)
    /\ UNCHANGED <<embedder, published, old>>

FreeRecord(r) ==
    /\ live[r] > 0
    /\ Free(r, 1)
    /\ UNCHANGED <<embedder, published, old>>

\* The end of persist (its other steps leave the allocator alone), with a pin
\* live or not.
Persist ==
    /\ Persists
    /\ OnPersisted
    /\ UNCHANGED <<embedder, published, old>>

\* prefetch_clear after an apply.
Clear ==
    /\ DrainStaged
    /\ UNCHANGED <<embedder, published, old>>

Publish ==
    /\ old = 0
    /\ Pin
    /\ published' = pinGen + 1 /\ old' = published /\ UNCHANGED embedder

DropOld ==
    /\ old # 0
    /\ Unpin(old)
    /\ old' = 0 /\ UNCHANGED <<embedder, published>>

Unpublish ==
    /\ ~KeepPinned /\ old = 0 /\ published # 0
    /\ Unpin(published)
    /\ published' = 0 /\ UNCHANGED <<embedder, old>>

Renumber ==
    /\ pinGen = MaxGen /\ old = 0 /\ published \in {0, MaxGen}
    /\ LET shift(g) == IF g = MaxGen THEN 1 ELSE 0 IN
          /\ pinGen' = 1
          /\ livePins' = [g \in Gen |-> IF g = 1 THEN livePins[MaxGen] ELSE 0]
          /\ snapHold' = {<<h[1], shift(h[2])>> : h \in snapHold}
          /\ published' = shift(published)
    /\ UNCHANGED <<live, headVars, freeRegions, quarantine, stagedFree, embedder, old>>

Next ==
    \/ Write
    \/ \E r \in Region : FreeRecord(r)
    \/ Persist
    \/ Clear
    \/ Publish
    \/ DropOld
    \/ Unpublish
    \/ Renumber

\* Blocks and republications keep coming.  One who lets its last snapshot go
\* does so again and again, and persists before the next one is published again
\* and again, though publishing can get in between: hence strong fairness.  No
\* fairness is asked of a persist with a pin live.
Fairness ==
    /\ WF_vars(Clear)
    /\ WF_vars(Publish)
    /\ WF_vars(DropOld)
    /\ SF_vars(Unpublish)
    /\ SF_vars(Persist /\ ~AnyPinLive)
    /\ WF_vars(Renumber)

Spec == Init /\ [][Next]_vars /\ Fairness

TypeOK ==
    /\ AllocTypeOK
    /\ embedder \in Embedders
    /\ published \in 0 .. MaxGen /\ old \in 0 .. MaxGen

-----------------------------------------------------------------------------
Parked(r) ==
    \/ r \in quarantine \cup stagedFree
    \/ \E h \in snapHold : h[1] = r

\* A region that died comes back into circulation under an embedder that never
\* persists, though a pin is always live, and under one that persists now and
\* then with no pin live, though it persists with one as well.  The exception,
\* "pinned, persists", is what HeldWhilePinned is about: on_persisted and
\* release_snap_hold pass the region between snap_hold and quarantine for ever.
DeadRegionsReturnUnlessPinned ==
    embedder # "pinned, persists" => \A r \in Region : Parked(r) ~> r \in freeRegions

\* A parked region that was there at the last persist: a checkpoint may refer to it.
Held(r) ==
    /\ ~fresh[r]
    /\ r \in quarantine \/ \E h \in snapHold : h[1] = r

\* As long as pins overlap, such a region stays parked, however old its death and
\* however new the pins: on_persisted gives nothing back while any pin is live.
\* The documentation of live_pins promises more ("it re-enters circulation as
\* soon as the OLDEST live pin is newer than G - long-lived pins of the newest
\* state (the published read snapshot) no longer freeze reclamation").
HeldWhilePinned ==
    [][\A r \in Region : Held(r) /\ AnyPinLive /\ AnyPinLive' => Held(r)']_vars
=============================================================================
