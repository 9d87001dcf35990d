--------------------------- MODULE SnapshotStore ---------------------------
(***************************************************************************)
(* What the flat store promises its callers, without files, regions or     *)
(* caches: a map from paths to values, frozen snapshots of it, and one     *)
(* durable copy to which a crash takes it back.                            *)
(***************************************************************************)
CONSTANTS
    Path, Val,  \* where records live in the frontier, and their contents
    Gen,        \* generations of snapshots
    None        \* no value, no snapshot, no checkpoint

VARIABLES
    db,    \* the current contents
    op,    \* <<path, value>> the writer is putting, or None
    snap,  \* contents frozen by the snapshots of each generation, or None
    ckpt   \* contents a crash goes back to, or None

Contents == [Path -> Val \cup {None}]

Init ==
    /\ db = [p \in Path |-> None]
    /\ op = None
    /\ snap = [g \in Gen |-> None]
    /\ ckpt = None

\* A write or a delete of one path: every snapshot keeps what it had.  The
\* contents change in no other step but a crash.
Put(p, v) ==
    /\ op = None
    /\ op' = <<p, v>>
    /\ db' = [db EXCEPT ![p] = v]
    /\ UNCHANGED <<snap, ckpt>>

PutDone ==
    /\ op # None
    /\ op' = None
    /\ UNCHANGED <<db, snap, ckpt>>

Snapshot(g) ==
    /\ snap[g] = None
    /\ snap' = [snap EXCEPT ![g] = db]
    /\ UNCHANGED <<db, op, ckpt>>

Drop(g) ==
    /\ snap[g] # None
    /\ snap' = [snap EXCEPT ![g] = None]
    /\ UNCHANGED <<db, op, ckpt>>

Checkpoint ==
    /\ op = None
    /\ ckpt' = db
    /\ UNCHANGED <<db, op, snap>>

\* The process goes, and its snapshots with it.
Crash ==
    /\ ckpt # None
    /\ db' = ckpt
    /\ op' = None
    /\ snap' = [g \in Gen |-> None]
    /\ UNCHANGED ckpt

Next ==
    \/ \E p \in Path, v \in Val \cup {None} : Put(p, v)
    \/ PutDone
    \/ \E g \in Gen : Snapshot(g) \/ Drop(g)
    \/ Checkpoint
    \/ Crash

Spec == Init /\ [][Next]_<<db, op, snap, ckpt>>
=============================================================================
