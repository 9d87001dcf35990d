------------------------------ MODULE EthState ------------------------------
(***************************************************************************)
(* The typed state: the account trie and, beside it, the log of contract   *)
(* codes.  An account holds only the hash of its code, so a checkpoint of  *)
(* the trie is worth nothing without the codes it refers to.               *)
(*                                                                         *)
(* The log is a sequence of cells.  An entry is two cells of header (the   *)
(* first with the hash, the second with the length) and the code's own     *)
(* cells; a cell is the code it was written for and its place in the entry.*)
(* Hashes are injective: a code is its own hash.  Of the trie, which the   *)
(* other modules model, only the code hash of each account is kept; its    *)
(* checkpoint is one step.                                                 *)
(*                                                                         *)
(* A process that dies leaves in the file what it has written; a power     *)
(* failure leaves what was synced and a part, from the front, of what was  *)
(* written after it.                                                       *)
(***************************************************************************)
EXTENDS Integers, Sequences, Functions

CONSTANTS
    Addr,      \* accounts
    Code,      \* contract codes
    CodeLen,   \* cells of each code
    NoCode,    \* EMPTY_CODE_HASH, which is not stored
    Garbage,   \* a hash read from cells that are not a header
    MaxLog     \* bound on the cells of the log

ASSUME EthStateAssumption ==
    /\ CodeLen \in [Code -> Nat \ {0}]
    /\ NoCode \notin Code /\ Garbage \notin Code
    /\ MaxLog \in Nat

VARIABLES
    accts,     \* the trie: the code hash of each account there is
    manifest,  \* its last checkpoint, <<>> before the first, else <<accts>>
    log,       \* the cells of the code file
    synced,    \* how many of them survive a power failure
    index,     \* CodeStore::index: where the cells of a code begin, and how many
    end,       \* CodeStore::end
    pc,        \* "down", "scan" inside open, "idle", or "flush" inside persist
    \* History.
    failed,    \* "no", or "torn": a put failed half-way since the log was opened, or
               \* "buried": and another one wrote behind it
    flushed,   \* codes that a read found at a flush of a log with nothing buried
    risky,     \* the checkpoint has been replaced since the last flush
    lost       \* codes of the checkpoint that a power failure took while it was so

vars == <<accts, manifest, log, synced, index, end, pc, failed, flushed, risky, lost>>

-----------------------------------------------------------------------------
Header   == 2
Cell     == [of : Code, at : Nat \ {0}]
Full(c)  == Header + CodeLen[c]
Entry(c) == [i \in 1 .. Full(c) |-> [of |-> c, at |-> i]]
Cells(c) == [i \in 1 .. CodeLen[c] |-> Entry(c)[Header + i]]

\* HashMap::insert.
Insert(f, k, v) == [x \in DOMAIN f \cup {k} |-> IF x = k THEN v ELSE f[x]]

\* CodeStore::get.
read_at(off, len) == SubSeq(log, off + 1, off + len)
get(c) == read_at(index[c].off, index[c].len)
Found(c) == c \in DOMAIN index /\ get(c) = Cells(c)

\* The codes the checkpoint refers to; the ones a power failure leaves alone.
Referred  == (UNION {Range(m) : m \in Range(manifest)}) \ {NoCode}
Stored(c) == \E i \in 0 .. synced - Full(c) : SubSeq(log, i + 1, i + Full(c)) = Entry(c)

Up == pc \in {"idle", "flush"}

-----------------------------------------------------------------------------
\* EthState::create.
Init ==
    /\ accts = <<>> /\ manifest = <<>> /\ log = <<>> /\ synced = 0
    /\ index = <<>> /\ end = 0 /\ pc = "idle"
    /\ failed = "no" /\ flushed = {} /\ risky = FALSE /\ lost = {}

\* Mutant: the index points at the entry's header.
PutAtHeader(c) ==
    /\ log' = log \o Entry(c)
    /\ index' = Insert(index, c, [off |-> end, len |-> CodeLen[c]])
    /\ end' = end + Full(c)
\* The entry is written at the file's cursor, and indexed at end.
Put(c) ==
    /\ log' = log \o Entry(c)
    /\ index' = Insert(index, c, [off |-> end + Header, len |-> CodeLen[c]])
    /\ end' = end + Full(c)
Bury == IF failed = "torn" THEN "buried" ELSE failed
\* set_code: a code that is there is not written again.
SetCode(c) ==
    /\ pc = "idle" /\ c \notin DOMAIN index /\ Len(log) + Full(c) <= MaxLog
    /\ Put(c)
    /\ failed' = Bury
    /\ UNCHANGED <<accts, manifest, synced, pc, flushed, risky, lost>>

\* The write fails after some cells: the cursor has moved, end has not.
SetCodeFails(c) ==
    /\ pc = "idle" /\ c \notin DOMAIN index
    /\ \E n \in 1 .. Full(c) - 1 : Len(log) + n <= MaxLog /\ log' = log \o SubSeq(Entry(c), 1, n)
    /\ failed' = IF failed = "no" THEN "torn" ELSE "buried"
    /\ UNCHANGED <<accts, manifest, synced, index, end, pc, flushed, risky, lost>>

\* set_account, with a hash that set_code returned, or none; delete_account.
SetAccount(a, h) ==
    /\ pc = "idle" /\ h \in (DOMAIN index \ {Garbage}) \cup {NoCode}
    /\ accts' = Insert(accts, a, h)
    /\ UNCHANGED <<manifest, log, synced, index, end, pc, failed, flushed, risky, lost>>
DeleteAccount(a) ==
    /\ pc = "idle" /\ a \in DOMAIN accts
    /\ accts' = Restrict(accts, DOMAIN accts \ {a})
    /\ UNCHANGED <<manifest, log, synced, index, end, pc, failed, flushed, risky, lost>>

\* persist: the trie's checkpoint, which may fail, then the flush of the log,
\* which may fail too.
PersistTrie ==
    /\ pc = "idle" /\ manifest' = <<accts>> /\ pc' = "flush" /\ risky' = TRUE
    /\ UNCHANGED <<accts, log, synced, index, end, failed, flushed, lost>>
\* Mutant: the log is flushed to the operating system but not synced.
FlushWithoutSync ==
    /\ pc = "flush" /\ pc' = "idle" /\ risky' = FALSE
    /\ UNCHANGED <<accts, manifest, log, synced, index, end, failed, flushed, lost>>
PersistFlush ==
    /\ pc = "flush" /\ pc' = "idle" /\ risky' = FALSE
    /\ synced' = Len(log) /\ flushed' = flushed \cup {c \in Code : failed # "buried" /\ Found(c)}
    /\ UNCHANGED <<accts, manifest, log, index, end, failed, lost>>
PersistFlushFails ==
    /\ pc = "flush" /\ pc' = "idle"
    /\ UNCHANGED <<accts, manifest, log, synced, index, end, failed, flushed, risky, lost>>

Down ==
    /\ pc # "down" /\ pc' = "down"
    /\ accts' = <<>> /\ index' = <<>> /\ end' = 0
    /\ UNCHANGED <<manifest, flushed, risky>>
\* The process dies, maybe in the middle of a put.
Dies ==
    /\ Down /\ UNCHANGED <<synced, lost>>
    /\ \/ UNCHANGED <<log, failed>>
       \/ /\ pc = "idle"
          /\ failed' = Bury
          /\ \E c \in Code \ DOMAIN index : \E n \in 1 .. Full(c) :
                Len(log) + n <= MaxLog /\ log' = log \o SubSeq(Entry(c), 1, n)
PowerFails ==
    /\ Down /\ UNCHANGED failed
    /\ \E n \in synced .. Len(log) : log' = SubSeq(log, 1, n) /\ synced' = n
    /\ lost' = IF risky THEN lost \cup {c \in Referred : ~Stored(c)'} ELSE lost

\* EthState::open; without a checkpoint the state is created anew.  The scan of
\* the log begins at its start.
Open ==
    /\ pc = "down" /\ pc' = "scan" /\ manifest # <<>>
    /\ accts' = manifest[1]
    /\ UNCHANGED <<manifest, log, synced, index, end, failed, flushed, risky, lost>>

\* The header at end: cells that are not one give any hash and any length.
HashAtEnd == IF log[end + 1].at = 1 THEN log[end + 1].of ELSE Garbage
LengthsAtEnd ==
    IF log[end + 2].at = 2 THEN {CodeLen[log[end + 2].of]} ELSE 0 .. Len(log)

HeaderFits == end + Header <= Len(log)
\* Mutant: an entry that ends the file is taken for a torn one.
FitsBeforeEnd(n) == end + Header + n < Len(log)
Fits(n) == end + Header + n <= Len(log)

\* CodeStore::open reads an entry ...
ScanEntry ==
    /\ pc = "scan" /\ HeaderFits
    /\ \E n \in LengthsAtEnd :
          /\ Fits(n)
          /\ index' = Insert(index, HashAtEnd, [off |-> end + Header, len |-> n])
          /\ end' = end + Header + n
    /\ UNCHANGED <<accts, manifest, log, synced, pc, failed, flushed, risky, lost>>

\* ... until there is none, or one whose header or code is cut off, which is
\* truncated away.
ScanEnds ==
    /\ pc = "scan" /\ pc' = "idle"
    /\ HeaderFits => \E n \in LengthsAtEnd : ~Fits(n)
    /\ log' = SubSeq(log, 1, end)
    /\ synced' = IF synced < end THEN synced ELSE end
    /\ failed' = IF failed = "torn" THEN "no" ELSE failed
    /\ UNCHANGED <<accts, manifest, index, end, flushed, risky, lost>>

Create ==
    /\ pc = "down" /\ manifest = <<>> /\ pc' = "idle"
    /\ accts' = <<>> /\ log' = <<>> /\ synced' = 0 /\ index' = <<>> /\ end' = 0
    /\ failed' = "no" /\ flushed' = {} /\ risky' = FALSE /\ lost' = {}
    /\ UNCHANGED manifest

Next ==
    \/ \E c \in Code : SetCode(c) \/ SetCodeFails(c)
    \/ \E a \in Addr : DeleteAccount(a) \/ \E h \in Code \cup {NoCode} : SetAccount(a, h)
    \/ PersistTrie \/ PersistFlush \/ PersistFlushFails
    \/ Dies \/ PowerFails
    \/ Open \/ ScanEntry \/ ScanEnds \/ Create

Spec == Init /\ [][Next]_vars

-----------------------------------------------------------------------------
(* Properties *)

TypeOK ==
    /\ DOMAIN accts \subseteq Addr /\ Range(accts) \subseteq Code \cup {NoCode}
    /\ \A m \in Range(manifest) : DOMAIN m \subseteq Addr /\ Range(m) \subseteq Code \cup {NoCode}
    /\ log \in Seq(Cell) /\ Len(log) <= MaxLog
    /\ synced \in 0 .. Len(log) /\ end \in 0 .. Len(log)
    /\ DOMAIN index \subseteq Code \cup {Garbage}
    /\ \A h \in DOMAIN index : index[h] \in [off : Nat, len : Nat]
    /\ flushed \in SUBSET Code /\ lost \in SUBSET Code /\ risky \in BOOLEAN
    /\ pc \in {"down", "scan", "idle", "flush"} /\ failed \in {"no", "torn", "buried"}
    /\ failed = "no" /\ Up => end = Len(log)

\* The index built by puts, and the one a scan rebuilds, lead to the codes
\* themselves: after any crash, torn entry and reopening.  A put that failed
\* half-way is harmless if the log is reopened, but not if another put follows it
\* (the cursor has moved and end has not).
IndexFindsCodesButBuried ==
    failed # "buried" => \A c \in DOMAIN index : c \in Code /\ Found(c)

\* A code that was there at a flush is found for ever after, whatever crashes,
\* power failures and failed puts follow: what a failed put ruins if the process
\* goes on is only what is written behind it.
FlushedCodesSurvive == Up => \A c \in flushed : Found(c)

\* Once persist has returned, a power failure takes no code that the checkpoint
\* refers to.  One may between the trie's checkpoint and the flush of the log, and
\* until the next flush if that one failed.
CheckpointCodesSynced ==
    ~risky /\ failed # "buried" => \A c \in Referred \ lost : Stored(c)

\* Every account's code is found: truncating a torn entry loses nothing that a
\* checkpoint refers to (CodeStore::open: "the log is written before any manifest
\* references its hashes, so dropping it is always safe").
OpenLosesNoCode ==
    Up => \A a \in DOMAIN accts : accts[a] \in Code => accts[a] \in DOMAIN index
=============================================================================
