--------------------------- MODULE EthStateProofs ---------------------------
(***************************************************************************)
(* Proofs about EthState: the index, rebuilt by every scan, leads to the   *)
(* codes, and flushes and checkpoints are safe, for any accounts, codes    *)
(* and lengths.                                                            *)
(*                                                                         *)
(* The argument is about where entries begin.  A log in which nothing was  *)
(* buried is clean: entries one behind the other, at most the last one cut *)
(* off.  A scan that starts at a boundary of a clean log therefore stands  *)
(* at a boundary for ever, meets each entry once, and stops only where     *)
(* none is left.  Once something is buried this is true of a first part of *)
(* the log only, the one that was flushed before, so the invariant says it *)
(* twice: LogInv of all cells while nothing is buried, FlushedInv of the   *)
(* flushed ones always.                                                    *)
(***************************************************************************)
EXTENDS EthState, TLAPS

\* The entry of c, whole, behind the cell o and within the first n cells.
EntryAt(o, c, n) ==
    /\ o \in Nat /\ o + Full(c) <= n
    /\ \A k \in 1 .. Full(c) : log[o + k] = [of |-> c, at |-> k]
HasEntry(c, n) == \E o \in Nat : EntryAt(o, c, n)

\* An entry may begin behind the cell b.
Boundary(b) == b = 0 \/ log[b].at = Full(log[b].of)

\* The entry that begins at the cell i goes on to its end, or to the cell n.
GoesOn(i, n) ==
    \A k \in 1 .. Full(log[i].of) :
        i + k - 1 <= n => log[i + k - 1] = [of |-> log[i].of, at |-> k]

\* The first n cells are entries one behind the other, the last one whole or not.
Clean(n) ==
    /\ \A i \in 1 .. n : log[i].at <= Full(log[i].of)
    /\ n > 0 => log[1].at = 1
    /\ \A i \in 1 .. n - 1 : log[i].at = Full(log[i].of) => log[i + 1].at = 1
    /\ \A i \in 1 .. n : log[i].at = 1 => GoesOn(i, n)

\* The index leads to a whole entry of c within the first n cells.
Indexed(c, n) ==
    /\ c \in DOMAIN index
    /\ index[c].len = CodeLen[c] /\ index[c].off >= Header
    /\ EntryAt(index[c].off - Header, c, n)

\* The process runs: end and the index mean something.
Running == pc # "down"

\* As long as nothing is buried the whole log is clean, the index is right and
\* leads to every entry before end, and what lies behind end is of no code there.
LogInv ==
    failed # "buried" =>
        /\ Clean(Len(log))
        /\ Running =>
              /\ Boundary(end)
              /\ \A c \in DOMAIN index : c \in Code /\ Indexed(c, end)
              /\ \A i \in 1 .. end : log[i].at = 1 => log[i].of \in DOMAIN index
        /\ Up => \A i \in end + 1 .. Len(log) : log[i].of \notin DOMAIN index

\* Nothing before the scan, nothing after the crash.
DownInv ==
    /\ pc = "down" => index = <<>> /\ end = 0
    /\ manifest = <<>> \/ \E m : manifest = <<m>>
    /\ pc = "scan" => manifest # <<>> /\ accts = manifest[1]

\* The codes of the checkpoint, but for those already lost, are in the log, and
\* synced once the flush that follows the checkpoint has returned.  The accounts
\* refer to them, or to codes put since.
CheckpointInv ==
    failed # "buried" =>
        /\ \A c \in Referred \ lost : HasEntry(c, Len(log))
        /\ ~risky => \A c \in Referred \ lost : HasEntry(c, synced)
        /\ Up => \A a \in DOMAIN accts : accts[a] \in Code \ lost => accts[a] \in DOMAIN index

\* The first n cells, synced, are clean and hold the flushed codes; behind them
\* no entry of one begins.  The index leads to the ones the scan has passed.
FlushedAt(n) ==
    /\ n \in 0 .. synced
    /\ Clean(n) /\ Boundary(n)
    /\ \A c \in flushed : HasEntry(c, n)
    /\ \A i \in n + 1 .. Len(log) : log[i].at = 1 => log[i].of \notin flushed
    /\ Running =>
          /\ end <= n => Boundary(end)
          /\ \A i \in 1 .. n : log[i].at = 1 /\ log[i].of \in flushed /\ i <= end => Indexed(log[i].of, n)
    /\ Up => n <= end

FlushedInv == \E n \in 0 .. Len(log) : FlushedAt(n)

Inv == TypeOK /\ DownInv /\ LogInv /\ CheckpointInv /\ FlushedInv

-----------------------------------------------------------------------------
(* Entries *)

\* A code has at least one cell, so an entry is longer than its header.
LEMMA Lengths ==
    \A c \in Code : /\ CodeLen[c] \in Nat \ {0} /\ Full(c) \in Nat
                     /\ Full(c) > Header /\ Full(c) = Header + CodeLen[c]
BY EthStateAssumption DEF Full, Header

\* What TypeOK says of the log, cell by cell.
LEMMA CellTypes ==
    ASSUME TypeOK
    PROVE  /\ log \in Seq(Cell) /\ Len(log) \in Nat /\ synced \in Nat /\ end \in Nat
           /\ \A i \in 1 .. Len(log) : /\ log[i] \in Cell /\ log[i].of \in Code /\ log[i].at \in Nat \ {0}
                                       /\ Full(log[i].of) \in Nat /\ Full(log[i].of) > Header
<1>1. log \in Seq(Cell) /\ synced \in 0 .. Len(log) /\ end \in 0 .. Len(log)
  BY DEF TypeOK
<1>2. Len(log) \in Nat /\ \A i \in 1 .. Len(log) : log[i] \in Cell
  BY <1>1
<1>3. \A x \in Cell : x.of \in Code /\ x.at \in Nat \ {0}
  BY DEF Cell
<1> QED
  BY <1>1, <1>2, <1>3, Lengths

\* A piece of a sequence, cell by cell.
LEMMA Piece ==
    ASSUME NEW S, NEW s \in Seq(S), NEW o \in Nat, NEW l \in Nat, o + l <= Len(s)
    PROVE  SubSeq(s, o + 1, o + l) = [k \in 1 .. l |-> s[o + k]]
OBVIOUS

\* A read through the index returns the code.
LEMMA IndexedFound ==
    ASSUME TypeOK, NEW c \in Code, NEW n \in 0 .. Len(log), Indexed(c, n)
    PROVE  Found(c)
<1> DEFINE o == index[c].off
           L == CodeLen[c]
<1>1. o \in Nat /\ o >= Header /\ L \in Nat /\ index[c].len = L /\ c \in DOMAIN index
  BY Lengths DEF Indexed, TypeOK
<1>2. o + L <= Len(log) /\ \A k \in 1 .. L : log[o + k] = [of |-> c, at |-> Header + k]
  <2>1. /\ o - Header + Full(c) <= n
        /\ \A k \in 1 .. Full(c) : log[o - Header + k] = [of |-> c, at |-> k]
    BY DEF Indexed, EntryAt
  <2>2. Full(c) = Header + L /\ Header = 2 /\ Len(log) \in Nat
    BY Lengths, CellTypes DEF Header
  <2>3. ASSUME NEW k \in 1 .. L
        PROVE  log[o + k] = [of |-> c, at |-> Header + k]
    <3>1. Header + k \in 1 .. Full(c) /\ o - Header + (Header + k) = o + k
      BY <1>1, <2>2, SMTT(20)
    <3> QED
      BY <2>1, <3>1
  <2> QED
    BY <1>1, <2>1, <2>2, <2>3
<1>3. SubSeq(log, o + 1, o + L) = [k \in 1 .. L |-> log[o + k]]
  <2>1. log \in Seq(Cell)
    BY CellTypes
  <2> HIDE DEF o, L
  <2> QED
    BY <1>1, <1>2, <2>1, Piece
<1>4. Cells(c) = [k \in 1 .. L |-> [of |-> c, at |-> Header + k]]
  BY <1>1, Lengths DEF Cells, Entry, Header
<1> QED
  BY <1>1, <1>2, <1>3, <1>4 DEF Found, get, read_at

\* Stored, in the terms of the invariant.
StoredEntries == \A c \in Code : Stored(c) <=> HasEntry(c, synced)

\* Stored says that a whole entry is synced.
LEMMA StoredEntry == TypeOK => StoredEntries
<1> SUFFICES ASSUME TypeOK, NEW c \in Code
             PROVE  Stored(c) <=> HasEntry(c, synced)
  BY DEF StoredEntries
<1> DEFINE F == Full(c)
<1>1. F \in Nat /\ synced \in 0 .. Len(log) /\ Len(log) \in Nat /\ log \in Seq(Cell)
  BY Lengths, CellTypes DEF TypeOK
<1>2. ASSUME NEW i \in 0 .. synced - F
      PROVE  SubSeq(log, i + 1, i + F) = Entry(c)
             <=> \A k \in 1 .. F : log[i + k] = [of |-> c, at |-> k]
  <2>1. Entry(c) = [k \in 1 .. F |-> [of |-> c, at |-> k]]
    BY DEF Entry
  <2> HIDE DEF F
  <2>2. i \in Nat /\ i + F <= Len(log)
    BY <1>1
  <2>3. SubSeq(log, i + 1, i + F) = [k \in 1 .. F |-> log[i + k]]
    BY <1>1, <2>2, Piece
  <2> QED
    BY <2>1, <2>3
<1>3. \A o \in Nat : o + F <= synced <=> o \in 0 .. synced - F
  BY <1>1
<1>4. Stored(c) <=> \E o \in 0 .. synced - F : \A k \in 1 .. F : log[o + k] = [of |-> c, at |-> k]
  BY <1>2 DEF Stored
<1>5. HasEntry(c, synced) <=>
        \E o \in Nat : o + F <= synced /\ \A k \in 1 .. F : log[o + k] = [of |-> c, at |-> k]
  BY DEF HasEntry, EntryAt
<1>6. 0 .. synced - F \subseteq Nat
  BY <1>1
<1> HIDE DEF F
<1> QED
  BY <1>3, <1>4, <1>5, <1>6

\* The same of the next state.
LEMMA StoredEntryNext == TypeOK' => StoredEntries'
BY StoredEntry, PTL

\* What the entry of a clean log behind a boundary is.
LEMMA NextEntry ==
    ASSUME TypeOK, NEW n \in 0 .. Len(log), Clean(n), NEW b \in Nat, b < n, Boundary(b),
           NEW c, c = log[b + 1].of
    PROVE  /\ c \in Code /\ log[b + 1].at = 1
           /\ \A k \in 1 .. Full(c) : b + k <= n => log[b + k] = [of |-> c, at |-> k]
           /\ b + Full(c) <= n => EntryAt(b, c, n) /\ Boundary(b + Full(c))
           /\ Boundary(n) => b + Full(c) <= n
<1>1. b + 1 \in 1 .. n /\ n \in 1 .. Len(log) /\ c \in Code /\ Full(c) \in Nat /\ Full(c) > Header /\ Header = 2
  BY CellTypes, Lengths DEF Header
<1>2. log[b + 1].at = 1
  <2>1. CASE b = 0
    BY <1>1, <2>1 DEF Clean
  <2>2. CASE b # 0
    <3>1. b \in 1 .. n - 1 /\ log[b].at = Full(log[b].of)
      BY <1>1, <2>2 DEF Boundary
    <3> QED
      BY <3>1 DEF Clean
  <2> QED
    BY <2>1, <2>2
<1>3. \A k \in 1 .. Full(c) : b + k <= n => log[b + k] = [of |-> c, at |-> k]
  <2>1. \A k \in 1 .. Full(c) : b + 1 + k - 1 <= n => log[b + 1 + k - 1] = [of |-> c, at |-> k]
    BY <1>1, <1>2 DEF Clean, GoesOn
  <2>2. \A k \in 1 .. Full(c) : b + 1 + k - 1 = b + k
    BY <1>1
  <2> QED
    BY <2>1, <2>2
<1>4. ASSUME b + Full(c) <= n
      PROVE  EntryAt(b, c, n) /\ Boundary(b + Full(c))
  <2>1. \A k \in 1 .. Full(c) : log[b + k] = [of |-> c, at |-> k]
    BY <1>1, <1>3, <1>4
  <2>2. log[b + Full(c)] = [of |-> c, at |-> Full(c)]
    BY <1>1, <2>1
  <2> QED
    BY <1>4, <2>1, <2>2 DEF EntryAt, Boundary
<1>5. ASSUME Boundary(n), b + Full(c) > n
      PROVE  FALSE
  <2>1. n - b \in 1 .. Full(c) /\ b + (n - b) = n /\ n # 0
    BY <1>1, <1>5
  <2>2. log[n] = [of |-> c, at |-> n - b]
    BY <1>1, <1>3, <2>1
  <2> QED
    BY <1>1, <1>5, <2>1, <2>2 DEF Boundary
<1> QED
  BY <1>1, <1>2, <1>3, <1>4, <1>5

\* An entry does not straddle a boundary.
LEMMA NoStraddle ==
    ASSUME TypeOK, NEW b \in 0 .. Len(log), Boundary(b), NEW c \in Code, NEW o \in Nat,
           EntryAt(o, c, Len(log)), o < b
    PROVE  EntryAt(o, c, b)
<1>1. Full(c) \in Nat /\ Full(c) > 0 /\ Len(log) \in Nat
  BY Lengths, CellTypes DEF Header
<1>2. ASSUME o + Full(c) > b
      PROVE  FALSE
  <2>1. b - o \in 1 .. Full(c) /\ o + (b - o) = b /\ b # 0
    BY <1>1, <1>2
  <2>2. log[b] = [of |-> c, at |-> b - o]
    BY <2>1 DEF EntryAt
  <2> QED
    BY <1>1, <1>2, <2>1, <2>2 DEF Boundary
<1> QED
  BY <1>1, <1>2 DEF EntryAt

\* What begins a clean log is clean.
LEMMA CleanPrefix ==
    ASSUME TypeOK, NEW n \in 0 .. Len(log), Clean(n), NEW m \in 0 .. n
    PROVE  Clean(m)
<1>1. Len(log) \in Nat
  BY CellTypes
<1>2. 1 .. m \subseteq 1 .. n /\ 1 .. m - 1 \subseteq 1 .. n - 1 /\ (m > 0 => n > 0)
  BY <1>1
<1>3. \A j \in Int : j <= m => j <= n
  BY <1>1
<1>4. \A i \in 1 .. m : \A k \in 1 .. Full(log[i].of) : i + k - 1 \in Int
  BY <1>1, CellTypes
<1> QED
  BY <1>2, <1>3, <1>4 DEF Clean, GoesOn

-----------------------------------------------------------------------------
(* Appending to the log, and cutting it *)

\* What is said of cells that a step keeps, it keeps.
LEMMA Kept ==
    ASSUME TypeOK, NEW m \in 0 .. Len(log), \A i \in 1 .. m : log'[i] = log[i]
    PROVE  /\ \A n \in 0 .. m : Clean(n)' <=> Clean(n)
           /\ \A b \in 0 .. m : Boundary(b)' <=> Boundary(b)
           /\ \A c \in Code, o \in Nat, n \in 0 .. m : EntryAt(o, c, n)' <=> EntryAt(o, c, n)
           /\ \A c \in Code, n \in 0 .. m : HasEntry(c, n)' <=> HasEntry(c, n)
           /\ UNCHANGED index => \A c \in Code, n \in 0 .. m : Indexed(c, n)' <=> Indexed(c, n)
<1>1. m \in Nat /\ \A i \in 1 .. m : Full(log[i].of) \in Nat /\ Full(log[i].of) > 0
  BY CellTypes DEF Header
<1>2. ASSUME NEW n \in 0 .. m
      PROVE  Clean(n)' <=> Clean(n)
  <2>1. /\ 1 .. n \subseteq 1 .. m /\ 1 .. n - 1 \subseteq 1 .. m /\ (n > 0 => 1 \in 1 .. m)
        /\ \A i \in 1 .. n - 1 : i + 1 \in 1 .. m
    BY <1>1
  <2>2. \A i \in 1 .. n : \A k \in 1 .. Full(log[i].of) : i + k - 1 <= n => i + k - 1 \in 1 .. m
    BY <1>1
  <2>3. /\ \A i \in 1 .. n : log'[i] = log[i]
        /\ n > 0 => log'[1] = log[1]
        /\ \A i \in 1 .. n - 1 : log'[i] = log[i] /\ log'[i + 1] = log[i + 1]
    BY <2>1
  <2>4. \A i \in 1 .. n : \A k \in 1 .. Full(log[i].of) :
            i + k - 1 <= n => log'[i + k - 1] = log[i + k - 1]
    BY <2>2
  <2>5. \A i \in 1 .. n : GoesOn(i, n)' <=> GoesOn(i, n)
    BY <2>3, <2>4 DEF GoesOn, Full
  <2> QED
    BY <2>3, <2>5 DEF Clean, Full
<1>3. \A b \in 0 .. m : Boundary(b)' <=> Boundary(b)
  BY <1>1 DEF Boundary, Full
<1>4. ASSUME NEW c \in Code, NEW o \in Nat, NEW n \in 0 .. m
      PROVE  EntryAt(o, c, n)' <=> EntryAt(o, c, n)
  <2>1. o + Full(c) <= n => \A k \in 1 .. Full(c) : log'[o + k] = log[o + k]
    BY <1>1, Lengths
  <2> QED
    BY <2>1 DEF EntryAt, Full
<1>5. \A c \in Code, n \in 0 .. m : HasEntry(c, n)' <=> HasEntry(c, n)
  BY <1>4 DEF HasEntry
<1>6. ASSUME UNCHANGED index, NEW c \in Code, NEW n \in 0 .. m
      PROVE  Indexed(c, n)' <=> Indexed(c, n)
  <2>1. \A o : EntryAt(o, c, n)' <=> EntryAt(o, c, n)
    BY <1>4 DEF EntryAt
  <2> QED
    BY <1>6, <2>1 DEF Indexed, Header, EntryAt
<1> QED
  BY <1>2, <1>3, <1>4, <1>5, <1>6

\* A put, whole or torn, adds cells of its entry, from the first.
LEMMA Appended ==
    ASSUME TypeOK, NEW c \in Code, NEW n \in 1 .. Full(c), log' = log \o SubSeq(Entry(c), 1, n)
    PROVE  /\ log' \in Seq(Cell) /\ Len(log') = Len(log) + n
           /\ \A i \in 1 .. Len(log) : log'[i] = log[i]
           /\ \A k \in 1 .. n : log'[Len(log) + k] = [of |-> c, at |-> k]
<1> DEFINE e == SubSeq(Entry(c), 1, n)
<1>1. Full(c) \in Nat /\ log \in Seq(Cell) /\ Len(log) \in Nat
  BY Lengths, CellTypes
<1>2. Entry(c) \in Seq(Cell) /\ Len(Entry(c)) = Full(c)
  <2>1. \A k \in 1 .. Full(c) : [of |-> c, at |-> k] \in Cell
    BY <1>1 DEF Cell
  <2> QED
    BY <1>1, <2>1 DEF Entry
<1>3. e \in Seq(Cell) /\ Len(e) = n /\ \A k \in 1 .. n : e[k] = Entry(c)[k]
  BY <1>1, <1>2
<1>4. \A k \in 1 .. n : Entry(c)[k] = [of |-> c, at |-> k]
  BY <1>1 DEF Entry
<1> HIDE DEF e
<1>5. /\ log \o e \in Seq(Cell) /\ Len(log \o e) = Len(log) + n
      /\ \A i \in 1 .. Len(log) : (log \o e)[i] = log[i]
      /\ \A k \in 1 .. n : (log \o e)[Len(log) + k] = e[k]
  BY <1>1, <1>3
<1>6. log' = log \o e
  BY DEF e
<1> QED
  BY <1>3, <1>4, <1>5, <1>6

\* A put behind a boundary leaves a clean log.
LEMMA AppendedClean ==
    ASSUME TypeOK, NEW c \in Code, NEW n \in 1 .. Full(c), log' = log \o SubSeq(Entry(c), 1, n),
           NEW l, l = Len(log), Clean(l), Boundary(l)
    PROVE  /\ Clean(l + n)'
           /\ n = Full(c) => Boundary(l + n)' /\ EntryAt(l, c, l + n)'
<1>1. /\ Len(log') = l + n /\ l \in Nat /\ Full(c) \in Nat /\ Full(c) > 0 /\ n \in Nat
      /\ \A i \in 1 .. l : log'[i] = log[i]
      /\ \A k \in 1 .. n : log'[l + k] = [of |-> c, at |-> k]
      /\ \A i \in 1 .. l : Full(log[i].of) \in Nat /\ Full(log[i].of) > 0 /\ log[i].of \in Code
  <2>1. /\ Len(log') = Len(log) + n
        /\ \A i \in 1 .. Len(log) : log'[i] = log[i]
        /\ \A k \in 1 .. n : log'[Len(log) + k] = [of |-> c, at |-> k]
    BY Appended
  <2>2. Full(c) \in Nat /\ Full(c) > 0 /\ n \in Nat
    BY Lengths DEF Header
  <2>3. l \in Nat /\ \A i \in 1 .. l : Full(log[i].of) \in Nat /\ Full(log[i].of) > 0 /\ log[i].of \in Code
    BY CellTypes DEF Header
  <2> QED
    BY <2>1, <2>2, <2>3
<1>2. \A i \in 1 .. l + n : i > l => log'[i].of = c /\ log'[i].at = i - l
  <2> SUFFICES ASSUME NEW i \in 1 .. l + n, i > l
               PROVE  log'[i].of = c /\ log'[i].at = i - l
    OBVIOUS
  <2>1. i - l \in 1 .. n /\ l + (i - l) = i
    BY <1>1
  <2>2. log'[i] = [of |-> c, at |-> i - l]
    BY <1>1, <2>1
  <2> QED
    BY <2>2
<1>3. \A i \in 1 .. l + n : log'[i].at <= Full(log'[i].of)
  <2> SUFFICES ASSUME NEW i \in 1 .. l + n
               PROVE  log'[i].at <= Full(log'[i].of)
    OBVIOUS
  <2>1. CASE i <= l
    BY <1>1, <2>1 DEF Clean
  <2>2. CASE i > l
    BY <1>1, <1>2, <2>2
  <2> QED
    BY <1>1, <2>1, <2>2
<1>4. log'[1].at = 1
  <2>1. CASE l = 0
    <3>1. 1 \in 1 .. l + n /\ 1 > l /\ 1 - l = 1
      BY <1>1, <2>1
    <3> QED
      BY <1>2, <3>1
  <2>2. CASE l # 0
    BY <1>1, <2>2 DEF Clean
  <2> QED
    BY <2>1, <2>2
<1>5. ASSUME NEW i \in 1 .. (l + n) - 1, log'[i].at = Full(log'[i].of)
      PROVE  log'[i + 1].at = 1
  <2>1. CASE i < l
    <3>1. i \in 1 .. l - 1 /\ i + 1 \in 1 .. l
      BY <1>1, <2>1
    <3> QED
      BY <1>1, <1>5, <3>1 DEF Clean
  <2>2. CASE i = l
    BY <1>1, <1>2, <2>2
  <2>3. CASE i > l
    <3>1. log'[i].of = c /\ log'[i].at = i - l
      BY <1>1, <1>2, <2>3
    <3> QED
      BY <1>1, <1>5, <2>3, <3>1
  <2> QED
    BY <1>1, <2>1, <2>2, <2>3
<1>6. ASSUME NEW i \in 1 .. l + n, log'[i].at = 1, NEW k \in 1 .. Full(log'[i].of), i + k - 1 <= l + n
      PROVE  log'[i + k - 1] = [of |-> log'[i].of, at |-> k]
  <2>1. CASE i <= l
    <3>1. /\ log'[i] = log[i] /\ i \in 1 .. l /\ k \in 1 .. Full(log[i].of)
          /\ (i + k - 1 <= l => i + k - 1 \in 1 .. l)
      BY <1>1, <1>6, <2>1
    <3>2. i + k - 1 <= l
      <4>1. ASSUME i + k - 1 > l
            PROVE  FALSE
        <5>1. /\ l - i + 1 \in 1 .. Full(log[i].of) /\ l - i + 1 < Full(log[i].of)
              /\ i + (l - i + 1) - 1 = l /\ l # 0
          BY <1>1, <2>1, <3>1, <4>1, SMTT(20)
        <5>2. log[l] = [of |-> log[i].of, at |-> l - i + 1]
          BY <1>6, <3>1, <5>1 DEF Clean, GoesOn
        <5> QED
          BY <1>1, <3>1, <5>1, <5>2 DEF Boundary
      <4> QED
        BY <1>1, <3>1, <4>1
    <3>3. log[i + k - 1] = [of |-> log[i].of, at |-> k]
      BY <1>6, <3>1, <3>2 DEF Clean, GoesOn
    <3> QED
      BY <1>1, <3>1, <3>2, <3>3
  <2>2. CASE i > l
    <3>1. i = l + 1 /\ log'[i].of = c
      BY <1>1, <1>2, <1>6, <2>2
    <3>2. k \in 1 .. n /\ i + k - 1 = l + k
      BY <1>1, <1>6, <3>1
    <3> QED
      BY <1>1, <3>1, <3>2
  <2>3. i <= l \/ i > l
    BY <1>1
  <2> QED
    BY <2>1, <2>2, <2>3
<1>7. Clean(l + n)'
  <2>1. \A i \in 1 .. l + n : log'[i].at = 1 => GoesOn(i, l + n)'
    BY <1>6 DEF GoesOn, Full
  <2>2. \A i \in 1 .. (l + n) - 1 : log'[i].at = Full(log'[i].of) => log'[i + 1].at = 1
    BY <1>5
  <2> QED
    BY ONLY <1>3, <1>4, <2>1, <2>2 DEF Clean, Full
<1>8. ASSUME n = Full(c)
      PROVE  Boundary(l + n)' /\ EntryAt(l, c, l + n)'
  <2>1. log'[l + n] = [of |-> c, at |-> Full(c)]
    BY <1>1, <1>8
  <2>2. Boundary(l + n)'
    BY ONLY <2>1 DEF Boundary, Full
  <2>3. l + Full(c) <= l + n /\ \A k \in 1 .. Full(c) : log'[l + k] = [of |-> c, at |-> k]
    BY <1>1, <1>8
  <2>4. EntryAt(l, c, l + n)'
    BY ONLY <1>1, <2>3 DEF EntryAt, Full
  <2> QED
    BY <2>2, <2>4
<1> QED
  BY <1>7, <1>8

\* A power failure and the truncation of open() keep a first part of the log.
LEMMA Cut ==
    ASSUME TypeOK, NEW n \in 0 .. Len(log), log' = SubSeq(log, 1, n)
    PROVE  log' \in Seq(Cell) /\ Len(log') = n /\ \A i \in 1 .. n : log'[i] = log[i]
<1>1. log \in Seq(Cell) /\ Len(log) \in Nat
  BY CellTypes
<1> QED
  BY <1>1

-----------------------------------------------------------------------------
(* Parts of the state *)

\* An entry within n cells is within more of them.
LEMMA EntryGrows ==
    ASSUME TypeOK, NEW c \in Code, NEW n \in Int, NEW m \in Int, n <= m
    PROVE  /\ \A o : EntryAt(o, c, n) => EntryAt(o, c, m)
           /\ HasEntry(c, n) => HasEntry(c, m)
           /\ Indexed(c, n) => HasEntry(c, n)
<1>1. ASSUME NEW o, EntryAt(o, c, n)
      PROVE  EntryAt(o, c, m)
  BY <1>1, Lengths DEF EntryAt
<1>2. Indexed(c, n) => HasEntry(c, n)
  BY DEF Indexed, HasEntry, EntryAt
<1> QED
  BY <1>1, <1>2 DEF HasEntry

\* The same of the next state.
LEMMA EntryGrowsNext ==
    ASSUME TypeOK', NEW c \in Code, NEW n \in Int, NEW m \in Int, n <= m
    PROVE  /\ \A o : EntryAt(o, c, n)' => EntryAt(o, c, m)'
           /\ HasEntry(c, n)' => HasEntry(c, m)'
<1>1. ASSUME NEW o, EntryAt(o, c, n)'
      PROVE  EntryAt(o, c, m)'
  BY <1>1, Lengths DEF EntryAt, Full
<1> QED
  BY <1>1 DEF HasEntry

\* The checkpoint refers to the codes of its accounts.
LEMMA ReferredBy ==
    /\ \A m : manifest = <<m>> => Referred = Range(m) \ {NoCode}
    /\ manifest = <<>> => Referred = {}
<1>1. ASSUME NEW m, manifest = <<m>>
      PROVE  Range(manifest) = {m}
  BY <1>1 DEF Range
<1>2. manifest = <<>> => Range(manifest) = {}
  BY DEF Range
<1>3. \A c : c \in Referred <=> c # NoCode /\ \E m \in Range(manifest) : c \in Range(m)
  BY DEF Referred
<1>4. ASSUME NEW m, manifest = <<m>>
      PROVE  Referred = Range(m) \ {NoCode}
  BY <1>1, <1>3, <1>4
<1>5. ASSUME manifest = <<>>
      PROVE  Referred = {}
  BY <1>2, <1>3, <1>5
<1> QED
  BY <1>4, <1>5

\* The same of the next state.
LEMMA ReferredByNext ==
    /\ \A m : manifest' = <<m>> => Referred' = Range(m) \ {NoCode}
    /\ manifest' = <<>> => Referred' = {}
<1>1. ASSUME NEW m, manifest' = <<m>>
      PROVE  Range(manifest') = {m}
  BY <1>1 DEF Range
<1>2. manifest' = <<>> => Range(manifest') = {}
  BY DEF Range
<1>3. \A c : c \in Referred' <=> c # NoCode /\ \E m \in Range(manifest') : c \in Range(m)
  BY DEF Referred
<1>4. ASSUME NEW m, manifest' = <<m>>
      PROVE  Referred' = Range(m) \ {NoCode}
  BY <1>1, <1>3, <1>4
<1>5. ASSUME manifest' = <<>>
      PROVE  Referred' = {}
  BY <1>2, <1>3, <1>5
<1> QED
  BY <1>4, <1>5

\* A code that was flushed is indexed, while the process runs and has scanned.
LEMMA FlushedIndexed ==
    ASSUME TypeOK, NEW n \in 0 .. Len(log), FlushedAt(n), Up, NEW c \in flushed
    PROVE  Indexed(c, n)
<1>1. c \in Code /\ Running /\ n <= end /\ n \in Nat /\ Full(c) \in Nat /\ Full(c) > 0
  BY Lengths, CellTypes DEF TypeOK, FlushedAt, Up, Running, Header
<1>2. PICK o \in Nat : EntryAt(o, c, n)
  BY DEF FlushedAt, HasEntry
<1>3. o + 1 \in 1 .. n /\ o + 1 <= end /\ log[o + 1] = [of |-> c, at |-> 1]
  <2>1. o + Full(c) <= n /\ 1 \in 1 .. Full(c)
    BY <1>1, <1>2 DEF EntryAt
  <2>2. log[o + 1] = [of |-> c, at |-> 1]
    BY <1>2, <2>1 DEF EntryAt
  <2> QED
    BY <1>1, <2>1, <2>2, CellTypes
<1> QED
  BY <1>1, <1>3 DEF FlushedAt

\* What a step that leaves the log, the index and the accounts' codes alone keeps.
LEMMA LogFrame ==
    ASSUME UNCHANGED <<log, index, end, failed>>, Up' <=> Up, Running' <=> Running
    PROVE  /\ LogInv' <=> LogInv
           /\ \A c, n : HasEntry(c, n)' <=> HasEntry(c, n)
           /\ UNCHANGED <<flushed, synced>> => (FlushedInv' <=> FlushedInv)
           /\ \A n : (Clean(n)' <=> Clean(n)) /\ (Boundary(n)' <=> Boundary(n))
           /\ \A c, n : Indexed(c, n)' <=> Indexed(c, n)
<1>1. /\ \A n : (Clean(n)' <=> Clean(n)) /\ (Boundary(n)' <=> Boundary(n))
      /\ \A c, n : (HasEntry(c, n)' <=> HasEntry(c, n)) /\ (Indexed(c, n)' <=> Indexed(c, n))
  BY DEF Clean, GoesOn, Boundary, HasEntry, Indexed, EntryAt, Full, Header
<1>2. ASSUME UNCHANGED <<flushed, synced>>
      PROVE  FlushedInv' <=> FlushedInv
  <2>1. \A n : FlushedAt(n)' <=> FlushedAt(n)
    BY <1>1, <1>2 DEF FlushedAt
  <2> QED
    BY <2>1 DEF FlushedInv
<1>3. LogInv' <=> LogInv
  BY <1>1 DEF LogInv
<1> QED
  BY <1>1, <1>2, <1>3

-----------------------------------------------------------------------------
(* Accounts and checkpoints: steps that leave the log alone *)

\* set_account: the code it refers to was put, so a checkpoint will find it.
LEMMA SetAccountStep ==
    ASSUME Inv, NEW a \in Addr, NEW h \in Code \cup {NoCode}, SetAccount(a, h)
    PROVE  Inv'
<1>1. /\ pc = "idle" /\ h \in (DOMAIN index \ {Garbage}) \cup {NoCode}
      /\ accts' = Insert(accts, a, h)
      /\ UNCHANGED <<manifest, log, synced, index, end, pc, failed, flushed, risky, lost>>
  BY DEF SetAccount
<1>2. TypeOK /\ DownInv /\ LogInv /\ CheckpointInv /\ FlushedInv
  BY DEF Inv
<1>3. /\ DOMAIN accts' = DOMAIN accts \cup {a} /\ accts'[a] = h
      /\ \A b \in DOMAIN accts : b # a => accts'[b] = accts[b]
  BY <1>1 DEF Insert
<1>4. Up' = Up /\ Running' = Running /\ Up
  BY <1>1 DEF Up, Running
<1>5. TypeOK'
  <2>1. DOMAIN accts' \subseteq Addr /\ Range(accts') \subseteq Code \cup {NoCode}
    BY <1>2, <1>3 DEF TypeOK, Range
  <2> QED
    BY <1>1, <1>2, <1>4, <2>1 DEF TypeOK
<1>6. LogInv' /\ FlushedInv' /\ \A c, n : HasEntry(c, n)' <=> HasEntry(c, n)
  BY <1>1, <1>2, <1>4, LogFrame
<1>7. DownInv'
  BY <1>1, <1>2 DEF DownInv
<1>8. CheckpointInv'
  <2>1. Referred' = Referred
    BY <1>1 DEF Referred
  <2>2. NoCode \notin Code
    BY EthStateAssumption
  <2> QED
    BY <1>1, <1>2, <1>3, <1>4, <1>6, <2>1, <2>2 DEF CheckpointInv
<1> QED
  BY <1>5, <1>6, <1>7, <1>8 DEF Inv

\* delete_account refers to nothing new.
LEMMA DeleteAccountStep ==
    ASSUME Inv, NEW a \in Addr, DeleteAccount(a)
    PROVE  Inv'
<1>1. /\ pc = "idle" /\ accts' = Restrict(accts, DOMAIN accts \ {a})
      /\ UNCHANGED <<manifest, log, synced, index, end, pc, failed, flushed, risky, lost>>
  BY DEF DeleteAccount
<1>2. TypeOK /\ DownInv /\ LogInv /\ CheckpointInv /\ FlushedInv
  BY DEF Inv
<1>3. DOMAIN accts' \subseteq DOMAIN accts /\ \A b \in DOMAIN accts' : accts'[b] = accts[b]
  BY <1>1 DEF Restrict
<1>4. Up' = Up /\ Running' = Running /\ Up
  BY <1>1 DEF Up, Running
<1>5. TypeOK'
  <2>1. DOMAIN accts' \subseteq Addr /\ Range(accts') \subseteq Code \cup {NoCode}
    BY <1>2, <1>3 DEF TypeOK, Range
  <2> QED
    BY <1>1, <1>2, <1>4, <2>1 DEF TypeOK
<1>6. LogInv' /\ FlushedInv' /\ \A c, n : HasEntry(c, n)' <=> HasEntry(c, n)
  BY <1>1, <1>2, <1>4, LogFrame
<1>7. DownInv'
  BY <1>1, <1>2 DEF DownInv
<1>8. CheckpointInv'
  <2>1. Referred' = Referred
    BY <1>1 DEF Referred
  <2> QED
    BY <1>1, <1>2, <1>3, <1>4, <1>6, <2>1 DEF CheckpointInv
<1> QED
  BY <1>5, <1>6, <1>7, <1>8 DEF Inv

\* persist, the checkpoint: every code that an account refers to is in the log,
\* synced or not.
LEMMA PersistTrieStep ==
    ASSUME Inv, PersistTrie
    PROVE  Inv'
<1>1. /\ pc = "idle" /\ manifest' = <<accts>> /\ pc' = "flush" /\ risky' = TRUE
      /\ UNCHANGED <<accts, log, synced, index, end, failed, flushed, lost>>
  BY DEF PersistTrie
<1>2. TypeOK /\ DownInv /\ LogInv /\ CheckpointInv /\ FlushedInv
  BY DEF Inv
<1>3. Up' /\ Running' /\ Up /\ Running
  BY <1>1 DEF Up, Running
<1>4. Referred' = Range(accts) \ {NoCode}
  BY <1>1, ReferredByNext
<1>5. TypeOK'
  <2>1. Range(manifest') = {accts}
    BY <1>1 DEF Range
  <2> QED
    BY <1>1, <1>2, <1>3, <2>1 DEF TypeOK
<1>6. LogInv' /\ FlushedInv' /\ \A c, n : HasEntry(c, n)' <=> HasEntry(c, n)
  BY <1>1, <1>2, <1>3, LogFrame
<1>7. DownInv'
  BY <1>1, <1>2 DEF DownInv
<1>8. CheckpointInv'
  <2> SUFFICES ASSUME failed # "buried"
               PROVE  CheckpointInv'
    BY <1>1 DEF CheckpointInv
  <2>1. ASSUME NEW c \in Referred' \ lost
        PROVE  HasEntry(c, Len(log))
    <3>1. PICK a \in DOMAIN accts : accts[a] = c
      BY <1>4 DEF Range
    <3>2. c \in Code /\ c \in DOMAIN index
      BY <1>2, <1>3, <1>4, <2>1, <3>1 DEF TypeOK, CheckpointInv, Range
    <3>3. Indexed(c, end) /\ end \in Int /\ Len(log) \in Int /\ end <= Len(log)
      BY <1>2, <1>3, <3>2, CellTypes DEF LogInv, TypeOK
    <3> QED
      BY <1>2, <3>2, <3>3, EntryGrows
  <2> QED
    BY <1>1, <1>2, <1>3, <1>6, <2>1 DEF CheckpointInv
<1> QED
  BY <1>5, <1>6, <1>7, <1>8 DEF Inv

\* persist, when the flush fails: the log is what it was.
LEMMA PersistFlushFailsStep ==
    ASSUME Inv, PersistFlushFails
    PROVE  Inv'
<1>1. /\ pc = "flush" /\ pc' = "idle"
      /\ UNCHANGED <<accts, manifest, log, synced, index, end, failed, flushed, risky, lost>>
  BY DEF PersistFlushFails
<1>2. TypeOK /\ DownInv /\ LogInv /\ CheckpointInv /\ FlushedInv
  BY DEF Inv
<1>3. Up' /\ Running' /\ Up /\ Running
  BY <1>1 DEF Up, Running
<1>4. LogInv' /\ FlushedInv' /\ \A c, n : HasEntry(c, n)' <=> HasEntry(c, n)
  BY <1>1, <1>2, <1>3, LogFrame
<1>5. TypeOK' /\ DownInv'
  BY <1>1, <1>2, <1>3 DEF TypeOK, DownInv
<1>6. CheckpointInv'
  <2>1. Referred' = Referred
    BY <1>1 DEF Referred
  <2> QED
    BY <1>1, <1>2, <1>3, <1>4, <2>1 DEF CheckpointInv
<1> QED
  BY <1>4, <1>5, <1>6 DEF Inv

\* persist, the flush: the log up to end is the new flushed part.
LEMMA PersistFlushStep ==
    ASSUME Inv, PersistFlush
    PROVE  Inv'
<1>1. /\ pc = "flush" /\ pc' = "idle" /\ risky' = FALSE /\ synced' = Len(log)
      /\ flushed' = flushed \cup {c \in Code : failed # "buried" /\ Found(c)}
      /\ UNCHANGED <<accts, manifest, log, index, end, failed, lost>>
  BY DEF PersistFlush
<1>2. TypeOK /\ DownInv /\ LogInv /\ CheckpointInv /\ FlushedInv
  BY DEF Inv
<1>3. Up' /\ Running' /\ Up /\ Running
  BY <1>1 DEF Up, Running
<1>4. /\ LogInv'
      /\ \A c, n : HasEntry(c, n)' <=> HasEntry(c, n)
      /\ \A n : (Clean(n)' <=> Clean(n)) /\ (Boundary(n)' <=> Boundary(n))
      /\ \A c, n : Indexed(c, n)' <=> Indexed(c, n)
  BY <1>1, <1>2, <1>3, LogFrame
<1>5. Len(log) \in Nat /\ end \in 0 .. Len(log) /\ synced \in 0 .. Len(log)
  BY <1>2, CellTypes DEF TypeOK
<1>6. TypeOK' /\ DownInv'
  <2>1. flushed' \in SUBSET Code /\ synced' \in 0 .. Len(log')
    BY <1>1, <1>2, <1>5 DEF TypeOK
  <2>2. DownInv'
    BY <1>1, <1>2 DEF DownInv
  <2> QED
    BY <1>1, <1>2, <1>3, <2>1, <2>2 DEF TypeOK
<1>7. CheckpointInv'
  <2>1. Referred' = Referred
    BY <1>1 DEF Referred
  <2> QED
    BY <1>1, <1>2, <1>3, <1>4, <2>1 DEF CheckpointInv
<1>8. FlushedInv'
  <2>1. PICK n \in 0 .. Len(log) : FlushedAt(n)
    BY <1>2 DEF FlushedInv
  <2>2. CASE failed = "buried"
    <3>1. flushed' = flushed
      BY <1>1, <2>2
    <3>2. FlushedAt(n)'
      BY <1>1, <1>3, <1>4, <2>1, <3>1 DEF FlushedAt
    <3> QED
      BY <1>1, <2>1, <3>2 DEF FlushedInv
  <2>3. CASE failed # "buried"
    <3>1. PICK e \in 0 .. Len(log) : e = end
      BY <1>5
    <3>2. \A c \in flushed' : c \in Code /\ Indexed(c, e) /\ HasEntry(c, e)
      <4> SUFFICES ASSUME NEW c \in flushed'
                   PROVE  c \in Code /\ Indexed(c, e) /\ HasEntry(c, e)
        OBVIOUS
      <4>1. c \in Code /\ c \in DOMAIN index
        BY <1>1, <1>2, <1>3, <2>1, FlushedIndexed DEF TypeOK, Found, Indexed
      <4>2. Indexed(c, e)
        BY <1>2, <1>3, <2>3, <3>1, <4>1 DEF LogInv
      <4> QED
        BY <1>2, <1>5, <4>1, <4>2, EntryGrows
    <3>3. Clean(e) /\ Boundary(e)
      BY <1>2, <1>3, <1>5, <2>3, <3>1, CleanPrefix DEF LogInv
    <3>4. \A i \in e + 1 .. Len(log) : log[i].of \notin flushed'
      BY <1>2, <1>3, <2>3, <3>1, <3>2 DEF LogInv, Indexed
    <3>5. FlushedAt(e)'
      BY <1>1, <1>3, <1>4, <1>5, <3>1, <3>2, <3>3, <3>4 DEF FlushedAt
    <3> QED
      BY <1>1, <3>5 DEF FlushedInv
  <2> QED
    BY <2>2, <2>3
<1> QED
  BY <1>4, <1>6, <1>7, <1>8 DEF Inv

-----------------------------------------------------------------------------
(* Puts *)

\* What a put, whole or torn, leaves to the checkpoint and to what was flushed.
LEMMA PutKeeps ==
    ASSUME Inv, TypeOK', NEW c \in Code, c \notin DOMAIN index, NEW n \in 1 .. Full(c),
           log' = log \o SubSeq(Entry(c), 1, n), pc = "idle",
           UNCHANGED <<manifest, synced, flushed, risky, lost>>,
           failed' # "buried" => failed # "buried",
           \/ pc' = "down"
           \/ /\ pc' = "idle" /\ end' >= end /\ UNCHANGED accts
              /\ \A d \in DOMAIN index : d \in DOMAIN index' /\ index'[d] = index[d]
    PROVE  CheckpointInv' /\ FlushedInv'
<1>1. TypeOK /\ DownInv /\ LogInv /\ CheckpointInv /\ FlushedInv
  BY DEF Inv
<1>2. PICK l \in Nat : l = Len(log)
  BY <1>1, CellTypes
<1>3. /\ Len(log') = l + n /\ n \in Nat /\ l + n \in Nat
      /\ \A i \in 1 .. l : log'[i] = log[i]
      /\ \A k \in 1 .. n : log'[l + k] = [of |-> c, at |-> k]
      /\ end \in 0 .. l /\ synced \in 0 .. l /\ end' \in Nat
  <2>1. /\ Len(log') = Len(log) + n
        /\ \A i \in 1 .. Len(log) : log'[i] = log[i]
        /\ \A k \in 1 .. n : log'[Len(log) + k] = [of |-> c, at |-> k]
    BY <1>1, Appended
  <2>2. n \in Nat
    BY Lengths
  <2>3. end \in 0 .. Len(log) /\ synced \in 0 .. Len(log) /\ end' \in 0 .. Len(log')
    BY <1>1 DEF TypeOK
  <2> QED
    BY <1>2, <2>1, <2>2, <2>3, SMTT(20)
<1>4. /\ \A m \in 0 .. l : (Clean(m)' <=> Clean(m)) /\ (Boundary(m)' <=> Boundary(m))
      /\ \A d \in Code, m \in 0 .. l : HasEntry(d, m)' <=> HasEntry(d, m)
      /\ \A d \in Code, o \in Nat, m \in 0 .. l : EntryAt(o, d, m)' <=> EntryAt(o, d, m)
  BY <1>1, <1>2, <1>3, Kept, SMTT(20)
<1>5. Up /\ Running /\ (Up' \/ Running' => pc' = "idle")
  BY DEF Up, Running
<1>6. CheckpointInv'
  <2> SUFFICES ASSUME failed # "buried"
               PROVE  CheckpointInv'
    BY DEF CheckpointInv
  <2>1. Referred' = Referred /\ \A d \in Referred : d \in Code
    <3>1. Referred' = Referred
      BY DEF Referred
    <3>2. \A d \in Referred : d \in Code
      BY <1>1 DEF Referred, TypeOK
    <3> QED
      BY <3>1, <3>2
  <2>2. ASSUME NEW d \in Referred \ lost
        PROVE  HasEntry(d, l + n)'
    <3>1. HasEntry(d, l)'
      BY <1>1, <1>2, <1>4, <2>1, <2>2 DEF CheckpointInv
    <3> QED
      BY <1>3, <2>1, <2>2, <3>1, EntryGrowsNext
  <2>3. PICK s \in 0 .. l : s = synced
    BY <1>3
  <2>4. ~risky => \A d \in Referred \ lost : HasEntry(d, s)'
    BY <1>1, <1>4, <2>1, <2>3 DEF CheckpointInv
  <2>5. Up' => \A a \in DOMAIN accts' : accts'[a] \in Code \ lost => accts'[a] \in DOMAIN index'
    BY <1>1, <1>5 DEF CheckpointInv
  <2> QED
    BY <1>3, <2>1, <2>2, <2>3, <2>4, <2>5 DEF CheckpointInv
<1>7. FlushedInv'
  <2>1. PICK g \in 0 .. l : FlushedAt(g)
    BY <1>1, <1>2 DEF FlushedInv
  <2>2. c \notin flushed /\ \A d \in flushed : d \in Code /\ Indexed(d, g)
    BY <1>1, <1>2, <1>5, <2>1, FlushedIndexed DEF TypeOK, Indexed
  <2>3. /\ g \in 0 .. synced /\ Clean(g)' /\ Boundary(g)'
        /\ \A d \in flushed : HasEntry(d, g)'
    BY <1>4, <2>1, <2>2 DEF FlushedAt
  <2>4. \A i \in g + 1 .. l + n : log'[i].at = 1 => log'[i].of \notin flushed
    <3> SUFFICES ASSUME NEW i \in g + 1 .. l + n, log'[i].at = 1
                 PROVE  log'[i].of \notin flushed
      OBVIOUS
    <3>1. CASE i <= l
      BY <1>3, <2>1, <3>1 DEF FlushedAt
    <3>2. CASE i > l
      <4>1. i - l \in 1 .. n /\ l + (i - l) = i
        BY <1>3, <3>2
      <4>2. PICK k \in 1 .. n : l + k = i
        BY <4>1
      <4>3. log'[l + k] = [of |-> c, at |-> k]
        BY <1>3
      <4>4. log'[i] = [of |-> c, at |-> k]
        BY <4>2, <4>3
      <4>5. log'[i].of = c
        BY ONLY <4>4
      <4> QED
        BY <2>2, <4>5
    <3>3. i <= l \/ i > l
      BY <1>3
    <3> QED
      BY <3>1, <3>2, <3>3
  <2>5. CASE pc' = "down"
    <3>1. ~Running' /\ ~Up'
      BY <2>5 DEF Running, Up
    <3>2. FlushedAt(g)'
      BY <1>3, <2>3, <2>4, <3>1 DEF FlushedAt
    <3> QED
      BY <1>3, <3>2 DEF FlushedInv
  <2>6. CASE pc' # "down"
    <3>1. g <= end /\ g <= end' /\ (end' <= g => end' = g)
      BY <1>3, <1>5, <2>1, <2>6 DEF FlushedAt
    <3>2. ASSUME NEW d \in flushed
          PROVE  Indexed(d, g)'
      <4>1. index'[d] = index[d] /\ d \in DOMAIN index'
        BY <2>2, <2>6, <3>2 DEF Indexed
      <4>2. PICK o \in Nat : o = index[d].off - Header /\ EntryAt(o, d, g)
        BY <2>2, <3>2 DEF Indexed, EntryAt
      <4>3. EntryAt(o, d, g)'
        BY <1>4, <2>2, <3>2, <4>2
      <4> QED
        BY <2>2, <3>2, <4>1, <4>2, <4>3 DEF Indexed, Header
    <3>3. PICK e \in Nat : e = end'
      BY <1>3
    <3>4. FlushedAt(g)'
      BY <1>3, <2>3, <2>4, <3>1, <3>2, <3>3 DEF FlushedAt
    <3> QED
      BY <1>3, <3>4 DEF FlushedInv
  <2> QED
    BY <2>5, <2>6
<1> QED
  BY <1>6, <1>7

\* set_code: the entry is indexed where it was written, unless something is buried.
LEMMA SetCodeStep ==
    ASSUME Inv, NEW c \in Code, SetCode(c)
    PROVE  Inv'
<1>1. /\ pc = "idle" /\ pc' = "idle" /\ c \notin DOMAIN index /\ Len(log) + Full(c) <= MaxLog
      /\ log' = log \o Entry(c) /\ end' = end + Full(c) /\ failed' = Bury
      /\ index' = Insert(index, c, [off |-> end + Header, len |-> CodeLen[c]])
      /\ UNCHANGED <<accts, manifest, synced, flushed, risky, lost>>
  BY DEF SetCode, Put
<1>2. TypeOK /\ DownInv /\ LogInv /\ CheckpointInv /\ FlushedInv
  BY DEF Inv
<1>3. PICK l \in Nat : l = Len(log)
  BY <1>2, CellTypes
<1>4. PICK F \in Nat : F = Full(c)
  BY Lengths
<1>5. F > 0 /\ F = Header + CodeLen[c] /\ CodeLen[c] \in Nat /\ F \in 1 .. Full(c)
  BY <1>4, Lengths DEF Header
<1>6. log' = log \o SubSeq(Entry(c), 1, F)
  <2>1. Entry(c) \in Seq(Cell) /\ Len(Entry(c)) = F
    <3>1. \A k \in 1 .. F : [of |-> c, at |-> k] \in Cell
      BY DEF Cell
    <3> QED
      BY <1>4, <3>1 DEF Entry
  <2>2. SubSeq(Entry(c), 1, F) = Entry(c)
    BY <2>1
  <2> QED
    BY <1>1, <2>2
<1>7. /\ log' \in Seq(Cell) /\ Len(log') = l + F
      /\ \A i \in 1 .. l : log'[i] = log[i]
      /\ \A k \in 1 .. F : log'[l + k] = [of |-> c, at |-> k]
      /\ end \in 0 .. l /\ synced \in 0 .. l
  BY <1>2, <1>3, <1>5, <1>6, Appended DEF TypeOK
<1>8. /\ DOMAIN index' = DOMAIN index \cup {c}
      /\ index'[c] = [off |-> end + Header, len |-> CodeLen[c]]
      /\ \A d \in DOMAIN index : d # c /\ index'[d] = index[d]
  BY <1>1 DEF Insert
<1>9. Up /\ Up' /\ Running /\ Running' /\ (failed' # "buried" => failed = "no" /\ end = l)
  BY <1>1, <1>2, <1>3 DEF Up, Running, Bury, TypeOK
<1>10. TypeOK'
  <2>1. end' \in 0 .. Len(log') /\ synced' \in 0 .. Len(log') /\ Len(log') <= MaxLog
    BY <1>1, <1>3, <1>4, <1>7
  <2>2. failed' \in {"no", "torn", "buried"} /\ (failed' = "no" => end' = Len(log'))
    BY <1>1, <1>2, <1>4, <1>7, <1>9 DEF TypeOK, Bury
  <2>3. index'[c] \in [off : Nat, len : Nat] /\ index'[c].off = end + Header /\ index'[c].len = CodeLen[c]
    BY <1>3, <1>5, <1>7, <1>8 DEF Header
  <2> QED
    BY <1>1, <1>2, <1>7, <1>8, <2>1, <2>2, <2>3 DEF TypeOK
<1>11. CheckpointInv' /\ FlushedInv'
  <2>1. end' >= end
    BY <1>1, <1>4, <1>7
  <2> QED
    BY <1>1, <1>5, <1>6, <1>8, <1>9, <1>10, <2>1, PutKeeps
<1>12. LogInv'
  <2> SUFFICES ASSUME failed' # "buried"
               PROVE  LogInv'
    BY DEF LogInv
  <2>1. Clean(l) /\ Boundary(l) /\ end = l /\ end' = l + F /\ failed # "buried"
    BY <1>1, <1>2, <1>3, <1>4, <1>9 DEF LogInv
  <2>2. Clean(l + F)' /\ Boundary(l + F)' /\ EntryAt(l, c, l + F)'
    BY <1>2, <1>3, <1>4, <1>5, <1>6, <2>1, AppendedClean
  <2>3. \A d \in Code, o \in Nat : EntryAt(o, d, l) => EntryAt(o, d, l + F)'
    <3>1. \A d \in Code, o \in Nat : EntryAt(o, d, l)' <=> EntryAt(o, d, l)
      <4>1. l \in 0 .. Len(log) /\ l \in 0 .. l
        BY <1>3
      <4> QED
        BY <1>2, <1>7, <4>1, Kept
    <3>2. \A d \in Code : \A o : EntryAt(o, d, l)' => EntryAt(o, d, l + F)'
      BY <1>10, <1>3, EntryGrowsNext
    <3> QED
      BY <3>1, <3>2
  <2>4. \A d \in DOMAIN index' : d \in Code /\ Indexed(d, l + F)'
    <3>1. Indexed(c, l + F)'
      <4>1. index'[c].off = l + Header /\ index'[c].len = CodeLen[c] /\ l + Header - Header = l
        BY <1>8, <2>1 DEF Header
      <4> QED
        BY <1>8, <2>2, <4>1 DEF Indexed, Header
    <3>2. ASSUME NEW d \in DOMAIN index
          PROVE  d \in Code /\ Indexed(d, l + F)'
      <4>1. d \in Code /\ Indexed(d, l) /\ index'[d] = index[d]
        BY <1>2, <1>8, <1>9, <2>1, <3>2 DEF LogInv
      <4>2. index[d].off - Header \in Nat
        BY <4>1 DEF Indexed, EntryAt
      <4> QED
        BY <1>8, <2>3, <4>1, <4>2 DEF Indexed, Header
    <3> QED
      BY <1>8, <3>1, <3>2
  <2>5. \A i \in 1 .. l + F : log'[i].at = 1 => log'[i].of \in DOMAIN index'
    <3> SUFFICES ASSUME NEW i \in 1 .. l + F, log'[i].at = 1
                 PROVE  log'[i].of \in DOMAIN index'
      OBVIOUS
    <3>1. CASE i <= l
      BY <1>2, <1>7, <1>8, <1>9, <2>1, <3>1 DEF LogInv
    <3>2. CASE i > l
      <4>1. i - l \in 1 .. F /\ l + (i - l) = i
        BY <1>5, <3>2
      <4>2. log'[i] = [of |-> c, at |-> i - l]
        BY <1>7, <4>1
      <4> QED
        BY <1>8, <4>2
    <3> QED
      BY <3>1, <3>2
  <2>6. \A i \in end' + 1 .. Len(log') : FALSE
    BY <1>7, <2>1
  <2> QED
    BY <1>7, <2>1, <2>2, <2>4, <2>5, <2>6 DEF LogInv
<1>13. DownInv'
  BY <1>1, <1>2 DEF DownInv
<1> QED
  BY <1>10, <1>11, <1>12, <1>13 DEF Inv

\* set_code that fails: what it wrote lies behind end, and of a code not indexed.
LEMMA SetCodeFailsStep ==
    ASSUME Inv, NEW c \in Code, SetCodeFails(c)
    PROVE  Inv'
<1>1. /\ pc = "idle" /\ pc' = "idle" /\ c \notin DOMAIN index
      /\ failed' = IF failed = "no" THEN "torn" ELSE "buried"
      /\ UNCHANGED <<accts, manifest, synced, index, end, flushed, risky, lost>>
  BY DEF SetCodeFails
<1>2. TypeOK /\ DownInv /\ LogInv /\ CheckpointInv /\ FlushedInv
  BY DEF Inv
<1>3. PICK n \in 1 .. Full(c) - 1 : Len(log) + n <= MaxLog /\ log' = log \o SubSeq(Entry(c), 1, n)
  BY DEF SetCodeFails
<1>4. PICK l \in Nat : l = Len(log)
  BY <1>2, CellTypes
<1>5. n \in 1 .. Full(c) /\ n \in Nat
  BY Lengths
<1>6. /\ log' \in Seq(Cell) /\ Len(log') = l + n
      /\ \A i \in 1 .. l : log'[i] = log[i]
      /\ \A k \in 1 .. n : log'[l + k] = [of |-> c, at |-> k]
      /\ end \in 0 .. l /\ synced \in 0 .. l
  BY <1>2, <1>3, <1>4, <1>5, Appended DEF TypeOK
<1>7. Up /\ Up' /\ Running /\ Running' /\ (failed' # "buried" => failed = "no" /\ end = l)
  BY <1>1, <1>2, <1>4 DEF Up, Running, TypeOK
<1>8. TypeOK'
  <2>1. end' \in 0 .. Len(log') /\ synced' \in 0 .. Len(log') /\ Len(log') <= MaxLog
    BY <1>1, <1>3, <1>4, <1>5, <1>6
  <2>2. failed' \in {"torn", "buried"}
    BY <1>1
  <2> QED
    BY <1>1, <1>2, <1>6, <2>1, <2>2 DEF TypeOK
<1>9. CheckpointInv' /\ FlushedInv'
  <2>1. end' >= end
    BY <1>1, <1>6
  <2> QED
    BY <1>1, <1>3, <1>5, <1>7, <1>8, <2>1, PutKeeps
<1>10. LogInv'
  <2> SUFFICES ASSUME failed' # "buried"
               PROVE  LogInv'
    BY DEF LogInv
  <2>1. Clean(l) /\ Boundary(l) /\ end = l /\ failed # "buried"
    BY <1>1, <1>2, <1>4, <1>7 DEF LogInv
  <2>2. Clean(l + n)'
    BY <1>2, <1>3, <1>4, <1>5, <2>1, AppendedClean
  <2>3. Boundary(l)' /\ \A d \in Code : Indexed(d, l)' <=> Indexed(d, l)
    <3>1. l \in 0 .. Len(log) /\ l \in 0 .. l /\ UNCHANGED index
      BY <1>1, <1>4
    <3> QED
      BY <1>2, <1>6, <2>1, <3>1, Kept
  <2>4. \A d \in DOMAIN index' : d \in Code /\ Indexed(d, l)'
    BY <1>1, <1>2, <1>7, <2>1, <2>3 DEF LogInv
  <2>5. \A i \in 1 .. l : log'[i].at = 1 => log'[i].of \in DOMAIN index'
    BY <1>1, <1>2, <1>6, <1>7, <2>1 DEF LogInv
  <2>6. ASSUME NEW i \in l + 1 .. l + n
        PROVE  log'[i].of = c
    <3>1. PICK k \in 1 .. n : l + k = i
      <4>1. i - l \in 1 .. n /\ l + (i - l) = i
        BY <1>5
      <4> QED
        BY <4>1
    <3>2. log'[l + k] = [of |-> c, at |-> k]
      BY <1>6
    <3>3. log'[i] = [of |-> c, at |-> k]
      BY <3>1, <3>2
    <3> QED
      BY ONLY <3>3
  <2>7. end' = l
    BY <1>1, <2>1
  <2> QED
    BY <1>1, <1>6, <2>2, <2>3, <2>4, <2>5, <2>6, <2>7 DEF LogInv
<1>11. DownInv'
  BY <1>1, <1>2 DEF DownInv
<1> QED
  BY <1>8, <1>9, <1>10, <1>11 DEF Inv

-----------------------------------------------------------------------------
(* Crashes *)

\* The process dies, maybe in the middle of a put.
LEMMA DiesStep ==
    ASSUME Inv, Dies
    PROVE  Inv'
<1>1. /\ pc # "down" /\ pc' = "down" /\ accts' = <<>> /\ index' = <<>> /\ end' = 0
      /\ UNCHANGED <<manifest, synced, flushed, risky, lost>>
  BY DEF Dies, Down
<1>2. TypeOK /\ DownInv /\ LogInv /\ CheckpointInv /\ FlushedInv
  BY DEF Inv
<1>3. PICK l \in Nat : l = Len(log)
  BY <1>2, CellTypes
<1>4. end \in 0 .. l /\ synced \in 0 .. l /\ ~Up' /\ ~Running'
  BY <1>1, <1>2, <1>3 DEF TypeOK, Up, Running
<1>5. DownInv' /\ DOMAIN accts' = {} /\ Range(accts') = {} /\ DOMAIN index' = {}
  BY <1>1, <1>2 DEF DownInv, Range
<1>6. CASE UNCHANGED <<log, failed>>
  <2>1. TypeOK'
    BY <1>1, <1>2, <1>4, <1>5, <1>6 DEF TypeOK
  <2>2. /\ \A m : (Clean(m)' <=> Clean(m)) /\ (Boundary(m)' <=> Boundary(m))
        /\ \A d, m : HasEntry(d, m)' <=> HasEntry(d, m)
    BY <1>6 DEF Clean, GoesOn, Boundary, HasEntry, EntryAt, Full
  <2>3. LogInv'
    BY <1>2, <1>4, <1>6, <2>2 DEF LogInv
  <2>4. CheckpointInv'
    <3>1. Referred' = Referred
      BY <1>1 DEF Referred
    <3> QED
      BY <1>1, <1>2, <1>4, <1>6, <2>2, <3>1 DEF CheckpointInv
  <2>5. FlushedInv'
    <3>1. PICK g \in 0 .. Len(log) : FlushedAt(g)
      BY <1>2 DEF FlushedInv
    <3>2. FlushedAt(g)'
      BY <1>1, <1>4, <1>6, <2>2, <3>1 DEF FlushedAt
    <3> QED
      BY <1>6, <3>1, <3>2 DEF FlushedInv
  <2> QED
    BY <1>5, <2>1, <2>3, <2>4, <2>5 DEF Inv
<1>7. CASE ~UNCHANGED <<log, failed>>
  <2>1. /\ pc = "idle" /\ failed' = Bury
        /\ \E c \in Code \ DOMAIN index : \E n \in 1 .. Full(c) :
              Len(log) + n <= MaxLog /\ log' = log \o SubSeq(Entry(c), 1, n)
    BY <1>7 DEF Dies
  <2>2. PICK c \in Code \ DOMAIN index : \E n \in 1 .. Full(c) :
              Len(log) + n <= MaxLog /\ log' = log \o SubSeq(Entry(c), 1, n)
    BY <2>1
  <2>3. PICK n \in 1 .. Full(c) : Len(log) + n <= MaxLog /\ log' = log \o SubSeq(Entry(c), 1, n)
    BY <2>2
  <2>4. c \in Code /\ c \notin DOMAIN index /\ n \in Nat
    BY Lengths
  <2>5. log' \in Seq(Cell) /\ Len(log') = l + n
    BY <1>2, <1>3, <2>3, <2>4, Appended
  <2>6. failed' \in {"no", "torn", "buried"} /\ (failed' # "buried" => failed = "no" /\ end = l)
    BY <1>2, <1>3, <2>1 DEF Bury, TypeOK, Up
  <2>7. TypeOK'
    <3>1. end' \in 0 .. Len(log') /\ synced' \in 0 .. Len(log') /\ Len(log') <= MaxLog
      BY <1>1, <1>3, <1>4, <2>3, <2>4, <2>5
    <3> QED
      BY <1>1, <1>2, <1>4, <1>5, <2>5, <2>6, <3>1 DEF TypeOK
  <2>8. CheckpointInv' /\ FlushedInv'
    BY <1>1, <2>1, <2>3, <2>4, <2>6, <2>7, PutKeeps
  <2>9. LogInv'
    <3> SUFFICES ASSUME failed' # "buried"
                 PROVE  LogInv'
      BY DEF LogInv
    <3>1. Clean(l) /\ Boundary(l)
      BY <1>1, <1>2, <1>3, <2>6 DEF LogInv, Running
    <3>2. Clean(l + n)'
      BY <1>2, <1>3, <2>3, <2>4, <3>1, AppendedClean
    <3> QED
      BY <1>4, <2>5, <3>2 DEF LogInv
  <2> QED
    BY <1>5, <2>7, <2>8, <2>9 DEF Inv
<1> QED
  BY <1>6, <1>7

\* A power failure cuts off what was not synced; the codes of a checkpoint whose
\* flush is missing are lost, and those of no other.
LEMMA PowerFailsStep ==
    ASSUME Inv, PowerFails
    PROVE  Inv'
<1>1. /\ pc # "down" /\ pc' = "down" /\ accts' = <<>> /\ index' = <<>> /\ end' = 0
      /\ UNCHANGED <<manifest, flushed, risky, failed>>
      /\ lost' = IF risky THEN lost \cup {c \in Referred : ~Stored(c)'} ELSE lost
  BY DEF PowerFails, Down
<1>2. PICK n \in synced .. Len(log) : log' = SubSeq(log, 1, n) /\ synced' = n
  BY DEF PowerFails
<1>3. TypeOK /\ DownInv /\ LogInv /\ CheckpointInv /\ FlushedInv
  BY DEF Inv
<1>4. /\ Len(log) \in Nat /\ synced \in 0 .. Len(log) /\ n \in 0 .. Len(log)
      /\ n \in Nat /\ ~Up' /\ ~Running'
  BY <1>1, <1>2, <1>3, CellTypes DEF TypeOK, Up, Running
<1>5. log' \in Seq(Cell) /\ Len(log') = n /\ \A i \in 1 .. n : log'[i] = log[i]
  BY <1>2, <1>3, <1>4, Cut
<1>6. /\ \A m \in 0 .. n : (Clean(m)' <=> Clean(m)) /\ (Boundary(m)' <=> Boundary(m))
      /\ \A d \in Code, m \in 0 .. n : HasEntry(d, m)' <=> HasEntry(d, m)
  BY <1>3, <1>4, <1>5, Kept
<1>7. Referred' = Referred /\ \A d \in Referred : d \in Code
  <2>1. Referred' = Referred
    BY <1>1 DEF Referred
  <2>2. \A d \in Referred : d \in Code
    BY <1>3 DEF Referred, TypeOK
  <2> QED
    BY <2>1, <2>2
<1>8. TypeOK'
  <2>1. DOMAIN accts' = {} /\ Range(accts') = {} /\ DOMAIN index' = {}
    BY <1>1 DEF Range
  <2>2. lost' \in SUBSET Code
    BY <1>1, <1>3, <1>7 DEF TypeOK
  <2>3. end' \in 0 .. Len(log') /\ synced' \in 0 .. Len(log') /\ Len(log') <= MaxLog
    BY <1>1, <1>2, <1>3, <1>4, <1>5, EthStateAssumption DEF TypeOK
  <2> QED
    BY <1>1, <1>3, <1>4, <1>5, <2>1, <2>2, <2>3 DEF TypeOK
<1>9. DownInv'
  BY <1>1, <1>3 DEF DownInv
<1>10. LogInv'
  <2>1. failed # "buried" => Clean(n)
    BY <1>3, <1>4, CleanPrefix DEF LogInv
  <2>2. Clean(n)' <=> Clean(n)
    BY <1>4, <1>6
  <2> QED
    BY <1>1, <1>4, <1>5, <2>1, <2>2 DEF LogInv
<1>11. CheckpointInv'
  <2> SUFFICES ASSUME failed # "buried"
               PROVE  \A d \in Referred \ lost' : HasEntry(d, n)'
    BY <1>1, <1>2, <1>4, <1>5, <1>7 DEF CheckpointInv
  <2>1. CASE risky
    <3>1. \A d \in Referred \ lost' : Stored(d)'
      BY <1>1, <2>1
    <3>2. \A c \in Code : HasEntry(c, synced)' <=> HasEntry(c, n)'
      BY <1>2
    <3> QED
      BY <1>7, <1>8, <3>1, <3>2, StoredEntryNext DEF StoredEntries
  <2>2. CASE ~risky
    <3>1. \A d \in Referred \ lost : HasEntry(d, synced)
      BY <1>3, <2>2 DEF CheckpointInv
    <3>2. synced \in Int /\ n \in Int /\ synced <= n /\ n \in 0 .. n
      BY <1>2, <1>4
    <3>3. \A d \in Referred \ lost : HasEntry(d, n)
      BY <1>3, <1>7, <3>1, <3>2, EntryGrows
    <3> QED
      BY <1>1, <1>6, <1>7, <2>2, <3>2, <3>3
  <2> QED
    BY <2>1, <2>2
<1>12. FlushedInv'
  <2>1. PICK g \in 0 .. Len(log) : FlushedAt(g)
    BY <1>3 DEF FlushedInv
  <2>2. g \in 0 .. n /\ g \in 0 .. synced
    BY <1>2, <1>4, <2>1 DEF FlushedAt
  <2>3. /\ Clean(g)' /\ Boundary(g)' /\ \A d \in flushed : HasEntry(d, g)'
        /\ \A i \in g + 1 .. n : log'[i].at = 1 => log'[i].of \notin flushed
    <3>1. \A d \in flushed : d \in Code
      BY <1>3 DEF TypeOK
    <3>2. \A i \in g + 1 .. n : i \in 1 .. n /\ i \in g + 1 .. Len(log)
      BY <1>4, <2>2
    <3> QED
      BY <1>5, <1>6, <2>1, <2>2, <3>1, <3>2 DEF FlushedAt
  <2>4. FlushedAt(g)'
    BY <1>1, <1>2, <1>4, <1>5, <2>2, <2>3 DEF FlushedAt
  <2> QED
    BY <1>5, <2>2, <2>4 DEF FlushedInv
<1> QED
  BY <1>8, <1>9, <1>10, <1>11, <1>12 DEF Inv

-----------------------------------------------------------------------------
(* Opening *)

\* Where the first n cells are clean, the scan reads the header that is there.
LEMMA ScanReads ==
    ASSUME TypeOK, NEW n \in 0 .. Len(log), Clean(n), NEW b \in Nat, b = end, Boundary(b), b + Header <= n
    PROVE  \E c \in Code : /\ c = log[b + 1].of /\ HashAtEnd = c /\ LengthsAtEnd = {CodeLen[c]}
                           /\ \A k \in 1 .. Full(c) : b + k <= n => log[b + k] = [of |-> c, at |-> k]
                           /\ b + Full(c) <= n => EntryAt(b, c, n) /\ Boundary(b + Full(c))
                           /\ Boundary(n) => b + Full(c) <= n
<1>1. b < n /\ Header = 2 /\ n \in Nat
  BY CellTypes DEF Header
<1>2. PICK c : c = log[b + 1].of
  OBVIOUS
<1>3. /\ c \in Code /\ log[b + 1].at = 1
      /\ \A k \in 1 .. Full(c) : b + k <= n => log[b + k] = [of |-> c, at |-> k]
      /\ b + Full(c) <= n => EntryAt(b, c, n) /\ Boundary(b + Full(c))
      /\ Boundary(n) => b + Full(c) <= n
  BY <1>1, <1>2, NextEntry
<1>4. log[b + 2] = [of |-> c, at |-> 2]
  <2>1. 2 \in 1 .. Full(c) /\ b + 2 <= n
    BY <1>1, <1>3, Lengths
  <2> QED
    BY <1>3, <2>1
<1>5. HashAtEnd = c /\ LengthsAtEnd = {CodeLen[c]}
  BY <1>2, <1>3, <1>4 DEF HashAtEnd, LengthsAtEnd
<1> QED
  BY <1>2, <1>3, <1>5

\* open: the scan begins at a boundary, with nothing indexed.
LEMMA OpenStep ==
    ASSUME Inv, Open
    PROVE  Inv'
<1>1. /\ pc = "down" /\ pc' = "scan" /\ manifest # <<>> /\ accts' = manifest[1]
      /\ UNCHANGED <<manifest, log, synced, index, end, failed, flushed, risky, lost>>
  BY DEF Open
<1>2. TypeOK /\ DownInv /\ LogInv /\ CheckpointInv /\ FlushedInv
  BY DEF Inv
<1>3. index = <<>> /\ end = 0 /\ DOMAIN index = {} /\ ~Up' /\ Running'
  BY <1>1, <1>2 DEF DownInv, Up, Running
<1>4. PICK m : manifest = <<m>>
  BY <1>1, <1>2 DEF DownInv
<1>5. accts' = m /\ Range(manifest) = {m}
  BY <1>1, <1>4 DEF Range
<1>6. TypeOK' /\ DownInv'
  <2>1. DownInv'
    BY <1>1, <1>4 DEF DownInv
  <2> QED
    BY <1>1, <1>2, <1>3, <1>5, <2>1 DEF TypeOK
<1>7. /\ \A n : (Clean(n)' <=> Clean(n)) /\ (Boundary(n)' <=> Boundary(n))
      /\ \A c, n : HasEntry(c, n)' <=> HasEntry(c, n)
  BY <1>1 DEF Clean, GoesOn, Boundary, HasEntry, EntryAt, Full
<1>8. LogInv'
  <2>1. Boundary(0)
    BY DEF Boundary
  <2>2. end' = 0 /\ \A i \in 1 .. 0 : FALSE
    BY <1>1, <1>3
  <2> QED
    BY <1>1, <1>2, <1>3, <1>7, <2>1, <2>2 DEF LogInv, Boundary
<1>9. CheckpointInv'
  <2>1. Referred' = Referred
    BY <1>1 DEF Referred
  <2> QED
    BY <1>1, <1>2, <1>3, <1>7, <2>1 DEF CheckpointInv
<1>10. FlushedInv'
  <2>1. PICK g \in 0 .. Len(log) : FlushedAt(g)
    BY <1>2 DEF FlushedInv
  <2>2. end' = 0 /\ Boundary(0)' /\ \A i \in 1 .. g : ~ i <= 0
    BY <1>1, <1>3 DEF Boundary
  <2>3. FlushedAt(g)'
    BY <1>1, <1>3, <1>7, <2>1, <2>2 DEF FlushedAt, Boundary
  <2> QED
    BY <1>1, <2>1, <2>3 DEF FlushedInv
<1> QED
  BY <1>6, <1>8, <1>9, <1>10 DEF Inv

\* open: the scan indexes an entry and stands behind it, at a boundary again.
\* Behind the flushed part it may read anything, but no flushed code.
LEMMA ScanEntryStep ==
    ASSUME Inv, ScanEntry
    PROVE  Inv'
<1>1. /\ pc = "scan" /\ pc' = "scan" /\ HeaderFits
      /\ UNCHANGED <<accts, manifest, log, synced, failed, flushed, risky, lost>>
  BY DEF ScanEntry
<1>2. TypeOK /\ DownInv /\ LogInv /\ CheckpointInv /\ FlushedInv
  BY DEF Inv
<1>3. PICK n \in LengthsAtEnd :
          /\ Fits(n) /\ end' = end + Header + n
          /\ index' = Insert(index, HashAtEnd, [off |-> end + Header, len |-> n])
  BY DEF ScanEntry
<1>4. PICK l \in Nat : l = Len(log)
  BY <1>2, CellTypes
<1>5. PICK b \in Nat : b = end
  BY <1>2, CellTypes
<1>6. b + Header <= l /\ Header = 2 /\ b \in 0 .. l /\ synced \in 0 .. l /\ ~Up' /\ Running /\ Running'
  BY <1>1, <1>2, <1>4, <1>5 DEF HeaderFits, Header, Up, Running, TypeOK
<1>7. n \in Nat /\ HashAtEnd \in Code \cup {Garbage}
  <2>1. log[b + 1].of \in Code /\ log[b + 2].of \in Code
    BY <1>2, <1>4, <1>6, CellTypes
  <2> QED
    BY <1>4, <1>5, <2>1, Lengths DEF LengthsAtEnd, HashAtEnd
<1>8. end' = b + Header + n /\ end' \in 0 .. l /\ b + Header + n \in Nat
  BY <1>3, <1>4, <1>5, <1>6, <1>7 DEF Fits
<1>9. PICK h : h = HashAtEnd
  OBVIOUS
<1>10. /\ DOMAIN index' = DOMAIN index \cup {h}
       /\ index'[h] = [off |-> b + Header, len |-> n]
       /\ \A d \in DOMAIN index : d # h => index'[d] = index[d]
  BY <1>3, <1>5, <1>9 DEF Insert
<1>11. TypeOK' /\ DownInv'
  <2>1. index'[h] \in [off : Nat, len : Nat]
    BY <1>6, <1>7, <1>10
  <2>2. DOMAIN index' \subseteq Code \cup {Garbage}
    BY <1>2, <1>7, <1>9, <1>10 DEF TypeOK
  <2>3. DownInv'
    BY <1>1, <1>2 DEF DownInv
  <2> QED
    BY <1>1, <1>2, <1>4, <1>6, <1>8, <1>10, <2>1, <2>2, <2>3 DEF TypeOK
<1>12. /\ \A m : (Clean(m)' <=> Clean(m)) /\ (Boundary(m)' <=> Boundary(m))
       /\ \A c, m : HasEntry(c, m)' <=> HasEntry(c, m)
       /\ \A o, c, m : EntryAt(o, c, m)' <=> EntryAt(o, c, m)
  BY <1>1 DEF Clean, GoesOn, Boundary, HasEntry, EntryAt, Full
<1>13. LogInv'
  <2> SUFFICES ASSUME failed # "buried"
               PROVE  LogInv'
    BY <1>1 DEF LogInv
  <2>1. Clean(l) /\ Boundary(b) /\ \A c \in DOMAIN index : c \in Code /\ Indexed(c, b)
    BY <1>2, <1>4, <1>5, <1>6 DEF LogInv
  <2>2. PICK c \in Code : /\ h = c /\ LengthsAtEnd = {CodeLen[c]}
                          /\ \A k \in 1 .. Full(c) : b + k <= l => log[b + k] = [of |-> c, at |-> k]
                          /\ b + Full(c) <= l => EntryAt(b, c, l) /\ Boundary(b + Full(c))
    BY <1>2, <1>4, <1>5, <1>6, <1>9, <2>1, ScanReads
  <2>3. n = CodeLen[c] /\ Full(c) \in Nat /\ Full(c) = Header + n /\ b + Full(c) = b + Header + n
    BY <1>5, <1>6, <1>7, <2>2, Lengths
  <2>4. PICK e \in Nat : e = b + Full(c)
    BY <2>3
  <2>5. e <= l /\ end' = e /\ b <= e
    BY <1>4, <1>8, <2>3, <2>4
  <2>6. EntryAt(b, c, e) /\ Boundary(e)
    BY <2>2, <2>3, <2>4, <2>5 DEF EntryAt
  <2>7. Indexed(c, e)'
    <3>1. index'[c].off = b + Header /\ index'[c].len = CodeLen[c] /\ b + Header - Header = b
      BY <1>6, <1>10, <2>2, <2>3
    <3> QED
      BY <1>6, <1>10, <1>12, <2>2, <2>6, <3>1 DEF Indexed, Header
  <2>8. ASSUME NEW d \in DOMAIN index, d # c
        PROVE  d \in Code /\ Indexed(d, e)'
    <3>1. d \in Code /\ Indexed(d, b) /\ index'[d] = index[d]
      BY <1>10, <2>1, <2>2, <2>8
    <3>2. EntryAt(index[d].off - Header, d, e)
      <4>1. EntryAt(index[d].off - Header, d, b) /\ b \in Int /\ e \in Int
        BY <3>1 DEF Indexed
      <4> QED
        BY <1>2, <2>5, <3>1, <4>1, EntryGrows
    <3> QED
      BY <1>10, <1>12, <3>1, <3>2 DEF Indexed, Header
  <2>9. \A i \in 1 .. e : log[i].at = 1 => log[i].of \in DOMAIN index'
    <3> SUFFICES ASSUME NEW i \in 1 .. e, log[i].at = 1
                 PROVE  log[i].of \in DOMAIN index'
      OBVIOUS
    <3>1. CASE i <= b
      BY <1>2, <1>5, <1>6, <1>10, <3>1 DEF LogInv
    <3>2. CASE i > b
      <4>1. PICK k \in 1 .. Full(c) : b + k = i
        <5>1. i - b \in 1 .. Full(c) /\ b + (i - b) = i
          BY <2>3, <2>4, <3>2
        <5> QED
          BY <5>1
      <4>2. b + k <= l
        BY <2>5, <4>1
      <4>3. log[i] = [of |-> c, at |-> k]
        BY <2>2, <4>1, <4>2
      <4>4. log[i].of = c
        BY ONLY <4>3
      <4> QED
        BY <1>10, <2>2, <4>4
    <3> QED
      BY <3>1, <3>2
  <2>10. \A d \in DOMAIN index' : d \in Code /\ Indexed(d, e)'
    BY <1>10, <2>2, <2>7, <2>8
  <2>11. Clean(Len(log))' /\ Boundary(e)'
    <3>1. Len(log') = l /\ Clean(l)'
      BY <1>1, <1>4, <1>12, <2>1
    <3> QED
      BY <1>12, <2>6, <3>1
  <2> QED
    BY <1>1, <1>6, <2>5, <2>9, <2>10, <2>11 DEF LogInv
<1>14. CheckpointInv'
  <2>1. Referred' = Referred
    BY <1>1 DEF Referred
  <2> QED
    BY <1>1, <1>2, <1>6, <1>12, <2>1 DEF CheckpointInv
<1>15. FlushedInv'
  <2>1. PICK g \in 0 .. l : FlushedAt(g)
    BY <1>2, <1>4 DEF FlushedInv
  <2>2. \A d \in flushed : d \in Code
    BY <1>2 DEF TypeOK
  <2>3. PICK e \in Nat : e = end'
    BY <1>8
  <2>4. e = b + Header + n /\ b <= e /\ g \in Nat
    BY <1>6, <1>7, <1>8, <2>3
  <2>5. ASSUME NEW d \in flushed, Indexed(d, g), d # h
        PROVE  Indexed(d, g)'
    <3>1. d \in DOMAIN index /\ index'[d] = index[d]
      BY <1>10, <2>5 DEF Indexed
    <3> QED
      BY <1>10, <1>12, <2>5, <3>1 DEF Indexed, Header
  <2>6. /\ e <= g => Boundary(e)
        /\ \A i \in 1 .. g, d \in flushed : log[i].at = 1 /\ log[i].of = d /\ i <= e => Indexed(d, g)'
    <3>1. CASE b < g
      <4>1. Clean(g) /\ Boundary(g) /\ Boundary(b) /\ g \in 0 .. Len(log)
        BY <1>4, <1>5, <1>6, <2>1, <3>1 DEF FlushedAt
      <4>2. PICK c : c = log[b + 1].of
        OBVIOUS
      <4>3. c \in Code /\ b + Full(c) <= g
        BY <1>2, <3>1, <4>1, <4>2, NextEntry
      <4>4. Full(c) \in Nat /\ Full(c) > Header /\ Full(c) = Header + CodeLen[c] /\ CodeLen[c] \in Nat
        BY <4>3, Lengths
      <4>5. b + Header <= g
        BY <1>6, <4>3, <4>4
      <4>6. /\ h = c /\ LengthsAtEnd = {CodeLen[c]}
            /\ \A k \in 1 .. Full(c) : b + k <= g => log[b + k] = [of |-> c, at |-> k]
            /\ EntryAt(b, c, g) /\ Boundary(b + Full(c))
        BY <1>2, <1>5, <1>9, <4>1, <4>2, <4>3, <4>5, ScanReads
      <4>7. n = CodeLen[c] /\ e = b + Full(c) /\ e <= g
        BY <1>6, <2>4, <4>3, <4>4, <4>6
      <4>8. Indexed(c, g)'
        <5>1. index'[c].off = b + Header /\ index'[c].len = CodeLen[c] /\ b + Header - Header = b
          BY <1>6, <1>10, <4>6, <4>7
        <5> QED
          BY <1>6, <1>10, <1>12, <4>6, <5>1 DEF Indexed, Header
      <4>9. ASSUME NEW i \in 1 .. g, NEW d \in flushed, log[i].at = 1, log[i].of = d, i <= e
            PROVE  Indexed(d, g)'
        <5>1. CASE i <= b
          <6>1. Indexed(d, g)
            BY <1>5, <1>6, <2>1, <4>9, <5>1 DEF FlushedAt
          <6> QED
            BY <2>5, <4>6, <4>8, <4>9, <6>1
        <5>2. CASE i > b
          <6>1. PICK k \in 1 .. Full(c) : b + k = i
            <7>1. i - b \in 1 .. Full(c) /\ b + (i - b) = i
              BY <4>4, <4>7, <4>9, <5>2
            <7> QED
              BY <7>1
          <6>2. b + k <= g
            BY <6>1
          <6>3. log[i] = [of |-> c, at |-> k]
            BY <4>6, <6>1, <6>2
          <6>4. log[i].of = c
            BY ONLY <6>3
          <6> QED
            BY <4>8, <4>9, <6>4
        <5>3. i <= b \/ i > b
          OBVIOUS
        <5> QED
          BY <5>1, <5>2, <5>3
      <4>10. Boundary(e)
        BY <4>6, <4>7
      <4> QED
        BY <4>9, <4>10
    <3>2. CASE b >= g
      <4>1. h \notin flushed
        <5>1. b + 1 \in g + 1 .. Len(log)
          BY <1>4, <1>6, <2>4, <3>2
        <5>2. log[b + 1].at = 1 => log[b + 1].of \notin flushed
          BY <2>1, <5>1 DEF FlushedAt
        <5> QED
          BY <1>5, <1>9, <2>2, <5>2, EthStateAssumption DEF HashAtEnd
      <4>2. ASSUME NEW i \in 1 .. g, NEW d \in flushed, log[i].at = 1, log[i].of = d
            PROVE  Indexed(d, g)'
        <5>1. i <= end
          BY <1>5, <2>4, <3>2
        <5>2. Indexed(d, g)
          BY <1>6, <2>1, <4>2, <5>1 DEF FlushedAt
        <5> QED
          BY <2>5, <4>1, <4>2, <5>2
      <4>3. ~ e <= g
        BY <1>6, <1>7, <2>4, <3>2
      <4> QED
        BY <4>2, <4>3
    <3> QED
      BY <2>4, <3>1, <3>2
  <2>7. FlushedAt(g)'
    BY <1>1, <1>6, <1>12, <2>1, <2>3, <2>6 DEF FlushedAt
  <2> QED
    BY <1>1, <1>4, <2>7 DEF FlushedInv
<1> QED
  BY <1>11, <1>13, <1>14, <1>15 DEF Inv

\* The scan ends only behind every entry.
LEMMA ScanEndsBehind ==
    ASSUME TypeOK, HeaderFits => \E n \in LengthsAtEnd : ~Fits(n), NEW b \in Nat, b = end, Boundary(b),
           NEW n \in 0 .. Len(log), Clean(n)
    PROVE  /\ Boundary(n) => n <= b
           /\ \A c \in Code, o \in Nat : n = Len(log) /\ EntryAt(o, c, n) => o < b
<1>1. n \in Nat /\ Len(log) \in Nat /\ b \in 0 .. Len(log) /\ Header = 2
  BY CellTypes DEF TypeOK, Header
<1>2. CASE n <= b
  <2>1. ASSUME NEW c \in Code, NEW o \in Nat, EntryAt(o, c, n)
        PROVE  o < b
    BY <1>1, <1>2, <2>1, Lengths DEF EntryAt
  <2> QED
    BY <1>2, <2>1
<1>3. CASE b < n
  <2>1. PICK c : c = log[b + 1].of
    OBVIOUS
  <2>2. /\ c \in Code
        /\ \A k \in 1 .. Full(c) : b + k <= n => log[b + k] = [of |-> c, at |-> k]
        /\ Boundary(n) => b + Full(c) <= n
    BY <1>3, <2>1, NextEntry
  <2>3. Full(c) \in Nat /\ Full(c) > Header /\ Full(c) = Header + CodeLen[c] /\ CodeLen[c] \in Nat
    BY <2>2, Lengths
  <2>4. ~ b + Full(c) <= n
    <3>1. ASSUME b + Full(c) <= n
          PROVE  FALSE
      <4>1. b + Header <= n
        BY <1>1, <2>3, <3>1
      <4>2. LengthsAtEnd = {CodeLen[c]}
        BY <2>1, <4>1, ScanReads
      <4>3. HeaderFits /\ Fits(CodeLen[c])
        BY <1>1, <2>3, <3>1 DEF HeaderFits, Fits, Header
      <4> QED
        BY <4>2, <4>3
    <3> QED
      BY <3>1
  <2>5. ASSUME NEW d \in Code, NEW o \in Nat, EntryAt(o, d, n), o >= b
        PROVE  FALSE
    <3>1. /\ o + Full(d) <= n /\ Full(d) \in Nat /\ Full(d) > 0
          /\ log[o + 1] = [of |-> d, at |-> 1]
      BY <1>1, <2>5, Lengths DEF EntryAt
    <3>2. log[o + 1].of = d /\ log[o + 1].at = 1
      BY ONLY <3>1
    <3>3. CASE o = b
      BY <2>1, <2>4, <3>1, <3>2, <3>3
    <3>4. CASE o > b
      <4>1. PICK k \in 1 .. Full(c) : b + k = o + 1 /\ k > 1
        <5>1. o + 1 - b \in 1 .. Full(c) /\ b + (o + 1 - b) = o + 1 /\ o + 1 - b > 1
          BY <1>1, <2>3, <2>4, <3>1, <3>4
        <5> QED
          BY <5>1
      <4>2. b + k <= n
        BY <1>1, <3>1, <4>1
      <4>3. log[o + 1] = [of |-> c, at |-> k]
        BY <2>2, <4>1, <4>2
      <4>4. log[o + 1].at = k
        BY ONLY <4>3
      <4> QED
        BY <3>2, <4>1, <4>4
    <3> QED
      BY <2>5, <3>3, <3>4
  <2>6. \A d \in Code, o \in Nat : EntryAt(o, d, n) => o < b
    <3>1. \A o \in Nat : o >= b \/ o < b
      OBVIOUS
    <3> QED
      BY <2>5, <3>1
  <2> QED
    BY <2>2, <2>4, <2>6
<1> QED
  BY <1>1, <1>2, <1>3

\* open: what is truncated holds no entry that the checkpoint or a flush counts on.
LEMMA ScanEndsStep ==
    ASSUME Inv, ScanEnds
    PROVE  Inv'
<1>1. /\ pc = "scan" /\ pc' = "idle"
      /\ HeaderFits => \E n \in LengthsAtEnd : ~Fits(n)
      /\ log' = SubSeq(log, 1, end)
      /\ synced' = IF synced < end THEN synced ELSE end
      /\ failed' = IF failed = "torn" THEN "no" ELSE failed
      /\ UNCHANGED <<accts, manifest, index, end, flushed, risky, lost>>
  BY DEF ScanEnds
<1>2. TypeOK /\ DownInv /\ LogInv /\ CheckpointInv /\ FlushedInv
  BY DEF Inv
<1>3. PICK l \in Nat : l = Len(log)
  BY <1>2, CellTypes
<1>4. PICK b \in Nat : b = end
  BY <1>2, CellTypes
<1>5. PICK s \in Nat : s = synced
  BY <1>2, CellTypes
<1>6. /\ b \in 0 .. l /\ b \in 0 .. Len(log) /\ s \in 0 .. l /\ Up' /\ Running /\ Running'
      /\ synced' \in 0 .. b /\ synced' <= s /\ (synced' = s \/ synced' = b)
  BY <1>1, <1>2, <1>3, <1>4, <1>5 DEF Up, Running, TypeOK
<1>7. log' \in Seq(Cell) /\ Len(log') = b /\ \A i \in 1 .. b : log'[i] = log[i]
  BY <1>1, <1>2, <1>4, <1>6, Cut
<1>8. /\ \A m \in 0 .. b : (Clean(m)' <=> Clean(m)) /\ (Boundary(m)' <=> Boundary(m))
      /\ \A d \in Code, o \in Nat, m \in 0 .. b : EntryAt(o, d, m)' <=> EntryAt(o, d, m)
      /\ \A d \in Code, m \in 0 .. b : HasEntry(d, m)' <=> HasEntry(d, m)
      /\ \A d \in Code, m \in 0 .. b : Indexed(d, m)' <=> Indexed(d, m)
  BY <1>1, <1>2, <1>6, <1>7, Kept
<1>9. TypeOK' /\ DownInv'
  <2>1. failed' \in {"no", "torn", "buried"}
    BY <1>1, <1>2 DEF TypeOK
  <2>2. end' = b /\ end' \in 0 .. Len(log') /\ synced' \in 0 .. Len(log') /\ Len(log') <= MaxLog
    BY <1>1, <1>2, <1>3, <1>4, <1>6, <1>7, EthStateAssumption DEF TypeOK
  <2>3. DownInv'
    BY <1>1, <1>2 DEF DownInv
  <2> QED
    BY <1>1, <1>2, <1>7, <2>1, <2>2, <2>3 DEF TypeOK
<1>10. LogInv'
  <2> SUFFICES ASSUME failed # "buried"
               PROVE  LogInv'
    BY <1>1 DEF LogInv
  <2>1. Clean(b) /\ Boundary(b) /\ \A c \in DOMAIN index : c \in Code /\ Indexed(c, b)
    BY <1>2, <1>3, <1>4, <1>6, CleanPrefix DEF LogInv
  <2>2. \A i \in 1 .. b : log[i].at = 1 => log[i].of \in DOMAIN index
    BY <1>2, <1>4, <1>6 DEF LogInv
  <2>3. \A i \in b + 1 .. b : FALSE
    OBVIOUS
  <2>4. Clean(b)' /\ Boundary(b)' /\ \A c \in DOMAIN index : Indexed(c, b)'
    BY <1>6, <1>8, <2>1
  <2>5. end' = b
    BY <1>1, <1>4
  <2> QED
    BY <1>1, <1>7, <2>1, <2>2, <2>3, <2>4, <2>5 DEF LogInv
<1>11. CheckpointInv'
  <2> SUFFICES ASSUME failed # "buried"
               PROVE  CheckpointInv'
    BY <1>1 DEF CheckpointInv
  <2>1. Referred' = Referred /\ \A d \in Referred : d \in Code
    <3>1. Referred' = Referred
      BY <1>1 DEF Referred
    <3>2. \A d \in Referred : d \in Code
      BY <1>2 DEF Referred, TypeOK
    <3> QED
      BY <3>1, <3>2
  <2>2. Clean(l) /\ Boundary(b) /\ l \in 0 .. Len(log)
    BY <1>2, <1>3, <1>4, <1>6 DEF LogInv
  <2>3. ASSUME NEW d \in Code, NEW o \in Nat, EntryAt(o, d, l)
        PROVE  EntryAt(o, d, b)
    <3>1. o < b
      BY <1>1, <1>2, <1>3, <1>4, <2>2, <2>3, ScanEndsBehind
    <3> QED
      BY <1>2, <1>3, <1>6, <2>2, <2>3, <3>1, NoStraddle
  <2>4. ASSUME NEW d \in Referred \ lost
        PROVE  HasEntry(d, b) /\ HasEntry(d, b)'
    <3>1. d \in Code /\ HasEntry(d, l)
      BY <1>2, <1>3, <2>1, <2>4 DEF CheckpointInv
    <3>2. HasEntry(d, b)
      BY <2>3, <3>1 DEF HasEntry
    <3> QED
      BY <1>6, <1>8, <3>1, <3>2
  <2>5. PICK t \in 0 .. b : t = synced'
    BY <1>6
  <2>6. ASSUME NEW d \in Referred \ lost, ~risky
        PROVE  HasEntry(d, t)'
    <3>1. d \in Code /\ HasEntry(d, s)
      BY <1>2, <1>5, <2>1, <2>6 DEF CheckpointInv
    <3>2. PICK o \in Nat : EntryAt(o, d, s)
      BY <3>1 DEF HasEntry
    <3>3. EntryAt(o, d, l)
      BY <1>2, <1>6, <3>1, <3>2, EntryGrows
    <3>4. EntryAt(o, d, b)
      BY <2>3, <3>1, <3>3
    <3>5. EntryAt(o, d, t)
      BY <1>6, <2>5, <3>2, <3>4
    <3>6. HasEntry(d, t)
      BY <3>2, <3>5 DEF HasEntry
    <3> QED
      BY <1>8, <3>1, <3>6
  <2>7. ASSUME NEW a \in DOMAIN accts, accts[a] \in Code \ lost
        PROVE  accts[a] \in DOMAIN index
    <3>1. PICK m : manifest = <<m>>
      BY <1>1, <1>2 DEF DownInv
    <3>2. accts = m /\ Referred = Range(m) \ {NoCode}
      BY <1>1, <1>2, <3>1, ReferredBy DEF DownInv
    <3>3. PICK d : d = accts[a]
      OBVIOUS
    <3>4. d \in Referred \ lost /\ d \in Code
      BY <2>7, <3>2, <3>3, EthStateAssumption DEF Range
    <3>5. PICK o \in Nat : EntryAt(o, d, b)
      BY <2>4, <3>4 DEF HasEntry
    <3>6. o + 1 \in 1 .. b /\ log[o + 1] = [of |-> d, at |-> 1]
      <4>1. Full(d) \in Nat /\ Full(d) > 0
        BY <3>4, Lengths DEF Header
      <4>2. o + Full(d) <= b /\ \A k \in 1 .. Full(d) : log[o + k] = [of |-> d, at |-> k]
        BY <3>5 DEF EntryAt
      <4>3. 1 \in 1 .. Full(d)
        BY <4>1
      <4> QED
        BY <4>1, <4>2, <4>3
    <3>7. log[o + 1].of = d /\ log[o + 1].at = 1
      BY ONLY <3>6
    <3>8. d \in DOMAIN index
      BY <1>2, <1>4, <1>6, <3>6, <3>7 DEF LogInv
    <3> QED
      BY <3>3, <3>8
  <2>8. \A d \in Referred' \ lost' : HasEntry(d, Len(log))'
    BY <1>1, <1>7, <2>1, <2>4
  <2>9. ~risky' => \A d \in Referred' \ lost' : HasEntry(d, synced)'
    BY <1>1, <2>1, <2>5, <2>6
  <2> QED
    BY <1>1, <2>7, <2>8, <2>9 DEF CheckpointInv
<1>12. FlushedInv'
  <2>1. PICK g \in 0 .. l : FlushedAt(g)
    BY <1>2, <1>3 DEF FlushedInv
  <2>2. Clean(g) /\ Boundary(g) /\ g \in 0 .. s
    BY <1>5, <2>1 DEF FlushedAt
  <2>3. g <= b
    <3>1. CASE g <= b
      BY <3>1
    <3>2. CASE b < g
      <4>1. Boundary(b)
        BY <1>4, <1>6, <2>1, <3>2 DEF FlushedAt
      <4> QED
        BY <1>1, <1>2, <1>3, <1>4, <2>2, <4>1, ScanEndsBehind
    <3> QED
      BY <3>1, <3>2
  <2>4. g \in 0 .. b /\ g \in 0 .. synced'
    BY <1>6, <2>2, <2>3
  <2>5. \A d \in flushed : d \in Code
    BY <1>2 DEF TypeOK
  <2>6. Clean(g)' /\ Boundary(g)' /\ \A d \in flushed : HasEntry(d, g)'
    BY <1>8, <2>1, <2>2, <2>4, <2>5 DEF FlushedAt
  <2>7. \A i \in g + 1 .. b : log'[i].at = 1 => log'[i].of \notin flushed
    BY <1>3, <1>6, <1>7, <2>1, <2>4 DEF FlushedAt
  <2>8. ASSUME NEW i \in 1 .. g, NEW d \in flushed, log[i].at = 1, log[i].of = d
        PROVE  Indexed(d, g)'
    <3>1. i <= end
      BY <1>4, <2>4
    <3>2. Indexed(d, g)
      BY <1>6, <2>1, <2>8, <3>1 DEF FlushedAt
    <3> QED
      BY <1>8, <2>4, <2>5, <3>2
  <2>9. \A i \in 1 .. g, d \in flushed : log'[i].at = 1 /\ log'[i].of = d => Indexed(d, g)'
    BY <1>7, <2>4, <2>8
  <2>10. end' = b /\ (b <= g => b = g)
    BY <1>1, <1>4, <2>4
  <2>11. FlushedAt(g)'
    BY <1>1, <1>6, <1>7, <2>4, <2>6, <2>7, <2>9, <2>10 DEF FlushedAt
  <2> QED
    BY <1>7, <2>4, <2>11 DEF FlushedInv
<1> QED
  BY <1>9, <1>10, <1>11, <1>12 DEF Inv

\* EthState::create establishes the invariant.
LEMMA InitInv == Init => Inv
<1> SUFFICES ASSUME Init
             PROVE  Inv
  OBVIOUS
<1>1. /\ accts = <<>> /\ manifest = <<>> /\ log = <<>> /\ synced = 0
      /\ index = <<>> /\ end = 0 /\ pc = "idle"
      /\ failed = "no" /\ flushed = {} /\ risky = FALSE /\ lost = {}
  BY DEF Init
<1>2. /\ Len(log) = 0 /\ DOMAIN accts = {} /\ Range(accts) = {} /\ Range(manifest) = {} /\ DOMAIN index = {}
      /\ log \in Seq(Cell)
  BY <1>1 DEF Range
<1>3. \A i \in 1 .. 0 : FALSE
  OBVIOUS
<1>4. TypeOK
  <2>1. /\ DOMAIN accts \subseteq Addr /\ Range(accts) \subseteq Code \cup {NoCode}
        /\ \A m \in Range(manifest) : DOMAIN m \subseteq Addr /\ Range(m) \subseteq Code \cup {NoCode}
        /\ \A h \in DOMAIN index : index[h] \in [off : Nat, len : Nat]
        /\ DOMAIN index \subseteq Code \cup {Garbage}
    BY <1>2
  <2>2. Len(log) <= MaxLog /\ synced \in 0 .. Len(log) /\ end \in 0 .. Len(log) /\ end = Len(log)
    BY <1>1, <1>2, EthStateAssumption
  <2> QED
    BY <1>1, <1>2, <2>1, <2>2 DEF TypeOK
<1>5. Clean(0) /\ Boundary(0)
  BY <1>3 DEF Clean, Boundary
<1>6. LogInv
  BY <1>1, <1>2, <1>3, <1>5 DEF LogInv
<1>7. DownInv
  BY <1>1 DEF DownInv
<1>8. CheckpointInv
  <2>1. Referred = {}
    BY <1>1, ReferredBy
  <2> QED
    BY <1>1, <1>2, <2>1 DEF CheckpointInv
<1>9. FlushedAt(0)
  BY <1>1, <1>2, <1>3, <1>5 DEF FlushedAt
<1>10. FlushedInv
  BY <1>2, <1>9 DEF FlushedInv
<1> QED
  BY <1>4, <1>6, <1>7, <1>8, <1>10 DEF Inv

\* The same of the next state.
LEMMA InitInvNext == Init' => Inv'
BY InitInv, PTL

\* Without a checkpoint the state is the initial one again.
LEMMA CreateStep ==
    ASSUME Create
    PROVE  Inv'
<1>1. Init'
  BY DEF Create, Init
<1> QED
  BY <1>1, InitInvNext

-----------------------------------------------------------------------------
(* Theorems *)

\* Inv is an inductive invariant: every operation, crash and step of a scan keeps it.
THEOREM Inductive == Spec => []Inv
<1>1. ASSUME Inv, [Next]_vars
      PROVE  Inv'
  <2>1. ASSUME NEW c \in Code, SetCode(c) \/ SetCodeFails(c)
        PROVE  Inv'
    BY <1>1, <2>1, SetCodeStep, SetCodeFailsStep
  <2>2. ASSUME NEW a \in Addr, DeleteAccount(a) \/ \E h \in Code \cup {NoCode} : SetAccount(a, h)
        PROVE  Inv'
    BY <1>1, <2>2, DeleteAccountStep, SetAccountStep
  <2>3. CASE PersistTrie \/ PersistFlush \/ PersistFlushFails
    BY <1>1, <2>3, PersistTrieStep, PersistFlushStep, PersistFlushFailsStep
  <2>4. CASE Dies \/ PowerFails
    BY <1>1, <2>4, DiesStep, PowerFailsStep
  <2>5. CASE Open \/ ScanEntry \/ ScanEnds \/ Create
    BY <1>1, <2>5, OpenStep, ScanEntryStep, ScanEndsStep, CreateStep
  <2>6. CASE UNCHANGED vars
    <3>1. /\ UNCHANGED <<accts, manifest, log, synced, index, end, pc, failed, flushed, risky, lost>>
          /\ Up' = Up /\ Running' = Running
      BY <2>6 DEF vars, Up, Running
    <3>2. TypeOK /\ DownInv /\ LogInv /\ CheckpointInv /\ FlushedInv
      BY <1>1 DEF Inv
    <3>3. LogInv' /\ FlushedInv' /\ \A c, n : HasEntry(c, n)' <=> HasEntry(c, n)
      BY <3>1, <3>2, LogFrame
    <3>4. TypeOK' /\ DownInv'
      BY <3>1, <3>2 DEF TypeOK, DownInv
    <3>5. CheckpointInv'
      <4>1. Referred' = Referred
        BY <3>1 DEF Referred
      <4> QED
        BY <3>1, <3>2, <3>3, <4>1 DEF CheckpointInv
    <3> QED
      BY <3>3, <3>4, <3>5 DEF Inv
  <2> QED
    BY <1>1, <2>1, <2>2, <2>3, <2>4, <2>5, <2>6 DEF Next
<1> QED
  BY <1>1, InitInv, PTL DEF Spec

\* Type correctness; with it, end is the end of the log as long as no put failed.
THEOREM EthTypeCorrect == Spec => []TypeOK
<1>1. Inv => TypeOK
  BY DEF Inv
<1> QED
  BY <1>1, Inductive, PTL

\* CodeStore::get returns the code it is asked for, after any sequence of puts,
\* crashes, torn entries and scans, as long as nothing was put behind a failed put.
THEOREM IndexSound == Spec => []IndexFindsCodesButBuried
<1>1. ASSUME Inv
      PROVE  IndexFindsCodesButBuried
  <2> SUFFICES ASSUME failed # "buried", NEW c \in DOMAIN index
               PROVE  c \in Code /\ Found(c)
    BY DEF IndexFindsCodesButBuried
  <2>1. TypeOK /\ Running
    BY <1>1 DEF Inv, DownInv, Running
  <2>2. c \in Code /\ Indexed(c, end)
    BY <1>1, <2>1 DEF Inv, LogInv
  <2>3. end \in 0 .. Len(log)
    BY <2>1 DEF TypeOK
  <2> QED
    BY <2>1, <2>2, <2>3, IndexedFound
<1> QED
  BY <1>1, Inductive, PTL

\* A code that a flush has seen is found for ever after, whatever else happens to
\* the log: what is buried is only what came later.
THEOREM FlushedSafe == Spec => []FlushedCodesSurvive
<1>1. ASSUME Inv
      PROVE  FlushedCodesSurvive
  <2> SUFFICES ASSUME Up, NEW c \in flushed
               PROVE  Found(c)
    BY DEF FlushedCodesSurvive
  <2>1. TypeOK /\ c \in Code
    BY <1>1 DEF Inv, TypeOK
  <2>2. PICK n \in 0 .. Len(log) : FlushedAt(n)
    BY <1>1 DEF Inv, FlushedInv
  <2> QED
    BY <2>1, <2>2, FlushedIndexed, IndexedFound
<1> QED
  BY <1>1, Inductive, PTL

\* Once persist has returned, the codes its checkpoint refers to are synced, but for
\* those a power failure took between the checkpoint and the flush.
THEOREM CheckpointSafe == Spec => []CheckpointCodesSynced
<1>1. ASSUME Inv
      PROVE  CheckpointCodesSynced
  <2> SUFFICES ASSUME ~risky, failed # "buried", NEW c \in Referred \ lost
               PROVE  Stored(c)
    BY DEF CheckpointCodesSynced
  <2>1. TypeOK /\ HasEntry(c, synced)
    BY <1>1 DEF Inv, CheckpointInv
  <2>2. c \in Code
    BY <2>1 DEF Referred, TypeOK
  <2> QED
    BY <2>1, <2>2, StoredEntry DEF StoredEntries
<1> QED
  BY <1>1, Inductive, PTL
=============================================================================
