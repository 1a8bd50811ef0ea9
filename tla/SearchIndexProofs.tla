--------------------------- MODULE SearchIndexProofs ---------------------------
(***************************************************************************)
(* What is proved about the search index of module SearchIndex, for any      *)
(* files, skills and texts, any number of processes, edits and crashes:      *)
(*                                                                         *)
(*   - one process at a time writes the index, and a closed one lets go;     *)
(*   - what the index records is what it contains, and what a scan skips is  *)
(*     up to date;                                                          *)
(*   - a scan that ran to its end leaves the index as the tree is.           *)
(*                                                                         *)
(* OwnersInv relates the places of the threads to the locks: a thread that   *)
(* still has an open store acts for the owner, and an owner scans or follows *)
(* changes, never both.  IndexInv adds what each thread that is between two  *)
(* transactions of a reindex knows of the tables and of the file, and        *)
(* CatchUpInv what the paths look like that a scan has behind it.            *)
(***************************************************************************)
EXTENDS SearchIndex, TLAPS

ScanAt == {"idle", "begin", "claim", "lock", "next", "read", "delete", "upsert", "record", "finished"}
FlushAt == {"idle", "next", "stat"} \cup Writing

(* The places in which a scan holds write.lock, and those with a path.       *)
ScanPlace == {"next", "read", "delete", "upsert", "record"}
PathPlace == {"read", "delete", "upsert", "record"}

Scans ==
  [at : ScanAt, by : {"start", "search", "cli"}, known : [Path -> Record \cup {NoRecord}],
   todo : SUBSET Path, seen : SUBSET Path, path : Path \cup {Nobody}, text : Text \cup {Gone},
   stamp : [Path -> Nat], edited : SUBSET Path, complete : BOOLEAN]

Flushes ==
  [at : FlushAt, todo : SUBSET File, path : File \cup {Nobody},
   text : Text \cup {Gone, Unreadable}, readAt : Nat, stamp : Nat]

ScanIsTyped(j) ==
  /\ j.at \in PathPlace => j.path \in Path /\ j.path \notin j.todo
  /\ j.at \in {"delete", "upsert", "record"} => j.text \in Text
  /\ \A f \in Path : j.stamp[f] <= edits

FlushIsTyped(j) ==
  /\ j.at \in {"stat"} \cup Writing => j.path \in File
  /\ j.at \in {"stat", "delete", "upsert", "record"} => j.text \in Text
  /\ j.readAt <= edits /\ j.stamp <= edits

TablesAreTyped ==
  /\ disk \in [Path -> [text : Text \cup {Gone, Unreadable}, mtime : 0..edits]]
  /\ tree \in Trees /\ edits \in 0..MaxEdits /\ opens \in 0..MaxOpens /\ crashes \in 0..MaxCrashes
  /\ chunks \in [Path -> SUBSET Text]
  /\ record \in [Path -> [hash : Text, mtime : 0..edits] \cup {NoRecord}]
  /\ owner \in Process \cup {Nobody} /\ writer \in Process \cup {Nobody}
  /\ phase \in [Process -> {"new", "open", "closing", "closed"}]
  /\ watching \subseteq Process
  /\ pending \in [Process -> SUBSET File]
  /\ mixed \subseteq Path /\ skewed \subseteq File /\ dropped \subseteq File /\ late \subseteq Process

ScansAreTyped == scan \in [Process -> Scans] /\ \A p \in Process : ScanIsTyped(scan[p])

FlushesAreTyped ==
  /\ flush \in [Process -> [Slot -> Flushes]]
  /\ \A p \in Process, k \in Slot : FlushIsTyped(flush[p][k])

Typed == TablesAreTyped /\ ScansAreTyped /\ FlushesAreTyped

-----------------------------------------------------------------------------
(* Ownership                                                                *)

Busy(p) ==
  \/ scan[p].at \in {"lock"} \cup ScanPlace
  \/ scan[p].at = "finished" /\ (scan[p].by # "cli" \/ scan[p].complete)

Flushing(p) == \E k \in Slot : flush[p][k].at # "idle"

Unopened ==
  \A p \in Process :
    /\ opens < p => phase[p] = "new"
    /\ phase[p] = "new" => scan[p].at = "idle" /\ ~Flushing(p) /\ p \notin watching /\ owner # p
                          /\ p \notin late

(* Who may still touch the store owns the index.                            *)
ActorsOwn ==
  \A p \in Process :
    /\ StoreOpen(p) /\ (Busy(p) \/ Flushing(p)) => owner = p
    /\ p \in watching => owner = p /\ StoreOpen(p)
    /\ scan[p].at \in ScanPlace => writer = p

(* An indexer scans, or it follows changes.                                 *)
ScanOrFollow ==
  \A p \in Process : scan[p].at # "idle" /\ StoreOpen(p) => ~Flushing(p) /\ p \notin watching

(* What close() has waited for.                                             *)
ClosedIsJoined ==
  \A p \in Process :
    /\ scan[p].by = "cli" => phase[p] = "open"
    /\ phase[p] = "closed" /\ scan[p].by # "search" => scan[p].at \in {"idle", "upsert", "finished"}

Unfinished == \A p \in Process : scan[p].complete => scan[p].at = "finished"

Owned == Unopened /\ ActorsOwn /\ ScanOrFollow /\ ClosedIsJoined /\ ClosedLetsGo /\ Unfinished

OwnersInv == Typed /\ Owned

-----------------------------------------------------------------------------
(* The tables                                                               *)

(* What a thread knows between two transactions of its reindex.              *)
Midway(j) ==
  j.path \notin mixed =>
    /\ j.at = "upsert" => chunks[j.path] = {} /\ record[j.path] = NoRecord
    /\ j.at = "record" => chunks[j.path] = {j.text}

ReindexesAreAlone ==
  \A p \in Process : StoreOpen(p) =>
    /\ Midway(scan[p])
    /\ \A k \in Slot : Midway(flush[p][k])
    /\ \A k, i \in Slot :
         k # i /\ {flush[p][k].at, flush[p][i].at} \subseteq {"upsert", "record"}
           /\ flush[p][k].path = flush[p][i].path => flush[p][k].path \in mixed

(* What a scan took from the tables is there until it comes to the path.     *)
KnownIsRecorded ==
  \A p \in Process : StoreOpen(p) /\ scan[p].at \in ScanPlace =>
    /\ \A f \in scan[p].todo : record[f] = scan[p].known[f]
    /\ scan[p].at = "read" => record[scan[p].path] = scan[p].known[scan[p].path]

(* A text that was read is the file's, unless the mtime has moved.           *)
ScanTextIsCurrent ==
  \A p \in Process : LET j == scan[p] IN
    j.at \in {"delete", "upsert", "record"} /\ j.stamp[j.path] = disk[j.path].mtime /\ j.path \in File
      => j.text = disk[j.path].text

FlushTextIsCurrent ==
  \A p \in Process, k \in Slot : LET j == flush[p][k] IN
    j.at \in {"stat", "delete", "upsert", "record"} /\ j.readAt = disk[j.path].mtime
      => j.text = disk[j.path].text

Indexed ==
  /\ RecordedIsIndexed /\ ReindexesAreAlone /\ KnownIsRecorded
  /\ SkippingIsSafe /\ ScanTextIsCurrent /\ FlushTextIsCurrent

IndexInv == OwnersInv /\ Indexed

-----------------------------------------------------------------------------
(* Catching up                                                              *)

Catching(p) ==
  StoreOpen(p) /\ (scan[p].at \in ScanPlace \/ (scan[p].at = "finished" /\ scan[p].complete))

(* What a scan has seen, and what the path it works on is.                   *)
SeenIsPresent(j) ==
  \A f \in Path \ j.edited :
    /\ f \notin j.todo /\ Readable(f) => f \in j.seen
    /\ f \in j.todo \cap j.seen => Present(f)

PathIsCurrent(j) ==
  j.at \in PathPlace /\ j.path \notin j.edited =>
    Present(j.path) /\ (j.at # "read" => j.text = disk[j.path].text)

(* The paths a scan has behind it.                                          *)
Behind(j) == {f \in Path \ j.todo : ~(j.at \in PathPlace /\ f = j.path)}

BehindIsDone(j) ==
  \A f \in Behind(j) \ (j.edited \cup mixed \cup skewed) :
    /\ Readable(f) => chunks[f] = {disk[f].text}
    /\ ~Present(f) /\ f \in j.seen => chunks[f] = {}

(* A complete scan has nothing left to do or to delete.                      *)
IsThrough(j) == j.at = "finished" /\ j.complete => j.todo = {} /\ Stale(j) = {}

CaughtUpAt(p) ==
  /\ IsThrough(scan[p])
  /\ Catching(p) => SeenIsPresent(scan[p]) /\ PathIsCurrent(scan[p]) /\ BehindIsDone(scan[p])

CaughtUp == \A p \in Process : CaughtUpAt(p)

CatchUpInv == IndexInv /\ CaughtUp

-----------------------------------------------------------------------------
(* Types                                                                    *)

LEMMA ThreadsHaveTypes ==
  ASSUME Typed
  PROVE  TypeOK
PROOF
  <1> USE DEF Typed
  <1>1. ASSUME NEW p \in Process
        PROVE  /\ scan[p].at \in ScanAt
               /\ scan[p].at \in {"delete", "upsert", "record"} => scan[p].text \in Text
        BY <1>1 DEF ScansAreTyped, ScanIsTyped, Scans
  <1>2. ASSUME NEW p \in Process, NEW k \in Slot
        PROVE  /\ flush[p][k].at \in FlushAt
               /\ flush[p][k].at \in {"stat", "delete", "upsert", "record"}
                    => flush[p][k].text \in Text /\ flush[p][k].path \in File
        <2>1. flush[p][k] \in Flushes /\ FlushIsTyped(flush[p][k])
              BY <1>2 DEF FlushesAreTyped
        <2> QED BY <2>1 DEF FlushIsTyped, Flushes, Writing
  <1> QED BY <1>1, <1>2 DEF TypeOK, TablesAreTyped, ScanAt, FlushAt

LEMMA NoScanIsTyped ==
  ASSUME edits \in Nat
  PROVE  /\ NoScan \in Scans /\ ScanIsTyped(NoScan)
         /\ NoScan.at = "idle" /\ NoScan.by = "start" /\ ~NoScan.complete
PROOF BY DEF NoScan, Scans, ScanIsTyped, ScanAt, PathPlace

LEMMA NoFlushIsTyped ==
  ASSUME edits \in Nat
  PROVE  NoFlush \in Flushes /\ FlushIsTyped(NoFlush) /\ NoFlush.at = "idle"
PROOF BY DEF NoFlush, Flushes, FlushIsTyped, FlushAt, Writing

LEMMA EditsAreNatural ==
  ASSUME Typed
  PROVE  edits \in Nat
PROOF BY IndexAssumption DEF Typed, TablesAreTyped

(* A step of the thread that claims and scans.                              *)
LEMMA ScanStepIsTyped ==
  ASSUME ScansAreTyped, NEW p \in Process, NEW new \in Scans, ScanIsTyped(new),
         scan' = [scan EXCEPT ![p] = new], edits' = edits
  PROVE  /\ ScansAreTyped'
         /\ scan'[p] = new /\ \A q \in Process \ {p} : scan'[q] = scan[q]
PROOF
  <1>1. scan'[p] = new /\ \A q \in Process \ {p} : scan'[q] = scan[q]
        BY DEF ScansAreTyped
  <1>2. scan' \in [Process -> Scans]
        BY DEF ScansAreTyped
  <1>3. ASSUME NEW q \in Process
        PROVE  ScanIsTyped(scan[q])'
        <2>1. CASE q = p
              BY <1>1, <2>1 DEF ScanIsTyped
        <2>2. CASE q # p
              BY <1>1, <2>2 DEF ScansAreTyped, ScanIsTyped
        <2> QED BY <2>1, <2>2
  <1> QED BY <1>1, <1>2, <1>3 DEF ScansAreTyped

(* A step of a flush.                                                       *)
LEMMA FlushStepIsTyped ==
  ASSUME FlushesAreTyped, NEW p \in Process, NEW k \in Slot, NEW new \in Flushes, FlushIsTyped(new),
         flush' = [flush EXCEPT ![p][k] = new], edits' = edits
  PROVE  /\ FlushesAreTyped'
         /\ flush'[p][k] = new
         /\ \A q \in Process, i \in Slot : q # p \/ i # k => flush'[q][i] = flush[q][i]
PROOF
  <1>1. /\ flush'[p][k] = new
        /\ \A q \in Process, i \in Slot : q # p \/ i # k => flush'[q][i] = flush[q][i]
        BY DEF FlushesAreTyped
  <1>2. flush' \in [Process -> [Slot -> Flushes]]
        BY DEF FlushesAreTyped
  <1>3. ASSUME NEW q \in Process, NEW i \in Slot
        PROVE  FlushIsTyped(flush[q][i])'
        <2>1. CASE q = p /\ i = k
              BY <1>1, <2>1 DEF FlushIsTyped
        <2>2. CASE q # p \/ i # k
              BY <1>1, <2>2 DEF FlushesAreTyped, FlushIsTyped
        <2> QED BY <2>1, <2>2
  <1> QED BY <1>1, <1>2, <1>3 DEF FlushesAreTyped

LEMMA ThreadsKeepTypes ==
  ASSUME Typed, scan' = scan, flush' = flush, edits' = edits
  PROVE  ScansAreTyped' /\ FlushesAreTyped'
PROOF BY DEF Typed, ScansAreTyped, FlushesAreTyped, ScanIsTyped, FlushIsTyped

LEMMA ScansKeepTypes ==
  ASSUME Typed, scan' = scan, edits' = edits
  PROVE  ScansAreTyped'
PROOF BY DEF Typed, ScansAreTyped, ScanIsTyped

LEMMA FlushesKeepTypes ==
  ASSUME Typed, flush' = flush, edits' = edits
  PROVE  FlushesAreTyped'
PROOF BY DEF Typed, FlushesAreTyped, FlushIsTyped

LEMMA BegunScanIsTyped ==
  ASSUME edits \in Nat, NEW by \in {"start", "search", "cli"}
  PROVE  LET new == [NoScan EXCEPT !.at = "begin", !.by = by]
         IN  new \in Scans /\ ScanIsTyped(new) /\ new.at = "begin" /\ new.by = by /\ ~new.complete
PROOF
  <1> DEFINE new == [NoScan EXCEPT !.at = "begin", !.by = by]
  <1>1. NoScan \in Scans /\ ScanIsTyped(NoScan) /\ ~NoScan.complete
        BY NoScanIsTyped
  <1>2. new \in Scans /\ new.at = "begin" /\ new.by = by /\ new.stamp = NoScan.stamp /\ ~new.complete
        BY <1>1 DEF Scans, ScanAt
  <1>3. ScanIsTyped(new)
        BY <1>1, <1>2 DEF ScanIsTyped, PathPlace
  <1> QED BY <1>2, <1>3

-----------------------------------------------------------------------------
(* Ownership, step by step                                                  *)

LEMMA OpenKeepsOwners ==
  ASSUME OwnersInv, NEW p \in Process, NEW by \in {"start", "cli"}, Open(p, by)
  PROVE  OwnersInv'
PROOF
  <1> DEFINE new == [NoScan EXCEPT !.at = "begin", !.by = by]
  <1>1. new \in Scans /\ ScanIsTyped(new) /\ new.at = "begin" /\ new.by = by /\ ~new.complete
        BY EditsAreNatural, BegunScanIsTyped DEF OwnersInv
  <1>2. /\ scan' = [scan EXCEPT ![p] = new] /\ phase' = [phase EXCEPT ![p] = "open"]
        /\ p = opens + 1 /\ opens' = p
        /\ UNCHANGED <<tree, disk, edits, crashes, chunks, record, owner, writer, watching, pending, flush,
                       mixed, skewed, dropped, late>>
        BY DEF Open, index, ghosts
  <1> HIDE DEF new
  <1>3. ScansAreTyped' /\ scan'[p] = new /\ \A q \in Process \ {p} : scan'[q] = scan[q]
        BY <1>1, <1>2, ScanStepIsTyped DEF OwnersInv, Typed
  <1>4. FlushesAreTyped'
        BY <1>2, FlushesKeepTypes DEF OwnersInv
  <1>5. TablesAreTyped'
        BY <1>2 DEF OwnersInv, Typed, TablesAreTyped, Process
  <1>6. phase[p] = "new" /\ phase'[p] = "open" /\ \A q \in Process \ {p} : phase'[q] = phase[q]
        BY <1>2, IndexAssumption DEF OwnersInv, Typed, TablesAreTyped, Owned, Unopened, Process
  <1>7. Unopened'
        <2>1. ASSUME NEW q \in Process, opens' < q
              PROVE  opens < q /\ q # p
              BY <1>2, <2>1, IndexAssumption DEF OwnersInv, Typed, TablesAreTyped, Process
        <2>2. ASSUME NEW q \in Process, opens' < q
              PROVE  phase'[q] = "new"
              BY <1>6, <2>1, <2>2 DEF OwnersInv, Owned, Unopened
        <2> QED BY <1>2, <1>3, <1>6, <2>2 DEF OwnersInv, Owned, Unopened, Flushing
  <1>8. ActorsOwn'
        BY <1>1, <1>2, <1>3, <1>6 DEF OwnersInv, Owned, Unopened, ActorsOwn, Flushing, Busy, StoreOpen, ScanPlace
  <1>9. ScanOrFollow' /\ ClosedIsJoined' /\ ClosedLetsGo'
        BY <1>1, <1>2, <1>3, <1>6
        DEF OwnersInv, Owned, Unopened, ScanOrFollow, ClosedIsJoined, ClosedLetsGo, Flushing, StoreOpen
  <1>10. Unfinished'
         BY <1>1, <1>2, <1>3 DEF OwnersInv, Owned, Unfinished
  <1> QED BY <1>3, <1>4, <1>5, <1>7, <1>8, <1>9, <1>10 DEF OwnersInv, Typed, Owned

LEMMA SearchKeepsOwners ==
  ASSUME OwnersInv, NEW p \in Process, Search(p)
  PROVE  OwnersInv'
PROOF
  <1> DEFINE new == [NoScan EXCEPT !.at = "begin", !.by = "search"]
  <1>1. new \in Scans /\ ScanIsTyped(new) /\ new.at = "begin" /\ new.by = "search" /\ ~new.complete
        BY EditsAreNatural, BegunScanIsTyped DEF OwnersInv
  <1>2. /\ scan' = [scan EXCEPT ![p] = new] /\ phase[p] = "open" /\ owner # p
        /\ UNCHANGED <<tree, disk, edits, crashes, opens, chunks, record, owner, writer, phase, watching, pending,
                       flush, mixed, skewed, dropped, late>>
        BY DEF Search, index, ghosts, world
  <1> HIDE DEF new
  <1>3. ScansAreTyped' /\ scan'[p] = new /\ \A q \in Process \ {p} : scan'[q] = scan[q]
        BY <1>1, <1>2, ScanStepIsTyped DEF OwnersInv, Typed
  <1>4. FlushesAreTyped'
        BY <1>2, FlushesKeepTypes DEF OwnersInv
  <1>5. TablesAreTyped'
        BY <1>2 DEF OwnersInv, Typed, TablesAreTyped
  <1>6. ~Flushing(p) /\ p \notin watching
        BY <1>2 DEF OwnersInv, Owned, ActorsOwn, StoreOpen
  <1>7. Unopened' /\ ActorsOwn'
        BY <1>1, <1>2, <1>3, <1>6 DEF OwnersInv, Owned, Unopened, ActorsOwn, Flushing, Busy, StoreOpen, ScanPlace
  <1>8. ScanOrFollow' /\ ClosedIsJoined' /\ ClosedLetsGo'
        BY <1>1, <1>2, <1>3, <1>6
        DEF OwnersInv, Owned, ScanOrFollow, ClosedIsJoined, ClosedLetsGo, Flushing, StoreOpen
  <1>9. Unfinished'
        BY <1>1, <1>2, <1>3 DEF OwnersInv, Owned, Unfinished
  <1> QED BY <1>3, <1>4, <1>5, <1>7, <1>8, <1>9 DEF OwnersInv, Typed, Owned

LEMMA BeginKeepsOwners ==
  ASSUME OwnersInv, NEW p \in Process, Begin(p)
  PROVE  OwnersInv'
PROOF
  <1>1. PICK new \in Scans :
          /\ ScanIsTyped(new) /\ scan' = [scan EXCEPT ![p] = new]
          /\ \/ new.at = "idle" /\ new.by = "start" /\ ~new.complete
             \/ /\ new.at = "claim" /\ new.by = scan[p].by /\ phase[p] = "open"
                /\ new.complete => scan[p].complete
        <2>1. CASE Closing(p)
              BY <2>1, EditsAreNatural, NoScanIsTyped DEF OwnersInv, Begin
        <2>2. CASE ~Closing(p)
              <3> DEFINE new == [scan[p] EXCEPT !.at = "claim"]
              <3>1. scan[p] \in Scans /\ ScanIsTyped(scan[p])
                    BY DEF OwnersInv, Typed, ScansAreTyped
              <3>2. /\ new \in Scans /\ new.at = "claim" /\ new.by = scan[p].by /\ new.stamp = scan[p].stamp
                       /\ new.complete = scan[p].complete
                    BY <3>1 DEF Scans, ScanAt
              <3>3. ScanIsTyped(new)
                    BY <3>1, <3>2 DEF ScanIsTyped, PathPlace
              <3>4. scan' = [scan EXCEPT ![p] = new]
                    BY <2>2 DEF Begin
              <3> QED BY <2>2, <3>2, <3>3, <3>4 DEF Closing
        <2> QED BY <2>1, <2>2
  <1>2. /\ scan[p].at = "begin"
        /\ UNCHANGED <<tree, disk, edits, crashes, opens, chunks, record, owner, writer, phase, watching, pending,
                       flush, mixed, skewed, dropped, late>>
        BY DEF Begin, index, ghosts, world
  <1>3. ScansAreTyped' /\ scan'[p] = new /\ \A q \in Process \ {p} : scan'[q] = scan[q]
        BY <1>1, <1>2, ScanStepIsTyped DEF OwnersInv, Typed
  <1>4. FlushesAreTyped'
        BY <1>2, FlushesKeepTypes DEF OwnersInv
  <1>5. TablesAreTyped'
        BY <1>2 DEF OwnersInv, Typed, TablesAreTyped
  <1>7. Unopened' /\ ActorsOwn'
        BY <1>1, <1>2, <1>3 DEF OwnersInv, Owned, Unopened, ActorsOwn, Flushing, Busy, StoreOpen, ScanPlace
  <1>8. ScanOrFollow' /\ ClosedIsJoined' /\ ClosedLetsGo'
        BY <1>1, <1>2, <1>3
        DEF OwnersInv, Owned, ScanOrFollow, ClosedIsJoined, ClosedLetsGo, Flushing, StoreOpen
  <1>9. Unfinished'
        BY <1>1, <1>2, <1>3 DEF OwnersInv, Owned, Unfinished
  <1> QED BY <1>3, <1>4, <1>5, <1>7, <1>8, <1>9 DEF OwnersInv, Typed, Owned

(* The operations of the store, by a thread that leaves the rest alone.      *)
LEMMA OperationsAreTyped ==
  ASSUME TablesAreTyped, NEW f \in Path, NEW t \in Text, NEW m \in 0..edits, NEW skew \in BOOLEAN,
         skew => f \in File,
         DeleteForPath(f) \/ UpsertChunks(f, t) \/ SetFileHash(f, t, m, skew),
         UNCHANGED <<world, owner, writer, phase, watching, pending>>
  PROVE  TablesAreTyped' /\ late' = late
PROOF
  <1>1. chunks' \in [Path -> SUBSET Text] /\ mixed' \subseteq Path /\ dropped' = dropped /\ late' = late
        BY DEF TablesAreTyped, DeleteForPath, UpsertChunks, SetFileHash, ghosts
  <1>2. record' \in [Path -> [hash : Text, mtime : 0..edits] \cup {NoRecord}]
        BY DEF TablesAreTyped, DeleteForPath, UpsertChunks, SetFileHash
  <1>3. skewed' \subseteq File
        BY DEF TablesAreTyped, DeleteForPath, UpsertChunks, SetFileHash, ghosts
  <1> QED BY <1>1, <1>2, <1>3 DEF TablesAreTyped, world

(* A scan goes on, under write.lock.                                        *)
LEMMA ScanMovesKeepOwners ==
  ASSUME OwnersInv, NEW p \in Process, NEW new \in Scans, ScanIsTyped(new),
         scan' = [scan EXCEPT ![p] = new], new.by = scan[p].by,
         scan[p].at \in ScanPlace, new.at \in ScanPlace, scan[p].at = "upsert" => StoreOpen(p),
         new.complete => scan[p].complete,
         UNCHANGED <<edits, opens, owner, writer, phase, watching, flush, late>>, TablesAreTyped'
  PROVE  OwnersInv'
PROOF
  <1>1. ScansAreTyped' /\ scan'[p] = new /\ \A q \in Process \ {p} : scan'[q] = scan[q]
        BY ScanStepIsTyped DEF OwnersInv, Typed
  <1>2. FlushesAreTyped'
        BY FlushesKeepTypes DEF OwnersInv
  <1>3. Unopened' /\ ActorsOwn'
        BY <1>1 DEF OwnersInv, Owned, Unopened, ActorsOwn, Flushing, Busy, StoreOpen, ScanPlace
  <1>4. ScanOrFollow' /\ ClosedIsJoined' /\ ClosedLetsGo'
        BY <1>1 DEF OwnersInv, Owned, ScanOrFollow, ClosedIsJoined, ClosedLetsGo, Flushing, StoreOpen, ScanPlace
  <1>5. Unfinished'
        BY <1>1 DEF OwnersInv, Owned, Unfinished, ScanPlace
  <1> QED BY <1>1, <1>2, <1>3, <1>4, <1>5 DEF OwnersInv, Typed, Owned

LEMMA ClaimKeepsOwners ==
  ASSUME OwnersInv, NEW p \in Process, Claim(p)
  PROVE  OwnersInv'
PROOF
  <1>1. scan[p] \in Scans /\ ScanIsTyped(scan[p])
        BY DEF OwnersInv, Typed, ScansAreTyped
  <1>2. PICK new \in Scans :
          /\ ScanIsTyped(new) /\ scan' = [scan EXCEPT ![p] = new]
          /\ \/ owner = Nobody /\ owner' = p /\ new.at = "lock" /\ new.by = scan[p].by
                /\ new.complete = scan[p].complete
                /\ late' = IF scan[p].by = "search" /\ phase[p] = "closed" THEN late \cup {p} ELSE late
             \/ /\ new.at = "finished" /\ new.by = "cli" /\ scan[p].by = "cli" /\ new.complete = scan[p].complete
                /\ owner' = owner /\ late' = late
             \/ new.at = "idle" /\ new.by = "start" /\ ~new.complete /\ owner' = owner /\ late' = late
        <2>1. CASE owner = Nobody
              <3> DEFINE new == [scan[p] EXCEPT !.at = "lock"]
              <3>1. new \in Scans /\ new.at = "lock" /\ new.by = scan[p].by /\ new.stamp = scan[p].stamp
                    /\ new.complete = scan[p].complete
                    BY <1>1 DEF Scans, ScanAt
              <3>2. ScanIsTyped(new)
                    BY <1>1, <3>1 DEF ScanIsTyped, PathPlace
              <3>3. scan' = [scan EXCEPT ![p] = new] /\ owner' = p
                    /\ late' = IF scan[p].by = "search" /\ phase[p] = "closed" THEN late \cup {p} ELSE late
                    BY <2>1 DEF Claim
              <3> QED BY <2>1, <3>1, <3>2, <3>3
        <2>2. CASE owner # Nobody /\ scan[p].by = "cli"
              <3> DEFINE new == [scan[p] EXCEPT !.at = "finished"]
              <3>1. new \in Scans /\ new.at = "finished" /\ new.by = scan[p].by /\ new.stamp = scan[p].stamp
                    /\ new.complete = scan[p].complete
                    BY <1>1 DEF Scans, ScanAt
              <3>2. ScanIsTyped(new)
                    BY <1>1, <3>1 DEF ScanIsTyped, PathPlace
              <3>3. scan' = [scan EXCEPT ![p] = new] /\ owner' = owner /\ late' = late
                    BY <2>2 DEF Claim
              <3> QED BY <2>2, <3>1, <3>2, <3>3
        <2>3. CASE owner # Nobody /\ scan[p].by # "cli"
              BY <2>3, EditsAreNatural, NoScanIsTyped DEF OwnersInv, Claim
        <2> QED BY <2>1, <2>2, <2>3
  <1>3. /\ scan[p].at = "claim"
        /\ UNCHANGED <<tree, disk, edits, crashes, opens, chunks, record, writer, phase, watching, pending,
                       flush, mixed, skewed, dropped>>
        BY DEF Claim, index, world
  <1>4. ScansAreTyped' /\ scan'[p] = new /\ \A q \in Process \ {p} : scan'[q] = scan[q]
        BY <1>2, <1>3, ScanStepIsTyped DEF OwnersInv, Typed
  <1>5. FlushesAreTyped'
        BY <1>3, FlushesKeepTypes DEF OwnersInv
  <1>6. TablesAreTyped'
        BY <1>2, <1>3 DEF OwnersInv, Typed, TablesAreTyped
  <1>7. scan[p].at = "claim" => ~scan[p].complete
        BY DEF OwnersInv, Owned, Unfinished
  <1>8. Nobody \notin Process
        BY IndexAssumption DEF Process
  <1>9. Unopened'
        BY <1>2, <1>3, <1>4, <1>8 DEF OwnersInv, Owned, Unopened, Flushing
  <1>10. ActorsOwn'
         BY <1>2, <1>3, <1>4, <1>7, <1>8 DEF OwnersInv, Owned, ActorsOwn, Flushing, Busy, StoreOpen, ScanPlace
  <1>11. ScanOrFollow' /\ ClosedIsJoined' /\ ClosedLetsGo'
         BY <1>2, <1>3, <1>4, <1>8
         DEF OwnersInv, Owned, ScanOrFollow, ClosedIsJoined, ClosedLetsGo, Flushing, StoreOpen
  <1>12. Unfinished'
         BY <1>2, <1>3, <1>4, <1>7 DEF OwnersInv, Owned, Unfinished
  <1> QED BY <1>4, <1>5, <1>6, <1>9, <1>10, <1>11, <1>12 DEF OwnersInv, Typed, Owned

LEMMA FailuresKeepOwners ==
  ASSUME OwnersInv, NEW p \in Process, ScanFails(p), scan[p].at \in {"lock"} \cup ScanPlace
  PROVE  OwnersInv'
PROOF
  <1> DEFINE new == [scan[p] EXCEPT !.at = "finished", !.complete = FALSE]
  <1>1. scan[p] \in Scans /\ ScanIsTyped(scan[p])
        BY DEF OwnersInv, Typed, ScansAreTyped
  <1>2. /\ new \in Scans /\ new.at = "finished" /\ new.by = scan[p].by /\ new.stamp = scan[p].stamp
        /\ ~new.complete
        BY <1>1 DEF Scans, ScanAt
  <1>3. ScanIsTyped(new)
        BY <1>1, <1>2 DEF ScanIsTyped, PathPlace
  <1>4. /\ scan' = [scan EXCEPT ![p] = new] /\ writer' = IF writer = p THEN Nobody ELSE writer
        /\ UNCHANGED <<tree, disk, edits, crashes, opens, chunks, record, owner, phase, watching, pending,
                       flush, mixed, skewed, dropped, late>>
        BY DEF ScanFails, index, world, ghosts
  <1> HIDE DEF new
  <1>5. ScansAreTyped' /\ scan'[p] = new /\ \A q \in Process \ {p} : scan'[q] = scan[q]
        BY <1>2, <1>3, <1>4, ScanStepIsTyped DEF OwnersInv, Typed
  <1>6. FlushesAreTyped'
        BY <1>4, FlushesKeepTypes DEF OwnersInv
  <1>7. TablesAreTyped'
        BY <1>4 DEF OwnersInv, Typed, TablesAreTyped
  <1>8. Unopened' /\ ActorsOwn'
        BY <1>2, <1>4, <1>5 DEF OwnersInv, Owned, Unopened, ActorsOwn, Flushing, Busy, StoreOpen, ScanPlace
  <1>9. ScanOrFollow' /\ ClosedIsJoined' /\ ClosedLetsGo' /\ Unfinished'
        BY <1>2, <1>4, <1>5
        DEF OwnersInv, Owned, ScanOrFollow, ClosedIsJoined, ClosedLetsGo, Unfinished, Flushing, StoreOpen, ScanPlace
  <1> QED BY <1>5, <1>6, <1>7, <1>8, <1>9 DEF OwnersInv, Typed, Owned

LEMMA StartScanEffects ==
  ASSUME OwnersInv, NEW p \in Process, NEW rebuild \in BOOLEAN, StartScan(p, rebuild)
  PROVE  \E new \in Scans :
           /\ ScanIsTyped(new) /\ scan' = [scan EXCEPT ![p] = new]
           /\ new.at = "next" /\ new.by = scan[p].by /\ ~new.complete
           /\ new.edited = {} /\ new.known = record'
           /\ new.todo = (IF new.by = "cli" THEN Dirty(record') \cup Skill ELSE Path)
           /\ new.seen = (IF new.by = "cli" THEN {f \in File : Present(f)} ELSE {})
PROOF
  <1> DEFINE known == IF rebuild THEN [f \in Path |-> NoRecord] ELSE record
             stamp == [f \in Path |-> IF f \in File THEN disk[f].mtime ELSE 0]
             todo == IF scan[p].by = "cli" THEN Dirty(known) \cup Skill ELSE Path
             seen == IF scan[p].by = "cli" THEN {f \in File : Present(f)} ELSE {}
             new == [scan[p] EXCEPT !.at = "next", !.known = known, !.edited = {}, !.stamp = stamp,
                                    !.todo = todo, !.seen = seen]
  <1>1. scan[p] \in Scans /\ ~scan[p].complete /\ edits \in Nat
        BY EditsAreNatural DEF OwnersInv, Typed, ScansAreTyped, Owned, Unfinished, StartScan
  <1>2. known \in [Path -> Record \cup {NoRecord}] /\ known = record'
        <2>1. record \in [Path -> Record \cup {NoRecord}]
              BY <1>1 DEF OwnersInv, Typed, TablesAreTyped, Record
        <2>2. CASE rebuild
              BY <2>2 DEF StartScan, Clear
        <2>3. CASE ~rebuild
              BY <2>1, <2>3 DEF StartScan, index
        <2> QED BY <2>2, <2>3
  <1>3. stamp \in [Path -> Nat] /\ \A f \in Path : stamp[f] <= edits
        BY <1>1 DEF OwnersInv, Typed, TablesAreTyped
  <1>4. todo \in SUBSET Path /\ seen \in SUBSET Path
        BY DEF Dirty, Path
  <1>5. scan' = [scan EXCEPT ![p] = new]
        <2> HIDE DEF stamp, todo, seen, known
        <2>1. scan' = [scan EXCEPT ![p].at = "next", ![p].known = known, ![p].edited = {}, ![p].stamp = stamp,
                                   ![p].todo = todo, ![p].seen = seen]
              BY DEF StartScan, stamp, todo, seen, known
        <2> QED BY <2>1 DEF OwnersInv, Typed, ScansAreTyped
  <1> HIDE DEF known, stamp, todo, seen
  <1>6. /\ new \in Scans /\ new.at = "next" /\ new.by = scan[p].by /\ ~new.complete
        /\ new.edited = {} /\ new.known = known /\ new.todo = todo /\ new.seen = seen /\ new.stamp = stamp
        BY <1>1, <1>2, <1>3, <1>4 DEF Scans, ScanAt
  <1> HIDE DEF new
  <1>7. ScanIsTyped(new)
        BY <1>3, <1>6 DEF ScanIsTyped, PathPlace
  <1> QED BY <1>2, <1>5, <1>6, <1>7 DEF todo, seen

LEMMA StartScanKeepsOwners ==
  ASSUME OwnersInv, NEW p \in Process, NEW rebuild \in BOOLEAN, StartScan(p, rebuild)
  PROVE  OwnersInv'
PROOF
  <1>1. PICK new \in Scans :
          /\ ScanIsTyped(new) /\ scan' = [scan EXCEPT ![p] = new]
          /\ new.at = "next" /\ new.by = scan[p].by /\ ~new.complete
        BY StartScanEffects
  <1>2. /\ scan[p].at = "lock" /\ StoreOpen(p) /\ writer = Nobody /\ writer' = p
        /\ UNCHANGED <<tree, disk, edits, crashes, opens, owner, phase, watching, pending,
                       flush, mixed, skewed, dropped, late>>
        BY DEF StartScan, world, ghosts
  <1>3. ScansAreTyped' /\ scan'[p] = new /\ \A q \in Process \ {p} : scan'[q] = scan[q]
        BY <1>1, <1>2, ScanStepIsTyped DEF OwnersInv, Typed
  <1>4. FlushesAreTyped'
        BY <1>2, FlushesKeepTypes DEF OwnersInv
  <1>5. chunks' \in [Path -> SUBSET Text] /\ record' \in [Path -> [hash : Text, mtime : 0..edits] \cup {NoRecord}]
        BY DEF StartScan, Clear, index, OwnersInv, Typed, TablesAreTyped
  <1>6. TablesAreTyped'
        BY <1>2, <1>5 DEF OwnersInv, Typed, TablesAreTyped
  <1>7. Nobody \notin Process
        BY IndexAssumption DEF Process
  <1>8. Unopened' /\ ActorsOwn'
        BY <1>1, <1>2, <1>3, <1>7 DEF OwnersInv, Owned, Unopened, ActorsOwn, Flushing, Busy, StoreOpen, ScanPlace
  <1>9. ScanOrFollow' /\ ClosedIsJoined' /\ ClosedLetsGo' /\ Unfinished'
        BY <1>1, <1>2, <1>3
        DEF OwnersInv, Owned, ScanOrFollow, ClosedIsJoined, ClosedLetsGo, Unfinished, Flushing, StoreOpen
  <1> QED BY <1>3, <1>4, <1>6, <1>8, <1>9 DEF OwnersInv, Typed, Owned

(* What no step of a scan under way changes.                                *)
SameScan(new, j) ==
  new.by = j.by /\ new.known = j.known /\ new.edited = j.edited /\ (new.complete => j.complete)

LEMMA VisitEffects ==
  ASSUME OwnersInv, NEW p \in Process, Visit(p)
  PROVE  \E new \in Scans, f \in scan[p].todo :
           /\ ScanIsTyped(new) /\ scan' = [scan EXCEPT ![p] = new] /\ SameScan(new, scan[p])
           /\ new.todo = scan[p].todo \ {f}
           /\ new.seen = (IF Present(f) THEN scan[p].seen \cup {f} ELSE scan[p].seen)
           /\ \/ (~Present(f) \/ Unmoved(scan[p], f)) /\ new.at = "next"
              \/ Present(f) /\ ~Unmoved(scan[p], f) /\ new.at = "read" /\ new.path = f
PROOF
  <1>1. PICK f \in Upcoming(scan[p]) : scan' = [scan EXCEPT ![p] = Visited(scan[p], f)]
        BY DEF Visit
  <1> DEFINE j == scan[p]
  <1>2. j \in Scans /\ ScanIsTyped(j) /\ j.at = "next"
        BY DEF OwnersInv, Typed, ScansAreTyped, Visit
  <1>3. f \in j.todo /\ f \in Path
        BY <1>2 DEF Upcoming, Scans
  <1> HIDE DEF j
  <1>4. CASE ~Present(f) \/ Unmoved(j, f)
        <2> DEFINE new == [j EXCEPT !.todo = @ \ {f}, !.seen = IF Present(f) THEN @ \cup {f} ELSE @]
        <2>1. Visited(j, f) = new
              BY <1>4 DEF Visited
        <2>2. /\ new \in Scans /\ new.at = j.at /\ new.by = j.by /\ new.known = j.known /\ new.edited = j.edited
              /\ new.complete = j.complete /\ new.todo = j.todo \ {f} /\ new.stamp = j.stamp
              /\ new.seen = (IF Present(f) THEN j.seen \cup {f} ELSE j.seen)
              BY <1>2, <1>3 DEF Scans
        <2> HIDE DEF new
        <2>3. ScanIsTyped(new)
              BY <1>2, <2>2 DEF ScanIsTyped, PathPlace
        <2> QED BY <1>1, <1>2, <1>3, <1>4, <2>1, <2>2, <2>3 DEF j, SameScan
  <1>5. CASE Present(f) /\ ~Unmoved(j, f)
        <2> DEFINE new == [j EXCEPT !.todo = @ \ {f}, !.seen = @ \cup {f}, !.path = f, !.at = "read",
                             !.stamp[f] = IF f \in File /\ j.by # "cli" THEN disk[f].mtime ELSE @]
        <2>1. Visited(j, f) = new
              BY <1>5 DEF Visited
        <2>2. disk[f].mtime \in Nat /\ disk[f].mtime <= edits
              BY <1>3, EditsAreNatural DEF OwnersInv, Typed, TablesAreTyped
        <2>3. /\ new \in Scans /\ new.at = "read" /\ new.by = j.by /\ new.known = j.known /\ new.edited = j.edited
              /\ new.complete = j.complete /\ new.todo = j.todo \ {f} /\ new.path = f
              /\ new.stamp = [j.stamp EXCEPT ![f] = IF f \in File /\ j.by # "cli" THEN disk[f].mtime ELSE @]
              /\ new.seen = (IF Present(f) THEN j.seen \cup {f} ELSE j.seen)
              BY <1>2, <1>3, <1>5, <2>2 DEF Scans, ScanAt
        <2> HIDE DEF new
        <2>4. \A g \in Path : new.stamp[g] <= edits
              BY <1>2, <1>3, <2>2, <2>3 DEF Scans, ScanIsTyped
        <2>5. ScanIsTyped(new)
              BY <1>3, <2>3, <2>4 DEF ScanIsTyped, PathPlace
        <2> QED BY <1>1, <1>3, <1>5, <2>1, <2>3, <2>5 DEF j, SameScan
  <1> QED BY <1>4, <1>5

LEMMA ReadEffects ==
  ASSUME OwnersInv, NEW p \in Process, Read(p)
  PROVE  LET j == scan[p]
             t == disk[j.path].text
         IN  \E new \in Scans :
               /\ ScanIsTyped(new) /\ scan' = [scan EXCEPT ![p] = new] /\ SameScan(new, j)
               /\ new.todo = j.todo /\ new.seen = j.seen
               /\ \/ t \notin Text /\ new.at = "next"
                  \/ t \in Text /\ new.at = "delete" /\ new.path = j.path /\ new.text = t
                  \/ /\ t \in Text /\ j.known[j.path] # NoRecord /\ j.known[j.path].hash = t
                     /\ new.path = j.path /\ new.text = t
                     /\ new.at = IF j.path \in File THEN "record" ELSE "next"
PROOF
  <1> DEFINE j == scan[p]
             t == disk[j.path].text
  <1>1. j \in Scans /\ ScanIsTyped(j) /\ j.at = "read" /\ scan' = [scan EXCEPT ![p] = Compared(j, t)]
        BY DEF OwnersInv, Typed, ScansAreTyped, Read
  <1>2. j.path \in Path /\ j.path \notin j.todo
        BY <1>1 DEF ScanIsTyped, PathPlace
  <1> HIDE DEF j, t
  <1>3. CASE t \notin Text
        <2> DEFINE new == [j EXCEPT !.at = "next", !.path = Nobody]
        <2>1. Compared(j, t) = new
              BY <1>3 DEF Compared
        <2>2. /\ new \in Scans /\ new.at = "next" /\ new.by = j.by /\ new.known = j.known /\ new.edited = j.edited
              /\ new.complete = j.complete /\ new.todo = j.todo /\ new.stamp = j.stamp /\ new.seen = j.seen
              BY <1>1 DEF Scans, ScanAt
        <2> HIDE DEF new
        <2>3. ScanIsTyped(new)
              BY <1>1, <2>2 DEF ScanIsTyped, PathPlace
        <2> QED BY <1>1, <1>3, <2>1, <2>2, <2>3 DEF j, t, SameScan
  <1>4. ASSUME t \in Text, NEW a \in {"delete", "record", "next"}, Compared(j, t) = [j EXCEPT !.text = t, !.at = a],
               a = "delete" \/ ( j.known[j.path] # NoRecord /\ j.known[j.path].hash = t
                                   /\ a = IF j.path \in File THEN "record" ELSE "next")
        PROVE  \E new \in Scans :
                 /\ ScanIsTyped(new) /\ scan' = [scan EXCEPT ![p] = new] /\ SameScan(new, j)
                 /\ new.todo = j.todo /\ new.seen = j.seen /\ new.path = j.path /\ new.text = t /\ new.at = a
        <2> DEFINE new == [j EXCEPT !.text = t, !.at = a]
        <2>2. /\ new \in Scans /\ new.at = a /\ new.by = j.by /\ new.known = j.known /\ new.edited = j.edited
              /\ new.complete = j.complete /\ new.todo = j.todo /\ new.stamp = j.stamp /\ new.seen = j.seen
              /\ new.path = j.path /\ new.text = t
              BY <1>1, <1>4 DEF Scans, ScanAt
        <2>4. scan' = [scan EXCEPT ![p] = new]
              BY <1>1, <1>4
        <2> HIDE DEF new
        <2>3. ScanIsTyped(new)
              BY <1>1, <1>2, <1>4, <2>2 DEF ScanIsTyped, PathPlace
        <2> QED BY <2>2, <2>3, <2>4 DEF SameScan
  <1>5. CASE t \in Text /\ (j.known[j.path] = NoRecord \/ j.known[j.path].hash # t)
        <2>1. Compared(j, t) = [j EXCEPT !.text = t, !.at = "delete"]
              BY <1>5 DEF Compared
        <2>2. PICK new \in Scans :
                 /\ ScanIsTyped(new) /\ scan' = [scan EXCEPT ![p] = new] /\ SameScan(new, j)
                 /\ new.todo = j.todo /\ new.seen = j.seen /\ new.path = j.path /\ new.text = t /\ new.at = "delete"
              BY <1>4, <1>5, <2>1
        <2> QED BY <1>5, <2>2 DEF j, t
  <1>6. CASE t \in Text /\ j.known[j.path] # NoRecord /\ j.known[j.path].hash = t
        <2> DEFINE a == IF j.path \in File THEN "record" ELSE "next"
        <2>1. Compared(j, t) = [j EXCEPT !.text = t, !.at = a]
              BY <1>6 DEF Compared
        <2>2. PICK new \in Scans :
                 /\ ScanIsTyped(new) /\ scan' = [scan EXCEPT ![p] = new] /\ SameScan(new, j)
                 /\ new.todo = j.todo /\ new.seen = j.seen /\ new.path = j.path /\ new.text = t /\ new.at = a
              BY <1>4, <1>6, <2>1
        <2> QED BY <1>6, <2>2 DEF j, t
  <1> QED BY <1>3, <1>5, <1>6

LEMMA ScanWriteEffects ==
  ASSUME OwnersInv, NEW p \in Process, ScanWrite(p)
  PROVE  LET j == scan[p]
         IN  \E new \in Scans :
               /\ ScanIsTyped(new) /\ scan' = [scan EXCEPT ![p] = new] /\ SameScan(new, j)
               /\ new.todo = j.todo /\ new.seen = j.seen
               /\ j.at = "record" \/ (new.path = j.path /\ new.text = j.text /\ new.stamp = j.stamp)
               /\ \/ j.at = "delete" /\ new.at = "upsert" /\ DeleteForPath(j.path)
                  \/ j.at = "upsert" /\ new.at = "record" /\ UpsertChunks(j.path, j.text)
                  \/ j.at = "record" /\ new.at = "next" /\ SetFileHash(j.path, j.text, j.stamp[j.path], FALSE)
PROOF
  <1> DEFINE j == scan[p]
  <1>1. /\ j \in Scans /\ ScanIsTyped(j) /\ j.at \in {"delete", "upsert", "record"}
        /\ Reindex(j, j.stamp[j.path], FALSE)
        BY DEF OwnersInv, Typed, ScansAreTyped, ScanWrite, Stamp
  <1>2. j.path \in Path /\ j.path \notin j.todo /\ j.text \in Text
        BY <1>1 DEF ScanIsTyped, PathPlace
  <1>3. scan' = [scan EXCEPT ![p] =
          IF After(j.at) = "next" THEN [j EXCEPT !.at = "next", !.path = Nobody, !.text = Gone]
                                  ELSE [j EXCEPT !.at = After(j.at)]]
        BY DEF ScanWrite, OwnersInv, Typed, ScansAreTyped
  <1> HIDE DEF j
  <1>4. CASE j.at = "record"
        <2> DEFINE new == [j EXCEPT !.at = "next", !.path = Nobody, !.text = Gone]
        <2>1. scan' = [scan EXCEPT ![p] = new] /\ SetFileHash(j.path, j.text, j.stamp[j.path], FALSE)
              BY <1>1, <1>3, <1>4 DEF After, Reindex
        <2>2. /\ new \in Scans /\ new.at = "next" /\ new.by = j.by /\ new.known = j.known /\ new.edited = j.edited
              /\ new.complete = j.complete /\ new.todo = j.todo /\ new.stamp = j.stamp /\ new.seen = j.seen
              BY <1>1 DEF Scans, ScanAt
        <2> HIDE DEF new
        <2>3. ScanIsTyped(new)
              BY <1>1, <2>2 DEF ScanIsTyped, PathPlace
        <2> QED BY <1>4, <2>1, <2>2, <2>3 DEF j, SameScan
  <1>5. CASE j.at \in {"delete", "upsert"}
        <2> DEFINE a == After(j.at)
                   new == [j EXCEPT !.at = a]
        <2>1. /\ scan' = [scan EXCEPT ![p] = new]
              /\ \/ j.at = "delete" /\ a = "upsert" /\ DeleteForPath(j.path)
                 \/ j.at = "upsert" /\ a = "record" /\ UpsertChunks(j.path, j.text)
              BY <1>1, <1>3, <1>5 DEF After, Reindex
        <2> HIDE DEF a
        <2>2. /\ new \in Scans /\ new.at = a /\ new.by = j.by /\ new.known = j.known /\ new.edited = j.edited
              /\ new.complete = j.complete /\ new.todo = j.todo /\ new.stamp = j.stamp /\ new.seen = j.seen
              /\ new.path = j.path /\ new.text = j.text
              BY <1>1, <2>1 DEF Scans, ScanAt
        <2> HIDE DEF new
        <2>3. ScanIsTyped(new)
              BY <1>1, <1>2, <2>2 DEF ScanIsTyped, PathPlace
        <2> QED BY <2>1, <2>2, <2>3 DEF j, SameScan
  <1> QED BY <1>1, <1>4, <1>5

LEMMA DeleteStaleEffects ==
  ASSUME OwnersInv, NEW p \in Process, DeleteStale(p)
  PROVE  \E new \in Scans, f \in Stale(scan[p]) :
           /\ ScanIsTyped(new) /\ scan' = [scan EXCEPT ![p] = new] /\ SameScan(new, scan[p])
           /\ new.at = "next" /\ new.todo = {} /\ new.seen = scan[p].seen \cup {f}
           /\ DeleteForPath(f)
PROOF
  <1>1. PICK f \in Stale(scan[p]) : DeleteForPath(f) /\ scan' = [scan EXCEPT ![p].seen = @ \cup {f}]
        BY DEF DeleteStale
  <1> DEFINE j == scan[p]
             new == [j EXCEPT !.seen = @ \cup {f}]
  <1>2. j \in Scans /\ ScanIsTyped(j) /\ j.at = "next" /\ j.todo = {}
        BY DEF OwnersInv, Typed, ScansAreTyped, DeleteStale
  <1>3. scan' = [scan EXCEPT ![p] = new] /\ f \in Path
        BY <1>1 DEF OwnersInv, Typed, ScansAreTyped, Stale
  <1> HIDE DEF j
  <1>4. /\ new \in Scans /\ new.at = "next" /\ new.by = j.by /\ new.known = j.known /\ new.edited = j.edited
        /\ new.complete = j.complete /\ new.todo = {} /\ new.stamp = j.stamp /\ new.seen = j.seen \cup {f}
        BY <1>2, <1>3 DEF Scans
  <1> HIDE DEF new
  <1>5. ScanIsTyped(new)
        BY <1>2, <1>4 DEF ScanIsTyped, PathPlace
  <1> QED BY <1>1, <1>3, <1>4, <1>5 DEF j, SameScan

LEMMA ScanProgressKeepsOwners ==
  ASSUME OwnersInv, NEW p \in Process, Visit(p) \/ Read(p) \/ ScanWrite(p) \/ DeleteStale(p)
  PROVE  OwnersInv'
PROOF
  <1>1. CASE Visit(p)
        <2>1. PICK new \in Scans :
                /\ ScanIsTyped(new) /\ scan' = [scan EXCEPT ![p] = new] /\ SameScan(new, scan[p])
                /\ new.at \in {"next", "read"}
              BY <1>1, VisitEffects
        <2>2. TablesAreTyped' /\ scan[p].at = "next"
              /\ UNCHANGED <<edits, opens, owner, writer, phase, watching, flush, late>>
              BY <1>1 DEF Visit, world, index, ghosts, OwnersInv, Typed, TablesAreTyped
        <2> QED BY <2>1, <2>2, ScanMovesKeepOwners DEF SameScan, ScanPlace
  <1>2. CASE Read(p)
        <2>1. PICK new \in Scans :
                /\ ScanIsTyped(new) /\ scan' = [scan EXCEPT ![p] = new] /\ SameScan(new, scan[p])
                /\ new.at \in {"next", "delete", "record"}
              BY <1>2, ReadEffects
        <2>2. TablesAreTyped' /\ scan[p].at = "read"
              /\ UNCHANGED <<edits, opens, owner, writer, phase, watching, flush, late>>
              BY <1>2 DEF Read, world, index, ghosts, OwnersInv, Typed, TablesAreTyped
        <2> QED BY <2>1, <2>2, ScanMovesKeepOwners DEF SameScan, ScanPlace
  <1>3. CASE ScanWrite(p)
        <2> DEFINE j == scan[p]
        <2>1. PICK new \in Scans :
                /\ ScanIsTyped(new) /\ scan' = [scan EXCEPT ![p] = new] /\ SameScan(new, j)
                /\ \/ j.at = "delete" /\ new.at = "upsert" /\ DeleteForPath(j.path)
                   \/ j.at = "upsert" /\ new.at = "record" /\ UpsertChunks(j.path, j.text)
                   \/ j.at = "record" /\ new.at = "next" /\ SetFileHash(j.path, j.text, j.stamp[j.path], FALSE)
              BY <1>3, ScanWriteEffects
        <2>2. /\ j.path \in Path /\ j.text \in Text /\ j.stamp[j.path] \in 0..edits
              <3>1. j \in Scans /\ ScanIsTyped(j) /\ edits \in Nat
                    BY EditsAreNatural DEF OwnersInv, Typed, ScansAreTyped
              <3>2. j.path \in Path /\ j.text \in Text
                    BY <2>1, <3>1 DEF ScanIsTyped, PathPlace
              <3> QED BY <3>1, <3>2 DEF ScanIsTyped, Scans
        <2>3. /\ UNCHANGED <<world, owner, writer, phase, watching, pending, flush>> /\ StoreOpen(p)
              BY <1>3 DEF ScanWrite
        <2> HIDE DEF j
        <2>4. TablesAreTyped' /\ late' = late
              <3>1. DeleteForPath(j.path) \/ UpsertChunks(j.path, j.text)
                      \/ SetFileHash(j.path, j.text, j.stamp[j.path], FALSE)
                    BY <2>1
              <3> QED BY <2>2, <2>3, <3>1, OperationsAreTyped DEF OwnersInv, Typed
        <2> QED BY <2>1, <2>3, <2>4, ScanMovesKeepOwners DEF SameScan, ScanPlace, world, j
  <1>4. CASE DeleteStale(p)
        <2>1. PICK new \in Scans, f \in Stale(scan[p]) :
                /\ ScanIsTyped(new) /\ scan' = [scan EXCEPT ![p] = new] /\ SameScan(new, scan[p])
                /\ new.at = "next" /\ DeleteForPath(f)
              BY <1>4, DeleteStaleEffects
        <2>2. /\ UNCHANGED <<world, owner, writer, phase, watching, pending, flush>> /\ scan[p].at = "next"
              BY <1>4 DEF DeleteStale
        <2>3. f \in Path
              BY DEF Stale
        <2>4. TablesAreTyped' /\ late' = late
              <3>1. PICK t \in Text : TRUE
                    BY IndexAssumption
              <3>2. 0 \in 0..edits /\ FALSE \in BOOLEAN
                    BY EditsAreNatural DEF OwnersInv
              <3> QED BY <2>1, <2>2, <2>3, <3>1, <3>2, OperationsAreTyped DEF OwnersInv, Typed
        <2> QED BY <2>1, <2>2, <2>4, ScanMovesKeepOwners DEF SameScan, ScanPlace, world
  <1> QED BY <1>1, <1>2, <1>3, <1>4

LEMMA ScanEndKeepsOwners ==
  ASSUME OwnersInv, NEW p \in Process, ScanEnds(p)
  PROVE  OwnersInv'
PROOF
  <1> DEFINE new == [scan[p] EXCEPT !.at = "finished", !.complete = TRUE]
  <1>1. scan[p] \in Scans /\ ScanIsTyped(scan[p]) /\ scan[p].at = "next"
        BY DEF OwnersInv, Typed, ScansAreTyped, ScanEnds
  <1>2. new \in Scans /\ new.at = "finished" /\ new.by = scan[p].by /\ new.stamp = scan[p].stamp
        BY <1>1 DEF Scans, ScanAt
  <1>3. ScanIsTyped(new)
        BY <1>1, <1>2 DEF ScanIsTyped, PathPlace
  <1>4. /\ scan' = [scan EXCEPT ![p] = new] /\ writer' = Nobody
        /\ UNCHANGED <<tree, disk, edits, crashes, opens, chunks, record, owner, phase, watching, pending,
                       flush, mixed, skewed, dropped, late>>
        BY DEF ScanEnds, index, world, ghosts
  <1> HIDE DEF new
  <1>5. ScansAreTyped' /\ scan'[p] = new /\ \A q \in Process \ {p} : scan'[q] = scan[q]
        BY <1>2, <1>3, <1>4, ScanStepIsTyped DEF OwnersInv, Typed
  <1>6. FlushesAreTyped'
        BY <1>4, FlushesKeepTypes DEF OwnersInv
  <1>7. TablesAreTyped'
        BY <1>4 DEF OwnersInv, Typed, TablesAreTyped
  <1>8. writer = p
        BY <1>1 DEF OwnersInv, Owned, ActorsOwn, ScanPlace
  <1>9. Unopened' /\ ActorsOwn'
        BY <1>1, <1>2, <1>4, <1>5, <1>8 DEF OwnersInv, Owned, Unopened, ActorsOwn, Flushing, Busy, StoreOpen, ScanPlace
  <1>10. ScanOrFollow' /\ ClosedIsJoined' /\ ClosedLetsGo' /\ Unfinished'
         BY <1>1, <1>2, <1>4, <1>5
         DEF OwnersInv, Owned, ScanOrFollow, ClosedIsJoined, ClosedLetsGo, Unfinished, Flushing, StoreOpen
  <1> QED BY <1>5, <1>6, <1>7, <1>9, <1>10 DEF OwnersInv, Typed, Owned

LEMMA StartWatcherKeepsOwners ==
  ASSUME OwnersInv, NEW p \in Process, StartWatcher(p)
  PROVE  OwnersInv'
PROOF
  <1>1. NoScan \in Scans /\ ScanIsTyped(NoScan) /\ NoScan.at = "idle" /\ NoScan.by = "start" /\ ~NoScan.complete
        BY NoScanIsTyped, EditsAreNatural DEF OwnersInv
  <1>2. /\ scan[p].at = "finished" /\ scan[p].by # "cli" /\ scan' = [scan EXCEPT ![p] = NoScan]
        /\ watching' = IF phase[p] # "open" THEN watching ELSE watching \cup {p}
        /\ UNCHANGED <<tree, disk, edits, crashes, opens, chunks, record, owner, writer, phase, pending,
                       flush, mixed, skewed, dropped, late>>
        BY DEF StartWatcher, Closing, index, world, ghosts
  <1>3. ScansAreTyped' /\ scan'[p] = NoScan /\ \A q \in Process \ {p} : scan'[q] = scan[q]
        BY <1>1, <1>2, ScanStepIsTyped DEF OwnersInv, Typed
  <1>4. FlushesAreTyped'
        BY <1>2, FlushesKeepTypes DEF OwnersInv
  <1>5. TablesAreTyped'
        BY <1>2 DEF OwnersInv, Typed, TablesAreTyped
  <1>6. Unopened' /\ ActorsOwn'
        BY <1>1, <1>2, <1>3 DEF OwnersInv, Owned, Unopened, ActorsOwn, Flushing, Busy, StoreOpen, ScanPlace
  <1>7. ScanOrFollow' /\ ClosedIsJoined' /\ ClosedLetsGo' /\ Unfinished'
        BY <1>1, <1>2, <1>3
        DEF OwnersInv, Owned, ScanOrFollow, ClosedIsJoined, ClosedLetsGo, Unfinished, Flushing, StoreOpen
  <1> QED BY <1>3, <1>4, <1>5, <1>6, <1>7 DEF OwnersInv, Typed, Owned

LEMMA ForegroundEndKeepsOwners ==
  ASSUME OwnersInv, NEW p \in Process, ForegroundEnds(p)
  PROVE  OwnersInv'
PROOF
  <1>1. NoScan \in Scans /\ ScanIsTyped(NoScan) /\ NoScan.at = "idle" /\ NoScan.by = "start" /\ ~NoScan.complete
        BY NoScanIsTyped, EditsAreNatural DEF OwnersInv
  <1>2. /\ scan[p].at = "finished" /\ scan[p].by = "cli" /\ scan' = [scan EXCEPT ![p] = NoScan]
        /\ phase' = [phase EXCEPT ![p] = "closed"] /\ owner' = IF owner = p THEN Nobody ELSE owner
        /\ UNCHANGED <<tree, disk, edits, crashes, opens, chunks, record, writer, watching, pending,
                       flush, mixed, skewed, dropped, late>>
        BY DEF ForegroundEnds, index, world, ghosts
  <1>3. ScansAreTyped' /\ scan'[p] = NoScan /\ \A q \in Process \ {p} : scan'[q] = scan[q]
        BY <1>1, <1>2, ScanStepIsTyped DEF OwnersInv, Typed
  <1>4. FlushesAreTyped'
        BY <1>2, FlushesKeepTypes DEF OwnersInv
  <1>5. TablesAreTyped'
        BY <1>2 DEF OwnersInv, Typed, TablesAreTyped
  <1>6. phase[p] = "open" /\ phase'[p] = "closed" /\ \A q \in Process \ {p} : phase'[q] = phase[q]
        BY <1>2 DEF OwnersInv, Typed, TablesAreTyped, Owned, ClosedIsJoined
  <1>7. ~Flushing(p) /\ p \notin watching
        BY <1>2, <1>6 DEF OwnersInv, Owned, ScanOrFollow, StoreOpen
  <1>8. Nobody \notin Process
        BY IndexAssumption DEF Process
  <1>9. Unopened' /\ ActorsOwn'
        BY <1>1, <1>2, <1>3, <1>6, <1>7, <1>8
        DEF OwnersInv, Owned, Unopened, ActorsOwn, Flushing, Busy, StoreOpen, ScanPlace
  <1>10. ScanOrFollow' /\ ClosedIsJoined' /\ ClosedLetsGo' /\ Unfinished'
         BY <1>1, <1>2, <1>3, <1>6, <1>8
         DEF OwnersInv, Owned, ScanOrFollow, ClosedIsJoined, ClosedLetsGo, Unfinished, Flushing, StoreOpen
  <1> QED BY <1>3, <1>4, <1>5, <1>9, <1>10 DEF OwnersInv, Typed, Owned

(* A flush goes on, or ends.                                                *)
LEMMA FlushMovesKeepOwners ==
  ASSUME OwnersInv, NEW p \in Process, NEW k \in Slot, NEW new \in Flushes, FlushIsTyped(new),
         flush' = [flush EXCEPT ![p][k] = new], flush[p][k].at # "idle",
         UNCHANGED <<edits, opens, owner, writer, phase, watching, scan, late>>, TablesAreTyped'
  PROVE  OwnersInv'
PROOF
  <1>1. /\ FlushesAreTyped' /\ flush'[p][k] = new
        /\ \A q \in Process, i \in Slot : q # p \/ i # k => flush'[q][i] = flush[q][i]
        <2>1. FlushesAreTyped /\ edits' = edits
              BY DEF OwnersInv, Typed
        <2>2. FlushesAreTyped'
              BY <2>1, FlushStepIsTyped
        <2>3. /\ flush'[p][k] = new
              /\ \A q \in Process, i \in Slot : q # p \/ i # k => flush'[q][i] = flush[q][i]
              BY <2>1 DEF FlushesAreTyped
        <2> QED BY <2>2, <2>3
  <1>2. ScansAreTyped'
        BY ScansKeepTypes DEF OwnersInv
  <1>3. \A q \in Process : Flushing(q)' => Flushing(q)
        BY <1>1 DEF Flushing
  <1>4. Unopened' /\ ActorsOwn'
        BY <1>3 DEF OwnersInv, Owned, Unopened, ActorsOwn, Busy, StoreOpen
  <1>5. ScanOrFollow' /\ ClosedIsJoined' /\ ClosedLetsGo' /\ Unfinished'
        BY <1>3 DEF OwnersInv, Owned, ScanOrFollow, ClosedIsJoined, ClosedLetsGo, Unfinished, StoreOpen
  <1> QED BY <1>1, <1>2, <1>4, <1>5 DEF OwnersInv, Typed, Owned

LEMMA FlushStartEffects ==
  ASSUME OwnersInv, NEW p \in Process, NEW k \in Slot, FlushStart(p, k)
  PROVE  \E new \in Flushes :
           FlushIsTyped(new) /\ new.at = "next" /\ flush' = [flush EXCEPT ![p][k] = new]
PROOF
  <1> DEFINE new == [NoFlush EXCEPT !.at = "next", !.todo = pending[p]]
  <1>1. NoFlush \in Flushes /\ FlushIsTyped(NoFlush) /\ pending[p] \in SUBSET File
        BY NoFlushIsTyped, EditsAreNatural DEF OwnersInv, Typed, TablesAreTyped
  <1>2. new \in Flushes /\ new.at = "next" /\ new.readAt = NoFlush.readAt /\ new.stamp = NoFlush.stamp
        BY <1>1 DEF Flushes, FlushAt
  <1> HIDE DEF new
  <1>3. FlushIsTyped(new)
        BY <1>1, <1>2 DEF FlushIsTyped, Writing
  <1>4. flush' = [flush EXCEPT ![p][k] = new]
        BY DEF FlushStart, new
  <1> QED BY <1>2, <1>3, <1>4

LEMMA FlushStartKeepsOwners ==
  ASSUME OwnersInv, NEW p \in Process, NEW k \in Slot, FlushStart(p, k)
  PROVE  OwnersInv'
PROOF
  <1>1. PICK new \in Flushes : FlushIsTyped(new) /\ new.at = "next" /\ flush' = [flush EXCEPT ![p][k] = new]
        BY FlushStartEffects
  <1>2. /\ p \in watching /\ phase[p] = "open" /\ pending' = [pending EXCEPT ![p] = {}]
        /\ UNCHANGED <<tree, disk, edits, crashes, opens, chunks, record, owner, writer, phase, watching,
                       scan, mixed, skewed, dropped, late>>
        BY DEF FlushStart, Closing, index, world, ghosts
  <1>3. /\ FlushesAreTyped'
        /\ \A q \in Process, i \in Slot : q # p \/ i # k => flush'[q][i] = flush[q][i]
        BY <1>1, <1>2, FlushStepIsTyped DEF OwnersInv, Typed
  <1>4. ScansAreTyped'
        BY <1>2, ScansKeepTypes DEF OwnersInv
  <1>5. TablesAreTyped'
        BY <1>2 DEF OwnersInv, Typed, TablesAreTyped
  <1>6. /\ \A q \in Process \ {p} : Flushing(q)' => Flushing(q)
        /\ owner = p /\ scan[p].at = "idle"
        BY <1>2, <1>3 DEF Flushing, OwnersInv, Owned, ActorsOwn, ScanOrFollow
  <1>7. Unopened' /\ ActorsOwn'
        BY <1>2, <1>6 DEF OwnersInv, Owned, Unopened, ActorsOwn, Busy, StoreOpen
  <1>8. ScanOrFollow' /\ ClosedIsJoined' /\ ClosedLetsGo' /\ Unfinished'
        BY <1>2, <1>6 DEF OwnersInv, Owned, ScanOrFollow, ClosedIsJoined, ClosedLetsGo, Unfinished, StoreOpen
  <1> QED BY <1>3, <1>4, <1>5, <1>7, <1>8 DEF OwnersInv, Typed, Owned

LEMMA FlushReadEffects ==
  ASSUME OwnersInv, NEW p \in Process, NEW k \in Slot, FlushRead(p, k)
  PROVE  \E new \in Flushes, f \in File :
           /\ FlushIsTyped(new) /\ flush' = [flush EXCEPT ![p][k] = new]
           /\ new.path = f /\ new.text = disk[f].text /\ new.at \in {"stat", "drop"}
PROOF
  <1> DEFINE j == flush[p][k]
  <1>1. j \in Flushes /\ FlushIsTyped(j) /\ edits \in Nat
        BY EditsAreNatural DEF OwnersInv, Typed, FlushesAreTyped
  <1>2. PICK f \in j.todo : flush' = [flush EXCEPT ![p][k] = Looked(j, f)]
        BY DEF FlushRead
  <1> HIDE DEF j
  <1>3. f \in File
        BY <1>1, <1>2 DEF Flushes
  <1> DEFINE new == [j EXCEPT !.todo = @ \ {f}, !.path = f, !.text = disk[f].text, !.readAt = disk[f].mtime,
                              !.at = IF Readable(f) THEN "stat" ELSE "drop"]
  <1>4. /\ disk[f].text \in Text \cup {Gone, Unreadable}
        /\ disk[f].mtime \in Nat /\ disk[f].mtime <= edits
        BY <1>1, <1>3 DEF OwnersInv, Typed, TablesAreTyped, Path
  <1>5. /\ new \in Flushes /\ new.path = f /\ new.text = disk[f].text /\ new.readAt = disk[f].mtime
        /\ new.stamp = j.stamp /\ new.at = (IF Readable(f) THEN "stat" ELSE "drop")
        BY <1>1, <1>3, <1>4 DEF Flushes, FlushAt, Writing
  <1>6. Looked(j, f) = new
        BY DEF Looked
  <1> HIDE DEF new
  <1>7. FlushIsTyped(new)
        BY <1>1, <1>3, <1>4, <1>5 DEF FlushIsTyped, Readable
  <1> QED BY <1>2, <1>3, <1>5, <1>6, <1>7

LEMMA FlushStatEffects ==
  ASSUME OwnersInv, NEW p \in Process, NEW k \in Slot, FlushStat(p, k)
  PROVE  \E new \in Flushes :
           /\ FlushIsTyped(new) /\ flush' = [flush EXCEPT ![p][k] = new]
           /\ new.path = flush[p][k].path /\ new.text = flush[p][k].text /\ new.readAt = flush[p][k].readAt
           /\ new.at \in {"delete", "drop"}
PROOF
  <1> DEFINE j == flush[p][k]
             f == j.path
             new == [j EXCEPT !.at = IF Present(f) THEN "delete" ELSE "drop", !.stamp = disk[f].mtime]
  <1>1. j \in Flushes /\ FlushIsTyped(j) /\ edits \in Nat /\ j.at = "stat"
        BY EditsAreNatural DEF OwnersInv, Typed, FlushesAreTyped, FlushStat
  <1>2. f \in File /\ j.text \in Text
        BY <1>1 DEF FlushIsTyped
  <1>3. flush' = [flush EXCEPT ![p][k] = new]
        BY DEF FlushStat, OwnersInv, Typed, FlushesAreTyped
  <1> HIDE DEF j
  <1>4. disk[f].mtime \in Nat /\ disk[f].mtime <= edits
        BY <1>1, <1>2 DEF OwnersInv, Typed, TablesAreTyped, Path
  <1>5. /\ new \in Flushes /\ new.path = f /\ new.text = j.text /\ new.readAt = j.readAt
        /\ new.stamp = disk[f].mtime /\ new.at = IF Present(f) THEN "delete" ELSE "drop"
        BY <1>1, <1>2, <1>4 DEF Flushes, FlushAt, Writing
  <1> HIDE DEF new, f
  <1>6. FlushIsTyped(new)
        BY <1>1, <1>2, <1>4, <1>5 DEF FlushIsTyped
  <1> QED BY <1>3, <1>5, <1>6 DEF j, f

LEMMA FlushWriteEffects ==
  ASSUME OwnersInv, NEW p \in Process, NEW k \in Slot, FlushWrite(p, k)
  PROVE  LET j == flush[p][k]
         IN  \E new \in Flushes :
               /\ FlushIsTyped(new) /\ flush' = [flush EXCEPT ![p][k] = new]
               /\ new.at \in {"idle", "next"} \/ (new.path = j.path /\ new.text = j.text /\ new.readAt = j.readAt)
               /\ \/ j.at = "drop" /\ new.at \in {"idle", "next"} /\ DeleteForPath(j.path)
                  \/ j.at = "delete" /\ new.at = "upsert" /\ DeleteForPath(j.path)
                  \/ j.at = "upsert" /\ new.at = "record" /\ UpsertChunks(j.path, j.text)
                  \/ /\ j.at = "record" /\ new.at \in {"idle", "next"}
                     /\ SetFileHash(j.path, j.text, j.stamp, j.readAt # j.stamp)
PROOF
  <1> DEFINE j == flush[p][k]
  <1>1. /\ j \in Flushes /\ FlushIsTyped(j) /\ j.at \in Writing /\ edits \in Nat
        /\ IF j.at = "drop" THEN DeleteForPath(j.path) ELSE Reindex(j, j.stamp, j.readAt # j.stamp)
        /\ flush' = [flush EXCEPT ![p][k] = IF j.at = "drop" \/ After(j.at) = "next"
             THEN [NoFlush EXCEPT !.todo = j.todo, !.at = IF j.todo = {} THEN "idle" ELSE "next"]
             ELSE [j EXCEPT !.at = After(@)]]
        BY EditsAreNatural DEF OwnersInv, Typed, FlushesAreTyped, FlushWrite
  <1> HIDE DEF j
  <1>2. CASE j.at \in {"drop", "record"}
        <2> DEFINE new == [NoFlush EXCEPT !.todo = j.todo, !.at = IF j.todo = {} THEN "idle" ELSE "next"]
        <2>1. NoFlush \in Flushes /\ FlushIsTyped(NoFlush) /\ j.todo \in SUBSET File
              BY <1>1, NoFlushIsTyped DEF Flushes
        <2>2. new \in Flushes /\ new.at \in {"idle", "next"} /\ new.readAt = NoFlush.readAt /\ new.stamp = NoFlush.stamp
              BY <2>1 DEF Flushes, FlushAt
        <2>3. /\ flush' = [flush EXCEPT ![p][k] = new]
              /\ \/ j.at = "drop" /\ DeleteForPath(j.path)
                 \/ j.at = "record" /\ SetFileHash(j.path, j.text, j.stamp, j.readAt # j.stamp)
              BY <1>1, <1>2 DEF After, Reindex
        <2> HIDE DEF new
        <2>4. FlushIsTyped(new)
              BY <2>1, <2>2 DEF FlushIsTyped, Writing
        <2> QED BY <2>2, <2>3, <2>4 DEF j
  <1>3. CASE j.at \in {"delete", "upsert"}
        <2> DEFINE a == After(j.at)
                   new == [j EXCEPT !.at = a]
        <2>1. /\ flush' = [flush EXCEPT ![p][k] = new]
              /\ \/ j.at = "delete" /\ a = "upsert" /\ DeleteForPath(j.path)
                 \/ j.at = "upsert" /\ a = "record" /\ UpsertChunks(j.path, j.text)
              BY <1>1, <1>3 DEF After, Reindex
        <2> HIDE DEF a
        <2>2. /\ new \in Flushes /\ new.at = a /\ new.path = j.path /\ new.text = j.text
              /\ new.readAt = j.readAt /\ new.stamp = j.stamp
              BY <1>1, <2>1 DEF Flushes, FlushAt, Writing
        <2> HIDE DEF new
        <2>3. FlushIsTyped(new)
              BY <1>1, <1>3, <2>1, <2>2 DEF FlushIsTyped, Writing
        <2> QED BY <2>1, <2>2, <2>3 DEF j
  <1> QED BY <1>1, <1>2, <1>3 DEF Writing

LEMMA FlushProgressKeepsOwners ==
  ASSUME OwnersInv, NEW p \in Process, NEW k \in Slot,
         FlushRead(p, k) \/ FlushStat(p, k) \/ FlushWrite(p, k) \/ FlushFails(p, k)
  PROVE  OwnersInv'
PROOF
  <1>1. CASE FlushRead(p, k) \/ FlushStat(p, k)
        <2>1. PICK new \in Flushes : FlushIsTyped(new) /\ flush' = [flush EXCEPT ![p][k] = new]
              BY <1>1, FlushReadEffects, FlushStatEffects
        <2>2. /\ flush[p][k].at # "idle" /\ TablesAreTyped'
              /\ UNCHANGED <<edits, opens, owner, writer, phase, watching, scan, late>>
              BY <1>1 DEF FlushRead, FlushStat, world, index, ghosts, OwnersInv, Typed, TablesAreTyped
        <2> QED BY <2>1, <2>2, FlushMovesKeepOwners
  <1>2. CASE FlushWrite(p, k)
        <2> DEFINE j == flush[p][k]
        <2>1. PICK new \in Flushes :
                /\ FlushIsTyped(new) /\ flush' = [flush EXCEPT ![p][k] = new]
                /\ \/ j.at \in {"drop", "delete"} /\ DeleteForPath(j.path)
                   \/ j.at = "upsert" /\ UpsertChunks(j.path, j.text)
                   \/ j.at = "record" /\ SetFileHash(j.path, j.text, j.stamp, j.readAt # j.stamp)
              BY <1>2, FlushWriteEffects
        <2>2. /\ UNCHANGED <<world, owner, writer, phase, watching, pending, scan>> /\ j.at # "idle"
              BY <1>2 DEF FlushWrite, Writing
        <2>3. /\ j \in Flushes /\ FlushIsTyped(j) /\ edits \in Nat
              BY EditsAreNatural DEF OwnersInv, Typed, FlushesAreTyped
        <2> HIDE DEF j
        <2>4. j.path \in File /\ j.path \in Path /\ j.stamp \in 0..edits
              BY <2>1, <2>3 DEF FlushIsTyped, Flushes, Writing, Path
        <2>5. TablesAreTyped' /\ late' = late
              <3>1. CASE j.at \in {"drop", "delete"} /\ DeleteForPath(j.path)
                    <4>1. PICK t \in Text : TRUE
                          BY IndexAssumption
                    <4> QED BY <2>2, <2>4, <3>1, <4>1, OperationsAreTyped DEF OwnersInv, Typed
              <3>2. CASE j.at = "upsert" /\ UpsertChunks(j.path, j.text)
                    <4>1. j.text \in Text
                          BY <2>3, <3>2 DEF FlushIsTyped
                    <4> QED BY <2>2, <2>4, <3>2, <4>1, OperationsAreTyped DEF OwnersInv, Typed
              <3>3. CASE j.at = "record" /\ SetFileHash(j.path, j.text, j.stamp, j.readAt # j.stamp)
                    <4>1. j.text \in Text /\ (j.readAt # j.stamp) \in BOOLEAN
                          BY <2>3, <3>3 DEF FlushIsTyped
                    <4> QED BY <2>2, <2>4, <3>3, <4>1, OperationsAreTyped DEF OwnersInv, Typed
              <3> QED BY <2>1, <3>1, <3>2, <3>3
        <2> QED BY <2>1, <2>2, <2>5, FlushMovesKeepOwners DEF world, j
  <1>3. CASE FlushFails(p, k)
        <2> DEFINE j == flush[p][k]
        <2>1. /\ j.at \in Writing /\ flush' = [flush EXCEPT ![p][k] = NoFlush]
              /\ dropped' = (IF StoreOpen(p) THEN dropped \cup {j.path} \cup j.todo ELSE dropped)
              /\ UNCHANGED <<tree, disk, edits, crashes, opens, chunks, record, owner, writer, phase, watching,
                             pending, scan, mixed, skewed, late>>
              BY <1>3 DEF FlushFails, world, index
        <2>2. NoFlush \in Flushes /\ FlushIsTyped(NoFlush)
              BY NoFlushIsTyped, EditsAreNatural DEF OwnersInv
        <2>3. j.path \in File /\ j.todo \subseteq File /\ j.at # "idle"
              BY <2>1 DEF OwnersInv, Typed, FlushesAreTyped, FlushIsTyped, Flushes, Writing
        <2>4. TablesAreTyped'
              BY <2>1, <2>3 DEF OwnersInv, Typed, TablesAreTyped
        <2> QED BY <2>1, <2>2, <2>3, <2>4, FlushMovesKeepOwners
  <1> QED BY <1>1, <1>2, <1>3

LEMMA BeginCloseKeepsOwners ==
  ASSUME OwnersInv, NEW p \in Process, BeginClose(p)
  PROVE  OwnersInv'
PROOF
  <1>1. /\ phase[p] = "open" /\ scan[p].by # "cli" /\ phase' = [phase EXCEPT ![p] = "closing"]
        /\ UNCHANGED <<tree, disk, edits, crashes, opens, chunks, record, owner, writer, watching, pending, scan,
                       flush, mixed, skewed, dropped, late>>
        BY DEF BeginClose, index, world, ghosts
  <1>2. phase'[p] = "closing" /\ \A q \in Process \ {p} : phase'[q] = phase[q]
        BY <1>1 DEF OwnersInv, Typed, TablesAreTyped
  <1>3. ScansAreTyped' /\ FlushesAreTyped'
        BY <1>1, ThreadsKeepTypes DEF OwnersInv
  <1>4. TablesAreTyped'
        BY <1>1 DEF OwnersInv, Typed, TablesAreTyped
  <1>5. Unopened' /\ ActorsOwn'
        BY <1>1, <1>2 DEF OwnersInv, Owned, Unopened, ActorsOwn, Flushing, Busy, StoreOpen
  <1>6. ScanOrFollow' /\ ClosedIsJoined' /\ ClosedLetsGo' /\ Unfinished'
        BY <1>1, <1>2
        DEF OwnersInv, Owned, ScanOrFollow, ClosedIsJoined, ClosedLetsGo, Unfinished, Flushing, StoreOpen
  <1> QED BY <1>3, <1>4, <1>5, <1>6 DEF OwnersInv, Typed, Owned

LEMMA CloseKeepsOwners ==
  ASSUME OwnersInv, NEW p \in Process, Close(p)
  PROVE  OwnersInv'
PROOF
  <1>1. /\ phase[p] = "closing" /\ phase' = [phase EXCEPT ![p] = "closed"]
        /\ scan[p].by = "search" \/ scan[p].at \in {"idle", "upsert"}
        /\ watching' = watching \ {p} /\ pending' = [pending EXCEPT ![p] = {}]
        /\ owner' = IF owner = p THEN Nobody ELSE owner
        /\ UNCHANGED <<tree, disk, edits, crashes, opens, chunks, record, writer, scan,
                       flush, mixed, skewed, dropped, late>>
        BY DEF Close, Joined, index, world, ghosts
  <1>2. phase'[p] = "closed" /\ \A q \in Process \ {p} : phase'[q] = phase[q]
        BY <1>1 DEF OwnersInv, Typed, TablesAreTyped
  <1>3. ScansAreTyped' /\ FlushesAreTyped'
        BY <1>1, ThreadsKeepTypes DEF OwnersInv
  <1>4. TablesAreTyped'
        BY <1>1 DEF OwnersInv, Typed, TablesAreTyped
  <1>5. Nobody \notin Process
        BY IndexAssumption DEF Process
  <1>6. Unopened' /\ ActorsOwn'
        BY <1>1, <1>2, <1>5 DEF OwnersInv, Owned, Unopened, ActorsOwn, Flushing, Busy, StoreOpen
  <1>7. ScanOrFollow' /\ ClosedIsJoined' /\ ClosedLetsGo' /\ Unfinished'
        BY <1>1, <1>2, <1>5
        DEF OwnersInv, Owned, ScanOrFollow, ClosedIsJoined, ClosedLetsGo, Unfinished, Flushing, StoreOpen
  <1> QED BY <1>3, <1>4, <1>6, <1>7 DEF OwnersInv, Typed, Owned

LEMMA CrashKeepsOwners ==
  ASSUME OwnersInv, NEW p \in Process, Crash(p)
  PROVE  OwnersInv'
PROOF
  <1>1. /\ phase' = [phase EXCEPT ![p] = "closed"] /\ crashes < MaxCrashes /\ crashes' = crashes + 1
        /\ watching' = watching \ {p} /\ pending' = [pending EXCEPT ![p] = {}]
        /\ owner' = (IF owner = p THEN Nobody ELSE owner) /\ writer' = (IF writer = p THEN Nobody ELSE writer)
        /\ scan' = [scan EXCEPT ![p] = NoScan] /\ flush' = [flush EXCEPT ![p] = [k \in Slot |-> NoFlush]]
        /\ late' = late \ {p}
        /\ UNCHANGED <<tree, disk, edits, opens, chunks, record, mixed, skewed, dropped>>
        BY DEF Crash, index
  <1>2. /\ NoScan \in Scans /\ ScanIsTyped(NoScan) /\ NoScan.at = "idle" /\ NoScan.by = "start" /\ ~NoScan.complete
        /\ NoFlush \in Flushes /\ FlushIsTyped(NoFlush) /\ NoFlush.at = "idle"
        BY NoScanIsTyped, NoFlushIsTyped, EditsAreNatural DEF OwnersInv
  <1>3. phase'[p] = "closed" /\ \A q \in Process \ {p} : phase'[q] = phase[q]
        BY <1>1 DEF OwnersInv, Typed, TablesAreTyped
  <1>4. ScansAreTyped' /\ scan'[p] = NoScan /\ \A q \in Process \ {p} : scan'[q] = scan[q]
        BY <1>1, <1>2, ScanStepIsTyped DEF OwnersInv, Typed
  <1>5. /\ \A k \in Slot : flush'[p][k] = NoFlush
        /\ \A q \in Process \ {p} : flush'[q] = flush[q]
        /\ flush' \in [Process -> [Slot -> Flushes]]
        BY <1>1, <1>2 DEF OwnersInv, Typed, FlushesAreTyped
  <1>6. FlushesAreTyped'
        <2>1. ASSUME NEW q \in Process, NEW k \in Slot
              PROVE  FlushIsTyped(flush[q][k])'
              BY <1>1, <1>2, <1>5, <2>1 DEF OwnersInv, Typed, FlushesAreTyped, FlushIsTyped
        <2> QED BY <1>5, <2>1 DEF FlushesAreTyped
  <1>7. TablesAreTyped'
        <2>1. crashes' \in 0..MaxCrashes
              BY <1>1, IndexAssumption DEF OwnersInv, Typed, TablesAreTyped
        <2> QED BY <1>1, <2>1 DEF OwnersInv, Typed, TablesAreTyped
  <1>8. Nobody \notin Process /\ (\A q \in Process : Flushing(q)' => Flushing(q) /\ q # p)
        BY <1>2, <1>5, IndexAssumption DEF Process, Flushing
  <1>9. Unopened'
        <2>1. phase[p] # "new"
              BY DEF Crash, Idle, OwnersInv, Owned, Unopened, Flushing
        <2> QED BY <1>1, <1>2, <1>3, <1>4, <1>8, <2>1 DEF OwnersInv, Owned, Unopened
  <1>10. ActorsOwn'
         BY <1>1, <1>2, <1>3, <1>4, <1>8 DEF OwnersInv, Owned, ActorsOwn, Busy, StoreOpen, ScanPlace
  <1>11. ScanOrFollow' /\ ClosedIsJoined' /\ ClosedLetsGo' /\ Unfinished'
         BY <1>1, <1>2, <1>3, <1>4, <1>8
         DEF OwnersInv, Owned, ScanOrFollow, ClosedIsJoined, ClosedLetsGo, Unfinished, StoreOpen
  <1> QED BY <1>4, <1>6, <1>7, <1>9, <1>10, <1>11 DEF OwnersInv, Typed, Owned

LEMMA EditKeepsOwners ==
  ASSUME OwnersInv, NEW f \in Path, NEW t \in Text \cup {Gone, Unreadable}, Edit(f, t)
  PROVE  OwnersInv'
PROOF
  <1>1. /\ edits < MaxEdits /\ edits' = edits + 1 /\ disk' = [disk EXCEPT ![f] = [text |-> t, mtime |-> edits + 1]]
        /\ pending' = [p \in Process |-> IF p \in watching /\ f \in File THEN pending[p] \cup {f} ELSE pending[p]]
        /\ scan' = [p \in Process |-> IF scan[p].at \in {"idle", "begin", "claim", "lock"}
                                        THEN scan[p] ELSE [scan[p] EXCEPT !.edited = @ \cup {f}]]
        /\ UNCHANGED <<tree, opens, crashes, chunks, record, owner, writer, phase, watching, flush,
                       mixed, skewed, dropped, late>>
        BY DEF Edit, index, ghosts
  <1>2. edits \in Nat /\ edits' \in 0..MaxEdits /\ edits <= edits'
        BY <1>1, EditsAreNatural, IndexAssumption DEF OwnersInv
  <1>3. ASSUME NEW p \in Process
        PROVE  /\ scan'[p] \in Scans
               /\ scan'[p].at = scan[p].at /\ scan'[p].by = scan[p].by
               /\ scan'[p].complete = scan[p].complete
               /\ scan'[p].path = scan[p].path /\ scan'[p].text = scan[p].text
               /\ scan'[p].todo = scan[p].todo /\ scan'[p].stamp = scan[p].stamp
        <2>1. scan[p] \in Scans
              BY DEF OwnersInv, Typed, ScansAreTyped
        <2> QED BY <1>1, <2>1 DEF Scans
  <1>4. ScansAreTyped'
        <2>1. scan' \in [Process -> Scans]
              BY <1>1, <1>3
        <2>2. ASSUME NEW p \in Process
              PROVE  ScanIsTyped(scan[p])'
              <3>1. scan[p] \in Scans /\ ScanIsTyped(scan[p])
                    BY DEF OwnersInv, Typed, ScansAreTyped
              <3>2. \A g \in Path : scan[p].stamp[g] <= edits'
                    BY <1>2, <3>1 DEF ScanIsTyped, Scans
              <3> QED BY <1>3, <3>1, <3>2 DEF ScanIsTyped
        <2> QED BY <2>1, <2>2 DEF ScansAreTyped
  <1>5. FlushesAreTyped'
        <2>1. ASSUME NEW p \in Process, NEW k \in Slot
              PROVE  FlushIsTyped(flush[p][k])'
              <3>1. flush[p][k] \in Flushes /\ FlushIsTyped(flush[p][k])
                    BY DEF OwnersInv, Typed, FlushesAreTyped
              <3>2. flush[p][k].readAt <= edits' /\ flush[p][k].stamp <= edits'
                    BY <1>2, <3>1 DEF FlushIsTyped, Flushes
              <3> QED BY <1>1, <3>1, <3>2 DEF FlushIsTyped
        <2> QED BY <1>1, <2>1 DEF OwnersInv, Typed, FlushesAreTyped
  <1>6. TablesAreTyped'
        <2>1. disk' \in [Path -> [text : Text \cup {Gone, Unreadable}, mtime : 0..edits']]
              BY <1>1, <1>2 DEF OwnersInv, Typed, TablesAreTyped
        <2>2. record' \in [Path -> [hash : Text, mtime : 0..edits'] \cup {NoRecord}]
              BY <1>1, <1>2 DEF OwnersInv, Typed, TablesAreTyped
        <2>3. pending' \in [Process -> SUBSET File]
              BY <1>1 DEF OwnersInv, Typed, TablesAreTyped
        <2> QED BY <1>1, <1>2, <2>1, <2>2, <2>3 DEF OwnersInv, Typed, TablesAreTyped
  <1>7. Unopened' /\ ActorsOwn'
        BY <1>1, <1>3 DEF OwnersInv, Owned, Unopened, ActorsOwn, Flushing, Busy, StoreOpen
  <1>8. ScanOrFollow' /\ ClosedIsJoined' /\ ClosedLetsGo' /\ Unfinished'
        BY <1>1, <1>3
        DEF OwnersInv, Owned, ScanOrFollow, ClosedIsJoined, ClosedLetsGo, Unfinished, Flushing, StoreOpen
  <1> QED BY <1>4, <1>5, <1>6, <1>7, <1>8 DEF OwnersInv, Typed, Owned

LEMMA StepsKeepOwners ==
  ASSUME OwnersInv, [Next]_vars
  PROVE  OwnersInv'
PROOF
  <1>1. CASE Environment
        <2>1. ASSUME NEW p \in Process, NEW by \in {"start", "cli"}, Open(p, by)
              PROVE  OwnersInv'
              BY <2>1, OpenKeepsOwners
        <2>2. ASSUME NEW p \in Process, Search(p) \/ BeginClose(p) \/ Crash(p)
              PROVE  OwnersInv'
              BY <2>2, SearchKeepsOwners, BeginCloseKeepsOwners, CrashKeepsOwners
        <2>3. ASSUME NEW f \in Path, NEW t \in Text \cup {Gone, Unreadable}, Edit(f, t)
              PROVE  OwnersInv'
              BY <2>3, EditKeepsOwners
        <2> QED BY <1>1, <2>1, <2>2, <2>3 DEF Environment
  <1>2. ASSUME NEW p \in Process, ScanStep(p)
        PROVE  OwnersInv'
        <2>1. CASE Begin(p) \/ Claim(p)
              BY <2>1, BeginKeepsOwners, ClaimKeepsOwners
        <2>2. ASSUME NEW rebuild \in BOOLEAN, StartScan(p, rebuild)
              PROVE  OwnersInv'
              BY <2>2, StartScanKeepsOwners
        <2>3. CASE NoWriteLock(p) \/ Interrupt(p) \/ StoreGone(p)
              BY <2>3, FailuresKeepOwners DEF NoWriteLock, Interrupt, StoreGone, ScanPlace
        <2>4. CASE Visit(p) \/ Read(p) \/ ScanWrite(p) \/ DeleteStale(p)
              BY <2>4, ScanProgressKeepsOwners
        <2>5. CASE ScanEnds(p) \/ StartWatcher(p) \/ ForegroundEnds(p)
              BY <2>5, ScanEndKeepsOwners, StartWatcherKeepsOwners, ForegroundEndKeepsOwners
        <2> QED BY <1>2, <2>1, <2>2, <2>3, <2>4, <2>5 DEF ScanStep
  <1>3. ASSUME NEW p \in Process, Close(p)
        PROVE  OwnersInv'
        BY <1>3, CloseKeepsOwners
  <1>4. ASSUME NEW p \in Process, NEW k \in Slot, FlushStep(p, k)
        PROVE  OwnersInv'
        BY <1>4, FlushStartKeepsOwners, FlushProgressKeepsOwners DEF FlushStep
  <1>5. CASE UNCHANGED vars
        <2>1. UNCHANGED <<tree, disk, edits, crashes, opens, chunks, record, owner, writer, phase, watching, pending,
                          scan, flush, mixed, skewed, dropped, late>>
              BY <1>5 DEF vars, world, index, ghosts
        <2>2. ScansAreTyped' /\ FlushesAreTyped'
              BY <2>1, ThreadsKeepTypes DEF OwnersInv
        <2>3. TablesAreTyped'
              BY <2>1 DEF OwnersInv, Typed, TablesAreTyped
        <2>4. Owned'
              BY <2>1 DEF OwnersInv, Owned, Unopened, ActorsOwn, ScanOrFollow, ClosedIsJoined, ClosedLetsGo,
                 Unfinished, Flushing, Busy, StoreOpen
        <2> QED BY <2>2, <2>3, <2>4 DEF OwnersInv, Typed
  <1> QED BY <1>1, <1>2, <1>3, <1>4, <1>5 DEF Next, ProcessStep

LEMMA OwnersStart ==
  ASSUME Init
  PROVE  OwnersInv
PROOF
  <1>1. edits = 0 /\ opens = 0 /\ crashes = 0 /\ 0 \in 0..MaxEdits /\ 0 \in 0..MaxOpens /\ 0 \in 0..MaxCrashes
        BY IndexAssumption DEF Init
  <1>2. /\ NoScan \in Scans /\ ScanIsTyped(NoScan) /\ NoScan.at = "idle" /\ NoScan.by = "start" /\ ~NoScan.complete
        /\ NoFlush \in Flushes /\ FlushIsTyped(NoFlush) /\ NoFlush.at = "idle"
        BY <1>1, NoScanIsTyped, NoFlushIsTyped
  <1>3. disk \in [Path -> [text : Text \cup {Gone, Unreadable}, mtime : 0..edits]]
        <2>1. (CHOOSE t \in Text : TRUE) \in Text
              BY IndexAssumption
        <2> QED BY <1>1, <2>1 DEF Init
  <1>4. TablesAreTyped
        BY <1>1, <1>3 DEF Init, TablesAreTyped
  <1>5. scan = [p \in Process |-> NoScan] /\ flush = [p \in Process |-> [k \in Slot |-> NoFlush]]
        BY DEF Init
  <1>6. ScansAreTyped /\ FlushesAreTyped
        BY <1>2, <1>5 DEF ScansAreTyped, FlushesAreTyped
  <1>7. /\ \A p \in Process : scan[p] = NoScan /\ ~Flushing(p)
        /\ Nobody \notin Process /\ owner = Nobody /\ phase = [p \in Process |-> "new"]
        /\ watching = {} /\ late = {}
        BY <1>2, <1>5, IndexAssumption DEF Init, Flushing, Process
  <1>8. Owned
        BY <1>2, <1>7 DEF Owned, Unopened, ActorsOwn, ScanOrFollow, ClosedIsJoined, ClosedLetsGo, Unfinished,
           Busy, StoreOpen, ScanPlace
  <1> QED BY <1>4, <1>6, <1>8 DEF OwnersInv, Typed

LEMMA OwnersInvariant ==
  Spec => []OwnersInv
PROOF
  <1>1. Init => OwnersInv
        BY OwnersStart
  <1>2. OwnersInv /\ [Next]_vars => OwnersInv'
        BY StepsKeepOwners
  <1> QED BY <1>1, <1>2, PTL DEF Spec

(* A closed indexer has let go of indexer.lock, and so does one whose        *)
(* process died, but for a search that claims it again while it closes.      *)
THEOREM ClosedIndexersLetGo ==
  Spec => []ClosedLetsGo
PROOF
  <1>1. OwnersInv => ClosedLetsGo
        BY DEF OwnersInv, Owned
  <1> QED BY <1>1, OwnersInvariant, PTL

(* The steps that write the tables are those of threads with an open store. *)
LEMMA WritersOwn ==
  ASSUME OwnersInv, [Next]_vars, ~UNCHANGED <<index, mixed, skewed>>
  PROVE  \E p \in Process : owner = p /\ (scan[p] # scan'[p] \/ flush[p] # flush'[p])
PROOF
  <1>1. ASSUME NEW p \in Process, NEW rebuild \in BOOLEAN, StartScan(p, rebuild)
        PROVE  owner = p /\ scan[p] # scan'[p]
        <2>1. PICK new \in Scans : scan' = [scan EXCEPT ![p] = new] /\ new.at = "next"
              BY <1>1, StartScanEffects
        <2>2. scan[p].at = "lock" /\ StoreOpen(p)
              BY <1>1 DEF StartScan
        <2>3. scan'[p] = new
              BY <2>1 DEF OwnersInv, Typed, ScansAreTyped
        <2> QED BY <2>1, <2>2, <2>3 DEF OwnersInv, Owned, ActorsOwn, Busy
  <1>2. ASSUME NEW p \in Process, ScanWrite(p)
        PROVE  owner = p /\ scan[p] # scan'[p]
        <2>1. PICK new \in Scans : scan' = [scan EXCEPT ![p] = new] /\ new.at # scan[p].at
              BY <1>2, ScanWriteEffects
        <2>2. scan'[p] = new /\ scan[p].at \in {"delete", "upsert", "record"} /\ StoreOpen(p)
              BY <1>2, <2>1 DEF ScanWrite, OwnersInv, Typed, ScansAreTyped
        <2> QED BY <2>1, <2>2 DEF OwnersInv, Owned, ActorsOwn, Busy, ScanPlace
  <1>3. ASSUME NEW p \in Process, DeleteStale(p)
        PROVE  owner = p /\ scan[p] # scan'[p]
        <2>1. PICK new \in Scans, f \in Stale(scan[p]) :
                scan' = [scan EXCEPT ![p] = new] /\ new.seen = scan[p].seen \cup {f}
              BY <1>3, DeleteStaleEffects
        <2>2. scan'[p] = new /\ scan[p].at = "next" /\ StoreOpen(p) /\ f \notin scan[p].seen
              BY <1>3, <2>1 DEF DeleteStale, Stale, OwnersInv, Typed, ScansAreTyped
        <2> QED BY <2>1, <2>2 DEF OwnersInv, Owned, ActorsOwn, Busy, ScanPlace
  <1>4. ASSUME NEW p \in Process, NEW k \in Slot, FlushWrite(p, k)
        PROVE  owner = p /\ flush[p] # flush'[p]
        <2>1. PICK new \in Flushes : flush' = [flush EXCEPT ![p][k] = new] /\ new.at # flush[p][k].at
              BY <1>4, FlushWriteEffects
        <2>2. flush[p][k].at # "idle" /\ StoreOpen(p)
              BY <1>4 DEF FlushWrite, Writing
        <2>3. flush'[p][k] = new
              BY <2>1 DEF OwnersInv, Typed, FlushesAreTyped
        <2> QED BY <2>1, <2>2, <2>3 DEF OwnersInv, Owned, ActorsOwn, Flushing
  <1>5. ASSUME NEW p \in Process, ScanStep(p)
        PROVE  ScanWrite(p) \/ DeleteStale(p) \/ \E rebuild \in BOOLEAN : StartScan(p, rebuild)
        BY <1>5 DEF ScanStep, Begin, Claim, NoWriteLock, ScanFails, Interrupt, Visit, Read, ScanEnds, StoreGone,
           StartWatcher, ForegroundEnds, ghosts
  <1>6. ASSUME NEW p \in Process, NEW k \in Slot, FlushStep(p, k)
        PROVE  FlushWrite(p, k)
        BY <1>6 DEF FlushStep, FlushStart, FlushRead, FlushStat, FlushFails, ghosts
  <1>7. ~Environment /\ ~UNCHANGED vars /\ \A p \in Process : ~Close(p)
        BY DEF Environment, Open, Search, BeginClose, Crash, Edit, Close, vars, ghosts
  <1> QED BY <1>1, <1>2, <1>3, <1>4, <1>5, <1>6, <1>7 DEF Next, ProcessStep

(* The index is written by its owner alone, while claims, scans, flushes,    *)
(* closes and crashes of any number of processes interleave.                *)
THEOREM OnlyOwnersWrite ==
  Spec => OwnerWrites
PROOF
  <1>1. OwnersInv /\ [Next]_vars
          => [index' # index =>
                \E p \in Process : owner = p /\ (scan[p] # scan'[p] \/ flush[p] # flush'[p])]_vars
        BY WritersOwn
  <1> QED BY <1>1, OwnersInvariant, PTL DEF Spec, OwnerWrites

-----------------------------------------------------------------------------
(* The tables, operation by operation                                       *)

(* Who does not own the index is not at work on it.                         *)
LEMMA OthersRest ==
  ASSUME OwnersInv, NEW p \in Process, owner = p
  PROVE  \A q \in Process \ {p} :
           StoreOpen(q) => scan[q].at \notin ScanPlace /\ \A k \in Slot : flush[q][k].at = "idle"
PROOF BY DEF OwnersInv, Owned, ActorsOwn, Busy, Flushing

LEMMA DeletesKeepTables ==
  ASSUME TablesAreTyped, RecordedIsIndexed, SkippingIsSafe, NEW f \in Path, DeleteForPath(f), disk' = disk
  PROVE  /\ RecordedIsIndexed' /\ SkippingIsSafe' /\ skewed' = skewed
         /\ chunks'[f] = {} /\ record'[f] = NoRecord
         /\ \A g \in Path \ {f} :
              chunks'[g] = chunks[g] /\ record'[g] = record[g] /\ (g \in mixed' <=> g \in mixed)
         /\ Reindexing(f) => f \in mixed'
PROOF
  <1>1. /\ chunks'[f] = {} /\ record'[f] = NoRecord
        /\ \A g \in Path \ {f} :
             chunks'[g] = chunks[g] /\ record'[g] = record[g] /\ (g \in mixed' <=> g \in mixed)
        BY DEF DeleteForPath, TablesAreTyped
  <1>2. skewed' = skewed /\ (Reindexing(f) => f \in mixed')
        BY DEF DeleteForPath
  <1> QED BY <1>1, <1>2 DEF RecordedIsIndexed, SkippingIsSafe, Readable, Path

LEMMA UpsertsKeepTables ==
  ASSUME TablesAreTyped, RecordedIsIndexed, SkippingIsSafe, NEW f \in Path, NEW t, UpsertChunks(f, t),
         f \in mixed \/ (chunks[f] = {} /\ record[f] = NoRecord), disk' = disk
  PROVE  /\ RecordedIsIndexed' /\ SkippingIsSafe'
         /\ record' = record /\ mixed' = mixed /\ skewed' = skewed
         /\ f \in mixed \/ chunks'[f] = {t}
         /\ \A g \in Path \ {f} : chunks'[g] = chunks[g]
PROOF
  <1>1. record' = record /\ mixed' = mixed /\ skewed' = skewed
        BY DEF UpsertChunks, ghosts
  <1>2. PICK kept \in SUBSET chunks[f] : chunks' = [chunks EXCEPT ![f] = kept \cup {t}]
        BY DEF UpsertChunks
  <1>3. chunks'[f] = kept \cup {t} /\ \A g \in Path \ {f} : chunks'[g] = chunks[g]
        BY <1>2 DEF TablesAreTyped
  <1>4. f \in mixed \/ (chunks'[f] = {t} /\ record[f] = NoRecord)
        BY <1>3
  <1> QED BY <1>1, <1>3, <1>4 DEF RecordedIsIndexed, SkippingIsSafe, Readable

LEMMA RecordsKeepTables ==
  ASSUME TablesAreTyped, RecordedIsIndexed, SkippingIsSafe, NEW f \in Path, NEW t \in Text, NEW m \in Nat,
         NEW skew \in BOOLEAN, SetFileHash(f, t, m, skew), f \in mixed \/ chunks[f] = {t}, disk' = disk,
         skew \/ (f \in File /\ m = disk[f].mtime => t = disk[f].text)
  PROVE  /\ RecordedIsIndexed' /\ SkippingIsSafe'
         /\ chunks' = chunks /\ mixed' = mixed
         /\ \A g \in Path \ {f} : record'[g] = record[g] /\ (g \in skewed' <=> g \in skewed)
PROOF
  <1>1. chunks' = chunks /\ mixed' = mixed /\ skewed' = IF skew THEN skewed \cup {f} ELSE skewed \ {f}
        BY DEF SetFileHash
  <1>2. /\ record'[f].hash = t /\ record'[f].mtime = m
        /\ \A g \in Path \ {f} : record'[g] = record[g] /\ (g \in skewed' <=> g \in skewed)
        BY <1>1 DEF SetFileHash, TablesAreTyped
  <1>3. RecordedIsIndexed'
        BY <1>1, <1>2 DEF RecordedIsIndexed
  <1>4. ASSUME NEW g \in File \ skewed', record'[g] # NoRecord, record'[g].mtime = disk[g].mtime, Readable(g)
        PROVE  record'[g].hash = disk[g].text
        <2>1. CASE g = f
              BY <1>1, <1>2, <1>4, <2>1
        <2>2. CASE g # f
              BY <1>2, <1>4, <2>2 DEF SkippingIsSafe, Path
        <2> QED BY <2>1, <2>2
  <1>5. SkippingIsSafe'
        BY <1>4 DEF SkippingIsSafe, Readable
  <1> QED BY <1>1, <1>2, <1>3, <1>5

-----------------------------------------------------------------------------
(* The tables, step by step                                                 *)

(* A step that neither touches the tables nor goes on with a reindex.        *)
LEMMA QuietStepsKeepIndex ==
  ASSUME Indexed, UNCHANGED <<disk, chunks, record, mixed, skewed>>,
         \A p \in Process :
           /\ StoreOpen(p)' => StoreOpen(p)
           /\ scan'[p] = scan[p] \/ scan'[p].at \notin ScanPlace
           /\ \A k \in Slot : flush'[p][k] = flush[p][k] \/ flush'[p][k].at \in {"idle", "next"}
  PROVE  Indexed'
PROOF
  <1>1. RecordedIsIndexed' /\ SkippingIsSafe'
        BY DEF Indexed, RecordedIsIndexed, SkippingIsSafe, Readable
  <1>2. ReindexesAreAlone'
        <2>1. ASSUME NEW p \in Process, StoreOpen(p)'
              PROVE  /\ Midway(scan[p])' /\ \A k \in Slot : Midway(flush[p][k])'
                     /\ \A k, i \in Slot :
                          k # i /\ {flush'[p][k].at, flush'[p][i].at} \subseteq {"upsert", "record"}
                            /\ flush'[p][k].path = flush'[p][i].path => flush'[p][k].path \in mixed'
              <3>1. StoreOpen(p)
                    BY <2>1
              <3>2. Midway(scan[p])'
                    BY <3>1 DEF Indexed, ReindexesAreAlone, Midway, ScanPlace
              <3>3. ASSUME NEW k \in Slot
                    PROVE  Midway(flush[p][k])'
                    <4>1. CASE flush'[p][k] = flush[p][k]
                          <5>1. Midway(flush[p][k])
                                BY <3>1 DEF Indexed, ReindexesAreAlone
                          <5> QED BY <4>1, <5>1 DEF Midway
                    <4>2. CASE flush'[p][k].at \in {"idle", "next"}
                          BY <4>2 DEF Midway
                    <4> QED BY <4>1, <4>2
              <3> QED BY <3>1, <3>2, <3>3 DEF Indexed, ReindexesAreAlone
        <2> QED BY <2>1 DEF ReindexesAreAlone
  <1>3. KnownIsRecorded'
        BY DEF Indexed, KnownIsRecorded
  <1>4. ScanTextIsCurrent'
        BY DEF Indexed, ScanTextIsCurrent, ScanPlace
  <1>5. FlushTextIsCurrent'
        BY DEF Indexed, FlushTextIsCurrent
  <1> QED BY <1>1, <1>2, <1>3, <1>4, <1>5 DEF Indexed

(* What an owner's scan has to show for itself: nobody else is at work.      *)
LEMMA ScanStepsKeepIndex ==
  ASSUME IndexInv, NEW p \in Process, owner = p, StoreOpen(p), scan[p].at # "idle",
         NEW new, scan'[p] = new, \A q \in Process \ {p} : scan'[q] = scan[q],
         phase' = phase, flush' = flush, disk' = disk,
         RecordedIsIndexed', SkippingIsSafe', Midway(new)',
         new.at \in ScanPlace => \A f \in new.todo : record'[f] = new.known[f],
         new.at = "read" => record'[new.path] = new.known[new.path],
         new.at \in {"delete", "upsert", "record"} /\ new.stamp[new.path] = disk[new.path].mtime /\ new.path \in File
           => new.text = disk[new.path].text
  PROVE  Indexed'
PROOF
  <1>1. /\ \A q \in Process \ {p} : StoreOpen(q) => scan[q].at \notin ScanPlace
        /\ \A q \in Process, k \in Slot : StoreOpen(q) => flush[q][k].at = "idle"
        BY OthersRest DEF IndexInv, OwnersInv, Owned, ScanOrFollow, Flushing
  <1>2. \A q \in Process : StoreOpen(q)' <=> StoreOpen(q)
        BY DEF StoreOpen
  <1>3. ReindexesAreAlone'
        <2>1. ASSUME NEW q \in Process, StoreOpen(q)
              PROVE  Midway(scan[q])' /\ \A k \in Slot : Midway(flush[q][k])'
              <3>1. \A k \in Slot : Midway(flush[q][k])'
                    BY <1>1, <2>1 DEF Midway
              <3>2. CASE q = p
                    BY <3>1, <3>2 DEF Midway
              <3>3. CASE q # p
                    BY <1>1, <2>1, <3>1, <3>3 DEF Midway, ScanPlace
              <3> QED BY <3>2, <3>3
        <2> QED BY <1>1, <1>2, <2>1 DEF ReindexesAreAlone
  <1>4. KnownIsRecorded'
        BY <1>1, <1>2 DEF KnownIsRecorded, ScanPlace
  <1>5. ScanTextIsCurrent'
        BY DEF IndexInv, Indexed, ScanTextIsCurrent
  <1>6. FlushTextIsCurrent'
        BY DEF IndexInv, Indexed, FlushTextIsCurrent
  <1> QED BY <1>3, <1>4, <1>5, <1>6 DEF Indexed

LEMMA StartScanKeepsIndex ==
  ASSUME IndexInv, NEW p \in Process, NEW rebuild \in BOOLEAN, StartScan(p, rebuild)
  PROVE  Indexed'
PROOF
  <1>1. PICK new \in Scans :
          /\ scan' = [scan EXCEPT ![p] = new] /\ new.at = "next" /\ new.known = record'
        BY StartScanEffects DEF IndexInv
  <1>2. scan'[p] = new /\ \A q \in Process \ {p} : scan'[q] = scan[q]
        BY <1>1 DEF IndexInv, OwnersInv, Typed, ScansAreTyped
  <1>3. /\ scan[p].at = "lock" /\ StoreOpen(p)
        /\ UNCHANGED <<disk, phase, flush, mixed, skewed>>
        BY DEF StartScan, world, ghosts
  <1>4. owner = p
        BY <1>3 DEF IndexInv, OwnersInv, Owned, ActorsOwn, Busy
  <1>5. RecordedIsIndexed' /\ SkippingIsSafe'
        <2>1. CASE rebuild
              <3>1. \A f \in Path : record'[f] = NoRecord
                    BY <2>1 DEF StartScan, Clear
              <3> QED BY <3>1 DEF RecordedIsIndexed, SkippingIsSafe, Path
        <2>2. CASE ~rebuild
              <3>1. chunks' = chunks /\ record' = record
                    BY <2>2 DEF StartScan, index
              <3> QED BY <1>3, <3>1 DEF IndexInv, Indexed, RecordedIsIndexed, SkippingIsSafe, Readable
        <2> QED BY <2>1, <2>2
  <1>6. Midway(new)'
        BY <1>1 DEF Midway
  <1> QED BY <1>1, <1>2, <1>3, <1>4, <1>5, <1>6, ScanStepsKeepIndex

(* A scan under way that leaves the tables alone.                           *)
LEMMA TablesStay ==
  ASSUME Indexed, UNCHANGED <<disk, chunks, record, mixed, skewed>>
  PROVE  RecordedIsIndexed' /\ SkippingIsSafe'
PROOF BY DEF Indexed, RecordedIsIndexed, SkippingIsSafe, Readable

LEMMA VisitKeepsIndex ==
  ASSUME IndexInv, NEW p \in Process, Visit(p), StoreOpen(p)
  PROVE  Indexed'
PROOF
  <1>1. PICK new \in Scans, f \in scan[p].todo :
          /\ scan' = [scan EXCEPT ![p] = new] /\ SameScan(new, scan[p]) /\ new.todo = scan[p].todo \ {f}
          /\ new.at = "next" \/ (new.at = "read" /\ new.path = f)
        BY VisitEffects DEF IndexInv
  <1>2. scan'[p] = new /\ \A q \in Process \ {p} : scan'[q] = scan[q]
        BY <1>1 DEF IndexInv, OwnersInv, Typed, ScansAreTyped
  <1>3. /\ scan[p].at = "next"
        /\ UNCHANGED <<disk, phase, flush, chunks, record, mixed, skewed>>
        BY DEF Visit, world, index, ghosts
  <1>4. owner = p
        BY <1>3 DEF IndexInv, OwnersInv, Owned, ActorsOwn, Busy, ScanPlace
  <1>5. RecordedIsIndexed' /\ SkippingIsSafe'
        BY <1>3, TablesStay DEF IndexInv
  <1>6. Midway(new)'
        BY <1>1 DEF Midway
  <1>7. \A g \in scan[p].todo : record[g] = scan[p].known[g]
        BY <1>3 DEF IndexInv, Indexed, KnownIsRecorded, ScanPlace
  <1>8. new.known = scan[p].known
        BY <1>1 DEF SameScan
  <1> QED BY <1>1, <1>2, <1>3, <1>4, <1>5, <1>6, <1>7, <1>8, ScanStepsKeepIndex

LEMMA ReadKeepsIndex ==
  ASSUME IndexInv, NEW p \in Process, Read(p), StoreOpen(p)
  PROVE  Indexed'
PROOF
  <1> DEFINE j == scan[p]
             t == disk[j.path].text
  <1>1. PICK new \in Scans :
               /\ scan' = [scan EXCEPT ![p] = new] /\ SameScan(new, j)
               /\ new.todo = j.todo
               /\ \/ new.at = "next"
                  \/ t \in Text /\ new.at = "delete" /\ new.path = j.path /\ new.text = t
                  \/ /\ t \in Text /\ j.known[j.path] # NoRecord /\ j.known[j.path].hash = t
                     /\ new.path = j.path /\ new.text = t
                     /\ new.at = IF j.path \in File THEN "record" ELSE "next"
        BY ReadEffects DEF IndexInv
  <1>2. scan'[p] = new /\ \A q \in Process \ {p} : scan'[q] = scan[q]
        BY <1>1 DEF IndexInv, OwnersInv, Typed, ScansAreTyped
  <1>3. /\ j.at = "read" /\ UNCHANGED <<disk, phase, flush, chunks, record, mixed, skewed>>
        BY DEF Read, world, index, ghosts
  <1>4. owner = p /\ j.path \in Path
        BY <1>3 DEF IndexInv, OwnersInv, Owned, ActorsOwn, Busy, ScanPlace, Typed, ScansAreTyped, ScanIsTyped, PathPlace
  <1>5. RecordedIsIndexed' /\ SkippingIsSafe'
        BY <1>3, TablesStay DEF IndexInv
  <1>6. /\ \A g \in j.todo : record[g] = j.known[g]
        /\ record[j.path] = j.known[j.path]
        BY <1>3 DEF IndexInv, Indexed, KnownIsRecorded, ScanPlace
  <1>7. j.path \in mixed \/ j.known[j.path] = NoRecord \/ chunks[j.path] = {j.known[j.path].hash}
        BY <1>4, <1>6 DEF IndexInv, Indexed, RecordedIsIndexed
  <1>8. Midway(new)'
        BY <1>1, <1>3, <1>7 DEF Midway
  <1>9. new.known = j.known
        BY <1>1 DEF SameScan
  <1>10. new.at \in {"delete", "upsert", "record"} => new.text = disk[new.path].text
         BY <1>1
  <1>11. new.at # "read" /\ (new.at \in ScanPlace => \A f \in new.todo : record'[f] = new.known[f])
         BY <1>1, <1>3, <1>6, <1>9
  <1> QED BY <1>1, <1>2, <1>3, <1>4, <1>5, <1>8, <1>10, <1>11, ScanStepsKeepIndex

LEMMA ScanWriteKeepsIndex ==
  ASSUME IndexInv, NEW p \in Process, ScanWrite(p)
  PROVE  Indexed'
PROOF
  <1> DEFINE j == scan[p]
  <1>1. PICK new \in Scans :
               /\ scan' = [scan EXCEPT ![p] = new] /\ SameScan(new, j) /\ new.todo = j.todo
               /\ j.at = "record" \/ (new.path = j.path /\ new.text = j.text /\ new.stamp = j.stamp)
               /\ \/ j.at = "delete" /\ new.at = "upsert" /\ DeleteForPath(j.path)
                  \/ j.at = "upsert" /\ new.at = "record" /\ UpsertChunks(j.path, j.text)
                  \/ j.at = "record" /\ new.at = "next" /\ SetFileHash(j.path, j.text, j.stamp[j.path], FALSE)
        BY ScanWriteEffects DEF IndexInv
  <1>2. scan'[p] = new /\ \A q \in Process \ {p} : scan'[q] = scan[q]
        BY <1>1 DEF IndexInv, OwnersInv, Typed, ScansAreTyped
  <1>3. /\ j.at \in {"delete", "upsert", "record"} /\ StoreOpen(p) /\ UNCHANGED <<disk, phase, flush>>
        BY DEF ScanWrite, world
  <1>4. /\ j \in Scans /\ j.path \in Path /\ j.path \notin j.todo /\ j.text \in Text
        BY <1>3 DEF IndexInv, OwnersInv, Typed, ScansAreTyped, ScanIsTyped, PathPlace
  <1>5. owner = p
        BY <1>3 DEF IndexInv, OwnersInv, Owned, ActorsOwn, Busy, ScanPlace
  <1>6. TablesAreTyped /\ RecordedIsIndexed /\ SkippingIsSafe /\ Midway(j)
        BY <1>3 DEF IndexInv, OwnersInv, Typed, Indexed, ReindexesAreAlone
  <1>7. /\ \A g \in j.todo : g \in Path /\ g # j.path /\ record[g] = j.known[g]
        BY <1>3, <1>4 DEF IndexInv, Indexed, KnownIsRecorded, ScanPlace, Scans
  <1>8. j.stamp[j.path] = disk[j.path].mtime /\ j.path \in File => j.text = disk[j.path].text
        BY <1>3 DEF IndexInv, Indexed, ScanTextIsCurrent
  <1>9. new.known = j.known /\ new.at # "read"
        BY <1>1 DEF SameScan
  <1> HIDE DEF j
  <1>10. /\ RecordedIsIndexed' /\ SkippingIsSafe' /\ Midway(new)'
         /\ \A g \in Path \ {j.path} : record'[g] = record[g]
         <2>1. CASE j.at = "delete"
               <3>1. /\ RecordedIsIndexed' /\ SkippingIsSafe' /\ chunks'[j.path] = {} /\ record'[j.path] = NoRecord
                     /\ \A g \in Path \ {j.path} : record'[g] = record[g]
                     BY <1>1, <1>3, <1>4, <1>6, <2>1, DeletesKeepTables
               <3>2. new.at = "upsert" /\ new.path = j.path
                     BY <1>1, <2>1
               <3> QED BY <3>1, <3>2 DEF Midway
         <2>2. CASE j.at = "upsert"
               <3>1. j.path \in mixed \/ (chunks[j.path] = {} /\ record[j.path] = NoRecord)
                     BY <1>6, <2>2 DEF Midway
               <3>2. UpsertChunks(j.path, j.text) /\ new.at = "record" /\ new.path = j.path /\ new.text = j.text
                     BY <1>1, <2>2
               <3>3. /\ RecordedIsIndexed' /\ SkippingIsSafe' /\ record' = record /\ mixed' = mixed
                     /\ j.path \in mixed \/ chunks'[j.path] = {j.text}
                     BY <1>3, <1>4, <1>6, <3>1, <3>2, UpsertsKeepTables
               <3> QED BY <3>2, <3>3 DEF Midway
         <2>3. CASE j.at = "record"
               <3>1. j.path \in mixed \/ chunks[j.path] = {j.text}
                     BY <1>6, <2>3 DEF Midway
               <3>2. SetFileHash(j.path, j.text, j.stamp[j.path], FALSE) /\ new.at = "next"
                     BY <1>1, <2>3
               <3>3. j.stamp[j.path] \in Nat
                     BY <1>4 DEF Scans
               <3>4. /\ RecordedIsIndexed' /\ SkippingIsSafe'
                     /\ \A g \in Path \ {j.path} : record'[g] = record[g]
                     <4>1. FALSE \in BOOLEAN /\ (j.path \in File /\ j.stamp[j.path] = disk[j.path].mtime
                                                   => j.text = disk[j.path].text)
                           BY <1>8
                     <4> QED BY <1>3, <1>4, <1>6, <3>1, <3>2, <3>3, <4>1, RecordsKeepTables
               <3> QED BY <3>2, <3>4 DEF Midway
         <2> QED BY <1>3, <2>1, <2>2, <2>3
  <1>11. /\ new.at \in {"delete", "upsert", "record"} /\ new.stamp[new.path] = disk[new.path].mtime /\ new.path \in File
             => new.text = disk[new.path].text
         /\ new.at \in ScanPlace => \A f \in new.todo : record'[f] = new.known[f]
         BY <1>1, <1>7, <1>8, <1>9, <1>10
  <1>12. scan[p].at # "idle"
         BY <1>3 DEF j
  <1> QED BY <1>2, <1>3, <1>5, <1>9, <1>10, <1>11, <1>12, ScanStepsKeepIndex

LEMMA DeleteStaleKeepsIndex ==
  ASSUME IndexInv, NEW p \in Process, DeleteStale(p)
  PROVE  Indexed'
PROOF
  <1>1. PICK new \in Scans, f \in Stale(scan[p]) :
          /\ scan' = [scan EXCEPT ![p] = new] /\ new.at = "next" /\ new.todo = {} /\ DeleteForPath(f)
        BY DeleteStaleEffects DEF IndexInv
  <1>2. scan'[p] = new /\ \A q \in Process \ {p} : scan'[q] = scan[q]
        BY <1>1 DEF IndexInv, OwnersInv, Typed, ScansAreTyped
  <1>3. /\ scan[p].at = "next" /\ StoreOpen(p) /\ UNCHANGED <<disk, phase, flush>>
        BY DEF DeleteStale, world
  <1>4. owner = p
        BY <1>3 DEF IndexInv, OwnersInv, Owned, ActorsOwn, Busy, ScanPlace
  <1>5. RecordedIsIndexed' /\ SkippingIsSafe'
        BY <1>1, <1>3, DeletesKeepTables DEF IndexInv, OwnersInv, Typed, Indexed, Stale
  <1>6. Midway(new)'
        BY <1>1 DEF Midway
  <1> QED BY <1>1, <1>2, <1>3, <1>4, <1>5, <1>6, ScanStepsKeepIndex

(* The scan of a closed indexer goes on to the next operation of the store.  *)
LEMMA ClosedScansKeepIndex ==
  ASSUME IndexInv, NEW p \in Process, ~StoreOpen(p),
         NEW new, scan'[p] = new, \A q \in Process \ {p} : scan'[q] = scan[q],
         UNCHANGED <<disk, chunks, record, mixed, skewed, phase, flush>>,
         new.at \in {"delete", "upsert", "record"} => new.text = disk[new.path].text
  PROVE  Indexed'
PROOF
  <1>1. RecordedIsIndexed' /\ SkippingIsSafe'
        BY TablesStay DEF IndexInv
  <1>2. \A q \in Process : StoreOpen(q)' => StoreOpen(q) /\ q # p /\ scan'[q] = scan[q]
        BY DEF StoreOpen
  <1>3. ReindexesAreAlone'
        <2>1. ASSUME NEW q \in Process, StoreOpen(q)'
              PROVE  Midway(scan[q])' /\ \A k \in Slot : Midway(flush[q][k])'
              <3>1. Midway(scan[q]) /\ \A k \in Slot : Midway(flush[q][k])
                    BY <1>2, <2>1 DEF IndexInv, Indexed, ReindexesAreAlone
              <3> QED BY <1>2, <2>1, <3>1 DEF Midway
        <2> QED BY <1>2, <2>1 DEF IndexInv, Indexed, ReindexesAreAlone
  <1>4. KnownIsRecorded'
        BY <1>2 DEF IndexInv, Indexed, KnownIsRecorded
  <1>5. ScanTextIsCurrent'
        BY DEF IndexInv, Indexed, ScanTextIsCurrent
  <1>6. FlushTextIsCurrent'
        BY DEF IndexInv, Indexed, FlushTextIsCurrent
  <1> QED BY <1>1, <1>3, <1>4, <1>5, <1>6 DEF Indexed

LEMMA ClosedLooksKeepIndex ==
  ASSUME IndexInv, NEW p \in Process, Visit(p) \/ Read(p), ~StoreOpen(p)
  PROVE  Indexed'
PROOF
  <1>1. PICK new \in Scans :
          /\ scan' = [scan EXCEPT ![p] = new]
          /\ new.at \in {"delete", "upsert", "record"} => new.text = disk[new.path].text
        <2>1. CASE Visit(p)
              <3>1. PICK new \in Scans, f \in scan[p].todo :
                      scan' = [scan EXCEPT ![p] = new] /\ (new.at = "next" \/ new.at = "read")
                    BY <2>1, VisitEffects DEF IndexInv
              <3> QED BY <3>1
        <2>2. CASE Read(p)
              <3> DEFINE j == scan[p]
                         t == disk[j.path].text
              <3>1. PICK new \in Scans :
                      /\ scan' = [scan EXCEPT ![p] = new]
                      /\ \/ new.at = "next"
                         \/ new.path = j.path /\ new.text = t
                    BY <2>2, ReadEffects DEF IndexInv
              <3> QED BY <3>1
        <2> QED BY <2>1, <2>2
  <1>2. scan'[p] = new /\ \A q \in Process \ {p} : scan'[q] = scan[q]
        BY <1>1 DEF IndexInv, OwnersInv, Typed, ScansAreTyped
  <1>3. UNCHANGED <<disk, chunks, record, mixed, skewed, phase, flush>>
        BY DEF Visit, Read, world, index, ghosts
  <1> QED BY <1>1, <1>2, <1>3, ClosedScansKeepIndex

(* What a flush of the owner has to show for itself: its scan is over, and   *)
(* only its other flush may be at work.                                     *)
LEMMA FlushStepsKeepIndex ==
  ASSUME IndexInv, NEW p \in Process, NEW k \in Slot, owner = p, StoreOpen(p), flush[p][k].at # "idle",
         NEW new, flush'[p][k] = new,
         \A q \in Process, i \in Slot : q # p \/ i # k => flush'[q][i] = flush[q][i],
         scan' = scan, phase' = phase, disk' = disk,
         RecordedIsIndexed', SkippingIsSafe', Midway(new)',
         \A i \in Slot \ {k} : Midway(flush[p][i])',
         \A i \in Slot \ {k} : {new.at, flush[p][i].at} \subseteq {"upsert", "record"} /\ new.path = flush[p][i].path
           => new.path \in mixed',
         new.at \in {"stat", "delete", "upsert", "record"} /\ new.readAt = disk[new.path].mtime
           => new.text = disk[new.path].text
  PROVE  Indexed'
PROOF
  <1>1. /\ \A q \in Process : StoreOpen(q) => scan[q].at \notin ScanPlace
        /\ \A q \in Process \ {p}, i \in Slot : StoreOpen(q) => flush[q][i].at = "idle"
        BY OthersRest DEF IndexInv, OwnersInv, Owned, ScanOrFollow, Flushing, ScanPlace
  <1>2. \A q \in Process : StoreOpen(q)' <=> StoreOpen(q)
        BY DEF StoreOpen
  <1>3. ReindexesAreAlone'
        <2>1. ASSUME NEW q \in Process, StoreOpen(q)
              PROVE  Midway(scan[q])' /\ \A i \in Slot : Midway(flush[q][i])'
              <3>1. Midway(scan[q])'
                    BY <1>1, <2>1 DEF Midway, ScanPlace
              <3>2. CASE q = p
                    <4>1. ASSUME NEW i \in Slot
                          PROVE  Midway(flush[q][i])'
                          <5>1. CASE i = k
                                BY <3>2, <5>1 DEF Midway
                          <5>2. CASE i # k
                                <6>1. Midway(flush[p][i])'
                                      BY <5>2
                                <6> QED BY <3>2, <6>1
                          <5> QED BY <5>1, <5>2
                    <4> QED BY <3>1, <4>1
              <3>3. CASE q # p
                    BY <1>1, <2>1, <3>1, <3>3 DEF Midway
              <3> QED BY <3>2, <3>3
        <2>2. ASSUME NEW q \in Process, StoreOpen(q), NEW h \in Slot, NEW i \in Slot, h # i,
                     {flush'[q][h].at, flush'[q][i].at} \subseteq {"upsert", "record"},
                     flush'[q][h].path = flush'[q][i].path
              PROVE  flush'[q][h].path \in mixed'
              <3>1. q = p
                    BY <1>1, <2>2
              <3>2. CASE h = k
                    BY <2>2, <3>1, <3>2
              <3>3. CASE i = k
                    BY <2>2, <3>1, <3>3
              <3> QED BY <2>2, <3>2, <3>3 DEF Slot
        <2> QED BY <1>2, <2>1, <2>2 DEF ReindexesAreAlone
  <1>4. KnownIsRecorded'
        BY <1>1, <1>2 DEF KnownIsRecorded
  <1>5. ScanTextIsCurrent'
        BY DEF IndexInv, Indexed, ScanTextIsCurrent
  <1>6. FlushTextIsCurrent'
        BY DEF IndexInv, Indexed, FlushTextIsCurrent
  <1> QED BY <1>3, <1>4, <1>5, <1>6 DEF Indexed

(* A flush that has read a file, or its mtime.                              *)
LEMMA FlushLooksKeepIndex ==
  ASSUME IndexInv, NEW p \in Process, NEW k \in Slot, FlushRead(p, k) \/ FlushStat(p, k)
  PROVE  Indexed'
PROOF
  <1>1. PICK new \in Flushes :
          /\ flush' = [flush EXCEPT ![p][k] = new] /\ new.at \in {"stat", "delete", "drop"}
          /\ new.at # "drop" /\ new.readAt = disk[new.path].mtime => new.text = disk[new.path].text
        <2>1. CASE FlushRead(p, k)
              <3>1. PICK new \in Flushes, f \in File :
                      /\ flush' = [flush EXCEPT ![p][k] = new]
                      /\ new.path = f /\ new.text = disk[f].text /\ new.at \in {"stat", "drop"}
                    BY <2>1, FlushReadEffects DEF IndexInv
              <3> QED BY <3>1
        <2>2. CASE FlushStat(p, k)
              <3>1. PICK new \in Flushes :
                      /\ flush' = [flush EXCEPT ![p][k] = new]
                      /\ new.path = flush[p][k].path /\ new.text = flush[p][k].text
                      /\ new.readAt = flush[p][k].readAt /\ new.at \in {"delete", "drop"}
                    BY <2>2, FlushStatEffects DEF IndexInv
              <3>2. flush[p][k].at = "stat"
                    BY <2>2 DEF FlushStat
              <3>3. flush[p][k].readAt = disk[flush[p][k].path].mtime
                      => flush[p][k].text = disk[flush[p][k].path].text
                    BY <3>2 DEF IndexInv, Indexed, FlushTextIsCurrent
              <3> QED BY <3>1, <3>3
        <2> QED BY <2>1, <2>2
  <1>2. /\ flush'[p][k] = new
        /\ \A q \in Process, i \in Slot : q # p \/ i # k => flush'[q][i] = flush[q][i]
        BY <1>1 DEF IndexInv, OwnersInv, Typed, FlushesAreTyped
  <1>3. /\ flush[p][k].at # "idle" /\ UNCHANGED <<disk, chunks, record, mixed, skewed, phase, scan>>
        BY DEF FlushRead, FlushStat, world, index, ghosts
  <1>4. RecordedIsIndexed' /\ SkippingIsSafe'
        BY <1>3, TablesStay DEF IndexInv
  <1>5. FlushTextIsCurrent'
        BY <1>1, <1>2, <1>3 DEF IndexInv, Indexed, FlushTextIsCurrent
  <1>6. ReindexesAreAlone'
        <2>1. ASSUME NEW q \in Process, StoreOpen(q)'
              PROVE  /\ Midway(scan[q])' /\ \A i \in Slot : Midway(flush[q][i])'
                     /\ \A h, i \in Slot :
                          h # i /\ {flush'[q][h].at, flush'[q][i].at} \subseteq {"upsert", "record"}
                            /\ flush'[q][h].path = flush'[q][i].path => flush'[q][h].path \in mixed'
              <3>1. StoreOpen(q)
                    BY <1>3, <2>1 DEF StoreOpen
              <3>2. Midway(scan[q])'
                    BY <1>3, <3>1 DEF IndexInv, Indexed, ReindexesAreAlone, Midway
              <3>3. ASSUME NEW i \in Slot
                    PROVE  Midway(flush[q][i])'
                    <4>1. CASE q = p /\ i = k
                          BY <1>1, <1>2, <4>1 DEF Midway
                    <4>2. CASE q # p \/ i # k
                          <5>1. Midway(flush[q][i])
                                BY <3>1 DEF IndexInv, Indexed, ReindexesAreAlone
                          <5> QED BY <1>2, <1>3, <4>2, <5>1 DEF Midway
                    <4> QED BY <4>1, <4>2
              <3>4. ASSUME NEW h \in Slot, NEW i \in Slot, h # i,
                           {flush'[q][h].at, flush'[q][i].at} \subseteq {"upsert", "record"},
                           flush'[q][h].path = flush'[q][i].path
                    PROVE  flush'[q][h].path \in mixed'
                    <4>1. flush'[q][h] = flush[q][h] /\ flush'[q][i] = flush[q][i]
                          BY <1>1, <1>2, <3>4
                    <4> QED BY <1>3, <3>1, <3>4, <4>1 DEF IndexInv, Indexed, ReindexesAreAlone
              <3> QED BY <3>2, <3>3, <3>4
        <2> QED BY <2>1 DEF ReindexesAreAlone
  <1>7. KnownIsRecorded' /\ ScanTextIsCurrent'
        BY <1>3 DEF IndexInv, Indexed, KnownIsRecorded, ScanTextIsCurrent, StoreOpen
  <1> QED BY <1>4, <1>5, <1>6, <1>7 DEF Indexed

LEMMA FlushWriteKeepsIndex ==
  ASSUME IndexInv, NEW p \in Process, NEW k \in Slot, FlushWrite(p, k)
  PROVE  Indexed'
PROOF
  <1> DEFINE j == flush[p][k]
  <1>1. PICK new \in Flushes :
          /\ flush' = [flush EXCEPT ![p][k] = new]
          /\ new.at \in {"idle", "next"} \/ (new.path = j.path /\ new.text = j.text /\ new.readAt = j.readAt)
          /\ \/ j.at = "drop" /\ new.at \in {"idle", "next"} /\ DeleteForPath(j.path)
             \/ j.at = "delete" /\ new.at = "upsert" /\ DeleteForPath(j.path)
             \/ j.at = "upsert" /\ new.at = "record" /\ UpsertChunks(j.path, j.text)
             \/ /\ j.at = "record" /\ new.at \in {"idle", "next"}
                /\ SetFileHash(j.path, j.text, j.stamp, j.readAt # j.stamp)
        BY FlushWriteEffects DEF IndexInv
  <1>2. /\ flush'[p][k] = new
        /\ \A q \in Process, i \in Slot : q # p \/ i # k => flush'[q][i] = flush[q][i]
        BY <1>1 DEF IndexInv, OwnersInv, Typed, FlushesAreTyped
  <1>3. j.at \in Writing /\ StoreOpen(p) /\ UNCHANGED <<disk, phase, scan>>
        BY DEF FlushWrite, world
  <1>4. owner = p /\ j.at # "idle"
        BY <1>3 DEF IndexInv, OwnersInv, Owned, ActorsOwn, Flushing, Writing
  <1>5. /\ j \in Flushes /\ j.path \in File /\ j.path \in Path
        /\ j.at # "drop" => j.text \in Text
        BY <1>3 DEF IndexInv, OwnersInv, Typed, FlushesAreTyped, FlushIsTyped, Writing, Path
  <1>6. TablesAreTyped /\ RecordedIsIndexed /\ SkippingIsSafe /\ Midway(j)
        BY <1>3 DEF IndexInv, OwnersInv, Typed, Indexed, ReindexesAreAlone
  <1>7. j.at # "drop" /\ j.readAt = disk[j.path].mtime => j.text = disk[j.path].text
        BY <1>3 DEF IndexInv, Indexed, FlushTextIsCurrent, Writing
  <1>8. ASSUME NEW i \in Slot \ {k}
        PROVE  /\ Midway(flush[p][i])
               /\ flush[p][i].at \in {"upsert", "record"} => flush[p][i].path \in Path
               /\ {j.at, flush[p][i].at} \subseteq {"upsert", "record"} /\ j.path = flush[p][i].path
                    => j.path \in mixed
               /\ flush[p][i].at \in {"upsert", "record"} /\ j.path = flush[p][i].path => Reindexing(j.path)
        <2>1. Midway(flush[p][i])
              BY <1>3 DEF IndexInv, Indexed, ReindexesAreAlone
        <2>2. flush[p][i].at \in {"upsert", "record"} => flush[p][i].path \in Path
              BY DEF IndexInv, OwnersInv, Typed, FlushesAreTyped, FlushIsTyped, Writing, Path
        <2>3. {j.at, flush[p][i].at} \subseteq {"upsert", "record"} /\ j.path = flush[p][i].path => j.path \in mixed
              BY <1>3 DEF IndexInv, Indexed, ReindexesAreAlone
        <2>4. flush[p][i].at \in {"upsert", "record"} /\ j.path = flush[p][i].path => Reindexing(j.path)
              BY DEF Reindexing
        <2> QED BY <2>1, <2>2, <2>3, <2>4
  <1> HIDE DEF j
  <1> DEFINE Kept == /\ RecordedIsIndexed' /\ SkippingIsSafe' /\ Midway(new)'
                     /\ \A i \in Slot \ {k} : Midway(flush[p][i])'
                     /\ \A i \in Slot \ {k} :
                          {new.at, flush[p][i].at} \subseteq {"upsert", "record"} /\ new.path = flush[p][i].path
                            => new.path \in mixed'
  <1>9. ASSUME j.at \in {"drop", "delete"}
        PROVE  Kept
        <2>1. DeleteForPath(j.path) /\ new.at \in {"idle", "next", "upsert"} /\ (new.at = "upsert" => new.path = j.path)
              BY <1>1, <1>9
        <2>2. /\ RecordedIsIndexed' /\ SkippingIsSafe'
              /\ chunks'[j.path] = {} /\ record'[j.path] = NoRecord
              /\ \A g \in Path \ {j.path} :
                   chunks'[g] = chunks[g] /\ record'[g] = record[g] /\ (g \in mixed' <=> g \in mixed)
              /\ Reindexing(j.path) => j.path \in mixed'
              BY <1>3, <1>5, <1>6, <2>1, DeletesKeepTables
        <2>3. Midway(new)'
              BY <2>1, <2>2 DEF Midway
        <2>4. ASSUME NEW i \in Slot \ {k}
              PROVE  Midway(flush[p][i])'
              <3>1. flush'[p][i] = flush[p][i]
                    BY <1>2, <2>4
              <3>2. CASE flush[p][i].at \notin {"upsert", "record"}
                    BY <3>1, <3>2 DEF Midway
              <3>3. CASE flush[p][i].at \in {"upsert", "record"} /\ flush[p][i].path = j.path
                    BY <1>8, <2>2, <2>4, <3>1, <3>3 DEF Midway
              <3>4. CASE flush[p][i].at \in {"upsert", "record"} /\ flush[p][i].path # j.path
                    <4>1. flush[p][i].path \in Path \ {j.path} /\ Midway(flush[p][i])
                          BY <1>8, <2>4, <3>4
                    <4>2. /\ chunks'[flush[p][i].path] = chunks[flush[p][i].path]
                          /\ record'[flush[p][i].path] = record[flush[p][i].path]
                          /\ flush[p][i].path \in mixed <=> flush[p][i].path \in mixed'
                          BY <2>2, <4>1
                    <4> QED BY <3>1, <4>1, <4>2 DEF Midway
              <3> QED BY <3>2, <3>3, <3>4
        <2>5. ASSUME NEW i \in Slot \ {k}, {new.at, flush[p][i].at} \subseteq {"upsert", "record"},
                     new.path = flush[p][i].path
              PROVE  new.path \in mixed'
              BY <1>8, <2>1, <2>2, <2>5
        <2> QED BY <2>2, <2>3, <2>4, <2>5
  <1>10. ASSUME j.at = "upsert"
         PROVE  Kept
        <2>1. UpsertChunks(j.path, j.text) /\ new.at = "record" /\ new.path = j.path /\ new.text = j.text
              BY <1>1, <1>10
        <2>2. j.path \in mixed \/ (chunks[j.path] = {} /\ record[j.path] = NoRecord)
              BY <1>6, <1>10 DEF Midway
        <2>3. /\ RecordedIsIndexed' /\ SkippingIsSafe' /\ record' = record /\ mixed' = mixed
              /\ j.path \in mixed \/ chunks'[j.path] = {j.text}
              /\ \A g \in Path \ {j.path} : chunks'[g] = chunks[g]
              BY <1>3, <1>5, <1>6, <1>10, <2>1, <2>2, UpsertsKeepTables
        <2>4. Midway(new)'
              BY <2>1, <2>3 DEF Midway
        <2>5. ASSUME NEW i \in Slot \ {k}
              PROVE  Midway(flush[p][i])'
              <3>1. flush'[p][i] = flush[p][i]
                    BY <1>2, <2>5
              <3>2. CASE flush[p][i].at \notin {"upsert", "record"}
                    BY <3>1, <3>2 DEF Midway
              <3>3. CASE flush[p][i].at \in {"upsert", "record"} /\ flush[p][i].path = j.path
                    <4>1. j.path \in mixed
                          BY <1>8, <1>10, <2>5, <3>3
                    <4> QED BY <2>3, <3>1, <3>3, <4>1 DEF Midway
              <3>4. CASE flush[p][i].at \in {"upsert", "record"} /\ flush[p][i].path # j.path
                    <4>1. flush[p][i].path \in Path \ {j.path} /\ Midway(flush[p][i])
                          BY <1>8, <2>5, <3>4
                    <4>2. /\ chunks'[flush[p][i].path] = chunks[flush[p][i].path]
                          /\ record'[flush[p][i].path] = record[flush[p][i].path]
                          /\ flush[p][i].path \in mixed <=> flush[p][i].path \in mixed'
                          BY <2>3, <4>1
                    <4> QED BY <3>1, <4>1, <4>2 DEF Midway
              <3> QED BY <3>2, <3>3, <3>4
        <2>6. ASSUME NEW i \in Slot \ {k}, {new.at, flush[p][i].at} \subseteq {"upsert", "record"},
                     new.path = flush[p][i].path
              PROVE  new.path \in mixed'
              BY <1>8, <1>10, <2>1, <2>3, <2>6
        <2> QED BY <2>3, <2>4, <2>5, <2>6
  <1>11. ASSUME j.at = "record"
         PROVE  Kept
        <2>1. SetFileHash(j.path, j.text, j.stamp, j.readAt # j.stamp) /\ new.at \in {"idle", "next"}
              BY <1>1, <1>11
        <2>2. /\ j.path \in mixed \/ chunks[j.path] = {j.text}
              /\ (j.readAt # j.stamp) \/ (j.path \in File /\ j.stamp = disk[j.path].mtime => j.text = disk[j.path].text)
              /\ j.stamp \in Nat /\ (j.readAt # j.stamp) \in BOOLEAN
              BY <1>5, <1>6, <1>7, <1>11 DEF Midway, Flushes
        <2>3. /\ RecordedIsIndexed' /\ SkippingIsSafe' /\ chunks' = chunks /\ mixed' = mixed
              /\ \A g \in Path \ {j.path} : record'[g] = record[g]
              BY <1>3, <1>5, <1>6, <1>11, <2>1, <2>2, RecordsKeepTables
        <2>4. Midway(new)'
              BY <2>1 DEF Midway
        <2>5. ASSUME NEW i \in Slot \ {k}
              PROVE  Midway(flush[p][i])'
              <3>1. flush'[p][i] = flush[p][i]
                    BY <1>2, <2>5
              <3>2. CASE flush[p][i].at \notin {"upsert", "record"}
                    BY <3>1, <3>2 DEF Midway
              <3>3. CASE flush[p][i].at \in {"upsert", "record"} /\ flush[p][i].path = j.path
                    <4>1. j.path \in mixed
                          BY <1>8, <1>11, <2>5, <3>3
                    <4> QED BY <2>3, <3>1, <3>3, <4>1 DEF Midway
              <3>4. CASE flush[p][i].at \in {"upsert", "record"} /\ flush[p][i].path # j.path
                    <4>1. flush[p][i].path \in Path \ {j.path} /\ Midway(flush[p][i])
                          BY <1>8, <2>5, <3>4
                    <4>2. /\ chunks'[flush[p][i].path] = chunks[flush[p][i].path]
                          /\ record'[flush[p][i].path] = record[flush[p][i].path]
                          /\ flush[p][i].path \in mixed <=> flush[p][i].path \in mixed'
                          BY <2>3, <4>1
                    <4> QED BY <3>1, <4>1, <4>2 DEF Midway
              <3> QED BY <3>2, <3>3, <3>4
        <2> QED BY <2>1, <2>3, <2>4, <2>5
  <1>12. Kept
         <2> HIDE DEF Kept
         <2> QED BY <1>3, <1>9, <1>10, <1>11 DEF Writing
  <1>13. new.at \in {"stat", "delete", "upsert", "record"} /\ new.readAt = disk[new.path].mtime
           => new.text = disk[new.path].text
         BY <1>1, <1>7
  <1>14. flush[p][k].at # "idle"
         BY <1>4 DEF j
  <1> QED BY <1>2, <1>3, <1>4, <1>12, <1>13, <1>14, FlushStepsKeepIndex

(* The mtime of an edit is later than all that was ever read.               *)
LEMMA EditKeepsIndex ==
  ASSUME IndexInv, NEW f \in Path, NEW t \in Text \cup {Gone, Unreadable}, Edit(f, t)
  PROVE  Indexed'
PROOF
  <1>1. /\ disk' = [disk EXCEPT ![f] = [text |-> t, mtime |-> edits + 1]]
        /\ scan' = [p \in Process |-> IF scan[p].at \in {"idle", "begin", "claim", "lock"}
                                        THEN scan[p] ELSE [scan[p] EXCEPT !.edited = @ \cup {f}]]
        /\ UNCHANGED <<chunks, record, phase, flush, mixed, skewed>>
        BY DEF Edit, index, ghosts
  <1>2. edits \in Nat
        BY EditsAreNatural DEF IndexInv, OwnersInv
  <1>3. disk'[f].mtime = edits + 1 /\ \A g \in Path \ {f} : disk'[g] = disk[g]
        BY <1>1 DEF IndexInv, OwnersInv, Typed, TablesAreTyped
  <1>4. ASSUME NEW p \in Process
        PROVE  /\ scan'[p].at = scan[p].at /\ scan'[p].path = scan[p].path /\ scan'[p].text = scan[p].text
               /\ scan'[p].todo = scan[p].todo /\ scan'[p].stamp = scan[p].stamp
               /\ scan'[p].known = scan[p].known
        <2>1. scan[p] \in Scans
              BY DEF IndexInv, OwnersInv, Typed, ScansAreTyped
        <2> QED BY <1>1, <2>1 DEF Scans
  <1>5. RecordedIsIndexed'
        BY <1>1 DEF IndexInv, Indexed, RecordedIsIndexed
  <1>6. SkippingIsSafe'
        <2>1. ASSUME NEW g \in File \ skewed, record[g] # NoRecord, record[g].mtime = disk'[g].mtime,
                     disk'[g].text \in Text
              PROVE  record[g].hash = disk'[g].text
              <3>1. g \in Path
                    BY <2>1 DEF Path
              <3>2. record[g].mtime <= edits /\ record[g].mtime \in Nat
                    BY <1>2, <2>1, <3>1 DEF IndexInv, OwnersInv, Typed, TablesAreTyped
              <3>3. g # f
                    BY <1>2, <1>3, <2>1, <3>2
              <3> QED BY <1>3, <2>1, <3>1, <3>3 DEF IndexInv, Indexed, SkippingIsSafe, Readable
        <2> QED BY <1>1, <2>1 DEF SkippingIsSafe, Readable
  <1>7. ReindexesAreAlone'
        <2>1. ASSUME NEW p \in Process, StoreOpen(p)'
              PROVE  /\ Midway(scan[p])' /\ \A k \in Slot : Midway(flush[p][k])'
                     /\ \A k, i \in Slot :
                          k # i /\ {flush'[p][k].at, flush'[p][i].at} \subseteq {"upsert", "record"}
                            /\ flush'[p][k].path = flush'[p][i].path => flush'[p][k].path \in mixed'
              <3>1. StoreOpen(p)
                    BY <1>1, <2>1 DEF StoreOpen
              <3>2. Midway(scan[p]) /\ \A k \in Slot : Midway(flush[p][k])
                    BY <3>1 DEF IndexInv, Indexed, ReindexesAreAlone
              <3>3. Midway(scan[p])'
                    BY <1>1, <1>4, <3>2 DEF Midway
              <3>4. \A k \in Slot : Midway(flush[p][k])'
                    BY <1>1, <3>2 DEF Midway
              <3> QED BY <1>1, <3>1, <3>3, <3>4 DEF IndexInv, Indexed, ReindexesAreAlone
        <2> QED BY <2>1 DEF ReindexesAreAlone
  <1>8. KnownIsRecorded'
        BY <1>1, <1>4 DEF IndexInv, Indexed, KnownIsRecorded, StoreOpen
  <1>9. ScanTextIsCurrent'
        <2>1. ASSUME NEW p \in Process, scan[p].at \in {"delete", "upsert", "record"}, scan[p].path \in File,
                     scan[p].stamp[scan[p].path] = disk'[scan[p].path].mtime
              PROVE  scan[p].text = disk'[scan[p].path].text
              <3> DEFINE g == scan[p].path
              <3>1. g \in Path /\ scan[p].stamp[g] \in Nat /\ scan[p].stamp[g] <= edits
                    BY <2>1 DEF IndexInv, OwnersInv, Typed, ScansAreTyped, ScanIsTyped, Scans, Path
              <3>2. g # f
                    BY <1>2, <1>3, <2>1, <3>1
              <3>3. disk'[g] = disk[g]
                    BY <1>3, <3>1, <3>2
              <3> QED BY <2>1, <3>3 DEF IndexInv, Indexed, ScanTextIsCurrent
        <2> QED BY <1>4, <2>1 DEF ScanTextIsCurrent
  <1>10. FlushTextIsCurrent'
        <2>1. ASSUME NEW p \in Process, NEW k \in Slot, flush[p][k].at \in {"stat", "delete", "upsert", "record"},
                     flush[p][k].readAt = disk'[flush[p][k].path].mtime
              PROVE  flush[p][k].text = disk'[flush[p][k].path].text
              <3> DEFINE g == flush[p][k].path
              <3>1. g \in Path /\ flush[p][k].readAt \in Nat /\ flush[p][k].readAt <= edits
                    BY <2>1 DEF IndexInv, OwnersInv, Typed, FlushesAreTyped, FlushIsTyped, Flushes, Path, Writing
              <3>2. g # f
                    BY <1>2, <1>3, <2>1, <3>1
              <3>3. disk'[g] = disk[g]
                    BY <1>3, <3>1, <3>2
              <3> QED BY <2>1, <3>3 DEF IndexInv, Indexed, FlushTextIsCurrent
        <2> QED BY <1>1, <2>1 DEF FlushTextIsCurrent
  <1> QED BY <1>5, <1>6, <1>7, <1>8, <1>9, <1>10 DEF Indexed

(* The steps that have nothing to do with the tables.                       *)
LEMMA ThreadsKeepIndex ==
  ASSUME IndexInv, NEW p \in Process,
         \/ \E by \in {"start", "cli"} : Open(p, by)
         \/ Search(p) \/ Begin(p) \/ Claim(p) \/ NoWriteLock(p) \/ Interrupt(p) \/ StoreGone(p) \/ ScanEnds(p)
         \/ StartWatcher(p) \/ ForegroundEnds(p) \/ BeginClose(p) \/ Close(p) \/ Crash(p)
  PROVE  Indexed'
PROOF
  <1>1. UNCHANGED <<disk, chunks, record, mixed, skewed>>
        BY DEF Open, Search, Begin, Claim, NoWriteLock, Interrupt, StoreGone, ScanFails, ScanEnds, StartWatcher,
           ForegroundEnds, BeginClose, Close, Crash, world, index, ghosts
  <1>2. /\ scan \in [Process -> Scans] /\ phase \in [Process -> {"new", "open", "closing", "closed"}]
        /\ flush \in [Process -> [Slot -> Flushes]]
        BY DEF IndexInv, OwnersInv, Typed, ScansAreTyped, TablesAreTyped, FlushesAreTyped
  <1>3. NoScan \in Scans /\ NoScan.at = "idle" /\ NoFlush.at = "idle"
        BY DEF NoScan, NoFlush, Scans, ScanAt
  <1>4. \E new : new.at \notin ScanPlace /\ (scan' = [scan EXCEPT ![p] = new] \/ scan' = scan)
        <2>1. CASE \E by \in {"start", "cli"} : Open(p, by)
              <3>1. PICK by \in {"start", "cli"} : Open(p, by)
                    BY <2>1
              <3> DEFINE new == [NoScan EXCEPT !.at = "begin", !.by = by]
              <3>2. new.at = "begin" /\ scan' = [scan EXCEPT ![p] = new]
                    BY <3>1 DEF Open, NoScan
              <3> QED BY <3>2 DEF ScanPlace
        <2>2. CASE Search(p)
              <3> DEFINE new == [NoScan EXCEPT !.at = "begin", !.by = "search"]
              <3>1. new.at = "begin" /\ scan' = [scan EXCEPT ![p] = new]
                    BY <2>2 DEF Search, NoScan
              <3> QED BY <3>1 DEF ScanPlace
        <2>3. CASE Begin(p)
              <3>1. PICK a \in {"claim"} : scan' = [scan EXCEPT ![p] = IF Closing(p) THEN NoScan
                                                                                    ELSE [scan[p] EXCEPT !.at = a]]
                    BY <1>2, <2>3 DEF Begin
              <3>2. [scan[p] EXCEPT !.at = a].at = a
                    BY <1>2 DEF Scans
              <3> QED BY <1>3, <3>1, <3>2 DEF ScanPlace
        <2>4. CASE Claim(p)
              <3>1. \/ scan' = [scan EXCEPT ![p] = [scan[p] EXCEPT !.at = "lock"]]
                    \/ scan' = [scan EXCEPT ![p] = [scan[p] EXCEPT !.at = "finished"]]
                    \/ scan' = [scan EXCEPT ![p] = NoScan]
                    BY <1>2, <2>4 DEF Claim
              <3>2. /\ [scan[p] EXCEPT !.at = "lock"].at = "lock"
                    /\ [scan[p] EXCEPT !.at = "finished"].at = "finished"
                    BY <1>2 DEF Scans
              <3> QED BY <1>3, <3>1, <3>2 DEF ScanPlace
        <2>5. CASE NoWriteLock(p) \/ Interrupt(p) \/ StoreGone(p)
              <3> DEFINE new == [scan[p] EXCEPT !.at = "finished", !.complete = FALSE]
              <3>1. scan' = [scan EXCEPT ![p] = new]
                    BY <2>5 DEF NoWriteLock, Interrupt, StoreGone, ScanFails
              <3>2. new.at = "finished"
                    BY <1>2 DEF Scans
              <3> QED BY <3>1, <3>2 DEF ScanPlace
        <2>6. CASE ScanEnds(p)
              <3> DEFINE new == [scan[p] EXCEPT !.at = "finished", !.complete = TRUE]
              <3>1. scan' = [scan EXCEPT ![p] = new] /\ new.at = "finished"
                    BY <1>2, <2>6 DEF ScanEnds, Scans
              <3> QED BY <3>1 DEF ScanPlace
        <2>7. CASE StartWatcher(p) \/ ForegroundEnds(p) \/ Crash(p)
              BY <1>3, <2>7 DEF StartWatcher, ForegroundEnds, Crash, ScanPlace
        <2>8. CASE BeginClose(p) \/ Close(p)
              BY <1>3, <2>8 DEF BeginClose, Close, ScanPlace
        <2> QED BY <2>1, <2>2, <2>3, <2>4, <2>5, <2>6, <2>7, <2>8
  <1>5. \A q \in Process : scan'[q] = scan[q] \/ scan'[q].at \notin ScanPlace
        BY <1>2, <1>4
  <1>6. \A q \in Process, k \in Slot : flush'[q][k] = flush[q][k] \/ flush'[q][k].at \in {"idle", "next"}
        <2>1. CASE Crash(p)
              BY <1>2, <1>3, <2>1 DEF Crash
        <2>2. CASE ~Crash(p)
              BY <2>2 DEF Open, Search, Begin, Claim, NoWriteLock, Interrupt, StoreGone, ScanFails, ScanEnds,
                 StartWatcher, ForegroundEnds, BeginClose, Close
        <2> QED BY <2>1, <2>2
  <1>7. \A q \in Process : StoreOpen(q)' => StoreOpen(q)
        <2>1. CASE \E by \in {"start", "cli"} : Open(p, by)
              <3>1. phase[p] = "new"
                    BY <2>1, IndexAssumption
                    DEF Open, IndexInv, OwnersInv, Typed, TablesAreTyped, Owned, Unopened, Process
              <3> QED BY <1>2, <2>1, <3>1 DEF Open, StoreOpen
        <2>2. CASE BeginClose(p)
              BY <1>2, <2>2 DEF BeginClose, StoreOpen
        <2>3. CASE ForegroundEnds(p) \/ Close(p) \/ Crash(p)
              BY <1>2, <2>3 DEF ForegroundEnds, Close, Crash, StoreOpen
        <2>4. CASE phase' = phase
              BY <2>4 DEF StoreOpen
        <2> QED BY <2>1, <2>2, <2>3, <2>4 DEF Search, Begin, Claim, NoWriteLock, Interrupt, StoreGone, ScanFails,
                   ScanEnds, StartWatcher
  <1> QED BY <1>1, <1>5, <1>6, <1>7, QuietStepsKeepIndex DEF IndexInv

LEMMA FlushEdgesKeepIndex ==
  ASSUME IndexInv, NEW p \in Process, NEW k \in Slot, FlushStart(p, k) \/ FlushFails(p, k)
  PROVE  Indexed'
PROOF
  <1>1. UNCHANGED <<disk, chunks, record, mixed, skewed, scan, phase>>
        BY DEF FlushStart, FlushFails, world, index, ghosts
  <1>2. \E new \in Flushes : new.at \in {"idle", "next"} /\ flush' = [flush EXCEPT ![p][k] = new]
        <2>1. CASE FlushStart(p, k)
              BY <2>1, FlushStartEffects DEF IndexInv
        <2>2. CASE FlushFails(p, k)
              <3>1. NoFlush \in Flushes /\ NoFlush.at = "idle" /\ flush' = [flush EXCEPT ![p][k] = NoFlush]
                    BY <2>2, NoFlushIsTyped, EditsAreNatural DEF FlushFails, IndexInv, OwnersInv
              <3> QED BY <3>1
        <2> QED BY <2>1, <2>2
  <1>3. \A q \in Process, i \in Slot : flush'[q][i] = flush[q][i] \/ flush'[q][i].at \in {"idle", "next"}
        BY <1>2 DEF IndexInv, OwnersInv, Typed, FlushesAreTyped
  <1> QED BY <1>1, <1>3, QuietStepsKeepIndex DEF IndexInv, StoreOpen

LEMMA StepsKeepIndex ==
  ASSUME IndexInv, [Next]_vars
  PROVE  IndexInv'
PROOF
  <1>1. OwnersInv'
        BY StepsKeepOwners DEF IndexInv
  <1>2. CASE Environment
        <2>1. ASSUME NEW p \in Process,
                     (\E by \in {"start", "cli"} : Open(p, by)) \/ Search(p) \/ BeginClose(p) \/ Crash(p)
              PROVE  Indexed'
              BY <2>1, ThreadsKeepIndex
        <2>2. ASSUME NEW f \in Path, NEW t \in Text \cup {Gone, Unreadable}, Edit(f, t)
              PROVE  Indexed'
              BY <2>2, EditKeepsIndex
        <2> QED BY <1>1, <1>2, <2>1, <2>2 DEF Environment, IndexInv
  <1>3. ASSUME NEW p \in Process, ScanStep(p)
        PROVE  Indexed'
        <2>1. CASE Begin(p) \/ Claim(p) \/ NoWriteLock(p) \/ Interrupt(p) \/ ScanEnds(p) \/ StoreGone(p)
                     \/ StartWatcher(p) \/ ForegroundEnds(p)
              BY <2>1, ThreadsKeepIndex
        <2>2. ASSUME NEW rebuild \in BOOLEAN, StartScan(p, rebuild)
              PROVE  Indexed'
              BY <2>2, StartScanKeepsIndex
        <2>3. CASE Visit(p) \/ Read(p)
              BY <2>3, VisitKeepsIndex, ReadKeepsIndex, ClosedLooksKeepIndex
        <2>4. CASE ScanWrite(p) \/ DeleteStale(p)
              BY <2>4, ScanWriteKeepsIndex, DeleteStaleKeepsIndex
        <2> QED BY <1>3, <2>1, <2>2, <2>3, <2>4 DEF ScanStep
  <1>4. ASSUME NEW p \in Process, Close(p)
        PROVE  Indexed'
        BY <1>4, ThreadsKeepIndex
  <1>5. ASSUME NEW p \in Process, NEW k \in Slot, FlushStep(p, k)
        PROVE  Indexed'
        BY <1>5, FlushEdgesKeepIndex, FlushLooksKeepIndex, FlushWriteKeepsIndex DEF FlushStep
  <1>6. CASE UNCHANGED vars
        <2>1. UNCHANGED <<disk, chunks, record, mixed, skewed, scan, flush, phase>>
              BY <1>6 DEF vars, world, index, ghosts
        <2>2. Indexed'
              BY <2>1, QuietStepsKeepIndex DEF IndexInv, StoreOpen
        <2> QED BY <1>1, <2>2 DEF IndexInv
  <1> QED BY <1>1, <1>2, <1>3, <1>4, <1>5, <1>6 DEF Next, ProcessStep, IndexInv

LEMMA IndexStarts ==
  Init => IndexInv
PROOF
  <1> SUFFICES ASSUME Init PROVE IndexInv
      OBVIOUS
  <1>1. OwnersInv
        BY OwnersStart
  <1>2. /\ \A f \in Path : record[f] = NoRecord
        /\ \A p \in Process : scan[p].at = "idle" /\ \A k \in Slot : flush[p][k].at = "idle"
        BY DEF Init, NoScan, NoFlush
  <1>3. Indexed
        BY <1>2 DEF Indexed, RecordedIsIndexed, ReindexesAreAlone, Midway, KnownIsRecorded, SkippingIsSafe,
           ScanTextIsCurrent, FlushTextIsCurrent, ScanPlace, Path
  <1> QED BY <1>1, <1>3 DEF IndexInv

LEMMA IndexInvariant ==
  Spec => []IndexInv
PROOF
  <1>1. Init => IndexInv
        BY IndexStarts
  <1>2. IndexInv /\ [Next]_vars => IndexInv'
        BY StepsKeepIndex
  <1> QED BY <1>1, <1>2, PTL DEF Spec

(* What the database says of itself is true, however scans, flushes, edits,  *)
(* errors, closes and crashes interleave: a path with a record has exactly   *)
(* the chunks of the text it names (unless two flushes reindexed it at the   *)
(* same time), and a record with the mtime of the file names the text of the *)
(* file (unless a flush took the mtime of a text it had not read).           *)
THEOREM IndexStaysSound ==
  Spec => []IndexIsSound
PROOF
  <1>1. IndexInv => IndexIsSound
        BY ThreadsHaveTypes DEF IndexInv, OwnersInv, Indexed, IndexIsSound
  <1> QED BY <1>1, IndexInvariant, PTL

-----------------------------------------------------------------------------
(* Catching up, step by step                                                *)

(* Who catches up owns the index and follows no changes yet.                *)
LEMMA CatchersOwn ==
  ASSUME OwnersInv, NEW p \in Process, Catching(p)
  PROVE  owner = p /\ ~Flushing(p)
PROOF BY DEF OwnersInv, Owned, ActorsOwn, ScanOrFollow, Catching, Busy, ScanPlace

(* A scan on which nothing goes on.                                         *)
LEMMA StandingScansStay ==
  ASSUME CatchUpInv, NEW p \in Process, scan'[p] = scan[p], StoreOpen(p)' => StoreOpen(p), disk' = disk,
         Catching(p) => UNCHANGED <<chunks, mixed, skewed>>
  PROVE  CaughtUpAt(p)'
PROOF
  <1>1. CaughtUpAt(p)
        BY DEF CatchUpInv, CaughtUp
  <1>2. IsThrough(scan[p])'
        BY <1>1 DEF CaughtUpAt, IsThrough, Stale
  <1>3. ASSUME Catching(p)'
        PROVE  (SeenIsPresent(scan[p]) /\ PathIsCurrent(scan[p]) /\ BehindIsDone(scan[p]))'
        <2>1. Catching(p)
              BY <1>3 DEF Catching
        <2>2. SeenIsPresent(scan[p]) /\ PathIsCurrent(scan[p]) /\ BehindIsDone(scan[p])
              BY <1>1, <2>1 DEF CaughtUpAt
        <2>3. SeenIsPresent(scan[p])'
              BY <2>2 DEF SeenIsPresent, Readable, Present
        <2>4. PathIsCurrent(scan[p])'
              BY <2>2 DEF PathIsCurrent, Present
        <2>5. BehindIsDone(scan[p])'
              BY <2>1, <2>2 DEF BehindIsDone, Behind, Readable, Present
        <2> QED BY <2>3, <2>4, <2>5
  <1> QED BY <1>2, <1>3 DEF CaughtUpAt

(* A step that leaves the scan of a process alone, and the tables if it      *)
(* still catches up.                                                        *)
LEMMA OthersStayCaughtUp ==
  ASSUME CatchUpInv, [Next]_vars, NEW p \in Process, scan'[p] = scan[p], flush'[p] = flush[p],
         StoreOpen(p)' => StoreOpen(p), disk' = disk
  PROVE  CaughtUpAt(p)'
PROOF
  <1>1. ASSUME Catching(p)
        PROVE  UNCHANGED <<chunks, mixed, skewed>>
        <2>1. owner = p /\ ~Flushing(p)
              BY <1>1, CatchersOwn DEF CatchUpInv, IndexInv
        <2>2. UNCHANGED <<index, mixed, skewed>>
              BY <2>1, WritersOwn DEF CatchUpInv, IndexInv
        <2> QED BY <2>2 DEF index
  <1> QED BY <1>1, StandingScansStay

(* A scan that is over or has not begun promises nothing.                   *)
LEMMA RestsAreCaughtUp ==
  ASSUME NEW p \in Process, scan'[p].at \notin ScanPlace, ~scan'[p].complete
  PROVE  CaughtUpAt(p)'
PROOF BY DEF CaughtUpAt, IsThrough, Catching

(* A scan under way has nothing to show for paths that have been edited.     *)
LEMMA ScansStayCaughtUp ==
  ASSUME NEW p \in Process, NEW new, scan'[p] = new, new.at \in ScanPlace,
         StoreOpen(p)' => SeenIsPresent(new)' /\ PathIsCurrent(new)' /\ BehindIsDone(new)'
  PROVE  CaughtUpAt(p)'
PROOF
  <1>1. IsThrough(scan[p])'
        BY DEF IsThrough, ScanPlace
  <1>2. ASSUME StoreOpen(p)'
        PROVE  (SeenIsPresent(scan[p]) /\ PathIsCurrent(scan[p]) /\ BehindIsDone(scan[p]))'
        BY <1>2 DEF SeenIsPresent, PathIsCurrent, BehindIsDone, Behind
  <1> QED BY <1>1, <1>2 DEF CaughtUpAt, Catching

(* What a record that is as old as the file says of the chunks.              *)
LEMMA UnmovedIsIndexed ==
  ASSUME RecordedIsIndexed, SkippingIsSafe, NEW f \in File \ (mixed \cup skewed), Readable(f),
         record[f] # NoRecord, record[f].mtime = disk[f].mtime
  PROVE  chunks[f] = {disk[f].text}
PROOF BY DEF RecordedIsIndexed, SkippingIsSafe, Path

LEMMA ReadableIsPresent ==
  ASSUME NEW f, Readable(f)
  PROVE  Present(f)
PROOF BY IndexAssumption DEF Readable, Present

LEMMA StartScanLeavesRest ==
  ASSUME NEW p \in Process, NEW rebuild \in BOOLEAN, StartScan(p, rebuild)
  PROVE  UNCHANGED <<disk, flush, phase>>
PROOF BY DEF StartScan, world

LEMMA StartScanCatchesUp ==
  ASSUME CatchUpInv, IndexInv', NEW p \in Process, NEW rebuild \in BOOLEAN, StartScan(p, rebuild)
  PROVE  CaughtUpAt(p)'
PROOF
  <1>1. PICK new \in Scans :
          /\ scan' = [scan EXCEPT ![p] = new] /\ new.at = "next" /\ new.edited = {}
          /\ new.todo = (IF new.by = "cli" THEN Dirty(record') \cup Skill ELSE Path)
          /\ new.seen = (IF new.by = "cli" THEN {f \in File : Present(f)} ELSE {})
        BY StartScanEffects DEF CatchUpInv, IndexInv
  <1>2. scan'[p] = new
        BY <1>1 DEF CatchUpInv, IndexInv, OwnersInv, Typed, ScansAreTyped
  <1>3. disk' = disk
        BY StartScanLeavesRest
  <1>4. \A f \in Path : (Readable(f)' <=> Readable(f)) /\ (Present(f)' <=> Present(f))
        BY <1>3 DEF Readable, Present
  <1>5. SeenIsPresent(new)'
        <2>1. ASSUME NEW f \in Path
              PROVE  /\ f \notin new.todo /\ Readable(f) => f \in new.seen
                     /\ f \in new.todo \cap new.seen => Present(f)
              BY <1>1, ReadableIsPresent DEF Path
        <2> QED BY <1>4, <2>1 DEF SeenIsPresent
  <1>6. PathIsCurrent(new)'
        BY <1>1 DEF PathIsCurrent, PathPlace
  <1>7. BehindIsDone(new)'
        <2>1. ASSUME NEW f \in Path \ new.todo, f \notin mixed' \cup skewed', Readable(f)
              PROVE  chunks'[f] = {disk[f].text}
              <3>1. f \in File /\ f \notin Dirty(record') /\ Present(f)
                    BY <1>1, <2>1, ReadableIsPresent DEF Path
              <3>2. record'[f] # NoRecord /\ record'[f].mtime = disk[f].mtime
                    BY <3>1 DEF Dirty
              <3>3. RecordedIsIndexed' /\ SkippingIsSafe'
                    BY DEF IndexInv, Indexed
              <3>4. record'[f].hash = disk[f].text
                    BY <1>3, <1>4, <2>1, <3>1, <3>2, <3>3 DEF SkippingIsSafe
              <3>5. chunks'[f] = {record'[f].hash}
                    BY <2>1, <3>2, <3>3 DEF RecordedIsIndexed
              <3> QED BY <3>4, <3>5
        <2>2. \A f \in Path : f \in new.seen => Present(f)
              BY <1>1
        <2> QED BY <1>3, <1>4, <2>1, <2>2 DEF BehindIsDone, Behind
  <1> QED BY <1>1, <1>2, <1>5, <1>6, <1>7, ScansStayCaughtUp DEF ScanPlace

(* What a scan of an open store knows of itself.                            *)
LEMMA ScansAreCaughtUp ==
  ASSUME CatchUpInv, NEW p \in Process, StoreOpen(p), scan[p].at \in ScanPlace
  PROVE  SeenIsPresent(scan[p]) /\ PathIsCurrent(scan[p]) /\ BehindIsDone(scan[p])
PROOF BY DEF CatchUpInv, CaughtUp, CaughtUpAt, Catching

LEMMA VisitCatchesUp ==
  ASSUME CatchUpInv, NEW p \in Process, Visit(p)
  PROVE  CaughtUpAt(p)'
PROOF
  <1> DEFINE j == scan[p]
  <1>1. PICK new \in Scans, f \in j.todo :
           /\ scan' = [scan EXCEPT ![p] = new] /\ SameScan(new, j)
           /\ new.todo = j.todo \ {f}
           /\ new.seen = (IF Present(f) THEN j.seen \cup {f} ELSE j.seen)
           /\ \/ (~Present(f) \/ Unmoved(j, f)) /\ new.at = "next"
              \/ Present(f) /\ ~Unmoved(j, f) /\ new.at = "read" /\ new.path = f
        BY VisitEffects DEF CatchUpInv, IndexInv
  <1>2. scan'[p] = new /\ j \in Scans
        BY <1>1 DEF CatchUpInv, IndexInv, OwnersInv, Typed, ScansAreTyped
  <1>3. j.at = "next" /\ UNCHANGED <<disk, phase, chunks, record, mixed, skewed>>
        BY DEF Visit, world, index, ghosts
  <1>4. new.edited = j.edited /\ f \in Path
        BY <1>1, <1>2 DEF SameScan, Scans
  <1>5. ASSUME StoreOpen(p)'
        PROVE  SeenIsPresent(new)' /\ PathIsCurrent(new)' /\ BehindIsDone(new)'
        <2>1. StoreOpen(p)
              BY <1>3, <1>5 DEF StoreOpen
        <2>2. SeenIsPresent(j) /\ BehindIsDone(j)
              BY <1>3, <2>1, ScansAreCaughtUp DEF ScanPlace
        <2>3. j.known[f] = record[f]
              BY <1>1, <1>3, <2>1 DEF CatchUpInv, IndexInv, Indexed, KnownIsRecorded, ScanPlace
        <2> HIDE DEF j
        <2>4. SeenIsPresent(new)
              <3>1. ASSUME NEW g \in Path \ j.edited
                    PROVE  /\ g \notin new.todo /\ Readable(g) => g \in new.seen
                           /\ g \in new.todo \cap new.seen => Present(g)
                    BY <1>1, <2>2, ReadableIsPresent DEF SeenIsPresent
              <3> QED BY <1>4, <3>1 DEF SeenIsPresent
        <2>5. PathIsCurrent(new)
              BY <1>1 DEF PathIsCurrent, PathPlace
        <2>6. BehindIsDone(new)
              <3>1. ASSUME NEW g \in Behind(new) \ (j.edited \cup mixed \cup skewed)
                    PROVE  /\ Readable(g) => chunks[g] = {disk[g].text}
                           /\ ~Present(g) /\ g \in new.seen => chunks[g] = {}
                    <4>1. CASE g # f
                          <5>1. g \in Behind(j) /\ (g \in new.seen => g \in j.seen)
                                BY <1>1, <1>3, <3>1, <4>1 DEF Behind, PathPlace
                          <5> QED BY <2>2, <3>1, <5>1 DEF BehindIsDone
                    <4>2. CASE g = f /\ ~Present(f)
                          BY <1>1, <1>4, <2>2, <3>1, <4>2, ReadableIsPresent DEF SeenIsPresent
                    <4>3. CASE g = f /\ Present(f)
                          <5>1. Unmoved(j, f)
                                BY <1>1, <3>1, <4>3 DEF Behind, PathPlace
                          <5>2. f \in File /\ record[f] # NoRecord /\ record[f].mtime = disk[f].mtime
                                BY <2>3, <5>1 DEF Unmoved
                          <5>3. Readable(f) => chunks[f] = {disk[f].text}
                                BY <3>1, <4>3, <5>2, UnmovedIsIndexed DEF CatchUpInv, IndexInv, Indexed
                          <5> QED BY <4>3, <5>3
                    <4> QED BY <4>1, <4>2, <4>3
              <3> QED BY <1>4, <3>1 DEF BehindIsDone
        <2>7. SeenIsPresent(new)'
              BY <1>3, <2>4 DEF SeenIsPresent, Readable, Present
        <2>8. PathIsCurrent(new)'
              BY <1>3, <2>5 DEF PathIsCurrent, Present
        <2>9. BehindIsDone(new)'
              BY <1>3, <2>6 DEF BehindIsDone, Behind, Readable, Present
        <2> QED BY <2>7, <2>8, <2>9
  <1>6. new.at \in ScanPlace
        BY <1>1 DEF ScanPlace
  <1> QED BY <1>2, <1>5, <1>6, ScansStayCaughtUp

(* A step of a scan that leaves all paths but one alone.                    *)
LEMMA OnePathCatchesUp ==
  ASSUME CatchUpInv, NEW p \in Process, NEW new, scan'[p] = new, scan[p].at \in ScanPlace, new.at \in ScanPlace,
         new.edited = scan[p].edited, new.todo = scan[p].todo, new.seen = scan[p].seen,
         phase' = phase, disk' = disk,
         NEW f \in Path, new.at \in PathPlace => new.path = f,
         scan[p].at \in PathPlace /\ scan[p].path = f,
         \A g \in Path \ {f} :
           chunks'[g] = chunks[g] /\ (g \in mixed' <=> g \in mixed) /\ (g \in skewed' <=> g \in skewed),
         new.at \in PathPlace \ {"read"} => (f \notin scan[p].edited => Present(f) /\ new.text = disk[f].text),
         new.at # "read",
         StoreOpen(p) /\ new.at \notin PathPlace /\ f \notin scan[p].edited \cup mixed' \cup skewed' =>
           /\ Readable(f) => chunks'[f] = {disk[f].text}
           /\ ~Present(f) => chunks'[f] = {}
  PROVE  CaughtUpAt(p)'
PROOF
  <1> DEFINE j == scan[p]
  <1>1. ASSUME StoreOpen(p)'
        PROVE  SeenIsPresent(new)' /\ PathIsCurrent(new)' /\ BehindIsDone(new)'
        <2>1. StoreOpen(p)
              BY <1>1 DEF StoreOpen
        <2>2. SeenIsPresent(j) /\ BehindIsDone(j)
              BY <2>1, ScansAreCaughtUp
        <2>3. SeenIsPresent(new)'
              BY <2>2 DEF SeenIsPresent, Readable, Present
        <2>4. PathIsCurrent(new)'
              BY DEF PathIsCurrent, Present
        <2>5. BehindIsDone(new)'
              <3>1. ASSUME NEW g \in Behind(new) \ (j.edited \cup mixed' \cup skewed')
                    PROVE  /\ Readable(g) => chunks'[g] = {disk[g].text}
                           /\ ~Present(g) /\ g \in j.seen => chunks'[g] = {}
                    <4>1. CASE g = f
                          BY <2>1, <3>1, <4>1 DEF Behind
                    <4>2. CASE g # f
                          <5>1. g \in Behind(j) \ (j.edited \cup mixed \cup skewed)
                                BY <3>1, <4>2 DEF Behind
                          <5>2. chunks'[g] = chunks[g]
                                BY <3>1, <4>2 DEF Behind
                          <5> QED BY <2>2, <5>1, <5>2 DEF BehindIsDone
                    <4> QED BY <4>1, <4>2
              <3> QED BY <3>1 DEF BehindIsDone, Behind, Readable, Present
        <2> QED BY <2>3, <2>4, <2>5
  <1> QED BY <1>1, ScansStayCaughtUp

LEMMA ReadCatchesUp ==
  ASSUME CatchUpInv, NEW p \in Process, Read(p)
  PROVE  CaughtUpAt(p)'
PROOF
  <1> DEFINE j == scan[p]
             f == j.path
             t == disk[f].text
  <1>1. PICK new \in Scans :
               /\ scan' = [scan EXCEPT ![p] = new] /\ SameScan(new, j)
               /\ new.todo = j.todo /\ new.seen = j.seen
               /\ \/ t \notin Text /\ new.at = "next"
                  \/ t \in Text /\ new.at = "delete" /\ new.path = f /\ new.text = t
                  \/ /\ t \in Text /\ j.known[f] # NoRecord /\ j.known[f].hash = t
                     /\ new.path = f /\ new.text = t
                     /\ new.at = IF f \in File THEN "record" ELSE "next"
        BY ReadEffects DEF CatchUpInv, IndexInv
  <1>2. scan'[p] = new
        BY <1>1 DEF CatchUpInv, IndexInv, OwnersInv, Typed, ScansAreTyped
  <1>3. j.at = "read" /\ UNCHANGED <<disk, phase, chunks, record, mixed, skewed>>
        BY DEF Read, world, index, ghosts
  <1>4. f \in Path /\ new.edited = j.edited
        BY <1>1, <1>3 DEF SameScan, CatchUpInv, IndexInv, OwnersInv, Typed, ScansAreTyped, ScanIsTyped, PathPlace
  <1>5. ASSUME StoreOpen(p), new.at \notin PathPlace, f \notin j.edited \cup mixed
        PROVE  /\ Readable(f) => chunks[f] = {disk[f].text}
               /\ ~Present(f) => chunks[f] = {}
        <2>1. Present(f)
              <3>1. PathIsCurrent(j)
                    BY <1>3, <1>5, ScansAreCaughtUp DEF ScanPlace
              <3> QED BY <1>3, <1>5, <3>1 DEF PathIsCurrent, PathPlace
        <2>2. CASE Readable(f)
              <3>1. j.known[f] # NoRecord /\ j.known[f].hash = t
                    BY <1>1, <1>5, <2>2 DEF Readable, PathPlace
              <3>2. record[f] = j.known[f]
                    BY <1>3, <1>5 DEF CatchUpInv, IndexInv, Indexed, KnownIsRecorded, ScanPlace
              <3>3. chunks[f] = {t}
                    BY <1>4, <1>5, <3>1, <3>2 DEF CatchUpInv, IndexInv, Indexed, RecordedIsIndexed
              <3> QED BY <2>1, <3>3
        <2> QED BY <2>1, <2>2
  <1>6. new.at \in PathPlace => Present(f) /\ new.text = disk[f].text
        <2>1. new.at \in PathPlace => t \in Text /\ new.text = t
              BY <1>1 DEF PathPlace
        <2> QED BY <2>1, ReadableIsPresent DEF Readable
  <1>7. new.at \in {"next", "delete", "record"} /\ (new.at \in PathPlace => new.path = f)
        BY <1>1 DEF PathPlace
  <1> QED BY <1>1, <1>2, <1>3, <1>4, <1>5, <1>6, <1>7, OnePathCatchesUp DEF ScanPlace, PathPlace

LEMMA ScanWriteCatchesUp ==
  ASSUME CatchUpInv, NEW p \in Process, ScanWrite(p)
  PROVE  CaughtUpAt(p)'
PROOF
  <1> DEFINE j == scan[p]
             f == j.path
  <1>1. PICK new \in Scans :
               /\ scan' = [scan EXCEPT ![p] = new] /\ SameScan(new, j)
               /\ new.todo = j.todo /\ new.seen = j.seen
               /\ j.at = "record" \/ (new.path = f /\ new.text = j.text)
               /\ \/ j.at = "delete" /\ new.at = "upsert" /\ DeleteForPath(f)
                  \/ j.at = "upsert" /\ new.at = "record" /\ UpsertChunks(f, j.text)
                  \/ j.at = "record" /\ new.at = "next" /\ SetFileHash(f, j.text, j.stamp[f], FALSE)
        BY ScanWriteEffects DEF CatchUpInv, IndexInv
  <1>2. scan'[p] = new
        BY <1>1 DEF CatchUpInv, IndexInv, OwnersInv, Typed, ScansAreTyped
  <1>3. /\ j.at \in {"delete", "upsert", "record"} /\ StoreOpen(p) /\ UNCHANGED <<disk, phase>>
        BY DEF ScanWrite, world
  <1>4. f \in Path /\ new.edited = j.edited
        BY <1>1, <1>3 DEF SameScan, CatchUpInv, IndexInv, OwnersInv, Typed, ScansAreTyped, ScanIsTyped, PathPlace
  <1>5. TablesAreTyped /\ Midway(j)
        BY <1>3 DEF CatchUpInv, IndexInv, OwnersInv, Typed, Indexed, ReindexesAreAlone
  <1>6. f \notin j.edited => Present(f) /\ j.text = disk[f].text
        <2>1. PathIsCurrent(j)
              BY <1>3, ScansAreCaughtUp DEF ScanPlace
        <2> QED BY <1>3, <2>1 DEF PathIsCurrent, PathPlace
  <1>7. \A g \in Path \ {f} :
          chunks'[g] = chunks[g] /\ (g \in mixed' <=> g \in mixed) /\ (g \in skewed' <=> g \in skewed)
        <2>1. CASE DeleteForPath(f)
              BY <1>5, <2>1 DEF DeleteForPath, TablesAreTyped
        <2>2. CASE UpsertChunks(f, j.text)
              <3>1. mixed' = mixed /\ skewed' = skewed
                    BY <2>2 DEF UpsertChunks, ghosts
              <3>2. \A g \in Path \ {f} : chunks'[g] = chunks[g]
                    BY <1>5, <2>2 DEF UpsertChunks, TablesAreTyped
              <3> QED BY <3>1, <3>2
        <2>3. CASE SetFileHash(f, j.text, j.stamp[f], FALSE)
              BY <2>3 DEF SetFileHash
        <2> QED BY <1>1, <2>1, <2>2, <2>3
  <1>8. ASSUME new.at \notin PathPlace, f \notin j.edited \cup mixed'
        PROVE  /\ Readable(f) => chunks'[f] = {disk[f].text}
               /\ ~Present(f) => chunks'[f] = {}
        <2>1. j.at = "record" /\ chunks' = chunks /\ mixed' = mixed
              BY <1>1, <1>8 DEF PathPlace, SetFileHash
        <2>2. chunks[f] = {j.text}
              BY <1>5, <1>8, <2>1 DEF Midway
        <2> QED BY <1>6, <1>8, <2>1, <2>2
  <1>9. new.at \in {"next", "upsert", "record"} /\ (new.at \in PathPlace => new.path = f /\ new.text = j.text)
        BY <1>1 DEF PathPlace
  <1> QED BY <1>1, <1>2, <1>3, <1>4, <1>6, <1>7, <1>8, <1>9, OnePathCatchesUp DEF ScanPlace, PathPlace

(* A file that was seen is not deleted from the index.                      *)
LEMMA DeleteStaleCatchesUp ==
  ASSUME CatchUpInv, NEW p \in Process, DeleteStale(p)
  PROVE  CaughtUpAt(p)'
PROOF
  <1> DEFINE j == scan[p]
  <1>1. PICK new \in Scans, f \in Stale(j) :
          /\ scan' = [scan EXCEPT ![p] = new] /\ SameScan(new, j)
          /\ new.at = "next" /\ new.todo = {} /\ new.seen = j.seen \cup {f} /\ DeleteForPath(f)
        BY DeleteStaleEffects DEF CatchUpInv, IndexInv
  <1>2. scan'[p] = new
        BY <1>1 DEF CatchUpInv, IndexInv, OwnersInv, Typed, ScansAreTyped
  <1>3. j.at = "next" /\ j.todo = {} /\ StoreOpen(p) /\ UNCHANGED <<disk, phase>>
        BY DEF DeleteStale, world
  <1>4. f \in Path /\ f \notin j.seen /\ new.edited = j.edited
        BY <1>1 DEF Stale, SameScan
  <1>5. SeenIsPresent(j) /\ BehindIsDone(j)
        BY <1>3, ScansAreCaughtUp DEF ScanPlace
  <1>6. /\ chunks'[f] = {} /\ skewed' = skewed
        /\ \A g \in Path \ {f} : chunks'[g] = chunks[g] /\ (g \in mixed' <=> g \in mixed)
        BY <1>1, <1>4 DEF DeleteForPath, CatchUpInv, IndexInv, OwnersInv, Typed, TablesAreTyped
  <1> HIDE DEF j
  <1>7. SeenIsPresent(new)'
        BY <1>1, <1>3, <1>4, <1>5 DEF SeenIsPresent, Readable, Present
  <1>8. PathIsCurrent(new)'
        BY <1>1 DEF PathIsCurrent, PathPlace
  <1>9. BehindIsDone(new)'
        <2>1. ASSUME NEW g \in Path \ (j.edited \cup mixed' \cup skewed')
              PROVE  /\ Readable(g) => chunks'[g] = {disk[g].text}
                     /\ ~Present(g) /\ g \in new.seen => chunks'[g] = {}
              <3>1. CASE g = f
                    BY <1>3, <1>4, <1>5, <1>6, <2>1, <3>1 DEF SeenIsPresent
              <3>2. CASE g # f
                    <4>1. g \in Behind(j) \ (j.edited \cup mixed \cup skewed)
                          BY <1>3, <1>6, <2>1, <3>2 DEF Behind, PathPlace
                    <4> QED BY <1>1, <1>5, <1>6, <2>1, <3>2, <4>1 DEF BehindIsDone
              <3> QED BY <3>1, <3>2
        <2> QED BY <1>3, <1>4, <2>1 DEF BehindIsDone, Behind, Readable, Present
  <1> QED BY <1>1, <1>2, <1>7, <1>8, <1>9, ScansStayCaughtUp DEF ScanPlace

LEMMA ScanEndCatchesUp ==
  ASSUME CatchUpInv, NEW p \in Process, ScanEnds(p)
  PROVE  CaughtUpAt(p)'
PROOF
  <1> DEFINE j == scan[p]
  <1>1. j \in Scans /\ j.at = "next" /\ j.todo = {} /\ Stale(j) = {}
        BY DEF CatchUpInv, IndexInv, OwnersInv, Typed, ScansAreTyped, ScanEnds
  <1>2. PICK new \in Scans :
          /\ scan' = [scan EXCEPT ![p] = new]
          /\ new.at = "finished" /\ new.todo = j.todo /\ new.seen = j.seen /\ new.known = j.known
          /\ new.edited = j.edited
        <2> DEFINE next == [j EXCEPT !.at = "finished", !.complete = TRUE]
        <2>1. /\ next \in Scans /\ next.at = "finished" /\ next.todo = j.todo /\ next.seen = j.seen
              /\ next.known = j.known /\ next.edited = j.edited
              BY <1>1 DEF Scans, ScanAt
        <2>2. scan' = [scan EXCEPT ![p] = next]
              BY DEF ScanEnds
        <2> QED BY <2>1, <2>2
  <1>3. UNCHANGED <<disk, phase, chunks, mixed, skewed>>
        BY DEF ScanEnds, world, index, ghosts
  <1>4. scan'[p] = new
        BY <1>2 DEF CatchUpInv, IndexInv, OwnersInv, Typed, ScansAreTyped
  <1>5. IsThrough(scan[p])'
        BY <1>1, <1>2, <1>4 DEF IsThrough, Stale
  <1>6. ASSUME StoreOpen(p)'
        PROVE  (SeenIsPresent(scan[p]) /\ PathIsCurrent(scan[p]) /\ BehindIsDone(scan[p]))'
        <2>1. StoreOpen(p)
              BY <1>3, <1>6 DEF StoreOpen
        <2>2. SeenIsPresent(j) /\ BehindIsDone(j)
              BY <1>1, <2>1, ScansAreCaughtUp DEF ScanPlace
        <2> HIDE DEF j
        <2>3. SeenIsPresent(new)' /\ PathIsCurrent(new)'
              BY <1>2, <1>3, <2>2 DEF SeenIsPresent, PathIsCurrent, PathPlace, Readable, Present
        <2>4. Behind(new) = Behind(j)
              BY <1>1, <1>2 DEF Behind, PathPlace
        <2>5. BehindIsDone(new)'
              <3>1. BehindIsDone(new)
                    BY <1>2, <2>2, <2>4 DEF BehindIsDone
              <3> QED BY <1>3, <3>1 DEF BehindIsDone, Behind, Readable, Present
        <2>6. SeenIsPresent(scan[p])' /\ PathIsCurrent(scan[p])'
              BY <1>4, <2>3 DEF SeenIsPresent, PathIsCurrent
        <2>7. BehindIsDone(scan[p])'
              BY <1>4, <2>5 DEF BehindIsDone, Behind
        <2> QED BY <2>6, <2>7
  <1> QED BY <1>5, <1>6 DEF CaughtUpAt, Catching

(* An edit is noted by every scan that has begun.                           *)
LEMMA EditKeepsCaughtUp ==
  ASSUME CatchUpInv, NEW f \in Path, NEW t \in Text \cup {Gone, Unreadable}, Edit(f, t), NEW p \in Process
  PROVE  CaughtUpAt(p)'
PROOF
  <1> DEFINE j == scan[p]
  <1>1. /\ disk' = [disk EXCEPT ![f] = [text |-> t, mtime |-> edits + 1]]
        /\ scan' = [q \in Process |-> IF scan[q].at \in {"idle", "begin", "claim", "lock"}
                                        THEN scan[q] ELSE [scan[q] EXCEPT !.edited = @ \cup {f}]]
        /\ UNCHANGED <<chunks, phase, mixed, skewed>>
        BY DEF Edit, index, ghosts
  <1>2. \A g \in Path \ {f} : disk'[g] = disk[g]
        BY <1>1 DEF CatchUpInv, IndexInv, OwnersInv, Typed, TablesAreTyped
  <1>3. j \in Scans /\ CaughtUpAt(p) /\ Unfinished
        BY DEF CatchUpInv, CaughtUp, IndexInv, OwnersInv, Typed, ScansAreTyped, Owned
  <1> DEFINE new == scan'[p]
  <1>4. CASE j.at \in {"idle", "begin", "claim", "lock"}
        <2>1. new = j /\ j.at \notin ScanPlace /\ j.at # "finished"
              BY <1>1, <1>4 DEF ScanPlace
        <2>2. ~j.complete
              BY <1>3, <2>1 DEF Unfinished
        <2> QED BY <2>1, <2>2, RestsAreCaughtUp
  <1>5. CASE j.at \notin {"idle", "begin", "claim", "lock"}
        <2>1. new = [j EXCEPT !.edited = @ \cup {f}]
              BY <1>1, <1>5
        <2>2. /\ new.at = j.at /\ new.complete = j.complete /\ new.todo = j.todo /\ new.seen = j.seen
              /\ new.known = j.known /\ new.path = j.path /\ new.text = j.text /\ new.edited = j.edited \cup {f}
              BY <1>3, <2>1 DEF Scans
        <2> HIDE DEF j
        <2>3. IsThrough(scan[p])'
              <3>1. IsThrough(j)
                    BY <1>3 DEF CaughtUpAt, j
              <3> QED BY <2>2, <3>1 DEF IsThrough, Stale
        <2>4. ASSUME Catching(p)'
              PROVE  (SeenIsPresent(scan[p]) /\ PathIsCurrent(scan[p]) /\ BehindIsDone(scan[p]))'
              <3>1. SeenIsPresent(j) /\ PathIsCurrent(j) /\ BehindIsDone(j)
                    <4>1. Catching(p)
                          BY <1>1, <2>2, <2>4 DEF Catching, StoreOpen, j
                    <4> QED BY <1>3, <4>1 DEF CaughtUpAt, j
              <3>2. SeenIsPresent(scan[p])'
                    BY <1>2, <2>2, <3>1 DEF SeenIsPresent, Readable, Present
              <3>3. PathIsCurrent(scan[p])'
                    <4>1. ASSUME j.at \in PathPlace, j.path \notin j.edited \cup {f}
                          PROVE  disk'[j.path].text # Gone /\ (j.at # "read" => j.text = disk'[j.path].text)
                          <5>1. j.path \in Path
                                BY <4>1 DEF CatchUpInv, IndexInv, OwnersInv, Typed, ScansAreTyped, ScanIsTyped, j
                          <5>2. disk'[j.path] = disk[j.path]
                                BY <1>2, <4>1, <5>1
                          <5> QED BY <3>1, <4>1, <5>2 DEF PathIsCurrent, Present
                    <4> QED BY <2>2, <4>1 DEF PathIsCurrent, Present
              <3>4. BehindIsDone(scan[p])'
                    <4>1. ASSUME NEW g \in Behind(j) \ (j.edited \cup {f} \cup mixed \cup skewed)
                          PROVE  /\ disk'[g].text \in Text => chunks[g] = {disk'[g].text}
                                 /\ disk'[g].text = Gone /\ g \in j.seen => chunks[g] = {}
                          <5>1. disk'[g] = disk[g]
                                BY <1>2, <4>1 DEF Behind
                          <5> QED BY <3>1, <4>1, <5>1 DEF BehindIsDone, Readable, Present
                    <4> QED BY <1>1, <2>2, <4>1 DEF BehindIsDone, Behind, Readable, Present
              <3> QED BY <3>2, <3>3, <3>4
        <2> QED BY <2>3, <2>4 DEF CaughtUpAt
  <1> QED BY <1>4, <1>5

(* The steps after which a scan has not begun, or has failed.                *)
LEMMA RestingStepsAreCaughtUp ==
  ASSUME CatchUpInv, NEW p \in Process,
         \/ \E by \in {"start", "cli"} : Open(p, by)
         \/ Search(p) \/ Begin(p) \/ Claim(p) \/ NoWriteLock(p) \/ Interrupt(p) \/ StoreGone(p)
         \/ StartWatcher(p) \/ ForegroundEnds(p) \/ Crash(p)
  PROVE  CaughtUpAt(p)'
PROOF
  <1>1. scan \in [Process -> Scans] /\ NoScan \in Scans /\ NoScan.at = "idle" /\ ~NoScan.complete
        BY NoScanIsTyped, EditsAreNatural DEF CatchUpInv, IndexInv, OwnersInv, Typed, ScansAreTyped
  <1>2. scan[p].at \in {"begin", "claim"} => ~scan[p].complete
        BY DEF CatchUpInv, IndexInv, OwnersInv, Owned, Unfinished
  <1>3. \E new \in Scans : new.at \notin ScanPlace /\ ~new.complete /\ scan' = [scan EXCEPT ![p] = new]
        <2>1. ASSUME NEW by \in {"start", "search", "cli"},
                     scan' = [scan EXCEPT ![p] = [NoScan EXCEPT !.at = "begin", !.by = by]]
              PROVE  \E new \in Scans : new.at \notin ScanPlace /\ ~new.complete /\ scan' = [scan EXCEPT ![p] = new]
              <3> DEFINE next == [NoScan EXCEPT !.at = "begin", !.by = by]
              <3>1. next \in Scans /\ next.at = "begin" /\ ~next.complete
                    BY EditsAreNatural, BegunScanIsTyped DEF CatchUpInv, IndexInv, OwnersInv
              <3>2. scan' = [scan EXCEPT ![p] = next]
                    BY <2>1
              <3> QED BY <3>1, <3>2 DEF ScanPlace
        <2>2. ASSUME NEW at \in {"claim", "lock", "finished"}, ~scan[p].complete,
                     scan' = [scan EXCEPT ![p] = [scan[p] EXCEPT !.at = at]]
              PROVE  \E new \in Scans : new.at \notin ScanPlace /\ ~new.complete /\ scan' = [scan EXCEPT ![p] = new]
              <3> DEFINE next == [scan[p] EXCEPT !.at = at]
              <3>1. next \in Scans /\ next.at = at /\ next.complete = scan[p].complete
                    BY <1>1 DEF Scans, ScanAt
              <3> QED BY <2>2, <3>1 DEF ScanPlace
        <2>3. CASE \E by \in {"start", "cli"} : Open(p, by)
              BY <2>1, <2>3 DEF Open
        <2>4. CASE Search(p)
              BY <2>1, <2>4 DEF Search
        <2>5. CASE Begin(p)
              <3>1. \/ scan' = [scan EXCEPT ![p] = NoScan]
                    \/ scan' = [scan EXCEPT ![p] = [scan[p] EXCEPT !.at = "claim"]]
                    BY <1>1, <2>5 DEF Begin
              <3>2. ~scan[p].complete
                    BY <1>2, <2>5 DEF Begin
              <3> QED BY <1>1, <2>2, <3>1, <3>2 DEF ScanPlace
        <2>6. CASE Claim(p)
              <3>1. \/ scan' = [scan EXCEPT ![p] = [scan[p] EXCEPT !.at = "lock"]]
                    \/ scan' = [scan EXCEPT ![p] = [scan[p] EXCEPT !.at = "finished"]]
                    \/ scan' = [scan EXCEPT ![p] = NoScan]
                    BY <1>1, <2>6 DEF Claim
              <3>2. ~scan[p].complete
                    BY <1>2, <2>6 DEF Claim
              <3> QED BY <1>1, <2>2, <3>1, <3>2 DEF ScanPlace
        <2>7. CASE NoWriteLock(p) \/ Interrupt(p) \/ StoreGone(p)
              <3> DEFINE next == [scan[p] EXCEPT !.at = "finished", !.complete = FALSE]
              <3>1. scan' = [scan EXCEPT ![p] = next]
                    BY <2>7 DEF NoWriteLock, Interrupt, StoreGone, ScanFails
              <3>2. next \in Scans /\ next.at = "finished" /\ ~next.complete
                    BY <1>1 DEF Scans, ScanAt
              <3> QED BY <3>1, <3>2 DEF ScanPlace
        <2>8. CASE StartWatcher(p) \/ ForegroundEnds(p) \/ Crash(p)
              BY <1>1, <2>8 DEF StartWatcher, ForegroundEnds, Crash, ScanPlace
        <2> QED BY <2>3, <2>4, <2>5, <2>6, <2>7, <2>8
  <1> QED BY <1>1, <1>3, RestsAreCaughtUp

(* One process goes on, which cannot harm a scan of another.                *)
LEMMA OneProcessCatchesUp ==
  ASSUME CatchUpInv, [Next]_vars, NEW p \in Process, CaughtUpAt(p)', disk' = disk,
         \A q \in Process \ {p} : scan'[q] = scan[q] /\ flush'[q] = flush[q] /\ phase'[q] = phase[q]
  PROVE  CaughtUp'
PROOF
  <1>1. ASSUME NEW q \in Process
        PROVE  CaughtUpAt(q)'
        <2>1. CASE q = p
              BY <2>1 DEF CaughtUpAt, Catching, IsThrough, Stale, SeenIsPresent, PathIsCurrent, BehindIsDone, Behind,
                 StoreOpen
        <2>2. CASE q # p
              BY <2>2, OthersStayCaughtUp DEF StoreOpen
        <2> QED BY <2>1, <2>2
  <1> QED BY <1>1 DEF CaughtUp

LEMMA ScanStepsCatchUp ==
  ASSUME CatchUpInv, [Next]_vars, NEW p \in Process, IndexInv',
         (\E by \in {"start", "cli"} : Open(p, by)) \/ Search(p) \/ ScanStep(p) \/ Crash(p)
  PROVE  CaughtUp'
PROOF
  <1>1. CaughtUpAt(p)'
        <2>1. ASSUME NEW rebuild \in BOOLEAN, StartScan(p, rebuild)
              PROVE  CaughtUpAt(p)'
              BY <2>1, StartScanCatchesUp
        <2>2. CASE Visit(p) \/ Read(p) \/ ScanWrite(p) \/ DeleteStale(p) \/ ScanEnds(p)
              BY <2>2, VisitCatchesUp, ReadCatchesUp, ScanWriteCatchesUp, DeleteStaleCatchesUp, ScanEndCatchesUp
        <2>3. CASE (\E by \in {"start", "cli"} : Open(p, by)) \/ Search(p) \/ Begin(p) \/ Claim(p) \/ NoWriteLock(p)
                     \/ Interrupt(p) \/ StoreGone(p) \/ StartWatcher(p) \/ ForegroundEnds(p) \/ Crash(p)
              BY <2>3, RestingStepsAreCaughtUp
        <2> QED BY <2>1, <2>2, <2>3 DEF ScanStep
  <1>2. disk' = disk
        <2>1. ASSUME NEW rebuild \in BOOLEAN, StartScan(p, rebuild)
              PROVE  disk' = disk
              BY <2>1, StartScanLeavesRest
        <2> QED BY <2>1 DEF Open, Search, ScanStep, Begin, Claim, NoWriteLock, ScanFails, Interrupt, Visit, Read,
                   ScanWrite, DeleteStale, ScanEnds, StoreGone, StartWatcher, ForegroundEnds, Crash, world
  <1>3. /\ scan \in [Process -> Scans] /\ phase \in [Process -> {"new", "open", "closing", "closed"}]
        /\ flush \in [Process -> [Slot -> Flushes]]
        BY DEF CatchUpInv, IndexInv, OwnersInv, Typed, ScansAreTyped, TablesAreTyped, FlushesAreTyped
  <1>4. \A q \in Process \ {p} : scan'[q] = scan[q] /\ flush'[q] = flush[q] /\ phase'[q] = phase[q]
        <2>1. ASSUME NEW rebuild \in BOOLEAN, StartScan(p, rebuild)
              PROVE  \A q \in Process \ {p} : scan'[q] = scan[q] /\ flush'[q] = flush[q] /\ phase'[q] = phase[q]
              <3>1. PICK new \in Scans : scan' = [scan EXCEPT ![p] = new]
                    BY <2>1, StartScanEffects DEF CatchUpInv, IndexInv
              <3>2. UNCHANGED <<flush, phase>>
                    BY <2>1, StartScanLeavesRest
              <3> QED BY <1>3, <3>1, <3>2
        <2>2. CASE Visit(p) \/ Read(p)
              BY <1>3, <2>2 DEF Visit, Read
        <2>3. CASE ScanWrite(p) \/ DeleteStale(p) \/ ScanEnds(p)
              BY <1>3, <2>3 DEF ScanWrite, DeleteStale, ScanEnds
        <2>4. CASE NoWriteLock(p) \/ Interrupt(p) \/ StoreGone(p)
              BY <1>3, <2>4 DEF NoWriteLock, Interrupt, StoreGone, ScanFails
        <2>5. CASE (\E by \in {"start", "cli"} : Open(p, by)) \/ Search(p)
              BY <1>3, <2>5 DEF Open, Search
        <2>6. CASE Begin(p) \/ Claim(p)
              BY <1>3, <2>6 DEF Begin, Claim
        <2>7. CASE StartWatcher(p) \/ ForegroundEnds(p) \/ Crash(p)
              BY <1>3, <2>7 DEF StartWatcher, ForegroundEnds, Crash
        <2> QED BY <2>1, <2>2, <2>3, <2>4, <2>5, <2>6, <2>7 DEF ScanStep
  <1> QED BY <1>1, <1>2, <1>4, OneProcessCatchesUp

LEMMA ClosesKeepCaughtUp ==
  ASSUME CatchUpInv, [Next]_vars, NEW p \in Process, BeginClose(p) \/ Close(p)
  PROVE  CaughtUp'
PROOF
  <1>1. phase \in [Process -> {"new", "open", "closing", "closed"}]
        BY DEF CatchUpInv, IndexInv, OwnersInv, Typed, TablesAreTyped
  <1>2. UNCHANGED <<disk, scan, flush>> /\ \A q \in Process : StoreOpen(q)' => StoreOpen(q)
        BY <1>1 DEF BeginClose, Close, StoreOpen, world
  <1> QED BY <1>2, OthersStayCaughtUp DEF CaughtUp

(* A process that follows changes has no scan under way.                    *)
LEMMA FlushesKeepCaughtUp ==
  ASSUME CatchUpInv, [Next]_vars, NEW p \in Process, NEW k \in Slot, FlushStep(p, k)
  PROVE  CaughtUp'
PROOF
  <1>1. UNCHANGED <<disk, scan, phase>>
        BY DEF FlushStep, FlushStart, FlushRead, FlushStat, FlushWrite, FlushFails, world
  <1>2. ASSUME NEW q \in Process
        PROVE  CaughtUpAt(q)'
        <2>1. CASE q # p
              <3>1. flush'[q] = flush[q]
                    BY <2>1 DEF FlushStep, FlushStart, FlushRead, FlushStat, FlushWrite, FlushFails,
                       CatchUpInv, IndexInv, OwnersInv, Typed, FlushesAreTyped
              <3> QED BY <1>1, <3>1, OthersStayCaughtUp DEF StoreOpen
        <2>2. CASE q = p
              <3>1. ASSUME Catching(p)
                    PROVE  UNCHANGED <<chunks, mixed, skewed>>
                    <4>1. flush[p][k].at = "idle"
                          BY <3>1, CatchersOwn DEF CatchUpInv, IndexInv, Flushing
                    <4>2. FlushStart(p, k)
                          BY <4>1 DEF FlushStep, FlushRead, FlushStat, FlushWrite, FlushFails, Writing
                    <4> QED BY <4>2 DEF FlushStart, index, ghosts
              <3>2. StoreOpen(p)' => StoreOpen(p)
                    BY <1>1 DEF StoreOpen
              <3>3. CaughtUpAt(p)'
                    BY <1>1, <3>1, <3>2, StandingScansStay
              <3> QED BY <2>2, <3>3
        <2> QED BY <2>1, <2>2
  <1> QED BY <1>2 DEF CaughtUp

LEMMA StepsKeepCaughtUp ==
  ASSUME CatchUpInv, [Next]_vars
  PROVE  CatchUpInv'
PROOF
  <1>1. IndexInv'
        BY StepsKeepIndex DEF CatchUpInv
  <1>2. CASE Environment
        <2>1. ASSUME NEW p \in Process, (\E by \in {"start", "cli"} : Open(p, by)) \/ Search(p) \/ Crash(p)
              PROVE  CaughtUp'
              BY <1>1, <2>1, ScanStepsCatchUp
        <2>2. ASSUME NEW p \in Process, BeginClose(p)
              PROVE  CaughtUp'
              BY <2>2, ClosesKeepCaughtUp
        <2>3. ASSUME NEW f \in Path, NEW t \in Text \cup {Gone, Unreadable}, Edit(f, t)
              PROVE  CaughtUp'
              BY <2>3, EditKeepsCaughtUp DEF CaughtUp
        <2> QED BY <1>1, <1>2, <2>1, <2>2, <2>3 DEF Environment, CatchUpInv
  <1>3. ASSUME NEW p \in Process, ScanStep(p)
        PROVE  CaughtUp'
        BY <1>1, <1>3, ScanStepsCatchUp
  <1>4. ASSUME NEW p \in Process, Close(p)
        PROVE  CaughtUp'
        BY <1>4, ClosesKeepCaughtUp
  <1>5. ASSUME NEW p \in Process, NEW k \in Slot, FlushStep(p, k)
        PROVE  CaughtUp'
        BY <1>5, FlushesKeepCaughtUp
  <1>6. CASE UNCHANGED vars
        <2>1. UNCHANGED <<disk, scan, flush, phase>>
              BY <1>6 DEF vars, world
        <2>2. CaughtUp'
              BY <2>1, OthersStayCaughtUp DEF CaughtUp, StoreOpen
        <2> QED BY <1>1, <2>2 DEF CatchUpInv
  <1> QED BY <1>1, <1>2, <1>3, <1>4, <1>5, <1>6 DEF Next, ProcessStep, CatchUpInv

LEMMA CatchUpInvariant ==
  Spec => []CatchUpInv
PROOF
  <1>1. Init => IndexInv
        BY IndexStarts
  <1>2. Init => CaughtUp
        <2> SUFFICES ASSUME Init PROVE CaughtUp
            OBVIOUS
        <2>1. \A p \in Process : scan[p].at = "idle" /\ ~scan[p].complete
              BY DEF Init, NoScan
        <2> QED BY <2>1 DEF CaughtUp, CaughtUpAt, IsThrough, Catching, ScanPlace
  <1>3. CatchUpInv /\ [Next]_vars => CatchUpInv'
        BY StepsKeepCaughtUp
  <1> QED BY <1>1, <1>2, <1>3, PTL DEF Spec, CatchUpInv

(* A scan that ran to its end has brought the index up to date with the      *)
(* tree, whatever the index was before, whoever left it so, and whichever    *)
(* processes opened and closed the workspace meanwhile: a readable path that *)
(* did not change has exactly the chunks of its text, and a deleted one that *)
(* had a record has none.  The paths on which two flushes ran into each      *)
(* other or took the mtime of a later text are excepted, as in the property. *)
THEOREM CatchUpsAreComplete ==
  Spec => []CatchUpIsComplete
PROOF
  <1>1. ASSUME CatchUpInv, NEW p \in Process, scan[p].at = "finished", scan[p].complete, StoreOpen(p),
               NEW f \in Path \ (scan[p].edited \cup mixed \cup skewed),
               Readable(f) \/ (~Present(f) /\ scan[p].known[f] # NoRecord)
        PROVE  IndexMatches(f)
        <2>1. IsThrough(scan[p]) /\ BehindIsDone(scan[p])
              BY <1>1 DEF CatchUpInv, CaughtUp, CaughtUpAt, Catching
        <2>2. scan[p].todo = {} /\ Stale(scan[p]) = {} /\ f \in Behind(scan[p])
              BY <1>1, <2>1 DEF IsThrough, Behind, PathPlace
        <2>3. CASE Readable(f)
              BY <1>1, <2>1, <2>2, <2>3 DEF BehindIsDone, IndexMatches
        <2>4. CASE ~Present(f) /\ scan[p].known[f] # NoRecord
              <3>1. f \in scan[p].seen /\ ~Readable(f)
                    BY <1>1, <2>2, <2>4, ReadableIsPresent DEF Stale
              <3> QED BY <1>1, <2>1, <2>2, <2>4, <3>1 DEF BehindIsDone, IndexMatches
        <2> QED BY <1>1, <2>3, <2>4
  <1>2. CatchUpInv => CatchUpIsComplete
        BY <1>1 DEF CatchUpIsComplete
  <1> QED BY <1>2, CatchUpInvariant, PTL
=============================================================================
