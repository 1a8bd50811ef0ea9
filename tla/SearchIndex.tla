------------------------------ MODULE SearchIndex ------------------------------
(***************************************************************************)
(* The search index of one workspace: the database (search_index/store.py)  *)
(* and the indexers of the processes that have the workspace open           *)
(* (search_index/indexer.py).  One process owns the index; it brings the    *)
(* index up to date with a scan and then follows the changes it sees.       *)
(*                                                                         *)
(* A Text is the content of a path and stands for its hash and its chunks.  *)
(* The mtime of a path is the number of the edit that wrote it.  A File is  *)
(* a file of the tree or a memory; a Skill is a skill's markdown file,      *)
(* which the scan compares by hash only and the watcher does not see.       *)
(***************************************************************************)
EXTENDS Naturals, FiniteSets

CONSTANTS
  File,
  Skill,
  Text,
  Gone,        \* the path does not exist
  Unreadable,  \* too large, or not UTF-8
  Nobody,
  NoRecord,
  Trees,       \* bound: the sets of paths that may come to exist
  MaxEdits,    \* bound: edits of paths
  MaxOpens,    \* bound: processes that open the workspace
  MaxCrashes   \* bound: processes that die

ASSUME IndexAssumption ==
  /\ File \cap Skill = {}
  /\ Nobody \notin Nat
  /\ Trees \subseteq SUBSET (File \cup Skill)
  /\ {Gone, Unreadable} \cap Text = {} /\ Gone # Unreadable
  /\ Text # {} /\ NoRecord \notin [hash : Text, mtime : Nat]
  /\ {MaxEdits, MaxOpens, MaxCrashes} \subseteq Nat

(* The processes are numbered in the order in which they open the workspace. *)
Process == 1..MaxOpens
Path == File \cup Skill
Record == [hash : Text, mtime : Nat]

VARIABLES
  tree,      \* the paths of this workspace
  disk,      \* content and mtime of each path
  edits,
  chunks,    \* the texts that have chunks in the database, for each path
  record,    \* the row of table files, for each path
  owner,     \* who holds indexer.lock
  writer,    \* whose scan holds write.lock
  phase,     \* of each process's indexer
  watching,  \* the processes whose observer runs
  pending,   \* _pending_paths of each process
  scan,      \* the thread of each process that claims and scans
  flush,     \* the two flushes of each process that may overlap
  mixed,     \* paths two flushes have reindexed at the same time
  skewed,    \* paths recorded with the mtime of a later content
  dropped,   \* paths whose flush could not get write.lock
  late,      \* processes that claimed the index after they closed it
  opens,
  crashes

index == <<chunks, record>>
ghosts == <<mixed, skewed, dropped, late>>
world == <<tree, disk, edits, opens, crashes>>
vars == <<world, index, owner, writer, phase, watching, pending, scan, flush, ghosts>>

Slot == {1, 2}
NoScan == [at |-> "idle", by |-> "start", known |-> [f \in Path |-> NoRecord],
           todo |-> {}, seen |-> {}, path |-> Nobody, text |-> Gone, stamp |-> [f \in Path |-> 0],
           edited |-> {}, complete |-> FALSE]
NoFlush == [at |-> "idle", todo |-> {}, path |-> Nobody, text |-> Gone,
            readAt |-> 0, stamp |-> 0]

Init ==
  /\ tree \in Trees
  /\ disk = [f \in Path |->
       [text |-> IF f \in tree THEN CHOOSE t \in Text : TRUE ELSE Gone, mtime |-> 0]]
  /\ edits = 0
  /\ chunks = [f \in Path |-> {}]
  /\ record = [f \in Path |-> NoRecord]
  /\ owner = Nobody
  /\ writer = Nobody
  /\ phase = [p \in Process |-> "new"]
  /\ watching = {}
  /\ pending = [p \in Process |-> {}]
  /\ scan = [p \in Process |-> NoScan]
  /\ flush = [p \in Process |-> [k \in Slot |-> NoFlush]]
  /\ mixed = {} /\ skewed = {} /\ dropped = {} /\ late = {}
  /\ opens = 0 /\ crashes = 0

Closing(p) == phase[p] # "open"
StoreOpen(p) == phase[p] # "closed"
Present(f) == disk[f].text # Gone
Readable(f) == disk[f].text \in Text
Idle(p) == scan[p].at = "idle" /\ \A k \in Slot : flush[p][k].at = "idle"

-----------------------------------------------------------------------------
(* The tables.  Each operation of the store is one transaction.             *)

(* Between delete_for_path and set_file_hash of one reindex.                *)
Reindexing(f) ==
  \/ \E p \in Process : scan[p].path = f /\ scan[p].at \in {"upsert", "record"}
  \/ \E p \in Process, k \in Slot :
       flush[p][k].path = f /\ flush[p][k].at \in {"upsert", "record"}

DeleteForPath(f) ==
  /\ chunks' = [chunks EXCEPT ![f] = {}]
  /\ record' = [record EXCEPT ![f] = NoRecord]
  /\ mixed' = IF Reindexing(f) THEN mixed \cup {f} ELSE mixed \ {f}
  /\ UNCHANGED <<skewed, dropped, late>>

(* A chunk replaces the one that covers the same lines.                     *)
UpsertChunks(f, t) ==
  /\ \E kept \in SUBSET chunks[f] : chunks' = [chunks EXCEPT ![f] = kept \cup {t}]
  /\ UNCHANGED <<record, ghosts>>

SetFileHash(f, t, mtime, skew) ==
  /\ record' = [record EXCEPT ![f] = [hash |-> t, mtime |-> mtime]]
  /\ skewed' = IF skew THEN skewed \cup {f} ELSE skewed \ {f}
  /\ UNCHANGED <<chunks, mixed, dropped, late>>

Clear ==
  /\ chunks' = [f \in Path |-> {}]
  /\ record' = [f \in Path |-> NoRecord]

-----------------------------------------------------------------------------
(* Claiming the index                                                       *)

(* A session constructs its indexer, whose start() spawns the thread; the    *)
(* command `klorb index scan` constructs one for run_foreground_scan.        *)
Open(p, by) ==
  /\ p = opens + 1
  /\ opens' = p
  /\ phase' = [phase EXCEPT ![p] = "open"]
  /\ scan' = [scan EXCEPT ![p] = [NoScan EXCEPT !.at = "begin", !.by = by]]
  /\ UNCHANGED <<tree, disk, edits, crashes, index, owner, writer, watching, pending, flush, ghosts>>

(* hybrid_search of a process that does not own the index.                  *)
Search(p) ==
  /\ phase[p] = "open" /\ owner # p
  /\ scan[p].at = "idle" /\ scan[p].by # "cli"
  /\ owner = Nobody
  /\ scan' = [scan EXCEPT ![p] = [NoScan EXCEPT !.at = "begin", !.by = "search"]]
  /\ UNCHANGED <<world, index, owner, writer, phase, watching, pending, flush, ghosts>>

(* _begin_ownership: a no-op for an indexer that is being closed.           *)
Begin(p) ==
  /\ scan[p].at = "begin"
  /\ scan' = [scan EXCEPT ![p] = IF Closing(p) THEN NoScan ELSE [@ EXCEPT !.at = "claim"]]
  /\ UNCHANGED <<world, index, owner, writer, phase, watching, pending, flush, ghosts>>

(* One attempt, without backoff.                                            *)
Claim(p) ==
  /\ scan[p].at = "claim"
  /\ IF owner = Nobody
       THEN /\ owner' = p
            /\ scan' = [scan EXCEPT ![p].at = "lock"]
            /\ late' = IF scan[p].by = "search" /\ phase[p] = "closed" THEN late \cup {p} ELSE late
       ELSE /\ scan' = [scan EXCEPT ![p] = IF @.by = "cli" THEN [@ EXCEPT !.at = "finished"]
                                                          ELSE NoScan]
            /\ UNCHANGED <<owner, late>>
  /\ UNCHANGED <<world, index, writer, phase, watching, pending, flush, mixed, skewed, dropped>>

(* An exception ends the scan, which releases write.lock.                   *)
ScanFails(p) ==
  /\ scan' = [scan EXCEPT ![p].at = "finished", ![p].complete = FALSE]
  /\ writer' = IF writer = p THEN Nobody ELSE writer
  /\ UNCHANGED <<world, index, owner, phase, watching, pending, flush, ghosts>>

-----------------------------------------------------------------------------
(* The scan                                                                 *)

(* _collect_dirty: the foreground scan stats every file before it reads one. *)
Dirty(known) == {f \in File : Present(f) /\
                   (known[f] = NoRecord \/ known[f].mtime # disk[f].mtime)}

(* _initial_scan under one hold of write.lock; the walk lists a directory    *)
(* when it comes to it, so a path counts if it exists when it is visited.    *)
StartScan(p, rebuild) ==
  LET known == IF rebuild THEN [f \in Path |-> NoRecord] ELSE record
  IN  /\ scan[p].at = "lock" /\ StoreOpen(p) /\ writer = Nobody
      /\ rebuild => scan[p].by = "cli"
      /\ writer' = p
      /\ IF rebuild THEN Clear ELSE UNCHANGED index
      /\ scan' = [scan EXCEPT ![p].at = "next", ![p].known = known, ![p].edited = {},
           ![p].stamp = [f \in Path |-> IF f \in File THEN disk[f].mtime ELSE 0],
           ![p].todo = IF scan[p].by = "cli" THEN Dirty(known) \cup Skill ELSE Path,
           ![p].seen = IF scan[p].by = "cli" THEN {f \in File : Present(f)} ELSE {}]
      /\ UNCHANGED <<world, owner, phase, watching, pending, flush, ghosts>>

NoWriteLock(p) ==
  /\ scan[p].at = "lock"
  /\ ~StoreOpen(p) \/ writer # Nobody
  /\ ScanFails(p)

(* The order of the sources: skills first in the foreground scan, last in    *)
(* the initial one.                                                         *)
Upcoming(j) ==
  LET first == IF j.by = "cli" THEN Skill ELSE File
  IN  IF j.todo \cap first # {} THEN j.todo \cap first ELSE j.todo

(* close() interrupts the initial scan between two files.                   *)
Interrupted(p) ==
  scan[p].by # "cli" /\ Closing(p) /\ scan[p].todo \cap File # {}

Interrupt(p) ==
  /\ scan[p].at = "next" /\ Interrupted(p)
  /\ ScanFails(p)

(* Whether a visited path's mtime says that it need not be read.             *)
Unmoved(j, f) ==
  /\ f \in File /\ j.by # "cli"
  /\ j.known[f] # NoRecord /\ j.known[f].mtime = disk[f].mtime

(* The mtime is taken before the file is read.                              *)
Visited(j, f) ==
  IF ~Present(f) \/ Unmoved(j, f)
    THEN [j EXCEPT !.todo = @ \ {f}, !.seen = IF Present(f) THEN @ \cup {f} ELSE @]
    ELSE [j EXCEPT !.todo = @ \ {f}, !.seen = @ \cup {f}, !.path = f, !.at = "read",
            !.stamp[f] = IF f \in File /\ j.by # "cli" THEN disk[f].mtime ELSE @]

Visit(p) ==
  /\ scan[p].at = "next" /\ ~Interrupted(p)
  /\ \E f \in Upcoming(scan[p]) : scan' = [scan EXCEPT ![p] = Visited(scan[p], f)]
  /\ UNCHANGED <<world, index, owner, writer, phase, watching, pending, flush, ghosts>>

(* _scan_one_file and _scan_skills once the text is read.                   *)
Compared(j, t) ==
  LET old == j.known[j.path]
  IN  IF t \notin Text THEN [j EXCEPT !.at = "next", !.path = Nobody]
      ELSE IF old = NoRecord \/ old.hash # t THEN [j EXCEPT !.text = t, !.at = "delete"]
      ELSE [j EXCEPT !.text = t, !.at = IF j.path \in File THEN "record" ELSE "next"]

Read(p) ==
  /\ scan[p].at = "read"
  /\ scan' = [scan EXCEPT ![p] = Compared(scan[p], disk[scan[p].path].text)]
  /\ UNCHANGED <<world, index, owner, writer, phase, watching, pending, flush, ghosts>>

(* The order of _reindex_file's three transactions.                          *)
After(at) == CASE at = "delete" -> "upsert" [] at = "upsert" -> "record" [] at = "record" -> "next"

Reindex(j, mtime, skew) ==
  \/ j.at = "delete" /\ DeleteForPath(j.path)
  \/ j.at = "upsert" /\ UpsertChunks(j.path, j.text)
  \/ j.at = "record" /\ SetFileHash(j.path, j.text, mtime, skew)

(* Mutant: the mtime is taken when the record is written.                   *)
StampNow(j) == disk[j.path].mtime

Stamp(j) == j.stamp[j.path]

ScanWrite(p) ==
  /\ scan[p].at \in {"delete", "upsert", "record"} /\ StoreOpen(p)
  /\ Reindex(scan[p], Stamp(scan[p]), FALSE)
  /\ scan' = [scan EXCEPT ![p] = IF After(@.at) = "next"
       THEN [@ EXCEPT !.at = "next", !.path = Nobody, !.text = Gone]
       ELSE [@ EXCEPT !.at = After(scan[p].at)]]
  /\ UNCHANGED <<world, owner, writer, phase, watching, pending, flush>>

(* Mutant: what was not seen stays.                                         *)
StaleNever(j) == {}

(* What is recorded and was not seen is deleted, then the lock is released.  *)
Stale(j) == {f \in Path : j.known[f] # NoRecord} \ j.seen

DeleteStale(p) ==
  /\ scan[p].at = "next" /\ scan[p].todo = {} /\ StoreOpen(p)
  /\ \E f \in Stale(scan[p]) :
       /\ DeleteForPath(f)
       /\ scan' = [scan EXCEPT ![p].seen = @ \cup {f}]
  /\ UNCHANGED <<world, owner, writer, phase, watching, pending, flush>>

ScanEnds(p) ==
  /\ scan[p].at = "next" /\ scan[p].todo = {} /\ Stale(scan[p]) = {}
  /\ scan' = [scan EXCEPT ![p].at = "finished", ![p].complete = TRUE]
  /\ writer' = Nobody
  /\ UNCHANGED <<world, index, owner, phase, watching, pending, flush, ghosts>>

(* The store was closed under the scan: its next operation raises.          *)
StoreGone(p) ==
  /\ scan[p].at \in {"delete", "upsert", "record"} \/ (scan[p].at = "next" /\ Stale(scan[p]) # {})
  /\ ~StoreOpen(p)
  /\ ScanFails(p)

(* _start_watcher, whether or not the scan went through.                     *)
StartWatcher(p) ==
  /\ scan[p].at = "finished" /\ scan[p].by # "cli"
  /\ watching' = IF Closing(p) THEN watching ELSE watching \cup {p}
  /\ scan' = [scan EXCEPT ![p] = NoScan]
  /\ UNCHANGED <<world, index, owner, writer, phase, pending, flush, ghosts>>

(* run_foreground_scan gives the index back; `klorb index scan` closes it.   *)
ForegroundEnds(p) ==
  /\ scan[p].at = "finished" /\ scan[p].by = "cli"
  /\ owner' = IF owner = p THEN Nobody ELSE owner
  /\ phase' = [phase EXCEPT ![p] = "closed"]
  /\ scan' = [scan EXCEPT ![p] = NoScan]
  /\ UNCHANGED <<world, index, writer, watching, pending, flush, ghosts>>

-----------------------------------------------------------------------------
(* Following changes                                                        *)

(* _flush_pending_changes takes what is pending; a flush that embeds slowly  *)
(* may still run when the timer of a later change fires.                     *)
FlushStart(p, k) ==
  /\ p \in watching /\ ~Closing(p) /\ pending[p] # {}
  /\ flush[p][k].at = "idle" /\ \A i \in Slot : i < k => flush[p][i].at # "idle"
  /\ flush' = [flush EXCEPT ![p][k] = [NoFlush EXCEPT !.at = "next", !.todo = pending[p]]]
  /\ pending' = [pending EXCEPT ![p] = {}]
  /\ UNCHANGED <<world, index, owner, writer, phase, watching, scan, ghosts>>

(* Mutant: the chunks of a file that has become unreadable stay.            *)
LookedReadable(j, f) ==
  [j EXCEPT !.todo = @ \ {f}, !.path = f, !.text = disk[f].text, !.readAt = disk[f].mtime,
            !.at = IF Readable(f) THEN "stat" ELSE IF j.todo = {f} THEN "idle" ELSE "next"]

(* _reindex_changed_path reads the text first ...                            *)
Looked(j, f) ==
  [j EXCEPT !.todo = @ \ {f}, !.path = f, !.text = disk[f].text, !.readAt = disk[f].mtime,
            !.at = IF Readable(f) THEN "stat" ELSE "drop"]

FlushRead(p, k) ==
  /\ flush[p][k].at = "next"
  /\ \E f \in flush[p][k].todo : flush' = [flush EXCEPT ![p][k] = Looked(flush[p][k], f)]
  /\ UNCHANGED <<world, index, owner, writer, phase, watching, pending, scan, ghosts>>

(* ... and takes the mtime afterwards.                                       *)
FlushStat(p, k) ==
  LET f == flush[p][k].path
  IN  /\ flush[p][k].at = "stat"
      /\ flush' = [flush EXCEPT ![p][k].at = IF Present(f) THEN "delete" ELSE "drop",
                                ![p][k].stamp = disk[f].mtime]
      /\ UNCHANGED <<world, index, owner, writer, phase, watching, pending, scan, ghosts>>

Writing == {"delete", "upsert", "record", "drop"}

(* Each write takes write.lock for itself.                                  *)
FlushWrite(p, k) ==
  LET j == flush[p][k]
  IN  /\ j.at \in Writing /\ StoreOpen(p) /\ writer = Nobody
      /\ IF j.at = "drop" THEN DeleteForPath(j.path)
                          ELSE Reindex(j, j.stamp, j.readAt # j.stamp)
      /\ flush' = [flush EXCEPT ![p][k] = IF j.at = "drop" \/ After(j.at) = "next"
           THEN [NoFlush EXCEPT !.todo = j.todo, !.at = IF j.todo = {} THEN "idle" ELSE "next"]
           ELSE [j EXCEPT !.at = After(@)]]
      /\ UNCHANGED <<world, owner, writer, phase, watching, pending, scan>>

(* The store is closed, or write.lock stays taken through the backoff: the   *)
(* exception ends the thread and the paths it still had to do are lost.      *)
FlushFails(p, k) ==
  LET j == flush[p][k]
  IN  /\ j.at \in Writing
      /\ ~StoreOpen(p) \/ writer # Nobody
      /\ flush' = [flush EXCEPT ![p][k] = NoFlush]
      /\ dropped' = IF StoreOpen(p) THEN dropped \cup {j.path} \cup j.todo ELSE dropped
      /\ UNCHANGED <<world, index, owner, writer, phase, watching, pending, scan,
                     mixed, skewed, late>>

-----------------------------------------------------------------------------
(* Closing                                                                  *)

BeginClose(p) ==
  /\ phase[p] = "open" /\ scan[p].by # "cli"
  /\ phase' = [phase EXCEPT ![p] = "closing"]
  /\ UNCHANGED <<world, index, owner, writer, watching, pending, scan, flush, ghosts>>

(* Mutant: close() waits for no thread.                                     *)
JoinNone(p) == TRUE

(* close() waits for the thread of start(), though no longer than 30 seconds *)
(* when it embeds; a search that scans is nobody's to wait for.              *)
Joined(p) == scan[p].by = "search" \/ scan[p].at \in {"idle", "upsert"}

(* Mutant: the store stays open.                                            *)
CloseKeepingStore(p) ==
  /\ phase[p] = "closing" /\ Joined(p)
  /\ watching' = watching \ {p}
  /\ pending' = [pending EXCEPT ![p] = {}]
  /\ owner' = IF owner = p THEN Nobody ELSE owner
  /\ UNCHANGED <<world, index, writer, phase, scan, flush, ghosts>>

(* The rest of close(): the timer and the observer stop, the lock is given   *)
(* back and the store is closed.                                            *)
Close(p) ==
  /\ phase[p] = "closing" /\ Joined(p)
  /\ phase' = [phase EXCEPT ![p] = "closed"]
  /\ watching' = watching \ {p}
  /\ pending' = [pending EXCEPT ![p] = {}]
  /\ owner' = IF owner = p THEN Nobody ELSE owner
  /\ UNCHANGED <<world, index, writer, scan, flush, ghosts>>

(* The process dies; the system gives its locks back.                       *)
Crash(p) ==
  /\ crashes < MaxCrashes /\ (phase[p] \in {"open", "closing"} \/ ~Idle(p) \/ p \in late)
  /\ crashes' = crashes + 1
  /\ phase' = [phase EXCEPT ![p] = "closed"]
  /\ watching' = watching \ {p}
  /\ pending' = [pending EXCEPT ![p] = {}]
  /\ owner' = IF owner = p THEN Nobody ELSE owner
  /\ writer' = IF writer = p THEN Nobody ELSE writer
  /\ scan' = [scan EXCEPT ![p] = NoScan]
  /\ flush' = [flush EXCEPT ![p] = [k \in Slot |-> NoFlush]]
  /\ late' = late \ {p}
  /\ UNCHANGED <<tree, disk, edits, opens, index, mixed, skewed, dropped>>

(* Somebody changes a path; a running observer reports it.                  *)
Edit(f, t) ==
  /\ edits < MaxEdits /\ f \in tree
  /\ t = Gone => Present(f)
  /\ edits' = edits + 1
  /\ disk' = [disk EXCEPT ![f] = [text |-> t, mtime |-> edits + 1]]
  /\ pending' = [p \in Process |-> IF p \in watching /\ f \in File
                                     THEN pending[p] \cup {f} ELSE pending[p]]
  /\ scan' = [p \in Process |-> IF scan[p].at \in {"idle", "begin", "claim", "lock"}
                                  THEN scan[p] ELSE [scan[p] EXCEPT !.edited = @ \cup {f}]]
  /\ UNCHANGED <<tree, opens, crashes, index, owner, writer, phase, watching, flush, ghosts>>

-----------------------------------------------------------------------------
ScanStep(p) ==
  \/ Begin(p) \/ Claim(p) \/ (\E rebuild \in BOOLEAN : StartScan(p, rebuild)) \/ NoWriteLock(p)
  \/ Interrupt(p) \/ Visit(p) \/ Read(p) \/ ScanWrite(p) \/ DeleteStale(p) \/ ScanEnds(p)
  \/ StoreGone(p) \/ StartWatcher(p) \/ ForegroundEnds(p)

FlushStep(p, k) ==
  FlushStart(p, k) \/ FlushRead(p, k) \/ FlushStat(p, k) \/ FlushWrite(p, k) \/ FlushFails(p, k)

Environment ==
  \/ \E p \in Process :
       (\E by \in {"start", "cli"} : Open(p, by)) \/ Search(p) \/ BeginClose(p) \/ Crash(p)
  \/ \E f \in Path, t \in Text \cup {Gone, Unreadable} : Edit(f, t)

ProcessStep(p) == ScanStep(p) \/ Close(p) \/ \E k \in Slot : FlushStep(p, k)

Next == Environment \/ \E p \in Process : ProcessStep(p)

Spec == Init /\ [][Next]_vars

(* A process that lives keeps running.                                      *)
Fairness == \A p \in Process : WF_vars(ProcessStep(p))

FairSpec == Spec /\ Fairness

-----------------------------------------------------------------------------
(* Every variable has its type and one process at most holds each lock.     *)
TypeOK ==
  /\ disk \in [Path -> [text : Text \cup {Gone, Unreadable}, mtime : 0..edits]]
  /\ tree \in Trees /\ edits \in 0..MaxEdits /\ opens \in 0..MaxOpens /\ crashes \in 0..MaxCrashes
  /\ chunks \in [Path -> SUBSET Text]
  /\ record \in [Path -> [hash : Text, mtime : 0..edits] \cup {NoRecord}]
  /\ owner \in Process \cup {Nobody} /\ writer \in Process \cup {Nobody}
  /\ phase \in [Process -> {"new", "open", "closing", "closed"}]
  /\ watching \subseteq Process
  /\ pending \in [Process -> SUBSET File]
  /\ mixed \subseteq Path /\ skewed \subseteq File /\ dropped \subseteq File /\ late \subseteq Process
  /\ \A p \in Process :
       /\ scan[p].at \in {"idle", "begin", "claim", "lock", "next", "read", "delete", "upsert",
                          "record", "finished"}
       /\ scan[p].at \in {"delete", "upsert", "record"} => scan[p].text \in Text
       /\ \A k \in Slot :
            /\ flush[p][k].at \in {"idle", "next", "stat"} \cup Writing
            /\ flush[p][k].at \in {"stat", "delete", "upsert", "record"}
                 => flush[p][k].text \in Text /\ flush[p][k].path \in File

(* A path with a row in table files has exactly the chunks of the text that  *)
(* the row names: a crash, an error or a close between the transactions of   *)
(* a reindex leaves no row, so that the next scan repairs the path.  It is   *)
(* lost only where two flushes of one indexer have reindexed the path at     *)
(* the same time.                                                           *)
RecordedIsIndexed ==
  \A f \in Path \ mixed : record[f] # NoRecord => chunks[f] = {record[f].hash}

(* A scan may skip a file whose mtime has not moved: its record names the    *)
(* text that the file has.  The watcher, which takes the mtime after the     *)
(* text, records some files with the mtime of a text it has not read.        *)
SkippingIsSafe ==
  \A f \in File \ skewed :
    record[f] # NoRecord /\ record[f].mtime = disk[f].mtime /\ Readable(f)
      => record[f].hash = disk[f].text

(* The two invariants that let a scan trust what it finds in the database.  *)
IndexIsSound == TypeOK /\ RecordedIsIndexed /\ SkippingIsSafe

IndexMatches(f) == chunks[f] = IF Readable(f) THEN {disk[f].text} ELSE {}

(* A scan that ran to its end leaves the index as the tree is, whoever owned *)
(* it before and however they ended, for the paths that did not change       *)
(* since, as long as its process has not closed the index (the next owner   *)
(* may rebuild it).  Two kinds of chunks stay: those of a file that has      *)
(* become unreadable, and those of a deleted one whose reindex was cut short *)
(* before it had a record.                                                  *)
CatchUpIsComplete ==
  \A p \in Process : scan[p].at = "finished" /\ scan[p].complete /\ StoreOpen(p) =>
    \A f \in Path \ (scan[p].edited \cup mixed \cup skewed) :
      Readable(f) \/ (~Present(f) /\ scan[p].known[f] # NoRecord) => IndexMatches(f)

(* Only the process that holds indexer.lock writes the index, also while     *)
(* another one takes over from a scan or a flush that outlives close().      *)
OwnerWrites ==
  [][index' # index =>
       \E p \in Process : owner = p /\ (scan[p] # scan'[p] \/ flush[p] # flush'[p])]_vars

(* An indexer that is closed has given its lock back, unless a search that   *)
(* was under way claimed it once more.                                      *)
ClosedLetsGo ==
  \A p \in Process : phase[p] = "closed" /\ owner = p => p \in late

(* A change that the indexer has seen gets into the index, unless it stops   *)
(* watching, a flush fails on the path, or two flushes run into each other.  *)
ChangesAreIndexed ==
  \A f \in File :
    (\E p \in Process : f \in pending[p])
      ~> (IndexMatches(f) \/ watching = {} \/ f \in mixed \cup dropped)
=============================================================================
