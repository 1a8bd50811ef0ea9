----------------------------- MODULE SessionStore -----------------------------
(***************************************************************************)
(* Saved sessions of one workspace: the directories sessions/<subdir>/ with *)
(* their session.lock and session.json, the index sessions.json under       *)
(* workspace.lock (workspace/session_store.py, lockfile/_linux.py), and the *)
(* session objects that claim, save, restore and close them                 *)
(* (session/mixins/persistence.py, session/restore.py), in several          *)
(* processes that may crash.                                                *)
(*                                                                         *)
(* A lock is held on the file that was opened, not on its path: once the    *)
(* directory is removed the lock protects nothing, and whoever opens the    *)
(* path next gets another file.  gen[d] numbers the lock files of d.        *)
(*                                                                         *)
(* Sessions are the session objects of all processes, in the order they     *)
(* are made.  Two threads save one: its process's main thread, and the      *)
(* daemon thread that names it after its first prompt                       *)
(* (session/mixins/core.py).                                                *)
(***************************************************************************)
EXTENDS Naturals, Sequences, FiniteSets, SequencesExt

CONSTANTS
  Process,
  Dir,          \* session ids, each the name of its directory
  MaxRecent,    \* MAX_RECENT_SESSIONS
  MaxSessions,  \* bound: session objects
  MaxTurns,     \* bound: length of a conversation
  MaxNamed,     \* bound: the session objects, from the first, whose naming
                \* thread's classifier answers
  None

Session == 1..MaxSessions
Thread == (Process \X {"main"}) \cup (Session \X {"naming"})

ASSUME StoreAssumption ==
  /\ MaxRecent \in Nat \ {0}
  /\ MaxSessions \in Nat
  /\ MaxTurns \in Nat \ {0}
  /\ MaxNamed \in Nat
  /\ None \notin Dir \cup Process \cup Session \cup Thread

VARIABLES
  lockFile,  \* whether session.lock exists at d's path
  gen,       \* how many lock files d has had
  held,      \* locks: <<d, generation, session>>
  disk,      \* length of the conversation in d's session.json (0: none)
  index,     \* sessions.json, most recently touched first
  wsLock,    \* the thread that holds workspace.lock
  opened,    \* bound: session objects made so far
  host,      \* the process of each session object
  live,      \* each process's session (0: none)
  subdir,    \* Session.id, and the directory once claimed
  claimed,   \* Session._session_claimed
  turns,     \* length of each session's own conversation
  pc,        \* where each thread is
  job,       \* what it is doing there
  listed,    \* history: directories that have been in the index
  raced,     \* history: directories locked between a prune's probe and its rmtree
  missed,    \* history: directories whose last save did not reach the index
  setBack    \* history: directories where a naming thread's older copy of the
             \* conversation replaced a newer one

diskVars == <<lockFile, gen, held, disk, index, wsLock>>
sessionVars == <<opened, host, live, subdir, claimed, turns>>
historyVars == <<listed, raced, missed, setBack>>
vars == <<diskVars, sessionVars, pc, job, historyVars>>

NoJob == [goal |-> "none", obj |-> None, dir |-> None, gen |-> 0, turns |-> 0,
          view |-> <<>>, todo |-> <<>>]

Init ==
  /\ lockFile = [d \in Dir |-> FALSE]
  /\ gen = [d \in Dir |-> 0]
  /\ held = {}
  /\ disk = [d \in Dir |-> 0]
  /\ index = <<>>
  /\ wsLock = None
  /\ live = [p \in Process |-> 0]
  /\ opened = 0
  /\ host = [s \in Session |-> None]
  /\ subdir = [s \in Session |-> None]
  /\ claimed = [s \in Session |-> FALSE]
  /\ turns = [s \in Session |-> 0]
  /\ pc = [t \in Thread |-> "idle"]
  /\ job = [t \in Thread |-> NoJob]
  /\ listed = {}
  /\ raced = {}
  /\ missed = {}
  /\ setBack = {}

ProcessOf(t) == IF t[2] = "main" THEN t[1] ELSE host[t[1]]
Main(p) == <<p, "main">>
Naming(s) == <<s, "naming">>
Idle(p) == pc[Main(p)] = "idle"
HasClaim(p) == live[p] # 0 /\ claimed[live[p]]

(* Some open file description holds the lock on the file numbered g.        *)
Locked(d, g) == \E s \in Session : <<d, g, s>> \in held
HeldByOther(d) == lockFile[d] /\ Locked(d, gen[d])

-----------------------------------------------------------------------------
(* try_acquire: make the directory, open or create the file ...             *)
OpenLock(t, d, s, goal) ==
  /\ lockFile' = [lockFile EXCEPT ![d] = TRUE]
  /\ gen' = [gen EXCEPT ![d] = IF lockFile[d] THEN @ ELSE @ + 1]
  /\ pc' = [pc EXCEPT ![t] = "opened"]
  /\ job' = [job EXCEPT ![t] = [NoJob EXCEPT !.goal = goal, !.obj = s, !.dir = d,
                                             !.gen = gen'[d]]]

(* ... and lock it, once, without waiting.                                  *)
(* Mutant: a lock that somebody holds is taken nevertheless.                *)
LockableAlways(d, g) == TRUE

Lockable(d, g) == ~Locked(d, g)

(* A prune has found this file free and removes it, or has removed it.      *)
Doomed(d, g) ==
  \/ \E u \in Thread : pc[u] = "remove" /\ Head(job[u].todo) = d
  \/ g # gen[d]
  \/ ~lockFile[d]

(* write_session_state is called with the conversation as it is now.        *)
Saving(t, s, goal) ==
  /\ pc' = [pc EXCEPT ![t] = "write"]
  /\ job' = [job EXCEPT ![t] = [NoJob EXCEPT !.goal = goal, !.obj = s, !.dir = subdir'[s],
                                             !.turns = turns'[s]]]

Finish(t) ==
  /\ pc' = [pc EXCEPT ![t] = IF t[2] = "main" THEN "idle" ELSE "done"]
  /\ job' = [job EXCEPT ![t] = NoJob]

-----------------------------------------------------------------------------
(* The main thread of a process                                             *)

(* A session object.  One that never took a turn claims and writes nothing, *)
(* so it is made with its first turn.                                       *)
MakeSession(p) ==
  /\ opened < MaxSessions
  /\ opened' = opened + 1
  /\ host' = [host EXCEPT ![opened + 1] = p]

(* The first turn of a session claims the directory of its own id.          *)
FirstTurn(p, d) ==
  /\ Idle(p)
  /\ live[p] = 0
  /\ gen[d] = 0
  /\ MakeSession(p)
  /\ live' = [live EXCEPT ![p] = opened + 1]
  /\ subdir' = [subdir EXCEPT ![opened + 1] = d]
  /\ turns' = [turns EXCEPT ![opened + 1] = 1]
  /\ OpenLock(Main(p), d, opened + 1, "claim")
  /\ UNCHANGED <<held, disk, index, wsLock, claimed, historyVars>>

(* A turn is saved at its end (persist_state).                              *)
Turn(p) ==
  /\ Idle(p)
  /\ HasClaim(p)
  /\ turns[live[p]] < MaxTurns
  /\ turns' = [turns EXCEPT ![live[p]] = @ + 1]
  /\ UNCHANGED subdir
  /\ Saving(Main(p), live[p], "save")
  /\ UNCHANGED <<diskVars, opened, host, live, claimed, historyVars>>

(* try_restore_session of an entry of an index read at some time, in a new  *)
(* session object that replaces the live one, if any.                       *)
Restore(p, d) ==
  /\ Idle(p)
  /\ d \in listed
  /\ MakeSession(p)
  /\ OpenLock(Main(p), d, opened + 1, "restore")
  /\ UNCHANGED <<held, disk, index, wsLock, live, subdir, claimed, turns, historyVars>>

(* Closing a session first relays what its subagents leave.                 *)
Relayed(s) == {turns[s], turns[s] + 1} \cap 0..MaxTurns

(* close(): save once more, then let go of the lock.                        *)
(* Mutant: only lets go.                                                    *)
CloseUnsaved(p) ==
  /\ Idle(p)
  /\ HasClaim(p)
  /\ \E n \in Relayed(live[p]) : turns' = [turns EXCEPT ![live[p]] = n]
  /\ pc' = [pc EXCEPT ![Main(p)] = "release"]
  /\ job' = [job EXCEPT ![Main(p)] = [NoJob EXCEPT !.goal = "close", !.obj = live[p],
                                                   !.dir = subdir[live[p]]]]
  /\ UNCHANGED <<diskVars, live, subdir, opened, host, claimed, historyVars>>

Close(p) ==
  /\ Idle(p)
  /\ HasClaim(p)
  /\ \E n \in Relayed(live[p]) : turns' = [turns EXCEPT ![live[p]] = n]
  /\ UNCHANGED subdir
  /\ Saving(Main(p), live[p], "close")
  /\ UNCHANGED <<diskVars, opened, host, live, claimed, historyVars>>

-----------------------------------------------------------------------------
(* Steps of either thread                                                   *)

(* Taken by another open file, or, for a restore, no usable session.json:   *)
(* the lock is given back, the claim or the restore does not take place.    *)
NoLock(t) ==
  LET j == job[t] IN
  /\ pc[t] = "opened"
  /\ ~Lockable(j.dir, j.gen) \/ (j.goal = "restore" /\ disk[j.dir] = 0)
  /\ Finish(t)
  /\ UNCHANGED <<diskVars, sessionVars, historyVars>>

Lock(t) ==
  LET j == job[t] IN
  /\ pc[t] = "opened"
  /\ Lockable(j.dir, j.gen)
  /\ held' = held \cup {<<j.dir, j.gen, j.obj>>}
  /\ claimed' = [claimed EXCEPT ![j.obj] = TRUE]
  /\ raced' = IF Doomed(j.dir, j.gen) THEN raced \cup {j.dir} ELSE raced
  /\ UNCHANGED <<lockFile, gen, disk, index, wsLock, opened, host, listed, missed, setBack>>

(* claim_session_directory goes on to save.                                 *)
Claim(t) ==
  /\ job[t].goal = "claim"
  /\ Lock(t)
  /\ UNCHANGED <<live, subdir, turns>>
  /\ Saving(t, job[t].obj, "claim")

(* A restored session's conversation is the saved one.                      *)
(* Mutant: it starts over.                                                  *)
LoadedAnew(d) == 1

Loaded(d) == disk[d]

(* The restored session adopts the directory, and the session it replaces,  *)
(* if any, is closed.                                                       *)
Adopt(t) ==
  LET s == job[t].obj
      d == job[t].dir
      p == ProcessOf(t) IN
  /\ job[t].goal = "restore"
  /\ disk[d] # 0
  /\ Lock(t)
  /\ subdir' = [subdir EXCEPT ![s] = d]
  /\ \/ /\ HasClaim(p)
        /\ \E n \in Relayed(live[p]) :
             turns' = [turns EXCEPT ![s] = Loaded(d), ![live[p]] = n]
        /\ UNCHANGED live
        /\ Saving(t, live[p], "replace")
     \/ /\ ~HasClaim(p)
        /\ turns' = [turns EXCEPT ![s] = Loaded(d)]
        /\ live' = [live EXCEPT ![p] = s]
        /\ Finish(t)

(* session.json is replaced as a whole; its directory is made if needed.    *)
WriteState(t) ==
  /\ pc[t] = "write"
  /\ disk' = [disk EXCEPT ![job[t].dir] = job[t].turns]
  /\ missed' = missed \cup {job[t].dir}
  /\ setBack' = IF t[2] = "naming" /\ job[t].turns < disk[job[t].dir]
                  THEN setBack \cup {job[t].dir} ELSE setBack
  /\ pc' = [pc EXCEPT ![t] = "touch"]
  /\ UNCHANGED <<lockFile, gen, held, index, wsLock, sessionVars, job, listed, raced>>

(* After its save a thread is done, except for a close.  The first prompt   *)
(* of a session has started its naming thread.                              *)
Saved(t) ==
  LET j == job[t]
      naming == Naming(j.obj) IN
  IF j.goal \in {"close", "replace"}
    THEN pc' = [pc EXCEPT ![t] = "release"] /\ UNCHANGED job
    ELSE /\ pc' = [pc EXCEPT ![t] = IF t = naming THEN "done" ELSE "idle",
                             ![naming] = IF t = naming THEN "done"
                                         ELSE IF j.goal = "claim" /\ j.obj <= MaxNamed
                                           THEN "armed" ELSE @]
         /\ job' = [job EXCEPT ![t] = NoJob]

(* touch_recent_session: the index, read under workspace.lock, with this    *)
(* entry in front and, as no directory is in it twice, nowhere else.  The   *)
(* lock may stay taken for all four attempts, and a session closed since    *)
(* has no directory to name.                                                *)
(* Mutant: workspace.lock is not looked at.                                 *)
IndexFreeAlways == TRUE

IndexFree == wsLock = None

Without(list, d) ==
  IF \E i \in 1..Len(list) : list[i] = d
    THEN RemoveAt(list, CHOOSE i \in 1..Len(list) : list[i] = d)
    ELSE list

Fronted(d) == <<d>> \o Without(index, d)

Recent(list) == IF Len(list) < MaxRecent THEN Len(list) ELSE MaxRecent

Touch(t) ==
  LET list == Fronted(job[t].dir) IN
  /\ pc[t] = "touch"
  /\ claimed[job[t].obj]
  /\ IndexFree
  /\ wsLock' = t
  /\ pc' = [pc EXCEPT ![t] = "prune"]
  /\ job' = [job EXCEPT ![t].view = SubSeq(list, 1, Recent(list)),
                        ![t].todo = SubSeq(list, Recent(list) + 1, Len(list))]
  /\ UNCHANGED <<lockFile, gen, held, disk, index, sessionVars, historyVars>>

SkipTouch(t) ==
  /\ pc[t] = "touch"
  /\ ~IndexFree \/ ~claimed[job[t].obj]
  /\ Saved(t)
  /\ UNCHANGED <<diskVars, sessionVars, historyVars>>

(* _prune_sessions_index: keep an entry that is locked, remove another.     *)
Keep(d) == HeldByOther(d)

Probe(t) ==
  LET d == Head(job[t].todo) IN
  /\ pc[t] = "prune"
  /\ job[t].todo # <<>>
  /\ IF Keep(d)
       THEN /\ job' = [job EXCEPT ![t].view = Append(@, d), ![t].todo = Tail(@)]
            /\ UNCHANGED pc
       ELSE /\ pc' = [pc EXCEPT ![t] = "remove"]
            /\ UNCHANGED job
  /\ UNCHANGED <<diskVars, sessionVars, historyVars>>

RemoveTree(t) ==
  LET d == Head(job[t].todo) IN
  /\ pc[t] = "remove"
  /\ lockFile' = [lockFile EXCEPT ![d] = FALSE]
  /\ disk' = [disk EXCEPT ![d] = 0]
  /\ pc' = [pc EXCEPT ![t] = "prune"]
  /\ job' = [job EXCEPT ![t].todo = Tail(@)]
  /\ UNCHANGED <<gen, held, index, wsLock, sessionVars, historyVars>>

WriteIndex(t) ==
  /\ pc[t] = "prune"
  /\ job[t].todo = <<>>
  /\ index' = job[t].view
  /\ listed' = listed \cup ToSet(job[t].view)
  /\ missed' = missed \ {job[t].dir}
  /\ wsLock' = None
  /\ Saved(t)
  /\ UNCHANGED <<lockFile, gen, held, disk, sessionVars, raced, setBack>>

(* The restored session that waits for the live one to close is the last    *)
(* one its process made.                                                    *)
Replacing(p) == Max({s \in Session : host[s] = p})

(* Session.close is done: the process has the session that replaces it, or  *)
(* none.                                                                    *)
Closed(t) ==
  /\ live' = [live EXCEPT ![ProcessOf(t)] =
                 IF job[t].goal = "replace" THEN Replacing(ProcessOf(t)) ELSE 0]
  /\ job' = [job EXCEPT ![t] = NoJob]

(* _finalize_session_persistence, its last step.  The teardowns follow: one *)
(* waits for the naming thread, if it runs.                                 *)
Release(t) ==
  LET s == job[t].obj IN
  /\ pc[t] = "release"
  /\ held' = {l \in held : l[3] # s}
  /\ claimed' = [claimed EXCEPT ![s] = FALSE]
  /\ IF pc[Naming(s)] \in {"idle", "done"}
       THEN Closed(t) /\ pc' = [pc EXCEPT ![t] = "idle"]
       ELSE pc' = [pc EXCEPT ![t] = "join"] /\ UNCHANGED <<live, job>>
  /\ UNCHANGED <<lockFile, gen, disk, index, wsLock, opened, host, subdir, turns, historyVars>>

(* It waits no longer than the classifier may take, and then takes the      *)
(* thread's token, which keeps a later answer from being applied.           *)
Join(t) ==
  LET s == job[t].obj IN
  /\ pc[t] = "join"
  /\ Closed(t)
  /\ pc' = [pc EXCEPT ![t] = "idle",
                      ![Naming(s)] = IF @ = "armed" THEN "idle" ELSE @]
  /\ UNCHANGED <<diskVars, opened, host, subdir, claimed, turns, historyVars>>

-----------------------------------------------------------------------------
(* The naming thread's classifier answers: persist_state, which claims the  *)
(* directory of a session that has no claim.                                *)
NamingReply(s) ==
  /\ pc[Naming(s)] = "armed"
  /\ UNCHANGED <<subdir, turns>>
  /\ IF claimed[s]
       THEN Saving(Naming(s), s, "save") /\ UNCHANGED <<lockFile, gen>>
       ELSE OpenLock(Naming(s), subdir[s], s, "claim")
  /\ UNCHANGED <<held, disk, index, wsLock, opened, host, live, claimed, historyVars>>

(* A process dies; its locks are released by the operating system.          *)
Crash(p) ==
  /\ \/ live[p] # 0
     \/ \E t \in Thread : ProcessOf(t) = p /\ pc[t] \notin {"idle", "armed", "done"}
  /\ held' = {l \in held : host[l[3]] # p}
  /\ wsLock' = IF wsLock # None /\ ProcessOf(wsLock) = p THEN None ELSE wsLock
  /\ live' = [live EXCEPT ![p] = 0]
  /\ claimed' = [s \in Session |-> claimed[s] /\ host[s] # p]
  /\ subdir' = [s \in Session |-> IF host[s] = p THEN None ELSE subdir[s]]
  /\ turns' = [s \in Session |-> IF host[s] = p THEN 0 ELSE turns[s]]
  /\ pc' = [t \in Thread |-> IF ProcessOf(t) # p THEN pc[t]
                             ELSE "idle"]
  /\ job' = [t \in Thread |-> IF ProcessOf(t) # p THEN job[t] ELSE NoJob]
  /\ UNCHANGED <<lockFile, gen, disk, index, opened, host, historyVars>>

Step(t) ==
  \/ NoLock(t)
  \/ Claim(t)
  \/ Adopt(t)
  \/ WriteState(t)
  \/ Touch(t)
  \/ SkipTouch(t)
  \/ Probe(t)
  \/ RemoveTree(t)
  \/ WriteIndex(t)
  \/ Release(t)
  \/ Join(t)

Next ==
  \/ \E p \in Process :
       \/ \E d \in Dir : FirstTurn(p, d) \/ Restore(p, d)
       \/ Turn(p)
       \/ Close(p)
       \/ Crash(p)
  \/ \E t \in Thread : Step(t)
  \/ \E s \in Session : NamingReply(s)

Spec == Init /\ [][Next]_vars

-----------------------------------------------------------------------------
(* Every variable keeps its range.                                          *)
TypeOK ==
  /\ lockFile \in [Dir -> BOOLEAN]
  /\ gen \in [Dir -> Nat]
  /\ held \subseteq Dir \X Nat \X Session
  /\ disk \in [Dir -> 0..MaxTurns]
  /\ index \in Seq(Dir)
  /\ wsLock \in Thread \cup {None}
  /\ opened \in 0..MaxSessions
  /\ host \in [Session -> Process \cup {None}]
  /\ live \in [Process -> 0..MaxSessions]
  /\ subdir \in [Session -> Dir \cup {None}]
  /\ claimed \in [Session -> BOOLEAN]
  /\ turns \in [Session -> 0..MaxTurns]
  /\ pc \in [Thread -> {"idle", "opened", "write", "touch", "prune", "remove",
                         "release", "join", "armed", "done"}]
  /\ \A t \in Thread : job[t].dir \in Dir \cup {None} /\ job[t].turns \in 0..MaxTurns
  /\ listed \cup raced \cup missed \cup setBack \subseteq Dir

(* A session that has claimed its directory holds the lock on the file that *)
(* is now at its path, and no other session object of any process has the   *)
(* directory, unless it took the lock while a prune that had found it free  *)
(* was removing it.                                                         *)
OwnerHoldsTheLock ==
  \A s \in Session : claimed[s] /\ subdir[s] \notin raced =>
    /\ lockFile[subdir[s]]
    /\ <<subdir[s], gen[subdir[s]], s>> \in held
    /\ \A r \in Session : claimed[r] /\ subdir[r] = subdir[s] => r = s

(* Ownership of a directory is exclusive, and every actor in its place.     *)
OwnersAreSound == TypeOK /\ OwnerHoldsTheLock

(* However the updates of sessions.json race, a directory with a saved      *)
(* session is in it, unless its own last update was skipped or cut short:   *)
(* no update undoes another.                                                *)
SavedIsListed ==
  \A d \in Dir : disk[d] # 0 /\ d \notin missed => d \in ToSet(index)

(* A save never takes session.json back to an earlier state of the          *)
(* conversation, whichever process owned it before, except a save by a      *)
(* naming thread, which may have copied the conversation before it went on, *)
(* and by the owners of a directory pruned under them.                      *)
SavesOnlyAdvance ==
  [][\A d \in Dir \ (raced \cup setBack') : disk'[d] = 0 \/ disk'[d] >= disk[d]]_vars

(* With the same exceptions, what a process has closed any can go on with:  *)
(* when the lock is released, session.json holds all of it.                 *)
ClosedIsSaved ==
  [][\A t \in Thread : Release(t) =>
       job[t].dir \in raced \cup setBack \/ disk[job[t].dir] = turns[job[t].obj]]_vars
=============================================================================
