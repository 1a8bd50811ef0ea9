-------------------------- MODULE SessionStoreProofs --------------------------
(***************************************************************************)
(* What holds of the saved sessions of a workspace for any number of        *)
(* processes, directories and turns.  OwnersInv, inductive on its own,      *)
(* orders the threads and the locks; IndexInv and SavesInv add the index    *)
(* and the conversations to it.                                             *)
(***************************************************************************)
EXTENDS SessionStore, SequenceTheorems, TLAPS

-----------------------------------------------------------------------------
(* What each thread is doing, and for which session                         *)

ActivePC == {"opened", "write", "touch", "prune", "remove", "release", "join"}

Job == [goal : {"none", "claim", "restore", "save", "close", "replace"}, obj : Session \cup {None},
        dir : Dir \cup {None}, gen : Nat, turns : 0..MaxTurns, view : Seq(Dir), todo : Seq(Dir)]

Typed ==
  /\ TypeOK /\ job \in [Thread -> Job]
  /\ \A d \in Dir : lockFile[d] => gen[d] > 0

(* The session with the highest number of those a process made.             *)
IsNewest(p, s) == host[s] = p /\ \A r \in Session : host[r] = p => r <= s

(* A thread works on a session, in that session's directory; a restore on a *)
(* session that has none yet.                                               *)
JobIsOwn(t) ==
  LET j == job[t] IN
  pc[t] \in ActivePC =>
    /\ j.obj \in Session /\ j.dir \in Dir
    /\ j.goal # "none" /\ (j.goal # "restore" => subdir[j.obj] = j.dir)
    /\ j.goal = "restore" => pc[t] = "opened" /\ subdir[j.obj] = None
    /\ pc[t] = "opened" => j.goal \in {"claim", "restore"} /\ j.gen > 0 /\ j.gen <= gen[j.dir]

(* A process's main thread works on its live session, which is claimed but  *)
(* while the thread claims it or waits for the naming thread of a session   *)
(* it has let go of; or on a restored one nobody else knows.                *)
MainIsInOrder(p) ==
  LET t == Main(p) j == job[t] IN
  /\ pc[t] \notin {"armed", "done"}
  /\ pc[t] \in ActivePC =>
       /\ host[j.obj] = p
       /\ j.goal # "restore" => j.obj = live[p]
       /\ j.goal = "restore" => /\ IsNewest(p, j.obj) /\ j.obj # live[p]
                                /\ pc[Naming(j.obj)] = "idle" /\ ~claimed[j.obj]
       /\ j.goal = "claim" => pc[Naming(j.obj)] = "idle"
       /\ pc[t] \notin {"opened", "join"} => claimed[j.obj]
       /\ pc[t] \in {"release", "join"} => j.goal \in {"close", "replace"}
       /\ j.goal = "replace" =>
            \E r \in Session : /\ IsNewest(p, r) /\ r # j.obj /\ claimed[r]
                               /\ pc[Naming(r)] = "idle"

(* A naming thread works for its own session, which keeps its directory.    *)
NamingIsInOrder(s) ==
  LET t == Naming(s) IN
  /\ pc[t] \notin {"release", "join"}
  /\ pc[t] # "idle" => subdir[s] \in Dir
  /\ pc[t] \in ActivePC => job[t].obj = s /\ job[t].goal \in {"claim", "save"}

InOrder(p) ==
  /\ JobIsOwn(Main(p)) /\ MainIsInOrder(p)
  /\ \A s \in Session : host[s] = p => JobIsOwn(Naming(s)) /\ NamingIsInOrder(s)

SessionsAreHosted ==
  /\ \A s \in Session : host[s] # None <=> s <= opened
  /\ \A s \in Session : host[s] = None => pc[Naming(s)] = "idle"
  /\ \A p \in Process : live[p] # 0 => host[live[p]] = p
  /\ \A s \in Session : /\ claimed[s] => subdir[s] \in Dir
                        /\ subdir[s] \in Dir => host[s] # None /\ gen[subdir[s]] > 0

JobsInv == SessionsAreHosted /\ \A p \in Process : InOrder(p)

-----------------------------------------------------------------------------
(* Locks                                                                    *)

LocksAreExclusive == \A k, l \in held : k[1] = l[1] /\ k[2] = l[2] => k[3] = l[3]

OwnerIsLocked ==
  \A s \in Session : claimed[s] /\ subdir[s] \notin raced =>
    lockFile[subdir[s]] /\ <<subdir[s], gen[subdir[s]], s>> \in held

(* What a prune removes has no owner, or one that raced it.                 *)
RemovedIsFree ==
  \A t \in Thread : pc[t] = "remove" =>
    /\ job[t].todo # <<>>
    /\ \A s \in Session : claimed[s] /\ subdir[s] = Head(job[t].todo) => subdir[s] \in raced

Locks == LocksAreExclusive /\ OwnerIsLocked /\ RemovedIsFree

OwnersInv == Typed /\ JobsInv /\ Locks

-----------------------------------------------------------------------------
(* The index                                                                *)

Distinct(list) == \A i, j \in 1..Len(list) : list[i] = list[j] => i = j

PruningHoldsTheLock == \A t \in Thread : pc[t] \in {"prune", "remove"} <=> wsLock = t

PruneIsComplete ==
  \A t \in Thread : pc[t] \in {"prune", "remove"} =>
    /\ job[t].dir \in ToSet(job[t].view)
    /\ Distinct(job[t].view) /\ Distinct(job[t].todo)
    /\ ToSet(job[t].view) \cap ToSet(job[t].todo) = {}
    /\ \A d \in ToSet(index) :
         d \in ToSet(job[t].view) \cup ToSet(job[t].todo) \/ disk[d] = 0 \/ d \in missed

IndexInv ==
  OwnersInv /\ Distinct(index) /\ PruningHoldsTheLock /\ PruneIsComplete /\ SavedIsListed

-----------------------------------------------------------------------------
(* The conversation                                                         *)

(* The directories the exceptions of SavesOnlyAdvance do not concern.       *)
Trusted == Dir \ (raced \cup setBack)

(* The main thread is about to replace the session.json of s.               *)
Writing(s) == pc[Main(host[s])] = "write" /\ job[Main(host[s])].obj = s

(* A session its process goes on with: its live one until it is let go of,  *)
(* or the restored one that waits for it.                                   *)
InUse(s) ==
  /\ claimed[s]
  /\ \/ live[host[s]] = s /\ pc[Main(host[s])] # "join"
     \/ job[Main(host[s])].goal = "replace" /\ IsNewest(host[s], s)

(* A session that was made by a first turn, at least while anybody may name *)
(* it.  No two have one directory.                                          *)
Founder(s) ==
  \/ pc[Naming(s)] # "idle"
  \/ /\ host[s] # None
     /\ pc[Main(host[s])] \in ActivePC
     /\ job[Main(host[s])].obj = s /\ job[Main(host[s])].goal = "claim"

FoundersAreAlone ==
  \A r, s \in Session :
    Founder(r) /\ Founder(s) /\ subdir[r] = subdir[s] /\ subdir[s] \in Dir => r = s

(* Who rests has no job.                                                    *)
JobsAreClear ==
  \A t \in Thread : pc[t] \notin ActivePC => job[t] = NoJob

(* The session a first turn makes has a directory nobody had before.        *)
FreshIsUnsaved ==
  \A p \in Process : pc[Main(p)] = "opened" /\ job[Main(p)].goal = "claim" =>
    /\ disk[job[Main(p)].dir] = 0 /\ turns[job[Main(p)].obj] > 0
    /\ \A s \in Session : subdir[s] = job[Main(p)].dir => s = job[Main(p)].obj

(* What was never locked was never saved.                                   *)
UnsavedHasNoFile == \A d \in Dir : disk[d] # 0 => gen[d] > 0

(* What the process uses is saved, or being saved.                          *)
UseIsSaved(s) ==
  InUse(s) =>
    /\ turns[s] > 0
    /\ Writing(s) => job[Main(host[s])].turns = turns[s]
    /\ subdir[s] \in Trusted =>
         IF Writing(s) THEN /\ disk[subdir[s]] <= turns[s]
                            /\ job[Main(host[s])].goal # "claim" => disk[subdir[s]] > 0
         ELSE disk[subdir[s]] = turns[s]

(* A naming thread saves nothing its session has not said, and all that has *)
(* been said when it starts is on disk; it claims only a session its        *)
(* process has let go of.                                                   *)
NamingIsBehind(s) ==
  /\ pc[Naming(s)] = "write" => job[Naming(s)].turns <= turns[s]
  /\ pc[Naming(s)] \in {"armed", "opened", "write"} /\ subdir[s] \in Trusted =>
       disk[subdir[s]] = 0 \/ turns[s] <= disk[subdir[s]] \/ Writing(s)
  /\ pc[Naming(s)] # "idle" /\ live[host[s]] = s =>
       \/ pc[Main(host[s])] = "join"
       \/ claimed[s] /\ pc[Naming(s)] # "opened"

SavedSoFar == \A s \in Session : UseIsSaved(s) /\ NamingIsBehind(s)

SavesInv ==
  /\ OwnersInv /\ FoundersAreAlone /\ JobsAreClear /\ FreshIsUnsaved /\ UnsavedHasNoFile
  /\ SavedSoFar

-----------------------------------------------------------------------------
(* Threads                                                                  *)

LEMMA Threads ==
  /\ \A p \in Process : Main(p) \in Thread /\ Main(p)[1] = p /\ Main(p)[2] = "main"
  /\ \A s \in Session : Naming(s) \in Thread /\ Naming(s)[1] = s /\ Naming(s)[2] = "naming"
  /\ \A t \in Thread : \/ \E p \in Process : t = Main(p)
                       \/ \E s \in Session : t = Naming(s)
  /\ None \notin Thread
BY StoreAssumption DEF Thread, Main, Naming

LEMMA ThreadsDiffer ==
  /\ \A p \in Process, s \in Session : Main(p) # Naming(s)
  /\ \A p, q \in Process : Main(p) = Main(q) => p = q
  /\ \A r, s \in Session : Naming(r) = Naming(s) => r = s
BY Threads

LEMMA ProcessOfThread ==
  /\ \A p \in Process : ProcessOf(Main(p)) = p
  /\ \A s \in Session : ProcessOf(Naming(s)) = host[s]
BY Threads DEF ProcessOf

LEMMA SessionsAreNumbers == \A s \in Session : s \in Nat /\ s # 0 /\ s <= MaxSessions /\ s # None
BY StoreAssumption DEF Session

LEMMA NoJobTyped == NoJob \in Job /\ NoJob.goal = "none"
<1>1. <<>> \in Seq(Dir)
  OBVIOUS
<1> QED BY <1>1, StoreAssumption DEF NoJob, Job

(* The newest session of a process is the one Replacing finds.              *)
LEMMA NewestReplaces ==
  ASSUME Typed, NEW p \in Process, NEW r \in Session, IsNewest(p, r)
  PROVE  Replacing(p) = r
<1> DEFINE S == {s \in Session : host[s] = p}
<1>1. r \in S /\ \A x \in S : r >= x
  BY SessionsAreNumbers DEF IsNewest
<1>2. \A x \in S : (\A y \in S : x >= y) => x = r
  BY <1>1, SessionsAreNumbers
<1>3. Max(S) = r
  BY <1>1, <1>2 DEF Max
<1> QED BY <1>3 DEF Replacing

-----------------------------------------------------------------------------
(* What follows from how little a step changes                              *)

(* A step of one process leaves the others in order.                        *)
LEMMA OthersStay ==
  ASSUME Typed, JobsInv, NEW p \in Process, NEW q \in Process, q # p,
         \A t \in Thread : ProcessOf(t) = q => pc'[t] = pc[t] /\ job'[t] = job[t],
         live'[q] = live[q],
         \A s \in Session : /\ host[s] = q <=> host'[s] = q
                            /\ host[s] = q => claimed'[s] = claimed[s] /\ subdir'[s] = subdir[s],
         \A d \in Dir : gen'[d] \in Nat /\ gen'[d] >= gen[d]
  PROVE  InOrder(q)'
<1>1. InOrder(q) /\ Main(q) \in Thread /\ pc'[Main(q)] = pc[Main(q)] /\ job'[Main(q)] = job[Main(q)]
  BY Threads, ProcessOfThread DEF JobsInv
<1>2. \A s \in Session : host[s] = q =>
        pc'[Naming(s)] = pc[Naming(s)] /\ job'[Naming(s)] = job[Naming(s)]
  BY Threads, ProcessOfThread
<1>3. \A d \in Dir : gen[d] \in Nat
  BY DEF Typed, TypeOK
<1>j. job[Main(q)].gen \in Nat /\ \A s \in Session : job[Naming(s)].gen \in Nat
  BY Threads DEF Typed, Job
<1>4. JobIsOwn(Main(q))' /\ MainIsInOrder(q)'
  <2>1. CASE pc[Main(q)] \notin ActivePC
    BY <1>1, <2>1 DEF InOrder, JobIsOwn, MainIsInOrder
  <2>2. CASE pc[Main(q)] \in ActivePC
    <3> DEFINE j == job[Main(q)]
    <3>1. j.obj \in Session /\ host[j.obj] = q /\ j.dir \in Dir
      BY <1>1, <2>2 DEF InOrder, JobIsOwn, MainIsInOrder
    <3>2. gen'[j.dir] >= gen[j.dir] /\ {gen'[j.dir], gen[j.dir], j.gen} \subseteq Nat
      BY <1>3, <1>j, <3>1
    <3>g. j.gen <= gen[j.dir] => j.gen <= gen'[j.dir]
      BY <3>2
    <3>3. JobIsOwn(Main(q))'
      BY <1>1, <3>1, <3>g DEF InOrder, JobIsOwn
    <3>4. \A r \in Session : IsNewest(q, r) <=> IsNewest(q, r)'
      BY DEF IsNewest
    <3>5. \A r \in Session : IsNewest(q, r) => host[r] = q
      BY DEF IsNewest
    <3>6. MainIsInOrder(q)'
      BY <1>1, <1>2, <3>1, <3>4, <3>5 DEF InOrder, MainIsInOrder
    <3> QED BY <3>3, <3>6
  <2> QED BY <2>1, <2>2
<1>5. ASSUME NEW s \in Session, host[s] = q PROVE JobIsOwn(Naming(s))' /\ NamingIsInOrder(s)'
  <2>1. NamingIsInOrder(s)'
    BY <1>1, <1>2, <1>5 DEF InOrder, NamingIsInOrder
  <2>2. JobIsOwn(Naming(s))'
    <3>1. CASE pc[Naming(s)] \notin ActivePC
      BY <1>2, <1>5, <3>1 DEF JobIsOwn
    <3>2. CASE pc[Naming(s)] \in ActivePC
      <4> DEFINE j == job[Naming(s)]
      <4>1. j.obj = s /\ j.dir \in Dir
        BY <1>1, <1>5, <3>2 DEF InOrder, JobIsOwn, NamingIsInOrder
      <4>2. gen'[j.dir] >= gen[j.dir] /\ {gen'[j.dir], gen[j.dir], j.gen} \subseteq Nat
        BY <1>3, <1>j, <4>1
      <4>g. j.gen <= gen[j.dir] => j.gen <= gen'[j.dir]
        BY <4>2
      <4> QED BY <1>1, <1>2, <1>5, <4>1, <4>g DEF InOrder, JobIsOwn
    <3> QED BY <3>1, <3>2
  <2> QED BY <2>1, <2>2
<1> QED BY <1>4, <1>5 DEF InOrder

(* A naming thread that a step leaves alone, and whose session keeps its    *)
(* directory while the thread is not idle, stays in order.                  *)
LEMMA NamingStays ==
  ASSUME Typed, JobsInv, NEW s \in Session, host[s] \in Process,
         pc'[Naming(s)] = pc[Naming(s)], job'[Naming(s)] = job[Naming(s)],
         pc[Naming(s)] # "idle" => subdir'[s] = subdir[s],
         \A d \in Dir : gen'[d] \in Nat /\ gen'[d] >= gen[d]
  PROVE  JobIsOwn(Naming(s))' /\ NamingIsInOrder(s)'
<1>1. JobIsOwn(Naming(s)) /\ NamingIsInOrder(s) /\ job[Naming(s)].gen \in Nat
  BY Threads DEF JobsInv, InOrder, Typed, Job
<1>2. NamingIsInOrder(s)'
  BY <1>1 DEF NamingIsInOrder
<1>3. JobIsOwn(Naming(s))'
  <2>1. CASE pc[Naming(s)] \notin ActivePC
    BY <2>1 DEF JobIsOwn
  <2>2. CASE pc[Naming(s)] \in ActivePC
    <3> DEFINE j == job[Naming(s)]
    <3>1. j.obj = s /\ j.dir \in Dir /\ pc[Naming(s)] # "idle"
      BY <1>1, <2>2 DEF JobIsOwn, NamingIsInOrder, ActivePC
    <3>2. gen'[j.dir] >= gen[j.dir] /\ {gen'[j.dir], gen[j.dir], j.gen} \subseteq Nat
      BY <1>1, <3>1 DEF Typed, TypeOK
    <3>g. j.gen <= gen[j.dir] => j.gen <= gen'[j.dir]
      BY <3>2
    <3> QED BY <1>1, <3>1, <3>g DEF JobIsOwn
  <2> QED BY <2>1, <2>2
<1> QED BY <1>2, <1>3

(* A main thread that a step of a naming thread leaves alone stays in order.*)
LEMMA MainStays ==
  ASSUME Typed, JobsInv, NEW p \in Process, UNCHANGED <<host, live, subdir>>,
         pc'[Main(p)] = pc[Main(p)], job'[Main(p)] = job[Main(p)],
         \A s \in Session : /\ claimed[s] => claimed'[s]
                            /\ pc[Naming(s)] = "idle" =>
                                 pc'[Naming(s)] = "idle" /\ claimed'[s] = claimed[s],
         \A d \in Dir : gen'[d] \in Nat /\ gen'[d] >= gen[d]
  PROVE  JobIsOwn(Main(p))' /\ MainIsInOrder(p)'
<1>1. JobIsOwn(Main(p)) /\ MainIsInOrder(p) /\ job[Main(p)].gen \in Nat
  BY Threads DEF JobsInv, InOrder, Typed, Job
<1>2. CASE pc[Main(p)] \notin ActivePC
  BY <1>1, <1>2 DEF JobIsOwn, MainIsInOrder
<1>3. CASE pc[Main(p)] \in ActivePC
  <2> DEFINE j == job[Main(p)]
  <2>1. j.obj \in Session /\ j.dir \in Dir
    BY <1>1, <1>3 DEF JobIsOwn
  <2>2. gen'[j.dir] >= gen[j.dir] /\ {gen'[j.dir], gen[j.dir], j.gen} \subseteq Nat
    BY <1>1, <2>1 DEF Typed, TypeOK
  <2>g. j.gen <= gen[j.dir] => j.gen <= gen'[j.dir]
    BY <2>2
  <2>3. JobIsOwn(Main(p))'
    BY <1>1, <2>1, <2>g DEF JobIsOwn
  <2>4. \A r \in Session : IsNewest(p, r) <=> IsNewest(p, r)'
    BY DEF IsNewest
  <2>5. MainIsInOrder(p)'
    BY <1>1, <2>1, <2>4 DEF MainIsInOrder
  <2> QED BY <2>3, <2>5
<1> QED BY <1>2, <1>3

-----------------------------------------------------------------------------
(* The lists of directories                                                 *)

LEMMA Elements ==
  ASSUME NEW S, NEW list \in Seq(S)
  PROVE  /\ ToSet(list) \subseteq S
         /\ \A x : x \in ToSet(list) <=> \E i \in 1..Len(list) : list[i] = x
<1>1. DOMAIN list = 1..Len(list) /\ \A i \in 1..Len(list) : list[i] \in S
  OBVIOUS
<1> QED BY <1>1 DEF ToSet

(* A list without the entry at place i.                                     *)
LEMMA EntryRemoved ==
  ASSUME NEW S, NEW list \in Seq(S), NEW i \in 1..Len(list)
  PROVE  /\ RemoveAt(list, i) \in Seq(S)
         /\ Len(RemoveAt(list, i)) = Len(list) - 1
         /\ \A k \in 1..Len(list) - 1 : RemoveAt(list, i)[k] = IF k < i THEN list[k] ELSE list[k + 1]
<1> DEFINE a == SubSeq(list, 1, i - 1)
           b == SubSeq(list, i + 1, Len(list))
<1>0. Len(list) \in Nat /\ i \in Nat /\ i >= 1 /\ i <= Len(list)
  OBVIOUS
<1>1. a \in Seq(S) /\ Len(a) = i - 1 /\ \A k \in 1..i - 1 : a[k] = list[k]
  <2>1. CASE i = 1
    <3>1. a = <<>>
      BY <1>0, <2>1, SubSeqEmpty
    <3> QED BY <2>1, <3>1
  <2>2. CASE i > 1
    <3>1. i - 1 \in 1..Len(list) + 1 /\ i - 1 \in 0..Len(list) /\ 1 \in 1..Len(list) + 1
      BY <1>0, <2>2
    <3>2. \A k \in 1..(i - 1) - 1 + 1 : k \in 1..i - 1 /\ 1 + k - 1 = k
      BY <1>0
    <3>3. (i - 1) - 1 + 1 = i - 1
      BY <1>0
    <3> QED BY <1>0, <2>2, <3>1, <3>2, <3>3, SubSeqProperties
  <2> QED BY <1>0, <2>1, <2>2
<1>2. b \in Seq(S) /\ Len(b) = Len(list) - i /\ \A k \in 1..Len(list) - i : b[k] = list[i + k]
  <2>1. CASE i = Len(list)
    <3>1. b = <<>>
      BY <1>0, <2>1, SubSeqEmpty
    <3> QED BY <1>0, <2>1, <3>1
  <2>2. CASE i < Len(list)
    <3>2. Len(list) - (i + 1) + 1 = Len(list) - i
      BY <1>0
    <3>3. \A k \in 1..Len(list) - i : (i + 1) + k - 1 = i + k
      BY <1>0
    <3>4. \A k \in i + 1..Len(list) : list[k] \in S
      BY <1>0
    <3>5. /\ b \in Seq(S) /\ Len(b) = Len(list) - (i + 1) + 1
          /\ \A k \in 1..Len(list) - (i + 1) + 1 : b[k] = list[(i + 1) + k - 1]
      BY <1>0, <2>2, <3>4, SubSeqProperties
    <3> QED BY <3>2, <3>3, <3>5
  <2> QED BY <1>0, <2>1, <2>2
<1> HIDE DEF a, b
<1>3. RemoveAt(list, i) = a \o b
  BY DEF RemoveAt, a, b
<1>4. a \o b \in Seq(S) /\ Len(a \o b) = Len(list) - 1
  <2>1. a \in Seq(S) /\ b \in Seq(S)
    BY <1>1, <1>2
  <2>2. a \o b \in Seq(S) /\ Len(a \o b) = Len(a) + Len(b)
    BY <2>1
  <2> QED BY <1>0, <1>1, <1>2, <2>2
<1>5. ASSUME NEW k \in 1..Len(list) - 1
      PROVE  (a \o b)[k] = IF k < i THEN list[k] ELSE list[k + 1]
  <2>1. CASE k < i
    BY <1>0, <1>1, <1>2, <2>1
  <2>2. CASE ~(k < i)
    <3>1. k - Len(a) \in 1..Len(b) /\ i + (k - Len(a)) = k + 1
      BY <1>0, <1>1, <1>2, <2>2
    <3>2. (a \o b)[k] = b[k - Len(a)]
      BY <1>0, <1>1, <1>2, <2>2
    <3> QED BY <1>2, <2>2, <3>1, <3>2
  <2> QED BY <2>1, <2>2
<1> QED BY <1>3, <1>4, <1>5

(* The index with an entry in front: no directory is lost from it, nor in   *)
(* it twice.                                                                *)
LEMMA WithoutEntry ==
  ASSUME NEW S, NEW list \in Seq(S), NEW d
  PROVE  /\ Without(list, d) \in Seq(S)
         /\ \A x \in ToSet(list) : x = d \/ x \in ToSet(Without(list, d))
         /\ Distinct(list) => Distinct(Without(list, d)) /\ d \notin ToSet(Without(list, d))
<1>1. CASE \E i \in 1..Len(list) : list[i] = d
  <2> DEFINE i == CHOOSE i \in 1..Len(list) : list[i] = d
             w == RemoveAt(list, i)
  <2>1. i \in 1..Len(list) /\ list[i] = d
    BY <1>1
  <2> HIDE DEF i
  <2>2. /\ w \in Seq(S) /\ Len(w) = Len(list) - 1
        /\ \A k \in 1..Len(list) - 1 : w[k] = IF k < i THEN list[k] ELSE list[k + 1]
    BY <2>1, EntryRemoved
  <2> HIDE DEF w
  <2>3. Without(list, d) = w
    BY <1>1 DEF Without, w, i
  <2>4. ASSUME NEW x \in ToSet(list), x # d PROVE x \in ToSet(w)
    <3>1. PICK k \in 1..Len(list) : list[k] = x
      BY Elements
    <3>2. k # i
      BY <2>1, <2>4, <3>1
    <3>3. CASE k < i
      <4>1. k \in 1..Len(list) - 1 /\ w[k] = x
        BY <2>1, <2>2, <3>1, <3>3
      <4> QED BY <2>2, <4>1, Elements
    <3>4. CASE k > i
      <4>1. k - 1 \in 1..Len(list) - 1 /\ w[k - 1] = x
        BY <2>1, <2>2, <3>1, <3>4
      <4> QED BY <2>2, <4>1, Elements
    <3> QED BY <2>1, <3>1, <3>2, <3>3, <3>4
  <2>5. ASSUME Distinct(list) PROVE Distinct(w) /\ d \notin ToSet(w)
    <3>1. \A j, k \in 1..Len(list) : list[j] = list[k] => j = k
      BY <2>5 DEF Distinct
    <3>2. \A k \in 1..Len(w) : \E n \in 1..Len(list) :
            n # i /\ n = (IF k < i THEN k ELSE k + 1) /\ w[k] = list[n]
      <4> SUFFICES ASSUME NEW k \in 1..Len(w)
                   PROVE  \E n \in 1..Len(list) :
                            n # i /\ n = (IF k < i THEN k ELSE k + 1) /\ w[k] = list[n]
        OBVIOUS
      <4> DEFINE n == IF k < i THEN k ELSE k + 1
      <4>1. n \in 1..Len(list) /\ n # i
        BY <2>1, <2>2
      <4>2. w[k] = list[n]
        BY <2>2
      <4> QED BY <4>1, <4>2
    <3>3. Distinct(w)
      <4> SUFFICES ASSUME NEW j \in 1..Len(w), NEW k \in 1..Len(w), w[j] = w[k] PROVE j = k
        BY DEF Distinct
      <4>1. (IF j < i THEN j ELSE j + 1) = (IF k < i THEN k ELSE k + 1)
        BY <3>1, <3>2
      <4> QED BY <2>1, <2>2, <4>1
    <3>4. \A k \in 1..Len(w) : w[k] # d
      BY <2>1, <3>1, <3>2
    <3> QED BY <2>2, <3>3, <3>4, Elements
  <2> QED BY <2>2, <2>3, <2>4, <2>5
<1>2. CASE ~\E i \in 1..Len(list) : list[i] = d
  <2>1. Without(list, d) = list
    BY <1>2 DEF Without
  <2> QED BY <1>2, <2>1, Elements
<1> QED BY <1>1, <1>2

LEMMA FrontedEntries ==
  ASSUME index \in Seq(Dir), NEW d \in Dir
  PROVE  /\ Fronted(d) \in Seq(Dir) /\ Len(Fronted(d)) >= 1 /\ Fronted(d)[1] = d
         /\ ToSet(index) \subseteq ToSet(Fronted(d))
         /\ Distinct(index) => Distinct(Fronted(d))
<1> DEFINE w == Without(index, d)
           f == <<d>> \o w
<1>1. w \in Seq(Dir)
  BY WithoutEntry
<1>2. \A x \in ToSet(index) : x = d \/ x \in ToSet(w)
  BY WithoutEntry
<1>3. Distinct(index) => Distinct(w) /\ d \notin ToSet(w)
  BY WithoutEntry
<1> HIDE DEF w
<1>4. <<d>> \in Seq(Dir) /\ Len(<<d>>) = 1 /\ <<d>>[1] = d
  OBVIOUS
<1>5. /\ f \in Seq(Dir) /\ Len(f) = Len(w) + 1 /\ f[1] = d
      /\ \A k \in 1..Len(w) : f[k + 1] = w[k]
  BY <1>1, <1>4
<1> HIDE DEF f
<1>6. Len(w) \in Nat
  BY <1>1
<1>7. ASSUME NEW x \in ToSet(index) PROVE x \in ToSet(f)
  <2>1. CASE x = d
    BY <1>5, <1>6, <2>1, Elements
  <2>2. CASE x # d
    <3>1. PICK k \in 1..Len(w) : w[k] = x
      BY <1>1, <1>2, <2>2, Elements
    <3>2. k + 1 \in 1..Len(f) /\ f[k + 1] = x
      BY <1>5, <1>6, <3>1
    <3> QED BY <1>5, <3>2, Elements
  <2> QED BY <2>1, <2>2
<1>8. ASSUME Distinct(index) PROVE Distinct(f)
  <2>1. Distinct(w) /\ \A k \in 1..Len(w) : w[k] # d
    BY <1>1, <1>3, <1>8, Elements
  <2>2. \A k \in 1..Len(f) : k = 1 \/ (k - 1 \in 1..Len(w) /\ f[k] = w[k - 1])
    <3> SUFFICES ASSUME NEW k \in 1..Len(f), k # 1
                 PROVE  k - 1 \in 1..Len(w) /\ f[k] = w[k - 1]
      OBVIOUS
    <3>1. k - 1 \in 1..Len(w) /\ (k - 1) + 1 = k
      BY <1>5, <1>6
    <3>2. f[(k - 1) + 1] = w[k - 1]
      BY <1>5, <3>1
    <3> QED BY <3>1, <3>2
  <2> SUFFICES ASSUME NEW j \in 1..Len(f), NEW k \in 1..Len(f), f[j] = f[k] PROVE j = k
    BY DEF Distinct
  <2>3. CASE j = 1 \/ k = 1
    BY <1>5, <2>1, <2>2, <2>3
  <2>4. CASE j # 1 /\ k # 1
    <3>1. j - 1 \in 1..Len(w) /\ k - 1 \in 1..Len(w) /\ w[j - 1] = w[k - 1]
      BY <2>2, <2>4
    <3>2. j - 1 = k - 1
      BY <2>1, <3>1 DEF Distinct
    <3> QED BY <1>5, <1>6, <3>2
  <2> QED BY <2>3, <2>4
<1> QED BY <1>5, <1>6, <1>7, <1>8 DEF Fronted, f, w

(* What a list keeps and what is past MaxRecent.                            *)
LEMMA ListSplit ==
  ASSUME NEW S, NEW list \in Seq(S), Len(list) >= 1
  PROVE  LET view == SubSeq(list, 1, Recent(list))
             todo == SubSeq(list, Recent(list) + 1, Len(list))
         IN /\ view \in Seq(S) /\ todo \in Seq(S)
            /\ list[1] \in ToSet(view)
            /\ ToSet(list) \subseteq ToSet(view) \cup ToSet(todo)
            /\ Distinct(list) => /\ Distinct(view) /\ Distinct(todo)
                                 /\ ToSet(view) \cap ToSet(todo) = {}
<1> DEFINE m == Recent(list)
           n == Len(list)
           view == SubSeq(list, 1, m)
           todo == SubSeq(list, m + 1, n)
<1>1. n \in Nat /\ m \in Nat /\ m >= 1 /\ m <= n
  BY StoreAssumption DEF Recent
<1> HIDE DEF m
<1>2. view \in Seq(S) /\ Len(view) = m /\ \A k \in 1..m : view[k] = list[k]
  <2>1. 1 \in 1..n + 1 /\ m \in 0..n /\ m - 1 + 1 = m /\ \A k \in 1..m : 1 + k - 1 = k
    BY <1>1
  <2> QED BY <1>1, <2>1, SubSeqProperties
<1>3. todo \in Seq(S) /\ Len(todo) = n - m /\ \A k \in 1..n - m : todo[k] = list[m + k]
  <2>1. CASE m = n
    <3>1. todo = <<>>
      BY <1>1, <2>1, SubSeqEmpty
    <3> QED BY <1>1, <2>1, <3>1
  <2>2. CASE m < n
    <3>1. /\ n - (m + 1) + 1 = n - m /\ \A k \in m + 1..n : list[k] \in S
          /\ m + 1 \in Int /\ n \in Int /\ m + 1 <= n
      BY <1>1, <2>2
    <3>2. \A k \in 1..n - m : (m + 1) + k - 1 = m + k
      BY <1>1
    <3>3. /\ todo \in Seq(S) /\ Len(todo) = n - (m + 1) + 1
          /\ \A k \in 1..n - (m + 1) + 1 : todo[k] = list[(m + 1) + k - 1]
      BY <3>1, SubSeqProperties
    <3> QED BY <3>1, <3>2, <3>3
  <2> QED BY <1>1, <2>1, <2>2
<1> HIDE DEF view, todo
<1>4. list[1] \in ToSet(view)
  BY <1>1, <1>2, Elements
<1>5. ASSUME NEW x \in ToSet(list) PROVE x \in ToSet(view) \cup ToSet(todo)
  <2>1. PICK k \in 1..n : list[k] = x
    BY Elements
  <2>2. CASE k <= m
    BY <1>1, <1>2, <2>1, <2>2, Elements
  <2>3. CASE k > m
    <3>1. k - m \in 1..n - m /\ m + (k - m) = k
      BY <1>1, <2>3
    <3>2. todo[k - m] = x
      BY <1>3, <2>1, <3>1
    <3> QED BY <1>3, <3>1, <3>2, Elements
  <2> QED BY <1>1, <2>2, <2>3
<1>6. ASSUME Distinct(list)
      PROVE  Distinct(view) /\ Distinct(todo) /\ ToSet(view) \cap ToSet(todo) = {}
  <2>1. \A j, k \in 1..n : list[j] = list[k] => j = k
    BY <1>6 DEF Distinct
  <2>2. \A k \in 1..m : k \in 1..n
    BY <1>1
  <2>3. \A k \in 1..n - m : m + k \in 1..n /\ m + k > m
    BY <1>1
  <2>4. Distinct(view)
    BY <1>2, <2>1, <2>2 DEF Distinct
  <2>5. Distinct(todo)
    <3> SUFFICES ASSUME NEW j \in 1..Len(todo), NEW k \in 1..Len(todo), todo[j] = todo[k] PROVE j = k
      BY DEF Distinct
    <3>1. m + j = m + k
      BY <1>3, <2>1, <2>3
    <3> QED BY <1>1, <1>3, <3>1
  <2>6. ASSUME NEW x \in ToSet(view), x \in ToSet(todo) PROVE FALSE
    <3>1. PICK j \in 1..m : list[j] = x
      BY <1>2, Elements
    <3>2. PICK k \in 1..n - m : list[m + k] = x
      BY <1>3, <2>6, Elements
    <3> QED BY <1>1, <2>1, <2>2, <2>3, <3>1, <3>2
  <2> QED BY <2>4, <2>5, <2>6
<1> QED BY <1>2, <1>3, <1>4, <1>5, <1>6 DEF view, todo, m

-----------------------------------------------------------------------------
(* Threads stay in order                                                    *)

(* A step that touches only the threads and the sessions of process p.      *)
StepOf(p) ==
  /\ \A t \in Thread : ProcessOf(t) # p => pc'[t] = pc[t] /\ job'[t] = job[t]
  /\ \A q \in Process : q # p => live'[q] = live[q]
  /\ \A s \in Session :
       /\ host[s] = None => host'[s] \in {None, p}
       /\ host[s] # None => host'[s] = host[s]
       /\ host[s] \notin {None, p} => claimed'[s] = claimed[s] /\ subdir'[s] = subdir[s]
  /\ \A d \in Dir : gen'[d] \in Nat /\ gen'[d] >= gen[d]

LEMMA ProcessStep ==
  ASSUME Typed, JobsInv, NEW p \in Process, StepOf(p), InOrder(p)', SessionsAreHosted'
  PROVE  JobsInv'
<1>1. ASSUME NEW q \in Process, q # p PROVE InOrder(q)'
  <2>1. \A t \in Thread : ProcessOf(t) = q => pc'[t] = pc[t] /\ job'[t] = job[t]
    BY <1>1 DEF StepOf
  <2>2. q # None
    BY StoreAssumption
  <2>3. \A s \in Session : /\ host[s] = q <=> host'[s] = q
                           /\ host[s] = q => claimed'[s] = claimed[s] /\ subdir'[s] = subdir[s]
    BY <1>1, <2>2 DEF StepOf
  <2>4. live'[q] = live[q] /\ \A d \in Dir : gen'[d] \in Nat /\ gen'[d] >= gen[d]
    BY <1>1 DEF StepOf
  <2> QED BY <1>1, <2>1, <2>3, <2>4, OthersStay
<1> QED BY <1>1 DEF JobsInv

(* A thread at work is a process's main thread or the naming thread of one  *)
(* of its sessions.                                                         *)
LEMMA WorkerInOrder ==
  ASSUME Typed, JobsInv, NEW t \in Thread, pc[t] # "idle"
  PROVE  /\ JobIsOwn(t) /\ ProcessOf(t) \in Process
         /\ \/ \E p \in Process : t = Main(p) /\ MainIsInOrder(p)
            \/ \E s \in Session : t = Naming(s) /\ host[s] \in Process /\ NamingIsInOrder(s)
<1>1. CASE \E p \in Process : t = Main(p)
  BY <1>1, ProcessOfThread DEF JobsInv, InOrder
<1>2. CASE \E s \in Session : t = Naming(s)
  <2>1. PICK s \in Session : t = Naming(s)
    BY <1>2
  <2>2. host[s] \in Process
    BY <2>1 DEF JobsInv, SessionsAreHosted, Typed, TypeOK
  <2> QED BY <2>1, <2>2, ProcessOfThread DEF JobsInv, InOrder
<1> QED BY <1>1, <1>2, Threads

(* A thread that works on its job, and keeps it.                            *)
LEMMA JobGoesOn ==
  ASSUME Typed, JobsInv, UNCHANGED <<gen, sessionVars>>,
         \A t \in Thread :
           \/ pc'[t] = pc[t] /\ job'[t] = job[t]
           \/ /\ pc[t] \in {"write", "touch", "prune", "remove"}
              /\ \/ pc'[t] \in {"write", "touch", "prune", "remove"}
                 \/ pc'[t] = "release" /\ job[t].goal \in {"close", "replace"}
              /\ job'[t].goal = job[t].goal /\ job'[t].obj = job[t].obj
              /\ job'[t].dir = job[t].dir /\ job'[t].gen = job[t].gen
  PROVE  JobsInv'
<1>0. UNCHANGED <<gen, opened, host, live, subdir, claimed, turns>>
  BY DEF sessionVars
<1>1. \A t \in Thread : /\ pc'[t] \in ActivePC <=> pc[t] \in ActivePC
                        /\ pc'[t] = "idle" <=> pc[t] = "idle"
  BY DEF ActivePC
<1>2. ASSUME NEW t \in Thread, JobIsOwn(t) PROVE JobIsOwn(t)'
  BY <1>0, <1>1, <1>2 DEF JobIsOwn
<1>3. ASSUME NEW p \in Process, MainIsInOrder(p), JobIsOwn(Main(p)) PROVE MainIsInOrder(p)'
  <2> DEFINE t == Main(p)
  <2>1. t \in Thread
    BY Threads
  <2>2. CASE pc[t] \notin ActivePC
    BY <1>1, <1>3, <2>1, <2>2 DEF MainIsInOrder, ActivePC
  <2>3. CASE pc[t] \in ActivePC
    <3>1. job[t].obj \in Session
      BY <1>3, <2>3 DEF JobIsOwn
    <3>2. /\ job'[t].goal = job[t].goal /\ job'[t].obj = job[t].obj
          /\ \/ pc'[t] = pc[t]
             \/ /\ pc[t] \in {"write", "touch", "prune", "remove"}
                /\ \/ pc'[t] \in {"write", "touch", "prune", "remove"}
                   \/ pc'[t] = "release" /\ job[t].goal \in {"close", "replace"}
      BY <2>1
    <3>3. \A s \in Session : pc'[Naming(s)] = "idle" <=> pc[Naming(s)] = "idle"
      BY <1>1, Threads
    <3>4. \A s \in Session : IsNewest(p, s)' <=> IsNewest(p, s)
      BY <1>0 DEF IsNewest
    <3> HIDE DEF t
    <3>5. Main(p) = t
      BY DEF t
    <3> QED BY <1>0, <1>3, <2>3, <3>1, <3>2, <3>3, <3>4, <3>5 DEF MainIsInOrder, ActivePC
  <2> QED BY <2>2, <2>3
<1>4. ASSUME NEW s \in Session, NamingIsInOrder(s) PROVE NamingIsInOrder(s)'
  <2>1. Naming(s) \in Thread
    BY Threads
  <2> QED BY <1>0, <1>1, <1>4, <2>1 DEF NamingIsInOrder, ActivePC
<1>5. \A p \in Process : InOrder(p)'
  BY <1>0, <1>2, <1>3, <1>4, Threads DEF JobsInv, InOrder
<1>6. SessionsAreHosted'
  BY <1>0, <1>1, Threads DEF JobsInv, SessionsAreHosted
<1> QED BY <1>5, <1>6 DEF JobsInv

-----------------------------------------------------------------------------
(* Owners and locks                                                         *)

(* Nobody takes a lock or a directory, no locked file goes away.            *)
LEMMA LocksStay ==
  ASSUME OwnersInv, held' \subseteq held, \A l \in held : claimed'[l[3]] => l \in held',
         raced \subseteq raced',
         \A s \in Session : claimed'[s] => claimed[s] /\ subdir'[s] = subdir[s],
         \A d \in Dir : lockFile[d] => lockFile'[d] /\ gen'[d] = gen[d],
         \A t \in Thread : pc'[t] = "remove" => pc[t] = "remove" /\ job'[t].todo = job[t].todo
  PROVE  Locks'
<1> USE DEF OwnersInv, Locks
<1>1. LocksAreExclusive'
  BY DEF LocksAreExclusive
<1>2. OwnerIsLocked'
  <2> SUFFICES ASSUME NEW s \in Session, claimed'[s], subdir'[s] \notin raced'
               PROVE  lockFile'[subdir'[s]] /\ <<subdir'[s], gen'[subdir'[s]], s>> \in held'
    BY DEF OwnerIsLocked
  <2>1. claimed[s] /\ subdir'[s] = subdir[s] /\ subdir[s] \notin raced /\ subdir[s] \in Dir
    BY DEF JobsInv, SessionsAreHosted
  <2>2. lockFile[subdir[s]] /\ <<subdir[s], gen[subdir[s]], s>> \in held
    BY <2>1 DEF OwnerIsLocked
  <2>3. <<subdir[s], gen[subdir[s]], s>>[3] = s
    OBVIOUS
  <2> QED BY <2>1, <2>2, <2>3
<1>3. RemovedIsFree'
  BY DEF RemovedIsFree
<1> QED BY <1>1, <1>2, <1>3

(* A lock is taken that nobody else has, on the file at the directory's     *)
(* path, or the directory has been raced for.                               *)
LEMMA LockTaken ==
  ASSUME OwnersInv, Typed', NEW t \in Thread, pc[t] = "opened", JobIsOwn(t), Lock(t),
         subdir'[job[t].obj] = job[t].dir,
         \A s \in Session : s # job[t].obj => subdir'[s] = subdir[s],
         \A u \in Thread : pc'[u] = "remove" => pc[u] = "remove" /\ job'[u].todo = job[u].todo
  PROVE  Locks'
<1> DEFINE d == job[t].dir
           g == job[t].gen
           s == job[t].obj
<1> USE DEF OwnersInv, Locks
<1>1. /\ s \in Session /\ d \in Dir /\ ~Locked(d, g)
      /\ UNCHANGED <<lockFile, gen>> /\ held' = held \cup {<<d, g, s>>}
      /\ claimed' = [claimed EXCEPT ![s] = TRUE]
      /\ raced' = IF Doomed(d, g) THEN raced \cup {d} ELSE raced
  BY DEF Lock, Lockable, JobIsOwn, ActivePC
<1>2. \A l \in held : l[1] = d /\ l[2] = g => FALSE
  <2> SUFFICES ASSUME NEW l \in held, l[1] = d, l[2] = g PROVE FALSE
    OBVIOUS
  <2>h. TypeOK
    BY DEF Typed
  <2>t. l \in Dir \X Nat \X Session
    BY <2>h DEF TypeOK
  <2>1. l = <<d, g, l[3]>> /\ l[3] \in Session
    BY <2>t
  <2> QED BY <1>1, <2>1 DEF Locked
<1>3. <<d, g, s>>[1] = d /\ <<d, g, s>>[2] = g /\ <<d, g, s>>[3] = s
  OBVIOUS
<1> HIDE DEF d, g, s
<1>4. LocksAreExclusive'
  BY <1>1, <1>2, <1>3 DEF LocksAreExclusive
<1>5. \A r \in Session : claimed'[r] => r = s \/ (claimed[r] /\ subdir'[r] = subdir[r])
  <2>1. TypeOK
    BY DEF Typed
  <2>2. claimed \in [Session -> BOOLEAN]
    BY <2>1 DEF TypeOK
  <2> QED BY <1>1, <2>2 DEF s
<1>6. OwnerIsLocked'
  <2> SUFFICES ASSUME NEW r \in Session, claimed'[r], subdir'[r] \notin raced'
               PROVE  lockFile'[subdir'[r]] /\ <<subdir'[r], gen'[subdir'[r]], r>> \in held'
    BY DEF OwnerIsLocked
  <2>1. CASE r = s
    <3>1. subdir'[r] = d /\ ~Doomed(d, g)
      BY <1>1, <2>1 DEF s, d
    <3> QED BY <1>1, <2>1, <3>1 DEF Doomed
  <2>2. CASE r # s
    <3>1. claimed[r] /\ subdir'[r] = subdir[r] /\ subdir[r] \notin raced
      BY <1>1, <1>5, <2>2
    <3> QED BY <1>1, <3>1 DEF OwnerIsLocked
  <2> QED BY <2>1, <2>2
<1>7. RemovedIsFree'
  <2> SUFFICES ASSUME NEW u \in Thread, pc'[u] = "remove", NEW r \in Session, claimed'[r],
                      subdir'[r] = Head(job'[u].todo)
               PROVE  subdir'[r] \in raced'
    BY DEF RemovedIsFree
  <2>1. pc[u] = "remove" /\ job'[u].todo = job[u].todo
    OBVIOUS
  <2>2. CASE r = s
    <3>1. subdir'[r] = d
      BY <2>2 DEF s, d
    <3>2. Doomed(d, g)
      BY <2>1, <3>1 DEF Doomed
    <3> QED BY <1>1, <3>1, <3>2
  <2>3. CASE r # s
    <3>1. claimed[r] /\ subdir'[r] = subdir[r]
      BY <1>5, <2>3
    <3> QED BY <1>1, <2>1, <3>1 DEF RemovedIsFree
  <2> QED BY <2>2, <2>3
<1> QED BY <1>4, <1>6, <1>7

LEMMA OwnersInit == Init => OwnersInv
<1> SUFFICES ASSUME Init PROVE OwnersInv
  OBVIOUS
<1>1. <<>> \in Seq(Dir) /\ 0 \in 0..MaxSessions /\ 0 \in 0..MaxTurns
  BY StoreAssumption
<1>2. Typed
  BY <1>1, NoJobTyped, StoreAssumption DEF Init, Typed, TypeOK, Job
<1>3. \A s \in Session : ~(s <= 0) /\ None \notin Process
  BY SessionsAreNumbers, StoreAssumption
<1>4. SessionsAreHosted
  BY <1>3, Threads, StoreAssumption DEF Init, SessionsAreHosted
<1>5. \A p \in Process : InOrder(p)
  BY Threads, StoreAssumption
  DEF Init, InOrder, JobIsOwn, MainIsInOrder, NamingIsInOrder, ActivePC
<1>6. Locks
  BY DEF Init, Locks, LocksAreExclusive, OwnerIsLocked, RemovedIsFree
<1> QED BY <1>2, <1>4, <1>5, <1>6 DEF OwnersInv, JobsInv

(* A thread whose job is written, indexed or pruned.                        *)
LEMMA OwnersWriteState ==
  ASSUME OwnersInv, NEW t \in Thread, WriteState(t)
  PROVE  OwnersInv'
<1> USE DEF OwnersInv
<1>1. /\ UNCHANGED <<lockFile, gen, held, index, wsLock, opened, host, live, subdir, claimed, turns, job,
                     listed, raced>>
      /\ pc[t] = "write" /\ pc' = [pc EXCEPT ![t] = "touch"]
      /\ disk' = [disk EXCEPT ![job[t].dir] = job[t].turns]
      /\ missed' = missed \cup {job[t].dir}
      /\ setBack' \subseteq setBack \cup {job[t].dir}
  BY DEF WriteState, sessionVars
<1>2. job[t].dir \in Dir /\ job[t].turns \in 0..MaxTurns
  BY <1>1, WorkerInOrder DEF JobIsOwn, ActivePC, Typed, Job
<1>3. Typed'
  BY <1>1, <1>2 DEF Typed, TypeOK
<1>4. JobsInv'
  <2>1. \A u \in Thread : pc'[u] = pc[u] \/ (u = t /\ pc[u] = "write" /\ pc'[u] = "touch")
    BY <1>1 DEF Typed, TypeOK
  <2> QED BY <1>1, <2>1, JobGoesOn DEF sessionVars
<1>5. Locks'
  <2>1. \A u \in Thread : pc'[u] = "remove" => pc[u] = "remove"
    BY <1>1 DEF Typed, TypeOK
  <2> QED BY <1>1, <2>1, LocksStay
<1> QED BY <1>3, <1>4, <1>5

(* A thread's job with other lists.                                         *)
WithLists(t, v, w) == [job[t] EXCEPT !.view = v, !.todo = w]

LEMMA ListsReplaced ==
  ASSUME Typed, NEW t \in Thread, NEW v \in Seq(Dir), NEW w \in Seq(Dir)
  PROVE  LET r == WithLists(t, v, w) IN
         /\ r \in Job /\ r.goal = job[t].goal /\ r.obj = job[t].obj /\ r.dir = job[t].dir
         /\ r.gen = job[t].gen /\ r.turns = job[t].turns /\ r.view = v /\ r.todo = w
<1>1. job[t] \in Job
  BY DEF Typed
<1> QED BY <1>1 DEF Job, WithLists

LEMMA ListOfJob ==
  ASSUME Typed, NEW t \in Thread
  PROVE  /\ job[t].view \in Seq(Dir) /\ job[t].todo \in Seq(Dir)
         /\ job[t].todo # <<>> => /\ Head(job[t].todo) \in Dir /\ Tail(job[t].todo) \in Seq(Dir)
                                  /\ Append(job[t].view, Head(job[t].todo)) \in Seq(Dir)
<1>1. job[t].view \in Seq(Dir) /\ job[t].todo \in Seq(Dir)
  BY DEF Typed, Job
<1> QED BY <1>1

LEMMA OwnersTouch ==
  ASSUME OwnersInv, NEW t \in Thread, Touch(t)
  PROVE  OwnersInv'
<1> USE DEF OwnersInv
<1> DEFINE list == Fronted(job[t].dir)
           v == SubSeq(list, 1, Recent(list))
           w == SubSeq(list, Recent(list) + 1, Len(list))
           r == WithLists(t, v, w)
<1>1. /\ UNCHANGED <<lockFile, gen, held, disk, index, opened, host, live, subdir, claimed, turns,
                     listed, raced, missed, setBack>>
      /\ pc[t] = "touch" /\ pc' = [pc EXCEPT ![t] = "prune"] /\ wsLock' = t
      /\ job' = [job EXCEPT ![t] = r]
  BY DEF Touch, sessionVars, historyVars, Typed, WithLists
<1>2. job[t].dir \in Dir
  BY <1>1, WorkerInOrder DEF JobIsOwn, ActivePC
<1>3. v \in Seq(Dir) /\ w \in Seq(Dir)
  <2>1. list \in Seq(Dir) /\ Len(list) >= 1
    BY <1>2, FrontedEntries DEF Typed, TypeOK
  <2> HIDE DEF list
  <2> QED BY <2>1, ListSplit
<1> HIDE DEF v, w
<1>4. /\ r \in Job /\ r.goal = job[t].goal /\ r.obj = job[t].obj /\ r.dir = job[t].dir
      /\ r.gen = job[t].gen /\ r.turns = job[t].turns
  BY <1>3, ListsReplaced
<1> HIDE DEF r
<1>5. Typed'
  BY <1>1, <1>4 DEF Typed, TypeOK
<1>6. \A u \in Thread : \/ pc'[u] = pc[u] /\ job'[u] = job[u]
                        \/ u = t /\ pc'[u] = "prune" /\ job'[u] = r
  BY <1>1 DEF Typed, TypeOK
<1>7. JobsInv'
  BY <1>1, <1>4, <1>6, JobGoesOn DEF sessionVars
<1>8. Locks'
  BY <1>1, <1>6, LocksStay
<1> QED BY <1>5, <1>7, <1>8

LEMMA OwnersProbe ==
  ASSUME OwnersInv, NEW t \in Thread, Probe(t)
  PROVE  OwnersInv'
<1> USE DEF OwnersInv
<1> DEFINE d == Head(job[t].todo)
           v == Append(job[t].view, d)
           w == Tail(job[t].todo)
           r == WithLists(t, v, w)
<1>1. /\ UNCHANGED <<lockFile, gen, held, disk, index, wsLock, opened, host, live, subdir, claimed, turns,
                     listed, raced, missed, setBack>>
      /\ pc[t] = "prune" /\ job[t].todo # <<>>
      /\ \/ Keep(d) /\ pc' = pc /\ job' = [job EXCEPT ![t] = r]
         \/ ~Keep(d) /\ pc' = [pc EXCEPT ![t] = "remove"] /\ job' = job
  BY DEF Probe, diskVars, sessionVars, historyVars, Typed, WithLists
<1>2. /\ r \in Job /\ r.goal = job[t].goal /\ r.obj = job[t].obj /\ r.dir = job[t].dir
      /\ r.gen = job[t].gen /\ r.turns = job[t].turns
  <2>1. v \in Seq(Dir) /\ w \in Seq(Dir)
    BY <1>1, ListOfJob
  <2> HIDE DEF v, w
  <2> QED BY <2>1, ListsReplaced
<1>d. d \in Dir
  BY <1>1, ListOfJob
<1> HIDE DEF r, d
<1>3. Typed'
  BY <1>1, <1>2 DEF Typed, TypeOK
<1>4. \A u \in Thread : \/ pc'[u] = pc[u] /\ job'[u] = job[u]
                        \/ u = t /\ pc'[u] = pc[u] /\ job'[u] = r
                        \/ u = t /\ pc'[u] = "remove" /\ job'[u] = job[u] /\ ~Keep(d)
  BY <1>1 DEF Typed, TypeOK
<1>5. JobsInv'
  BY <1>1, <1>2, <1>4, JobGoesOn DEF sessionVars
<1>6. LocksAreExclusive' /\ OwnerIsLocked'
  BY <1>1 DEF Locks, LocksAreExclusive, OwnerIsLocked
<1>7. RemovedIsFree'
  <2> SUFFICES ASSUME NEW u \in Thread, pc'[u] = "remove"
               PROVE  /\ job'[u].todo # <<>>
                      /\ \A s \in Session : claimed[s] /\ subdir[s] = Head(job'[u].todo)
                                              => subdir[s] \in raced
    BY <1>1 DEF RemovedIsFree
  <2>1. CASE pc[u] = "remove"
    BY <1>1, <1>4, <2>1 DEF Locks, RemovedIsFree
  <2>2. CASE pc[u] # "remove"
    <3>1. u = t /\ job'[u] = job[u] /\ ~Keep(d)
      BY <1>1, <1>4, <2>2
    <3>2. ASSUME NEW s \in Session, claimed[s], subdir[s] = d, d \notin raced PROVE FALSE
      <4>1. lockFile[d] /\ <<d, gen[d], s>> \in held
        BY <3>2 DEF Locks, OwnerIsLocked
      <4> QED BY <3>1, <4>1 DEF Keep, HeldByOther, Locked
    <3> QED BY <1>1, <3>1, <3>2 DEF d
  <2> QED BY <2>1, <2>2
<1> QED BY <1>3, <1>5, <1>6, <1>7 DEF Locks

LEMMA OwnersRemoveTree ==
  ASSUME OwnersInv, NEW t \in Thread, RemoveTree(t)
  PROVE  OwnersInv'
<1> USE DEF OwnersInv
<1> DEFINE d == Head(job[t].todo)
           v == job[t].view
           w == Tail(job[t].todo)
           r == WithLists(t, v, w)
<1>1. /\ UNCHANGED <<gen, held, index, wsLock, opened, host, live, subdir, claimed, turns,
                     listed, raced, missed, setBack>>
      /\ pc[t] = "remove" /\ pc' = [pc EXCEPT ![t] = "prune"]
      /\ lockFile' = [lockFile EXCEPT ![d] = FALSE] /\ disk' = [disk EXCEPT ![d] = 0]
      /\ job[t].todo # <<>>
  BY DEF RemoveTree, sessionVars, historyVars, Locks, RemovedIsFree
<1>j. job' = [job EXCEPT ![t] = r]
  <2>1. job \in [Thread -> Job]
    BY DEF Typed
  <2>2. job' = [job EXCEPT ![t].todo = Tail(job[t].todo)]
    BY DEF RemoveTree
  <2>3. [job[t] EXCEPT !.todo = Tail(job[t].todo)] = r
    BY <2>1 DEF Job, WithLists
  <2> QED BY <2>1, <2>2, <2>3
<1>2. /\ r \in Job /\ r.goal = job[t].goal /\ r.obj = job[t].obj /\ r.dir = job[t].dir
      /\ r.gen = job[t].gen /\ r.turns = job[t].turns
  <2>1. v \in Seq(Dir) /\ w \in Seq(Dir)
    BY <1>1, ListOfJob
  <2> HIDE DEF v, w
  <2> QED BY <2>1, ListsReplaced
<1>d. d \in Dir
  BY <1>1, ListOfJob
<1> HIDE DEF r, d
<1>3. Typed'
  <2>1. 0 \in 0..MaxTurns
    BY StoreAssumption
  <2>2. TypeOK' /\ job' \in [Thread -> Job]
    BY <1>1, <1>2, <1>j, <2>1 DEF Typed, TypeOK, Job
  <2>3. \A e \in Dir : lockFile'[e] => gen'[e] > 0
    BY <1>1, <1>d DEF Typed, TypeOK
  <2> QED BY <2>2, <2>3 DEF Typed
<1>4. \A u \in Thread : \/ pc'[u] = pc[u] /\ job'[u] = job[u]
                        \/ u = t /\ pc'[u] = "prune" /\ job'[u] = r
  BY <1>1, <1>j DEF Typed, TypeOK
<1>5. JobsInv'
  BY <1>1, <1>2, <1>4, JobGoesOn DEF sessionVars
<1>6. LocksAreExclusive'
  BY <1>1 DEF Locks, LocksAreExclusive
<1>7. OwnerIsLocked'
  <2>1. \A s \in Session : claimed[s] /\ subdir[s] \notin raced => subdir[s] # d
    BY <1>1 DEF Locks, RemovedIsFree, d
  <2>2. \A s \in Session : claimed[s] => subdir[s] \in Dir
    BY DEF JobsInv, SessionsAreHosted
  <2>3. \A e \in Dir : e # d => lockFile'[e] = lockFile[e]
    BY <1>1 DEF Typed, TypeOK
  <2> QED BY <1>1, <2>1, <2>2, <2>3 DEF Locks, OwnerIsLocked
<1>8. RemovedIsFree'
  BY <1>1, <1>4 DEF Locks, RemovedIsFree
<1> QED BY <1>3, <1>5, <1>6, <1>7, <1>8 DEF Locks

(* Thread t is done with its job; if it was a main thread's claim, that of  *)
(* a new session, the session's naming thread may start.                    *)
JobEnds(t) ==
  \A u \in Thread :
    \/ pc'[u] = pc[u] /\ job'[u] = job[u] /\ u # t
    \/ u = t /\ pc'[u] = (IF t[2] = "main" THEN "idle" ELSE "done") /\ job'[u] = NoJob
    \/ /\ u = Naming(job[t].obj) /\ t[2] = "main" /\ job[t].goal = "claim"
       /\ pc[u] = "idle" /\ pc'[u] = "armed" /\ job'[u] = job[u]

LEMMA JobsEnd ==
  ASSUME Typed, JobsInv, NEW t \in Thread, pc[t] \in {"opened", "write", "touch", "prune"},
         UNCHANGED <<gen, sessionVars>>, JobEnds(t)
  PROVE  JobsInv'
<1>w. JobIsOwn(t) /\ ProcessOf(t) \in Process /\ job[t].obj \in Session /\ pc[t] \in ActivePC
  <2>1. pc[t] # "idle" /\ pc[t] \in ActivePC
    BY DEF ActivePC
  <2> QED BY <2>1, WorkerInOrder DEF JobIsOwn
<1>p. PICK p \in Process : p = ProcessOf(t)
  BY <1>w
<1>o. PICK o \in Session : o = job[t].obj
  BY <1>w
<1>0. UNCHANGED <<gen, opened, host, live, subdir, claimed, turns>>
  BY DEF sessionVars
<1>1. /\ JobIsOwn(t) /\ p \in Process /\ o \in Session /\ pc[t] \in ActivePC
      /\ \/ t = Main(p) /\ MainIsInOrder(p) /\ t[2] = "main" /\ host[o] = p
         \/ \E s \in Session : t = Naming(s) /\ host[s] = p /\ NamingIsInOrder(s) /\ t[2] = "naming"
  <2>1. pc[t] # "idle"
    BY DEF ActivePC
  <2> QED BY <1>w, <1>p, <1>o, <2>1, WorkerInOrder, ProcessOfThread, Threads DEF MainIsInOrder
<1>g. \A d \in Dir : gen'[d] \in Nat /\ gen'[d] >= gen[d]
  BY <1>0 DEF Typed, TypeOK
<1>2. \A u \in Thread : ProcessOf(u) # p => pc'[u] = pc[u] /\ job'[u] = job[u]
  BY <1>1, <1>o, ProcessOfThread DEF JobEnds
<1>n. p # None
  BY <1>1, StoreAssumption
<1>3. StepOf(p)
  BY <1>0, <1>g, <1>2, <1>n DEF StepOf
<1>4. JobIsOwn(Main(p))' /\ MainIsInOrder(p)'
  <2>1. CASE t = Main(p)
    <3>1. pc'[Main(p)] = "idle"
      BY <1>1, <1>o, <2>1, Threads, ThreadsDiffer DEF JobEnds
    <3> QED BY <3>1 DEF JobIsOwn, MainIsInOrder, ActivePC
  <2>2. CASE t # Main(p)
    <3>1. t[2] = "naming" /\ \E s \in Session : t = Naming(s) /\ pc[t] # "idle"
      BY <1>1, <2>2
    <3>2. pc'[Main(p)] = pc[Main(p)] /\ job'[Main(p)] = job[Main(p)]
      BY <1>1, <2>2, <3>1, Threads DEF JobEnds
    <3>3. \A s \in Session : pc[Naming(s)] = "idle" => pc'[Naming(s)] = "idle"
      BY <3>1, Threads DEF JobEnds
    <3> QED BY <1>0, <1>1, <1>g, <3>2, <3>3, MainStays
  <2> QED BY <2>1, <2>2
<1>5. ASSUME NEW s \in Session, host[s] = p PROVE JobIsOwn(Naming(s))' /\ NamingIsInOrder(s)'
  <2>1. CASE pc'[Naming(s)] = pc[Naming(s)] /\ job'[Naming(s)] = job[Naming(s)]
    BY <1>0, <1>1, <1>5, <1>g, <2>1, NamingStays
  <2>2. CASE Naming(s) = t
    <3>1. pc'[Naming(s)] = "done" /\ subdir[s] \in Dir
      BY <1>1, <2>2, Threads, ThreadsDiffer DEF JobEnds, NamingIsInOrder, ActivePC
    <3> QED BY <1>0, <3>1 DEF JobIsOwn, NamingIsInOrder, ActivePC
  <2>3. CASE Naming(s) = Naming(o) /\ job[t].goal = "claim" /\ pc'[Naming(s)] = "armed"
    <3>1. s = o /\ subdir[o] \in Dir
      BY <1>1, <1>o, <2>3, ThreadsDiffer DEF JobIsOwn
    <3> QED BY <1>0, <2>3, <3>1 DEF JobIsOwn, NamingIsInOrder, ActivePC
  <2> QED BY <1>o, <2>1, <2>2, <2>3, Threads DEF JobEnds
<1>6. InOrder(p)'
  BY <1>0, <1>4, <1>5 DEF InOrder
<1>7. SessionsAreHosted'
  <2>1. \A s \in Session : host[s] = None => pc'[Naming(s)] = "idle"
    <3> SUFFICES ASSUME NEW s \in Session, host[s] = None PROVE pc'[Naming(s)] = "idle"
      OBVIOUS
    <3>1. ProcessOf(Naming(s)) # p /\ pc[Naming(s)] = "idle"
      BY <1>n, ProcessOfThread DEF JobsInv, SessionsAreHosted
    <3> QED BY <1>2, <3>1, Threads
  <2> QED BY <1>0, <2>1 DEF JobsInv, SessionsAreHosted
<1> QED BY <1>1, <1>3, <1>6, <1>7, ProcessStep

(* What the end of a save does.                                             *)
LEMMA SavedEffects ==
  ASSUME Typed, JobsInv, NEW t \in Thread, pc[t] \in {"touch", "prune"}, Saved(t)
  PROVE  /\ \/ JobEnds(t)
            \/ /\ job[t].goal \in {"close", "replace"}
               /\ job' = job /\ pc' = [pc EXCEPT ![t] = "release"]
         /\ pc' \in [Thread -> {"idle", "opened", "write", "touch", "prune", "remove",
                                "release", "join", "armed", "done"}]
         /\ job' \in [Thread -> Job]
<1> DEFINE o == job[t].obj
           n == Naming(job[t].obj)
<1>1. /\ JobIsOwn(t) /\ o \in Session /\ n \in Thread
      /\ \/ \E p \in Process : t = Main(p) /\ MainIsInOrder(p) /\ t[2] = "main" /\ n # t
         \/ t = n /\ t[2] = "naming"
  <2>1. pc[t] # "idle" /\ pc[t] \in ActivePC
    BY DEF ActivePC
  <2>2. JobIsOwn(t) /\ o \in Session
    BY <2>1, WorkerInOrder DEF JobIsOwn
  <2> QED BY <2>1, <2>2, WorkerInOrder, Threads, ThreadsDiffer DEF NamingIsInOrder
<1>2. CASE job[t].goal \in {"close", "replace"}
  BY <1>2 DEF Saved, Typed, TypeOK
<1>3. CASE job[t].goal \notin {"close", "replace"}
  <2> DEFINE x == IF t = n THEN "done" ELSE "idle"
             y == IF t = n THEN "done"
                  ELSE IF job[t].goal = "claim" /\ o <= MaxNamed THEN "armed" ELSE pc[n]
  <2>1. job' = [job EXCEPT ![t] = NoJob] /\ pc' = [[pc EXCEPT ![t] = x] EXCEPT ![n] = y]
    BY <1>1, <1>3 DEF Saved, Typed, TypeOK
  <2>2. job' \in [Thread -> Job] /\ \A u \in Thread : job'[u] = IF u = t THEN NoJob ELSE job[u]
    BY <2>1, NoJobTyped DEF Typed
  <2>3. \A u \in Thread : pc'[u] = IF u = n THEN y ELSE IF u = t THEN x ELSE pc[u]
    BY <2>1 DEF Typed, TypeOK
  <2>4. pc' \in [Thread -> {"idle", "opened", "write", "touch", "prune", "remove",
                            "release", "join", "armed", "done"}]
    BY <1>1, <2>1 DEF Typed, TypeOK
  <2>5. t = n => JobEnds(t)
    BY <1>1, <2>2, <2>3 DEF JobEnds
  <2>6. ASSUME t # n PROVE JobEnds(t)
    <3>1. t[2] = "main" /\ (job[t].goal = "claim" => pc[n] = "idle")
      BY <1>1, <2>6 DEF MainIsInOrder, ActivePC
    <3> QED BY <1>1, <2>2, <2>3, <2>6, <3>1 DEF JobEnds
  <2> QED BY <2>2, <2>4, <2>5, <2>6
<1> QED BY <1>2, <1>3

LEMMA OwnersNoLock ==
  ASSUME OwnersInv, NEW t \in Thread, NoLock(t)
  PROVE  OwnersInv'
<1> USE DEF OwnersInv
<1>1. /\ UNCHANGED <<diskVars, sessionVars, historyVars>> /\ pc[t] = "opened"
      /\ pc' = [pc EXCEPT ![t] = IF t[2] = "main" THEN "idle" ELSE "done"]
      /\ job' = [job EXCEPT ![t] = NoJob]
  BY DEF NoLock, Finish
<1>2. Typed'
  BY <1>1, NoJobTyped DEF Typed, TypeOK, diskVars, sessionVars, historyVars, Job
<1>3. JobEnds(t)
  BY <1>1 DEF JobEnds, Typed, TypeOK
<1>4. JobsInv'
  BY <1>1, <1>3, JobsEnd DEF diskVars
<1>5. \A u \in Thread : pc'[u] = "remove" => pc[u] = "remove" /\ job'[u] = job[u]
  BY <1>3 DEF JobEnds
<1>6. Locks'
  BY <1>1, <1>5, LocksStay DEF diskVars, sessionVars, historyVars
<1> QED BY <1>2, <1>4, <1>6

(* After a save, with the index written or not.                             *)
LEMMA OwnersSaved ==
  ASSUME OwnersInv, NEW t \in Thread, SkipTouch(t) \/ WriteIndex(t)
  PROVE  OwnersInv'
<1> USE DEF OwnersInv
<1>1. /\ UNCHANGED <<lockFile, gen, held, disk, sessionVars, raced, setBack>>
      /\ pc[t] \in {"touch", "prune"} /\ Saved(t)
      /\ wsLock' \in {wsLock, None} /\ index' \in {index, job[t].view}
      /\ listed' \in {listed, listed \cup ToSet(job[t].view)} /\ missed' \subseteq missed
  BY DEF SkipTouch, WriteIndex, diskVars, historyVars
<1>2. /\ \/ JobEnds(t)
         \/ /\ job[t].goal \in {"close", "replace"}
            /\ job' = job /\ pc' = [pc EXCEPT ![t] = "release"]
      /\ pc' \in [Thread -> {"idle", "opened", "write", "touch", "prune", "remove",
                             "release", "join", "armed", "done"}]
      /\ job' \in [Thread -> Job]
  BY <1>1, SavedEffects
<1>3. job[t].view \in Seq(Dir) /\ ToSet(job[t].view) \subseteq Dir
  BY ListOfJob, Elements
<1>4. Typed'
  <2>1. \A u \in Thread : job'[u].dir \in Dir \cup {None} /\ job'[u].turns \in 0..MaxTurns
    BY <1>2 DEF Job
  <2> QED BY <1>1, <1>2, <1>3, <2>1 DEF Typed, TypeOK, sessionVars
<1>5. JobsInv'
  <2>1. CASE JobEnds(t)
    BY <1>1, <2>1, JobsEnd
  <2>2. CASE ~JobEnds(t)
    <3>1. \A u \in Thread : \/ pc'[u] = pc[u] /\ job'[u] = job[u]
                            \/ u = t /\ pc'[u] = "release" /\ job'[u] = job[u]
      BY <1>2, <2>2 DEF Typed, TypeOK
    <3> QED BY <1>1, <1>2, <2>2, <3>1, JobGoesOn
  <2> QED BY <2>1, <2>2
<1>6. \A u \in Thread : pc'[u] = "remove" => pc[u] = "remove" /\ job'[u].todo = job[u].todo
  BY <1>2 DEF JobEnds, Typed, TypeOK
<1>7. Locks'
  BY <1>1, <1>6, LocksStay DEF sessionVars
<1> QED BY <1>4, <1>5, <1>7

(* A step of a process's main thread, which may bring it a new session, and *)
(* may keep a naming thread of it from being called back.                   *)
LEMMA MainStep ==
  ASSUME Typed, JobsInv, NEW p \in Process, SessionsAreHosted',
         \A q \in Process : q # p => /\ pc'[Main(q)] = pc[Main(q)] /\ job'[Main(q)] = job[Main(q)]
                                     /\ live'[q] = live[q],
         \A s \in Session :
           /\ \/ pc'[Naming(s)] = pc[Naming(s)]
              \/ host[s] = p /\ pc'[Naming(s)] = "idle"
           /\ job'[Naming(s)] = job[Naming(s)],
         \A s \in Session : pc[Naming(s)] # "idle" => subdir'[s] = subdir[s],
         \A s \in Session : IF host[s] = None THEN host'[s] \in {None, p} ELSE host'[s] = host[s],
         \A s \in Session : host[s] \notin {None, p} => claimed'[s] = claimed[s] /\ subdir'[s] = subdir[s],
         \A d \in Dir : gen'[d] \in Nat /\ gen'[d] >= gen[d],
         JobIsOwn(Main(p))', MainIsInOrder(p)'
  PROVE  JobsInv'
<1>1. \A u \in Thread : ProcessOf(u) # p => pc'[u] = pc[u] /\ job'[u] = job[u]
  BY Threads, ProcessOfThread
<1>2. StepOf(p)
  BY <1>1 DEF StepOf
<1>3. ASSUME NEW s \in Session, host'[s] = p PROVE JobIsOwn(Naming(s))' /\ NamingIsInOrder(s)'
  <2>1. CASE pc'[Naming(s)] = "idle"
    BY <2>1 DEF JobIsOwn, NamingIsInOrder, ActivePC
  <2>2. CASE pc'[Naming(s)] # "idle"
    <3>1. pc'[Naming(s)] = pc[Naming(s)] /\ host[s] # None
      BY <2>2 DEF JobsInv, SessionsAreHosted
    <3> QED BY <1>3, <3>1, NamingStays
  <2> QED BY <2>1, <2>2
<1> QED BY <1>2, <1>3, ProcessStep DEF InOrder

(* A step of the naming thread of s.                                        *)
LEMMA NamingStep ==
  ASSUME Typed, JobsInv, NEW s \in Session, pc[Naming(s)] # "idle", SessionsAreHosted',
         UNCHANGED <<host, live, subdir>>,
         \A u \in Thread : u # Naming(s) => pc'[u] = pc[u] /\ job'[u] = job[u],
         \A r \in Session : claimed'[r] = claimed[r] \/ (r = s /\ claimed'[r]),
         \A d \in Dir : gen'[d] \in Nat /\ gen'[d] >= gen[d],
         JobIsOwn(Naming(s))', NamingIsInOrder(s)'
  PROVE  JobsInv'
<1>1. host[s] \in Process
  BY DEF JobsInv, SessionsAreHosted, Typed, TypeOK
<1>2. PICK p \in Process : p = host[s]
  BY <1>1
<1>n. p # None
  BY StoreAssumption
<1>3. \A u \in Thread : ProcessOf(u) # p => pc'[u] = pc[u] /\ job'[u] = job[u]
  BY <1>2, ProcessOfThread
<1>4. StepOf(p)
  BY <1>2, <1>3, <1>n DEF StepOf
<1>5. JobIsOwn(Main(p))' /\ MainIsInOrder(p)'
  <2>1. pc'[Main(p)] = pc[Main(p)] /\ job'[Main(p)] = job[Main(p)]
    BY Threads, ThreadsDiffer
  <2>2. \A r \in Session : /\ claimed[r] => claimed'[r]
                           /\ pc[Naming(r)] = "idle" =>
                                pc'[Naming(r)] = "idle" /\ claimed'[r] = claimed[r]
    BY Threads, ThreadsDiffer
  <2> QED BY <2>1, <2>2, MainStays
<1>6. ASSUME NEW r \in Session, host'[r] = p PROVE JobIsOwn(Naming(r))' /\ NamingIsInOrder(r)'
  <2>1. CASE r = s
    BY <2>1
  <2>2. CASE r # s
    <3>1. pc'[Naming(r)] = pc[Naming(r)] /\ job'[Naming(r)] = job[Naming(r)]
      BY <2>2, Threads, ThreadsDiffer
    <3> QED BY <1>6, <3>1, NamingStays
  <2> QED BY <2>1, <2>2
<1> QED BY <1>4, <1>5, <1>6, ProcessStep DEF InOrder

(* A thread opens the lock file of d for session s.                         *)
LEMMA LockOpened ==
  ASSUME Typed, NEW t \in Thread, NEW d \in Dir, NEW s \in Session,
         NEW goal \in {"claim", "restore"}, OpenLock(t, d, s, goal)
  PROVE  /\ lockFile' \in [Dir -> BOOLEAN] /\ gen' \in [Dir -> Nat]
         /\ \A e \in Dir : /\ gen'[e] >= gen[e]
                           /\ lockFile'[e] => gen'[e] > 0
                           /\ lockFile[e] => lockFile'[e] /\ gen'[e] = gen[e]
         /\ pc' = [pc EXCEPT ![t] = "opened"] /\ job' \in [Thread -> Job]
         /\ job'[t].goal = goal /\ job'[t].obj = s /\ job'[t].dir = d
         /\ job'[t].gen = gen'[d] /\ gen'[d] > 0
         /\ \A u \in Thread : u # t => job'[u] = job[u]
<1>1. /\ gen \in [Dir -> Nat] /\ lockFile \in [Dir -> BOOLEAN] /\ job \in [Thread -> Job]
      /\ \A e \in Dir : lockFile[e] => gen[e] > 0
  BY DEF Typed, TypeOK
<1>2. /\ lockFile' = [lockFile EXCEPT ![d] = TRUE]
      /\ gen' = [gen EXCEPT ![d] = IF lockFile[d] THEN gen[d] ELSE gen[d] + 1]
      /\ pc' = [pc EXCEPT ![t] = "opened"]
  BY DEF OpenLock
<1>3. lockFile' \in [Dir -> BOOLEAN] /\ gen' \in [Dir -> Nat] /\ gen'[d] > 0
  BY <1>1, <1>2
<1>4. \A e \in Dir : /\ gen'[e] >= gen[e]
                     /\ lockFile'[e] => gen'[e] > 0
                     /\ lockFile[e] => lockFile'[e] /\ gen'[e] = gen[e]
  BY <1>1, <1>2
<1>5. PICK g \in Nat : g = gen'[d]
  BY <1>3
<1> DEFINE r == [NoJob EXCEPT !.goal = goal, !.obj = s, !.dir = d, !.gen = g]
<1>6. job' = [job EXCEPT ![t] = r]
  BY <1>5 DEF OpenLock
<1>z. 0 \in 0..MaxTurns
  BY StoreAssumption
<1>7. r \in Job /\ r.goal = goal /\ r.obj = s /\ r.dir = d /\ r.gen = g
  BY <1>z, NoJobTyped DEF Job
<1> HIDE DEF r
<1> QED BY <1>1, <1>2, <1>3, <1>4, <1>5, <1>6, <1>7

(* A thread is about to save session s.                                     *)
LEMMA SaveBegun ==
  ASSUME Typed, NEW t \in Thread, NEW s \in Session, subdir'[s] \in Dir, turns'[s] \in 0..MaxTurns,
         NEW goal \in {"claim", "save", "close", "replace"}, Saving(t, s, goal)
  PROVE  /\ pc' = [pc EXCEPT ![t] = "write"] /\ job' \in [Thread -> Job]
         /\ job'[t].goal = goal /\ job'[t].obj = s /\ job'[t].dir = subdir'[s]
         /\ job'[t].turns = turns'[s]
         /\ \A u \in Thread : u # t => job'[u] = job[u]
<1>1. PICK d \in Dir, n \in 0..MaxTurns : d = subdir'[s] /\ n = turns'[s]
  OBVIOUS
<1> DEFINE r == [NoJob EXCEPT !.goal = goal, !.obj = s, !.dir = d, !.turns = n]
<1>2. pc' = [pc EXCEPT ![t] = "write"] /\ job' = [job EXCEPT ![t] = r]
  BY <1>1 DEF Saving
<1>3. r \in Job /\ r.goal = goal /\ r.obj = s /\ r.dir = d /\ r.turns = n
  BY NoJobTyped DEF Job
<1>4. job \in [Thread -> Job]
  BY DEF Typed
<1> HIDE DEF r
<1> QED BY <1>1, <1>2, <1>3, <1>4

(* A session object is made: its number is the next.                        *)
LEMMA SessionMade ==
  ASSUME Typed, JobsInv, NEW p \in Process, MakeSession(p)
  PROVE  /\ opened + 1 \in Session /\ host[opened + 1] = None /\ opened + 1 # 0
         /\ pc[Naming(opened + 1)] = "idle" /\ subdir[opened + 1] = None /\ ~claimed[opened + 1]
         /\ live[p] # opened + 1 /\ opened' \in 0..MaxSessions
         /\ host' \in [Session -> Process \cup {None}] /\ host'[opened + 1] = p
         /\ \A r \in Session : r # opened + 1 => host'[r] = host[r]
         /\ \A r \in Session : host'[r] # None <=> r <= opened'
         /\ \A r \in Session : host'[r] = p => r <= opened + 1
<1>1. opened \in 0..MaxSessions /\ opened < MaxSessions /\ MaxSessions \in Nat
  BY StoreAssumption DEF Typed, TypeOK, MakeSession
<1>2. opened + 1 \in Session /\ opened + 1 # 0 /\ opened + 1 \in 0..MaxSessions /\ ~(opened + 1 <= opened)
  BY <1>1 DEF Session
<1>3. opened' = opened + 1 /\ host' = [host EXCEPT ![opened + 1] = p]
  BY DEF MakeSession
<1>4. host[opened + 1] = None
  BY <1>2 DEF JobsInv, SessionsAreHosted
<1>n. p # None /\ None \notin Dir
  BY StoreAssumption
<1>5. /\ pc[Naming(opened + 1)] = "idle" /\ subdir[opened + 1] = None /\ ~claimed[opened + 1]
      /\ live[p] # opened + 1
  BY <1>2, <1>4, <1>n DEF JobsInv, SessionsAreHosted, Typed, TypeOK
<1>6. host' \in [Session -> Process \cup {None}]
  BY <1>3 DEF Typed, TypeOK
<1>7. host'[opened + 1] = p /\ \A r \in Session : r # opened + 1 => host'[r] = host[r]
  BY <1>2, <1>3 DEF Typed, TypeOK
<1>8. \A r \in Session : r # opened + 1 => (r <= opened' <=> r <= opened)
  BY <1>1, <1>3 DEF Session
<1>9. \A r \in Session : host'[r] # None <=> r <= opened'
  <2>1. \A r \in Session : host[r] # None <=> r <= opened
    BY DEF JobsInv, SessionsAreHosted
  <2>2. opened + 1 <= opened'
    BY <1>1, <1>3
  <2> QED BY <1>7, <1>8, <1>n, <2>1, <2>2
<1>10. \A r \in Session : host'[r] = p => r <= opened + 1
  BY <1>3, <1>9, <1>n
<1> QED BY <1>2, <1>3, <1>4, <1>5, <1>6, <1>7, <1>9, <1>10

LEMMA OwnersFirstTurn ==
  ASSUME OwnersInv, NEW p \in Process, NEW d \in Dir, FirstTurn(p, d)
  PROVE  OwnersInv'
<1> USE DEF OwnersInv
<1>a. MakeSession(p)
  BY DEF FirstTurn
<1>b. opened + 1 \in Session
  BY <1>a, SessionMade
<1>s. PICK s \in Session : s = opened + 1
  BY <1>b
<1>1. /\ host[s] = None /\ s # 0 /\ pc[Naming(s)] = "idle" /\ subdir[s] = None /\ ~claimed[s]
      /\ opened' \in 0..MaxSessions /\ host' \in [Session -> Process \cup {None}] /\ host'[s] = p
      /\ \A r \in Session : r # s => host'[r] = host[r]
      /\ \A r \in Session : host'[r] # None <=> r <= opened'
  BY <1>a, <1>s, SessionMade
<1>2. /\ UNCHANGED <<held, disk, index, wsLock, claimed, listed, raced, missed, setBack>>
      /\ live' = [live EXCEPT ![p] = s] /\ subdir' = [subdir EXCEPT ![s] = d]
      /\ turns' = [turns EXCEPT ![s] = 1] /\ OpenLock(Main(p), d, s, "claim")
      /\ pc[Main(p)] = "idle" /\ live[p] = 0
  BY <1>s DEF FirstTurn, Idle, historyVars
<1>t. Main(p) \in Thread
  BY Threads
<1>3. /\ lockFile' \in [Dir -> BOOLEAN] /\ gen' \in [Dir -> Nat]
      /\ \A e \in Dir : /\ gen'[e] >= gen[e]
                        /\ lockFile'[e] => gen'[e] > 0
                        /\ lockFile[e] => lockFile'[e] /\ gen'[e] = gen[e]
      /\ pc' = [pc EXCEPT ![Main(p)] = "opened"] /\ job' \in [Thread -> Job]
      /\ job'[Main(p)].goal = "claim" /\ job'[Main(p)].obj = s /\ job'[Main(p)].dir = d
      /\ job'[Main(p)].gen = gen'[d] /\ gen'[d] > 0
      /\ \A u \in Thread : u # Main(p) => job'[u] = job[u]
  BY <1>2, <1>t, LockOpened
<1>4. Typed'
  <2>1. 1 \in 0..MaxTurns /\ s \in 0..MaxSessions
    BY StoreAssumption DEF Session
  <2>2. \A u \in Thread : job'[u].dir \in Dir \cup {None} /\ job'[u].turns \in 0..MaxTurns
    BY <1>3 DEF Job
  <2> QED BY <1>1, <1>2, <1>3, <2>1, <2>2 DEF Typed, TypeOK
<1>5. /\ pc'[Main(p)] = "opened" /\ \A u \in Thread : u # Main(p) => pc'[u] = pc[u]
      /\ live'[p] = s /\ \A q \in Process : q # p => live'[q] = live[q]
      /\ subdir'[s] = d /\ \A r \in Session : r # s => subdir'[r] = subdir[r]
  BY <1>2, <1>3, <1>t DEF Typed, TypeOK
<1>n. p # None /\ None \notin Dir
  BY StoreAssumption
<1>6. SessionsAreHosted'
  <2>1. \A e \in Dir : gen[e] > 0 => gen'[e] > 0
    BY <1>3 DEF Typed, TypeOK
  <2>2. \A r \in Session : pc'[Naming(r)] = pc[Naming(r)]
    BY <1>5, Threads, ThreadsDiffer
  <2>3. \A r \in Session : host'[r] = None => pc'[Naming(r)] = "idle"
    BY <1>1, <1>n, <2>2 DEF JobsInv, SessionsAreHosted
  <2>4. \A q \in Process : live'[q] # 0 => host'[live'[q]] = q
    <3> SUFFICES ASSUME NEW q \in Process, q # p, live[q] # 0 PROVE host'[live[q]] = q
      BY <1>1, <1>5
    <3>1. host[live[q]] = q /\ q # None /\ live[q] \in Session
      BY StoreAssumption DEF JobsInv, SessionsAreHosted, Typed, TypeOK, Session
    <3> QED BY <1>1, <3>1
  <2>5. \A r \in Session : /\ claimed'[r] => subdir'[r] \in Dir
                           /\ subdir'[r] \in Dir => host'[r] # None /\ gen'[subdir'[r]] > 0
    <3> SUFFICES ASSUME NEW r \in Session
                 PROVE  /\ claimed'[r] => subdir'[r] \in Dir
                        /\ subdir'[r] \in Dir => host'[r] # None /\ gen'[subdir'[r]] > 0
      OBVIOUS
    <3>1. CASE r = s
      BY <1>1, <1>3, <1>5, <1>n, <3>1
    <3>2. CASE r # s
      BY <1>1, <1>2, <1>5, <2>1, <3>2 DEF JobsInv, SessionsAreHosted
    <3> QED BY <3>1, <3>2
  <2>6. \A r \in Session : host'[r] # None <=> r <= opened'
    BY <1>1
  <2> QED BY <2>3, <2>4, <2>5, <2>6 DEF SessionsAreHosted
<1>7. JobsInv'
  <2>1. pc'[Naming(s)] = "idle"
    BY <1>1, <1>5, Threads, ThreadsDiffer
  <2>2. JobIsOwn(Main(p))'
    <3>1. gen'[d] \in Nat /\ gen'[d] <= gen'[d]
      BY <1>3
    <3> QED BY <1>3, <1>5, <3>1 DEF JobIsOwn, ActivePC
  <2>3. MainIsInOrder(p)'
    BY <1>1, <1>3, <1>5, <2>1 DEF MainIsInOrder, ActivePC
  <2>4. \A q \in Process : q # p => /\ pc'[Main(q)] = pc[Main(q)] /\ job'[Main(q)] = job[Main(q)]
                                    /\ live'[q] = live[q]
    BY <1>3, <1>5, Threads, ThreadsDiffer
  <2>5. \A r \in Session : pc'[Naming(r)] = pc[Naming(r)] /\ job'[Naming(r)] = job[Naming(r)]
    BY <1>3, <1>5, Threads, ThreadsDiffer
  <2>6. \A r \in Session : pc[Naming(r)] # "idle" => subdir'[r] = subdir[r]
    BY <1>1, <1>5
  <2>7. \A r \in Session : IF host[r] = None THEN host'[r] \in {None, p} ELSE host'[r] = host[r]
    BY <1>1
  <2>8. \A r \in Session : host[r] \notin {None, p} => claimed'[r] = claimed[r] /\ subdir'[r] = subdir[r]
    BY <1>1, <1>2, <1>5
  <2>9. \A e \in Dir : gen'[e] \in Nat /\ gen'[e] >= gen[e]
    BY <1>3
  <2> QED BY <1>6, <2>2, <2>3, <2>4, <2>5, <2>6, <2>7, <2>8, <2>9, MainStep
<1>8. Locks'
  <2>1. \A r \in Session : claimed'[r] => claimed[r] /\ subdir'[r] = subdir[r]
    BY <1>1, <1>2, <1>5
  <2>2. \A u \in Thread : pc'[u] = "remove" => pc[u] = "remove" /\ job'[u].todo = job[u].todo
    BY <1>3, <1>5
  <2> QED BY <1>2, <1>3, <2>1, <2>2, LocksStay
<1> QED BY <1>4, <1>7, <1>8

LEMMA OwnersRestore ==
  ASSUME OwnersInv, NEW p \in Process, NEW d \in Dir, Restore(p, d)
  PROVE  OwnersInv'
<1> USE DEF OwnersInv
<1>a. MakeSession(p)
  BY DEF Restore
<1>b. opened + 1 \in Session
  BY <1>a, SessionMade
<1>s. PICK s \in Session : s = opened + 1
  BY <1>b
<1>1. /\ host[s] = None /\ s # 0 /\ pc[Naming(s)] = "idle" /\ subdir[s] = None /\ ~claimed[s]
      /\ live[p] # s
      /\ opened' \in 0..MaxSessions /\ host' \in [Session -> Process \cup {None}] /\ host'[s] = p
      /\ \A r \in Session : r # s => host'[r] = host[r]
      /\ \A r \in Session : host'[r] # None <=> r <= opened'
      /\ \A r \in Session : host'[r] = p => r <= s
  BY <1>a, <1>s, SessionMade
<1>2. /\ UNCHANGED <<held, disk, index, wsLock, live, subdir, claimed, turns, listed, raced, missed, setBack>>
      /\ OpenLock(Main(p), d, s, "restore") /\ pc[Main(p)] = "idle"
  BY <1>s DEF Restore, Idle, historyVars
<1>t. Main(p) \in Thread
  BY Threads
<1>3. /\ lockFile' \in [Dir -> BOOLEAN] /\ gen' \in [Dir -> Nat]
      /\ \A e \in Dir : /\ gen'[e] >= gen[e]
                        /\ lockFile'[e] => gen'[e] > 0
                        /\ lockFile[e] => lockFile'[e] /\ gen'[e] = gen[e]
      /\ pc' = [pc EXCEPT ![Main(p)] = "opened"] /\ job' \in [Thread -> Job]
      /\ job'[Main(p)].goal = "restore" /\ job'[Main(p)].obj = s /\ job'[Main(p)].dir = d
      /\ job'[Main(p)].gen = gen'[d] /\ gen'[d] > 0
      /\ \A u \in Thread : u # Main(p) => job'[u] = job[u]
  BY <1>2, <1>t, LockOpened
<1>4. Typed'
  <2>2. \A u \in Thread : job'[u].dir \in Dir \cup {None} /\ job'[u].turns \in 0..MaxTurns
    BY <1>3 DEF Job
  <2> QED BY <1>1, <1>2, <1>3, <2>2 DEF Typed, TypeOK
<1>5. pc'[Main(p)] = "opened" /\ \A u \in Thread : u # Main(p) => pc'[u] = pc[u]
  BY <1>2, <1>3, <1>t DEF Typed, TypeOK
<1>n. p # None /\ None \notin Dir
  BY StoreAssumption
<1>6. SessionsAreHosted'
  <2>1. \A e \in Dir : gen[e] > 0 => gen'[e] > 0
    BY <1>3 DEF Typed, TypeOK
  <2>2. \A r \in Session : pc'[Naming(r)] = pc[Naming(r)]
    BY <1>5, Threads, ThreadsDiffer
  <2>3. \A r \in Session : host'[r] = None => pc'[Naming(r)] = "idle"
    BY <1>1, <1>n, <2>2 DEF JobsInv, SessionsAreHosted
  <2>4. \A q \in Process : live'[q] # 0 => host'[live'[q]] = q
    <3> SUFFICES ASSUME NEW q \in Process, live[q] # 0 PROVE host'[live[q]] = q
      BY <1>2
    <3>1. host[live[q]] = q /\ q # None /\ live[q] \in Session
      BY StoreAssumption DEF JobsInv, SessionsAreHosted, Typed, TypeOK, Session
    <3> QED BY <1>1, <3>1
  <2>5. \A r \in Session : /\ claimed'[r] => subdir'[r] \in Dir
                           /\ subdir'[r] \in Dir => host'[r] # None /\ gen'[subdir'[r]] > 0
    BY <1>1, <1>2, <1>n, <2>1 DEF JobsInv, SessionsAreHosted
  <2>6. \A r \in Session : host'[r] # None <=> r <= opened'
    BY <1>1
  <2> QED BY <2>3, <2>4, <2>5, <2>6 DEF SessionsAreHosted
<1>7. JobsInv'
  <2>1. pc'[Naming(s)] = "idle"
    BY <1>1, <1>5, Threads, ThreadsDiffer
  <2>2. JobIsOwn(Main(p))'
    <3>1. gen'[d] \in Nat /\ gen'[d] <= gen'[d]
      BY <1>3
    <3> QED BY <1>1, <1>2, <1>3, <1>5, <3>1 DEF JobIsOwn, ActivePC
  <2>i. IsNewest(p, s)'
    BY <1>1 DEF IsNewest
  <2>3. MainIsInOrder(p)'
    BY <1>1, <1>2, <1>3, <1>5, <2>1, <2>i DEF MainIsInOrder, ActivePC
  <2>4. \A q \in Process : q # p => /\ pc'[Main(q)] = pc[Main(q)] /\ job'[Main(q)] = job[Main(q)]
                                    /\ live'[q] = live[q]
    BY <1>2, <1>3, <1>5, Threads, ThreadsDiffer
  <2>5. \A r \in Session : pc'[Naming(r)] = pc[Naming(r)] /\ job'[Naming(r)] = job[Naming(r)]
    BY <1>3, <1>5, Threads, ThreadsDiffer
  <2>7. \A r \in Session : IF host[r] = None THEN host'[r] \in {None, p} ELSE host'[r] = host[r]
    BY <1>1
  <2>9. \A e \in Dir : gen'[e] \in Nat /\ gen'[e] >= gen[e]
    BY <1>3
  <2> QED BY <1>2, <1>6, <2>2, <2>3, <2>4, <2>5, <2>7, <2>9, MainStep
<1>8. Locks'
  <2>2. \A u \in Thread : pc'[u] = "remove" => pc[u] = "remove" /\ job'[u].todo = job[u].todo
    BY <1>3, <1>5
  <2> QED BY <1>2, <1>3, <2>2, LocksStay
<1> QED BY <1>4, <1>7, <1>8

(* A save of the live session, at the end of a turn or of the session.      *)
LEMMA OwnersSave ==
  ASSUME OwnersInv, NEW p \in Process, Turn(p) \/ Close(p)
  PROVE  OwnersInv'
<1> USE DEF OwnersInv
<1>a. live[p] \in Session /\ host[live[p]] = p /\ claimed[live[p]] /\ subdir[live[p]] \in Dir
  BY DEF Turn, Close, HasClaim, JobsInv, SessionsAreHosted, Typed, TypeOK, Session
<1>s. PICK s \in Session : s = live[p]
  BY <1>a
<1>g. PICK goal \in {"save", "close"} : Saving(Main(p), s, goal)
  BY <1>s DEF Turn, Close
<1>1. /\ UNCHANGED <<lockFile, gen, held, disk, index, wsLock, subdir, opened, host, live, claimed,
                     listed, raced, missed, setBack>>
      /\ pc[Main(p)] = "idle" /\ turns' \in [Session -> 0..MaxTurns]
  <2>1. turns[s] < MaxTurns => turns[s] + 1 \in 0..MaxTurns
    BY StoreAssumption DEF Typed, TypeOK
  <2>2. Relayed(s) \subseteq 0..MaxTurns
    BY DEF Relayed
  <2>3. turns' \in [Session -> 0..MaxTurns]
    BY <1>s, <2>1, <2>2 DEF Turn, Close, Typed, TypeOK
  <2> QED BY <2>3 DEF Turn, Close, Idle, diskVars, historyVars
<1>t. Main(p) \in Thread
  BY Threads
<1>2. /\ pc' = [pc EXCEPT ![Main(p)] = "write"] /\ job' \in [Thread -> Job]
      /\ job'[Main(p)].goal = goal /\ job'[Main(p)].obj = s /\ job'[Main(p)].dir = subdir'[s]
      /\ \A u \in Thread : u # Main(p) => job'[u] = job[u]
  <2>1. subdir'[s] \in Dir /\ turns'[s] \in 0..MaxTurns /\ goal \in {"claim", "save", "close", "replace"}
    BY <1>1, <1>a, <1>s
  <2> QED BY <1>g, <1>t, <2>1, SaveBegun
<1>4. Typed'
  <2>2. \A u \in Thread : job'[u].dir \in Dir \cup {None} /\ job'[u].turns \in 0..MaxTurns
    BY <1>2 DEF Job
  <2> QED BY <1>1, <1>2, <2>2 DEF Typed, TypeOK
<1>5. pc'[Main(p)] = "write" /\ \A u \in Thread : u # Main(p) => pc'[u] = pc[u]
  BY <1>2, <1>t DEF Typed, TypeOK
<1>6. SessionsAreHosted'
  <2>1. \A r \in Session : pc'[Naming(r)] = pc[Naming(r)]
    BY <1>5, Threads, ThreadsDiffer
  <2> QED BY <1>1, <2>1 DEF JobsInv, SessionsAreHosted
<1>7. JobsInv'
  <2>2. JobIsOwn(Main(p))'
    BY <1>1, <1>2, <1>5, <1>a, <1>s DEF JobIsOwn, ActivePC
  <2>3. MainIsInOrder(p)'
    BY <1>1, <1>2, <1>5, <1>a, <1>s DEF MainIsInOrder, ActivePC
  <2>4. \A q \in Process : q # p => pc'[Main(q)] = pc[Main(q)] /\ job'[Main(q)] = job[Main(q)]
    BY <1>2, <1>5, Threads, ThreadsDiffer
  <2>5. \A r \in Session : pc'[Naming(r)] = pc[Naming(r)] /\ job'[Naming(r)] = job[Naming(r)]
    BY <1>2, <1>5, Threads, ThreadsDiffer
  <2>9. \A e \in Dir : gen'[e] \in Nat /\ gen'[e] >= gen[e]
    BY <1>1 DEF Typed, TypeOK
  <2>h. \A r \in Session : IF host[r] = None THEN host'[r] \in {None, p} ELSE host'[r] = host[r]
    BY <1>1
  <2> QED BY <1>1, <1>6, <2>2, <2>3, <2>4, <2>5, <2>9, <2>h, MainStep
<1>8. Locks'
  <2>2. \A u \in Thread : pc'[u] = "remove" => pc[u] = "remove" /\ job'[u].todo = job[u].todo
    BY <1>2, <1>5
  <2> QED BY <1>1, <2>2, LocksStay
<1> QED BY <1>4, <1>7, <1>8

LEMMA OwnersClaim ==
  ASSUME OwnersInv, NEW t \in Thread, Claim(t)
  PROVE  OwnersInv'
<1> USE DEF OwnersInv
<1>a. /\ pc[t] = "opened" /\ pc[t] # "idle" /\ pc[t] \in ActivePC
      /\ job[t].goal = "claim" /\ Lock(t) /\ Saving(t, job[t].obj, "claim")
      /\ UNCHANGED <<live, subdir, turns, lockFile, gen, disk, index, wsLock, opened, host,
                     listed, missed, setBack>>
  BY DEF Claim, Lock, ActivePC
<1>b. /\ JobIsOwn(t) /\ job[t].obj \in Session /\ job[t].dir \in Dir /\ subdir[job[t].obj] = job[t].dir
  BY <1>a, WorkerInOrder DEF JobIsOwn
<1>s. PICK s \in Session, d \in Dir : s = job[t].obj /\ d = job[t].dir
  BY <1>b
<1>1. /\ claimed' = [claimed EXCEPT ![s] = TRUE] /\ raced' \subseteq raced \cup {d}
      /\ held' = held \cup {<<d, job[t].gen, s>>} /\ job[t].gen \in Nat /\ subdir[s] = d
  BY <1>a, <1>b, <1>s DEF Lock, Typed, Job
<1>2. /\ pc' = [pc EXCEPT ![t] = "write"] /\ job' \in [Thread -> Job]
      /\ job'[t].goal = "claim" /\ job'[t].obj = s /\ job'[t].dir = d
      /\ \A u \in Thread : u # t => job'[u] = job[u]
  <2>1. subdir'[s] = d /\ subdir'[s] \in Dir /\ turns'[s] \in 0..MaxTurns
    BY <1>a, <1>1 DEF Typed, TypeOK
  <2> QED BY <1>a, <1>s, <2>1, SaveBegun
<1>3. pc'[t] = "write" /\ \A u \in Thread : u # t => pc'[u] = pc[u]
  BY <1>2 DEF Typed, TypeOK
<1>4. Typed'
  <2>2. \A u \in Thread : job'[u].dir \in Dir \cup {None} /\ job'[u].turns \in 0..MaxTurns
    BY <1>2 DEF Job
  <2> QED BY <1>1, <1>2, <1>a, <2>2 DEF Typed, TypeOK
<1>5. claimed'[s] /\ \A r \in Session : r # s => claimed'[r] = claimed[r]
  BY <1>1 DEF Typed, TypeOK
<1>6. SessionsAreHosted'
  <2>1. \A r \in Session : pc'[Naming(r)] = "idle" <=> pc[Naming(r)] = "idle"
    BY <1>3, <1>a, Threads
  <2> QED BY <1>1, <1>5, <1>a, <2>1 DEF JobsInv, SessionsAreHosted
<1>7. JobsInv'
  <2>1. JobIsOwn(t)'
    BY <1>1, <1>2, <1>3, <1>a DEF JobIsOwn
  <2>g. \A e \in Dir : gen'[e] \in Nat /\ gen'[e] >= gen[e]
    BY <1>a DEF Typed, TypeOK
  <2>2. ASSUME NEW p \in Process, t = Main(p), MainIsInOrder(p) PROVE JobsInv'
    <3>1. host[s] = p /\ s = live[p] /\ pc[Naming(s)] = "idle"
      BY <1>a, <1>s, <2>2 DEF MainIsInOrder
    <3>2. pc'[Naming(s)] = "idle"
      BY <1>3, <2>2, <3>1, Threads, ThreadsDiffer
    <3>3. MainIsInOrder(p)'
      BY <1>2, <1>3, <1>5, <1>a, <2>2, <3>1, <3>2 DEF MainIsInOrder
    <3>4. \A q \in Process : q # p => pc'[Main(q)] = pc[Main(q)] /\ job'[Main(q)] = job[Main(q)]
      BY <1>2, <1>3, <2>2, Threads, ThreadsDiffer
    <3>5. \A r \in Session : pc'[Naming(r)] = pc[Naming(r)] /\ job'[Naming(r)] = job[Naming(r)]
      BY <1>2, <1>3, <2>2, Threads, ThreadsDiffer
    <3>6. \A r \in Session : /\ IF host[r] = None THEN host'[r] \in {None, p} ELSE host'[r] = host[r]
                             /\ host[r] \notin {None, p} => claimed'[r] = claimed[r]
      BY <1>5, <1>a, <3>1
    <3>7. JobIsOwn(Main(p))'
      BY <2>1, <2>2
    <3> QED BY <1>6, <1>a, <2>g, <3>3, <3>4, <3>5, <3>6, <3>7, MainStep
  <2>3. ASSUME NEW r \in Session, t = Naming(r), NamingIsInOrder(r) PROVE JobsInv'
    <3>1. r = s /\ subdir[s] \in Dir
      BY <1>1, <1>a, <1>s, <2>3 DEF NamingIsInOrder
    <3>2. JobIsOwn(Naming(s))' /\ NamingIsInOrder(s)' /\ pc[Naming(s)] # "idle"
      BY <1>2, <1>3, <1>a, <2>1, <2>3, <3>1 DEF NamingIsInOrder
    <3>3. \A u \in Thread : u # Naming(s) => pc'[u] = pc[u] /\ job'[u] = job[u]
      BY <1>2, <1>3, <2>3, <3>1
    <3>4. \A q \in Session : claimed'[q] = claimed[q] \/ (q = s /\ claimed'[q])
      BY <1>5
    <3> QED BY <1>6, <1>a, <2>g, <3>2, <3>3, <3>4, NamingStep
  <2> QED BY <1>a, <2>2, <2>3, WorkerInOrder
<1>8. Locks'
  <2>1. subdir'[job[t].obj] = job[t].dir /\ \A r \in Session : subdir'[r] = subdir[r]
    BY <1>a, <1>b
  <2>2. \A u \in Thread : pc'[u] = "remove" => pc[u] = "remove" /\ job'[u].todo = job[u].todo
    BY <1>2, <1>3
  <2> QED BY <1>4, <1>a, <1>b, <2>1, <2>2, LockTaken
<1> QED BY <1>4, <1>7, <1>8

LEMMA OwnersAdopt ==
  ASSUME OwnersInv, NEW t \in Thread, Adopt(t)
  PROVE  OwnersInv'
<1> USE DEF OwnersInv
<1>a. /\ pc[t] = "opened" /\ pc[t] # "idle" /\ pc[t] \in ActivePC
      /\ job[t].goal = "restore" /\ Lock(t) /\ subdir' = [subdir EXCEPT ![job[t].obj] = job[t].dir]
      /\ UNCHANGED <<lockFile, gen, disk, index, wsLock, opened, host, listed, missed, setBack>>
  BY DEF Adopt, Lock, ActivePC
<1>b. /\ JobIsOwn(t) /\ job[t].obj \in Session /\ job[t].dir \in Dir /\ subdir[job[t].obj] = None
      /\ job[t].gen \in Nat /\ job[t].gen > 0 /\ job[t].gen <= gen[job[t].dir]
  BY <1>a, WorkerInOrder DEF JobIsOwn, Typed, Job
<1>p. PICK p \in Process : t = Main(p) /\ MainIsInOrder(p)
  BY <1>a, WorkerInOrder DEF NamingIsInOrder
<1>s. PICK s \in Session, d \in Dir : s = job[t].obj /\ d = job[t].dir
  BY <1>b
<1>1. /\ claimed' = [claimed EXCEPT ![s] = TRUE] /\ raced' \subseteq raced \cup {d}
      /\ held' = held \cup {<<d, job[t].gen, s>>} /\ subdir' = [subdir EXCEPT ![s] = d]
  BY <1>a, <1>s DEF Lock
<1>2. /\ host[s] = p /\ IsNewest(p, s) /\ s # live[p] /\ pc[Naming(s)] = "idle" /\ ~claimed[s]
  BY <1>a, <1>p, <1>s DEF MainIsInOrder
<1>3. /\ claimed'[s] /\ \A r \in Session : r # s => claimed'[r] = claimed[r]
      /\ subdir'[s] = d /\ \A r \in Session : r # s => subdir'[r] = subdir[r]
  BY <1>1 DEF Typed, TypeOK
<1>t. ProcessOf(t) = p /\ t[2] = "main"
  BY <1>p, ProcessOfThread, Threads
<1>l. turns' \in [Session -> 0..MaxTurns]
  <2>1. Loaded(d) \in 0..MaxTurns
    BY DEF Loaded, Typed, TypeOK
  <2>2. \A r \in Session : Relayed(r) \subseteq 0..MaxTurns
    BY DEF Relayed
  <2>3. \/ turns' = [turns EXCEPT ![s] = Loaded(d)]
        \/ \E n \in Relayed(live[p]) : turns' = [turns EXCEPT ![s] = Loaded(d), ![live[p]] = n]
    BY <1>s, <1>t DEF Adopt
  <2>4. Relayed(live[p]) \subseteq 0..MaxTurns
    BY DEF Relayed
  <2>5. \A n \in 0..MaxTurns : [turns EXCEPT ![s] = Loaded(d), ![live[p]] = n] \in [Session -> 0..MaxTurns]
    BY <2>1 DEF Typed, TypeOK
  <2>6. [turns EXCEPT ![s] = Loaded(d)] \in [Session -> 0..MaxTurns]
    BY <2>1 DEF Typed, TypeOK
  <2> HIDE DEF OwnersInv
  <2> QED BY <2>3, <2>4, <2>5, <2>6
<1>4. /\ job' \in [Thread -> Job] /\ \A u \in Thread : u # t => job'[u] = job[u] /\ pc'[u] = pc[u]
      /\ \/ /\ HasClaim(p) /\ live' = live /\ pc' = [pc EXCEPT ![t] = "write"]
            /\ job'[t].goal = "replace" /\ job'[t].obj = live[p] /\ job'[t].dir = subdir'[live[p]]
            /\ live[p] \in Session /\ subdir[live[p]] \in Dir
         \/ ~HasClaim(p) /\ live' = [live EXCEPT ![p] = s] /\ pc' = [pc EXCEPT ![t] = "idle"]
  <2>1. CASE HasClaim(p)
    <3>1. UNCHANGED live /\ Saving(t, live[p], "replace")
      BY <1>t, <2>1 DEF Adopt
    <3>2. live[p] \in Session /\ subdir[live[p]] \in Dir
      BY <2>1 DEF HasClaim, JobsInv, SessionsAreHosted, Typed, TypeOK, Session
    <3>3. PICK o \in Session : o = live[p]
      BY <3>2
    <3>4. subdir'[o] \in Dir /\ turns'[o] \in 0..MaxTurns /\ subdir[o] \in Dir
      BY <1>2, <1>3, <1>l, <3>2, <3>3
    <3>5. "replace" \in {"claim", "save", "close", "replace"} /\ Saving(t, o, "replace")
      BY <3>1, <3>3
    <3>6. /\ pc' = [pc EXCEPT ![t] = "write"] /\ job' \in [Thread -> Job]
          /\ job'[t].goal = "replace" /\ job'[t].obj = o /\ job'[t].dir = subdir'[o]
          /\ \A u \in Thread : u # t => job'[u] = job[u]
      BY <3>4, <3>5, SaveBegun
    <3>7. \A u \in Thread : u # t => pc'[u] = pc[u]
      BY <3>6 DEF Typed, TypeOK
    <3> QED BY <2>1, <3>1, <3>3, <3>4, <3>6, <3>7
  <2>2. CASE ~HasClaim(p)
    <3>1. live' = [live EXCEPT ![p] = s] /\ Finish(t)
      BY <1>s, <1>t, <2>2 DEF Adopt
    <3>2. job' = [job EXCEPT ![t] = NoJob] /\ pc' = [pc EXCEPT ![t] = "idle"]
      BY <1>t, <3>1 DEF Finish
    <3>3. job' \in [Thread -> Job] /\ \A u \in Thread : u # t => job'[u] = job[u] /\ pc'[u] = pc[u]
      BY <3>2, NoJobTyped DEF Typed, TypeOK
    <3> QED BY <2>2, <3>1, <3>2, <3>3
  <2> QED BY <2>1, <2>2
<1>5. Typed'
  <2>2. \A u \in Thread : job'[u].dir \in Dir \cup {None} /\ job'[u].turns \in 0..MaxTurns
    BY <1>4 DEF Job
  <2>5. live \in [Process -> 0..MaxSessions] /\ s \in 0..MaxSessions
    BY DEF Typed, TypeOK, Session
  <2>6. live' \in [Process -> 0..MaxSessions]
    BY <1>4, <2>5
  <2>3. pc' \in [Thread -> {"idle", "opened", "write", "touch", "prune", "remove",
                            "release", "join", "armed", "done"}]
    BY <1>4 DEF Typed, TypeOK
  <2>4. held' \subseteq Dir \X Nat \X Session /\ claimed' \in [Session -> BOOLEAN]
        /\ subdir' \in [Session -> Dir \cup {None}] /\ raced' \subseteq Dir
    BY <1>1, <1>b, <1>s DEF Typed, TypeOK
  <2> QED BY <1>4, <1>a, <1>l, <2>2, <2>3, <2>4, <2>6 DEF Typed, TypeOK
<1>6. SessionsAreHosted'
  <2>1. \A r \in Session : pc'[Naming(r)] = pc[Naming(r)]
    BY <1>4, <1>p, Threads, ThreadsDiffer
  <2>2. \A q \in Process : live'[q] # 0 => host[live'[q]] = q
    <3>1. live \in [Process -> 0..MaxSessions] /\ \A q \in Process : live[q] # 0 => host[live[q]] = q
      BY DEF JobsInv, SessionsAreHosted, Typed, TypeOK
    <3>2. live' = live \/ live' = [live EXCEPT ![p] = s]
      BY <1>4
    <3> HIDE DEF OwnersInv
    <3> QED BY <1>2, <3>1, <3>2
  <2>3. gen[d] > 0 /\ host[s] # None
    <3>1. gen[d] \in Nat /\ p # None
      BY StoreAssumption DEF Typed, TypeOK
    <3> QED BY <1>2, <1>b, <1>s, <3>1
  <2>4. \A r \in Session : /\ claimed'[r] => subdir'[r] \in Dir
                           /\ subdir'[r] \in Dir => host[r] # None /\ gen[subdir'[r]] > 0
    BY <1>3, <2>3 DEF JobsInv, SessionsAreHosted
  <2> QED BY <1>a, <2>1, <2>2, <2>4 DEF JobsInv, SessionsAreHosted
<1>7. JobsInv'
  <2>1. JobIsOwn(Main(p))' /\ MainIsInOrder(p)'
    <3>1. CASE HasClaim(p)
      <4>1. /\ live' = live /\ pc'[t] = "write" /\ job'[t].goal = "replace" /\ job'[t].obj = live[p]
            /\ live[p] \in Session /\ subdir[live[p]] \in Dir /\ job'[t].dir = subdir'[live[p]]
            /\ claimed[live[p]] /\ host[live[p]] = p
        BY <1>4, <3>1 DEF HasClaim, JobsInv, SessionsAreHosted, Typed, TypeOK
      <4>2. claimed'[live[p]] /\ subdir'[live[p]] = subdir[live[p]]
        BY <1>2, <1>3, <4>1
      <4>3. IsNewest(p, s)' /\ pc'[Naming(s)] = "idle"
        BY <1>2, <1>4, <1>a, <1>p, Threads, ThreadsDiffer DEF IsNewest
      <4>4. JobIsOwn(Main(p))'
        BY <1>p, <4>1, <4>2 DEF JobIsOwn
      <4>5. MainIsInOrder(p)'
        BY <1>2, <1>3, <1>a, <1>p, <4>1, <4>2, <4>3 DEF MainIsInOrder
      <4> QED BY <4>4, <4>5
    <3>2. CASE ~HasClaim(p)
      <4>1. pc'[Main(p)] = "idle"
        BY <1>4, <1>p, <3>2 DEF Typed, TypeOK
      <4> QED BY <4>1 DEF JobIsOwn, MainIsInOrder, ActivePC
    <3> QED BY <3>1, <3>2
  <2>2. \A q \in Process : q # p => /\ pc'[Main(q)] = pc[Main(q)] /\ job'[Main(q)] = job[Main(q)]
                                    /\ live'[q] = live[q]
    BY <1>4, <1>p, Threads, ThreadsDiffer DEF Typed, TypeOK
  <2>3. \A r \in Session : pc'[Naming(r)] = pc[Naming(r)] /\ job'[Naming(r)] = job[Naming(r)]
    BY <1>4, <1>p, Threads, ThreadsDiffer
  <2>4. \A r \in Session : /\ IF host[r] = None THEN host'[r] \in {None, p} ELSE host'[r] = host[r]
                           /\ host[r] \notin {None, p} => claimed'[r] = claimed[r] /\ subdir'[r] = subdir[r]
                           /\ pc[Naming(r)] # "idle" => subdir'[r] = subdir[r]
    BY <1>2, <1>3, <1>a
  <2>g. \A e \in Dir : gen'[e] \in Nat /\ gen'[e] >= gen[e]
    BY <1>a DEF Typed, TypeOK
  <2> QED BY <1>6, <2>1, <2>2, <2>3, <2>4, <2>g, MainStep
<1>8. Locks'
  <2>1. subdir'[job[t].obj] = job[t].dir /\ \A r \in Session : r # job[t].obj => subdir'[r] = subdir[r]
    BY <1>3, <1>s
  <2>2. \A u \in Thread : pc'[u] = "remove" => pc[u] = "remove" /\ job'[u].todo = job[u].todo
    BY <1>4 DEF Typed, TypeOK
  <2> QED BY <1>5, <1>a, <1>b, <2>1, <2>2, LockTaken
<1> QED BY <1>5, <1>7, <1>8

(* The session that replaces the one its process's main thread closes.      *)
NextOf(p, r) ==
  /\ job[Main(p)].goal = "replace" /\ IsNewest(p, r) /\ r # job[Main(p)].obj
  /\ host[r] = p /\ claimed[r] /\ pc[Naming(r)] = "idle"

(* A thread that lets go of its session, or waits for the naming thread     *)
(* after it, is a main thread.                                              *)
LEMMA Closer ==
  ASSUME OwnersInv, NEW t \in Thread, pc[t] \in {"release", "join"}
  PROVE  \E p \in Process :
           /\ t = Main(p) /\ ProcessOf(t) = p /\ MainIsInOrder(p) /\ JobIsOwn(t)
           /\ job[t].obj \in Session /\ job[t].obj = live[p] /\ host[job[t].obj] = p
           /\ job[t].goal \in {"close", "replace"}
           /\ Closed(t) => \E r \in Session \cup {0} :
                live' = [live EXCEPT ![p] = r] /\ (r # 0 => NextOf(p, r))
<1> USE DEF OwnersInv
<1>a. pc[t] # "idle" /\ pc[t] \in ActivePC
  BY DEF ActivePC
<1>b. JobIsOwn(t) /\ job[t].obj \in Session
  BY <1>a, WorkerInOrder DEF JobIsOwn
<1>p. PICK p \in Process : t = Main(p) /\ MainIsInOrder(p)
  BY <1>a, WorkerInOrder DEF NamingIsInOrder
<1>1. /\ job[t].goal \in {"close", "replace"} /\ host[job[t].obj] = p /\ job[t].obj = live[p]
      /\ job[t].goal = "replace" => \E r \in Session : NextOf(p, r)
  BY <1>a, <1>p DEF MainIsInOrder, NextOf, IsNewest
<1>2. ProcessOf(t) = p
  BY <1>p, ProcessOfThread
<1>3. ASSUME Closed(t)
      PROVE  \E r \in Session \cup {0} : live' = [live EXCEPT ![p] = r] /\ (r # 0 => NextOf(p, r))
  <2>1. CASE job[t].goal = "replace"
    <3>1. PICK r \in Session : NextOf(p, r)
      BY <1>1, <2>1
    <3>2. Replacing(p) = r
      BY <3>1, NewestReplaces DEF NextOf
    <3> QED BY <1>2, <1>3, <2>1, <3>1, <3>2 DEF Closed
  <2>2. CASE job[t].goal # "replace"
    BY <1>2, <1>3, <2>2 DEF Closed
  <2> QED BY <2>1, <2>2
<1> QED BY <1>b, <1>p, <1>1, <1>2, <1>3

(* The main thread is done with its session and has the next one, or none.  *)
LEMMA LiveReplaced ==
  ASSUME OwnersInv, NEW p \in Process, NEW r \in Session \cup {0},
         live' = [live EXCEPT ![p] = r], r # 0 => host[r] = p
  PROVE  /\ live' \in [Process -> 0..MaxSessions]
         /\ \A q \in Process : live'[q] # 0 => host[live'[q]] = q
         /\ \A q \in Process : q # p => live'[q] = live[q]
<1>1. live \in [Process -> 0..MaxSessions] /\ \A q \in Process : live[q] # 0 => host[live[q]] = q
  BY DEF OwnersInv, JobsInv, SessionsAreHosted, Typed, TypeOK
<1>2. r \in 0..MaxSessions
  BY StoreAssumption DEF Session
<1> QED BY <1>1, <1>2

LEMMA OwnersRelease ==
  ASSUME OwnersInv, NEW t \in Thread, Release(t)
  PROVE  OwnersInv'
<1> USE DEF OwnersInv
<1>a. /\ pc[t] = "release" /\ held' = {l \in held : l[3] # job[t].obj}
      /\ claimed' = [claimed EXCEPT ![job[t].obj] = FALSE]
      /\ UNCHANGED <<lockFile, gen, disk, index, wsLock, opened, host, subdir, turns,
                     listed, raced, missed, setBack>>
      /\ \/ Closed(t) /\ pc' = [pc EXCEPT ![t] = "idle"]
         \/ pc' = [pc EXCEPT ![t] = "join"] /\ UNCHANGED <<live, job>>
  BY DEF Release, historyVars
<1>p. PICK p \in Process :
        /\ t = Main(p) /\ ProcessOf(t) = p /\ MainIsInOrder(p) /\ JobIsOwn(t)
        /\ job[t].obj \in Session /\ job[t].obj = live[p] /\ host[job[t].obj] = p
        /\ job[t].goal \in {"close", "replace"}
        /\ Closed(t) => \E r \in Session \cup {0} :
             live' = [live EXCEPT ![p] = r] /\ (r # 0 => NextOf(p, r))
  BY <1>a, Closer
<1>s. PICK s \in Session : s = job[t].obj
  BY <1>p
<1>1. ~claimed'[s] /\ \A r \in Session : r # s => claimed'[r] = claimed[r]
  BY <1>a, <1>s DEF Typed, TypeOK
<1>2. /\ live' \in [Process -> 0..MaxSessions]
      /\ \A q \in Process : live'[q] # 0 => host[live'[q]] = q
      /\ \A q \in Process : q # p => live'[q] = live[q]
  <2>1. CASE Closed(t)
    BY <1>p, <2>1, LiveReplaced DEF NextOf
  <2>2. CASE UNCHANGED live
    BY <2>2 DEF JobsInv, SessionsAreHosted, Typed, TypeOK
  <2> QED BY <1>a, <2>1, <2>2
<1>3. job' \in [Thread -> Job] /\ \A u \in Thread : u # t => job'[u] = job[u] /\ pc'[u] = pc[u]
  BY <1>a, NoJobTyped DEF Closed, Typed, TypeOK
<1>4. Typed'
  <2>2. \A u \in Thread : job'[u].dir \in Dir \cup {None} /\ job'[u].turns \in 0..MaxTurns
    BY <1>3 DEF Job
  <2>3. pc' \in [Thread -> {"idle", "opened", "write", "touch", "prune", "remove",
                            "release", "join", "armed", "done"}]
    BY <1>a DEF Typed, TypeOK
  <2>4. held' \subseteq Dir \X Nat \X Session /\ claimed' \in [Session -> BOOLEAN]
    BY <1>a DEF Typed, TypeOK
  <2> QED BY <1>2, <1>3, <1>a, <2>2, <2>3, <2>4 DEF Typed, TypeOK
<1>n. \A r \in Session : pc'[Naming(r)] = pc[Naming(r)] /\ job'[Naming(r)] = job[Naming(r)]
  BY <1>3, <1>p, Threads, ThreadsDiffer
<1>5. SessionsAreHosted'
  <2>1. \A r \in Session : claimed'[r] => claimed[r]
    BY <1>1
  <2> QED BY <1>2, <1>a, <1>n, <2>1 DEF JobsInv, SessionsAreHosted
<1>6. JobsInv'
  <2>1. JobIsOwn(Main(p))' /\ MainIsInOrder(p)'
    <3>1. CASE pc'[t] = "idle"
      BY <1>p, <3>1 DEF JobIsOwn, MainIsInOrder, ActivePC
    <3>2. CASE pc'[t] # "idle"
      <4>1. pc' = [pc EXCEPT ![t] = "join"] /\ UNCHANGED <<live, job>>
        BY <1>a, <3>2 DEF Typed, TypeOK
      <4>2. pc'[t] = "join"
        BY <4>1 DEF Typed, TypeOK
      <4>3. JobIsOwn(Main(p))'
        BY <1>a, <1>p, <4>1, <4>2 DEF JobIsOwn, ActivePC
      <4>4. \A r \in Session : IsNewest(p, r)' <=> IsNewest(p, r)
        BY <1>a DEF IsNewest
      <4>5. MainIsInOrder(p)'
        <5>1. job[t].goal = "replace" =>
                \E r \in Session : /\ IsNewest(p, r) /\ r # s /\ claimed[r] /\ pc[Naming(r)] = "idle"
          BY <1>a, <1>p, <1>s DEF MainIsInOrder, ActivePC
        <5>2. job[t].goal = "replace" =>
                \E r \in Session : /\ IsNewest(p, r)' /\ r # s /\ claimed'[r] /\ pc'[Naming(r)] = "idle"
          BY <1>1, <1>n, <4>4, <5>1
        <5> QED BY <1>a, <1>p, <1>s, <4>1, <4>2, <5>2 DEF MainIsInOrder
      <4> QED BY <4>3, <4>5
    <3> QED BY <3>1, <3>2
  <2>2. \A q \in Process : q # p => /\ pc'[Main(q)] = pc[Main(q)] /\ job'[Main(q)] = job[Main(q)]
                                    /\ live'[q] = live[q]
    BY <1>2, <1>3, <1>p, Threads, ThreadsDiffer
  <2>3. \A r \in Session : /\ IF host[r] = None THEN host'[r] \in {None, p} ELSE host'[r] = host[r]
                           /\ host[r] \notin {None, p} => claimed'[r] = claimed[r] /\ subdir'[r] = subdir[r]
                           /\ pc[Naming(r)] # "idle" => subdir'[r] = subdir[r]
    BY <1>1, <1>a, <1>p, <1>s
  <2>g. \A e \in Dir : gen'[e] \in Nat /\ gen'[e] >= gen[e]
    BY <1>a DEF Typed, TypeOK
  <2> QED BY <1>5, <1>n, <2>1, <2>2, <2>3, <2>g, MainStep
<1>7. Locks'
  <2>1. \A l \in held : claimed'[l[3]] => l \in held'
    BY <1>1, <1>a, <1>s
  <2>2. \A r \in Session : claimed'[r] => claimed[r] /\ subdir'[r] = subdir[r]
    BY <1>1, <1>a
  <2>3. \A u \in Thread : pc'[u] = "remove" => pc[u] = "remove" /\ job'[u].todo = job[u].todo
    BY <1>3, <1>a DEF Typed, TypeOK
  <2> QED BY <1>a, <2>1, <2>2, <2>3, LocksStay
<1> QED BY <1>4, <1>6, <1>7

LEMMA OwnersJoin ==
  ASSUME OwnersInv, NEW t \in Thread, Join(t)
  PROVE  OwnersInv'
<1> USE DEF OwnersInv
<1>a. /\ pc[t] = "join" /\ Closed(t)
      /\ pc' = [pc EXCEPT ![t] = "idle",
                          ![Naming(job[t].obj)] = IF pc[Naming(job[t].obj)] = "armed"
                                                    THEN "idle" ELSE pc[Naming(job[t].obj)]]
      /\ UNCHANGED <<lockFile, gen, held, disk, index, wsLock, opened, host, subdir, claimed, turns,
                     listed, raced, missed, setBack>>
  <2>1. pc[t] = "join" /\ job[t].obj \in Session
    BY Closer DEF Join
  <2>2. Naming(job[t].obj) # t
    BY <2>1, Closer, ThreadsDiffer
  <2> QED BY <2>1, <2>2 DEF Join, diskVars, historyVars
<1>p. PICK p \in Process :
        /\ t = Main(p) /\ ProcessOf(t) = p /\ MainIsInOrder(p) /\ JobIsOwn(t)
        /\ job[t].obj \in Session /\ job[t].obj = live[p] /\ host[job[t].obj] = p
        /\ job[t].goal \in {"close", "replace"}
        /\ Closed(t) => \E r \in Session \cup {0} :
             live' = [live EXCEPT ![p] = r] /\ (r # 0 => NextOf(p, r))
  BY <1>a, Closer
<1>s. PICK s \in Session : s = job[t].obj
  BY <1>p
<1>2. /\ live' \in [Process -> 0..MaxSessions]
      /\ \A q \in Process : live'[q] # 0 => host[live'[q]] = q
      /\ \A q \in Process : q # p => live'[q] = live[q]
  BY <1>a, <1>p, LiveReplaced DEF NextOf
<1>3. job' \in [Thread -> Job] /\ \A u \in Thread : u # t => job'[u] = job[u]
  BY <1>a, NoJobTyped DEF Closed, Typed
<1>t. t \in Thread /\ Naming(s) \in Thread /\ Naming(s) # t
  BY <1>p, Threads, ThreadsDiffer
<1>4. /\ pc'[t] = "idle" /\ \A u \in Thread : u # t => pc'[u] = pc[u] \/ (u = Naming(s) /\ pc'[u] = "idle")
      /\ pc' \in [Thread -> {"idle", "opened", "write", "touch", "prune", "remove",
                             "release", "join", "armed", "done"}]
  <2>1. pc \in [Thread -> {"idle", "opened", "write", "touch", "prune", "remove",
                             "release", "join", "armed", "done"}]
    BY DEF Typed, TypeOK
  <2> QED BY <1>a, <1>s, <1>t, <2>1
<1>5. Typed'
  <2>2. \A u \in Thread : job'[u].dir \in Dir \cup {None} /\ job'[u].turns \in 0..MaxTurns
    BY <1>3 DEF Job
  <2> QED BY <1>2, <1>3, <1>4, <1>a, <2>2 DEF Typed, TypeOK
<1>n. \A r \in Session : /\ pc'[Naming(r)] = pc[Naming(r)] \/ (host[r] = p /\ pc'[Naming(r)] = "idle")
                         /\ job'[Naming(r)] = job[Naming(r)]
  BY <1>3, <1>4, <1>p, <1>s, Threads, ThreadsDiffer
<1>6. SessionsAreHosted'
  BY <1>2, <1>a, <1>n DEF JobsInv, SessionsAreHosted
<1>7. JobsInv'
  <2>1. JobIsOwn(Main(p))' /\ MainIsInOrder(p)'
    BY <1>4, <1>p DEF JobIsOwn, MainIsInOrder, ActivePC
  <2>2. \A q \in Process : q # p => /\ pc'[Main(q)] = pc[Main(q)] /\ job'[Main(q)] = job[Main(q)]
                                    /\ live'[q] = live[q]
    BY <1>2, <1>3, <1>4, <1>p, Threads, ThreadsDiffer
  <2>3. \A r \in Session : IF host[r] = None THEN host'[r] \in {None, p} ELSE host'[r] = host[r]
    BY <1>a
  <2>g. \A e \in Dir : gen'[e] \in Nat /\ gen'[e] >= gen[e]
    BY <1>a DEF Typed, TypeOK
  <2> QED BY <1>6, <1>a, <1>n, <2>1, <2>2, <2>3, <2>g, MainStep
<1>8. Locks'
  <2>3. \A u \in Thread : pc'[u] = "remove" => pc[u] = "remove" /\ job'[u].todo = job[u].todo
    BY <1>3, <1>4
  <2> QED BY <1>a, <2>3, LocksStay
<1> QED BY <1>5, <1>7, <1>8

LEMMA OwnersNamingReply ==
  ASSUME OwnersInv, NEW s \in Session, NamingReply(s)
  PROVE  OwnersInv'
<1> USE DEF OwnersInv
<1> DEFINE t == Naming(s)
<1>a. /\ pc[t] = "armed" /\ pc[t] # "idle"
      /\ UNCHANGED <<subdir, turns, held, disk, index, wsLock, opened, host, live, claimed,
                     listed, raced, missed, setBack>>
      /\ \/ Saving(t, s, "save") /\ UNCHANGED <<lockFile, gen>>
         \/ OpenLock(t, subdir[s], s, "claim")
  BY DEF NamingReply, historyVars
<1>b. t \in Thread
  BY Threads
<1>c. subdir[s] \in Dir
  BY <1>a, <1>b, WorkerInOrder, ThreadsDiffer DEF NamingIsInOrder
<1>d. PICK d \in Dir : d = subdir[s]
  BY <1>c
<1> HIDE DEF t
<1>1. /\ lockFile' \in [Dir -> BOOLEAN] /\ gen' \in [Dir -> Nat] /\ job' \in [Thread -> Job]
      /\ \A e \in Dir : /\ gen'[e] >= gen[e]
                        /\ lockFile'[e] => gen'[e] > 0
                        /\ lockFile[e] => lockFile'[e] /\ gen'[e] = gen[e]
      /\ job'[t].obj = s /\ job'[t].dir = d /\ \A u \in Thread : u # t => job'[u] = job[u]
      /\ \/ pc' = [pc EXCEPT ![t] = "write"] /\ job'[t].goal = "save"
         \/ /\ pc' = [pc EXCEPT ![t] = "opened"] /\ job'[t].goal = "claim"
            /\ job'[t].gen = gen'[d] /\ gen'[d] > 0
  <2>1. CASE Saving(t, s, "save") /\ UNCHANGED <<lockFile, gen>>
    <3>1. /\ subdir'[s] \in Dir /\ turns'[s] \in 0..MaxTurns
          /\ "save" \in {"claim", "save", "close", "replace"}
      BY <1>a, <1>c DEF Typed, TypeOK
    <3>2. /\ pc' = [pc EXCEPT ![t] = "write"] /\ job' \in [Thread -> Job]
          /\ job'[t].goal = "save" /\ job'[t].obj = s /\ job'[t].dir = subdir'[s]
          /\ \A u \in Thread : u # t => job'[u] = job[u]
      BY <1>b, <2>1, <3>1, SaveBegun
    <3> QED BY <1>a, <1>d, <2>1, <3>2 DEF Typed, TypeOK
  <2>2. CASE OpenLock(t, subdir[s], s, "claim")
    <3>1. OpenLock(t, d, s, "claim")
      BY <1>d, <2>2
    <3> QED BY <1>b, <3>1, LockOpened
  <2> QED BY <1>a, <2>1, <2>2
<1>2. pc'[t] \in {"write", "opened"} /\ \A u \in Thread : u # t => pc'[u] = pc[u]
  BY <1>1, <1>b DEF Typed, TypeOK
<1>3. Typed'
  <2>2. \A u \in Thread : job'[u].dir \in Dir \cup {None} /\ job'[u].turns \in 0..MaxTurns
    BY <1>1 DEF Job
  <2>3. pc' \in [Thread -> {"idle", "opened", "write", "touch", "prune", "remove",
                            "release", "join", "armed", "done"}]
    BY <1>1 DEF Typed, TypeOK
  <2> QED BY <1>1, <1>a, <2>2, <2>3 DEF Typed, TypeOK
<1>4. SessionsAreHosted'
  <2>1. \A e \in Dir : gen[e] > 0 => gen'[e] > 0
    BY <1>1 DEF Typed, TypeOK
  <2>2. \A r \in Session : pc'[Naming(r)] = pc[Naming(r)] \/ r = s
    BY <1>2, Threads, ThreadsDiffer DEF t
  <2>3. host[s] # None
    BY <1>a DEF JobsInv, SessionsAreHosted, t
  <2> QED BY <1>a, <2>1, <2>2, <2>3 DEF JobsInv, SessionsAreHosted
<1>5. JobsInv'
  <2>1. JobIsOwn(Naming(s))'
    <3>1. gen'[d] \in Nat /\ gen'[d] <= gen'[d]
      BY <1>1
    <3> QED BY <1>1, <1>2, <1>a, <1>b, <1>d, <3>1 DEF JobIsOwn, ActivePC, t, Typed, TypeOK
  <2>2. NamingIsInOrder(s)'
    BY <1>1, <1>2, <1>a, <1>c DEF NamingIsInOrder, t
  <2>3. \A u \in Thread : u # Naming(s) => pc'[u] = pc[u] /\ job'[u] = job[u]
    BY <1>1, <1>2 DEF t
  <2>4. pc[Naming(s)] # "idle" /\ \A e \in Dir : gen'[e] \in Nat /\ gen'[e] >= gen[e]
    BY <1>1, <1>a DEF t
  <2>5. \A r \in Session : claimed'[r] = claimed[r] \/ (r = s /\ claimed'[r])
    BY <1>a
  <2> QED BY <1>4, <1>a, <2>1, <2>2, <2>3, <2>4, <2>5, NamingStep
<1>6. Locks'
  <2>3. \A u \in Thread : pc'[u] = "remove" => pc[u] = "remove" /\ job'[u].todo = job[u].todo
    BY <1>1, <1>2
  <2> QED BY <1>1, <1>a, <2>3, LocksStay
<1> QED BY <1>3, <1>5, <1>6

LEMMA OwnersCrash ==
  ASSUME OwnersInv, NEW p \in Process, Crash(p)
  PROVE  OwnersInv'
<1> USE DEF OwnersInv
<1>a. /\ held' = {l \in held : host[l[3]] # p} /\ wsLock' \in {wsLock, None}
      /\ live' = [live EXCEPT ![p] = 0]
      /\ claimed' = [s \in Session |-> claimed[s] /\ host[s] # p]
      /\ subdir' = [s \in Session |-> IF host[s] = p THEN None ELSE subdir[s]]
      /\ turns' = [s \in Session |-> IF host[s] = p THEN 0 ELSE turns[s]]
      /\ pc' = [t \in Thread |-> IF ProcessOf(t) # p THEN pc[t] ELSE "idle"]
      /\ job' = [t \in Thread |-> IF ProcessOf(t) # p THEN job[t] ELSE NoJob]
      /\ UNCHANGED <<lockFile, gen, disk, index, opened, host, listed, raced, missed, setBack>>
  BY DEF Crash, historyVars
<1>1. /\ pc' \in [Thread -> {"idle", "opened", "write", "touch", "prune", "remove",
                             "release", "join", "armed", "done"}]
      /\ job' \in [Thread -> Job]
      /\ claimed' \in [Session -> BOOLEAN] /\ subdir' \in [Session -> Dir \cup {None}]
      /\ turns' \in [Session -> 0..MaxTurns] /\ live' \in [Process -> 0..MaxSessions]
      /\ held' \subseteq Dir \X Nat \X Session
  <2>1. 0 \in 0..MaxTurns /\ 0 \in 0..MaxSessions
    BY StoreAssumption
  <2> QED BY <1>a, <2>1, NoJobTyped DEF Typed, TypeOK
<1>2. Typed'
  <2>2. \A u \in Thread : job'[u].dir \in Dir \cup {None} /\ job'[u].turns \in 0..MaxTurns
    BY <1>1 DEF Job
  <2> QED BY <1>1, <1>a, <2>2 DEF Typed, TypeOK
<1>3. /\ \A u \in Thread : IF ProcessOf(u) # p THEN pc'[u] = pc[u] /\ job'[u] = job[u]
                           ELSE pc'[u] = "idle"
      /\ live'[p] = 0 /\ \A q \in Process : q # p => live'[q] = live[q]
      /\ \A s \in Session : IF host[s] = p THEN ~claimed'[s] /\ subdir'[s] = None
                            ELSE claimed'[s] = claimed[s] /\ subdir'[s] = subdir[s]
  BY <1>a DEF Typed, TypeOK
<1>n. p # None /\ None \notin Dir
  BY StoreAssumption
<1>4. SessionsAreHosted'
  <2>1. \A s \in Session : host[s] = None => pc'[Naming(s)] = "idle"
    BY <1>3, <1>n, ProcessOfThread, Threads DEF JobsInv, SessionsAreHosted
  <2>2. \A q \in Process : live'[q] # 0 => host[live'[q]] = q
    BY <1>3 DEF JobsInv, SessionsAreHosted
  <2>3. \A s \in Session : /\ claimed'[s] => subdir'[s] \in Dir
                           /\ subdir'[s] \in Dir => host[s] # None /\ gen[subdir'[s]] > 0
    BY <1>3, <1>n DEF JobsInv, SessionsAreHosted
  <2> QED BY <1>a, <2>1, <2>2, <2>3 DEF JobsInv, SessionsAreHosted
<1>5. JobsInv'
  <2>1. StepOf(p)
    <3>1. \A e \in Dir : gen'[e] \in Nat /\ gen'[e] >= gen[e]
      BY <1>a DEF Typed, TypeOK
    <3> QED BY <1>3, <1>a, <3>1 DEF StepOf
  <2>2. InOrder(p)'
    <3>1. pc'[Main(p)] = "idle" /\ \A s \in Session : host[s] = p => pc'[Naming(s)] = "idle"
      BY <1>3, Threads, ProcessOfThread
    <3> QED BY <1>a, <3>1 DEF InOrder, JobIsOwn, MainIsInOrder, NamingIsInOrder, ActivePC
  <2> QED BY <1>4, <2>1, <2>2, ProcessStep
<1>6. Locks'
  <2>1. \A l \in held : claimed'[l[3]] => l \in held'
    <3> SUFFICES ASSUME NEW l \in held, claimed'[l[3]] PROVE l \in held'
      OBVIOUS
    <3>1. l \in Dir \X Nat \X Session
      BY DEF Typed, TypeOK
    <3>2. l[3] \in Session
      BY <3>1
    <3> QED BY <1>3, <1>a, <3>2
  <2>2. \A s \in Session : claimed'[s] => claimed[s] /\ subdir'[s] = subdir[s]
    BY <1>3
  <2>3. \A u \in Thread : pc'[u] = "remove" => pc[u] = "remove" /\ job'[u].todo = job[u].todo
    BY <1>3
  <2> QED BY <1>a, <2>1, <2>2, <2>3, LocksStay
<1> QED BY <1>2, <1>5, <1>6

LEMMA OwnersNext == OwnersInv /\ [Next]_vars => OwnersInv'
<1> SUFFICES ASSUME OwnersInv, [Next]_vars PROVE OwnersInv'
  OBVIOUS
<1>1. CASE UNCHANGED vars
  BY <1>1 DEF vars, diskVars, sessionVars, historyVars, OwnersInv, Typed, TypeOK, JobsInv,
              SessionsAreHosted, InOrder, JobIsOwn, MainIsInOrder, NamingIsInOrder, IsNewest, Locks,
              LocksAreExclusive, OwnerIsLocked, RemovedIsFree, ActivePC
<1>2. CASE Next
  <2>1. ASSUME NEW p \in Process, NEW d \in Dir, FirstTurn(p, d) \/ Restore(p, d) PROVE OwnersInv'
    BY <2>1, OwnersFirstTurn, OwnersRestore
  <2>2. ASSUME NEW p \in Process, Turn(p) \/ Close(p) \/ Crash(p) PROVE OwnersInv'
    BY <2>2, OwnersSave, OwnersCrash
  <2>3. ASSUME NEW t \in Thread, Step(t) PROVE OwnersInv'
    BY <2>3, OwnersNoLock, OwnersClaim, OwnersAdopt, OwnersWriteState, OwnersTouch, OwnersSaved,
       OwnersProbe, OwnersRemoveTree, OwnersRelease, OwnersJoin DEF Step
  <2>4. ASSUME NEW s \in Session, NamingReply(s) PROVE OwnersInv'
    BY <2>4, OwnersNamingReply
  <2> QED BY <1>2, <2>1, <2>2, <2>3, <2>4 DEF Next
<1> QED BY <1>1, <1>2

(* Whoever has claimed a session's directory holds the lock on the file now *)
(* at its path, alone, unless a prune removed the directory while it took   *)
(* the lock: claim, restore, close, crash and pruning may interleave in any *)
(* number of processes (session/mixins/persistence.py,                      *)
(* workspace/session_store.py).                                             *)
THEOREM DirectoriesHaveOneOwner == Spec => []OwnersAreSound
<1>1. OwnersInv => OwnersAreSound
  <2> SUFFICES ASSUME OwnersInv PROVE OwnersAreSound
    OBVIOUS
  <2>1. ASSUME NEW s \in Session, claimed[s], subdir[s] \notin raced,
               NEW r \in Session, claimed[r], subdir[r] = subdir[s]
        PROVE  r = s
    <3>1. /\ <<subdir[s], gen[subdir[s]], s>> \in held
          /\ <<subdir[s], gen[subdir[s]], r>> \in held
      BY <2>1 DEF OwnersInv, Locks, OwnerIsLocked
    <3> QED BY <3>1 DEF OwnersInv, Locks, LocksAreExclusive
  <2>2. OwnerHoldsTheLock
    BY <2>1 DEF OwnerHoldsTheLock, OwnersInv, Locks, OwnerIsLocked
  <2> QED BY <2>2 DEF OwnersAreSound, OwnersInv, Typed
<1> QED BY <1>1, OwnersInit, OwnersNext, PTL DEF Spec

-----------------------------------------------------------------------------
(* The index of sessions                                                    *)

Pruning == {"prune", "remove"}

(* Threads that do not prune step; what they save is not yet listed.        *)
PruneGoesOn ==
  /\ UNCHANGED <<index, wsLock>>
  /\ \A d \in Dir : disk'[d] # 0 /\ d \notin missed' => disk[d] # 0 /\ d \notin missed
  /\ \A u \in Thread : \/ pc'[u] = pc[u] /\ job'[u] = job[u]
                       \/ pc[u] \notin Pruning /\ pc'[u] \notin Pruning

LEMMA QuietSteps ==
  ASSUME OwnersInv,
         \/ \E p \in Process :
              \/ \E d \in Dir : FirstTurn(p, d) \/ Restore(p, d)
              \/ Turn(p)
              \/ Close(p)
         \/ \E t \in Thread : \/ NoLock(t) \/ Claim(t) \/ Adopt(t) \/ WriteState(t)
                              \/ SkipTouch(t) \/ Release(t) \/ Join(t)
         \/ \E s \in Session : NamingReply(s)
  PROVE  PruneGoesOn
<1>0. /\ pc \in [Thread -> {"idle", "opened", "write", "touch", "prune", "remove",
                           "release", "join", "armed", "done"}]
      /\ job \in [Thread -> Job] /\ disk \in [Dir -> 0..MaxTurns]
  BY DEF OwnersInv, Typed, TypeOK
<1>1. ASSUME NEW p \in Process, NEW d \in Dir, FirstTurn(p, d) \/ Restore(p, d) PROVE PruneGoesOn
  BY <1>0, <1>1 DEF FirstTurn, Restore, OpenLock, Idle, PruneGoesOn, Pruning, historyVars
<1>2. ASSUME NEW p \in Process, Turn(p) \/ Close(p) PROVE PruneGoesOn
  BY <1>0, <1>2 DEF Turn, Close, Saving, Idle, PruneGoesOn, Pruning, diskVars, historyVars
<1>3. ASSUME NEW t \in Thread, NoLock(t) PROVE PruneGoesOn
  BY <1>0, <1>3 DEF NoLock, Finish, PruneGoesOn, Pruning, diskVars, historyVars
<1>4. ASSUME NEW t \in Thread, Claim(t) PROVE PruneGoesOn
  BY <1>0, <1>4 DEF Claim, Lock, Saving, PruneGoesOn, Pruning
<1>5. ASSUME NEW t \in Thread, Adopt(t) PROVE PruneGoesOn
  <2>1. /\ pc[t] = "opened" /\ UNCHANGED <<index, wsLock, disk, missed>>
        /\ \/ pc' = [pc EXCEPT ![t] = "write"]
           \/ pc' = [pc EXCEPT ![t] = IF t[2] = "main" THEN "idle" ELSE "done"]
        /\ \E r : job' = [job EXCEPT ![t] = r]
    BY <1>5 DEF Adopt, Lock, Saving, Finish
  <2> QED BY <1>0, <2>1 DEF PruneGoesOn, Pruning
<1>6. ASSUME NEW t \in Thread, WriteState(t) PROVE PruneGoesOn
  BY <1>0, <1>6 DEF WriteState, PruneGoesOn, Pruning
<1>7. ASSUME NEW t \in Thread, SkipTouch(t) PROVE PruneGoesOn
  <2>1. pc[t] = "touch" /\ Saved(t) /\ UNCHANGED <<disk, index, wsLock, missed>>
    BY <1>7 DEF SkipTouch, diskVars, historyVars
  <2>2. \/ JobEnds(t)
        \/ job' = job /\ pc' = [pc EXCEPT ![t] = "release"]
    BY <2>1, SavedEffects DEF OwnersInv
  <2> QED BY <1>0, <2>1, <2>2 DEF JobEnds, PruneGoesOn, Pruning
<1>8. ASSUME NEW t \in Thread, Release(t) PROVE PruneGoesOn
  BY <1>0, <1>8 DEF Release, Closed, PruneGoesOn, Pruning, historyVars
<1>9. ASSUME NEW t \in Thread, Join(t) PROVE PruneGoesOn
  <2>1. job[t].obj \in Session
    BY <1>9, Closer DEF Join
  <2>2. Naming(job[t].obj) \in Thread /\ Naming(job[t].obj) # t
    BY <1>9, <2>1, Closer, Threads, ThreadsDiffer DEF Join
  <2>3. /\ pc[t] = "join" /\ UNCHANGED <<disk, index, wsLock, missed>>
        /\ pc' = [pc EXCEPT ![t] = "idle",
                            ![Naming(job[t].obj)] = IF pc[Naming(job[t].obj)] = "armed"
                                                      THEN "idle" ELSE pc[Naming(job[t].obj)]]
        /\ job' = [job EXCEPT ![t] = NoJob]
    BY <1>9, <2>2 DEF Join, Closed, diskVars, historyVars
  <2> QED BY <1>0, <2>2, <2>3 DEF PruneGoesOn, Pruning
<1>10. ASSUME NEW s \in Session, NamingReply(s) PROVE PruneGoesOn
  <2>1. /\ pc[Naming(s)] = "armed" /\ UNCHANGED <<index, wsLock, disk, missed>>
        /\ \/ pc' = [pc EXCEPT ![Naming(s)] = "write"]
           \/ pc' = [pc EXCEPT ![Naming(s)] = "opened"]
        /\ \E r : job' = [job EXCEPT ![Naming(s)] = r]
    BY <1>10 DEF NamingReply, Saving, OpenLock, historyVars
  <2> QED BY <1>0, <2>1, Threads DEF PruneGoesOn, Pruning
<1> QED BY <1>1, <1>2, <1>3, <1>4, <1>5, <1>6, <1>7, <1>8, <1>9, <1>10

LEMMA IndexStays ==
  ASSUME IndexInv, OwnersInv', PruneGoesOn
  PROVE  IndexInv'
<1> USE DEF IndexInv, PruneGoesOn, Pruning
<1>1. PruningHoldsTheLock'
  BY DEF PruningHoldsTheLock
<1>2. PruneIsComplete'
  <2> SUFFICES ASSUME NEW t \in Thread, pc'[t] \in Pruning
               PROVE  /\ job'[t].dir \in ToSet(job'[t].view)
                      /\ Distinct(job'[t].view) /\ Distinct(job'[t].todo)
                      /\ ToSet(job'[t].view) \cap ToSet(job'[t].todo) = {}
                      /\ \A d \in ToSet(index) : \/ d \in ToSet(job'[t].view) \cup ToSet(job'[t].todo)
                                                 \/ disk'[d] = 0
                                                 \/ d \in missed'
    BY DEF PruneIsComplete
  <2>1. job'[t] = job[t] /\ pc[t] \in Pruning
    OBVIOUS
  <2>2. \A d \in ToSet(index) : d \in Dir
    BY Elements DEF OwnersInv, Typed, TypeOK
  <2> QED BY <2>1, <2>2 DEF PruneIsComplete
<1>3. SavedIsListed'
  BY DEF SavedIsListed
<1>4. Distinct(index)'
  BY DEF Distinct
<1> QED BY <1>1, <1>2, <1>3, <1>4

(* The first of two lists goes on with the first entry of the second.       *)
LEMMA EntryMoves ==
  ASSUME NEW S, NEW view \in Seq(S), NEW todo \in Seq(S), todo # <<>>,
         Distinct(view), Distinct(todo), ToSet(view) \cap ToSet(todo) = {}
  PROVE  LET v == Append(view, Head(todo))
             w == Tail(todo)
         IN /\ Distinct(v) /\ Distinct(w)
            /\ ToSet(v) = ToSet(view) \cup {Head(todo)}
            /\ ToSet(todo) = ToSet(w) \cup {Head(todo)} /\ Head(todo) \notin ToSet(w)
<1> DEFINE h == Head(todo)
           v == Append(view, h)
           w == Tail(todo)
<1>1. /\ Len(todo) \in Nat /\ Len(todo) >= 1 /\ h = todo[1] /\ h \in S
      /\ w \in Seq(S) /\ Len(w) = Len(todo) - 1 /\ \A k \in 1..Len(w) : w[k] = todo[k + 1]
  OBVIOUS
<1>2. /\ Len(view) \in Nat /\ v \in Seq(S) /\ Len(v) = Len(view) + 1
      /\ v[Len(view) + 1] = h /\ \A k \in 1..Len(view) : v[k] = view[k]
  BY <1>1
<1>3. \A j, k \in 1..Len(todo) : todo[j] = todo[k] => j = k
  BY DEF Distinct
<1>4. \A j, k \in 1..Len(view) : view[j] = view[k] => j = k
  BY DEF Distinct
<1>5. h \in ToSet(todo)
  BY <1>1, Elements
<1> HIDE DEF h, v, w
<1>6. \A x : x \in ToSet(w) <=> \E k \in 1..Len(w) : w[k] = x
  BY <1>1, Elements
<1>7. \A x : x \in ToSet(v) <=> \E k \in 1..Len(v) : v[k] = x
  BY <1>2, Elements
<1>8. h \notin ToSet(view) /\ \A k \in 1..Len(view) : view[k] # h
  BY <1>5, Elements
<1>9. Distinct(v)
  <2> SUFFICES ASSUME NEW j \in 1..Len(v), NEW k \in 1..Len(v), v[j] = v[k] PROVE j = k
    BY DEF Distinct
  <2> QED BY <1>2, <1>4, <1>8
<1>10. Distinct(w)
  <2> SUFFICES ASSUME NEW j \in 1..Len(w), NEW k \in 1..Len(w), w[j] = w[k] PROVE j = k
    BY DEF Distinct
  <2>1. j + 1 \in 1..Len(todo) /\ k + 1 \in 1..Len(todo) /\ todo[j + 1] = todo[k + 1]
    BY <1>1
  <2>2. j + 1 = k + 1
    BY <1>3, <2>1
  <2> QED BY <1>1, <2>2
<1>11. ToSet(v) = ToSet(view) \cup {h}
  <2>1. ASSUME NEW x \in ToSet(v) PROVE x \in ToSet(view) \cup {h}
    <3>1. PICK k \in 1..Len(v) : v[k] = x
      BY <1>7
    <3>2. CASE k = Len(view) + 1
      BY <1>2, <3>1, <3>2
    <3>3. CASE k # Len(view) + 1
      <4>1. k \in 1..Len(view) /\ view[k] = x
        BY <1>2, <3>1, <3>3
      <4> QED BY <4>1, Elements
    <3> QED BY <3>2, <3>3
  <2>2. ASSUME NEW x \in ToSet(view) PROVE x \in ToSet(v)
    <3>1. PICK k \in 1..Len(view) : view[k] = x
      BY Elements
    <3>2. k \in 1..Len(v) /\ v[k] = x
      BY <1>2, <3>1
    <3> QED BY <1>7, <3>2
  <2>3. h \in ToSet(v)
    <3>1. Len(view) + 1 \in 1..Len(v)
      BY <1>2
    <3> QED BY <1>2, <1>7, <3>1
  <2> QED BY <2>1, <2>2, <2>3
<1>12. ToSet(todo) = ToSet(w) \cup {h}
  <2>1. ASSUME NEW x \in ToSet(todo), x # h PROVE x \in ToSet(w)
    <3>1. PICK k \in 1..Len(todo) : todo[k] = x
      BY Elements
    <3>2. k - 1 \in 1..Len(w) /\ w[k - 1] = todo[(k - 1) + 1] /\ (k - 1) + 1 = k
      BY <1>1, <2>1, <3>1
    <3> QED BY <1>6, <3>1, <3>2
  <2>2. ASSUME NEW x \in ToSet(w) PROVE x \in ToSet(todo)
    <3>1. PICK k \in 1..Len(w) : w[k] = x
      BY <1>6
    <3>2. k + 1 \in 1..Len(todo) /\ todo[k + 1] = x
      BY <1>1, <3>1
    <3> QED BY <3>2, Elements
  <2> QED BY <1>5, <2>1, <2>2
<1>13. h \notin ToSet(w)
  <2> SUFFICES ASSUME NEW k \in 1..Len(w), w[k] = h PROVE FALSE
    BY <1>6
  <2>1. k + 1 \in 1..Len(todo) /\ 1 \in 1..Len(todo) /\ todo[k + 1] = todo[1]
    BY <1>1
  <2>2. k + 1 = 1
    BY <1>3, <2>1
  <2> QED BY <2>2
<1> QED BY <1>9, <1>10, <1>11, <1>12, <1>13 DEF h, v, w

LEMMA IndexTouch ==
  ASSUME IndexInv, OwnersInv', NEW t \in Thread, Touch(t)
  PROVE  IndexInv'
<1> USE DEF IndexInv, OwnersInv
<1> DEFINE d == job[t].dir
           list == Fronted(d)
           v == SubSeq(list, 1, Recent(list))
           w == SubSeq(list, Recent(list) + 1, Len(list))
<1>1. /\ UNCHANGED <<index, disk, missed>> /\ wsLock = None /\ wsLock' = t
      /\ pc[t] = "touch" /\ pc' = [pc EXCEPT ![t] = "prune"]
      /\ job' = [job EXCEPT ![t] = WithLists(t, v, w)]
  BY DEF Touch, IndexFree, historyVars, Typed, WithLists
<1>2. d \in Dir
  BY <1>1, WorkerInOrder DEF JobIsOwn, ActivePC
<1>3. /\ list \in Seq(Dir) /\ Len(list) >= 1 /\ list[1] = d
      /\ ToSet(index) \subseteq ToSet(list) /\ Distinct(list)
  BY <1>2, FrontedEntries DEF Typed, TypeOK
<1> HIDE DEF list
<1>4. /\ v \in Seq(Dir) /\ w \in Seq(Dir) /\ d \in ToSet(v)
      /\ ToSet(list) \subseteq ToSet(v) \cup ToSet(w)
      /\ Distinct(v) /\ Distinct(w) /\ ToSet(v) \cap ToSet(w) = {}
  BY <1>3, ListSplit
<1> HIDE DEF v, w
<1>5. job'[t].dir = d /\ job'[t].view = v /\ job'[t].todo = w
  <2>1. job'[t] = WithLists(t, v, w)
    BY <1>1 DEF Typed
  <2>2. WithLists(t, v, w).dir = d /\ WithLists(t, v, w).view = v /\ WithLists(t, v, w).todo = w
    BY <1>4, ListsReplaced
  <2> QED BY <2>1, <2>2
<1>6. \A u \in Thread : u # None /\ pc[u] \notin Pruning
  BY <1>1, Threads DEF PruningHoldsTheLock, Pruning
<1>7. \A u \in Thread : pc'[u] \in Pruning <=> u = t
  BY <1>1, <1>6 DEF Typed, TypeOK, Pruning
<1>8. PruningHoldsTheLock'
  BY <1>1, <1>7 DEF PruningHoldsTheLock, Pruning
<1>9. PruneIsComplete'
  BY <1>1, <1>3, <1>4, <1>5, <1>7 DEF PruneIsComplete, Pruning
<1>10. SavedIsListed' /\ Distinct(index)'
  BY <1>1 DEF SavedIsListed, Distinct
<1> QED BY <1>8, <1>9, <1>10

LEMMA IndexProbe ==
  ASSUME IndexInv, OwnersInv', NEW t \in Thread, Probe(t) \/ RemoveTree(t)
  PROVE  IndexInv'
<1> USE DEF IndexInv, OwnersInv
<1> DEFINE h == Head(job[t].todo)
           view == job[t].view
           todo == job[t].todo
<1>1. /\ UNCHANGED <<index, wsLock, missed>> /\ pc[t] \in Pruning /\ todo # <<>>
      /\ \A u \in Thread : u # t => pc'[u] = pc[u] /\ job'[u] = job[u]
      /\ pc'[t] \in Pruning /\ job'[t].dir = job[t].dir
      /\ \/ disk' = disk /\ job'[t].view = view /\ job'[t].todo = todo
         \/ disk' = disk /\ job'[t].view = Append(view, h) /\ job'[t].todo = Tail(todo)
         \/ disk' = [disk EXCEPT ![h] = 0] /\ job'[t].view = view /\ job'[t].todo = Tail(todo)
  <2>0. /\ job \in [Thread -> Job] /\ pc \in [Thread -> {"idle", "opened", "write", "touch", "prune",
                                                        "remove", "release", "join", "armed", "done"}]
    BY DEF Typed, TypeOK
  <2>1. CASE Probe(t)
    <3>1. CASE Keep(h)
      BY <2>0, <2>1, <3>1 DEF Probe, Pruning, diskVars, historyVars, Job
    <3>2. CASE ~Keep(h)
      BY <2>0, <2>1, <3>2 DEF Probe, Pruning, diskVars, historyVars
    <3> QED BY <3>1, <3>2
  <2>2. CASE RemoveTree(t)
    <3>1. todo # <<>>
      BY <2>2 DEF RemoveTree, Locks, RemovedIsFree
    <3> QED BY <2>0, <2>2, <3>1 DEF RemoveTree, Pruning, historyVars, Job
  <2> QED BY <2>1, <2>2
<1>2. view \in Seq(Dir) /\ todo \in Seq(Dir) /\ h \in Dir
  BY <1>1, ListOfJob
<1>3. /\ Distinct(view) /\ Distinct(todo) /\ ToSet(view) \cap ToSet(todo) = {}
      /\ job[t].dir \in ToSet(view)
      /\ \A d \in ToSet(index) : d \in ToSet(view) \cup ToSet(todo) \/ disk[d] = 0 \/ d \in missed
  BY <1>1 DEF PruneIsComplete, Pruning
<1>4. /\ Distinct(Append(view, h)) /\ Distinct(Tail(todo))
      /\ ToSet(Append(view, h)) = ToSet(view) \cup {h}
      /\ ToSet(todo) = ToSet(Tail(todo)) \cup {h} /\ h \notin ToSet(Tail(todo))
  BY <1>1, <1>2, <1>3, EntryMoves
<1>5. disk'[h] = 0 \/ disk' = disk
  BY <1>1, <1>2 DEF Typed, TypeOK
<1>6. \A d \in Dir : d # h => disk'[d] = disk[d]
  BY <1>1 DEF Typed, TypeOK
<1>7. \A d \in ToSet(index) : d \in Dir
  BY Elements DEF Typed, TypeOK
<1>8. PruningHoldsTheLock'
  BY <1>1 DEF PruningHoldsTheLock, Pruning
<1>9. PruneIsComplete'
  <2> SUFFICES ASSUME NEW u \in Thread, pc'[u] \in Pruning
               PROVE  /\ job'[u].dir \in ToSet(job'[u].view)
                      /\ Distinct(job'[u].view) /\ Distinct(job'[u].todo)
                      /\ ToSet(job'[u].view) \cap ToSet(job'[u].todo) = {}
                      /\ \A d \in ToSet(index) : \/ d \in ToSet(job'[u].view) \cup ToSet(job'[u].todo)
                                                 \/ disk'[d] = 0
                                                 \/ d \in missed'
    BY <1>1 DEF PruneIsComplete, Pruning
  <2>1. u = t
    BY <1>1 DEF PruningHoldsTheLock, Pruning
  <2> HIDE DEF h, view, todo, IndexInv, OwnersInv
  <2>2. CASE disk' = disk /\ job'[t].view = view /\ job'[t].todo = todo
    BY <1>1, <1>3, <2>1, <2>2
  <2>3. CASE disk' = disk /\ job'[t].view = Append(view, h) /\ job'[t].todo = Tail(todo)
    BY <1>1, <1>3, <1>4, <2>1, <2>3
  <2>4. CASE disk'[h] = 0 /\ job'[t].view = view /\ job'[t].todo = Tail(todo)
    BY <1>1, <1>3, <1>4, <1>6, <1>7, <2>1, <2>4
  <2>5. disk' = [disk EXCEPT ![h] = 0] => disk'[h] = 0
    BY <1>2 DEF OwnersInv, IndexInv, Typed, TypeOK
  <2> QED BY <1>1, <2>2, <2>3, <2>4, <2>5
<1>10. SavedIsListed'
  BY <1>1, <1>5, <1>6 DEF SavedIsListed
<1>11. Distinct(index)'
  BY <1>1 DEF Distinct
<1> QED BY <1>8, <1>9, <1>10, <1>11

LEMMA IndexWriteIndex ==
  ASSUME IndexInv, OwnersInv', NEW t \in Thread, WriteIndex(t)
  PROVE  IndexInv'
<1> USE DEF IndexInv, OwnersInv
<1>1. /\ pc[t] = "prune" /\ job[t].todo = <<>> /\ index' = job[t].view /\ wsLock' = None
      /\ missed' = missed \ {job[t].dir} /\ UNCHANGED disk /\ Saved(t)
  BY DEF WriteIndex
<1>2. /\ job[t].dir \in ToSet(job[t].view) /\ Distinct(job[t].view)
      /\ \A d \in ToSet(index) :
           d \in ToSet(job[t].view) \cup ToSet(job[t].todo) \/ disk[d] = 0 \/ d \in missed
  BY <1>1 DEF PruneIsComplete
<1>3. ToSet(job[t].todo) = {}
  BY <1>1 DEF ToSet
<1>4. \/ JobEnds(t)
      \/ job' = job /\ pc' = [pc EXCEPT ![t] = "release"]
  BY <1>1, SavedEffects
<1>5. \A u \in Thread : pc'[u] \notin Pruning
  <2>1. \A u \in Thread : u # t => pc[u] \notin Pruning
    BY <1>1 DEF PruningHoldsTheLock, Pruning
  <2> QED BY <1>1, <1>4, <2>1 DEF JobEnds, Typed, TypeOK, Pruning
<1>6. PruningHoldsTheLock' /\ PruneIsComplete'
  BY <1>1, <1>5, Threads DEF PruningHoldsTheLock, PruneIsComplete, Pruning
<1>7. SavedIsListed'
  BY <1>1, <1>2, <1>3 DEF SavedIsListed
<1>8. Distinct(index)'
  BY <1>1, <1>2 DEF Distinct
<1> QED BY <1>6, <1>7, <1>8

LEMMA IndexCrash ==
  ASSUME IndexInv, OwnersInv', NEW p \in Process, Crash(p)
  PROVE  IndexInv'
<1> USE DEF IndexInv, OwnersInv
<1>1. /\ UNCHANGED <<index, disk, missed>>
      /\ wsLock' = IF wsLock # None /\ ProcessOf(wsLock) = p THEN None ELSE wsLock
      /\ \A u \in Thread : IF ProcessOf(u) # p THEN pc'[u] = pc[u] /\ job'[u] = job[u]
                           ELSE pc'[u] = "idle"
  BY DEF Crash, historyVars
<1>2. PruningHoldsTheLock'
  BY <1>1, Threads DEF PruningHoldsTheLock
<1>3. PruneIsComplete'
  BY <1>1 DEF PruneIsComplete
<1>4. SavedIsListed' /\ Distinct(index)'
  BY <1>1 DEF SavedIsListed, Distinct
<1> QED BY <1>2, <1>3, <1>4

LEMMA IndexNext == IndexInv /\ [Next]_vars => IndexInv'
<1> SUFFICES ASSUME IndexInv, [Next]_vars PROVE IndexInv'
  OBVIOUS
<1>0. OwnersInv'
  BY OwnersNext DEF IndexInv
<1>1. CASE UNCHANGED vars
  <2>1. PruneGoesOn
    BY <1>1 DEF vars, diskVars, historyVars, PruneGoesOn
  <2> QED BY <1>0, <2>1, IndexStays
<1>2. CASE Next
  <2>1. ASSUME NEW t \in Thread, Touch(t) \/ Probe(t) \/ RemoveTree(t) \/ WriteIndex(t) PROVE IndexInv'
    BY <1>0, <2>1, IndexTouch, IndexProbe, IndexWriteIndex
  <2>2. ASSUME NEW p \in Process, Crash(p) PROVE IndexInv'
    BY <1>0, <2>2, IndexCrash
  <2>3. CASE PruneGoesOn
    BY <1>0, <2>3, IndexStays
  <2>4. \/ PruneGoesOn
        \/ \E t \in Thread : Touch(t) \/ Probe(t) \/ RemoveTree(t) \/ WriteIndex(t)
        \/ \E p \in Process : Crash(p)
    BY <1>2, QuietSteps DEF Next, Step, IndexInv
  <2> QED BY <2>1, <2>2, <2>3, <2>4
<1> QED BY <1>1, <1>2

(* Updates of sessions.json, each a read, a prune and a write under         *)
(* workspace.lock, do not undo each other: a directory with a saved session *)
(* is in the index, unless its own last update was skipped or cut short     *)
(* (touch_recent_session, workspace/session_store.py).                      *)
THEOREM SavedSessionsAreListed == Spec => []SavedIsListed
<1>1. Init => IndexInv
  <2> SUFFICES ASSUME Init PROVE IndexInv
    OBVIOUS
  <2>1. OwnersInv
    BY OwnersInit
  <2>2. PruningHoldsTheLock /\ PruneIsComplete
    BY Threads DEF Init, PruningHoldsTheLock, PruneIsComplete
  <2>3. Distinct(index) /\ SavedIsListed
    BY DEF Init, Distinct, SavedIsListed
  <2> QED BY <2>1, <2>2, <2>3 DEF IndexInv
<1>2. IndexInv => SavedIsListed
  BY DEF IndexInv
<1> QED BY <1>1, <1>2, IndexNext, PTL DEF Spec

-----------------------------------------------------------------------------
(* Saves                                                                    *)

(* A step of the threads of process p.                                      *)
ActsFor(p) ==
  /\ \A u \in Thread : ProcessOf(u) # p => pc'[u] = pc[u] /\ job'[u] = job[u]
  /\ \A q \in Process : q # p => live'[q] = live[q]
  /\ \A s \in Session :
       /\ host'[s] # host[s] => host[s] = None /\ host'[s] = p
       /\ host'[s] # p => claimed'[s] = claimed[s] /\ subdir'[s] = subdir[s] /\ turns'[s] = turns[s]
  /\ raced \subseteq raced' /\ setBack \subseteq setBack'

LEMMA MainActs ==
  ASSUME OwnersInv, NEW p \in Process,
         (\E d \in Dir : FirstTurn(p, d) \/ Restore(p, d)) \/ Turn(p) \/ Close(p) \/ Crash(p)
  PROVE  ActsFor(p)
<1>0. /\ pc \in [Thread -> {"idle", "opened", "write", "touch", "prune", "remove",
                           "release", "join", "armed", "done"}]
      /\ job \in [Thread -> Job] /\ live \in [Process -> 0..MaxSessions]
      /\ claimed \in [Session -> BOOLEAN] /\ subdir \in [Session -> Dir \cup {None}]
      /\ turns \in [Session -> 0..MaxTurns]
  BY DEF OwnersInv, Typed, TypeOK
<1>t. \A u \in Thread : ProcessOf(u) # p => u # Main(p)
  BY ProcessOfThread
<1>1. ASSUME NEW d \in Dir, FirstTurn(p, d) \/ Restore(p, d) PROVE ActsFor(p)
  <2>1. /\ opened + 1 \in Session /\ host[opened + 1] = None /\ host'[opened + 1] = p
        /\ \A r \in Session : r # opened + 1 => host'[r] = host[r]
    BY <1>1, SessionMade DEF FirstTurn, Restore, OwnersInv
  <2>2. /\ UNCHANGED <<raced, setBack, claimed>>
        /\ pc' = [pc EXCEPT ![Main(p)] = "opened"] /\ \E r : job' = [job EXCEPT ![Main(p)] = r]
        /\ live' = live \/ live' = [live EXCEPT ![p] = opened + 1]
        /\ subdir' = subdir \/ subdir' = [subdir EXCEPT ![opened + 1] = d]
        /\ turns' = turns \/ turns' = [turns EXCEPT ![opened + 1] = 1]
    BY <1>1 DEF FirstTurn, Restore, OpenLock, historyVars
  <2>3. \A r \in Session : r # opened + 1 => subdir'[r] = subdir[r] /\ turns'[r] = turns[r]
    BY <1>0, <2>2
  <2>4. \A q \in Process : q # p => live'[q] = live[q]
    BY <1>0, <2>2
  <2>5. \A u \in Thread : u # Main(p) => pc'[u] = pc[u] /\ job'[u] = job[u]
    BY <1>0, <2>2
  <2> QED BY <1>t, <2>1, <2>2, <2>3, <2>4, <2>5 DEF ActsFor
<1>2. ASSUME Turn(p) \/ Close(p) PROVE ActsFor(p)
  <2>1. live[p] \in Session /\ host[live[p]] = p
    BY <1>2 DEF Turn, Close, HasClaim, OwnersInv, JobsInv, SessionsAreHosted, Typed, TypeOK, Session
  <2>2. /\ UNCHANGED <<live, host, claimed, subdir, raced, setBack>>
        /\ \E n : turns' = [turns EXCEPT ![live[p]] = n]
        /\ pc' = [pc EXCEPT ![Main(p)] = "write"] /\ \E r : job' = [job EXCEPT ![Main(p)] = r]
    BY <1>2 DEF Turn, Close, Saving, historyVars
  <2>3. \A r \in Session : r # live[p] => turns'[r] = turns[r]
    BY <1>0, <2>2
  <2>4. \A u \in Thread : u # Main(p) => pc'[u] = pc[u] /\ job'[u] = job[u]
    BY <1>0, <2>2
  <2> QED BY <1>t, <2>1, <2>2, <2>3, <2>4 DEF ActsFor
<1>3. ASSUME Crash(p) PROVE ActsFor(p)
  <2>1. /\ \A u \in Thread : ProcessOf(u) # p => pc'[u] = pc[u] /\ job'[u] = job[u]
        /\ live' = [live EXCEPT ![p] = 0]
        /\ \A s \in Session : host[s] # p => /\ claimed'[s] = claimed[s] /\ subdir'[s] = subdir[s]
                                             /\ turns'[s] = turns[s]
        /\ UNCHANGED <<host, raced, setBack>>
    BY <1>0, <1>3 DEF Crash, historyVars
  <2>2. \A q \in Process : q # p => live'[q] = live[q]
    BY <1>0, <2>1
  <2> QED BY <2>1, <2>2 DEF ActsFor
<1> QED BY <1>1, <1>2, <1>3

LEMMA ThreadActs ==
  ASSUME OwnersInv, NEW t \in Thread, Step(t), NEW p \in Process, ProcessOf(t) = p
  PROVE  ActsFor(p)
<1> USE DEF OwnersInv
<1>0. /\ pc \in [Thread -> {"idle", "opened", "write", "touch", "prune", "remove",
                           "release", "join", "armed", "done"}]
      /\ job \in [Thread -> Job] /\ live \in [Process -> 0..MaxSessions]
      /\ claimed \in [Session -> BOOLEAN] /\ subdir \in [Session -> Dir \cup {None}]
      /\ turns \in [Session -> 0..MaxTurns]
  BY DEF Typed, TypeOK
<1>w. /\ pc[t] # "idle" /\ pc[t] \in ActivePC
  BY DEF Step, NoLock, Claim, Adopt, Lock, WriteState, Touch, SkipTouch, Probe, RemoveTree, WriteIndex,
         Release, Join, ActivePC
<1>o. job[t].obj \in Session /\ host[job[t].obj] = p
  <2>1. CASE \E q \in Process : t = Main(q) /\ MainIsInOrder(q)
    BY <1>w, <2>1, WorkerInOrder, ProcessOfThread DEF JobIsOwn, MainIsInOrder
  <2>2. CASE \E s \in Session : t = Naming(s) /\ NamingIsInOrder(s)
    BY <1>w, <2>2, WorkerInOrder, ProcessOfThread DEF JobIsOwn, NamingIsInOrder
  <2> QED BY <1>w, <2>1, <2>2, WorkerInOrder
<1>t. \A u \in Thread : ProcessOf(u) # p => u # t /\ u # Naming(job[t].obj)
  BY <1>o, ProcessOfThread
<1>1. CASE NoLock(t)
  BY <1>0, <1>1, <1>t DEF NoLock, Finish, ActsFor, sessionVars, historyVars
<1>2. CASE Claim(t)
  <2>1. /\ UNCHANGED <<live, subdir, turns, host, setBack>> /\ raced \subseteq raced'
        /\ claimed' = [claimed EXCEPT ![job[t].obj] = TRUE]
        /\ pc' = [pc EXCEPT ![t] = "write"] /\ \E r : job' = [job EXCEPT ![t] = r]
    BY <1>2 DEF Claim, Lock, Saving
  <2> QED BY <1>0, <1>o, <1>t, <2>1 DEF ActsFor
<1>3. CASE Adopt(t)
  <2> DEFINE o == job[t].obj
  <2>1. /\ UNCHANGED <<host, setBack>> /\ raced \subseteq raced'
        /\ claimed' = [claimed EXCEPT ![o] = TRUE] /\ subdir' = [subdir EXCEPT ![o] = job[t].dir]
        /\ \/ pc' = [pc EXCEPT ![t] = "write"]
           \/ pc' = [pc EXCEPT ![t] = IF t[2] = "main" THEN "idle" ELSE "done"]
        /\ \E r : job' = [job EXCEPT ![t] = r]
        /\ live' = live \/ live' = [live EXCEPT ![p] = o]
        /\ \E m, n : \/ turns' = [turns EXCEPT ![o] = m]
                     \/ live[p] # 0 /\ turns' = [turns EXCEPT ![o] = m, ![live[p]] = n]
    BY <1>3 DEF Adopt, Lock, Saving, Finish, HasClaim
  <2>2. live[p] # 0 => live[p] \in Session /\ host[live[p]] = p
    BY DEF JobsInv, SessionsAreHosted, Typed, TypeOK, Session
  <2>3. \A r \in Session : host[r] # p => claimed'[r] = claimed[r] /\ subdir'[r] = subdir[r]
    BY <1>0, <1>o, <2>1
  <2>4. \A r \in Session : host[r] # p => turns'[r] = turns[r]
    <3> SUFFICES ASSUME NEW r \in Session, host[r] # p PROVE turns'[r] = turns[r]
      OBVIOUS
    <3>1. r # o /\ (live[p] # 0 => r # live[p])
      BY <1>o, <2>2
    <3> HIDE DEF o, OwnersInv
    <3> QED BY <1>0, <2>1, <3>1
  <2>5. \A q \in Process : q # p => live'[q] = live[q]
    BY <1>0, <2>1
  <2>6. \A u \in Thread : u # t => pc'[u] = pc[u] /\ job'[u] = job[u]
    BY <1>0, <2>1
  <2> QED BY <1>t, <2>1, <2>3, <2>4, <2>5, <2>6 DEF ActsFor
<1>4. CASE WriteState(t)
  BY <1>0, <1>4, <1>t DEF WriteState, ActsFor, sessionVars
<1>5. CASE Touch(t)
  <2>1. /\ UNCHANGED <<sessionVars, raced, setBack>> /\ pc' = [pc EXCEPT ![t] = "prune"]
        /\ \A u \in Thread : u # t => job'[u] = job[u]
    BY <1>0, <1>5 DEF Touch, historyVars
  <2> QED BY <1>0, <1>t, <2>1 DEF ActsFor, sessionVars
<1>6. CASE SkipTouch(t) \/ WriteIndex(t)
  <2>1. pc[t] \in {"touch", "prune"} /\ Saved(t) /\ UNCHANGED <<sessionVars, raced, setBack>>
    BY <1>6 DEF SkipTouch, WriteIndex, historyVars
  <2>2. JobEnds(t) \/ (job' = job /\ pc' = [pc EXCEPT ![t] = "release"])
    BY <2>1, SavedEffects
  <2>3. \A u \in Thread : u # t /\ u # Naming(job[t].obj) => pc'[u] = pc[u] /\ job'[u] = job[u]
    BY <1>0, <2>2 DEF JobEnds
  <2> QED BY <1>t, <2>1, <2>3 DEF ActsFor, sessionVars
<1>7. CASE Probe(t) \/ RemoveTree(t)
  <2>1. UNCHANGED <<sessionVars, raced, setBack>>
    BY <1>7 DEF Probe, RemoveTree, historyVars
  <2>2. \A u \in Thread : u # t => pc'[u] = pc[u] /\ job'[u] = job[u]
    BY <1>0, <1>7 DEF Probe, RemoveTree
  <2> QED BY <1>t, <2>1, <2>2 DEF ActsFor, sessionVars
<1>8. CASE Release(t)
  <2>1. /\ UNCHANGED <<host, subdir, turns, raced, setBack>>
        /\ claimed' = [claimed EXCEPT ![job[t].obj] = FALSE]
        /\ \E r : live' = [live EXCEPT ![p] = r] \/ live' = live
        /\ \A u \in Thread : u # t => pc'[u] = pc[u] /\ job'[u] = job[u]
    BY <1>0, <1>8 DEF Release, Closed, historyVars
  <2> QED BY <1>0, <1>o, <1>t, <2>1 DEF ActsFor
<1>9. CASE Join(t)
  <2>1. /\ UNCHANGED <<host, subdir, turns, claimed, raced, setBack>>
        /\ \E r : live' = [live EXCEPT ![p] = r]
        /\ \A u \in Thread : u # t /\ u # Naming(job[t].obj) => pc'[u] = pc[u] /\ job'[u] = job[u]
    BY <1>0, <1>9 DEF Join, Closed, historyVars
  <2> QED BY <1>0, <1>t, <2>1 DEF ActsFor
<1> QED BY <1>1, <1>2, <1>3, <1>4, <1>5, <1>6, <1>7, <1>8, <1>9 DEF Step

LEMMA NamingActs ==
  ASSUME OwnersInv, NEW s \in Session, NamingReply(s), NEW p \in Process, host[s] = p
  PROVE  ActsFor(p)
<1>0. /\ pc \in [Thread -> {"idle", "opened", "write", "touch", "prune", "remove",
                           "release", "join", "armed", "done"}]
      /\ job \in [Thread -> Job]
  BY DEF OwnersInv, Typed, TypeOK
<1>1. /\ UNCHANGED <<subdir, turns, host, live, claimed, raced, setBack>>
      /\ pc' = [pc EXCEPT ![Naming(s)] = "write"] \/ pc' = [pc EXCEPT ![Naming(s)] = "opened"]
      /\ \E r : job' = [job EXCEPT ![Naming(s)] = r]
  BY DEF NamingReply, Saving, OpenLock, historyVars
<1>2. \A u \in Thread : ProcessOf(u) # p => u # Naming(s)
  BY ProcessOfThread
<1> QED BY <1>0, <1>1, <1>2 DEF ActsFor

(* Sessions of other processes.                                             *)
LEMMA OtherSession ==
  ASSUME SavesInv, OwnersInv', NEW p \in Process, ActsFor(p), NEW r \in Session, host'[r] # p,
         subdir[r] \in Trusted' => disk'[subdir[r]] = disk[subdir[r]]
  PROVE  UseIsSaved(r)' /\ NamingIsBehind(r)'
<1>1. CASE host'[r] = None
  <2>1. pc'[Naming(r)] = "idle" /\ ~claimed'[r]
    BY <1>1, StoreAssumption DEF OwnersInv, JobsInv, SessionsAreHosted
  <2> QED BY <2>1 DEF UseIsSaved, InUse, NamingIsBehind
<1>2. CASE host'[r] # None
  <2>1. host'[r] = host[r] /\ host[r] \in Process /\ host[r] # p
    BY <1>2 DEF ActsFor, SavesInv, OwnersInv, Typed, TypeOK
  <2>2. PICK q \in Process : q = host[r]
    BY <2>1
  <2>3. /\ claimed'[r] = claimed[r] /\ subdir'[r] = subdir[r] /\ turns'[r] = turns[r] /\ host'[r] = q
        /\ live'[q] = live[q] /\ q # p
    BY <2>1, <2>2 DEF ActsFor
  <2>4. /\ pc'[Main(q)] = pc[Main(q)] /\ job'[Main(q)] = job[Main(q)]
        /\ pc'[Naming(r)] = pc[Naming(r)] /\ job'[Naming(r)] = job[Naming(r)]
    BY <2>2, <2>3, Threads, ProcessOfThread DEF ActsFor
  <2>5. \A x \in Session : host'[x] = q <=> host[x] = q
    BY <2>3, StoreAssumption DEF ActsFor
  <2>6. IsNewest(q, r)' <=> IsNewest(q, r)
    BY <2>5 DEF IsNewest
  <2>7. (InUse(r)' <=> InUse(r)) /\ (Writing(r)' <=> Writing(r))
    BY <2>2, <2>3, <2>4, <2>6 DEF InUse, Writing
  <2>8. subdir[r] \in Trusted' => subdir[r] \in Trusted /\ disk'[subdir[r]] = disk[subdir[r]]
    BY DEF ActsFor, Trusted
  <2>9. UseIsSaved(r) /\ NamingIsBehind(r)
    BY DEF SavesInv, SavedSoFar
  <2>10. UseIsSaved(r)'
    BY <2>2, <2>3, <2>4, <2>7, <2>8, <2>9 DEF UseIsSaved
  <2>11. NamingIsBehind(r)'
    BY <2>2, <2>3, <2>4, <2>7, <2>8, <2>9 DEF NamingIsBehind
  <2> QED BY <2>10, <2>11
<1> QED BY <1>1, <1>2

(* A session nobody uses or names.                                          *)
LEMMA UnusedSession ==
  ASSUME NEW r \in Session, ~InUse(r)', pc'[Naming(r)] = "idle"
  PROVE  UseIsSaved(r)' /\ NamingIsBehind(r)'
BY DEF UseIsSaved, NamingIsBehind

(* A step of a thread at work changes its own job, and its session's naming *)
(* thread.                                                                  *)
Moves(t) ==
  /\ \A u \in Thread : u # t =>
       /\ job'[u] = job[u]
       /\ \/ pc'[u] = pc[u]
          \/ /\ u = Naming(job[t].obj) /\ pc[u] = "idle" /\ pc'[u] = "armed"
             /\ t[2] = "main" /\ job[t].goal = "claim"
          \/ u = Naming(job[t].obj) /\ pc[u] = "armed" /\ pc'[u] = "idle"
  /\ \/ /\ pc'[t] \in ActivePC \ {"opened"}
        /\ job'[t].goal = job[t].goal /\ job'[t].obj = job[t].obj
     \/ pc'[t] = "write" /\ job'[t].goal = "replace" /\ job[t].goal = "restore"
     \/ pc'[t] \in {"idle", "done"} /\ job'[t] = NoJob

LEMMA ThreadMoves ==
  ASSUME OwnersInv, NEW t \in Thread, Step(t)
  PROVE  Moves(t) /\ pc[t] \in ActivePC
<1> USE DEF OwnersInv
<1>0. /\ pc \in [Thread -> {"idle", "opened", "write", "touch", "prune", "remove",
                           "release", "join", "armed", "done"}]
      /\ job \in [Thread -> Job]
  BY DEF Typed, TypeOK
<1>w. /\ pc[t] # "idle" /\ pc[t] \in ActivePC
  BY DEF Step, NoLock, Claim, Adopt, Lock, WriteState, Touch, SkipTouch, Probe, RemoveTree, WriteIndex,
         Release, Join, ActivePC
<1>1. CASE NoLock(t)
  BY <1>0, <1>1, <1>w DEF NoLock, Finish, Moves
<1>2. CASE Claim(t)
  <2>1. /\ pc' = [pc EXCEPT ![t] = "write"] /\ job[t].goal = "claim"
        /\ job' = [job EXCEPT ![t] = [NoJob EXCEPT !.goal = "claim", !.obj = job[t].obj,
                                                   !.dir = subdir'[job[t].obj], !.turns = turns'[job[t].obj]]]
    BY <1>2 DEF Claim, Saving
  <2> QED BY <1>0, <1>w, <2>1, NoJobTyped DEF Moves, ActivePC, Job
<1>3. CASE Adopt(t)
  <2>1. CASE HasClaim(ProcessOf(t))
    <3>1. /\ pc' = [pc EXCEPT ![t] = "write"] /\ job[t].goal = "restore"
          /\ job' = [job EXCEPT ![t] = [NoJob EXCEPT !.goal = "replace", !.obj = live[ProcessOf(t)],
                                                     !.dir = subdir'[live[ProcessOf(t)]],
                                                     !.turns = turns'[live[ProcessOf(t)]]]]
      BY <1>3, <2>1 DEF Adopt, Saving
    <3> QED BY <1>0, <1>w, <3>1, NoJobTyped DEF Moves, ActivePC, Job
  <2>2. CASE ~HasClaim(ProcessOf(t))
    <3>1. Finish(t)
      BY <1>3, <2>2 DEF Adopt
    <3> QED BY <1>0, <1>w, <3>1 DEF Finish, Moves
  <2> QED BY <2>1, <2>2
<1>4. CASE WriteState(t)
  BY <1>0, <1>4, <1>w DEF WriteState, Moves, ActivePC
<1>5. CASE Touch(t)
  <2>1. pc' = [pc EXCEPT ![t] = "prune"]
        /\ \E v, w : job' = [job EXCEPT ![t] = [job[t] EXCEPT !.view = v, !.todo = w]]
    BY <1>0, <1>5 DEF Touch
  <2> QED BY <1>0, <1>w, <2>1 DEF Moves, ActivePC, Job
<1>6. CASE SkipTouch(t) \/ WriteIndex(t)
  <2>1. pc[t] \in {"touch", "prune"} /\ Saved(t)
    BY <1>6 DEF SkipTouch, WriteIndex
  <2>2. JobEnds(t) \/ (job' = job /\ pc' = [pc EXCEPT ![t] = "release"])
    BY <2>1, SavedEffects
  <2>3. CASE JobEnds(t)
    <3>1. pc'[t] \in {"idle", "done"} /\ job'[t] = NoJob
      <4>1. t = Naming(job[t].obj) => t[2] # "main"
        BY <1>w, WorkerInOrder, Threads, ThreadsDiffer DEF NamingIsInOrder, JobIsOwn
      <4> QED BY <2>3, <4>1 DEF JobEnds
    <3> QED BY <1>w, <2>3, <3>1 DEF JobEnds, Moves
  <2>4. CASE job' = job /\ pc' = [pc EXCEPT ![t] = "release"]
    BY <1>0, <1>w, <2>4 DEF Moves, ActivePC
  <2> QED BY <2>2, <2>3, <2>4
<1>7. CASE Probe(t)
  <2>1. CASE Keep(Head(job[t].todo))
    <3>1. /\ pc' = pc /\ pc[t] = "prune"
          /\ \E v, w : job' = [job EXCEPT ![t] = [job[t] EXCEPT !.view = v, !.todo = w]]
      BY <1>0, <1>7, <2>1 DEF Probe
    <3> QED BY <1>0, <1>w, <3>1 DEF Moves, ActivePC, Job
  <2>2. CASE ~Keep(Head(job[t].todo))
    BY <1>0, <1>7, <1>w, <2>2 DEF Probe, Moves, ActivePC
  <2> QED BY <2>1, <2>2
<1>8. CASE RemoveTree(t)
  <2>1. /\ pc' = [pc EXCEPT ![t] = "prune"]
        /\ \E w : job' = [job EXCEPT ![t] = [job[t] EXCEPT !.todo = w]]
    BY <1>0, <1>8 DEF RemoveTree
  <2> QED BY <1>0, <1>w, <2>1 DEF Moves, ActivePC, Job
<1>9. CASE Release(t)
  BY <1>0, <1>9, <1>w DEF Release, Closed, Moves, ActivePC
<1>10. CASE Join(t)
  <2>1. job[t].obj \in Session /\ Naming(job[t].obj) # t
    BY <1>10, Closer, ThreadsDiffer DEF Join
  <2>2. /\ pc' = [pc EXCEPT ![t] = "idle",
                            ![Naming(job[t].obj)] = IF pc[Naming(job[t].obj)] = "armed"
                                                      THEN "idle" ELSE pc[Naming(job[t].obj)]]
        /\ job' = [job EXCEPT ![t] = NoJob]
    BY <1>10, <2>1 DEF Join, Closed
  <2> QED BY <1>0, <1>w, <2>1, <2>2 DEF Moves
<1> QED BY <1>w, <1>1, <1>2, <1>3, <1>4, <1>5, <1>6, <1>7, <1>8, <1>9, <1>10 DEF Step

(* What a thread at work may change of its process's sessions.              *)
LEMMA ThreadWrites ==
  ASSUME OwnersInv, NEW t \in Thread, Step(t)
  PROVE  /\ UNCHANGED <<host, gen>>
         /\ UNCHANGED <<subdir, turns>> \/ Adopt(t)
         /\ disk' = disk \/ WriteState(t) \/ RemoveTree(t)
BY DEF Step, NoLock, Claim, Adopt, Lock, WriteState, Touch, SkipTouch, Probe, RemoveTree, WriteIndex,
       Release, Join, diskVars, sessionVars

(* The main thread of a process begins something.                           *)
LEMMA MainBegins ==
  ASSUME OwnersInv, NEW p \in Process,
         (\E d \in Dir : FirstTurn(p, d) \/ Restore(p, d)) \/ Turn(p) \/ Close(p)
  PROVE  /\ pc[Main(p)] = "idle" /\ pc'[Main(p)] \in {"opened", "write"}
         /\ \A u \in Thread : u # Main(p) => pc'[u] = pc[u] /\ job'[u] = job[u]
         /\ UNCHANGED <<disk, claimed, raced, setBack>>
         /\ job'[Main(p)].goal # "claim" \/ \E d \in Dir : FirstTurn(p, d)
<1>0. /\ pc \in [Thread -> {"idle", "opened", "write", "touch", "prune", "remove",
                           "release", "join", "armed", "done"}]
      /\ job \in [Thread -> Job] /\ Main(p) \in Thread
  BY Threads DEF OwnersInv, Typed, TypeOK
<1>1. ASSUME NEW d \in Dir, FirstTurn(p, d)
      PROVE  /\ pc[Main(p)] = "idle" /\ pc'[Main(p)] \in {"opened", "write"}
             /\ \A u \in Thread : u # Main(p) => pc'[u] = pc[u] /\ job'[u] = job[u]
             /\ UNCHANGED <<disk, claimed, raced, setBack>>
  BY <1>0, <1>1 DEF FirstTurn, OpenLock, Idle, historyVars
<1>2. ASSUME NEW d \in Dir, Restore(p, d)
      PROVE  /\ pc[Main(p)] = "idle" /\ pc'[Main(p)] \in {"opened", "write"}
             /\ \A u \in Thread : u # Main(p) => pc'[u] = pc[u] /\ job'[u] = job[u]
             /\ UNCHANGED <<disk, claimed, raced, setBack>> /\ job'[Main(p)].goal = "restore"
  <2>1. /\ pc[Main(p)] = "idle" /\ pc' = [pc EXCEPT ![Main(p)] = "opened"]
        /\ job' = [job EXCEPT ![Main(p)] = [NoJob EXCEPT !.goal = "restore", !.obj = opened + 1, !.dir = d,
                                                         !.gen = gen'[d]]]
        /\ UNCHANGED <<disk, claimed, raced, setBack>>
    BY <1>2 DEF Restore, OpenLock, Idle, historyVars
  <2> QED BY <1>0, <2>1, NoJobTyped DEF Job
<1>3. ASSUME Turn(p) \/ Close(p)
      PROVE  /\ pc[Main(p)] = "idle" /\ pc'[Main(p)] \in {"opened", "write"}
             /\ \A u \in Thread : u # Main(p) => pc'[u] = pc[u] /\ job'[u] = job[u]
             /\ UNCHANGED <<disk, claimed, raced, setBack>> /\ job'[Main(p)].goal \in {"save", "close"}
  <2>1. /\ pc[Main(p)] = "idle" /\ pc' = [pc EXCEPT ![Main(p)] = "write"]
        /\ \E goal \in {"save", "close"} :
             job' = [job EXCEPT ![Main(p)] = [NoJob EXCEPT !.goal = goal, !.obj = live[p],
                                                !.dir = subdir'[live[p]], !.turns = turns'[live[p]]]]
        /\ UNCHANGED <<disk, claimed, raced, setBack>>
    BY <1>3 DEF Turn, Close, Saving, Idle, diskVars, historyVars
  <2> QED BY <1>0, <2>1, NoJobTyped DEF Job
<1> QED BY <1>1, <1>2, <1>3

LEMMA NamingBegins ==
  ASSUME OwnersInv, NEW s \in Session, NamingReply(s)
  PROVE  /\ pc[Naming(s)] = "armed" /\ pc'[Naming(s)] \in {"opened", "write"}
         /\ \A u \in Thread : u # Naming(s) => pc'[u] = pc[u] /\ job'[u] = job[u]
         /\ UNCHANGED <<disk, host, live, claimed, subdir, turns, raced, setBack>>
<1>0. /\ pc \in [Thread -> {"idle", "opened", "write", "touch", "prune", "remove",
                           "release", "join", "armed", "done"}]
      /\ job \in [Thread -> Job] /\ Naming(s) \in Thread
  BY Threads DEF OwnersInv, Typed, TypeOK
<1>1. /\ pc[Naming(s)] = "armed"
      /\ UNCHANGED <<disk, host, live, claimed, subdir, turns, raced, setBack>>
      /\ pc' = [pc EXCEPT ![Naming(s)] = "write"] \/ pc' = [pc EXCEPT ![Naming(s)] = "opened"]
      /\ \E r : job' = [job EXCEPT ![Naming(s)] = r]
  BY DEF NamingReply, Saving, OpenLock, historyVars
<1> QED BY <1>0, <1>1

LEMMA JobsStayClear ==
  ASSUME OwnersInv, JobsAreClear, Next
  PROVE  JobsAreClear'
<1>1. ASSUME NEW p \in Process,
             (\E d \in Dir : FirstTurn(p, d) \/ Restore(p, d)) \/ Turn(p) \/ Close(p)
      PROVE  JobsAreClear'
  <2>1. /\ pc'[Main(p)] \in {"opened", "write"}
        /\ \A u \in Thread : u # Main(p) => pc'[u] = pc[u] /\ job'[u] = job[u]
    BY <1>1, MainBegins
  <2> QED BY <2>1 DEF JobsAreClear, ActivePC
<1>2. ASSUME NEW p \in Process, Crash(p) PROVE JobsAreClear'
  BY <1>2 DEF Crash, JobsAreClear
<1>3. ASSUME NEW t \in Thread, Step(t) PROVE JobsAreClear'
  <2>1. Moves(t)
    BY <1>3, ThreadMoves
  <2> QED BY <2>1 DEF Moves, JobsAreClear, ActivePC
<1>4. ASSUME NEW s \in Session, NamingReply(s) PROVE JobsAreClear'
  <2>1. /\ pc'[Naming(s)] \in {"opened", "write"}
        /\ \A u \in Thread : u # Naming(s) => pc'[u] = pc[u] /\ job'[u] = job[u]
    BY <1>4, NamingBegins
  <2> QED BY <2>1 DEF JobsAreClear, ActivePC
<1> QED BY <1>1, <1>2, <1>3, <1>4 DEF Next

(* Only a first turn founds a session.                                      *)
LEMMA FoundersStayAlone ==
  ASSUME OwnersInv, OwnersInv', FoundersAreAlone, Next
  PROVE  FoundersAreAlone'
<1> USE DEF OwnersInv
<1>n. \A q \in Process : q # None
  BY StoreAssumption
<1>d. ASSUME \A s \in Session : Founder(s)' => Founder(s) /\ subdir'[s] = subdir[s]
      PROVE  FoundersAreAlone'
  BY <1>d DEF FoundersAreAlone
<1>1. ASSUME NEW p \in Process, NEW d \in Dir, FirstTurn(p, d) PROVE FoundersAreAlone'
  <2>b. opened + 1 \in Session
    BY <1>1, SessionMade DEF FirstTurn
  <2>s. PICK o \in Session : o = opened + 1
    BY <2>b
  <2>1. /\ host[o] = None /\ pc[Naming(o)] = "idle"
        /\ \A r \in Session : r # o => host'[r] = host[r]
    BY <1>1, <2>s, SessionMade DEF FirstTurn
  <2>2. \A u \in Thread : u # Main(p) => pc'[u] = pc[u] /\ job'[u] = job[u]
    BY <1>1, MainBegins
  <2>3. job'[Main(p)].obj = o
    BY <1>1, <2>s, LockOpened, Threads DEF FirstTurn
  <2>4. gen[d] = 0 /\ subdir'[o] = d /\ \A r \in Session : r # o => subdir'[r] = subdir[r]
    BY <1>1, <2>s DEF FirstTurn, Typed, TypeOK
  <2>5. \A r \in Session : r # o => subdir[r] # d
    BY <2>4 DEF JobsInv, SessionsAreHosted
  <2>6. ASSUME NEW r \in Session, r # o, Founder(r)' PROVE Founder(r)
    <3>1. pc'[Naming(r)] = pc[Naming(r)]
      BY <2>2, Threads, ThreadsDiffer
    <3>2. CASE pc[Naming(r)] # "idle"
      BY <3>2 DEF Founder
    <3>3. CASE pc[Naming(r)] = "idle"
      <4>1. /\ host[r] # None /\ pc'[Main(host[r])] \in ActivePC
            /\ job'[Main(host[r])].obj = r /\ job'[Main(host[r])].goal = "claim"
        BY <2>1, <2>6, <3>1, <3>3 DEF Founder
      <4>2. Main(host[r]) # Main(p)
        BY <2>3, <2>6, <4>1
      <4>3. Main(host[r]) \in Thread
        BY <4>1, Threads DEF Typed, TypeOK
      <4> QED BY <2>2, <4>1, <4>2, <4>3 DEF Founder
    <3> QED BY <3>2, <3>3
  <2> QED BY <2>4, <2>5, <2>6 DEF FoundersAreAlone
<1>2. ASSUME NEW p \in Process, (\E d \in Dir : Restore(p, d)) \/ Turn(p) \/ Close(p),
             ~\E d \in Dir : FirstTurn(p, d)
      PROVE  FoundersAreAlone'
  <2>1. /\ pc[Main(p)] = "idle"
        /\ \A u \in Thread : u # Main(p) => pc'[u] = pc[u] /\ job'[u] = job[u]
        /\ job'[Main(p)].goal # "claim"
    BY <1>2, MainBegins
  <2>2. subdir' = subdir /\ \A r \in Session : host'[r] # host[r] => host[r] = None /\ host'[r] = p
    BY <1>2, MainActs DEF Restore, Turn, Close, ActsFor
  <2>4. ASSUME NEW r \in Session, Founder(r)' PROVE Founder(r)
    <3>1. pc'[Naming(r)] = pc[Naming(r)]
      BY <2>1, Threads, ThreadsDiffer
    <3>2. CASE pc[Naming(r)] # "idle"
      BY <3>2 DEF Founder
    <3>3. CASE pc[Naming(r)] = "idle"
      <4>1. /\ host'[r] # None /\ pc'[Main(host'[r])] \in ActivePC
            /\ job'[Main(host'[r])].obj = r /\ job'[Main(host'[r])].goal = "claim"
        BY <2>4, <3>1, <3>3 DEF Founder
      <4>2. host'[r] # p
        BY <2>1, <4>1
      <4>3. host'[r] = host[r] /\ host[r] \in Process
        BY <2>2, <4>1, <4>2 DEF Typed, TypeOK
      <4>4. pc'[Main(host[r])] = pc[Main(host[r])] /\ job'[Main(host[r])] = job[Main(host[r])]
        BY <2>1, <4>2, <4>3, Threads, ThreadsDiffer
      <4> QED BY <4>1, <4>3, <4>4 DEF Founder
    <3> QED BY <3>2, <3>3
  <2> QED BY <1>d, <2>2, <2>4
<1>3. ASSUME NEW p \in Process, Crash(p) PROVE FoundersAreAlone'
  <2>1. /\ UNCHANGED host
        /\ \A u \in Thread : IF ProcessOf(u) # p THEN pc'[u] = pc[u] /\ job'[u] = job[u] ELSE pc'[u] = "idle"
        /\ \A r \in Session : host[r] # p => subdir'[r] = subdir[r]
    BY <1>3 DEF Crash
  <2>2. ASSUME NEW r \in Session, Founder(r)' PROVE Founder(r) /\ subdir'[r] = subdir[r]
    <3>1. CASE host[r] = p
      <4>1. pc'[Naming(r)] = "idle" /\ pc'[Main(p)] = "idle"
        BY <2>1, <3>1, Threads, ProcessOfThread
      <4> QED BY <2>1, <2>2, <3>1, <4>1 DEF Founder, ActivePC
    <3>2. CASE host[r] # p
      <4>1. pc'[Naming(r)] = pc[Naming(r)]
        BY <2>1, <3>2, Threads, ProcessOfThread
      <4>2. host[r] # None => /\ pc'[Main(host[r])] = pc[Main(host[r])]
                              /\ job'[Main(host[r])] = job[Main(host[r])]
        BY <2>1, <3>2, Threads, ProcessOfThread DEF Typed, TypeOK
      <4> QED BY <2>1, <2>2, <3>2, <4>1, <4>2 DEF Founder
    <3> QED BY <3>1, <3>2
  <2> QED BY <1>d, <2>2
<1>4. ASSUME NEW t \in Thread, Step(t) PROVE FoundersAreAlone'
  <2>1. Moves(t) /\ pc[t] \in ActivePC
    BY <1>4, ThreadMoves
  <2>2. UNCHANGED host /\ (UNCHANGED subdir \/ Adopt(t))
    BY <1>4, ThreadWrites
  <2>w. pc[t] # "idle"
    BY <2>1 DEF ActivePC
  <2>o. /\ job[t].obj \in Session
        /\ (\E p \in Process : t = Main(p) /\ MainIsInOrder(p)) \/ \E s \in Session : t = Naming(s)
    BY <2>1, <2>w, WorkerInOrder DEF JobIsOwn
  <2>3. ASSUME NEW r \in Session, Founder(r)' PROVE Founder(r)
    <3>1. CASE pc'[Naming(r)] # "idle"
      <4>1. CASE Naming(r) = t \/ pc'[Naming(r)] = pc[Naming(r)]
        BY <2>w, <3>1, <4>1 DEF Founder
      <4>2. CASE Naming(r) # t /\ pc'[Naming(r)] # pc[Naming(r)]
        <5>1. Naming(r) = Naming(job[t].obj) /\ t[2] = "main" /\ job[t].goal = "claim"
          BY <2>1, <3>1, <4>2, Threads DEF Moves
        <5>2. r = job[t].obj
          BY <2>o, <5>1, ThreadsDiffer
        <5>3. PICK p \in Process : t = Main(p) /\ MainIsInOrder(p)
          BY <2>o, <5>1, Threads
        <5>4. host[r] = p
          BY <2>1, <5>2, <5>3 DEF MainIsInOrder
        <5> QED BY <1>n, <2>1, <5>1, <5>2, <5>3, <5>4 DEF Founder
      <4> QED BY <4>1, <4>2
    <3>2. CASE pc'[Naming(r)] = "idle"
      <4>1. /\ host[r] # None /\ pc'[Main(host[r])] \in ActivePC
            /\ job'[Main(host[r])].obj = r /\ job'[Main(host[r])].goal = "claim"
        BY <2>2, <2>3, <3>2 DEF Founder
      <4>2. host[r] \in Process
        BY <4>1 DEF Typed, TypeOK
      <4>3. CASE Main(host[r]) = t
        BY <2>1, <4>1, <4>3 DEF Moves, Founder, ActivePC
      <4>4. CASE Main(host[r]) # t
        <5>1. pc'[Main(host[r])] = pc[Main(host[r])] /\ job'[Main(host[r])] = job[Main(host[r])]
          BY <2>1, <2>o, <4>2, <4>4, Threads, ThreadsDiffer DEF Moves
        <5> QED BY <4>1, <5>1 DEF Founder
      <4> QED BY <4>3, <4>4
    <3> QED BY <3>1, <3>2
  <2>4. ASSUME NEW r \in Session, Founder(r)' PROVE subdir'[r] = subdir[r]
    <3>1. CASE UNCHANGED subdir
      BY <3>1
    <3>2. CASE Adopt(t)
      <4>1. PICK p \in Process : t = Main(p) /\ MainIsInOrder(p)
        BY <2>w, <3>2, WorkerInOrder DEF Adopt, NamingIsInOrder, ActivePC, Lock
      <4>2. job[t].goal = "restore" /\ host[job[t].obj] = p /\ pc[Naming(job[t].obj)] = "idle"
        BY <2>1, <3>2, <4>1 DEF Adopt, MainIsInOrder
      <4>3. subdir' = [subdir EXCEPT ![job[t].obj] = job[t].dir]
        BY <3>2 DEF Adopt
      <4>4. r # job[t].obj
        <5> SUFFICES ASSUME r = job[t].obj PROVE FALSE
          OBVIOUS
        <5>1. ~Founder(r)
          <6>1. job[Main(p)].goal # "claim"
            BY <4>1, <4>2
          <6> QED BY <4>2, <6>1 DEF Founder
        <5> QED BY <2>3, <2>4, <5>1
      <4> QED BY <4>3, <4>4 DEF Typed, TypeOK
    <3> QED BY <2>2, <3>1, <3>2
  <2> QED BY <1>d, <2>3, <2>4
<1>5. ASSUME NEW s \in Session, NamingReply(s) PROVE FoundersAreAlone'
  <2>1. /\ pc[Naming(s)] = "armed" /\ UNCHANGED <<host, subdir>>
        /\ \A u \in Thread : u # Naming(s) => pc'[u] = pc[u] /\ job'[u] = job[u]
    BY <1>5, NamingBegins
  <2>2. ASSUME NEW r \in Session, Founder(r)' PROVE Founder(r)
    <3>1. CASE r = s
      BY <2>1, <3>1 DEF Founder
    <3>2. CASE r # s
      <4>1. pc'[Naming(r)] = pc[Naming(r)]
        BY <2>1, <3>2, Threads, ThreadsDiffer
      <4>2. host[r] # None => /\ pc'[Main(host[r])] = pc[Main(host[r])]
                              /\ job'[Main(host[r])] = job[Main(host[r])]
        BY <2>1, Threads, ThreadsDiffer DEF Typed, TypeOK
      <4> QED BY <2>1, <2>2, <4>1, <4>2 DEF Founder
    <3> QED BY <3>1, <3>2
  <2> QED BY <1>d, <2>1, <2>2
<1> QED BY <1>1, <1>2, <1>3, <1>4, <1>5 DEF Next

IsFresh(p) ==
  /\ disk[job[Main(p)].dir] = 0 /\ turns[job[Main(p)].obj] > 0
  /\ \A s \in Session : subdir[s] = job[Main(p)].dir => s = job[Main(p)].obj

LEMMA FreshStays ==
  ASSUME OwnersInv, FreshIsUnsaved, UnsavedHasNoFile, Next
  PROVE  FreshIsUnsaved'
<1> USE DEF OwnersInv
<1>f. ASSUME NEW p \in Process, pc[Main(p)] = "opened", job[Main(p)].goal = "claim"
      PROVE  /\ job[Main(p)].obj \in Session /\ job[Main(p)].dir \in Dir /\ gen[job[Main(p)].dir] > 0
             /\ host[job[Main(p)].obj] = p /\ pc[Naming(job[Main(p)].obj)] = "idle" /\ IsFresh(p)
             /\ subdir[job[Main(p)].obj] = job[Main(p)].dir
  <2>1. JobIsOwn(Main(p)) /\ MainIsInOrder(p) /\ pc[Main(p)] \in ActivePC
    BY <1>f, Threads DEF JobsInv, InOrder, ActivePC
  <2> QED BY <1>f, <2>1 DEF FreshIsUnsaved, IsFresh, JobIsOwn, MainIsInOrder, JobsInv, SessionsAreHosted
<1>s. ASSUME \A p \in Process : pc'[Main(p)] = "opened" /\ job'[Main(p)].goal = "claim" => IsFresh(p)'
      PROVE  FreshIsUnsaved'
  BY <1>s DEF FreshIsUnsaved, IsFresh
<1>k. ASSUME NEW p \in Process, pc[Main(p)] = "opened", job[Main(p)].goal = "claim",
             job'[Main(p)] = job[Main(p)], disk'[job[Main(p)].dir] = disk[job[Main(p)].dir],
             turns'[job[Main(p)].obj] = turns[job[Main(p)].obj],
             \A s \in Session : subdir'[s] = subdir[s] \/ subdir'[s] # job[Main(p)].dir
      PROVE  IsFresh(p)'
  <2>1. IsFresh(p)
    BY <1>f, <1>k
  <2> QED BY <1>k, <2>1 DEF IsFresh
<1>1. ASSUME NEW q \in Process, NEW d \in Dir, FirstTurn(q, d) PROVE FreshIsUnsaved'
  <2>b. opened + 1 \in Session
    BY <1>1, SessionMade DEF FirstTurn
  <2>s. PICK o \in Session : o = opened + 1
    BY <2>b
  <2>1. /\ \A u \in Thread : u # Main(q) => pc'[u] = pc[u] /\ job'[u] = job[u]
        /\ disk' = disk
    BY <1>1, MainBegins
  <2>2. gen[d] = 0 /\ subdir'[o] = d /\ \A r \in Session : r # o => subdir'[r] = subdir[r]
    BY <1>1, <2>s DEF FirstTurn, Typed, TypeOK
  <2>3. turns'[o] = 1 /\ \A r \in Session : r # o => turns'[r] = turns[r]
    BY <1>1, <2>s DEF FirstTurn, Typed, TypeOK
  <2>4. disk[d] = 0
    BY <2>2 DEF UnsavedHasNoFile
  <2>5. job'[Main(q)].dir = d /\ job'[Main(q)].obj = o
    BY <1>1, <2>s, LockOpened, Threads DEF FirstTurn
  <2>6. \A r \in Session : r # o => subdir[r] # d
    BY <2>2 DEF JobsInv, SessionsAreHosted
  <2>7. IsFresh(q)'
    BY <2>1, <2>2, <2>3, <2>4, <2>5, <2>6 DEF IsFresh
  <2>8. ASSUME NEW p \in Process, p # q, pc'[Main(p)] = "opened", job'[Main(p)].goal = "claim"
        PROVE  IsFresh(p)'
    <3>1. pc[Main(p)] = "opened" /\ job'[Main(p)] = job[Main(p)]
      BY <2>1, <2>8, Threads, ThreadsDiffer
    <3>2. job[Main(p)].obj \in Session /\ host[job[Main(p)].obj] = p /\ gen[job[Main(p)].dir] > 0
      BY <1>f, <2>8, <3>1
    <3>3. host[o] = None /\ p # None
      BY <1>1, <2>s, SessionMade, StoreAssumption DEF FirstTurn
    <3>4. job[Main(p)].obj # o /\ job[Main(p)].dir # d
      BY <2>2, <3>2, <3>3
    <3> QED BY <1>k, <2>1, <2>2, <2>3, <2>8, <3>1, <3>2, <3>4
  <2> QED BY <1>s, <2>7, <2>8
<1>2. ASSUME NEW q \in Process, (\E d \in Dir : Restore(q, d)) \/ Turn(q) \/ Close(q),
             ~\E d \in Dir : FirstTurn(q, d)
      PROVE  FreshIsUnsaved'
  <2>1. /\ \A u \in Thread : u # Main(q) => pc'[u] = pc[u] /\ job'[u] = job[u]
        /\ disk' = disk /\ job'[Main(q)].goal # "claim"
    BY <1>2, MainBegins
  <2>2. subdir' = subdir /\ ActsFor(q)
    BY <1>2, MainActs DEF Restore, Turn, Close
  <2>3. ASSUME NEW p \in Process, pc'[Main(p)] = "opened", job'[Main(p)].goal = "claim"
        PROVE  IsFresh(p)'
    <3>0. p # q
      BY <2>1, <2>3
    <3>1. pc[Main(p)] = "opened" /\ job'[Main(p)] = job[Main(p)]
      BY <2>1, <2>3, <3>0, Threads, ThreadsDiffer
    <3>2. job[Main(p)].obj \in Session /\ host[job[Main(p)].obj] = p
      BY <1>f, <2>3, <3>1
    <3>3. turns'[job[Main(p)].obj] = turns[job[Main(p)].obj]
      BY <2>2, <3>0, <3>2, StoreAssumption DEF ActsFor
    <3> QED BY <1>k, <2>1, <2>2, <2>3, <3>1, <3>3
  <2> QED BY <1>s, <2>3
<1>3. ASSUME NEW q \in Process, Crash(q) PROVE FreshIsUnsaved'
  <2>1. /\ UNCHANGED disk
        /\ \A u \in Thread : IF ProcessOf(u) # q THEN pc'[u] = pc[u] /\ job'[u] = job[u] ELSE pc'[u] = "idle"
        /\ \A r \in Session : IF host[r] = q THEN subdir'[r] = None
                              ELSE subdir'[r] = subdir[r] /\ turns'[r] = turns[r]
    BY <1>3 DEF Crash
  <2>2. ASSUME NEW p \in Process, pc'[Main(p)] = "opened", job'[Main(p)].goal = "claim"
        PROVE  IsFresh(p)'
    <3>0. p # q
      BY <2>1, <2>2, Threads, ProcessOfThread
    <3>1. pc[Main(p)] = "opened" /\ job'[Main(p)] = job[Main(p)]
      BY <2>1, <2>2, <3>0, Threads, ProcessOfThread
    <3>2. job[Main(p)].obj \in Session /\ host[job[Main(p)].obj] = p /\ job[Main(p)].dir # None
      BY <1>f, <2>2, <3>1, StoreAssumption
    <3> QED BY <1>k, <2>1, <2>2, <3>0, <3>1, <3>2
  <2> QED BY <1>s, <2>2
<1>4. ASSUME NEW t \in Thread, Step(t) PROVE FreshIsUnsaved'
  <2>1. Moves(t) /\ pc[t] \in ActivePC
    BY <1>4, ThreadMoves
  <2>w. pc[t] # "idle"
    BY <2>1 DEF ActivePC
  <2>2. ASSUME NEW p \in Process, pc'[Main(p)] = "opened", job'[Main(p)].goal = "claim"
        PROVE  IsFresh(p)'
    <3>0. Main(p) # t
      BY <2>1, <2>2 DEF Moves, ActivePC
    <3>1. pc[Main(p)] = "opened" /\ job'[Main(p)] = job[Main(p)]
      BY <2>1, <2>2, <3>0, Threads DEF Moves
    <3>2. job[Main(p)].goal = "claim"
      BY <2>2, <3>1
    <3>f. /\ job[Main(p)].obj \in Session /\ job[Main(p)].dir \in Dir /\ host[job[Main(p)].obj] = p
          /\ pc[Naming(job[Main(p)].obj)] = "idle" /\ IsFresh(p)
      BY <1>f, <3>1, <3>2
    <3>3. disk'[job[Main(p)].dir] = disk[job[Main(p)].dir]
      <4>1. CASE WriteState(t)
        <5>1. disk' = [disk EXCEPT ![job[t].dir] = job[t].turns] /\ pc[t] = "write"
          BY <4>1 DEF WriteState
        <5>2. job[t].obj \in Session /\ subdir[job[t].obj] = job[t].dir
          BY <2>1, <2>w, <5>1, WorkerInOrder DEF JobIsOwn
        <5>3. job[t].obj # job[Main(p)].obj
          <6> SUFFICES ASSUME job[t].obj = job[Main(p)].obj PROVE FALSE
            OBVIOUS
          <6>1. CASE \E q \in Process : t = Main(q) /\ MainIsInOrder(q)
            BY <2>1, <3>0, <3>f, <6>1 DEF MainIsInOrder
          <6>2. CASE \E s \in Session : t = Naming(s) /\ NamingIsInOrder(s)
            BY <2>1, <2>w, <3>f, <6>2 DEF NamingIsInOrder
          <6> QED BY <2>w, <6>1, <6>2, WorkerInOrder
        <5>4. job[t].dir # job[Main(p)].dir
          BY <3>f, <5>2, <5>3 DEF IsFresh
        <5> QED BY <5>1, <5>4, <3>f DEF Typed, TypeOK
      <4>2. CASE RemoveTree(t)
        <5>1. disk'[job[Main(p)].dir] \in {0, disk[job[Main(p)].dir]}
          BY <3>f, <4>2 DEF RemoveTree, Typed, TypeOK
        <5> QED BY <3>f, <5>1 DEF IsFresh
      <4> QED BY <1>4, <4>1, <4>2, ThreadWrites
    <3>4. /\ turns'[job[Main(p)].obj] = turns[job[Main(p)].obj]
          /\ \A s \in Session : subdir'[s] = subdir[s] \/ subdir'[s] # job[Main(p)].dir
      <4>1. CASE UNCHANGED <<subdir, turns>>
        BY <4>1
      <4>2. CASE Adopt(t)
        <5>1. PICK q \in Process : t = Main(q)
          BY <2>w, <4>2, WorkerInOrder DEF Adopt, NamingIsInOrder, ActivePC, Lock
        <5>2. p # q /\ ProcessOf(t) = q
          BY <3>0, <5>1, ProcessOfThread
        <5>3. ActsFor(q)
          BY <1>4, <5>2, ThreadActs
        <5>4. turns'[job[Main(p)].obj] = turns[job[Main(p)].obj]
          <6>1. host'[job[Main(p)].obj] = p
            BY <1>4, <3>f, ThreadWrites
          <6> QED BY <3>f, <5>2, <5>3, <6>1 DEF ActsFor
        <5>5. disk[job[t].dir] # 0 /\ subdir' = [subdir EXCEPT ![job[t].obj] = job[t].dir]
          BY <4>2 DEF Adopt
        <5>6. job[t].dir # job[Main(p)].dir
          BY <3>f, <5>5 DEF IsFresh
        <5> QED BY <5>4, <5>5, <5>6 DEF Typed, TypeOK
      <4> QED BY <1>4, <4>1, <4>2, ThreadWrites
    <3> QED BY <1>k, <3>1, <3>2, <3>3, <3>4
  <2> QED BY <1>s, <2>2
<1>5. ASSUME NEW s \in Session, NamingReply(s) PROVE FreshIsUnsaved'
  <2>1. /\ \A u \in Thread : u # Naming(s) => pc'[u] = pc[u] /\ job'[u] = job[u]
        /\ UNCHANGED <<disk, subdir, turns>>
    BY <1>5, NamingBegins
  <2>2. \A p \in Process : pc'[Main(p)] = pc[Main(p)] /\ job'[Main(p)] = job[Main(p)]
    BY <2>1, Threads, ThreadsDiffer
  <2> QED BY <2>1, <2>2 DEF FreshIsUnsaved
<1> QED BY <1>1, <1>2, <1>3, <1>4, <1>5 DEF Next

LEMMA UnsavedStays ==
  ASSUME OwnersInv, OwnersInv', UnsavedHasNoFile, Next
  PROVE  UnsavedHasNoFile'
<1> USE DEF OwnersInv
<1>1. \A d \in Dir : gen'[d] >= gen[d]
  <2>1. ASSUME NEW t \in Thread, NEW d \in Dir, NEW s, NEW goal, OpenLock(t, d, s, goal)
        PROVE  \A e \in Dir : gen'[e] >= gen[e]
    BY <2>1 DEF OpenLock, Typed, TypeOK
  <2>2. ASSUME gen' = gen PROVE \A e \in Dir : gen'[e] >= gen[e]
    BY <2>2 DEF Typed, TypeOK
  <2>3. ASSUME NEW p \in Process, NEW d \in Dir, FirstTurn(p, d) \/ Restore(p, d)
        PROVE  \A e \in Dir : gen'[e] >= gen[e]
    BY <2>1, <2>3, Threads DEF FirstTurn, Restore
  <2>4. ASSUME NEW p \in Process, Turn(p) \/ Close(p) \/ Crash(p) PROVE gen' = gen
    BY <2>4 DEF Turn, Close, Crash, diskVars
  <2>5. ASSUME NEW t \in Thread, Step(t) PROVE gen' = gen
    BY <2>5, ThreadWrites
  <2>6. ASSUME NEW s \in Session, NamingReply(s) PROVE \A e \in Dir : gen'[e] >= gen[e]
    <3>1. CASE claimed[s]
      BY <2>2, <2>6, <3>1 DEF NamingReply
    <3>2. CASE ~claimed[s]
      <4>1. subdir[s] \in Dir
        <5>1. pc[Naming(s)] # "idle" /\ Naming(s) \in Thread
          BY <2>6, Threads DEF NamingReply
        <5>2. host[s] \in Process
          BY <5>1 DEF JobsInv, SessionsAreHosted, Typed, TypeOK
        <5> QED BY <5>1, <5>2 DEF JobsInv, InOrder, NamingIsInOrder
      <4> QED BY <2>1, <2>6, <3>2, <4>1, Threads DEF NamingReply
    <3> QED BY <3>1, <3>2
  <2> QED BY <2>2, <2>3, <2>4, <2>5, <2>6 DEF Next
<1>2. ASSUME NEW d \in Dir, disk'[d] # 0 PROVE disk[d] # 0 \/ gen[d] > 0
  <2>1. CASE disk'[d] = disk[d]
    BY <1>2, <2>1
  <2>2. ASSUME NEW t \in Thread, Step(t) PROVE disk[d] # 0 \/ gen[d] > 0
    <3>1. CASE WriteState(t)
      <4>1. disk' = [disk EXCEPT ![job[t].dir] = job[t].turns] /\ pc[t] = "write"
        BY <3>1 DEF WriteState
      <4>2. job[t].obj \in Session /\ subdir[job[t].obj] = job[t].dir /\ job[t].dir \in Dir
        BY <4>1, WorkerInOrder DEF JobIsOwn, ActivePC
      <4>3. gen[job[t].dir] > 0
        BY <4>2 DEF JobsInv, SessionsAreHosted
      <4> QED BY <1>2, <4>1, <4>2, <4>3 DEF Typed, TypeOK
    <3>2. CASE RemoveTree(t)
      BY <1>2, <3>2 DEF RemoveTree, Typed, TypeOK
    <3> QED BY <1>2, <2>2, <3>1, <3>2, ThreadWrites
  <2>3. ASSUME NEW p \in Process,
               (\E e \in Dir : FirstTurn(p, e) \/ Restore(p, e)) \/ Turn(p) \/ Close(p) \/ Crash(p)
        PROVE  disk' = disk
    BY <2>3 DEF FirstTurn, Restore, Turn, Close, Crash, diskVars
  <2>4. ASSUME NEW s \in Session, NamingReply(s) PROVE disk' = disk
    BY <2>4, NamingBegins
  <2> QED BY <2>1, <2>2, <2>3, <2>4 DEF Next
<1>3. \A d \in Dir : gen[d] \in Nat /\ gen'[d] \in Nat
  BY DEF Typed, TypeOK
<1> QED BY <1>1, <1>2, <1>3 DEF UnsavedHasNoFile

LEMMA OneOwner ==
  ASSUME OwnersInv, NEW r \in Session, NEW s \in Session, claimed[r], claimed[s],
         subdir[r] = subdir[s], subdir[s] \notin raced
  PROVE  r = s
<1>1. /\ <<subdir[r], gen[subdir[r]], r>> \in held /\ <<subdir[s], gen[subdir[s]], s>> \in held
  BY DEF OwnersInv, Locks, OwnerIsLocked
<1> QED BY <1>1 DEF OwnersInv, Locks, LocksAreExclusive

LEMMA Counts ==
  ASSUME OwnersInv
  PROVE  /\ \A d \in Dir : disk[d] \in Nat /\ disk[d] \in 0..MaxTurns
         /\ \A s \in Session : /\ turns[s] \in Nat /\ turns[s] \in 0..MaxTurns
                               /\ subdir[s] \in Dir \cup {None} /\ host[s] \in Process \cup {None}
         /\ \A t \in Thread : job[t].turns \in Nat /\ job[t] \in Job
         /\ Trusted \subseteq Dir /\ None \notin Dir
<1>1. disk \in [Dir -> 0..MaxTurns] /\ turns \in [Session -> 0..MaxTurns] /\ job \in [Thread -> Job]
  BY DEF OwnersInv, Typed, TypeOK
<1>2. subdir \in [Session -> Dir \cup {None}] /\ host \in [Session -> Process \cup {None}]
  BY DEF OwnersInv, Typed, TypeOK
<1>3. 0..MaxTurns \subseteq Nat
  BY StoreAssumption
<1>4. \A t \in Thread : job[t].turns \in 0..MaxTurns
  BY <1>1 DEF Job
<1> QED BY <1>1, <1>2, <1>3, <1>4, StoreAssumption DEF Trusted

(* A session of process q that a step leaves as it was, or lets go of.      *)
LEMMA SameSession ==
  ASSUME SavesInv, NEW r \in Session, NEW q \in Process, host[r] = q, host'[r] = q,
         claimed'[r] = claimed[r], subdir'[r] = subdir[r], turns'[r] = turns[r],
         InUse(r)' => InUse(r), Writing(r)' <=> Writing(r),
         Writing(r) => job'[Main(q)] = job[Main(q)],
         pc'[Naming(r)] = pc[Naming(r)], job'[Naming(r)] = job[Naming(r)],
         raced \subseteq raced', setBack \subseteq setBack',
         subdir[r] \in Trusted => disk'[subdir[r]] = disk[subdir[r]],
         pc[Naming(r)] # "idle" /\ live'[q] = r =>
           live[q] = r /\ (pc[Main(q)] = "join" => pc'[Main(q)] = "join")
  PROVE  UseIsSaved(r)' /\ NamingIsBehind(r)'
<1>1. UseIsSaved(r) /\ NamingIsBehind(r)
  BY DEF SavesInv, SavedSoFar
<1>2. subdir[r] \in Trusted' => subdir[r] \in Trusted
  BY DEF Trusted
<1>3. UseIsSaved(r)'
  BY <1>1, <1>2 DEF UseIsSaved
<1>4. NamingIsBehind(r)'
  BY <1>1, <1>2 DEF NamingIsBehind
<1> QED BY <1>3, <1>4

(* A step that is none of a save's, of its session's making or its letting  *)
(* go.                                                                      *)
LEMMA QuietSaves ==
  ASSUME SavesInv, UNCHANGED <<sessionVars, raced, setBack>>,
         \A u \in Thread :
           /\ job'[u].goal = job[u].goal /\ job'[u].obj = job[u].obj /\ job'[u].turns = job[u].turns
           /\ \/ pc'[u] = pc[u]
              \/ /\ pc[u] \in {"touch", "prune", "remove"}
                 /\ pc'[u] \in {"touch", "prune", "remove", "release"},
         \A d \in Dir : disk'[d] \in {disk[d], 0},
         \A s \in Session : claimed[s] /\ subdir[s] \in Trusted => disk'[subdir[s]] = disk[subdir[s]]
  PROVE  SavedSoFar'
<1> SUFFICES ASSUME NEW r \in Session PROVE UseIsSaved(r)' /\ NamingIsBehind(r)'
  BY DEF SavedSoFar
<1>0. UNCHANGED <<host, live, subdir, claimed, turns>>
  BY DEF sessionVars
<1>1. UseIsSaved(r) /\ NamingIsBehind(r)
  BY DEF SavesInv, SavedSoFar
<1>2. Trusted' = Trusted /\ Trusted \subseteq Dir
  BY DEF Trusted
<1>3. CASE host[r] = None
  <2>1. pc[Naming(r)] = "idle" /\ ~claimed[r]
    BY <1>3, StoreAssumption DEF SavesInv, OwnersInv, JobsInv, SessionsAreHosted
  <2>2. pc'[Naming(r)] = "idle"
    BY <2>1, Threads
  <2> QED BY <1>0, <2>1, <2>2, UnusedSession DEF InUse
<1>4. CASE host[r] # None
  <2>1. host[r] \in Process
    BY <1>4, Counts DEF SavesInv
  <2>2. PICK q \in Process : q = host[r]
    BY <2>1
  <2>3. (Writing(r)' <=> Writing(r)) /\ (InUse(r)' <=> InUse(r))
    BY <1>0, <2>2, Threads DEF Writing, InUse, IsNewest
  <2>4. UseIsSaved(r)'
    BY <1>0, <1>1, <1>2, <2>2, <2>3, Threads DEF UseIsSaved, InUse
  <2>5. NamingIsBehind(r)'
    <3>1. /\ pc'[Naming(r)] = "write" <=> pc[Naming(r)] = "write"
          /\ pc'[Naming(r)] = "armed" <=> pc[Naming(r)] = "armed"
          /\ pc'[Naming(r)] = "opened" <=> pc[Naming(r)] = "opened"
          /\ pc'[Naming(r)] = "idle" <=> pc[Naming(r)] = "idle"
          /\ pc'[Main(q)] = "join" <=> pc[Main(q)] = "join"
          /\ job'[Naming(r)].turns = job[Naming(r)].turns
      BY Threads
    <3>2. pc[Naming(r)] = "write" => job[Naming(r)].turns <= turns[r]
      BY <1>1 DEF NamingIsBehind
    <3>3. pc[Naming(r)] \in {"armed", "opened", "write"} /\ subdir[r] \in Trusted =>
            disk'[subdir[r]] = 0 \/ turns[r] <= disk'[subdir[r]] \/ Writing(r)
      BY <1>1, <1>2 DEF NamingIsBehind
    <3>4. pc[Naming(r)] # "idle" /\ live[q] = r =>
            pc[Main(q)] = "join" \/ (claimed[r] /\ pc[Naming(r)] # "opened")
      BY <1>1, <2>2 DEF NamingIsBehind
    <3> QED BY <1>0, <1>2, <2>2, <2>3, <3>1, <3>2, <3>3, <3>4 DEF NamingIsBehind
  <2> QED BY <2>4, <2>5
<1> QED BY <1>3, <1>4

(* The end of a job that leaves its session what it was: once its claim is  *)
(* saved, the naming thread is armed.                                       *)
LEMMA EndSaves ==
  ASSUME SavesInv, NEW t \in Thread, pc[t] \in {"opened", "touch", "prune"}, JobEnds(t),
         pc[t] = "opened" => \A u \in Thread : u # t => pc'[u] = pc[u],
         UNCHANGED <<disk, sessionVars, raced, setBack>>
  PROVE  SavedSoFar'
<1> SUFFICES ASSUME NEW r \in Session PROVE UseIsSaved(r)' /\ NamingIsBehind(r)'
  BY DEF SavedSoFar
<1> USE DEF SavesInv
<1>0. UNCHANGED <<host, live, subdir, claimed, turns>>
  BY DEF sessionVars
<1>1. UseIsSaved(r) /\ NamingIsBehind(r)
  BY DEF SavedSoFar
<1>2. Trusted' = Trusted /\ Trusted \subseteq Dir
  BY DEF Trusted
<1>w. /\ JobIsOwn(t) /\ pc[t] \in ActivePC /\ job[t].obj \in Session
      /\ \/ \E p \in Process : t = Main(p) /\ MainIsInOrder(p)
         \/ \E s \in Session : t = Naming(s) /\ NamingIsInOrder(s)
  <2>1. pc[t] # "idle" /\ pc[t] \in ActivePC
    BY DEF ActivePC
  <2> QED BY <2>1, WorkerInOrder DEF OwnersInv, JobIsOwn
<1>3. CASE host[r] = None
  <2>1. pc[Naming(r)] = "idle" /\ ~claimed[r]
    BY <1>3, StoreAssumption DEF OwnersInv, JobsInv, SessionsAreHosted
  <2>2. pc'[Naming(r)] = "idle"
    <3>1. CASE Naming(r) = t
      BY <2>1, <3>1, <1>w DEF ActivePC
    <3>2. CASE pc'[Naming(r)] # pc[Naming(r)] /\ Naming(r) # t
      <4>1. Naming(r) = Naming(job[t].obj) /\ t[2] = "main"
        BY <3>2, Threads DEF JobEnds
      <4>2. r = job[t].obj /\ \E p \in Process : t = Main(p) /\ MainIsInOrder(p)
        BY <1>w, <4>1, Threads, ThreadsDiffer
      <4> QED BY <1>3, <1>w, <4>2, StoreAssumption DEF MainIsInOrder
    <3> QED BY <2>1, <3>1, <3>2
  <2> QED BY <1>0, <2>1, <2>2, UnusedSession DEF InUse
<1>4. CASE host[r] # None
  <2>1. host[r] \in Process
    BY <1>4, Counts
  <2>2. PICK q \in Process : q = host[r]
    BY <2>1
  <2>3. CASE t = Main(q)
    <3>1. pc'[Main(q)] = "idle" /\ job'[Main(q)].goal = "none"
      BY <2>3, NoJobTyped, Threads, ThreadsDiffer, <1>w DEF JobEnds
    <3>2. ~Writing(r)' /\ ~Writing(r)
      BY <1>0, <2>2, <2>3, <3>1 DEF Writing
    <3>3. InUse(r)' => InUse(r)
      BY <1>0, <2>2, <2>3, <3>1 DEF InUse
    <3>4. UseIsSaved(r)'
      BY <1>0, <1>1, <1>2, <3>2, <3>3 DEF UseIsSaved
    <3>5. CASE pc'[Naming(r)] = pc[Naming(r)]
      <4>1. job'[Naming(r)] = job[Naming(r)]
        BY <2>3, Threads, ThreadsDiffer DEF JobEnds
      <4>2. pc[Main(q)] # "join"
        BY <2>3
      <4> QED BY <1>0, <1>2, <2>2, <3>2, <3>3, <3>5, <4>1, <4>2, SameSession
    <3>6. CASE pc'[Naming(r)] # pc[Naming(r)]
      <4>1. /\ Naming(r) = Naming(job[t].obj) /\ job[t].goal = "claim"
            /\ pc'[Naming(r)] = "armed" /\ pc[t] # "opened"
        BY <2>3, <3>6, Threads, ThreadsDiffer DEF JobEnds
      <4>2. r = job[t].obj
        BY <1>w, <4>1, ThreadsDiffer
      <4>3. claimed[r] /\ live[q] = r
        <5>1. MainIsInOrder(q)
          BY <1>w, <2>3, ThreadsDiffer
        <5> QED BY <1>w, <2>3, <4>1, <4>2, <5>1 DEF MainIsInOrder
      <4>4. InUse(r)
        BY <2>2, <2>3, <4>3 DEF InUse
      <4>5. subdir[r] \in Trusted => turns[r] <= disk[subdir[r]]
        <5>1. subdir[r] \in Trusted => disk[subdir[r]] = turns[r]
          BY <1>1, <3>2, <4>4 DEF UseIsSaved
        <5> QED BY <5>1, Counts
      <4> QED BY <1>0, <1>2, <3>4, <4>1, <4>3, <4>5 DEF NamingIsBehind
    <3> QED BY <3>4, <3>5, <3>6
  <2>4. CASE t # Main(q)
    <3>1. pc'[Main(q)] = pc[Main(q)] /\ job'[Main(q)] = job[Main(q)]
      BY <1>w, <2>4, Threads, ThreadsDiffer DEF JobEnds
    <3>2. (Writing(r)' <=> Writing(r)) /\ (InUse(r)' <=> InUse(r))
      BY <1>0, <2>2, <3>1 DEF Writing, InUse, IsNewest
    <3>3. CASE Naming(r) = t
      <4>1. pc'[t] = "done"
        <5>1. t # Naming(job[t].obj) \/ t[2] # "main"
          BY <3>3, Threads
        <5> QED BY <3>3, <5>1, Threads DEF JobEnds
      <4>2. pc[Naming(r)] # "idle"
        BY <3>3
      <4> QED BY <1>0, <1>1, <1>2, <2>2, <3>1, <3>2, <3>3, <4>1, <4>2 DEF UseIsSaved, NamingIsBehind
    <3>4. CASE Naming(r) # t
      <4>1. pc'[Naming(r)] = pc[Naming(r)] /\ job'[Naming(r)] = job[Naming(r)]
        <5>1. ~(Naming(r) = Naming(job[t].obj) /\ t[2] = "main")
          <6> SUFFICES ASSUME Naming(r) = Naming(job[t].obj), t[2] = "main" PROVE FALSE
            OBVIOUS
          <6>1. r = job[t].obj /\ \E p \in Process : t = Main(p) /\ MainIsInOrder(p)
            BY <1>w, Threads, ThreadsDiffer
          <6> QED BY <1>w, <2>2, <2>4, <6>1 DEF MainIsInOrder
        <5> QED BY <3>4, <5>1, Threads DEF JobEnds
      <4> QED BY <1>0, <2>2, <3>1, <3>2, <4>1, SameSession
    <3> QED BY <3>3, <3>4
  <2> QED BY <2>3, <2>4
<1> QED BY <1>3, <1>4

(* Only the sessions of the process that takes a step need be looked at.    *)
LEMMA OwnSessions ==
  ASSUME SavesInv, OwnersInv', NEW p \in Process, ActsFor(p),
         \A s \in Session : host'[s] # p /\ subdir[s] \in Trusted' =>
           disk'[subdir[s]] = disk[subdir[s]],
         \A s \in Session : host'[s] = p => UseIsSaved(s)' /\ NamingIsBehind(s)'
  PROVE  SavedSoFar'
<1>1. ASSUME NEW s \in Session, host'[s] # p PROVE UseIsSaved(s)' /\ NamingIsBehind(s)'
  BY <1>1, OtherSession
<1> QED BY <1>1 DEF SavedSoFar

LEMMA SavesFirstTurn ==
  ASSUME SavesInv, OwnersInv', NEW p \in Process, NEW d \in Dir, FirstTurn(p, d)
  PROVE  SavedSoFar'
<1> USE DEF SavesInv
<1>b. opened + 1 \in Session
  BY SessionMade DEF FirstTurn, OwnersInv
<1>s. PICK o \in Session : o = opened + 1
  BY <1>b
<1>1. /\ ActsFor(p) /\ UNCHANGED <<disk, claimed, raced, setBack>> /\ pc[Main(p)] = "idle"
      /\ \A u \in Thread : u # Main(p) => pc'[u] = pc[u] /\ job'[u] = job[u]
  BY MainActs, MainBegins
<1>2. /\ host'[o] = p /\ pc[Naming(o)] = "idle" /\ ~claimed[o]
      /\ \A r \in Session : r # o => host'[r] = host[r]
  BY <1>s, SessionMade DEF FirstTurn, OwnersInv
<1>3. live'[p] = o /\ \A r \in Session : r # o => subdir'[r] = subdir[r] /\ turns'[r] = turns[r]
  BY <1>s DEF FirstTurn, OwnersInv, Typed, TypeOK
<1>4. job'[Main(p)].obj = o /\ job'[Main(p)].goal = "claim" /\ pc'[Main(p)] = "opened"
  <2>1. OpenLock(Main(p), d, o, "claim") /\ Main(p) \in Thread
    BY <1>s, Threads DEF FirstTurn
  <2>2. job'[Main(p)].obj = o /\ job'[Main(p)].goal = "claim" /\ pc' = [pc EXCEPT ![Main(p)] = "opened"]
    BY <2>1, LockOpened DEF OwnersInv
  <2> QED BY <2>1, <2>2 DEF OwnersInv, Typed, TypeOK
<1>5. ASSUME NEW r \in Session, host'[r] = p PROVE UseIsSaved(r)' /\ NamingIsBehind(r)'
  <2>1. CASE r = o
    <3>1. pc'[Naming(o)] = "idle"
      BY <1>1, <1>2, Threads, ThreadsDiffer
    <3>2. ~InUse(o)'
      BY <1>1, <1>2 DEF InUse
    <3> QED BY <2>1, <3>1, <3>2, UnusedSession
  <2>2. CASE r # o
    <3>1. host[r] = p /\ live'[p] # r /\ ~Writing(r) /\ ~Writing(r)'
      BY <1>1, <1>2, <1>3, <1>4, <1>5, <2>2 DEF Writing
    <3>2. ~InUse(r)'
      BY <1>4, <1>5, <3>1 DEF InUse
    <3>3. pc'[Naming(r)] = pc[Naming(r)] /\ job'[Naming(r)] = job[Naming(r)]
      BY <1>1, Threads, ThreadsDiffer
    <3> QED BY <1>1, <1>3, <1>5, <2>2, <3>1, <3>2, <3>3, SameSession
  <2> QED BY <2>1, <2>2
<1> QED BY <1>1, <1>5, OwnSessions

LEMMA SavesRestore ==
  ASSUME SavesInv, OwnersInv', NEW p \in Process, NEW d \in Dir, Restore(p, d)
  PROVE  SavedSoFar'
<1> USE DEF SavesInv
<1>b. opened + 1 \in Session
  BY SessionMade DEF Restore, OwnersInv
<1>s. PICK o \in Session : o = opened + 1
  BY <1>b
<1>1. /\ ActsFor(p) /\ UNCHANGED <<disk, claimed, raced, setBack>> /\ pc[Main(p)] = "idle"
      /\ \A u \in Thread : u # Main(p) => pc'[u] = pc[u] /\ job'[u] = job[u]
  BY MainActs, MainBegins
<1>2. /\ host'[o] = p /\ pc[Naming(o)] = "idle" /\ ~claimed[o]
      /\ \A r \in Session : r # o => host'[r] = host[r]
  BY <1>s, SessionMade DEF Restore, OwnersInv
<1>3. UNCHANGED <<live, subdir, turns>>
  BY DEF Restore
<1>4. job'[Main(p)].goal = "restore" /\ pc'[Main(p)] = "opened"
  <2>1. OpenLock(Main(p), d, o, "restore") /\ Main(p) \in Thread
    BY <1>s, Threads DEF Restore
  <2>2. job'[Main(p)].goal = "restore" /\ pc' = [pc EXCEPT ![Main(p)] = "opened"]
    BY <2>1, LockOpened DEF OwnersInv
  <2> QED BY <2>1, <2>2 DEF OwnersInv, Typed, TypeOK
<1>5. ASSUME NEW r \in Session, host'[r] = p PROVE UseIsSaved(r)' /\ NamingIsBehind(r)'
  <2>1. CASE r = o
    <3>1. pc'[Naming(o)] = "idle"
      BY <1>1, <1>2, Threads, ThreadsDiffer
    <3>2. ~InUse(o)'
      BY <1>1, <1>2 DEF InUse
    <3> QED BY <2>1, <3>1, <3>2, UnusedSession
  <2>2. CASE r # o
    <3>1. host[r] = p /\ ~Writing(r) /\ ~Writing(r)'
      BY <1>1, <1>2, <1>4, <1>5, <2>2 DEF Writing
    <3>2. InUse(r)' => InUse(r)
      BY <1>1, <1>3, <1>4, <1>5, <3>1 DEF InUse
    <3>3. pc'[Naming(r)] = pc[Naming(r)] /\ job'[Naming(r)] = job[Naming(r)]
      BY <1>1, Threads, ThreadsDiffer
    <3> QED BY <1>1, <1>3, <1>5, <3>1, <3>2, <3>3, SameSession
  <2> QED BY <2>1, <2>2
<1> QED BY <1>1, <1>5, OwnSessions

(* A turn, or a close, begins to save a session that was saved.             *)
LEMMA SavesSave ==
  ASSUME SavesInv, OwnersInv', NEW p \in Process, Turn(p) \/ Close(p)
  PROVE  SavedSoFar'
<1> USE DEF SavesInv
<1>1. /\ ActsFor(p) /\ UNCHANGED <<disk, claimed, raced, setBack>> /\ pc[Main(p)] = "idle"
      /\ \A u \in Thread : u # Main(p) => pc'[u] = pc[u] /\ job'[u] = job[u]
  BY MainActs, MainBegins
<1>2. UNCHANGED <<live, subdir, host>> /\ HasClaim(p)
  BY DEF Turn, Close
<1>b. live[p] \in Session /\ host[live[p]] = p
  BY <1>2 DEF HasClaim, OwnersInv, JobsInv, SessionsAreHosted, Typed, TypeOK, Session
<1>s. PICK s \in Session : s = live[p]
  BY <1>b
<1>c. claimed[s] /\ host[s] = p /\ subdir[s] \in Dir
  BY <1>2, <1>b, <1>s DEF HasClaim, OwnersInv, JobsInv, SessionsAreHosted
<1>3. \E n \in 0..MaxTurns : turns' = [turns EXCEPT ![s] = n] /\ n >= turns[s]
  <2>1. turns[s] \in 0..MaxTurns /\ MaxTurns \in Nat
    BY Counts, StoreAssumption
  <2>2. CASE Turn(p)
    <3>1. turns[s] < MaxTurns /\ turns' = [turns EXCEPT ![s] = turns[s] + 1]
      BY <1>s, <2>2 DEF Turn
    <3>2. turns[s] + 1 \in 0..MaxTurns /\ turns[s] + 1 >= turns[s]
      BY <2>1, <3>1
    <3> QED BY <3>1, <3>2
  <2>3. CASE Close(p)
    <3>1. PICK n \in Relayed(s) : turns' = [turns EXCEPT ![s] = n]
      BY <1>s, <2>3 DEF Close
    <3>2. n \in 0..MaxTurns /\ n >= turns[s]
      BY <2>1 DEF Relayed
    <3> QED BY <3>1, <3>2
  <2> QED BY <2>2, <2>3
<1>4. turns'[s] \in 0..MaxTurns /\ turns'[s] >= turns[s] /\ \A r \in Session : r # s => turns'[r] = turns[r]
  BY <1>3 DEF OwnersInv, Typed, TypeOK
<1>5. /\ pc'[Main(p)] = "write" /\ job'[Main(p)].obj = s /\ job'[Main(p)].turns = turns'[s]
      /\ job'[Main(p)].goal \in {"save", "close"}
  <2>1. Saving(Main(p), s, "save") \/ Saving(Main(p), s, "close")
    BY <1>s DEF Turn, Close
  <2>2. subdir'[s] \in Dir
    BY <1>2, <1>c
  <2>3. pc' = [pc EXCEPT ![Main(p)] = "write"] /\ Main(p) \in Thread
    BY <2>1, Threads DEF Saving
  <2>4. /\ job'[Main(p)].obj = s /\ job'[Main(p)].turns = turns'[s]
        /\ job'[Main(p)].goal \in {"save", "close"}
    <3>1. CASE Saving(Main(p), s, "save")
      BY <1>4, <2>2, <2>3, <3>1, SaveBegun DEF OwnersInv
    <3>2. CASE Saving(Main(p), s, "close")
      BY <1>4, <2>2, <2>3, <3>2, SaveBegun DEF OwnersInv
    <3> QED BY <2>1, <3>1, <3>2
  <2> QED BY <2>3, <2>4 DEF OwnersInv, Typed, TypeOK
<1>6. UseIsSaved(s) /\ NamingIsBehind(s) /\ InUse(s) /\ ~Writing(s)
  BY <1>1, <1>s, <1>c DEF SavedSoFar, InUse, Writing
<1>7. pc'[Naming(s)] = pc[Naming(s)] /\ job'[Naming(s)] = job[Naming(s)]
  BY <1>1, Threads, ThreadsDiffer
<1>8. Trusted' = Trusted /\ Trusted \subseteq Dir
  BY <1>1 DEF Trusted
<1>9. Writing(s)'
  BY <1>2, <1>5, <1>c DEF Writing
<1>10. UseIsSaved(s)'
  <2>1. turns[s] > 0 /\ (subdir[s] \in Trusted => disk[subdir[s]] = turns[s])
    BY <1>6 DEF UseIsSaved
  <2>2. turns[s] \in Nat /\ turns'[s] \in Nat
    BY <1>4, Counts, StoreAssumption
  <2>3. turns'[s] > 0 /\ (subdir[s] \in Trusted => disk[subdir[s]] <= turns'[s] /\ disk[subdir[s]] > 0)
    BY <1>4, <2>1, <2>2
  <2> QED BY <1>1, <1>2, <1>5, <1>8, <1>9, <1>c, <2>3 DEF UseIsSaved
<1>11. NamingIsBehind(s)'
  <2>1. pc'[Naming(s)] = "write" => job'[Naming(s)].turns <= turns'[s]
    <3>1. pc[Naming(s)] = "write" => job[Naming(s)].turns <= turns[s]
      BY <1>6 DEF NamingIsBehind
    <3>2. job[Naming(s)].turns \in Nat /\ turns[s] \in Nat /\ turns'[s] \in Nat
      BY <1>4, Counts, StoreAssumption, Threads
    <3> QED BY <1>4, <1>7, <3>1, <3>2
  <2>2. pc[Naming(s)] # "idle" => claimed[s] /\ pc[Naming(s)] # "opened"
    BY <1>1, <1>6, <1>c, <1>s DEF NamingIsBehind
  <2> QED BY <1>1, <1>7, <1>9, <2>1, <2>2 DEF NamingIsBehind
<1>12. ASSUME NEW r \in Session, host'[r] = p PROVE UseIsSaved(r)' /\ NamingIsBehind(r)'
  <2>1. CASE r = s
    BY <1>10, <1>11, <2>1
  <2>2. CASE r # s
    <3>1. host[r] = p /\ live'[p] # r /\ ~Writing(r) /\ ~Writing(r)'
      BY <1>1, <1>2, <1>5, <1>12, <1>s, <2>2 DEF Writing
    <3>2. ~InUse(r)'
      BY <1>5, <1>12, <3>1 DEF InUse
    <3>3. pc'[Naming(r)] = pc[Naming(r)] /\ job'[Naming(r)] = job[Naming(r)]
      BY <1>1, Threads, ThreadsDiffer
    <3> QED BY <1>1, <1>2, <1>4, <1>12, <2>2, <3>1, <3>2, <3>3, SameSession
  <2> QED BY <2>1, <2>2
<1> QED BY <1>1, <1>12, OwnSessions

LEMMA SavesCrash ==
  ASSUME SavesInv, OwnersInv', NEW p \in Process, Crash(p)
  PROVE  SavedSoFar'
<1>1. ActsFor(p) /\ UNCHANGED <<disk, host>>
  BY MainActs DEF Crash, SavesInv
<1>2. ASSUME NEW r \in Session, host'[r] = p PROVE UseIsSaved(r)' /\ NamingIsBehind(r)'
  <2>1. ProcessOf(Naming(r)) = p
    BY <1>1, <1>2, ProcessOfThread
  <2>2. pc'[Naming(r)] = "idle" /\ ~claimed'[r]
    BY <1>1, <1>2, <2>1, Threads DEF Crash
  <2> QED BY <2>2, UnusedSession DEF InUse
<1> QED BY <1>1, <1>2, OwnSessions

LEMMA SavesNamingReply ==
  ASSUME SavesInv, OwnersInv', NEW s \in Session, NamingReply(s)
  PROVE  SavedSoFar'
<1> USE DEF SavesInv
<1>1. /\ pc[Naming(s)] = "armed" /\ pc'[Naming(s)] \in {"opened", "write"}
      /\ \A u \in Thread : u # Naming(s) => pc'[u] = pc[u] /\ job'[u] = job[u]
      /\ UNCHANGED <<disk, host, live, claimed, subdir, turns, raced, setBack>>
  BY NamingBegins
<1>b. host[s] \in Process /\ subdir[s] \in Dir
  <2>1. host[s] \in Process
    BY <1>1 DEF OwnersInv, JobsInv, SessionsAreHosted, Typed, TypeOK
  <2> QED BY <1>1, <2>1 DEF OwnersInv, JobsInv, InOrder, NamingIsInOrder
<1>p. PICK p \in Process : p = host[s]
  BY <1>b
<1>2. ActsFor(p)
  BY <1>p, NamingActs
<1>3. \A q \in Process : pc'[Main(q)] = pc[Main(q)] /\ job'[Main(q)] = job[Main(q)]
  BY <1>1, Threads, ThreadsDiffer
<1>4. ASSUME NEW r \in Session, host'[r] = p
      PROVE  (Writing(r)' <=> Writing(r)) /\ (InUse(r)' <=> InUse(r))
  BY <1>1, <1>3, <1>4 DEF Writing, InUse, IsNewest
<1>5. Trusted' = Trusted
  BY <1>1 DEF Trusted
<1>6. UseIsSaved(s)' /\ NamingIsBehind(s)'
  <2>1. UseIsSaved(s) /\ NamingIsBehind(s)
    BY DEF SavedSoFar
  <2>2. UseIsSaved(s)'
    BY <1>1, <1>3, <1>4, <1>5, <1>p, <2>1 DEF UseIsSaved
  <2>3. pc'[Naming(s)] = "write" => job'[Naming(s)].turns <= turns[s]
    <3>1. CASE claimed[s]
      <4>1. Saving(Naming(s), s, "save")
        BY <3>1 DEF NamingReply
      <4>2. job'[Naming(s)].turns = turns'[s]
        BY <1>1, <1>b, <4>1, SaveBegun, Threads, Counts DEF OwnersInv
      <4> QED BY <1>1, <4>2, Counts
    <3>2. CASE ~claimed[s]
      <4>1. pc'[Naming(s)] = "opened"
        BY <3>2, Threads DEF NamingReply, OpenLock, OwnersInv, Typed, TypeOK
      <4> QED BY <4>1
    <3> QED BY <3>1, <3>2
  <2>4. claimed[s] => pc'[Naming(s)] = "write"
    BY Threads DEF NamingReply, Saving, OwnersInv, Typed, TypeOK
  <2>5. NamingIsBehind(s)'
    BY <1>1, <1>3, <1>4, <1>5, <1>p, <2>1, <2>3, <2>4 DEF NamingIsBehind
  <2> QED BY <2>2, <2>5
<1>7. ASSUME NEW r \in Session, host'[r] = p PROVE UseIsSaved(r)' /\ NamingIsBehind(r)'
  <2>1. CASE r = s
    BY <1>6, <2>1
  <2>2. CASE r # s
    <3>1. pc'[Naming(r)] = pc[Naming(r)] /\ job'[Naming(r)] = job[Naming(r)]
      BY <1>1, <2>2, Threads, ThreadsDiffer
    <3> QED BY <1>1, <1>3, <1>4, <1>7, <3>1, SameSession
  <2> QED BY <2>1, <2>2
<1> QED BY <1>1, <1>2, <1>7, OwnSessions

(* The main thread in the middle of something.                              *)
LEMMA MainAtWork ==
  ASSUME OwnersInv, NEW p \in Process, pc[Main(p)] \in ActivePC
  PROVE  /\ JobIsOwn(Main(p)) /\ MainIsInOrder(p)
         /\ job[Main(p)].obj \in Session /\ host[job[Main(p)].obj] = p
         /\ job[Main(p)].goal # "none"
BY DEF OwnersInv, JobsInv, InOrder, JobIsOwn, MainIsInOrder

LEMMA SavesClaim ==
  ASSUME SavesInv, OwnersInv', NEW t \in Thread, Claim(t)
  PROVE  SavedSoFar'
<1> USE DEF SavesInv
<1>a. pc[t] = "opened" /\ job[t].goal = "claim" /\ pc[t] # "idle" /\ pc[t] \in ActivePC
  BY DEF Claim, Lock, ActivePC
<1>w. JobIsOwn(t) /\ job[t].obj \in Session /\ subdir[job[t].obj] = job[t].dir /\ job[t].dir \in Dir
  BY <1>a, WorkerInOrder DEF OwnersInv, JobIsOwn
<1>s. PICK s \in Session : s = job[t].obj
  BY <1>w
<1>h. host[s] \in Process /\ ProcessOf(t) = host[s]
  <2>1. CASE \E q \in Process : t = Main(q) /\ MainIsInOrder(q)
    BY <1>a, <1>s, <2>1, ProcessOfThread DEF MainIsInOrder
  <2>2. CASE \E r \in Session : t = Naming(r) /\ host[r] \in Process /\ NamingIsInOrder(r)
    BY <1>a, <1>s, <2>2, ProcessOfThread DEF NamingIsInOrder
  <2> QED BY <1>a, <2>1, <2>2, WorkerInOrder DEF OwnersInv
<1>p. PICK p \in Process : p = host[s]
  BY <1>h
<1>1. /\ UNCHANGED <<host, live, subdir, turns, disk, setBack>> /\ raced \subseteq raced'
      /\ claimed' = [claimed EXCEPT ![s] = TRUE] /\ Saving(t, s, "claim")
  BY <1>s DEF Claim, Lock
<1>2. claimed'[s] /\ \A r \in Session : r # s => claimed'[r] = claimed[r]
  BY <1>1 DEF OwnersInv, Typed, TypeOK
<1>3. ActsFor(p)
  BY <1>h, <1>p, ThreadActs DEF Step
<1>4. /\ pc' = [pc EXCEPT ![t] = "write"] /\ job'[t].goal = "claim" /\ job'[t].obj = s
      /\ job'[t].turns = turns[s] /\ \A u \in Thread : u # t => job'[u] = job[u]
  BY <1>1, <1>s, <1>w, Counts, SaveBegun DEF OwnersInv
<1>5. pc'[t] = "write" /\ \A u \in Thread : u # t => pc'[u] = pc[u]
  BY <1>4 DEF OwnersInv, Typed, TypeOK
<1>6. CASE t = Main(p)
  <2>m. MainIsInOrder(p) /\ s = live[p] /\ pc[Naming(s)] = "idle"
    BY <1>6, <1>a, <1>s, MainAtWork DEF MainIsInOrder
  <2>1. disk[subdir[s]] = 0 /\ turns[s] > 0
    BY <1>6, <1>a, <1>s, <1>w DEF FreshIsUnsaved
  <2>2. UseIsSaved(s)' /\ NamingIsBehind(s)'
    <3>1. pc'[Naming(s)] = "idle"
      BY <1>5, <1>6, <2>m, Threads, ThreadsDiffer
    <3>2. Writing(s)'
      BY <1>1, <1>4, <1>5, <1>6, <1>p DEF Writing
    <3>3. disk[subdir[s]] <= turns[s]
      BY <2>1, Counts
    <3> QED BY <1>1, <1>4, <1>6, <1>p, <2>1, <3>1, <3>2, <3>3 DEF UseIsSaved, NamingIsBehind
  <2>3. ASSUME NEW r \in Session, host'[r] = p, r # s PROVE UseIsSaved(r)' /\ NamingIsBehind(r)'
    <3>1. host[r] = p /\ live'[p] # r /\ ~Writing(r) /\ ~Writing(r)'
      BY <1>1, <1>4, <1>6, <1>a, <2>3, <2>m DEF Writing
    <3>2. ~InUse(r)'
      BY <1>4, <1>6, <2>3, <3>1 DEF InUse
    <3>3. pc'[Naming(r)] = pc[Naming(r)] /\ job'[Naming(r)] = job[Naming(r)]
      BY <1>4, <1>5, <1>6, Threads, ThreadsDiffer
    <3> QED BY <1>1, <1>2, <2>3, <3>1, <3>2, <3>3, SameSession
  <2> QED BY <1>1, <1>3, <2>2, <2>3, OwnSessions
<1>7. CASE t # Main(p)
  <2>n. t = Naming(s)
    BY <1>7, <1>a, <1>h, <1>p, <1>s, WorkerInOrder, ProcessOfThread DEF NamingIsInOrder, OwnersInv
  <2>m. pc'[Main(p)] = pc[Main(p)] /\ job'[Main(p)] = job[Main(p)]
    BY <1>4, <1>5, <1>7, Threads
  <2>1. ~InUse(s)'
    <3>1. live[p] = s => pc[Main(p)] = "join"
      BY <1>a, <1>p, <2>n DEF SavedSoFar, NamingIsBehind
    <3>2. ~(job[Main(p)].goal = "replace" /\ IsNewest(p, s))
      <4> SUFFICES ASSUME job[Main(p)].goal = "replace", IsNewest(p, s) PROVE FALSE
        OBVIOUS
      <4>1. pc[Main(p)] \in ActivePC
        BY Threads, NoJobTyped DEF JobsAreClear
      <4>2. PICK r \in Session : IsNewest(p, r) /\ pc[Naming(r)] = "idle"
        BY <4>1, MainAtWork DEF MainIsInOrder
      <4>3. r = s
        BY <4>2, SessionsAreNumbers DEF IsNewest
      <4> QED BY <1>a, <2>n, <4>2, <4>3
    <3>3. IsNewest(p, s)' <=> IsNewest(p, s)
      BY <1>1 DEF IsNewest
    <3> QED BY <1>1, <1>p, <2>m, <3>1, <3>2, <3>3 DEF InUse
  <2>2. NamingIsBehind(s)'
    <3>1. NamingIsBehind(s) /\ (Writing(s)' <=> Writing(s))
      BY <1>1, <1>p, <2>m DEF SavedSoFar, Writing
    <3>2. subdir[s] \in Trusted' => subdir[s] \in Trusted
      BY <1>1 DEF Trusted
    <3>3. job'[Naming(s)].turns <= turns'[s]
      BY <1>1, <1>4, <2>n, Counts
    <3> QED BY <1>1, <1>2, <1>5, <1>a, <1>p, <2>m, <2>n, <3>1, <3>2, <3>3 DEF NamingIsBehind
  <2>3. ASSUME NEW r \in Session, host'[r] = p, r # s PROVE UseIsSaved(r)' /\ NamingIsBehind(r)'
    <3>1. (Writing(r)' <=> Writing(r)) /\ (InUse(r)' <=> InUse(r))
      BY <1>1, <1>2, <2>3, <2>m DEF Writing, InUse, IsNewest
    <3>2. pc'[Naming(r)] = pc[Naming(r)] /\ job'[Naming(r)] = job[Naming(r)]
      BY <1>4, <1>5, <2>3, <2>n, Threads, ThreadsDiffer
    <3> QED BY <1>1, <1>2, <2>3, <2>m, <3>1, <3>2, SameSession
  <2>4. UseIsSaved(s)'
    BY <2>1 DEF UseIsSaved
  <2> QED BY <1>1, <1>3, <2>2, <2>3, <2>4, OwnSessions
<1> QED BY <1>6, <1>7

(* A restored session has what is saved; the session it replaces is being   *)
(* saved.                                                                   *)
LEMMA SavesAdopt ==
  ASSUME SavesInv, OwnersInv', NEW t \in Thread, Adopt(t)
  PROVE  SavedSoFar'
<1> USE DEF SavesInv
<1>a. pc[t] = "opened" /\ job[t].goal = "restore" /\ pc[t] # "idle" /\ pc[t] \in ActivePC
  BY DEF Adopt, Lock, ActivePC
<1>p. PICK p \in Process : t = Main(p)
  BY <1>a, WorkerInOrder DEF NamingIsInOrder, OwnersInv
<1>m. /\ MainIsInOrder(p) /\ job[t].obj \in Session /\ job[t].dir \in Dir /\ ProcessOf(t) = p
      /\ subdir[job[t].obj] = None
  BY <1>a, <1>p, MainAtWork, ProcessOfThread DEF JobIsOwn
<1>s. PICK s \in Session, d \in Dir : s = job[t].obj /\ d = job[t].dir
  BY <1>m
<1>1. /\ IsNewest(p, s) /\ host[s] = p /\ s # live[p] /\ pc[Naming(s)] = "idle" /\ ~claimed[s]
  BY <1>a, <1>m, <1>p, <1>s DEF MainIsInOrder
<1>2. /\ UNCHANGED <<host, disk, setBack>> /\ raced \subseteq raced' /\ disk[d] # 0
      /\ claimed' = [claimed EXCEPT ![s] = TRUE] /\ subdir' = [subdir EXCEPT ![s] = d]
  BY <1>s DEF Adopt, Lock
<1>3. /\ claimed'[s] /\ subdir'[s] = d
      /\ \A r \in Session : r # s => claimed'[r] = claimed[r] /\ subdir'[r] = subdir[r]
  BY <1>2 DEF OwnersInv, Typed, TypeOK
<1>4. ActsFor(p)
  BY <1>m, ThreadActs DEF Step
<1>5. Moves(t) /\ \A r \in Session : Naming(r) # t
  BY <1>p, ThreadMoves, ThreadsDiffer DEF Step
<1>6. \A u \in Thread : u # t => pc'[u] = pc[u] /\ job'[u] = job[u]
  BY DEF Adopt, Saving, Finish, OwnersInv, Typed, TypeOK
<1>7. \A r \in Session : pc'[Naming(r)] = pc[Naming(r)] /\ job'[Naming(r)] = job[Naming(r)]
  BY <1>5, <1>6, Threads
<1>8. disk[d] \in Nat /\ disk[d] > 0 /\ disk[d] \in 0..MaxTurns
  BY <1>2, Counts
<1>t. Trusted' \subseteq Trusted
  BY <1>2 DEF Trusted
<1>9. CASE HasClaim(p)
  <2>b. live[p] \in Session /\ claimed[live[p]] /\ host[live[p]] = p
    BY <1>9 DEF HasClaim, OwnersInv, JobsInv, SessionsAreHosted, Typed, TypeOK, Session
  <2>o. PICK o \in Session : o = live[p]
    BY <2>b
  <2>1. /\ o # s /\ live' = live /\ Saving(t, o, "replace")
        /\ \E n \in Relayed(o) : turns' = [turns EXCEPT ![s] = disk[d], ![o] = n]
    BY <1>1, <1>9, <1>m, <1>s, <2>o DEF Adopt, Loaded
  <2>2. PICK n \in Relayed(o) : turns' = [turns EXCEPT ![s] = disk[d], ![o] = n]
    BY <2>1
  <2>3. n \in 0..MaxTurns /\ n >= turns[o]
    BY Counts DEF Relayed
  <2>4. /\ turns'[s] = disk[d] /\ turns'[o] = n
        /\ \A r \in Session : r # s /\ r # o => turns'[r] = turns[r]
    BY <2>1, <2>2 DEF OwnersInv, Typed, TypeOK
  <2>5. /\ pc'[t] = "write" /\ job'[t].goal = "replace" /\ job'[t].obj = o /\ job'[t].turns = n
    <3>1. subdir'[o] \in Dir
      BY <1>3, <2>1, <2>b, <2>o DEF OwnersInv, JobsInv, SessionsAreHosted
    <3>2. pc' = [pc EXCEPT ![t] = "write"]
      BY <2>1 DEF Saving
    <3>3. job'[t].goal = "replace" /\ job'[t].obj = o /\ job'[t].turns = n
      BY <2>1, <2>3, <2>4, <3>1, SaveBegun DEF OwnersInv
    <3> QED BY <3>2, <3>3 DEF OwnersInv, Typed, TypeOK
  <2>6. UseIsSaved(s)' /\ NamingIsBehind(s)'
    <3>1. ~Writing(s)'
      BY <1>1, <1>2, <1>p, <2>1, <2>5 DEF Writing
    <3> QED BY <1>1, <1>2, <1>3, <1>7, <1>8, <2>4, <3>1 DEF UseIsSaved, NamingIsBehind
  <2>7. UseIsSaved(o)' /\ NamingIsBehind(o)'
    <3>1. UseIsSaved(o) /\ NamingIsBehind(o) /\ InUse(o) /\ ~Writing(o)
      BY <1>a, <1>p, <2>b, <2>o DEF SavedSoFar, InUse, Writing
    <3>2. Writing(o)'
      BY <1>2, <1>p, <2>5, <2>b, <2>o DEF Writing
    <3>3. turns[o] > 0 /\ (subdir[o] \in Trusted => disk[subdir[o]] = turns[o])
      BY <3>1 DEF UseIsSaved
    <3>4. turns[o] \in Nat /\ n \in Nat
      BY <2>3, Counts, StoreAssumption
    <3>5. n > 0 /\ (subdir[o] \in Trusted => disk[subdir[o]] <= n /\ disk[subdir[o]] > 0)
      BY <2>3, <3>3, <3>4
    <3>6. UseIsSaved(o)'
      BY <1>2, <1>3, <1>p, <1>t, <2>1, <2>4, <2>5, <2>b, <2>o, <3>2, <3>5 DEF UseIsSaved
    <3>7. pc[Naming(o)] = "write" => job[Naming(o)].turns <= n
      <4>1. pc[Naming(o)] = "write" => job[Naming(o)].turns <= turns[o]
        BY <3>1 DEF NamingIsBehind
      <4>2. job[Naming(o)].turns \in Nat
        BY Counts, Threads
      <4> QED BY <2>3, <3>4, <4>1, <4>2
    <3>8. pc[Naming(o)] # "idle" => claimed[o] /\ pc[Naming(o)] # "opened"
      BY <1>a, <1>p, <2>b, <2>o, <3>1 DEF NamingIsBehind
    <3>9. NamingIsBehind(o)'
      BY <1>3, <1>7, <2>1, <2>4, <3>2, <3>7, <3>8 DEF NamingIsBehind
    <3> QED BY <3>6, <3>9
  <2>8. ASSUME NEW r \in Session, host'[r] = p, r # s, r # o
        PROVE  UseIsSaved(r)' /\ NamingIsBehind(r)'
    <3>1. host[r] = p /\ live'[p] # r /\ ~Writing(r) /\ ~Writing(r)'
      BY <1>2, <1>a, <1>p, <2>1, <2>5, <2>8, <2>o DEF Writing
    <3>2. ~IsNewest(p, r)'
      BY <1>1, <1>2, <2>8, SessionsAreNumbers DEF IsNewest
    <3>3. ~InUse(r)'
      BY <2>8, <3>1, <3>2 DEF InUse
    <3> QED BY <1>2, <1>3, <1>7, <2>4, <2>8, <3>1, <3>3, SameSession
  <2> QED BY <1>2, <1>4, <2>6, <2>7, <2>8, OwnSessions
<1>10. CASE ~HasClaim(p)
  <2>1. Finish(t) /\ live' = [live EXCEPT ![p] = s] /\ turns' = [turns EXCEPT ![s] = disk[d]]
    BY <1>10, <1>m, <1>s DEF Adopt, Loaded
  <2>2. /\ turns'[s] = disk[d] /\ live'[p] = s
        /\ \A r \in Session : r # s => turns'[r] = turns[r]
    BY <2>1 DEF OwnersInv, Typed, TypeOK
  <2>3. pc'[t] = "idle" /\ job'[t].goal = "none"
    BY <1>p, <2>1, NoJobTyped, Threads DEF Finish, OwnersInv, Typed, TypeOK
  <2>4. UseIsSaved(s)' /\ NamingIsBehind(s)'
    <3>1. ~Writing(s)'
      BY <1>1, <1>2, <1>p, <2>3 DEF Writing
    <3> QED BY <1>1, <1>2, <1>3, <1>7, <1>8, <2>2, <3>1 DEF UseIsSaved, NamingIsBehind
  <2>5. ASSUME NEW r \in Session, host'[r] = p, r # s PROVE UseIsSaved(r)' /\ NamingIsBehind(r)'
    <3>1. host[r] = p /\ live'[p] # r /\ ~Writing(r) /\ ~Writing(r)'
      BY <1>2, <1>a, <1>p, <2>2, <2>3, <2>5 DEF Writing
    <3>2. ~InUse(r)'
      BY <1>p, <2>3, <2>5, <3>1 DEF InUse
    <3> QED BY <1>2, <1>3, <1>7, <2>2, <2>5, <3>1, <3>2, SameSession
  <2> QED BY <1>2, <1>4, <2>4, <2>5, OwnSessions
<1> QED BY <1>9, <1>10

LEMMA SavesRelease ==
  ASSUME SavesInv, OwnersInv', NEW t \in Thread, Release(t)
  PROVE  SavedSoFar'
<1> USE DEF SavesInv
<1>a. pc[t] = "release"
  BY DEF Release
<1>p. PICK p \in Process :
        /\ t = Main(p) /\ ProcessOf(t) = p /\ MainIsInOrder(p) /\ JobIsOwn(t)
        /\ job[t].obj \in Session /\ job[t].obj = live[p] /\ host[job[t].obj] = p
        /\ Closed(t) => \E r \in Session \cup {0} :
             live' = [live EXCEPT ![p] = r] /\ (r # 0 => NextOf(p, r))
  BY <1>a, Closer
<1>s. PICK s \in Session : s = job[t].obj
  BY <1>p
<1>1. /\ UNCHANGED <<host, subdir, turns, disk, raced, setBack>>
      /\ claimed' = [claimed EXCEPT ![s] = FALSE]
  BY <1>s DEF Release, historyVars
<1>2. ~claimed'[s] /\ \A r \in Session : r # s => claimed'[r] = claimed[r]
  BY <1>1 DEF OwnersInv, Typed, TypeOK
<1>3. ActsFor(p)
  BY <1>p, ThreadActs DEF Step
<1>4. \A u \in Thread : u # t => pc'[u] = pc[u] /\ job'[u] = job[u]
  BY DEF Release, Closed, OwnersInv, Typed, TypeOK
<1>5. \A r \in Session : pc'[Naming(r)] = pc[Naming(r)] /\ job'[Naming(r)] = job[Naming(r)]
  BY <1>4, <1>p, Threads, ThreadsDiffer
<1>6. ~InUse(s)' /\ UseIsSaved(s)'
  BY <1>2 DEF InUse, UseIsSaved
<1>7. pc'[t] \in {"idle", "join"}
  BY DEF Release, OwnersInv, Typed, TypeOK
<1>8. ASSUME NEW r \in Session, host'[r] = p PROVE ~Writing(r) /\ ~Writing(r)'
  BY <1>1, <1>7, <1>8, <1>a, <1>p DEF Writing
<1>9. Trusted' = Trusted
  BY <1>1 DEF Trusted
<1>10. CASE pc[Naming(s)] \in {"idle", "done"}
  <2>1. Closed(t) /\ pc'[t] = "idle"
    BY <1>10, <1>s DEF Release, OwnersInv, Typed, TypeOK
  <2>2. PICK x \in Session \cup {0} : live' = [live EXCEPT ![p] = x] /\ (x # 0 => NextOf(p, x))
    BY <1>p, <2>1
  <2>3. live'[p] = x /\ x # s /\ job'[t].goal = "none"
    BY <1>p, <1>s, <2>1, <2>2, NoJobTyped, SessionsAreNumbers
       DEF NextOf, Closed, OwnersInv, Typed, TypeOK
  <2>4. NamingIsBehind(s)'
    BY <1>1, <1>5, <1>10, <1>p, <1>s, <2>3 DEF NamingIsBehind
  <2>5. ASSUME NEW r \in Session, host'[r] = p, r # s PROVE UseIsSaved(r)' /\ NamingIsBehind(r)'
    <3>1. InUse(r)' => InUse(r)
      <4> SUFFICES ASSUME InUse(r)' PROVE InUse(r)
        OBVIOUS
      <4>1. live'[p] = r
        BY <1>p, <2>3, <2>5 DEF InUse
      <4>2. NextOf(p, r)
        BY <2>2, <2>3, <2>5, <4>1, SessionsAreNumbers
      <4> QED BY <4>2 DEF NextOf, InUse
    <3>2. live'[p] = r => pc[Naming(r)] = "idle"
      BY <2>2, <2>3, <2>5, SessionsAreNumbers DEF NextOf
    <3> QED BY <1>1, <1>2, <1>5, <1>8, <2>5, <3>1, <3>2, SameSession
  <2> QED BY <1>1, <1>3, <1>6, <2>4, <2>5, OwnSessions
<1>11. CASE pc[Naming(s)] \notin {"idle", "done"}
  <2>1. UNCHANGED <<live, job>> /\ pc'[t] = "join"
    BY <1>11, <1>s DEF Release, OwnersInv, Typed, TypeOK
  <2>2. NamingIsBehind(s)'
    <3>1. NamingIsBehind(s) /\ ~Writing(s)
      BY <1>1, <1>8, <1>p, <1>s DEF SavedSoFar
    <3> QED BY <1>1, <1>5, <1>9, <1>p, <1>s, <2>1, <3>1 DEF NamingIsBehind
  <2>3. ASSUME NEW r \in Session, host'[r] = p, r # s PROVE UseIsSaved(r)' /\ NamingIsBehind(r)'
    <3>1. live'[p] # r
      BY <1>p, <1>s, <2>1, <2>3
    <3>2. InUse(r)' => InUse(r)
      BY <1>1, <1>2, <2>1, <2>3, <3>1 DEF InUse, IsNewest
    <3> QED BY <1>1, <1>2, <1>5, <1>8, <2>3, <3>1, <3>2, SameSession
  <2> QED BY <1>1, <1>3, <1>6, <2>2, <2>3, OwnSessions
<1> QED BY <1>10, <1>11

LEMMA SavesJoin ==
  ASSUME SavesInv, OwnersInv', NEW t \in Thread, Join(t)
  PROVE  SavedSoFar'
<1> USE DEF SavesInv
<1>a. pc[t] = "join"
  BY DEF Join
<1>p. PICK p \in Process :
        /\ t = Main(p) /\ ProcessOf(t) = p /\ MainIsInOrder(p) /\ JobIsOwn(t)
        /\ job[t].obj \in Session /\ job[t].obj = live[p] /\ host[job[t].obj] = p
        /\ Closed(t) => \E r \in Session \cup {0} :
             live' = [live EXCEPT ![p] = r] /\ (r # 0 => NextOf(p, r))
  BY <1>a, Closer
<1>s. PICK s \in Session : s = job[t].obj
  BY <1>p
<1>1. UNCHANGED <<host, claimed, subdir, turns, disk, raced, setBack>> /\ Closed(t)
  BY DEF Join, diskVars, historyVars
<1>3. ActsFor(p)
  BY <1>p, ThreadActs DEF Step
<1>4. /\ pc' = [pc EXCEPT ![t] = "idle",
                          ![Naming(s)] = IF pc[Naming(s)] = "armed" THEN "idle" ELSE pc[Naming(s)]]
      /\ t # Naming(s) /\ Naming(s) \in Thread
  BY <1>p, <1>s, Threads, ThreadsDiffer DEF Join
<1>5. /\ pc'[t] = "idle" /\ (pc[Naming(s)] # "armed" => pc'[Naming(s)] = pc[Naming(s)])
      /\ pc[Naming(s)] = "armed" => pc'[Naming(s)] = "idle"
      /\ \A u \in Thread : u # t /\ u # Naming(s) => pc'[u] = pc[u]
  BY <1>4 DEF OwnersInv, Typed, TypeOK
<1>6. job'[t].goal = "none" /\ \A u \in Thread : u # t => job'[u] = job[u]
  BY <1>1, NoJobTyped DEF Closed, OwnersInv, Typed, TypeOK
<1>7. PICK x \in Session \cup {0} : live' = [live EXCEPT ![p] = x] /\ (x # 0 => NextOf(p, x))
  BY <1>p, <1>1
<1>8. live'[p] = x /\ x # s
  BY <1>p, <1>s, <1>7, SessionsAreNumbers DEF NextOf, OwnersInv, Typed, TypeOK
<1>9. ASSUME NEW r \in Session, host'[r] = p PROVE UseIsSaved(r)' /\ NamingIsBehind(r)'
  <2>1. ~Writing(r) /\ ~Writing(r)'
    BY <1>1, <1>5, <1>9, <1>a, <1>p DEF Writing
  <2>2. InUse(r)' => InUse(r)
    <3> SUFFICES ASSUME InUse(r)' PROVE InUse(r)
      OBVIOUS
    <3>1. live'[p] = r
      BY <1>p, <1>6, <1>9 DEF InUse
    <3>2. NextOf(p, r)
      BY <1>7, <1>8, <3>1, SessionsAreNumbers
    <3> QED BY <3>2 DEF NextOf, InUse
  <2>3. live'[p] = r => pc[Naming(r)] = "idle"
    BY <1>7, <1>8, SessionsAreNumbers DEF NextOf
  <2>4. job'[Naming(r)] = job[Naming(r)]
    BY <1>6, <1>p, Threads, ThreadsDiffer
  <2>5. CASE pc'[Naming(r)] = pc[Naming(r)]
    BY <1>1, <1>9, <2>1, <2>2, <2>3, <2>4, <2>5, SameSession
  <2>6. CASE pc'[Naming(r)] # pc[Naming(r)]
    <3>1. r = s /\ pc'[Naming(r)] = "idle"
      BY <1>5, <1>p, <2>6, Threads, ThreadsDiffer
    <3>2. ~InUse(r)'
      BY <1>6, <1>8, <1>9, <1>p, <3>1 DEF InUse
    <3> QED BY <3>1, <3>2, UnusedSession
  <2> QED BY <2>5, <2>6
<1> QED BY <1>1, <1>3, <1>9, OwnSessions

(* A main thread saves all of its session's conversation, no less than      *)
(* there was.                                                               *)
LEMMA MainWrites ==
  ASSUME SavesInv, NEW p \in Process, pc[Main(p)] = "write"
  PROVE  \E s \in Session :
           /\ s = job[Main(p)].obj /\ s = live[p] /\ host[s] = p /\ claimed[s]
           /\ subdir[s] = job[Main(p)].dir /\ subdir[s] \in Dir /\ Writing(s) /\ InUse(s)
           /\ turns[s] > 0 /\ job[Main(p)].turns = turns[s]
           /\ subdir[s] \in Trusted =>
                /\ disk[subdir[s]] <= turns[s]
                /\ disk[subdir[s]] = 0 => pc[Naming(s)] = "idle" /\ Founder(s)
<1> USE DEF SavesInv
<1>1. /\ JobIsOwn(Main(p)) /\ MainIsInOrder(p) /\ job[Main(p)].obj \in Session
      /\ pc[Main(p)] \in ActivePC
  BY MainAtWork DEF ActivePC
<1>2. PICK s \in Session : s = job[Main(p)].obj
  BY <1>1
<1>3. /\ s = live[p] /\ host[s] = p /\ claimed[s] /\ subdir[s] = job[Main(p)].dir /\ subdir[s] \in Dir
      /\ job[Main(p)].goal = "claim" => pc[Naming(s)] = "idle"
  BY <1>1, <1>2 DEF JobIsOwn, MainIsInOrder
<1>4. Writing(s) /\ InUse(s)
  BY <1>2, <1>3 DEF Writing, InUse
<1>5. UseIsSaved(s)
  BY DEF SavedSoFar
<1>6. turns[s] > 0 /\ job[Main(p)].turns = turns[s]
  BY <1>3, <1>4, <1>5 DEF UseIsSaved
<1>7. ASSUME subdir[s] \in Trusted
      PROVE  /\ disk[subdir[s]] <= turns[s]
             /\ disk[subdir[s]] = 0 => pc[Naming(s)] = "idle" /\ Founder(s)
  <2>1. disk[subdir[s]] <= turns[s] /\ (job[Main(p)].goal # "claim" => disk[subdir[s]] > 0)
    BY <1>3, <1>4, <1>5, <1>7 DEF UseIsSaved
  <2>2. disk[subdir[s]] = 0 => job[Main(p)].goal = "claim"
    BY <2>1, Counts
  <2> QED BY <1>1, <1>2, <1>3, <2>1, <2>2, StoreAssumption DEF Founder
<1> QED BY <1>2, <1>3, <1>4, <1>6, <1>7

LEMMA SavesMainWrite ==
  ASSUME SavesInv, NEW p \in Process, WriteState(Main(p))
  PROVE  SavedSoFar'
<1> USE DEF SavesInv
<1>t. PICK t \in Thread : t = Main(p) /\ t[2] = "main"
  BY Threads
<1>s. PICK s \in Session :
        /\ s = job[t].obj /\ s = live[p] /\ host[s] = p /\ claimed[s]
        /\ subdir[s] = job[t].dir /\ subdir[s] \in Dir /\ Writing(s) /\ InUse(s)
        /\ turns[s] > 0 /\ job[t].turns = turns[s]
        /\ subdir[s] \in Trusted =>
             /\ disk[subdir[s]] <= turns[s]
             /\ disk[subdir[s]] = 0 => pc[Naming(s)] = "idle" /\ Founder(s)
  BY <1>t, MainWrites DEF WriteState
<1>1. /\ UNCHANGED <<sessionVars, job, raced>> /\ setBack' = setBack
      /\ disk' = [disk EXCEPT ![subdir[s]] = turns[s]]
      /\ pc[t] = "write" /\ pc' = [pc EXCEPT ![t] = "touch"]
  BY <1>s, <1>t DEF WriteState
<1>0. UNCHANGED <<host, live, subdir, claimed, turns>>
  BY <1>1 DEF sessionVars
<1>2. disk'[subdir[s]] = turns[s] /\ \A d \in Dir : d # subdir[s] => disk'[d] = disk[d]
  BY <1>1, <1>s DEF OwnersInv, Typed, TypeOK
<1>3. pc'[t] = "touch" /\ \A u \in Thread : u # t => pc'[u] = pc[u]
  BY <1>1 DEF OwnersInv, Typed, TypeOK
<1>4. Trusted' = Trusted /\ Trusted \subseteq Dir
  BY <1>1 DEF Trusted
<1>5. \A r \in Session : pc'[Naming(r)] = pc[Naming(r)] /\ job'[Naming(r)] = job[Naming(r)]
  BY <1>1, <1>3, <1>t, Threads, ThreadsDiffer
<1>6. \A q \in Process : q # p => pc'[Main(q)] = pc[Main(q)]
  BY <1>3, <1>t, Threads, ThreadsDiffer
<1>7. UseIsSaved(s)' /\ NamingIsBehind(s)'
  <2>1. ~Writing(s)'
    BY <1>0, <1>3, <1>s, <1>t DEF Writing
  <2>2. NamingIsBehind(s)
    BY DEF SavedSoFar
  <2>3. turns[s] <= disk'[subdir[s]]
    BY <1>2, Counts
  <2>4. UseIsSaved(s)'
    BY <1>0, <1>2, <1>s, <2>1 DEF UseIsSaved
  <2>5. NamingIsBehind(s)'
    BY <1>0, <1>1, <1>3, <1>5, <1>s, <1>t, <2>2, <2>3 DEF NamingIsBehind
  <2> QED BY <2>4, <2>5
<1>8. ASSUME NEW r \in Session, r # s PROVE UseIsSaved(r)' /\ NamingIsBehind(r)'
  <2>1. UseIsSaved(r) /\ NamingIsBehind(r)
    BY DEF SavedSoFar
  <2>2. ASSUME claimed[r], subdir[r] \in Trusted PROVE disk'[subdir[r]] = disk[subdir[r]]
    BY <1>2, <1>8, <1>s, <1>4, <2>2, OneOwner DEF Trusted
  <2>n. CASE host[r] \notin Process
    <3>1. pc[Naming(r)] = "idle" /\ ~claimed[r]
      BY <2>n, Counts, StoreAssumption DEF OwnersInv, JobsInv, SessionsAreHosted
    <3> QED BY <1>0, <1>5, <3>1, UnusedSession DEF InUse
  <2>h. CASE host[r] \in Process
    <3>q. PICK q \in Process : q = host[r]
      BY <2>h
    <3>1. (~Writing(r)' /\ ~Writing(r)) \/ q # p
      BY <1>0, <1>3, <1>8, <1>s, <1>t, <3>q DEF Writing
    <3>2. (Writing(r)' <=> Writing(r)) /\ (InUse(r)' <=> InUse(r))
      <4>1. Writing(r)' <=> Writing(r)
        BY <1>0, <1>1, <1>6, <3>1, <3>q DEF Writing
      <4>2. pc'[Main(q)] = "join" <=> pc[Main(q)] = "join"
        BY <1>1, <1>3, <1>6, <1>t
      <4> QED BY <1>0, <1>1, <3>q, <4>1, <4>2 DEF InUse, IsNewest
    <3>3. UseIsSaved(r)'
      BY <1>0, <1>1, <1>4, <2>1, <2>2, <3>2 DEF UseIsSaved, InUse
    <3>4. ASSUME pc[Naming(r)] \in {"armed", "opened", "write"}, subdir[r] \in Trusted
          PROVE  disk'[subdir[r]] = 0 \/ turns[r] <= disk'[subdir[r]] \/ Writing(r)
      <4>1. disk[subdir[r]] = 0 \/ turns[r] <= disk[subdir[r]] \/ Writing(r)
        BY <2>1, <3>4 DEF NamingIsBehind
      <4>2. CASE subdir[r] # subdir[s]
        BY <1>2, <1>4, <3>4, <4>1, <4>2
      <4>3. CASE subdir[r] = subdir[s]
        <5>1. disk[subdir[s]] # 0
          <6>1. Founder(r)
            BY <3>4 DEF Founder
          <6> QED BY <1>8, <1>s, <3>4, <4>3, <6>1 DEF FoundersAreAlone
        <5>2. disk[subdir[s]] <= turns[s]
          BY <1>s, <3>4, <4>3
        <5>3. turns[r] <= disk[subdir[s]] => turns[r] <= turns[s]
          BY <1>s, <5>2, Counts
        <5> QED BY <1>2, <4>1, <4>3, <5>1, <5>3
      <4> QED BY <4>2, <4>3
    <3>5. pc'[Main(q)] = "join" <=> pc[Main(q)] = "join"
      BY <1>1, <1>3, <1>6, <1>t
    <3>6. NamingIsBehind(r)'
      BY <1>0, <1>4, <1>5, <2>1, <3>q, <3>2, <3>4, <3>5 DEF NamingIsBehind
    <3> QED BY <3>3, <3>6
  <2> QED BY <2>n, <2>h
<1> QED BY <1>7, <1>8 DEF SavedSoFar

(* A naming thread saves what is saved already, or marks the directory set  *)
(* back.                                                                    *)
LEMMA SavesNamingWrite ==
  ASSUME SavesInv, NEW s \in Session, WriteState(Naming(s))
  PROVE  SavedSoFar'
<1> USE DEF SavesInv
<1>t. PICK t \in Thread : t = Naming(s) /\ t[2] = "naming"
  BY Threads
<1>w. /\ pc[t] = "write" /\ host[s] \in Process /\ job[t].obj = s
      /\ subdir[s] = job[t].dir /\ subdir[s] \in Dir
  <2>1. pc[t] = "write" /\ pc[t] # "idle" /\ pc[t] \in ActivePC
    BY <1>t DEF WriteState, ActivePC
  <2> QED BY <1>t, <2>1, WorkerInOrder, ThreadsDiffer DEF OwnersInv, JobIsOwn, NamingIsInOrder
<1>1. /\ UNCHANGED <<sessionVars, job, raced>> /\ disk' = [disk EXCEPT ![subdir[s]] = job[t].turns]
      /\ setBack' = IF job[t].turns < disk[subdir[s]] THEN setBack \cup {subdir[s]} ELSE setBack
      /\ pc' = [pc EXCEPT ![t] = "touch"]
  BY <1>t, <1>w DEF WriteState
<1>0. UNCHANGED <<host, live, subdir, claimed, turns>>
  BY <1>1 DEF sessionVars
<1>2. disk'[subdir[s]] = job[t].turns /\ \A d \in Dir : d # subdir[s] => disk'[d] = disk[d]
  BY <1>1, <1>w DEF OwnersInv, Typed, TypeOK
<1>3. pc'[t] = "touch" /\ \A u \in Thread : u # t => pc'[u] = pc[u]
  BY <1>1 DEF OwnersInv, Typed, TypeOK
<1>4. Trusted' \subseteq Trusted /\ Trusted \subseteq Dir
  BY <1>1 DEF Trusted
<1>5. \A q \in Process : pc'[Main(q)] = pc[Main(q)] /\ job'[Main(q)] = job[Main(q)]
  BY <1>1, <1>3, <1>t, Threads, ThreadsDiffer
<1>6. \A r \in Session : r # s =>
        pc'[Naming(r)] = pc[Naming(r)] /\ job'[Naming(r)] = job[Naming(r)]
  BY <1>1, <1>3, <1>t, Threads, ThreadsDiffer
<1>7. \A r \in Session : host[r] \in Process =>
        (Writing(r)' <=> Writing(r)) /\ (InUse(r)' <=> InUse(r))
  BY <1>0, <1>5 DEF Writing, InUse, IsNewest
<1>8. UseIsSaved(s) /\ NamingIsBehind(s)
  BY DEF SavedSoFar
<1>9. NamingIsBehind(s)'
  BY <1>0, <1>3, <1>5, <1>8, <1>t, <1>w DEF NamingIsBehind
(* Whoever has this directory in use has it as it was.                      *)
<1>10. ASSUME NEW r \in Session, InUse(r), host[r] \in Process, subdir[r] \in Trusted',
              subdir[r] = subdir[s]
       PROVE  \/ disk'[subdir[r]] = disk[subdir[r]]
              \/ r = s /\ Writing(s) /\ disk'[subdir[s]] <= turns[s] /\ disk'[subdir[s]] > 0
  <2>1. subdir[s] \in Trusted /\ ~(job[t].turns < disk[subdir[s]])
    BY <1>1, <1>4, <1>10 DEF Trusted
  <2>2. /\ disk[subdir[s]] \in Nat /\ job[t].turns \in Nat /\ turns[s] \in Nat
        /\ job[t].turns <= turns[s]
    BY <1>8, <1>t, <1>w, Counts DEF NamingIsBehind
  <2>3. claimed[r]
    BY <1>10 DEF InUse
  <2>4. disk[subdir[s]] # 0
    <3> SUFFICES ASSUME disk[subdir[s]] = 0 PROVE FALSE
      OBVIOUS
    <3>1. UseIsSaved(r)
      BY DEF SavedSoFar
    <3>2. turns[r] > 0 /\ turns[r] \in Nat
      BY <1>10, <3>1, Counts DEF UseIsSaved
    <3>3. Writing(r)
      BY <1>10, <2>1, <3>1, <3>2 DEF UseIsSaved
    <3>4. PICK q \in Process : q = host[r]
      BY <1>10
    <3>5. Founder(r) /\ pc[Naming(r)] = "idle"
      BY <1>10, <2>1, <3>3, <3>4, MainWrites DEF Writing
    <3>6. Founder(s)
      BY <1>t, <1>w DEF Founder
    <3>7. r = s
      BY <1>10, <1>w, <3>5, <3>6 DEF FoundersAreAlone
    <3> QED BY <1>t, <1>w, <3>5, <3>7
  <2>5. turns[s] <= disk[subdir[s]] \/ Writing(s)
    BY <1>8, <1>t, <1>w, <2>1, <2>4 DEF NamingIsBehind
  <2>6. CASE turns[s] <= disk[subdir[s]]
    BY <1>2, <1>10, <2>1, <2>2, <2>6
  <2>7. CASE Writing(s)
    <3>1. PICK q \in Process : q = host[s]
      BY <1>w
    <3>2. claimed[s]
      BY <2>7, <3>1, MainWrites DEF Writing
    <3>3. r = s
      BY <1>10, <2>1, <2>3, <3>2, OneOwner DEF Trusted
    <3>4. disk'[subdir[s]] <= turns[s] /\ disk'[subdir[s]] > 0
      BY <1>2, <2>1, <2>2, <2>4
    <3> QED BY <2>7, <3>3, <3>4
  <2> QED BY <2>5, <2>6, <2>7
<1>11. ASSUME NEW r \in Session, host[r] \in Process PROVE UseIsSaved(r)'
  <2>1. UseIsSaved(r) /\ (InUse(r)' <=> InUse(r)) /\ (Writing(r)' <=> Writing(r))
    BY <1>7, <1>11 DEF SavedSoFar
  <2>q. PICK q \in Process : q = host[r]
    BY <1>11
  <2>2. CASE subdir[r] \in Trusted' => disk'[subdir[r]] = disk[subdir[r]]
    BY <1>0, <1>4, <1>5, <2>1, <2>q, <2>2 DEF UseIsSaved
  <2>3. CASE subdir[r] \in Trusted' /\ disk'[subdir[r]] # disk[subdir[r]]
    <3>1. subdir[r] = subdir[s]
      BY <1>2, <1>4, <2>3
    <3>2. InUse(r) => r = s /\ Writing(s) /\ disk'[subdir[s]] <= turns[s] /\ disk'[subdir[s]] > 0
      BY <1>10, <1>11, <2>3, <3>1
    <3> QED BY <1>0, <1>5, <2>1, <2>q, <3>2 DEF UseIsSaved
  <2> QED BY <2>2, <2>3
<1>12. ASSUME NEW r \in Session, r # s, host[r] \in Process PROVE NamingIsBehind(r)'
  <2>q. PICK q \in Process : q = host[r]
    BY <1>12
  <2>1. pc[Naming(r)] # "idle" => subdir[r] # subdir[s]
    <3>1. Founder(s)
      BY <1>t, <1>w DEF Founder
    <3>2. pc[Naming(r)] # "idle" => Founder(r)
      BY DEF Founder
    <3> QED BY <1>12, <1>w, <3>1, <3>2 DEF FoundersAreAlone
  <2>2. NamingIsBehind(r) /\ (Writing(r)' <=> Writing(r))
    BY <1>7, <1>12 DEF SavedSoFar
  <2> QED BY <1>0, <1>2, <1>4, <1>5, <1>6, <1>12, <2>q, <2>1, <2>2 DEF NamingIsBehind
<1>13. ASSUME NEW r \in Session PROVE UseIsSaved(r)' /\ NamingIsBehind(r)'
  <2>1. CASE host[r] \in Process
    BY <1>9, <1>11, <1>12, <2>1
  <2>2. CASE host[r] \notin Process
    <3>1. pc[Naming(r)] = "idle" /\ ~claimed[r] /\ r # s
      BY <1>w, <2>2, Counts, StoreAssumption DEF OwnersInv, JobsInv, SessionsAreHosted
    <3> QED BY <1>0, <1>6, <3>1, UnusedSession DEF InUse
  <2> QED BY <2>1, <2>2
<1> QED BY <1>13 DEF SavedSoFar

LEMMA SavesQuietly ==
  ASSUME SavesInv, NEW t \in Thread, Touch(t) \/ Probe(t) \/ RemoveTree(t)
  PROVE  SavedSoFar'
<1> USE DEF SavesInv
<1>0. /\ pc \in [Thread -> {"idle", "opened", "write", "touch", "prune", "remove",
                           "release", "join", "armed", "done"}]
      /\ job \in [Thread -> Job] /\ disk \in [Dir -> 0..MaxTurns]
  BY DEF OwnersInv, Typed, TypeOK
<1>1. UNCHANGED <<sessionVars, raced, setBack>>
  BY DEF Touch, Probe, RemoveTree, historyVars
<1>2. /\ pc[t] \in {"touch", "prune", "remove"} /\ pc'[t] \in {"touch", "prune", "remove"}
      /\ \A u \in Thread : u # t => pc'[u] = pc[u] /\ job'[u] = job[u]
  BY <1>0 DEF Touch, Probe, RemoveTree
<1>3. ASSUME NEW v, NEW w, job' = [job EXCEPT ![t] = WithLists(t, v, w)]
      PROVE  /\ job'[t].goal = job[t].goal /\ job'[t].obj = job[t].obj
             /\ job'[t].turns = job[t].turns
  <2>1. job[t] \in Job /\ job'[t] = WithLists(t, v, w)
    BY <1>0, <1>3
  <2> QED BY <2>1 DEF WithLists, Job
<1>4. \A u \in Thread : /\ job'[u].goal = job[u].goal /\ job'[u].obj = job[u].obj
                        /\ job'[u].turns = job[u].turns
  <2>1. CASE Touch(t)
    <3> DEFINE list == Fronted(job[t].dir)
               v == SubSeq(list, 1, Recent(list))
               w == SubSeq(list, Recent(list) + 1, Len(list))
    <3>1. job' = [job EXCEPT ![t] = WithLists(t, v, w)]
      BY <2>1 DEF Touch, WithLists, OwnersInv, Typed
    <3> HIDE DEF v, w
    <3> QED BY <1>2, <1>3, <3>1
  <2>2. CASE Probe(t)
    <3> DEFINE v == Append(job[t].view, Head(job[t].todo))
               w == Tail(job[t].todo)
    <3>1. job' = job \/ job' = [job EXCEPT ![t] = WithLists(t, v, w)]
      BY <2>2 DEF Probe, WithLists, OwnersInv, Typed
    <3> HIDE DEF v, w
    <3> QED BY <1>2, <1>3, <3>1
  <2>3. CASE RemoveTree(t)
    <3> DEFINE w == Tail(job[t].todo)
    <3>1. job' = [job EXCEPT ![t] = [job[t] EXCEPT !.todo = w]]
      BY <2>3 DEF RemoveTree, OwnersInv, Typed
    <3> HIDE DEF w
    <3>2. job'[t] = [job[t] EXCEPT !.todo = w] /\ job[t] \in Job
      BY <1>0, <3>1
    <3> QED BY <1>2, <3>2 DEF Job
  <2> QED BY <2>1, <2>2, <2>3
<1>5. disk' = disk \/ RemoveTree(t)
  BY DEF Touch, Probe, diskVars
<1>6. \A d \in Dir : disk'[d] \in {disk[d], 0}
  BY <1>0, <1>5 DEF RemoveTree
<1>7. ASSUME NEW s \in Session, claimed[s], subdir[s] \in Trusted
      PROVE  disk'[subdir[s]] = disk[subdir[s]]
  <2>1. CASE RemoveTree(t)
    <3>1. subdir[s] # Head(job[t].todo)
      BY <1>7, <2>1 DEF RemoveTree, OwnersInv, Locks, RemovedIsFree, Trusted
    <3> QED BY <1>0, <1>7, <2>1, <3>1 DEF RemoveTree, Trusted
  <2> QED BY <1>5, <2>1
<1> QED BY <1>1, <1>2, <1>4, <1>6, <1>7, QuietSaves

LEMMA SavesEnd ==
  ASSUME SavesInv, NEW t \in Thread, NoLock(t) \/ SkipTouch(t) \/ WriteIndex(t)
  PROVE  SavedSoFar'
<1> USE DEF SavesInv
<1>0. /\ pc \in [Thread -> {"idle", "opened", "write", "touch", "prune", "remove",
                           "release", "join", "armed", "done"}]
      /\ job \in [Thread -> Job]
  BY DEF OwnersInv, Typed, TypeOK
<1>1. UNCHANGED <<disk, sessionVars, raced, setBack>>
  BY DEF NoLock, SkipTouch, WriteIndex, diskVars, historyVars
<1>2. CASE NoLock(t)
  <2>1. pc[t] = "opened" /\ JobEnds(t) /\ \A u \in Thread : u # t => pc'[u] = pc[u]
    BY <1>0, <1>2 DEF NoLock, Finish, JobEnds
  <2> QED BY <1>1, <2>1, EndSaves
<1>3. CASE SkipTouch(t) \/ WriteIndex(t)
  <2>1. pc[t] \in {"touch", "prune"} /\ Saved(t)
    BY <1>3 DEF SkipTouch, WriteIndex
  <2>2. JobEnds(t) \/ (job' = job /\ pc' = [pc EXCEPT ![t] = "release"])
    BY <2>1, SavedEffects DEF OwnersInv
  <2>3. CASE JobEnds(t)
    BY <1>1, <2>1, <2>3, EndSaves
  <2>4. CASE job' = job /\ pc' = [pc EXCEPT ![t] = "release"]
    <3>1. \A u \in Thread : \/ pc'[u] = pc[u]
                            \/ /\ pc[u] \in {"touch", "prune", "remove"}
                               /\ pc'[u] \in {"touch", "prune", "remove", "release"}
      BY <1>0, <2>1, <2>4
    <3>2. \A d \in Dir : disk'[d] \in {disk[d], 0}
      BY <1>1
    <3>3. \A s \in Session : claimed[s] /\ subdir[s] \in Trusted =>
            disk'[subdir[s]] = disk[subdir[s]]
      BY <1>1
    <3> QED BY <1>1, <2>4, <3>1, <3>2, <3>3, QuietSaves
  <2> QED BY <2>2, <2>3, <2>4
<1> QED BY <1>2, <1>3

LEMMA SavesStep ==
  ASSUME SavesInv, OwnersInv', Next
  PROVE  SavedSoFar'
<1>1. ASSUME NEW t \in Thread, Step(t) PROVE SavedSoFar'
  <2>1. CASE NoLock(t) \/ SkipTouch(t) \/ WriteIndex(t)
    BY <2>1, SavesEnd
  <2>2. CASE Touch(t) \/ Probe(t) \/ RemoveTree(t)
    BY <2>2, SavesQuietly
  <2>3. CASE WriteState(t)
    <3>1. CASE \E p \in Process : t = Main(p)
      BY <2>3, <3>1, SavesMainWrite
    <3>2. CASE \E s \in Session : t = Naming(s)
      BY <2>3, <3>2, SavesNamingWrite
    <3> QED BY <3>1, <3>2, Threads
  <2>4. CASE Claim(t)
    BY <2>4, SavesClaim
  <2>5. CASE Adopt(t)
    BY <2>5, SavesAdopt
  <2>6. CASE Release(t)
    BY <2>6, SavesRelease
  <2>7. CASE Join(t)
    BY <2>7, SavesJoin
  <2> QED BY <1>1, <2>1, <2>2, <2>3, <2>4, <2>5, <2>6, <2>7 DEF Step
<1>2. ASSUME NEW p \in Process, NEW d \in Dir, FirstTurn(p, d) \/ Restore(p, d) PROVE SavedSoFar'
  BY <1>2, SavesFirstTurn, SavesRestore
<1>3. ASSUME NEW p \in Process, Turn(p) \/ Close(p) \/ Crash(p) PROVE SavedSoFar'
  BY <1>3, SavesSave, SavesCrash
<1>4. ASSUME NEW s \in Session, NamingReply(s) PROVE SavedSoFar'
  BY <1>4, SavesNamingReply
<1> QED BY <1>1, <1>2, <1>3, <1>4 DEF Next

LEMMA SavesNext == SavesInv /\ [Next]_vars => SavesInv'
<1> SUFFICES ASSUME SavesInv, [Next]_vars PROVE SavesInv'
  OBVIOUS
<1>0. OwnersInv'
  BY OwnersNext DEF SavesInv
<1>1. CASE Next
  BY <1>0, <1>1, FoundersStayAlone, JobsStayClear, FreshStays, UnsavedStays, SavesStep DEF SavesInv
<1>2. CASE UNCHANGED vars
  BY <1>2, <1>0
     DEF vars, diskVars, sessionVars, historyVars, SavesInv, FoundersAreAlone, Founder, JobsAreClear,
         FreshIsUnsaved, UnsavedHasNoFile, SavedSoFar, UseIsSaved, NamingIsBehind, InUse, Writing,
         IsNewest, Trusted
<1> QED BY <1>1, <1>2

LEMMA SavesInit == Init => SavesInv
<1> SUFFICES ASSUME Init PROVE SavesInv
  OBVIOUS
<1>1. OwnersInv
  BY OwnersInit
<1>2. \A s \in Session : pc[Naming(s)] = "idle" /\ ~claimed[s] /\ host[s] = None
  BY Threads DEF Init
<1>3. FoundersAreAlone
  BY <1>2 DEF FoundersAreAlone, Founder
<1>4. JobsAreClear
  BY DEF Init, JobsAreClear
<1>5. FreshIsUnsaved
  BY Threads DEF Init, FreshIsUnsaved
<1>6. UnsavedHasNoFile
  BY DEF Init, UnsavedHasNoFile
<1>7. SavedSoFar
  BY <1>2 DEF SavedSoFar, UseIsSaved, NamingIsBehind, InUse
<1> QED BY <1>1, <1>3, <1>4, <1>5, <1>6, <1>7 DEF SavesInv

(* No save of a conversation takes session.json back, whoever owned the     *)
(* directory before (persist_state, write_session_state): the owner of a    *)
(* directory has at least what is saved there, from the restore on, and     *)
(* none of the others writes there but a naming thread, whose older copy    *)
(* marks the directory.                                                     *)
THEOREM SavesNeverGoBack == Spec => SavesOnlyAdvance
<1>1. ASSUME SavesInv, Next
      PROVE  \A d \in Dir \ (raced \cup setBack') : disk'[d] = 0 \/ disk'[d] >= disk[d]
  <2> SUFFICES ASSUME NEW d \in Dir \ (raced \cup setBack'), disk'[d] # disk[d]
               PROVE  disk'[d] = 0 \/ disk'[d] >= disk[d]
    BY <1>1, Counts DEF SavesInv
  <2>0. disk \in [Dir -> 0..MaxTurns]
    BY <1>1 DEF SavesInv, OwnersInv, Typed, TypeOK
  <2>1. PICK t \in Thread : WriteState(t) \/ RemoveTree(t)
    <3>1. ASSUME NEW p \in Process,
                 (\E e \in Dir : FirstTurn(p, e) \/ Restore(p, e)) \/ Turn(p) \/ Close(p) \/ Crash(p)
          PROVE  disk' = disk
      BY <3>1 DEF FirstTurn, Restore, Turn, Close, Crash, diskVars
    <3>2. ASSUME NEW s \in Session, NamingReply(s) PROVE disk' = disk
      BY <1>1, <3>2, NamingBegins DEF SavesInv
    <3>3. ASSUME NEW u \in Thread, Step(u) PROVE disk' = disk \/ WriteState(u) \/ RemoveTree(u)
      BY <1>1, <3>3, ThreadWrites DEF SavesInv
    <3> QED BY <1>1, <3>1, <3>2, <3>3 DEF Next
  <2>2. CASE RemoveTree(t)
    BY <2>0, <2>2 DEF RemoveTree
  <2>3. CASE WriteState(t)
    <3>1. /\ disk' = [disk EXCEPT ![job[t].dir] = job[t].turns] /\ pc[t] = "write"
          /\ setBack' = IF t[2] = "naming" /\ job[t].turns < disk[job[t].dir]
                          THEN setBack \cup {job[t].dir} ELSE setBack
      BY <2>3 DEF WriteState
    <3>2. job[t].dir = d /\ disk'[d] = job[t].turns
      BY <2>0, <3>1
    <3>3. disk[d] \in Nat /\ job[t].turns \in Nat
      BY <1>1, Counts DEF SavesInv
    <3>4. CASE \E p \in Process : t = Main(p)
      <4>1. PICK s \in Session : /\ subdir[s] = d /\ job[t].turns = turns[s]
                                 /\ subdir[s] \in Trusted => disk[subdir[s]] <= turns[s]
        BY <1>1, <3>1, <3>2, <3>4, MainWrites
      <4>2. d \in Trusted
        BY <3>1 DEF Trusted
      <4> QED BY <3>2, <3>3, <4>1, <4>2
    <3>5. CASE \E s \in Session : t = Naming(s)
      <4>1. ~(job[t].turns < disk[d])
        BY <3>1, <3>2, <3>5, Threads
      <4> QED BY <3>2, <3>3, <4>1
    <3> QED BY <3>4, <3>5, Threads
  <2> QED BY <2>1, <2>2, <2>3
<1>2. ASSUME SavesInv, UNCHANGED vars
      PROVE  \A d \in Dir \ (raced \cup setBack') : disk'[d] = 0 \/ disk'[d] >= disk[d]
  BY <1>2, Counts DEF vars, diskVars, SavesInv
<1>3. SavesInv /\ [Next]_vars =>
        [\A d \in Dir \ (raced \cup setBack') : disk'[d] = 0 \/ disk'[d] >= disk[d]]_vars
  BY <1>1, <1>2
<1> QED BY <1>3, SavesInit, SavesNext, PTL DEF Spec, SavesOnlyAdvance

(* What a process has closed any can go on with                             *)
(* (_finalize_session_persistence): between the last save of a close and    *)
(* the release of the lock nobody else writes session.json.                 *)
THEOREM ClosedSessionsAreSaved == Spec => ClosedIsSaved
<1>1. ASSUME SavesInv, NEW t \in Thread, Release(t)
      PROVE  job[t].dir \in raced \cup setBack \/ disk[job[t].dir] = turns[job[t].obj]
  <2>a. pc[t] = "release" /\ pc[t] \in ActivePC
    BY <1>1 DEF Release, ActivePC
  <2>1. PICK p \in Process : t = Main(p)
    BY <1>1, <2>a, Closer DEF SavesInv
  <2>2. JobIsOwn(t) /\ MainIsInOrder(p) /\ job[t].obj \in Session /\ host[job[t].obj] = p
    BY <1>1, <2>1, <2>a, MainAtWork DEF SavesInv
  <2>s. PICK s \in Session : s = job[t].obj
    BY <2>2
  <2>3. InUse(s) /\ ~Writing(s) /\ subdir[s] = job[t].dir /\ job[t].dir \in Dir
    BY <2>1, <2>2, <2>a, <2>s DEF JobIsOwn, MainIsInOrder, InUse, Writing
  <2>4. UseIsSaved(s)
    BY <1>1 DEF SavesInv, SavedSoFar
  <2> QED BY <2>3, <2>4, <2>s DEF UseIsSaved, Trusted
<1>2. SavesInv =>
        [\A t \in Thread : Release(t) =>
           job[t].dir \in raced \cup setBack \/ disk[job[t].dir] = turns[job[t].obj]]_vars
  BY <1>1
<1> QED BY <1>2, SavesInit, SavesNext, PTL DEF Spec, ClosedIsSaved
=============================================================================
