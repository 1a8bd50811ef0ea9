---------------------------- MODULE GroupToolsProofs ----------------------------
(***************************************************************************)
(* Proofs about the chat room of GroupTools, for any agents, any size of    *)
(* the history and of a read, and any cap on the wakes of mentions, and     *)
(* about its task list, for any sessions and roles, any number of issues,   *)
(* calls and failures.                                                      *)
(***************************************************************************)
EXTENDS GroupTools, FiniteSetTheorems, TLAPS
-----------------------------------------------------------------------------
(* The chat room                                                            *)

Waking == {p \in Participant : pc[p] = "waking"}
MostWakes == MaxMentionWakes + Cardinality(Participant) - 1

(* What is true of a state of the channel that may become the current one:  *)
(* the current one itself, the snapshot a saver holds, and chat.json.       *)
Sane(s) ==
  /\ s \in SavedState
  /\ \A m \in s.messages : m <= s.nextSeq
  /\ s.nextSeq > 0 => s.nextSeq \in s.messages
  /\ s.hwm[Root] # NoMark
  /\ \A p \in Participant : s.hwm[p] # NoMark => hwm[p] # NoMark /\ s.hwm[p] <= s.nextSeq
  /\ s.wakes <= MostWakes
  /\ NoneSkippedIn(s)

ChatInv ==
  /\ ChatTypeOK
  /\ Sane(Snapshot) /\ Sane(snap) /\ Sane(disk.state)
  /\ \A p \in live : hwm[p] # NoMark
  /\ WakeOvershootIsBounded

-----------------------------------------------------------------------------
(* The participants are finitely many, and there is one.                    *)
LEMMA SomeParticipants ==
  /\ IsFiniteSet(Participant)
  /\ Cardinality(Participant) \in Nat \ {0}
<1>1. IsFiniteSet({Root, User})
  <2>1. {Root} \cup {User} = {Root, User}
    OBVIOUS
  <2>2. IsFiniteSet({Root}) /\ IsFiniteSet({User})
    BY FS_Singleton
  <2> QED BY <2>1, <2>2, FS_Union
<1>2. IsFiniteSet(Participant)
  BY <1>1, FS_Union, ChannelAssumption DEF Participant
<1>3. Cardinality(Participant) \in Nat
  BY <1>2, FS_CardinalityType
<1>4. Cardinality(Participant) # 0
  BY <1>2, FS_EmptySet DEF Participant
<1> QED BY <1>2, <1>3, <1>4

(* A non-empty finite set of sequence numbers has a newest one.             *)
LEMMA BatchHasNewest ==
  ASSUME NEW batch \in SUBSET Int, IsFiniteSet(batch), batch # {}
  PROVE  Newest(batch) \in batch /\ \A t \in batch : t <= Newest(batch)
<1> DEFINE After(s) == {t \in batch : t > s}
           T == {After(s) : s \in batch}
<1>1. T \subseteq FiniteSubsetsOf(batch)
  BY FS_Subset DEF FiniteSubsetsOf
<1>2. IsWellFoundedOn(StrictSubsetOrdering(batch), FiniteSubsetsOf(batch))
  BY FS_StrictSubsetOrderingWellFounded
<1>3. PICK least \in T : \A y \in T : <<y, least>> \notin StrictSubsetOrdering(batch)
  <2>1. T # {}
    OBVIOUS
  <2> HIDE DEF T
  <2> QED BY <1>1, <1>2, <2>1, WFMin
<1>4. PICK s \in batch : least = After(s)
  OBVIOUS
<1>5. \A t \in batch : t <= s
  <2> SUFFICES ASSUME NEW t \in batch, t > s PROVE FALSE
    OBVIOUS
  <2>1. t \in Int /\ s \in Int /\ \A u \in batch : u \in Int /\ (u > t => u > s) /\ ~(t > t)
    OBVIOUS
  <2>2. After(t) \subseteq After(s) /\ t \in After(s) /\ t \notin After(t)
    BY <2>1
  <2>3. <<After(t), least>> \in StrictSubsetOrdering(batch)
    BY <1>4, <2>2 DEF StrictSubsetOrdering
  <2> QED BY <1>3, <2>3
<1> QED BY <1>5 DEF Newest

(* What a read returns is the oldest part of what is unread, whatever limit *)
(* it is given: it leaves no gap below its newest message.                  *)
LEMMA SliceLeavesNoGap ==
  ASSUME NEW unread \in SUBSET Int, IsFiniteSet(unread), NEW limit \in Int,
         NEW s \in Slice(unread, limit), NEW m \in unread, m <= s
  PROVE  m \in Slice(unread, limit)
<1>1. s \in unread /\ s \in Int /\ m \in Int /\ \A t \in unread : t \in Int
  BY DEF Slice
<1>2. \A t \in unread : (t < m => t < s) /\ (t > s => t > m)
  BY <1>1
<1>3. CASE limit >= 0
  <2> DEFINE A == {t \in unread : t < m}
             B == {t \in unread : t < s}
  <2>1. A \subseteq B
    BY <1>2
  <2>2. IsFiniteSet(B) /\ Cardinality(A) <= Cardinality(B)
    BY <2>1, FS_Subset
  <2>3. IsFiniteSet(A) /\ Cardinality(A) \in Nat /\ Cardinality(B) \in Nat
    BY <2>1, <2>2, FS_Subset, FS_CardinalityType
  <2>4. Cardinality(B) < limit
    BY <1>3 DEF Slice
  <2>5. Cardinality(A) < limit
    BY <2>2, <2>3, <2>4
  <2> QED BY <1>3, <2>5 DEF Slice
<1>4. CASE ~(limit >= 0)
  <2> DEFINE A == {t \in unread : t > m}
             B == {t \in unread : t > s}
  <2>1. B \subseteq A
    BY <1>2
  <2>2. IsFiniteSet(A) /\ Cardinality(B) <= Cardinality(A)
    BY <2>1, FS_Subset
  <2>3. IsFiniteSet(B) /\ Cardinality(A) \in Nat /\ Cardinality(B) \in Nat
    BY <2>1, <2>2, FS_Subset, FS_CardinalityType
  <2>4. Cardinality(B) >= 0 - limit
    BY <1>4 DEF Slice
  <2>5. Cardinality(A) >= 0 - limit
    BY <2>2, <2>3, <2>4
  <2> QED BY <1>4, <2>5 DEF Slice
<1> QED BY <1>3, <1>4

(* Trimming the history keeps its newest message.                           *)
LEMMA NewestIsKept ==
  ASSUME NEW all \in SUBSET Int, NEW seq \in all, \A t \in all : t <= seq
  PROVE  seq \in Trimmed(all)
<1>0. seq \in Int /\ \A t \in all : t \in Int /\ ~(t > seq)
  OBVIOUS
<1>1. {t \in all : t > seq} = {}
  BY <1>0
<1>2. Cardinality({t \in all : t > seq}) = 0
  BY <1>1, FS_EmptySet
<1> QED BY <1>2, ChannelAssumption DEF Trimmed

-----------------------------------------------------------------------------
(* The channel a new root session starts with.                              *)
LEMMA FreshIsSane ==
  ASSUME setup.wakes \in Nat, setup.posts \in Nat, hwm[Root] # NoMark
  PROVE  Sane(Fresh)
<1>1. OnlyRoot(0) \in [Participant -> (0..MaxPosts) \cup {NoMark}]
  BY DEF OnlyRoot, MaxPosts
<1>2. Fresh \in SavedState
  BY <1>1 DEF SavedState, Fresh, MaxPosts
<1>3. 0 <= MostWakes
  BY SomeParticipants DEF MostWakes, MaxMentionWakes
<1>4. Fresh.hwm[Root] # NoMark
  BY ChannelAssumption DEF Fresh, OnlyRoot, Participant
<1>5. NoneSkippedIn(Fresh)
  BY DEF NoneSkippedIn, Fresh
<1>6. \A p \in Participant : Fresh.hwm[p] # NoMark => hwm[p] # NoMark /\ Fresh.hwm[p] <= 0
  BY DEF Fresh, OnlyRoot
<1> QED BY <1>2, <1>3, <1>4, <1>5, <1>6 DEF Sane, Fresh

(* The invariant holds at first.                                            *)
LEMMA ChatInitHolds == ChatInit => ChatInv
<1> SUFFICES ASSUME ChatInit PROVE ChatInv
  OBVIOUS
<1> USE DEF ChatInit
<1>1. setup.wakes \in Nat /\ setup.posts \in Nat
  BY ChannelAssumption
<1>2. OnlyRoot(0) \in [Participant -> (0..MaxPosts) \cup {NoMark}]
  BY <1>1 DEF OnlyRoot, MaxPosts
<1>3. Fresh \in SavedState
  BY <1>1, <1>2 DEF SavedState, Fresh, MaxPosts
<1>4. Snapshot = Fresh
  BY DEF Snapshot, Fresh
<1>5. Sane(Fresh)
  <2>1. hwm[Root] # NoMark
    BY ChannelAssumption DEF OnlyRoot, Participant
  <2> QED BY <1>1, <2>1, FreshIsSane
<1>6. ChatTypeOK
  <2>1. messages \in SUBSET (1..MaxPosts) /\ nextSeq \in 0..MaxPosts /\ wakes \in Nat
    BY <1>1 DEF MaxPosts
  <2>2. live \in SUBSET Participant
    BY DEF Participant
  <2>3. disk \in [written : BOOLEAN, state : SavedState]
    BY <1>3
  <2> QED BY <1>2, <1>3, <2>1, <2>2, <2>3 DEF ChatTypeOK
<1>7. \A p \in live : hwm[p] # NoMark
  BY ChannelAssumption DEF OnlyRoot, Participant
<1>8. WakeOvershootIsBounded
  <2>1. {p \in Participant : pc[p] = "waking"} = {}
    OBVIOUS
  <2>2. Cardinality({p \in Participant : pc[p] = "waking"}) = 0
    BY <2>1, FS_EmptySet
  <2> QED BY <1>1, <2>2, SomeParticipants DEF WakeOvershootIsBounded, MaxMentionWakes
<1> QED BY <1>4, <1>5, <1>6, <1>7, <1>8 DEF ChatInv

-----------------------------------------------------------------------------
(* Every step keeps it.                                                     *)

(* The parts about the state that is current, by the variables they read.   *)
LEMMA CurrentIsSaved ==
  ASSUME ChatTypeOK
  PROVE  /\ Snapshot \in SavedState
         /\ setup.wakes \in Nat /\ setup.posts \in Nat
BY ChannelAssumption DEF ChatTypeOK, Snapshot, SavedState

LEMMA RegisterKeeps == ASSUME ChatInv, NEW p \in Participant, Register(p) PROVE ChatInv'
<1> USE DEF Register, ChatInv
<1>1. CASE hwm[p] # NoMark
  <2>1. UNCHANGED <<setup, messages, nextSeq, hwm, wakes, dirty, pc, saver, snap, disk, joined, seen>>
    BY <1>1
  <2>2. live' \in SUBSET Participant /\ \A q \in live' : hwm[q] # NoMark
    BY <1>1 DEF ChatTypeOK
  <2>3. ChatTypeOK'
    BY <2>1, <2>2 DEF ChatTypeOK, MaxPosts, SavedState
  <2>4. Sane(Snapshot)' /\ Sane(snap)' /\ Sane(disk.state)'
    BY <2>1 DEF Sane, Snapshot, NoneSkippedIn, MostWakes, MaxMentionWakes, SavedState, MaxPosts
  <2>5. WakeOvershootIsBounded'
    BY <2>1 DEF WakeOvershootIsBounded, MaxMentionWakes
  <2> QED BY <2>1, <2>2, <2>3, <2>4, <2>5
<1>2. CASE hwm[p] = NoMark
  <2>1. /\ UNCHANGED <<setup, messages, nextSeq, wakes, pc, saver, snap, disk, seen>>
        /\ hwm' = [hwm EXCEPT ![p] = nextSeq] /\ joined' = [joined EXCEPT ![p] = nextSeq]
        /\ dirty' = TRUE /\ live' = live \cup {p}
    BY <1>2
  <2>2. /\ hwm \in [Participant -> (0..MaxPosts) \cup {NoMark}]
        /\ joined \in [Participant -> (0..MaxPosts) \cup {NoMark}]
        /\ nextSeq \in 0..MaxPosts /\ nextSeq # NoMark
    BY ChannelAssumption DEF ChatTypeOK
  <2>3. \A q \in Participant : hwm'[q] = (IF q = p THEN nextSeq ELSE hwm[q])
                            /\ joined'[q] = (IF q = p THEN nextSeq ELSE joined[q])
    BY <2>1, <2>2
  <2>4. live' \in SUBSET Participant /\ \A q \in live' : hwm'[q] # NoMark
    BY <2>1, <2>2, <2>3 DEF ChatTypeOK
  <2>5. ChatTypeOK'
    BY <2>1, <2>2, <2>4 DEF ChatTypeOK, MaxPosts, SavedState
  <2>6. ASSUME NEW s, Sane(s), UNCHANGED s PROVE Sane(s)'
    <3>1. s.hwm[p] = NoMark
      BY <1>2, <2>6 DEF Sane
    <3>2. NoneSkippedIn(s)'
      BY <2>1, <2>3, <2>6, <3>1 DEF Sane, NoneSkippedIn
    <3>3. \A q \in Participant : s.hwm[q] # NoMark => hwm'[q] # NoMark
      BY <2>2, <2>3, <2>6 DEF Sane
    <3> QED BY <2>1, <2>6, <3>2, <3>3 DEF Sane, MostWakes, MaxMentionWakes, SavedState, MaxPosts
  <2>7. Sane(snap)' /\ Sane(disk.state)'
    BY <2>1, <2>6
  <2>8. Sane(Snapshot)'
    <3>1. NoneSkippedIn(Snapshot)'
      BY <2>1, <2>2, <2>3 DEF Sane, NoneSkippedIn, Snapshot, ChatTypeOK
    <3>2. Snapshot' \in SavedState'
      BY <2>5 DEF ChatTypeOK, Snapshot, SavedState
    <3>3. hwm'[Root] # NoMark /\ \A q \in Participant : hwm'[q] # NoMark => hwm'[q] <= nextSeq
      BY <2>2, <2>3 DEF Sane, Snapshot, Participant
    <3> QED BY <2>1, <3>1, <3>2, <3>3 DEF Sane, Snapshot, MostWakes, MaxMentionWakes
  <2>9. WakeOvershootIsBounded'
    BY <2>1 DEF WakeOvershootIsBounded, MaxMentionWakes
  <2> QED BY <2>4, <2>5, <2>7, <2>8, <2>9
<1> QED BY <1>1, <1>2

LEMMA PostKeeps ==
  ASSUME ChatInv, NEW p \in Participant, NEW mentions \in BOOLEAN, Post(p, mentions)
  PROVE  ChatInv'
<1> DEFINE seq == nextSeq + 1
<1>1. /\ UNCHANGED <<setup, wakes, live, saver, snap, disk, joined>>
      /\ nextSeq' = seq /\ messages' = Trimmed(messages \cup {seq}) /\ dirty' = TRUE
      /\ seen' = [seen EXCEPT ![p] = @ \cup {seq}]
      /\ pc' = [pc EXCEPT ![p] = IF mentions THEN "mention" ELSE "idle"]
      /\ hwm' = IF Mark(p) = nextSeq THEN [hwm EXCEPT ![p] = seq] ELSE hwm
      /\ p \in live /\ pc[p] = "idle" /\ nextSeq < MaxPosts
  BY DEF Post, AdvancesOwnMark
<1>2. /\ ChatTypeOK /\ hwm[p] # NoMark /\ Mark(p) = hwm[p]
      /\ \A q \in live : hwm[q] # NoMark
  BY <1>1 DEF ChatInv, Mark
<1>3. /\ messages \in SUBSET (1..MaxPosts) /\ nextSeq \in Nat /\ MaxPosts \in Nat
      /\ hwm \in [Participant -> (0..MaxPosts) \cup {NoMark}]
      /\ pc \in [Participant -> {"idle", "mention", "waking"}]
      /\ seen \in [Participant -> SUBSET (1..MaxPosts)]
  BY <1>2, CurrentIsSaved DEF ChatTypeOK, MaxPosts
<1>4. seq \in 1..MaxPosts /\ seq > nextSeq /\ seq # NoMark
  BY <1>1, <1>3, ChannelAssumption
<1> HIDE DEF seq
<1>5. /\ hwm' \in [Participant -> (0..MaxPosts) \cup {NoMark}]
      /\ \A q \in Participant :
           hwm'[q] = hwm[q] \/ (q = p /\ hwm'[q] = seq /\ hwm[q] = nextSeq)
  <2>1. CASE Mark(p) = nextSeq
    <3>1. hwm' = [hwm EXCEPT ![p] = seq] /\ hwm[p] = nextSeq
      BY <1>1, <1>2, <2>1
    <3>2. seq \in (0..MaxPosts) \cup {NoMark}
      BY <1>3, <1>4
    <3> QED BY <1>3, <3>1, <3>2
  <2>2. CASE Mark(p) # nextSeq
    BY <1>1, <1>3, <2>2
  <2> QED BY <2>1, <2>2
<1>14. /\ \A q \in Participant : seen'[q] = IF q = p THEN seen[q] \cup {seq} ELSE seen[q]
       /\ seen' \in [Participant -> SUBSET (1..MaxPosts)]
  BY <1>1, <1>3, <1>4
<1>6. messages' \subseteq messages \cup {seq} /\ seq \in messages' /\ messages' \in SUBSET (1..MaxPosts)
  <2>1. \A t \in messages \cup {seq} : t \in Int /\ t <= seq
    BY <1>2, <1>3, <1>4 DEF ChatInv, Sane, Snapshot
  <2>2. seq \in Trimmed(messages \cup {seq})
    BY <2>1, NewestIsKept
  <2> QED BY <1>1, <1>3, <1>4, <2>2 DEF Trimmed
<1>7. pc' \in [Participant -> {"idle", "mention", "waking"}]
  BY <1>1, <1>3
<1>8. ChatTypeOK'
  <2>1. nextSeq' \in 0..MaxPosts /\ MaxPosts' = MaxPosts /\ SavedState' = SavedState
    BY <1>1, <1>3, <1>4 DEF MaxPosts, SavedState
  <2>2. UNCHANGED <<setup, wakes, live, saver, snap, disk, joined>> /\ dirty' = TRUE
    BY <1>1
  <2> QED BY <1>2, <1>5, <1>14, <1>6, <1>7, <2>1, <2>2 DEF ChatTypeOK
<1>9. ASSUME NEW s, Sane(s), UNCHANGED s PROVE Sane(s)'
  <2>1. NoneSkippedIn(s)'
    BY <1>1, <1>5, <1>14, <1>9 DEF Sane, NoneSkippedIn
  <2>2. \A q \in Participant : s.hwm[q] # NoMark => hwm'[q] # NoMark
    BY <1>4, <1>5, <1>14, <1>9 DEF Sane
  <2> QED BY <1>1, <1>9, <2>1, <2>2 DEF Sane, MostWakes, MaxMentionWakes, SavedState, MaxPosts
<1>10. Sane(snap)' /\ Sane(disk.state)'
  BY <1>1, <1>9 DEF ChatInv
<1>11. Sane(Snapshot)'
  <2>1. Snapshot' \in SavedState'
    BY <1>8 DEF ChatTypeOK, Snapshot, SavedState
  <2>2. NoneSkippedIn(Snapshot)'
    <3> SUFFICES ASSUME NEW q \in Participant, hwm'[q] # NoMark, NEW m \in messages',
                        joined'[q] < m, m <= hwm'[q]
                 PROVE  m \in seen'[q]
      BY DEF NoneSkippedIn, Snapshot
    <3>1. CASE m = seq
      <4>1. hwm[q] # NoMark => hwm[q] <= nextSeq
        BY DEF ChatInv, Sane, Snapshot
      <4>2. q = p
        BY <1>2, <1>3, <1>4, <1>5, <3>1, <4>1
      <4> QED BY <1>14, <3>1, <4>2
    <3>2. CASE m # seq
      <4>1. m \in messages /\ m <= nextSeq /\ m \in Int
        BY <1>3, <1>6, <3>2 DEF ChatInv, Sane, Snapshot
      <4>2. hwm[q] # NoMark /\ m <= hwm[q] /\ joined[q] < m
        BY <1>1, <1>2, <1>3, <1>4, <1>5, <1>14, <4>1
      <4>3. m \in seen[q]
        BY <4>1, <4>2 DEF ChatInv, Sane, NoneSkippedIn, Snapshot
      <4> QED BY <1>14, <4>3
    <3> QED BY <3>1, <3>2
  <2>3. \A m \in messages' : m <= nextSeq'
    <3>1. \A m \in messages : m \in Int /\ m <= nextSeq
      BY <1>3 DEF ChatInv, Sane, Snapshot
    <3>2. nextSeq' = seq
      BY <1>1
    <3>3. seq \in Int /\ nextSeq \in Int
      BY <1>3, <1>4
    <3> QED BY <1>4, <1>6, <3>1, <3>2, <3>3
  <2>4. \A q \in Participant : /\ hwm[q] # NoMark => hwm'[q] # NoMark
                               /\ hwm'[q] # NoMark => hwm'[q] <= nextSeq'
    <3>1. \A q \in Participant : hwm[q] # NoMark => hwm[q] <= nextSeq
      BY DEF ChatInv, Sane, Snapshot
    <3> QED BY <1>1, <1>3, <1>4, <1>5, <3>1
  <2> QED BY <1>1, <1>6, <2>1, <2>2, <2>3, <2>4
          DEF ChatInv, Sane, Snapshot, MostWakes, MaxMentionWakes, Participant
<1>12. \A q \in live' : hwm'[q] # NoMark
  BY <1>1, <1>2, <1>4, <1>5 DEF ChatTypeOK
<1>13. WakeOvershootIsBounded'
  <2>1. Waking' = Waking
    BY <1>1, <1>3 DEF Waking
  <2> QED BY <1>1, <2>1 DEF ChatInv, WakeOvershootIsBounded, Waking, MaxMentionWakes
<1> QED BY <1>8, <1>10, <1>11, <1>12, <1>13 DEF ChatInv

LEMMA PostMovesUp ==
  ASSUME ChatInv, NEW p \in Participant, NEW mentions \in BOOLEAN, Post(p, mentions),
         NEW q \in Participant, hwm[q] # NoMark
  PROVE  hwm'[q] # NoMark /\ hwm'[q] >= hwm[q]
<1>1. /\ hwm \in [Participant -> (0..MaxPosts) \cup {NoMark}]
      /\ nextSeq \in Int /\ nextSeq + 1 \in Int /\ nextSeq + 1 > nextSeq
      /\ hwm[q] \in Int /\ hwm[q] >= hwm[q]
  BY CurrentIsSaved DEF ChatInv, ChatTypeOK, MaxPosts
<1>2. hwm' = hwm \/ (hwm' = [hwm EXCEPT ![p] = nextSeq + 1] /\ Mark(p) = nextSeq)
  BY DEF Post, AdvancesOwnMark
<1>3. CASE q = p /\ hwm' = [hwm EXCEPT ![p] = nextSeq + 1] /\ Mark(p) = nextSeq
  <2>1. hwm'[q] = nextSeq + 1 /\ hwm[q] = nextSeq
    BY <1>1, <1>3 DEF Mark
  <2> QED BY <1>1, <2>1, ChannelAssumption
<1>4. CASE hwm'[q] = hwm[q]
  BY <1>1, <1>4
<1> QED BY <1>1, <1>2, <1>3, <1>4

LEMMA ReadKeeps ==
  ASSUME ChatInv, NEW p \in Participant, NEW limit \in Limit, Read(p, limit)
  PROVE  /\ ChatInv'
         /\ hwm[p] # NoMark /\ hwm'[p] # NoMark /\ hwm'[p] >= hwm[p]
         /\ \A q \in Participant : q # p => hwm'[q] = hwm[q]
<1> DEFINE batch == Slice(Unread(p), Capped(limit))
           newest == Newest(batch)
<1>1. /\ UNCHANGED <<setup, messages, nextSeq, wakes, live, pc, saver, snap, disk, joined>>
      /\ batch # {} /\ dirty' = TRUE
      /\ hwm' = [hwm EXCEPT ![p] = newest]
      /\ seen' = [seen EXCEPT ![p] = @ \cup batch]
      /\ p \in live
  BY DEF Read, NewMark
<1>2. /\ ChatTypeOK /\ hwm[p] # NoMark /\ Mark(p) = hwm[p]
      /\ \A q \in live : hwm[q] # NoMark
  BY <1>1 DEF ChatInv, Mark
<1>3. /\ messages \in SUBSET (1..MaxPosts) /\ nextSeq \in Nat /\ MaxPosts \in Nat
      /\ hwm \in [Participant -> (0..MaxPosts) \cup {NoMark}]
      /\ seen \in [Participant -> SUBSET (1..MaxPosts)]
  BY <1>2, CurrentIsSaved DEF ChatTypeOK, MaxPosts
<1>4. Unread(p) = {s \in messages : s > hwm[p]} /\ hwm[p] \in Int
  BY <1>2, <1>3 DEF Unread
<1>5. /\ Unread(p) \in SUBSET Int /\ IsFiniteSet(Unread(p))
      /\ Capped(limit) \in Int /\ batch \subseteq Unread(p)
  <2>1. IsFiniteSet(1..MaxPosts)
    BY <1>3, FS_Interval
  <2>2. Unread(p) \in SUBSET (1..MaxPosts)
    BY <1>3, <1>4
  <2>3. Unread(p) \in SUBSET Int
    BY <1>3, <2>2
  <2>6. IsFiniteSet(Unread(p))
    BY <2>1, <2>2, FS_Subset
  <2>4. Capped(limit) \in Int
    BY ChannelAssumption DEF Capped
  <2>5. batch \subseteq Unread(p)
    BY DEF Slice
  <2> QED BY <2>3, <2>4, <2>5, <2>6
<1>6. \A m \in Unread(p) : \A s \in batch : m <= s => m \in batch
  BY <1>5, SliceLeavesNoGap
<1>7. newest \in batch /\ \A t \in batch : t <= newest
  <2>1. IsFiniteSet(batch) /\ batch \in SUBSET Int
    BY <1>5, FS_Subset
  <2> QED BY <1>1, <2>1, BatchHasNewest
<1> HIDE DEF batch, newest
<1>8. /\ newest \in messages /\ newest \in 1..MaxPosts /\ newest > hwm[p]
      /\ newest # NoMark /\ newest <= nextSeq
  BY <1>3, <1>4, <1>5, <1>7, ChannelAssumption DEF ChatInv, Sane, Snapshot
<1>9. \A q \in Participant : /\ hwm'[q] = IF q = p THEN newest ELSE hwm[q]
                             /\ seen'[q] = IF q = p THEN seen[q] \cup batch ELSE seen[q]
  BY <1>1, <1>3
<1>10. ChatTypeOK'
  <2>1. hwm' \in [Participant -> (0..MaxPosts) \cup {NoMark}]
    BY <1>1, <1>3, <1>8
  <2>2. seen' \in [Participant -> SUBSET (1..MaxPosts)]
    <3>1. batch \in SUBSET (1..MaxPosts)
      BY <1>3, <1>4, <1>5
    <3> QED BY <1>1, <1>3, <3>1
  <2>3. MaxPosts' = MaxPosts /\ SavedState' = SavedState
    BY <1>1 DEF MaxPosts, SavedState
  <2> QED BY <1>1, <1>2, <2>1, <2>2, <2>3 DEF ChatTypeOK
<1>11. ASSUME NEW s, Sane(s), UNCHANGED s PROVE Sane(s)'
  <2>1. NoneSkippedIn(s)'
    BY <1>1, <1>9, <1>11 DEF Sane, NoneSkippedIn
  <2>2. \A q \in Participant : s.hwm[q] # NoMark => hwm'[q] # NoMark
    BY <1>8, <1>9, <1>11 DEF Sane
  <2> QED BY <1>1, <1>11, <2>1, <2>2 DEF Sane, MostWakes, MaxMentionWakes, SavedState, MaxPosts
<1>12. Sane(snap)' /\ Sane(disk.state)'
  BY <1>1, <1>11 DEF ChatInv
<1>13. Sane(Snapshot)'
  <2>1. Snapshot' \in SavedState'
    BY <1>10 DEF ChatTypeOK, Snapshot, SavedState
  <2>2. NoneSkippedIn(Snapshot)'
    <3> SUFFICES ASSUME NEW q \in Participant, hwm'[q] # NoMark, NEW m \in messages,
                        joined[q] < m, m <= hwm'[q]
                 PROVE  m \in seen'[q]
      BY <1>1 DEF NoneSkippedIn, Snapshot
    <3>1. hwm[q] # NoMark /\ m <= hwm[q] => m \in seen[q]
      BY DEF ChatInv, Sane, NoneSkippedIn, Snapshot
    <3>2. CASE q = p /\ m > hwm[p]
      <4>1. m \in Unread(p) /\ m <= newest
        BY <1>4, <1>9, <3>2
      <4> QED BY <1>6, <1>7, <1>9, <3>2, <4>1
    <3>3. CASE q = p /\ ~(m > hwm[p])
      <4>1. m <= hwm[p]
        BY <1>3, <1>4, <3>3
      <4> QED BY <1>2, <1>9, <3>1, <3>3, <4>1
    <3>4. CASE q # p
      BY <1>9, <3>1, <3>4
    <3> QED BY <3>2, <3>3, <3>4
  <2>3. \A q \in Participant : /\ hwm[q] # NoMark => hwm'[q] # NoMark
                               /\ hwm'[q] # NoMark => hwm'[q] <= nextSeq
    <3>1. \A q \in Participant : hwm[q] # NoMark => hwm[q] <= nextSeq
      BY DEF ChatInv, Sane, Snapshot
    <3> QED BY <1>8, <1>9, <3>1
  <2> QED BY <1>1, <2>1, <2>2, <2>3
          DEF ChatInv, Sane, Snapshot, MostWakes, MaxMentionWakes, Participant
<1>14. \A q \in live' : hwm'[q] # NoMark
  BY <1>1, <1>2, <1>8, <1>9 DEF ChatTypeOK
<1>15. WakeOvershootIsBounded'
  BY <1>1 DEF ChatInv, WakeOvershootIsBounded, MaxMentionWakes
<1>16. hwm'[p] # NoMark /\ hwm'[p] >= hwm[p]
  <2>1. hwm'[p] = newest
    BY <1>1, <1>3
  <2>2. newest \in Int
    BY <1>3, <1>8
  <2> QED BY <1>4, <1>8, <2>1, <2>2
<1> QED BY <1>2, <1>9, <1>10, <1>12, <1>13, <1>14, <1>15, <1>16 DEF ChatInv

(* The steps of a thread in notify_chat_mention.                            *)
LEMMA NotifyingKeeps ==
  ASSUME ChatInv, NEW p \in Participant,
         CheckWakes(p) \/ RecordMentionWake(p) \/ StopNotifying(p)
  PROVE  ChatInv'
<1>1. /\ UNCHANGED <<setup, messages, nextSeq, hwm, dirty, live, saver, snap, disk, joined, seen>>
      /\ pc' = [pc EXCEPT ![p] = pc'[p]] /\ pc'[p] \in {"idle", "mention", "waking"}
      /\ \/ wakes < MaxMentionWakes /\ pc'[p] = "waking" /\ wakes' = wakes /\ pc[p] = "mention"
         \/ pc[p] = "waking" /\ pc'[p] = "mention" /\ wakes' = wakes + 1
         \/ pc'[p] = "idle" /\ wakes' = wakes
  BY DEF CheckWakes, WakeAllowed, RecordMentionWake, StopNotifying, channelVars, ChatInv, ChatTypeOK
<1>2. ChatTypeOK /\ wakes \in Nat /\ pc \in [Participant -> {"idle", "mention", "waking"}]
  BY DEF ChatInv, ChatTypeOK
<1>3. ChatTypeOK'
  <2>1. wakes' \in Nat /\ pc' \in [Participant -> {"idle", "mention", "waking"}]
    BY <1>1, <1>2
  <2>2. MaxPosts' = MaxPosts /\ SavedState' = SavedState
    BY <1>1 DEF MaxPosts, SavedState
  <2> QED BY <1>1, <1>2, <2>1, <2>2 DEF ChatTypeOK
<1>4. /\ IsFiniteSet(Waking) /\ Cardinality(Waking) \in Nat
      /\ Cardinality(Waking) <= Cardinality(Participant)
      /\ Cardinality(Participant) \in Nat /\ setup.wakes \in Nat
  BY <1>2, SomeParticipants, CurrentIsSaved, FS_Subset, FS_CardinalityType DEF Waking
<1>5. wakes + Cardinality(Waking) <= MostWakes
  BY DEF ChatInv, WakeOvershootIsBounded, MostWakes, Waking
<1>6. wakes' + Cardinality(Waking') <= MostWakes /\ Cardinality(Waking') \in Nat
  <2>1. CASE wakes < MaxMentionWakes /\ pc'[p] = "waking" /\ wakes' = wakes /\ pc[p] = "mention"
    <3>1. Waking' \subseteq Participant
      BY DEF Waking
    <3>2. IsFiniteSet(Waking') /\ Cardinality(Waking') <= Cardinality(Participant)
      BY <3>1, SomeParticipants, FS_Subset
    <3>3. Cardinality(Waking') \in Nat
      BY <3>2, FS_CardinalityType
    <3> QED BY <1>2, <1>4, <2>1, <3>2, <3>3 DEF MostWakes, MaxMentionWakes
  <2>2. CASE pc[p] = "waking" /\ pc'[p] = "mention" /\ wakes' = wakes + 1
    <3>1. Waking' = Waking \ {p} /\ p \in Waking
      BY <1>1, <1>2, <2>2 DEF Waking
    <3>2. Cardinality(Waking') = Cardinality(Waking) - 1 /\ IsFiniteSet(Waking')
      BY <1>4, <3>1, FS_RemoveElement
    <3>3. Cardinality(Waking') \in Nat
      BY <3>2, FS_CardinalityType
    <3> QED BY <1>2, <1>4, <1>5, <2>2, <3>2, <3>3 DEF MostWakes, MaxMentionWakes
  <2>3. CASE pc'[p] = "idle" /\ wakes' = wakes
    <3>1. Waking' \subseteq Waking
      BY <1>1, <1>2, <2>3 DEF Waking
    <3>2. Cardinality(Waking') <= Cardinality(Waking) /\ IsFiniteSet(Waking')
      BY <1>4, <3>1, FS_Subset
    <3>3. Cardinality(Waking') \in Nat
      BY <3>2, FS_CardinalityType
    <3> QED BY <1>2, <1>4, <1>5, <2>3, <3>2, <3>3 DEF MostWakes, MaxMentionWakes
  <2> QED BY <1>1, <2>1, <2>2, <2>3
<1>7. MostWakes' = MostWakes /\ MostWakes \in Int /\ wakes' <= MostWakes /\ wakes' \in Nat
  BY <1>1, <1>3, <1>4, <1>6 DEF MostWakes, MaxMentionWakes, ChatTypeOK
<1>8. WakeOvershootIsBounded'
  BY <1>6, <1>7 DEF WakeOvershootIsBounded, Waking, MostWakes
<1>9. Sane(Snapshot)' /\ Sane(snap)' /\ Sane(disk.state)'
  BY <1>1, <1>7 DEF ChatInv, Sane, Snapshot, NoneSkippedIn, SavedState, MaxPosts
<1>10. \A q \in live' : hwm'[q] # NoMark
  BY <1>1 DEF ChatInv
<1> QED BY <1>3, <1>8, <1>9, <1>10 DEF ChatInv

(* The steps of a save: the snapshot is the current state, and becomes the  *)
(* file.                                                                    *)
LEMMA SavingKeeps == ASSUME ChatInv, Save PROVE ChatInv'
<1>1. UNCHANGED <<setup, messages, nextSeq, hwm, wakes, live, pc, joined, seen>>
  BY DEF Save, SaveCheck, SaveSnapshot, SaveWrite, MarkPersisted, channelVars
<1>2. /\ dirty' \in BOOLEAN /\ saver' \in {"idle", "dirty", "snapped", "written"}
      /\ disk' = disk \/ disk' = [written |-> TRUE, state |-> snap]
      /\ snap' = snap \/ snap' = Snapshot \/ snap' = Fresh
  <2>1. dirty \in BOOLEAN
    BY DEF ChatInv, ChatTypeOK
  <2> QED BY <2>1 DEF Save, SaveCheck, SaveSnapshot, SaveWrite, MarkPersisted, channelVars
<1>3. ASSUME NEW s, Sane(s), UNCHANGED s PROVE Sane(s)'
  BY <1>1, <1>3 DEF Sane, NoneSkippedIn, MostWakes, MaxMentionWakes, SavedState, MaxPosts
<1>4. Sane(Fresh)
  <2>1. hwm[Root] # NoMark
    BY DEF ChatInv, Sane, Snapshot
  <2>2. setup.wakes \in Nat /\ setup.posts \in Nat
    BY CurrentIsSaved DEF ChatInv
  <2> QED BY <2>1, <2>2, FreshIsSane
<1>5. Sane(Snapshot)'
  <2>1. Snapshot' = Snapshot
    BY <1>1 DEF Snapshot
  <2> QED BY <1>3, <2>1 DEF ChatInv
<1>6. Sane(snap)'
  BY <1>2, <1>3, <1>4 DEF ChatInv
<1>7. Sane(disk.state)'
  <2>1. disk'.state = disk.state \/ disk'.state = snap
    BY <1>2
  <2> QED BY <1>3, <2>1 DEF ChatInv
<1>8. ChatTypeOK'
  <2>1. snap' \in SavedState' /\ disk'.state \in SavedState'
    BY <1>6, <1>7 DEF Sane
  <2>2. disk' \in [written : BOOLEAN, state : SavedState']
    <3>1. CASE disk' = disk
      <4>1. disk = [written |-> disk.written, state |-> disk.state] /\ disk.written \in BOOLEAN
        BY DEF ChatInv, ChatTypeOK
      <4> QED BY <2>1, <3>1, <4>1
    <3>2. CASE disk' = [written |-> TRUE, state |-> snap]
      BY <2>1, <3>2
    <3> QED BY <1>2, <3>1, <3>2
  <2>3. MaxPosts' = MaxPosts
    BY <1>1 DEF MaxPosts
  <2> QED BY <1>1, <1>2, <2>1, <2>2, <2>3 DEF ChatInv, ChatTypeOK
<1>9. WakeOvershootIsBounded' /\ \A q \in live' : hwm'[q] # NoMark
  BY <1>1 DEF ChatInv, WakeOvershootIsBounded, MaxMentionWakes
<1> QED BY <1>5, <1>6, <1>7, <1>8, <1>9 DEF ChatInv

(* A restart goes back to what chat.json holds, and forgets of the history  *)
(* what the file does not know.                                             *)
LEMMA RestartKeeps == ASSUME ChatInv, Restart PROVE ChatInv'
<1> DEFINE s == disk.state
<1>1. /\ UNCHANGED <<setup, disk>> /\ snap' = Fresh
      /\ messages' = s.messages /\ nextSeq' = s.nextSeq /\ hwm' = s.hwm /\ wakes' = s.wakes
      /\ dirty' = ~disk.written /\ live' = {Root} /\ saver' = "idle"
      /\ pc' = [p \in Participant |-> "idle"]
      /\ joined' = [p \in Participant |-> IF s.hwm[p] = NoMark THEN NoMark ELSE joined[p]]
      /\ seen' = [p \in Participant |-> {t \in seen[p] : t <= s.nextSeq}]
  BY DEF Restart
<1>2. /\ ChatTypeOK /\ Sane(s) /\ s \in SavedState
      /\ MaxPosts' = MaxPosts /\ SavedState' = SavedState /\ MostWakes' = MostWakes
  BY <1>1 DEF ChatInv, Sane, MaxPosts, SavedState, MostWakes, MaxMentionWakes
<1> HIDE DEF s
<1>3. /\ s.messages \in SUBSET (1..MaxPosts) /\ s.nextSeq \in 0..MaxPosts
      /\ s.hwm \in [Participant -> (0..MaxPosts) \cup {NoMark}] /\ s.wakes \in Nat
  BY <1>2 DEF SavedState
<1>4. s.hwm[Root] # NoMark /\ Root \in Participant /\ s.wakes <= MostWakes
  BY <1>2 DEF Sane, Participant
<1>5. NoneSkippedIn(s)'
  <2> SUFFICES ASSUME NEW p \in Participant, s.hwm[p] # NoMark, NEW m \in s.messages,
                      joined'[p] < m, m <= s.hwm[p]
               PROVE  m \in seen'[p]
    BY <1>1 DEF NoneSkippedIn, s
  <2>1. joined'[p] = joined[p] /\ seen'[p] = {t \in seen[p] : t <= s.nextSeq}
    BY <1>1
  <2>2. m \in seen[p] /\ m <= s.nextSeq
    BY <1>2, <2>1 DEF Sane, NoneSkippedIn
  <2> QED BY <2>1, <2>2
<1>6. s' = s
  BY <1>1 DEF s
<1>7. Sane(s)'
  BY <1>1, <1>2, <1>5, <1>6 DEF Sane
<1>8. Snapshot' = [messages |-> s.messages, nextSeq |-> s.nextSeq, hwm |-> s.hwm, wakes |-> s.wakes]
  BY <1>1 DEF Snapshot
<1>9. Sane(Snapshot)'
  <2>1. Snapshot' \in SavedState'
    BY <1>2, <1>3, <1>8 DEF SavedState
  <2>2. NoneSkippedIn(Snapshot)'
    BY <1>5, <1>6, <1>8 DEF NoneSkippedIn
  <2> QED BY <1>6, <1>7, <1>8, <2>1, <2>2 DEF Sane
<1>10. Sane(snap)'
  <2>1. Sane(Fresh)
    <3>1. hwm[Root] # NoMark
      BY DEF ChatInv, Sane, Snapshot
    <3> QED BY <1>2, <3>1, CurrentIsSaved, FreshIsSane
  <2>2. NoneSkippedIn(Fresh)'
    BY DEF NoneSkippedIn, Fresh
  <2>3. \A p \in Participant : Fresh.hwm[p] # NoMark => hwm'[p] # NoMark
    BY <1>1, <1>4 DEF Fresh, OnlyRoot
  <2>4. Fresh' = Fresh
    BY DEF Fresh, OnlyRoot
  <2>5. Sane(Fresh)'
    BY <1>2, <2>1, <2>2, <2>3, <2>4 DEF Sane
  <2> QED BY <1>1, <2>4, <2>5
<1>11. ChatTypeOK'
  <2>1. joined' \in [Participant -> (0..MaxPosts) \cup {NoMark}]
    BY <1>1, <1>2 DEF ChatTypeOK
  <2>2. seen' \in [Participant -> SUBSET (1..MaxPosts)]
    <3>1. seen \in [Participant -> SUBSET (1..MaxPosts)]
      BY <1>2 DEF ChatTypeOK
    <3>2. \A p \in Participant : {t \in seen[p] : t <= s.nextSeq} \in SUBSET (1..MaxPosts)
      BY <3>1
    <3> QED BY <1>1, <3>2
  <2>3. live' \in SUBSET Participant /\ snap' \in SavedState
    BY <1>1, <1>2, <1>4, <1>10 DEF Sane
  <2>4. disk' \in [written : BOOLEAN, state : SavedState] /\ setup' \in Setups /\ dirty' \in BOOLEAN
    BY <1>1, <1>2 DEF ChatTypeOK
  <2>5. pc' \in [Participant -> {"idle", "mention", "waking"}] /\ saver' = "idle"
    BY <1>1
  <2> QED BY <1>1, <1>2, <1>3, <2>1, <2>2, <2>3, <2>4, <2>5 DEF ChatTypeOK
<1>12. WakeOvershootIsBounded'
  <2>1. Waking' = {}
    BY <1>1 DEF Waking
  <2>2. Cardinality(Waking') = 0
    BY <2>1, FS_EmptySet
  <2> QED BY <1>1, <1>2, <1>3, <1>4, <2>2 DEF WakeOvershootIsBounded, Waking, MostWakes
<1>13. \A p \in live' : hwm'[p] # NoMark
  BY <1>1, <1>4
<1>14. Sane(disk.state)'
  BY <1>7 DEF s
<1> QED BY <1>9, <1>10, <1>11, <1>12, <1>13, <1>14 DEF ChatInv

-----------------------------------------------------------------------------
LEMMA ChatStepKeeps ==
  ASSUME ChatInv, ChatNext
  PROVE  /\ ChatInv'
         /\ ~Restart => \A q \in Participant : hwm[q] # NoMark => hwm'[q] # NoMark /\ hwm'[q] >= hwm[q]
<1> USE DEF ChatNext, Chat
<1>0. \A q \in Participant : hwm[q] # NoMark => hwm[q] \in Int /\ hwm[q] >= hwm[q]
  <2>1. hwm \in [Participant -> (0..MaxPosts) \cup {NoMark}]
    BY DEF ChatInv, ChatTypeOK
  <2> QED BY <2>1
<1>1. CASE \E p \in Participant : Register(p)
  <2>1. PICK p \in Participant : Register(p)
    BY <1>1
  <2>2. \A q \in Participant : hwm[q] # NoMark => hwm'[q] = hwm[q]
    BY <2>1 DEF Register, ChatInv, ChatTypeOK
  <2> QED BY <1>0, <2>1, <2>2, RegisterKeeps
<1>2. CASE \E p \in Participant, mentions \in BOOLEAN : Post(p, mentions)
  <2>1. PICK p \in Participant, mentions \in BOOLEAN : Post(p, mentions)
    BY <1>2
  <2>2. \A q \in Participant : hwm[q] # NoMark => hwm'[q] # NoMark /\ hwm'[q] >= hwm[q]
    BY <1>0, <2>1, PostMovesUp
  <2> QED BY <2>1, <2>2, PostKeeps
<1>3. CASE \E p \in Participant, limit \in Limit : Read(p, limit)
  <2>1. PICK p \in Participant, limit \in Limit : Read(p, limit)
    BY <1>3
  <2> QED BY <1>0, <2>1, ReadKeeps
<1>4. CASE \E p \in Participant : CheckWakes(p) \/ RecordMentionWake(p) \/ StopNotifying(p)
  <2>1. PICK p \in Participant : CheckWakes(p) \/ RecordMentionWake(p) \/ StopNotifying(p)
    BY <1>4
  <2>2. hwm' = hwm
    BY <2>1 DEF CheckWakes, RecordMentionWake, StopNotifying, channelVars
  <2> QED BY <1>0, <2>1, <2>2, NotifyingKeeps
<1>5. CASE Save
  <2>1. hwm' = hwm
    BY <1>5 DEF Save, SaveCheck, SaveSnapshot, SaveWrite, MarkPersisted, channelVars
  <2> QED BY <1>0, <1>5, <2>1, SavingKeeps
<1>6. CASE Restart
  BY <1>6, RestartKeeps
<1> QED BY <1>1, <1>2, <1>3, <1>4, <1>5, <1>6

LEMMA ChatStutterKeeps == ASSUME ChatInv, UNCHANGED chatVars PROVE ChatInv'
<1>1. UNCHANGED <<setup, messages, nextSeq, hwm, wakes, dirty, live, pc, saver, snap, disk, joined, seen>>
  BY DEF chatVars, channelVars
<1> QED BY <1>1 DEF ChatInv, ChatTypeOK, Sane, NoneSkippedIn, Snapshot, SavedState, MaxPosts,
                    MostWakes, MaxMentionWakes, WakeOvershootIsBounded

LEMMA ChatInvHolds == Spec => []ChatInv
<1>1. Init => ChatInv
  BY ChatInitHolds DEF Init
<1>2. ChatInv /\ [Next]_vars => ChatInv'
  <2> SUFFICES ASSUME ChatInv, [Next]_vars PROVE ChatInv'
    OBVIOUS
  <2>1. ChatNext \/ UNCHANGED chatVars
    BY DEF Next, vars
  <2> QED BY <2>1, ChatStepKeeps, ChatStutterKeeps
<1> QED BY <1>1, <1>2, PTL DEF Spec

(* However posts, limited reads, trims of the history, saves that fail and  *)
(* restarts interleave, no read position passes over a retained message     *)
(* (Channel.read_and_advance, post), the reminder announces exactly what a  *)
(* read would return (Channel.unread_count, read_new), and mentions wake at *)
(* most one more session per thread than the cap (notify_chat_mention).     *)
THEOREM ChatRoomIsSound == Spec => []ChatIsSound
<1>1. ChatInv => ChatIsSound
  <2> SUFFICES ASSUME ChatInv PROVE ChatIsSound
    OBVIOUS
  <2>1. RemindedIffReadable
    <3> SUFFICES ASSUME NEW p \in Participant PROVE UnreadCount(p) > 0 <=> Unread(p) # {}
      BY DEF RemindedIffReadable
    <3>1. /\ Mark(p) \in Int /\ nextSeq \in Int /\ Mark(p) >= 0
          /\ \A m \in messages : m \in Int /\ m <= nextSeq
          /\ nextSeq > 0 => nextSeq \in messages
      BY CurrentIsSaved DEF ChatInv, ChatTypeOK, Sane, Snapshot, Mark, MaxPosts
    <3>2. UnreadCount(p) > 0 <=> nextSeq > Mark(p)
      BY <3>1 DEF UnreadCount
    <3>3. nextSeq > Mark(p) => nextSeq \in Unread(p)
      BY <3>1 DEF Unread
    <3>4. Unread(p) # {} => nextSeq > Mark(p)
      BY <3>1 DEF Unread
    <3> QED BY <3>2, <3>3, <3>4
  <2> QED BY <2>1 DEF ChatInv, ChatIsSound, MarksAreSound, NothingSkipped, Sane
<1> QED BY <1>1, ChatInvHolds, PTL

(* While the process lives no participant's mark moves back, so no message  *)
(* is returned to it a second time (Channel.read_and_advance, post,         *)
(* register_participant).                                                   *)
THEOREM ReadMarksOnlyAdvance == Spec => MarksOnlyAdvance
<1>1. ChatInv /\ [Next]_vars =>
        [~Restart => \A p \in Participant : hwm[p] # NoMark => hwm'[p] # NoMark /\ hwm'[p] >= hwm[p]]_chatVars
  <2> SUFFICES ASSUME ChatInv, [Next]_vars, ~(UNCHANGED chatVars), ~Restart
               PROVE  \A p \in Participant : hwm[p] # NoMark => hwm'[p] # NoMark /\ hwm'[p] >= hwm[p]
    OBVIOUS
  <2>1. ChatNext
    BY DEF Next, vars
  <2> QED BY <2>1, ChatStepKeeps
<1> QED BY <1>1, ChatInvHolds, PTL DEF MarksOnlyAdvance, Spec
-----------------------------------------------------------------------------
(* The task list                                                            *)

Change == {"block", "unblock", "close", "reopen"}
Link == [new : BOOLEAN, other : Issue]

ToolCall ==
  [step : Waiting \cup {"idle", "pick"}, id : Issue \cup {NoTask}, by : Issue \cup {NoTask},
   act : {"yes", "no", "auto"}, then : {"next", "activate"}, ops : SUBSET Change,
   links : Seq(Link), rest : SUBSET Issue, own : SUBSET Issue, offers : SUBSET Issue]

TasksTyped ==
  /\ created \in 0..MaxIssues
  /\ open \in SUBSET Known
  /\ labels \in [Issue -> SUBSET Label]
  /\ blockers \in [Issue -> SUBSET Issue]
  /\ cur \in [Member -> Known \cup {NoTask}]
  /\ call \in [Member -> ToolCall]
  /\ orphaned \in SUBSET Known /\ borrowed \in SUBSET Member
  /\ budget \in [calls : Nat, fails : Nat, edits : SUBSET SUBSET Change]
  /\ steady \in [Member -> SUBSET Issue]

(* What a call carries at each of its steps, while c issues exist.          *)
WellFormed(r, c) ==
  /\ r.step \in {"idle", "current", "list"} => r = [NoCall EXCEPT !.step = r.step]
  /\ r.step \in {"show", "unlabel", "label", "confirm", "edit", "detail", "link", "abandon"}
       => r.id \in 1..c
  /\ r.step = "edit" /\ r.ops \cap {"block", "unblock"} # {} => r.by \in 1..c
  /\ r.step = "link" => r.links # <<>>
  /\ r.rest \cup r.own \cup r.offers \subseteq 1..c
  /\ r.step = "pick" => r.rest = {} /\ r.then = "next"
  /\ r.step = "fetch" => r.then = "next"
  /\ r.step \in {"show", "unlabel", "edit", "detail", "link", "abandon"} => r.rest = {} /\ r.own = {}
  /\ r.step \in {"edit", "detail", "link", "abandon"} => r.offers = {}

CallsInv == \A a \in Member : WellFormed(call[a], created)

(* Session a has taken the ALL label off issue i and not yet put its own.   *)
Between(a, i) == At(a, "label") /\ call[a].id = i

LabelsInv ==
  /\ \A i \in Known : labels[i] = {} \/ \E l \in Label : labels[i] = {l}
  /\ \A i \in Known : labels[i] = {} => i \in orphaned \/ \E a \in Member : Between(a, i)
  /\ \A i \in orphaned : labels[i] = {}
  /\ \A a \in Member, i \in Known : Between(a, i) =>
       labels[i] = {} /\ i \notin orphaned /\ \A b \in Member : Between(b, i) => b = a
  /\ \A a \in Member : At(a, "confirm") => labels[call[a].id] = {a}
  /\ \A a \in Member : \A i \in call[a].own : labels[i] = {a}
  /\ \A a \in Member : cur[a] # NoTask => labels[cur[a]] = {a} \/ a \in borrowed

(* What a search has in hand holds whatever it could take all the time.     *)
Covers(a, r) ==
  /\ steady[a] # {} => r.step \in {"fetch", "pick", "show", "unlabel", "label", "confirm"}
  /\ \A i \in steady[a] : Takeable(a, i)
  /\ r.step \in {"fetch", "pick"} => steady[a] \subseteq r.rest \cup r.own \cup r.offers
  /\ r.step \in {"show", "unlabel"} /\ r.then = "next" => steady[a] \subseteq r.offers \cup {r.id}
  /\ r.step \in {"fetch", "pick", "show", "unlabel"} => \A i \in r.offers : labels[i] # {a}
  /\ r.step \in {"show", "unlabel"} /\ r.then = "next" => labels[r.id] # {a}

SearchInv == \A a \in Member : Covers(a, call[a])

TasksInv == TasksTyped /\ CallsInv /\ LabelsInv /\ SearchInv

-----------------------------------------------------------------------------
(* Types, and the shape of the calls.                                       *)

(* All types but that of steady, which TasksNext sets.                      *)
Typed ==
  /\ created \in 0..MaxIssues
  /\ open \in SUBSET Known
  /\ labels \in [Issue -> SUBSET Label]
  /\ blockers \in [Issue -> SUBSET Issue]
  /\ cur \in [Member -> Known \cup {NoTask}]
  /\ call \in [Member -> ToolCall]
  /\ orphaned \in SUBSET Known /\ borrowed \in SUBSET Member
  /\ budget \in [calls : Nat, fails : Nat, edits : SUBSET SUBSET Change]

LEMMA Constants ==
  /\ MaxIssues \in Nat /\ NoTask \notin Issue /\ Accepts \subseteq Member
  /\ All \notin Member /\ \A b \in Budgets : b \in [calls : Nat, fails : Nat, edits : SUBSET SUBSET Change]
BY TaskAssumption DEF Issue, Change

LEMMA NoCallIsOne ==
  /\ NoCall \in ToolCall
  /\ \A c \in Nat : WellFormed(NoCall, c)
  /\ \A step \in {"current", "list"}, c \in Nat :
       [NoCall EXCEPT !.step = step] \in ToolCall /\ WellFormed([NoCall EXCEPT !.step = step], c)
<1>1. <<>> \in Seq(Link)
  OBVIOUS
<1>2. /\ NoCall.step = "idle" /\ NoCall.then = "next" /\ NoCall.own = {} /\ NoCall.rest = {}
      /\ NoCall.offers = {} /\ NoCall.ops = {}
  BY DEF NoCall
<1>3. NoCall \in ToolCall
  BY <1>1 DEF NoCall, ToolCall
<1>4. ASSUME NEW step \in {"current", "list"}
      PROVE  [NoCall EXCEPT !.step = step] \in ToolCall
  BY <1>3 DEF ToolCall, Waiting
<1>5. \A c \in Nat : WellFormed(NoCall, c)
  BY DEF WellFormed, NoCall
<1>6. ASSUME NEW step \in {"current", "list"}, NEW c \in Nat
      PROVE  WellFormed([NoCall EXCEPT !.step = step], c)
  <2> DEFINE r == [NoCall EXCEPT !.step = step]
  <2>1. r.step = step /\ r = [NoCall EXCEPT !.step = r.step] /\ r.rest \cup r.own \cup r.offers = {}
    BY DEF NoCall
  <2> QED BY <2>1 DEF WellFormed
<1> QED BY <1>3, <1>4, <1>5, <1>6

(* The tool call of session a goes on as r.                                 *)
LEMMA CallGoesOn ==
  ASSUME Typed, CallsInv, NEW a \in Member, NEW r \in ToolCall,
         call' = [call EXCEPT ![a] = r], created' \in Nat, created' >= created,
         WellFormed(r, created')
  PROVE  /\ call' \in [Member -> ToolCall] /\ CallsInv'
         /\ call'[a] = r /\ \A b \in Member : b # a => call'[b] = call[b]
<1>1. call \in [Member -> ToolCall] /\ created \in Nat
  BY Constants DEF Typed
<1>2. call'[a] = r /\ \A b \in Member : b # a => call'[b] = call[b]
  BY <1>1
<1>3. 1..created \subseteq 1..created'
  BY <1>1
<1>4. ASSUME NEW b \in Member, b # a PROVE WellFormed(call[b], created')
  <2>1. WellFormed(call[b], created)
    BY DEF CallsInv
  <2> QED BY <1>3, <2>1 DEF WellFormed
<1> QED BY <1>1, <1>2, <1>4 DEF CallsInv

LEMMA NextTaskKeeps ==
  ASSUME Typed, CallsInv, NEW a \in Member, NEW tracked, NextTask(a, tracked), created' = created
  PROVE  /\ call' \in [Member -> ToolCall] /\ CallsInv'
         /\ call'[a] \in {NoCall, [NoCall EXCEPT !.step = "current"], [NoCall EXCEPT !.step = "list"]}
         /\ \A b \in Member : b # a => call'[b] = call[b]
<1>1. PICK r \in {NoCall, [NoCall EXCEPT !.step = "current"], [NoCall EXCEPT !.step = "list"]} :
        call' = [call EXCEPT ![a] = r]
  BY DEF NextTask
<1>2. created \in Nat /\ created' \in Nat /\ created' >= created
  BY Constants DEF Typed
<1>3. r \in ToolCall /\ WellFormed(r, created')
  BY <1>2, NoCallIsOne
<1> QED BY <1>1, <1>2, <1>3, CallGoesOn

LEMMA ReturnKeeps ==
  ASSUME Typed, CallsInv, NEW a \in Member, Return(a), created' = created
  PROVE  /\ call' \in [Member -> ToolCall] /\ CallsInv'
         /\ call'[a] = NoCall /\ \A b \in Member : b # a => call'[b] = call[b]
<1>1. created \in Nat /\ created' \in Nat /\ created' >= created
  BY Constants DEF Typed
<1> QED BY <1>1, NoCallIsOne, CallGoesOn DEF Return

LEMMA GotoKeeps ==
  ASSUME Typed, CallsInv, NEW a \in Member, NEW step \in Waiting \cup {"idle", "pick"},
         Goto(a, step), created' = created,
         WellFormed([call[a] EXCEPT !.step = step], created)
  PROVE  /\ call' \in [Member -> ToolCall] /\ CallsInv'
         /\ call'[a] = [call[a] EXCEPT !.step = step]
         /\ \A b \in Member : b # a => call'[b] = call[b]
<1>1. created \in Nat /\ created' \in Nat /\ created' >= created
  BY Constants DEF Typed
<1>2. [call[a] EXCEPT !.step = step] \in ToolCall
  <2>1. call[a] \in ToolCall
    BY DEF Typed
  <2> QED BY <2>1 DEF ToolCall
<1>3. call' = [call EXCEPT ![a] = [call[a] EXCEPT !.step = step]]
  BY DEF Goto
<1> QED BY <1>1, <1>2, <1>3, CallGoesOn

-----------------------------------------------------------------------------
(* What of the invariant follows from how little a step changes.            *)

(* The part of TasksNext that keeps the history.                            *)
SteadyMoves ==
  steady' = [a \in Member |->
    LET before == IF At(a, "list") THEN {i \in Known : Takeable(a, i)} ELSE steady[a]
    IN  IF call'[a].step \in {"idle", "list"} THEN {} ELSE {i \in before : Takeable(a, i)'}]

LEMMA SteadyShrinks ==
  ASSUME TasksTyped, CallsInv, SteadyMoves, NEW a \in Member
  PROVE  /\ steady'[a] \subseteq IF At(a, "list") THEN {i \in Known : Takeable(a, i)} ELSE steady[a]
         /\ call'[a].step \in {"idle", "list"} => steady'[a] = {}
         /\ \A i \in steady'[a] : Takeable(a, i)'
         /\ steady' \in [Member -> SUBSET Issue]
<1> DEFINE before(b) == IF At(b, "list") THEN {i \in Known : Takeable(b, i)} ELSE steady[b]
           after(b) == IF call'[b].step \in {"idle", "list"} THEN {} ELSE {i \in before(b) : Takeable(b, i)'}
<1>1. steady' = [b \in Member |-> after(b)]
  BY DEF SteadyMoves
<1>2. Known \subseteq Issue
  BY Constants DEF TasksTyped, Known, Issue
<1>3. \A b \in Member : before(b) \in SUBSET Issue
  BY <1>2 DEF TasksTyped
<1>4. \A b \in Member : after(b) \in SUBSET Issue
  BY <1>3
<1>5. steady'[a] = after(a)
  BY <1>1
<1> QED BY <1>1, <1>4, <1>5

(* A session whose call stands still.                                       *)
LEMMA OthersCovered ==
  ASSUME TasksInv, SteadyMoves, NEW b \in Member, call'[b] = call[b],
         \A i \in Known : labels'[i] = {b} => labels[i] = {b}
  PROVE  Covers(b, call[b])'
<1>1. /\ steady'[b] \subseteq steady[b]
      /\ \A i \in steady'[b] : Takeable(b, i)'
  BY SteadyShrinks DEF TasksInv, At
<1>2. Covers(b, call[b]) /\ WellFormed(call[b], created)
  BY DEF TasksInv, SearchInv, CallsInv
<1>3. /\ call[b].offers \subseteq Known
      /\ call[b].step \in {"show", "unlabel"} => call[b].id \in Known
  BY <1>2 DEF WellFormed, Known
<1> QED BY <1>1, <1>2, <1>3 DEF Covers

(* A call that neither searches nor has listed anything.                    *)
LEMMA NotSearching ==
  ASSUME TasksInv, SteadyMoves, NEW a \in Member,
         (~At(a, "list") /\ steady[a] = {}) \/ call'[a].step \in {"idle", "list"},
         call'[a].step \in {"fetch", "pick", "show", "unlabel"} =>
           call'[a].then = "activate" /\ call'[a].offers = {}
  PROVE  Covers(a, call[a])'
<1>1. steady'[a] = {}
  BY SteadyShrinks DEF TasksInv
<1> QED BY <1>1 DEF Covers

LEMMA LabelsStand ==
  ASSUME TasksInv, NEW a \in Member, UNCHANGED <<created, labels, orphaned>>,
         \A b \in Member : b # a => call'[b] = call[b] /\ cur'[b] = cur[b] /\ (b \in borrowed => b \in borrowed'),
         ~At(a, "label"), call'[a].step # "label",
         call'[a].step = "confirm" => labels[call'[a].id] = {a},
         \A i \in call'[a].own : labels[i] = {a},
         cur'[a] # NoTask => labels[cur'[a]] = {a} \/ a \in borrowed'
  PROVE  LabelsInv'
<1>1. LabelsInv /\ Known' = Known
  BY DEF TasksInv, Known
<1>2. \A b \in Member, i \in Known : Between(b, i)' <=> Between(b, i)
  BY DEF Between, At
<1>3. \A i \in Known : labels'[i] = {} \/ \E l \in Label : labels'[i] = {l}
  BY <1>1 DEF LabelsInv
<1>4. \A i \in Known : labels'[i] = {} => i \in orphaned' \/ \E b \in Member : Between(b, i)'
  BY <1>1, <1>2 DEF LabelsInv
<1>5. \A b \in Member, i \in Known : Between(b, i)' =>
        labels'[i] = {} /\ i \notin orphaned' /\ \A d \in Member : Between(d, i)' => d = b
  BY <1>1, <1>2 DEF LabelsInv
<1>6. \A b \in Member : At(b, "confirm")' => labels'[call'[b].id] = {b}
  BY <1>1 DEF LabelsInv, At
<1>7. \A b \in Member : \A i \in call'[b].own : labels'[i] = {b}
  BY <1>1 DEF LabelsInv
<1>8. \A b \in Member : cur'[b] # NoTask => labels'[cur'[b]] = {b} \/ b \in borrowed'
  BY <1>1 DEF LabelsInv
<1>9. \A i \in orphaned' : labels'[i] = {}
  BY <1>1 DEF LabelsInv
<1> QED BY <1>1, <1>3, <1>4, <1>5, <1>6, <1>7, <1>8, <1>9 DEF LabelsInv

LEMMA IssuesMove ==
  ASSUME TasksInv, SteadyMoves, NEW a \in Member, UNCHANGED <<created, labels, orphaned>>,
         open' \in SUBSET Known, blockers' \in [Issue -> SUBSET Issue],
         call' \in [Member -> ToolCall], CallsInv',
         \A b \in Member : b # a => call'[b] = call[b] /\ cur'[b] = cur[b] /\ (b \in borrowed => b \in borrowed'),
         cur' \in [Member -> Known \cup {NoTask}], borrowed' \in SUBSET Member,
         budget' \in [calls : Nat, fails : Nat, edits : SUBSET SUBSET Change],
         ~At(a, "label"), call'[a].step # "label",
         call'[a].step = "confirm" => labels[call'[a].id] = {a},
         \A i \in call'[a].own : labels[i] = {a},
         cur'[a] # NoTask => labels[cur'[a]] = {a} \/ a \in borrowed',
         Covers(a, call[a])'
  PROVE  TasksInv'
<1>1. TasksTyped'
  <2>1. steady' \in [Member -> SUBSET Issue]
    BY SteadyShrinks DEF TasksInv
  <2> QED BY <2>1 DEF TasksInv, TasksTyped, Known
<1>2. LabelsInv'
  BY LabelsStand
<1>3. \A b \in Member : b # a => Covers(b, call[b])'
  BY OthersCovered
<1> QED BY <1>1, <1>2, <1>3 DEF TasksInv, SearchInv

LEMMA IssuesStand ==
  ASSUME TasksInv, SteadyMoves, NEW a \in Member, UNCHANGED <<created, open, labels, blockers, orphaned>>,
         call' \in [Member -> ToolCall], CallsInv',
         \A b \in Member : b # a => call'[b] = call[b] /\ cur'[b] = cur[b] /\ (b \in borrowed => b \in borrowed'),
         cur' \in [Member -> Known \cup {NoTask}], borrowed' \in SUBSET Member,
         budget' \in [calls : Nat, fails : Nat, edits : SUBSET SUBSET Change],
         ~At(a, "label"), call'[a].step # "label",
         call'[a].step = "confirm" => labels[call'[a].id] = {a},
         \A i \in call'[a].own : labels[i] = {a},
         cur'[a] # NoTask => labels[cur'[a]] = {a} \/ a \in borrowed',
         Covers(a, call[a])'
  PROVE  TasksInv'
<1>1. open' \in SUBSET Known /\ blockers' \in [Issue -> SUBSET Issue]
  BY DEF TasksInv, TasksTyped
<1> QED BY <1>1, IssuesMove

LEMMA TrackKeeps ==
  ASSUME TasksInv, SteadyMoves, NEW a \in Member, NEW i \in Known \cup {NoTask},
         i # NoTask => labels[i] = {a}, ~At(a, "label"),
         Track(a, i), UNCHANGED <<issueVars, budget, orphaned>>
  PROVE  TasksInv'
<1>1. Typed /\ CallsInv /\ UNCHANGED <<created, open, labels, blockers, budget, orphaned>>
  BY DEF TasksInv, TasksTyped, Typed, issueVars
<1>2. /\ call' \in [Member -> ToolCall] /\ CallsInv'
      /\ call'[a] = NoCall /\ \A b \in Member : b # a => call'[b] = call[b]
  BY <1>1, ReturnKeeps DEF Track
<1>3. NoCall.step = "idle" /\ NoCall.own = {}
  BY DEF NoCall
<1>4. /\ cur' \in [Member -> Known \cup {NoTask}] /\ borrowed' \in SUBSET Member
      /\ cur'[a] = i /\ \A b \in Member : b # a => cur'[b] = cur[b] /\ (b \in borrowed => b \in borrowed')
  BY <1>1 DEF Track, Typed
<1>5. Covers(a, call[a])'
  BY <1>2, <1>3, NotSearching
<1>6. budget' \in [calls : Nat, fails : Nat, edits : SUBSET SUBSET Change]
  BY <1>1 DEF Typed
<1> QED BY <1>1, <1>2, <1>3, <1>4, <1>5, <1>6, IssuesStand

(* Where a search stands, by the step its call is at.                       *)
LEMMA StandsAt ==
  ASSUME TasksInv, NEW a \in Member
  PROVE  /\ Typed /\ CallsInv /\ call[a] \in ToolCall /\ created \in Nat
         /\ WellFormed(call[a], created) /\ Covers(a, call[a])
         /\ call[a].step \notin {"fetch", "pick", "show", "unlabel", "label", "confirm"} => steady[a] = {}
         /\ \A i \in call[a].own : labels[i] = {a}
         /\ cur[a] # NoTask => labels[cur[a]] = {a} \/ a \in borrowed
         /\ cur \in [Member -> Known \cup {NoTask}] /\ borrowed \in SUBSET Member
         /\ budget \in [calls : Nat, fails : Nat, edits : SUBSET SUBSET Change]
<1>1. Typed /\ CallsInv /\ call[a] \in ToolCall /\ created \in Nat
  BY Constants DEF TasksInv, TasksTyped, Typed
<1>2. WellFormed(call[a], created) /\ Covers(a, call[a])
  BY DEF TasksInv, CallsInv, SearchInv
<1> QED BY <1>1, <1>2 DEF TasksInv, LabelsInv, Covers, Typed

-----------------------------------------------------------------------------
(* TodoNext                                                                 *)

LEMMA BudgetSpent ==
  ASSUME TasksInv, NEW a \in Member, Begin(a)
  PROVE  /\ budget' \in [calls : Nat, fails : Nat, edits : SUBSET SUBSET Change]
         /\ call[a].step = "idle" /\ ~At(a, "label") /\ ~At(a, "list") /\ steady[a] = {}
<1>1. budget \in [calls : Nat, fails : Nat, edits : SUBSET SUBSET Change] /\ budget.calls > 0
      /\ budget' = [budget EXCEPT !.calls = budget.calls - 1]
  BY StandsAt DEF Begin
<1>2. budget.calls - 1 \in Nat
  BY <1>1
<1>3. budget' \in [calls : Nat, fails : Nat, edits : SUBSET SUBSET Change]
  BY <1>1, <1>2
<1>4. call[a].step = "idle"
  BY DEF Begin, At
<1> QED BY <1>3, <1>4, StandsAt DEF At

LEMMA TodoNextKeeps ==
  ASSUME TasksInv, SteadyMoves, NEW a \in Member, TodoNext(a) PROVE TasksInv'
<1>1. UNCHANGED <<created, open, labels, blockers, orphaned, cur, borrowed>>
  BY DEF TodoNext, issueVars, trackVars
<1>2. /\ call' \in [Member -> ToolCall] /\ CallsInv'
      /\ call'[a] \in {NoCall, [NoCall EXCEPT !.step = "current"], [NoCall EXCEPT !.step = "list"]}
      /\ \A b \in Member : b # a => call'[b] = call[b]
  BY <1>1, StandsAt, NextTaskKeeps DEF TodoNext
<1>3. call'[a].step \in {"idle", "current", "list"} /\ call'[a].own = {}
  BY <1>2 DEF NoCall
<1>4. /\ budget' \in [calls : Nat, fails : Nat, edits : SUBSET SUBSET Change]
      /\ ~At(a, "label") /\ ~At(a, "list") /\ steady[a] = {}
  BY BudgetSpent DEF TodoNext
<1>5. Covers(a, call[a])'
  BY <1>3, <1>4, NotSearching
<1> QED BY <1>1, <1>2, <1>3, <1>4, <1>5, StandsAt, IssuesStand

LEMMA ShowCurrentKeeps ==
  ASSUME TasksInv, SteadyMoves, NEW a \in Member, ShowCurrent(a) PROVE TasksInv'
<1>1. UNCHANGED <<created, open, labels, blockers, orphaned, cur, borrowed, budget>>
  BY DEF ShowCurrent, issueVars, trackVars
<1>2. call[a] = [NoCall EXCEPT !.step = "current"] /\ steady[a] = {} /\ ~At(a, "label") /\ ~At(a, "list")
  BY StandsAt DEF ShowCurrent, At, WellFormed
<1>3. /\ call' \in [Member -> ToolCall] /\ CallsInv'
      /\ call'[a].step \in {"idle", "list"} /\ call'[a].own = {}
      /\ \A b \in Member : b # a => call'[b] = call[b]
  <2>1. CASE cur[a] \in open
    BY <1>1, <2>1, StandsAt, ReturnKeeps DEF ShowCurrent, NoCall
  <2>2. CASE cur[a] \notin open
    <3>1. [call[a] EXCEPT !.step = "list"] = [NoCall EXCEPT !.step = "list"]
      BY <1>2 DEF NoCall
    <3>2. WellFormed([call[a] EXCEPT !.step = "list"], created) /\ "list" \in Waiting
      BY <3>1, StandsAt, NoCallIsOne DEF Waiting
    <3>3. Goto(a, "list")
      BY <2>2 DEF ShowCurrent
    <3>4. /\ call' \in [Member -> ToolCall] /\ CallsInv' /\ call'[a] = [call[a] EXCEPT !.step = "list"]
          /\ \A b \in Member : b # a => call'[b] = call[b]
      BY <1>1, <3>2, <3>3, StandsAt, GotoKeeps
    <3> QED BY <3>1, <3>4 DEF NoCall
  <2> QED BY <2>1, <2>2
<1>4. Covers(a, call[a])'
  BY <1>2, <1>3, NotSearching
<1> QED BY <1>1, <1>2, <1>3, <1>4, StandsAt, IssuesStand

LEMMA ListIssuesKeeps ==
  ASSUME TasksInv, SteadyMoves, NEW a \in Member, ListIssues(a) PROVE TasksInv'
<1>1. UNCHANGED <<created, open, labels, blockers, orphaned, budget>>
  BY DEF ListIssues, issueVars
<1>2. call[a] = [NoCall EXCEPT !.step = "list"] /\ At(a, "list") /\ ~At(a, "label")
  BY StandsAt DEF ListIssues, At, WellFormed
<1>3. CASE open = {}
  <2>1. Track(a, NoTask) /\ UNCHANGED <<issueVars, budget, orphaned>>
    BY <1>3 DEF ListIssues
  <2> QED BY <1>2, <2>1, TrackKeeps
<1>4. CASE open # {}
  <2> DEFINE r == [call[a] EXCEPT !.step = "fetch", !.rest = open]
  <2>1. UNCHANGED <<cur, borrowed>> /\ call' = [call EXCEPT ![a] = r]
    BY <1>4 DEF ListIssues, trackVars
  <2>2. /\ r.step = "fetch" /\ r.rest = open /\ r.own = {} /\ r.offers = {} /\ r.then = "next"
        /\ r.links = <<>> /\ r.ops = {}
    BY <1>2 DEF NoCall
  <2>3. open \subseteq Known /\ open \subseteq Issue
    BY Constants DEF TasksInv, TasksTyped, Known, Issue
  <2>4. r \in ToolCall
    <3>1. call[a] \in ToolCall /\ open \in SUBSET Issue /\ "fetch" \in Waiting
      BY <2>3, StandsAt DEF Waiting
    <3> QED BY <3>1 DEF ToolCall
  <2> HIDE DEF r
  <2>5. WellFormed(r, created)
    BY <2>2, <2>3 DEF WellFormed, Known
  <2>6. /\ call' \in [Member -> ToolCall] /\ CallsInv' /\ call'[a] = r
        /\ \A b \in Member : b # a => call'[b] = call[b]
    <3>1. created' \in Nat /\ created' >= created /\ WellFormed(r, created')
      BY <1>1, <2>5, StandsAt
    <3> QED BY <2>1, <2>4, <3>1, StandsAt, CallGoesOn
  <2>7. Covers(a, call[a])'
    <3>1. steady'[a] \subseteq open /\ \A i \in steady'[a] : Takeable(a, i)'
      BY <1>2, SteadyShrinks DEF Takeable, TasksInv
    <3> QED BY <2>2, <2>6, <3>1 DEF Covers
  <2> QED BY <1>1, <1>2, <2>1, <2>2, <2>6, <2>7, StandsAt, IssuesStand
<1> QED BY <1>3, <1>4

LEMMA FetchIssueKeeps ==
  ASSUME TasksInv, SteadyMoves, NEW a \in Member, FetchIssue(a) PROVE TasksInv'
<1>1. /\ UNCHANGED <<created, open, labels, blockers, orphaned, budget, cur, borrowed>>
      /\ call[a].step = "fetch" /\ ~At(a, "label") /\ ~At(a, "list")
  BY DEF FetchIssue, issueVars, trackVars, At
<1> DEFINE eligible(i, l) == IF Ready(i) /\ l \in labels[i] THEN {i} ELSE {}
           step(i) == IF call[a].rest = {i} THEN "pick" ELSE "fetch"
           r(i) == [call[a] EXCEPT !.step = step(i), !.rest = call[a].rest \ {i},
                                   !.own = call[a].own \cup eligible(i, a),
                                   !.offers = call[a].offers \cup eligible(i, All)]
<1>2. PICK i \in call[a].rest : call' = [call EXCEPT ![a] = r(i)]
  <2>1. PICK i \in call[a].rest :
          call' = [call EXCEPT ![a].step = step(i), ![a].rest = @ \ {i},
                               ![a].own = @ \cup eligible(i, a), ![a].offers = @ \cup eligible(i, All)]
    BY DEF FetchIssue
  <2> HIDE DEF eligible, step
  <2>2. call[a] \in ToolCall /\ call \in [Member -> ToolCall]
    BY StandsAt DEF Typed
  <2>3. call' = [call EXCEPT ![a] = r(i)]
    BY <2>1, <2>2 DEF ToolCall
  <2> QED BY <2>3
<1>3. /\ call[a].rest \subseteq Known /\ call[a].own \subseteq Known /\ call[a].offers \subseteq Known
      /\ call[a].rest \subseteq Issue /\ call[a].then = "next" /\ call[a] \in ToolCall
      /\ Covers(a, call[a])
  BY <1>1, StandsAt, Constants DEF WellFormed, Known, ToolCall
<1>4. /\ r(i).step \in {"pick", "fetch"} /\ (r(i).step = "pick" <=> call[a].rest = {i})
      /\ r(i).rest = call[a].rest \ {i} /\ r(i).own = call[a].own \cup eligible(i, a)
      /\ r(i).offers = call[a].offers \cup eligible(i, All) /\ r(i).then = "next"
  BY <1>3 DEF ToolCall
<1>5. r(i) \in ToolCall
  <2>1. call[a].own \cup eligible(i, a) \in SUBSET Issue /\ call[a].offers \cup eligible(i, All) \in SUBSET Issue
    BY <1>3 DEF ToolCall
  <2>2. call[a].rest \ {i} \in SUBSET Issue /\ step(i) \in Waiting \cup {"idle", "pick"}
    BY <1>3 DEF Waiting
  <2> HIDE DEF eligible, step
  <2> QED BY <1>3, <2>1, <2>2 DEF ToolCall
<1> HIDE DEF r
<1>6. WellFormed(r(i), created)
  <2>1. r(i).rest \cup r(i).own \cup r(i).offers \subseteq 1..created
    BY <1>3, <1>4 DEF Known
  <2> QED BY <1>4, <2>1 DEF WellFormed
<1>7. /\ call' \in [Member -> ToolCall] /\ CallsInv' /\ call'[a] = r(i)
      /\ \A b \in Member : b # a => call'[b] = call[b]
  <2>1. created' \in Nat /\ created' >= created /\ WellFormed(r(i), created')
    BY <1>1, <1>6, StandsAt
  <2> QED BY <1>2, <1>5, <2>1, StandsAt, CallGoesOn
<1>8. labels[i] = {} \/ \E l \in Label : labels[i] = {l}
  BY <1>3 DEF TasksInv, LabelsInv
<1>9. \A j \in r(i).own : labels[j] = {a}
  BY <1>4, <1>8, StandsAt
<1>10. Covers(a, call[a])'
  <2>1. steady'[a] \subseteq steady[a] /\ \A j \in steady'[a] : Takeable(a, j)'
    BY <1>1, SteadyShrinks DEF TasksInv
  <2>2. \A j \in steady[a] : Takeable(a, j) /\ j \in call[a].rest \cup call[a].own \cup call[a].offers
    BY <1>1, <1>3 DEF Covers
  <2>3. i \in steady[a] => i \in r(i).own \cup r(i).offers
    BY <1>4, <2>2 DEF Takeable
  <2>4. steady'[a] \subseteq r(i).rest \cup r(i).own \cup r(i).offers
    BY <1>4, <2>1, <2>2, <2>3
  <2>5. \A j \in r(i).offers : labels'[j] # {a}
    <3>1. \A j \in call[a].offers : labels[j] # {a}
      BY <1>1, <1>3 DEF Covers
    <3>2. a # All
      BY Constants
    <3> QED BY <1>1, <1>4, <3>1, <3>2
  <2> QED BY <1>4, <1>7, <2>1, <2>4, <2>5 DEF Covers
<1> QED BY <1>1, <1>4, <1>7, <1>9, <1>10, StandsAt, IssuesStand

LEMMA PickKeeps ==
  ASSUME TasksInv, SteadyMoves, NEW a \in Member, Pick(a) PROVE TasksInv'
<1>1. /\ UNCHANGED <<created, open, labels, blockers, orphaned, budget>>
      /\ UNCHANGED <<issueVars, budget, orphaned>>
      /\ call[a].step = "pick" /\ ~At(a, "label") /\ ~At(a, "list")
  BY DEF Pick, issueVars, At
<1>2. /\ call[a].own \subseteq Known /\ call[a].offers \subseteq Known /\ call[a].rest = {}
      /\ call[a].then = "next" /\ call[a] \in ToolCall /\ Covers(a, call[a])
      /\ \A i \in call[a].own : labels[i] = {a}
  BY <1>1, StandsAt DEF WellFormed, Known
<1>3. CASE call[a].own # {}
  <2>1. PICK i \in call[a].own : Track(a, i)
    BY <1>3 DEF Pick
  <2> QED BY <1>1, <1>2, <2>1, TrackKeeps
<1>4. CASE call[a].own = {} /\ call[a].offers # {}
  <2> DEFINE r(i) == [call[a] EXCEPT !.step = "show", !.id = i, !.offers = call[a].offers \ {i}]
  <2>1. PICK i \in call[a].offers :
          call' = [call EXCEPT ![a].step = "show", ![a].id = i, ![a].offers = @ \ {i}]
    BY <1>4 DEF Pick
  <2>2. UNCHANGED <<cur, borrowed>>
    BY <1>4 DEF Pick, trackVars
  <2>3. call' = [call EXCEPT ![a] = r(i)]
    <3>1. call \in [Member -> ToolCall]
      BY StandsAt DEF Typed
    <3> QED BY <1>2, <2>1, <3>1 DEF ToolCall
  <2>4. /\ r(i).step = "show" /\ r(i).id = i /\ r(i).offers = call[a].offers \ {i} /\ r(i).own = {}
        /\ r(i).rest = {} /\ r(i).then = "next"
    BY <1>2, <1>4 DEF ToolCall
  <2>5. r(i) \in ToolCall
    BY <1>2 DEF ToolCall, Waiting
  <2> HIDE DEF r
  <2>6. WellFormed(r(i), created)
    BY <1>2, <2>4 DEF WellFormed, Known
  <2>7. /\ call' \in [Member -> ToolCall] /\ CallsInv' /\ call'[a] = r(i)
        /\ \A b \in Member : b # a => call'[b] = call[b]
    <3>1. created' \in Nat /\ created' >= created /\ WellFormed(r(i), created')
      BY <1>1, <2>6, StandsAt
    <3> QED BY <2>3, <2>5, <3>1, StandsAt, CallGoesOn
  <2>8. Covers(a, call[a])'
    <3>1. steady'[a] \subseteq steady[a] /\ \A j \in steady'[a] : Takeable(a, j)'
      BY <1>1, SteadyShrinks DEF TasksInv
    <3>2. steady[a] \subseteq call[a].offers /\ \A j \in call[a].offers : labels[j] # {a}
      BY <1>1, <1>2, <1>4 DEF Covers
    <3> QED BY <1>1, <2>1, <2>4, <2>7, <3>1, <3>2 DEF Covers
  <2> QED BY <1>1, <2>2, <2>4, <2>7, <2>8, StandsAt, IssuesStand
<1>5. CASE call[a].own = {} /\ call[a].offers = {}
  <2>1. Track(a, NoTask)
    BY <1>5 DEF Pick
  <2> QED BY <1>1, <2>1, TrackKeeps
<1> QED BY <1>3, <1>4, <1>5

-----------------------------------------------------------------------------
(* _claim_one                                                               *)

LEMMA LostKeeps ==
  ASSUME TasksInv, SteadyMoves, NEW a \in Member, call[a].step \in {"show", "unlabel"},
         All \notin labels[call[a].id], Lost(a),
         UNCHANGED <<created, open, labels, blockers, orphaned, budget>>
  PROVE  TasksInv'
<1>1. /\ call[a].id \in Known /\ call[a].rest = {} /\ call[a].own = {} /\ call[a].offers \subseteq Known
      /\ call[a] \in ToolCall /\ Covers(a, call[a]) /\ ~At(a, "label") /\ ~At(a, "list")
  BY StandsAt DEF WellFormed, Known, At
<1>2. CASE call[a].then = "next"
  <2>1. Goto(a, "pick") /\ UNCHANGED <<cur, borrowed>>
    BY <1>2 DEF Lost, AfterLost, trackVars
  <2> DEFINE r == [call[a] EXCEPT !.step = "pick"]
  <2>2. r.step = "pick" /\ r.rest = {} /\ r.own = {} /\ r.offers = call[a].offers /\ r.then = "next"
    BY <1>1, <1>2 DEF ToolCall
  <2> HIDE DEF r
  <2>3. WellFormed(r, created)
    BY <1>1, <2>2 DEF WellFormed, Known
  <2>4. /\ call' \in [Member -> ToolCall] /\ CallsInv' /\ call'[a] = r
        /\ \A b \in Member : b # a => call'[b] = call[b]
    BY <2>1, <2>3, StandsAt, GotoKeeps DEF r
  <2>5. Covers(a, call[a])'
    <3>1. steady'[a] \subseteq steady[a] /\ \A j \in steady'[a] : Takeable(a, j)'
      BY <1>1, SteadyShrinks DEF TasksInv
    <3>2. /\ steady[a] \subseteq call[a].offers \cup {call[a].id} /\ labels[call[a].id] # {a}
          /\ \A j \in call[a].offers : labels[j] # {a}
      BY <1>1, <1>2 DEF Covers
    <3>3. call[a].id \notin steady'[a]
      BY <3>1, <3>2 DEF Takeable
    <3> QED BY <2>2, <2>4, <3>1, <3>2, <3>3 DEF Covers
  <2> QED BY <1>1, <2>1, <2>2, <2>4, <2>5, StandsAt, IssuesStand
<1>3. CASE call[a].then = "activate"
  <2>1. Return(a) /\ UNCHANGED <<cur, borrowed>>
    BY <1>3 DEF Lost, AfterLost, trackVars
  <2>2. /\ call' \in [Member -> ToolCall] /\ CallsInv' /\ call'[a] = NoCall
        /\ \A b \in Member : b # a => call'[b] = call[b]
    BY <2>1, StandsAt, ReturnKeeps
  <2>3. NoCall.step = "idle" /\ NoCall.own = {}
    BY DEF NoCall
  <2>4. Covers(a, call[a])'
    BY <2>2, <2>3, NotSearching
  <2> QED BY <1>1, <2>1, <2>2, <2>3, <2>4, StandsAt, IssuesStand
<1> QED BY <1>1, <1>2, <1>3 DEF ToolCall

LEMMA ShowOfferKeeps ==
  ASSUME TasksInv, SteadyMoves, NEW a \in Member, ShowOffer(a) PROVE TasksInv'
<1>1. UNCHANGED <<created, open, labels, blockers, orphaned, budget>> /\ call[a].step = "show"
  BY DEF ShowOffer, issueVars, At
<1>2. CASE All \in labels[call[a].id]
  <2>1. Goto(a, "unlabel") /\ UNCHANGED <<cur, borrowed>>
    BY <1>2 DEF ShowOffer, trackVars
  <2>2. /\ call[a] \in ToolCall /\ Covers(a, call[a]) /\ ~At(a, "label") /\ ~At(a, "list")
        /\ WellFormed(call[a], created) /\ call[a].own = {}
    BY <1>1, StandsAt DEF At, WellFormed
  <2> DEFINE r == [call[a] EXCEPT !.step = "unlabel"]
  <2>3. /\ r.step = "unlabel" /\ r.rest = call[a].rest /\ r.own = {} /\ r.offers = call[a].offers
        /\ r.then = call[a].then /\ r.id = call[a].id
    BY <2>2 DEF ToolCall
  <2> HIDE DEF r
  <2>4. WellFormed(r, created) /\ "unlabel" \in Waiting
    BY <1>1, <2>2, <2>3 DEF WellFormed, Waiting
  <2>5. /\ call' \in [Member -> ToolCall] /\ CallsInv' /\ call'[a] = r
        /\ \A b \in Member : b # a => call'[b] = call[b]
    BY <1>1, <2>1, <2>4, StandsAt, GotoKeeps DEF r
  <2>6. Covers(a, call[a])'
    <3>1. steady'[a] \subseteq steady[a] /\ \A j \in steady'[a] : Takeable(a, j)'
      BY <2>2, SteadyShrinks DEF TasksInv
    <3> QED BY <1>1, <2>2, <2>3, <2>5, <3>1 DEF Covers
  <2> QED BY <1>1, <2>1, <2>2, <2>3, <2>5, <2>6, StandsAt, IssuesStand
<1>3. CASE All \notin labels[call[a].id]
  BY <1>1, <1>3, LostKeeps DEF ShowOffer
<1> QED BY <1>2, <1>3

(* Session a goes on to step, and the labels of issue i become new.         *)
OneLabelMoves(a, i, step, new) ==
  /\ TasksTyped' /\ CallsInv' /\ SearchInv'
  /\ call'[a].step = step /\ call'[a].id = i
  /\ \A b \in Member : b # a => call'[b] = call[b]
  /\ \A j \in Known : labels'[j] = IF j = i THEN new ELSE labels[j]
  /\ \A b \in Member : \A j \in call'[b].own : labels'[j] = {b}
  /\ \A b \in Member : cur'[b] # NoTask => labels'[cur'[b]] = {b} \/ b \in borrowed'

(* What stays true of the labels when the label of one issue changes under  *)
(* session a alone.                                                         *)
LEMMA LabelOfOne ==
  ASSUME TasksInv, SteadyMoves, NEW a \in Member, NEW i \in Known, NEW new \in SUBSET Label,
         NEW step \in {"label", "confirm"}, call[a].step \in {"unlabel", "label"}, call[a].id = i,
         Goto(a, step), labels' = [labels EXCEPT ![i] = new],
         UNCHANGED <<created, open, blockers, orphaned, budget, cur, borrowed>>,
         \A b \in Member : labels[i] # {b}, \A b \in Member \ {a} : new # {b}
  PROVE  OneLabelMoves(a, i, step, new)
<1>1. /\ Typed /\ CallsInv /\ LabelsInv /\ call[a] \in ToolCall /\ WellFormed(call[a], created)
      /\ ~At(a, "list") /\ Covers(a, call[a]) /\ labels \in [Issue -> SUBSET Label]
  BY StandsAt DEF TasksInv, At, Typed
<1>2. i \in Issue /\ Known \subseteq Issue
  BY <1>1, Constants DEF Typed, Known, Issue
<1> DEFINE r == [call[a] EXCEPT !.step = step]
<1>3. /\ r.step = step /\ r.id = i /\ r.own = call[a].own /\ r.rest = call[a].rest
      /\ r.offers = call[a].offers
  BY <1>1 DEF ToolCall
<1> HIDE DEF r
<1>4. WellFormed(r, created) /\ step \in Waiting
  BY <1>1, <1>3 DEF WellFormed, Waiting, Known
<1>5. /\ call' \in [Member -> ToolCall] /\ CallsInv' /\ call'[a] = r
      /\ \A b \in Member : b # a => call'[b] = call[b]
  BY <1>1, <1>4, GotoKeeps DEF r
<1>6. labels' \in [Issue -> SUBSET Label] /\ \A j \in Issue : labels'[j] = IF j = i THEN new ELSE labels[j]
  BY <1>1, <1>2
<1>7. TasksTyped'
  <2>1. steady' \in [Member -> SUBSET Issue]
    BY SteadyShrinks DEF TasksInv
  <2>2. Known' = Known
    BY DEF Known
  <2> QED BY <1>1, <1>5, <1>6, <2>1, <2>2 DEF Typed, TasksTyped
<1>8. SearchInv'
  <2>1. \A b \in Member \ {a} : \A j \in Known : labels'[j] = {b} => labels[j] = {b}
    BY <1>2, <1>6
  <2>2. \A b \in Member \ {a} : Covers(b, call[b])'
    BY <1>5, <2>1, OthersCovered
  <2>3. Covers(a, call[a])'
    <3>1. \A j \in steady'[a] : Takeable(a, j)'
      BY SteadyShrinks DEF TasksInv
    <3> QED BY <1>3, <1>5, <3>1 DEF Covers
  <2> QED BY <2>2, <2>3 DEF SearchInv
<1>9. \A b \in Member : \A j \in call'[b].own : labels'[j] = {b}
  <2> SUFFICES ASSUME NEW b \in Member, NEW j \in call'[b].own PROVE labels'[j] = {b}
    OBVIOUS
  <2>1. j \in call[b].own
    BY <1>3, <1>5
  <2>2. labels[j] = {b} /\ j \in Issue
    BY <1>1, <2>1 DEF LabelsInv, Typed, ToolCall
  <2> QED BY <1>6, <2>2
<1>10. \A b \in Member : cur'[b] # NoTask => labels'[cur'[b]] = {b} \/ b \in borrowed'
  <2> SUFFICES ASSUME NEW b \in Member, cur[b] # NoTask, b \notin borrowed PROVE labels'[cur[b]] = {b}
    OBVIOUS
  <2>1. labels[cur[b]] = {b} /\ cur[b] \in Issue
    BY <1>1, <1>2 DEF LabelsInv, Typed
  <2> QED BY <1>6, <2>1
<1> QED BY <1>2, <1>3, <1>5, <1>6, <1>7, <1>8, <1>9, <1>10 DEF OneLabelMoves

LEMMA UnlabelKeeps ==
  ASSUME TasksInv, SteadyMoves, NEW a \in Member, Unlabel(a) PROVE TasksInv'
<1> DEFINE i == call[a].id
<1>1. /\ UNCHANGED <<created, open, blockers, orphaned, budget>> /\ call[a].step = "unlabel"
      /\ labels' = [labels EXCEPT ![i] = labels[i] \ {All}]
  BY DEF Unlabel, At
<1>2. /\ i \in Known /\ i \in Issue /\ labels \in [Issue -> SUBSET Label] /\ LabelsInv
      /\ labels[i] = {} \/ \E l \in Label : labels[i] = {l}
  <2>1. i \in Known /\ LabelsInv
    BY <1>1, StandsAt DEF WellFormed, Known, TasksInv
  <2>2. i \in Issue /\ labels \in [Issue -> SUBSET Label]
    BY <2>1, StandsAt, Constants DEF Known, Issue, Typed
  <2> QED BY <2>1, <2>2 DEF LabelsInv
<1>3. CASE All \in labels[i]
  <2>1. labels[i] = {All} /\ labels' = [labels EXCEPT ![i] = {}]
    BY <1>1, <1>2, <1>3
  <2>2. Goto(a, "label") /\ UNCHANGED <<cur, borrowed>>
    BY <1>3 DEF Unlabel, Removed, trackVars
  <2>3. \A b \in Member : labels[i] # {b} /\ {} # {b}
    BY <2>1, Constants
  <2>4. /\ TasksTyped' /\ CallsInv' /\ SearchInv'
        /\ call'[a].step = "label" /\ call'[a].id = i
        /\ \A b \in Member : b # a => call'[b] = call[b]
        /\ \A j \in Known : labels'[j] = IF j = i THEN {} ELSE labels[j]
        /\ \A b \in Member : \A j \in call'[b].own : labels'[j] = {b}
        /\ \A b \in Member : cur'[b] # NoTask => labels'[cur'[b]] = {b} \/ b \in borrowed'
    <3>1. /\ {} \in SUBSET Label /\ "label" \in {"label", "confirm"}
          /\ call[a].step \in {"unlabel", "label"} /\ call[a].id = i
          /\ (\A b \in Member : labels[i] # {b}) /\ \A b \in Member \ {a} : {} # {b}
      BY <1>1, <2>3
    <3>2. OneLabelMoves(a, i, "label", {})
      BY <1>1, <1>2, <2>1, <2>2, <3>1, LabelOfOne
    <3> QED BY <3>2 DEF OneLabelMoves
  <2>5. Known' = Known
    BY <1>1 DEF Known
  <2>6. \A b \in Member, j \in Known : Between(b, j)' <=> Between(b, j) \/ (b = a /\ j = i)
    BY <1>1, <2>4 DEF Between, At
  <2>7. \A b \in Member : ~Between(b, i)
    BY <1>2, <1>3 DEF LabelsInv
  <2>8. i \notin orphaned
    BY <1>2, <1>3 DEF LabelsInv
  <2>9. \A j \in Known : labels'[j] = {} \/ \E l \in Label : labels'[j] = {l}
    BY <1>2, <2>4 DEF LabelsInv
  <2>10. \A j \in Known : labels'[j] = {} => j \in orphaned' \/ \E b \in Member : Between(b, j)'
    BY <1>1, <1>2, <2>4, <2>6 DEF LabelsInv
  <2>11. \A b \in Member, j \in Known : Between(b, j)' =>
           labels'[j] = {} /\ j \notin orphaned' /\ \A d \in Member : Between(d, j)' => d = b
    BY <1>1, <1>2, <2>4, <2>6, <2>7, <2>8 DEF LabelsInv
  <2>12. \A b \in Member : At(b, "confirm")' => labels'[call'[b].id] = {b}
    <3> SUFFICES ASSUME NEW b \in Member, call'[b].step = "confirm" PROVE labels'[call'[b].id] = {b}
      BY DEF At
    <3>1. b # a /\ call'[b] = call[b]
      BY <2>4
    <3>2. labels[call[b].id] = {b} /\ call[b].id \in Known
      BY <1>2, <3>1, StandsAt DEF LabelsInv, At, WellFormed, Known
    <3> QED BY <2>3, <2>4, <3>1, <3>2
  <2>13. \A j \in orphaned' : labels'[j] = {}
    <3>1. \A j \in orphaned : j \in Known /\ labels[j] = {}
      BY <1>2, StandsAt DEF LabelsInv, Typed
    <3> QED BY <1>1, <2>4, <3>1
  <2> QED BY <2>4, <2>5, <2>9, <2>10, <2>11, <2>12, <2>13 DEF TasksInv, LabelsInv
<1>4. CASE All \notin labels[i]
  <2>1. labels' = labels
    BY <1>1, <1>2, <1>4
  <2>2. Lost(a)
    BY <1>4 DEF Unlabel, Removed
  <2> QED BY <1>1, <1>4, <2>1, <2>2, LostKeeps
<1> QED BY <1>3, <1>4

LEMMA AddLabelKeeps ==
  ASSUME TasksInv, SteadyMoves, NEW a \in Member, AddLabel(a) PROVE TasksInv'
<1> DEFINE i == call[a].id
<1>1. /\ UNCHANGED <<created, open, blockers, orphaned, budget, cur, borrowed>> /\ call[a].step = "label"
      /\ labels' = [labels EXCEPT ![i] = labels[i] \cup {a}] /\ Goto(a, "confirm")
  BY DEF AddLabel, At, trackVars
<1>2. i \in Known /\ LabelsInv /\ a \in Label /\ Between(a, i)
  BY <1>1, StandsAt DEF WellFormed, Known, TasksInv, Label, Between, At
<1>3. /\ labels[i] = {} /\ i \notin orphaned /\ \A b \in Member : Between(b, i) => b = a
      /\ labels' = [labels EXCEPT ![i] = {a}]
  <2>1. labels[i] = {} /\ i \notin orphaned /\ \A b \in Member : Between(b, i) => b = a
    BY <1>2 DEF LabelsInv
  <2>2. {} \cup {a} = {a}
    OBVIOUS
  <2> QED BY <1>1, <2>1, <2>2
<1>4. (\A b \in Member : labels[i] # {b}) /\ \A b \in Member \ {a} : {a} # {b}
  BY <1>3
<1>5. /\ TasksTyped' /\ CallsInv' /\ SearchInv'
      /\ call'[a].step = "confirm" /\ call'[a].id = i
      /\ \A b \in Member : b # a => call'[b] = call[b]
      /\ \A j \in Known : labels'[j] = IF j = i THEN {a} ELSE labels[j]
      /\ \A b \in Member : \A j \in call'[b].own : labels'[j] = {b}
      /\ \A b \in Member : cur'[b] # NoTask => labels'[cur'[b]] = {b} \/ b \in borrowed'
  <2>1. /\ {a} \in SUBSET Label /\ "confirm" \in {"label", "confirm"}
        /\ call[a].step \in {"unlabel", "label"} /\ call[a].id = i
    BY <1>1, <1>2
  <2>2. OneLabelMoves(a, i, "confirm", {a})
    BY <1>1, <1>2, <1>3, <1>4, <2>1, LabelOfOne
  <2> QED BY <2>2 DEF OneLabelMoves
<1>6. Known' = Known
  BY <1>1 DEF Known
<1>7. \A b \in Member, j \in Known : Between(b, j)' <=> Between(b, j) /\ b # a
  BY <1>5 DEF Between, At
<1>8. \A j \in Known : labels'[j] = {} \/ \E l \in Label : labels'[j] = {l}
  BY <1>2, <1>5 DEF LabelsInv
<1>9. \A j \in Known : labels'[j] = {} => j \in orphaned' \/ \E b \in Member : Between(b, j)'
  <2> SUFFICES ASSUME NEW j \in Known, labels'[j] = {}, j \notin orphaned
               PROVE  \E b \in Member : Between(b, j)'
    BY <1>1
  <2>1. j # i /\ labels[j] = {}
    BY <1>5
  <2>2. PICK b \in Member : Between(b, j)
    BY <1>2, <2>1 DEF LabelsInv
  <2>3. b # a
    BY <2>1, <2>2 DEF Between
  <2> QED BY <1>7, <2>2, <2>3
<1>10. \A b \in Member, j \in Known : Between(b, j)' =>
         labels'[j] = {} /\ j \notin orphaned' /\ \A d \in Member : Between(d, j)' => d = b
  BY <1>1, <1>2, <1>3, <1>5, <1>7 DEF LabelsInv
<1>11. \A b \in Member : At(b, "confirm")' => labels'[call'[b].id] = {b}
  <2> SUFFICES ASSUME NEW b \in Member, call'[b].step = "confirm", b # a
               PROVE  labels'[call'[b].id] = {b}
    BY <1>2, <1>5 DEF At
  <2>1. call'[b] = call[b]
    BY <1>5
  <2>2. labels[call[b].id] = {b} /\ call[b].id \in Known
    BY <1>2, <2>1, StandsAt DEF LabelsInv, At, WellFormed, Known
  <2> QED BY <1>3, <1>5, <2>1, <2>2
<1>12. \A j \in orphaned' : labels'[j] = {}
  <2>1. \A j \in orphaned : j \in Known /\ labels[j] = {} /\ j # i
    BY <1>2, <1>3, StandsAt DEF LabelsInv, Typed
  <2> QED BY <1>1, <1>5, <2>1
<1> QED BY <1>5, <1>6, <1>8, <1>9, <1>10, <1>11, <1>12 DEF TasksInv, LabelsInv

LEMMA ConfirmKeeps ==
  ASSUME TasksInv, SteadyMoves, NEW a \in Member, Confirm(a) PROVE TasksInv'
<1>1. /\ call[a].step = "confirm" /\ Track(a, call[a].id) /\ UNCHANGED <<issueVars, budget, orphaned>>
      /\ ~At(a, "label")
  BY DEF Confirm, At
<1>2. call[a].id \in Known /\ labels[call[a].id] = {a}
  BY <1>1, StandsAt DEF WellFormed, Known, TasksInv, LabelsInv, At
<1> QED BY <1>1, <1>2, TrackKeeps

-----------------------------------------------------------------------------
(* TodoUpdate                                                               *)

LEMMA TodoUpdateKeeps ==
  ASSUME TasksInv, SteadyMoves, NEW a \in Member, NEW i \in Known, NEW by \in Known \cup {NoTask},
         NEW ops \in budget.edits, NEW act \in {"yes", "no", "auto"}, TodoUpdate(a, i, by, ops, act)
  PROVE  TasksInv'
<1> DEFINE r == [NoCall EXCEPT !.step = IF ops = {} THEN "detail" ELSE "edit",
                               !.id = i, !.by = by, !.ops = ops, !.act = act,
                               !.then = IF "close" \in ops THEN "next" ELSE "activate"]
<1>1. /\ UNCHANGED <<created, open, labels, blockers, orphaned, cur, borrowed>>
      /\ call' = [call EXCEPT ![a] = r] /\ Begin(a)
      /\ by \in (IF ops \cap {"block", "unblock"} = {} THEN {NoTask} ELSE Known \ {i})
  BY DEF TodoUpdate, issueVars, trackVars
<1>2. /\ r.step \in {"edit", "detail"} /\ r.id = i /\ r.by = by /\ r.ops = ops
      /\ r.rest = {} /\ r.own = {} /\ r.offers = {}
  BY DEF NoCall
<1>3. Known \subseteq Issue /\ ops \in SUBSET Change
  <2>1. budget.edits \in SUBSET SUBSET Change
    BY StandsAt
  <2> QED BY <2>1, StandsAt, Constants DEF Known, Issue, Typed
<1>4. r \in ToolCall
  <2>1. (IF ops = {} THEN "detail" ELSE "edit") \in Waiting
    BY DEF Waiting
  <2>2. (IF "close" \in ops THEN "next" ELSE "activate") \in {"next", "activate"}
    OBVIOUS
  <2>3. NoCall \in ToolCall /\ i \in Issue /\ by \in Issue \cup {NoTask}
    BY <1>3, NoCallIsOne
  <2> QED BY <1>3, <2>1, <2>2, <2>3 DEF ToolCall
<1> HIDE DEF r
<1>5. WellFormed(r, created)
  BY <1>1, <1>2 DEF WellFormed, Known
<1>6. /\ call' \in [Member -> ToolCall] /\ CallsInv' /\ call'[a] = r
      /\ \A b \in Member : b # a => call'[b] = call[b]
  <2>1. created' \in Nat /\ created' >= created /\ WellFormed(r, created')
    BY <1>1, <1>5, StandsAt
  <2> QED BY <1>1, <1>4, <2>1, StandsAt, CallGoesOn
<1>7. /\ budget' \in [calls : Nat, fails : Nat, edits : SUBSET SUBSET Change]
      /\ ~At(a, "label") /\ ~At(a, "list") /\ steady[a] = {}
  BY <1>1, BudgetSpent
<1>8. Covers(a, call[a])'
  BY <1>2, <1>6, <1>7, NotSearching
<1> QED BY <1>1, <1>2, <1>6, <1>7, <1>8, StandsAt, IssuesStand

(* One change of a TodoUpdate, whatever it does to the issue.               *)
LEMMA EditKeeps ==
  ASSUME TasksInv, SteadyMoves, NEW a \in Member, NEW op, Edit(a, op),
         UNCHANGED <<created, labels, budget, orphaned, borrowed>>,
         open' \in SUBSET Known, blockers' \in [Issue -> SUBSET Issue],
         cur' = cur \/ cur' = [cur EXCEPT ![a] = NoTask]
  PROVE  TasksInv'
<1> DEFINE step == IF call[a].ops = {op} THEN "detail" ELSE "edit"
           r == [call[a] EXCEPT !.ops = call[a].ops \ {op}, !.step = step]
<1>1. /\ call[a].step = "edit" /\ call[a] \in ToolCall /\ WellFormed(call[a], created)
      /\ ~At(a, "label") /\ ~At(a, "list") /\ steady[a] = {}
      /\ call \in [Member -> ToolCall] /\ cur \in [Member -> Known \cup {NoTask}]
  BY StandsAt DEF Edit, At, Typed
<1>2. call' = [call EXCEPT ![a] = r]
  BY <1>1 DEF Edit, ToolCall
<1>3. /\ r.step \in {"edit", "detail"} /\ r.ops = call[a].ops \ {op} /\ r.id = call[a].id
      /\ r.by = call[a].by /\ r.rest = {} /\ r.own = {} /\ r.offers = {}
  BY <1>1 DEF ToolCall, WellFormed
<1>4. r \in ToolCall
  <2>1. step \in Waiting \cup {"idle", "pick"}
    BY DEF Waiting
  <2> HIDE DEF step
  <2> QED BY <1>1, <2>1 DEF ToolCall
<1> HIDE DEF r
<1>5. WellFormed(r, created)
  BY <1>1, <1>3 DEF WellFormed
<1>6. /\ call' \in [Member -> ToolCall] /\ CallsInv' /\ call'[a] = r
      /\ \A b \in Member : b # a => call'[b] = call[b]
  <2>1. created' \in Nat /\ created' >= created /\ WellFormed(r, created')
    BY <1>5, StandsAt
  <2> QED BY <1>2, <1>4, <2>1, StandsAt, CallGoesOn
<1>7. /\ cur' \in [Member -> Known \cup {NoTask}] /\ cur'[a] \in {cur[a], NoTask}
      /\ \A b \in Member : b # a => cur'[b] = cur[b]
  BY <1>1
<1>8. Covers(a, call[a])'
  BY <1>1, <1>3, <1>6, NotSearching
<1> QED BY <1>1, <1>3, <1>6, <1>7, <1>8, StandsAt, IssuesMove

LEMMA TodoUpdateStepKeeps ==
  ASSUME TasksInv, SteadyMoves, NEW a \in Member, TodoUpdateStep(a) PROVE TasksInv'
<1> DEFINE i == call[a].id
           by == call[a].by
           ops == call[a].ops
<1>1. UNCHANGED <<created, labels, budget, orphaned>>
  BY DEF TodoUpdateStep
<1>2. call[a].step = "edit"
  BY DEF TodoUpdateStep, EditStep, Edit, At
<1>3. /\ i \in Known /\ Known \subseteq Issue /\ open \in SUBSET Known
      /\ ops \cap {"block", "unblock"} # {} => by \in Issue
      /\ blockers \in [Issue -> SUBSET Issue]
  <2>1. Known \subseteq Issue
    BY StandsAt, Constants DEF Known, Issue, Typed
  <2> QED BY <1>2, <2>1, StandsAt DEF WellFormed, Known, Typed
<1>4. CASE Edit(a, "block") /\ blockers' = [blockers EXCEPT ![i] = @ \cup {by}] /\ UNCHANGED <<open, trackVars>>
  <2>1. blockers' \in [Issue -> SUBSET Issue]
    BY <1>3, <1>4 DEF Edit
  <2>2. UNCHANGED <<open, cur, borrowed>>
    BY <1>4 DEF trackVars
  <2> QED BY <1>1, <1>3, <1>4, <2>1, <2>2, EditKeeps
<1>5. CASE Edit(a, "unblock") /\ blockers' = [blockers EXCEPT ![i] = @ \ {by}] /\ UNCHANGED <<open, trackVars>>
  <2>1. blockers' \in [Issue -> SUBSET Issue]
    BY <1>3, <1>5
  <2>2. UNCHANGED <<open, cur, borrowed>>
    BY <1>5 DEF trackVars
  <2> QED BY <1>1, <1>3, <1>5, <2>1, <2>2, EditKeeps
<1>6. CASE Edit(a, "close") /\ open' = open \ {i} /\ Closed(a, i) /\ UNCHANGED blockers
  <2>1. UNCHANGED borrowed /\ (cur' = cur \/ cur' = [cur EXCEPT ![a] = NoTask]) /\ open' \in SUBSET Known
    BY <1>3, <1>6 DEF Closed
  <2> QED BY <1>1, <1>3, <1>6, <2>1, EditKeeps
<1>7. CASE Edit(a, "reopen") /\ open' = open \cup {i} /\ UNCHANGED <<blockers, trackVars>>
  <2>1. UNCHANGED <<cur, borrowed>> /\ open' \in SUBSET Known
    BY <1>3, <1>7 DEF trackVars
  <2> QED BY <1>1, <1>3, <1>7, <2>1, EditKeeps
<1>8. EditStep(a)
  BY DEF TodoUpdateStep
<1> QED BY <1>4, <1>5, <1>6, <1>7, <1>8 DEF EditStep

LEMMA ShowDetailKeeps ==
  ASSUME TasksInv, SteadyMoves, NEW a \in Member, ShowDetail(a) PROVE TasksInv'
<1> DEFINE i == call[a].id
<1>1. UNCHANGED <<created, open, labels, blockers, orphaned, budget>> /\ call[a].step = "detail"
  BY DEF ShowDetail, issueVars, At
<1>2. /\ call[a] \in ToolCall /\ WellFormed(call[a], created) /\ ~At(a, "label") /\ ~At(a, "list")
      /\ steady[a] = {} /\ i \in Known /\ call[a].rest = {} /\ call[a].own = {} /\ call[a].offers = {}
  BY <1>1, StandsAt DEF At, WellFormed, Known
<1>3. CASE call[a].then = "next"
  <2>1. UNCHANGED <<cur, borrowed>> /\ (Return(a) \/ NextTask(a, cur[a]))
    BY <1>3 DEF ShowDetail, trackVars
  <2>2. /\ call' \in [Member -> ToolCall] /\ CallsInv'
        /\ call'[a] \in {NoCall, [NoCall EXCEPT !.step = "current"], [NoCall EXCEPT !.step = "list"]}
        /\ \A b \in Member : b # a => call'[b] = call[b]
    BY <1>1, <2>1, StandsAt, ReturnKeeps, NextTaskKeeps
  <2>3. call'[a].step \in {"idle", "current", "list"} /\ call'[a].own = {}
    BY <2>2 DEF NoCall
  <2>4. Covers(a, call[a])'
    BY <1>2, <2>3, NotSearching
  <2> QED BY <1>1, <1>2, <2>1, <2>2, <2>3, <2>4, StandsAt, IssuesStand
<1>4. CASE call[a].then = "activate" /\ ~Activates(a)
  <2>1. Return(a) /\ UNCHANGED <<cur, borrowed>>
    BY <1>4 DEF ShowDetail, trackVars
  <2>2. /\ call' \in [Member -> ToolCall] /\ CallsInv' /\ call'[a] = NoCall
        /\ \A b \in Member : b # a => call'[b] = call[b]
    BY <1>1, <2>1, StandsAt, ReturnKeeps
  <2>3. NoCall.step = "idle" /\ NoCall.own = {}
    BY DEF NoCall
  <2>4. Covers(a, call[a])'
    BY <2>2, <2>3, NotSearching
  <2> QED BY <1>1, <1>2, <2>1, <2>2, <2>3, <2>4, StandsAt, IssuesStand
<1>5. CASE call[a].then = "activate" /\ Activates(a) /\ All \in labels[i]
  <2>1. Goto(a, "show") /\ UNCHANGED <<cur, borrowed>>
    BY <1>5 DEF ShowDetail, trackVars
  <2> DEFINE r == [call[a] EXCEPT !.step = "show"]
  <2>2. /\ r.step = "show" /\ r.rest = {} /\ r.own = {} /\ r.offers = {} /\ r.then = "activate"
        /\ r.id = i
    BY <1>2, <1>5 DEF ToolCall
  <2> HIDE DEF r
  <2>3. WellFormed(r, created) /\ "show" \in Waiting
    BY <1>2, <2>2 DEF WellFormed, Known, Waiting
  <2>4. /\ call' \in [Member -> ToolCall] /\ CallsInv' /\ call'[a] = r
        /\ \A b \in Member : b # a => call'[b] = call[b]
    BY <1>1, <2>1, <2>3, StandsAt, GotoKeeps DEF r
  <2>5. Covers(a, call[a])'
    BY <1>2, <2>2, <2>4, NotSearching
  <2> QED BY <1>1, <1>2, <2>1, <2>2, <2>4, <2>5, StandsAt, IssuesStand
<1>6. CASE call[a].then = "activate" /\ Activates(a) /\ All \notin labels[i]
  <2>1. /\ cur' = [cur EXCEPT ![a] = i] /\ Return(a)
        /\ borrowed' = IF a \in labels[i] THEN borrowed \ {a} ELSE borrowed \cup {a}
    BY <1>6 DEF ShowDetail
  <2>2. /\ call' \in [Member -> ToolCall] /\ CallsInv' /\ call'[a] = NoCall
        /\ \A b \in Member : b # a => call'[b] = call[b]
    BY <1>1, <2>1, StandsAt, ReturnKeeps
  <2>3. NoCall.step = "idle" /\ NoCall.own = {}
    BY DEF NoCall
  <2>4. Covers(a, call[a])'
    BY <2>2, <2>3, NotSearching
  <2>5. labels[i] = {} \/ \E l \in Label : labels[i] = {l}
    BY <1>2 DEF TasksInv, LabelsInv
  <2>6. /\ cur' \in [Member -> Known \cup {NoTask}] /\ borrowed' \in SUBSET Member /\ cur'[a] = i
        /\ \A b \in Member : b # a => cur'[b] = cur[b] /\ (b \in borrowed => b \in borrowed')
        /\ labels[i] = {a} \/ a \in borrowed'
    BY <1>2, <2>1, <2>5, StandsAt
  <2> QED BY <1>1, <1>2, <2>2, <2>3, <2>4, <2>6, StandsAt, IssuesStand
<1> QED BY <1>2, <1>3, <1>4, <1>5, <1>6 DEF ToolCall

-----------------------------------------------------------------------------
(* TodoCreate, and the failure of a call                                    *)

LEMMA TodoCreateKeeps ==
  ASSUME TasksInv, SteadyMoves, NEW a \in Member, NEW label \in Label,
         NEW by \in Known \cup {NoTask}, NEW dependent \in Known \cup {NoTask},
         NEW act \in {"yes", "no", "auto"}, TodoCreate(a, label, by, dependent, act)
  PROVE  TasksInv'
<1> DEFINE new == created + 1
           links == (IF by \in Known THEN <<[new |-> TRUE, other |-> by]>> ELSE <<>>)
                    \o (IF dependent \in Known THEN <<[new |-> FALSE, other |-> dependent]>> ELSE <<>>)
           r == [NoCall EXCEPT !.step = IF links = <<>> THEN "detail" ELSE "link",
                               !.id = created + 1, !.act = act, !.then = "activate",
                               !.links = links]
<1>1. /\ UNCHANGED <<blockers, orphaned, cur, borrowed>> /\ Begin(a) /\ created < MaxIssues
      /\ created' = new /\ open' = open \cup {new} /\ labels' = [labels EXCEPT ![new] = {label}]
      /\ call' = [call EXCEPT ![a] = r]
  BY DEF TodoCreate, trackVars
<1>2. /\ LabelsInv /\ Typed /\ CallsInv /\ created \in Nat /\ MaxIssues \in Nat
      /\ budget' \in [calls : Nat, fails : Nat, edits : SUBSET SUBSET Change]
      /\ call[a].step = "idle" /\ ~At(a, "label") /\ ~At(a, "list") /\ steady[a] = {}
  BY <1>1, StandsAt, BudgetSpent, Constants DEF TasksInv
<1>3. /\ new \in Issue /\ new \notin Known /\ Known' = Known \cup {new} /\ Known \subseteq Issue
      /\ new \in Nat /\ new >= created /\ new \in 0..MaxIssues
  BY <1>1, <1>2 DEF Known, Issue
<1>4. links \in Seq(Link)
  <2>1. <<>> \in Seq(Link)
    OBVIOUS
  <2>2. by \in Known => <<[new |-> TRUE, other |-> by]>> \in Seq(Link)
    BY <1>3 DEF Link
  <2>3. dependent \in Known => <<[new |-> FALSE, other |-> dependent]>> \in Seq(Link)
    BY <1>3 DEF Link
  <2> QED BY <2>1, <2>2, <2>3
<1> HIDE DEF links, new
<1>5. /\ r.step = (IF links = <<>> THEN "detail" ELSE "link") /\ r.id = new /\ r.links = links
      /\ r.rest = {} /\ r.own = {} /\ r.offers = {}
  BY DEF NoCall, new
<1>6. r \in ToolCall
  <2>1. (IF links = <<>> THEN "detail" ELSE "link") \in Waiting
    BY DEF Waiting
  <2>2. NoCall \in ToolCall /\ created + 1 \in Issue
    BY <1>3, NoCallIsOne DEF new
  <2> QED BY <1>4, <2>1, <2>2 DEF ToolCall
<1> HIDE DEF r
<1>7. WellFormed(r, new)
  <2>1. new \in 1..new
    BY <1>2, <1>3 DEF new
  <2>2. r.step \in {"detail", "link"} /\ (r.step = "link" => r.links # <<>>)
    BY <1>5
  <2> QED BY <1>5, <2>1, <2>2 DEF WellFormed
<1>8. /\ call' \in [Member -> ToolCall] /\ CallsInv' /\ call'[a] = r
      /\ \A b \in Member : b # a => call'[b] = call[b]
  BY <1>1, <1>2, <1>3, <1>6, <1>7, CallGoesOn
<1>9. /\ labels' \in [Issue -> SUBSET Label] /\ labels'[new] = {label}
      /\ \A j \in Known : labels'[j] = labels[j]
  BY <1>1, <1>2, <1>3 DEF Typed
<1>10. TasksTyped'
  <2>1. steady' \in [Member -> SUBSET Issue]
    BY SteadyShrinks DEF TasksInv
  <2>2. /\ created' \in 0..MaxIssues /\ open' \in SUBSET Known' /\ cur' \in [Member -> Known' \cup {NoTask}]
        /\ orphaned' \in SUBSET Known' /\ borrowed' \in SUBSET Member
        /\ blockers' \in [Issue -> SUBSET Issue]
    BY <1>1, <1>2, <1>3 DEF Typed
  <2> QED BY <1>2, <1>8, <1>9, <2>1, <2>2 DEF TasksTyped
<1>11. SearchInv'
  <2>1. \A b \in Member : \A j \in Known : labels'[j] = {b} => labels[j] = {b}
    BY <1>9
  <2>2. \A b \in Member : b # a => Covers(b, call[b])'
    BY <1>8, <2>1, OthersCovered
  <2>3. Covers(a, call[a])'
    BY <1>2, <1>5, <1>8, NotSearching
  <2> QED BY <2>2, <2>3 DEF SearchInv
<1>12. \A b \in Member, j \in Known' : Between(b, j)' <=> Between(b, j) /\ j \in Known
  <2>1. \A b \in Member : At(b, "label") => call[b].id \in Known
    BY StandsAt DEF At, WellFormed, Known
  <2> QED BY <1>2, <1>3, <1>5, <1>8, <2>1 DEF Between, At
<1>13. LabelsInv'
  <2>1. \A j \in Known' : labels'[j] = {} \/ \E l \in Label : labels'[j] = {l}
    <3>1. \A j \in Known : labels'[j] = {} \/ \E l \in Label : labels'[j] = {l}
      BY <1>2, <1>9 DEF LabelsInv
    <3>2. \E l \in Label : labels'[new] = {l}
      BY <1>9
    <3> QED BY <1>3, <3>1, <3>2
  <2>2. \A j \in Known' : labels'[j] = {} => j \in orphaned' \/ \E b \in Member : Between(b, j)'
    <3> SUFFICES ASSUME NEW j \in Known', labels'[j] = {}
                 PROVE  j \in orphaned' \/ \E b \in Member : Between(b, j)'
      OBVIOUS
    <3>1. j \in Known /\ labels[j] = {}
      BY <1>3, <1>9
    <3> QED BY <1>1, <1>2, <1>12, <3>1 DEF LabelsInv
  <2>3. \A j \in orphaned' : labels'[j] = {}
    BY <1>1, <1>2, <1>9 DEF LabelsInv, Typed
  <2>4. \A b \in Member, j \in Known' : Between(b, j)' =>
          labels'[j] = {} /\ j \notin orphaned' /\ \A d \in Member : Between(d, j)' => d = b
    BY <1>1, <1>2, <1>9, <1>12 DEF LabelsInv
  <2>5. \A b \in Member : At(b, "confirm")' => labels'[call'[b].id] = {b}
    <3> SUFFICES ASSUME NEW b \in Member, call'[b].step = "confirm" PROVE labels'[call'[b].id] = {b}
      BY DEF At
    <3>1. b # a /\ call'[b] = call[b]
      BY <1>5, <1>8
    <3>2. labels[call[b].id] = {b} /\ call[b].id \in Known
      BY <1>2, <3>1, StandsAt DEF LabelsInv, At, WellFormed, Known
    <3> QED BY <1>9, <3>1, <3>2
  <2>6. \A b \in Member : \A j \in call'[b].own : labels'[j] = {b}
    <3> SUFFICES ASSUME NEW b \in Member, NEW j \in call'[b].own PROVE labels'[j] = {b}
      OBVIOUS
    <3>1. b # a /\ j \in call[b].own
      BY <1>5, <1>8
    <3>2. labels[j] = {b} /\ j \in Known
      BY <1>2, <3>1, StandsAt DEF LabelsInv, WellFormed, Known
    <3> QED BY <1>9, <3>2
  <2>7. \A b \in Member : cur'[b] # NoTask => labels'[cur'[b]] = {b} \/ b \in borrowed'
    <3> SUFFICES ASSUME NEW b \in Member, cur[b] # NoTask, b \notin borrowed PROVE labels'[cur[b]] = {b}
      BY <1>1
    <3>1. cur[b] \in Known /\ labels[cur[b]] = {b}
      BY <1>2 DEF LabelsInv, Typed
    <3> QED BY <1>9, <3>1
  <2> QED BY <2>1, <2>2, <2>3, <2>4, <2>5, <2>6, <2>7 DEF LabelsInv
<1> QED BY <1>8, <1>10, <1>11, <1>13 DEF TasksInv

LEMMA HeadAndTail ==
  ASSUME NEW S, NEW s \in Seq(S), s # <<>>
  PROVE  /\ Head(s) \in S /\ Tail(s) \in Seq(S)
         /\ Len(s) # 1 => Tail(s) # <<>>
<1>1. Len(s) \in Nat \ {0}
  OBVIOUS
<1>2. Head(s) \in S /\ Tail(s) \in Seq(S)
  OBVIOUS
<1>3. Len(Tail(s)) = Len(s) - 1
  OBVIOUS
<1>4. Len(s) # 1 => Len(Tail(s)) # 0
  BY <1>1, <1>3
<1>5. Len(<<>>) = 0
  OBVIOUS
<1>6. Tail(s) = <<>> => Len(Tail(s)) = Len(<<>>)
  OBVIOUS
<1> QED BY <1>2, <1>4, <1>5, <1>6

LEMMA LinkIssueKeeps ==
  ASSUME TasksInv, SteadyMoves, NEW a \in Member, LinkIssue(a) PROVE TasksInv'
<1> DEFINE link == Head(call[a].links)
           i == IF link.new THEN call[a].id ELSE link.other
           j == IF link.new THEN link.other ELSE call[a].id
           step == IF Len(call[a].links) = 1 THEN "detail" ELSE "link"
           r == [call[a] EXCEPT !.links = Tail(call[a].links), !.step = step]
<1>1. /\ UNCHANGED <<created, open, labels, cur, borrowed, budget, orphaned>> /\ call[a].step = "link"
      /\ blockers' = [blockers EXCEPT ![i] = blockers[i] \cup {j}]
      /\ call' = [call EXCEPT ![a].links = Tail(call[a].links), ![a].step = step]
  BY DEF LinkIssue, At, trackVars
<1>2. /\ call[a] \in ToolCall /\ WellFormed(call[a], created) /\ ~At(a, "label") /\ ~At(a, "list")
      /\ steady[a] = {} /\ call \in [Member -> ToolCall] /\ Known \subseteq Issue
      /\ open \in SUBSET Known /\ blockers \in [Issue -> SUBSET Issue]
  <2>1. Known \subseteq Issue
    BY StandsAt, Constants DEF Typed, Known, Issue
  <2> QED BY <1>1, <2>1, StandsAt DEF At, Typed
<1>3. /\ call[a].id \in Known /\ call[a].links \in Seq(Link) /\ call[a].links # <<>>
      /\ call[a].rest = {} /\ call[a].own = {} /\ call[a].offers = {}
  BY <1>1, <1>2 DEF WellFormed, Known, ToolCall
<1>4. /\ link \in Link /\ Tail(call[a].links) \in Seq(Link)
      /\ Len(call[a].links) # 1 => Tail(call[a].links) # <<>>
  BY <1>3, HeadAndTail
<1>5. i \in Issue /\ j \in Issue
  BY <1>2, <1>3, <1>4 DEF Link
<1> HIDE DEF i, j, link
<1>6. blockers' \in [Issue -> SUBSET Issue]
  BY <1>1, <1>2, <1>5
<1>7. call' = [call EXCEPT ![a] = r]
  BY <1>1, <1>2 DEF ToolCall
<1>8. /\ r.step = step /\ r.links = Tail(call[a].links) /\ r.id = call[a].id
      /\ r.rest = {} /\ r.own = {} /\ r.offers = {}
  BY <1>2, <1>3 DEF ToolCall
<1>9. step \in Waiting \cup {"idle", "pick"} /\ step \in {"detail", "link"}
  BY DEF Waiting
<1>10. step = "link" => Len(call[a].links) # 1
  OBVIOUS
<1> HIDE DEF step
<1>11. r \in ToolCall
  BY <1>2, <1>4, <1>9 DEF ToolCall
<1> HIDE DEF r
<1>12. WellFormed(r, created)
  BY <1>3, <1>4, <1>8, <1>9, <1>10 DEF WellFormed, Known
<1>13. /\ call' \in [Member -> ToolCall] /\ CallsInv' /\ call'[a] = r
       /\ \A b \in Member : b # a => call'[b] = call[b]
  <2>1. created' \in Nat /\ created' >= created /\ WellFormed(r, created')
    BY <1>1, <1>12, StandsAt
  <2> QED BY <1>7, <1>11, <2>1, StandsAt, CallGoesOn
<1>14. Covers(a, call[a])'
  BY <1>2, <1>8, <1>9, <1>13, NotSearching
<1> QED BY <1>1, <1>2, <1>6, <1>8, <1>9, <1>13, <1>14, StandsAt, IssuesMove

(* A call that ends without a change of what its session tracks.            *)
LEMMA EndKeeps ==
  ASSUME TasksInv, SteadyMoves, NEW a \in Member, Return(a), ~At(a, "label"),
         UNCHANGED <<created, labels, blockers, cur, borrowed, orphaned>>, open' \in SUBSET Known,
         budget' \in [calls : Nat, fails : Nat, edits : SUBSET SUBSET Change]
  PROVE  TasksInv'
<1>1. /\ call' \in [Member -> ToolCall] /\ CallsInv' /\ call'[a] = NoCall
      /\ \A b \in Member : b # a => call'[b] = call[b]
  BY StandsAt, ReturnKeeps
<1>2. NoCall.step = "idle" /\ NoCall.own = {}
  BY DEF NoCall
<1>3. Covers(a, call[a])'
  BY <1>1, <1>2, NotSearching
<1>4. blockers' \in [Issue -> SUBSET Issue]
  BY StandsAt DEF Typed
<1> QED BY <1>1, <1>2, <1>3, <1>4, StandsAt, IssuesMove

LEMMA AbandonKeeps ==
  ASSUME TasksInv, SteadyMoves, NEW a \in Member, Abandon(a) PROVE TasksInv'
<1>1. /\ Return(a) /\ ~At(a, "label") /\ open' \in SUBSET Known
      /\ UNCHANGED <<created, labels, blockers, cur, borrowed, orphaned, budget>>
  BY StandsAt DEF Abandon, trackVars, At, Typed
<1> QED BY <1>1, StandsAt, EndKeeps

(* A claim that fails between the two labels leaves the issue unlabelled.   *)
LEMMA FailBetween ==
  ASSUME TasksInv, SteadyMoves, NEW a \in Member, At(a, "label"), Return(a),
         orphaned' = orphaned \cup {call[a].id},
         UNCHANGED <<created, open, labels, blockers, cur, borrowed>>,
         budget' \in [calls : Nat, fails : Nat, edits : SUBSET SUBSET Change]
  PROVE  TasksInv'
<1> DEFINE i == call[a].id
<1>1. /\ call' \in [Member -> ToolCall] /\ CallsInv' /\ call'[a] = NoCall
      /\ \A b \in Member : b # a => call'[b] = call[b]
  BY StandsAt, ReturnKeeps
<1>2. NoCall.step = "idle" /\ NoCall.own = {}
  BY DEF NoCall
<1>3. i \in Known /\ Known' = Known /\ Between(a, i) /\ LabelsInv
  BY StandsAt DEF At, WellFormed, Known, Between, TasksInv
<1>4. TasksTyped'
  <2>1. steady' \in [Member -> SUBSET Issue]
    BY SteadyShrinks DEF TasksInv
  <2> QED BY <1>1, <1>3, <2>1 DEF TasksInv, TasksTyped
<1>5. SearchInv'
  <2>1. \A b \in Member : b # a => Covers(b, call[b])'
    BY <1>1, OthersCovered
  <2>2. Covers(a, call[a])'
    BY <1>1, <1>2, NotSearching
  <2> QED BY <2>1, <2>2 DEF SearchInv
<1>6. \A b \in Member, j \in Known : Between(b, j)' <=> Between(b, j) /\ b # a
  BY <1>1, <1>2 DEF Between, At
<1>7. LabelsInv'
  <2>1. \A j \in Known' : labels'[j] = {} \/ \E l \in Label : labels'[j] = {l}
    BY <1>3 DEF LabelsInv
  <2>2. \A j \in Known' : labels'[j] = {} => j \in orphaned' \/ \E b \in Member : Between(b, j)'
    <3> SUFFICES ASSUME NEW j \in Known, labels[j] = {}, j # i, j \notin orphaned
                 PROVE  \E b \in Member : Between(b, j)'
      BY <1>3
    <3>1. PICK b \in Member : Between(b, j)
      BY <1>3 DEF LabelsInv
    <3>2. b # a
      BY <3>1 DEF Between
    <3> QED BY <1>6, <3>1, <3>2
  <2>3. \A j \in orphaned' : labels'[j] = {}
    BY <1>3 DEF LabelsInv
  <2>4. \A b \in Member, j \in Known' : Between(b, j)' =>
          labels'[j] = {} /\ j \notin orphaned' /\ \A d \in Member : Between(d, j)' => d = b
    <3> SUFFICES ASSUME NEW b \in Member, NEW j \in Known, Between(b, j), b # a
                 PROVE  labels[j] = {} /\ j \notin orphaned' /\ \A d \in Member : Between(d, j)' => d = b
      BY <1>3, <1>6
    <3>1. labels[j] = {} /\ j \notin orphaned /\ \A d \in Member : Between(d, j) => d = b
      BY <1>3 DEF LabelsInv
    <3>2. j # i
      BY <1>3, <3>1
    <3> QED BY <1>6, <3>1, <3>2
  <2>5. \A b \in Member : At(b, "confirm")' => labels'[call'[b].id] = {b}
    BY <1>1, <1>2, <1>3 DEF LabelsInv, At
  <2>6. \A b \in Member : \A j \in call'[b].own : labels'[j] = {b}
    BY <1>1, <1>2, <1>3 DEF LabelsInv
  <2>7. \A b \in Member : cur'[b] # NoTask => labels'[cur'[b]] = {b} \/ b \in borrowed'
    BY <1>3 DEF LabelsInv
  <2> QED BY <2>1, <2>2, <2>3, <2>4, <2>5, <2>6, <2>7 DEF LabelsInv
<1> QED BY <1>1, <1>4, <1>5, <1>7 DEF TasksInv

LEMMA FailKeeps ==
  ASSUME TasksInv, SteadyMoves, NEW a \in Member, Fail(a) PROVE TasksInv'
<1>1. UNCHANGED <<created, open, labels, blockers, cur, borrowed>>
  BY DEF Fail, issueVars, trackVars
<1>2. budget' \in [calls : Nat, fails : Nat, edits : SUBSET SUBSET Change]
  <2>1. /\ budget \in [calls : Nat, fails : Nat, edits : SUBSET SUBSET Change] /\ budget.fails > 0
        /\ budget' = [budget EXCEPT !.fails = budget.fails - 1]
    BY StandsAt DEF Fail
  <2>2. budget.fails - 1 \in Nat
    BY <2>1
  <2> QED BY <2>1, <2>2
<1>3. CASE At(a, "current")
  <2>1. Goto(a, "list") /\ UNCHANGED orphaned
    BY <1>3 DEF Fail, At
  <2>2. /\ call[a] = [NoCall EXCEPT !.step = "current"] /\ steady[a] = {}
        /\ ~At(a, "label") /\ ~At(a, "list")
    BY <1>3, StandsAt DEF At, WellFormed
  <2>3. [call[a] EXCEPT !.step = "list"] = [NoCall EXCEPT !.step = "list"]
    BY <2>2 DEF NoCall
  <2>4. WellFormed([call[a] EXCEPT !.step = "list"], created) /\ "list" \in Waiting
    BY <2>3, StandsAt, NoCallIsOne DEF Waiting
  <2>5. /\ call' \in [Member -> ToolCall] /\ CallsInv' /\ call'[a] = [call[a] EXCEPT !.step = "list"]
        /\ \A b \in Member : b # a => call'[b] = call[b]
    BY <1>1, <2>1, <2>4, StandsAt, GotoKeeps
  <2>6. call'[a].step = "list" /\ call'[a].own = {}
    BY <2>3, <2>5 DEF NoCall
  <2>7. Covers(a, call[a])'
    BY <2>6, NotSearching
  <2> QED BY <1>1, <1>2, <2>1, <2>2, <2>5, <2>6, <2>7, StandsAt, IssuesStand
<1>4. CASE At(a, "link")
  <2>1. Goto(a, "abandon") /\ UNCHANGED orphaned
    BY <1>4 DEF Fail, At
  <2>2. /\ call[a] \in ToolCall /\ WellFormed(call[a], created) /\ steady[a] = {}
        /\ ~At(a, "label") /\ ~At(a, "list")
    BY <1>4, StandsAt DEF At
  <2> DEFINE r == [call[a] EXCEPT !.step = "abandon"]
  <2>3. /\ r.step = "abandon" /\ r.id = call[a].id /\ r.rest = {} /\ r.own = {} /\ r.offers = {}
    BY <1>4, <2>2 DEF ToolCall, WellFormed, At
  <2> HIDE DEF r
  <2>4. WellFormed(r, created) /\ "abandon" \in Waiting
    BY <1>4, <2>2, <2>3 DEF WellFormed, Waiting, At
  <2>5. /\ call' \in [Member -> ToolCall] /\ CallsInv' /\ call'[a] = r
        /\ \A b \in Member : b # a => call'[b] = call[b]
    BY <1>1, <2>1, <2>4, StandsAt, GotoKeeps DEF r
  <2>6. Covers(a, call[a])'
    BY <2>2, <2>3, <2>5, NotSearching
  <2> QED BY <1>1, <1>2, <2>1, <2>2, <2>3, <2>5, <2>6, StandsAt, IssuesStand
<1>5. CASE ~At(a, "current") /\ ~At(a, "link")
  <2>1. Return(a)
    BY <1>5 DEF Fail
  <2>2. CASE At(a, "label")
    <3>1. orphaned' = orphaned \cup {call[a].id}
      BY <2>2 DEF Fail
    <3> QED BY <1>1, <1>2, <2>1, <2>2, <3>1, FailBetween
  <2>3. CASE ~At(a, "label")
    <3>1. orphaned' = orphaned /\ open' \in SUBSET Known
      BY <1>1, <2>3, StandsAt DEF Fail, Typed
    <3> QED BY <1>1, <1>2, <2>1, <2>3, <3>1, EndKeeps
  <2> QED BY <2>2, <2>3
<1> QED BY <1>3, <1>4, <1>5

-----------------------------------------------------------------------------
LEMMA TasksInitHolds == TasksInit => TasksInv
<1> SUFFICES ASSUME TasksInit PROVE TasksInv
  OBVIOUS
<1> USE DEF TasksInit
<1>1. created = 0 /\ Known = {} /\ created \in 0..MaxIssues
  BY Constants DEF Known
<1>2. \A a \in Member : call[a] = NoCall
  OBVIOUS
<1>3. /\ NoCall \in ToolCall /\ WellFormed(NoCall, 0)
      /\ NoCall.step = "idle" /\ NoCall.own = {}
  BY NoCallIsOne DEF NoCall
<1>4. call \in [Member -> ToolCall]
  BY <1>3
<1>5. TasksTyped
  BY <1>1, <1>4, Constants DEF TasksTyped
<1>6. CallsInv
  BY <1>1, <1>2, <1>3 DEF CallsInv
<1>7. LabelsInv
  BY <1>1, <1>2, <1>3 DEF LabelsInv, At
<1>8. SearchInv
  BY <1>2, <1>3 DEF SearchInv, Covers
<1> QED BY <1>5, <1>6, <1>7, <1>8 DEF TasksInv

LEMMA TaskStepKeeps == ASSUME TasksInv, TasksNext PROVE TasksInv'
<1>1. SteadyMoves
  BY DEF TasksNext, SteadyMoves
<1>2. PICK a \in Member : TaskStep(a)
  BY DEF TasksNext
<1>3. CASE \E i \in Known, by \in Known \cup {NoTask}, ops \in budget.edits, act \in {"yes", "no", "auto"} :
             TodoUpdate(a, i, by, ops, act)
  BY <1>1, <1>3, TodoUpdateKeeps
<1>4. CASE \E label \in Label, by, dependent \in Known \cup {NoTask}, act \in {"yes", "no", "auto"} :
             TodoCreate(a, label, by, dependent, act)
  BY <1>1, <1>4, TodoCreateKeeps
<1>5. CASE TodoNext(a) \/ ShowCurrent(a) \/ ListIssues(a) \/ FetchIssue(a) \/ Pick(a)
  BY <1>1, <1>5, TodoNextKeeps, ShowCurrentKeeps, ListIssuesKeeps, FetchIssueKeeps, PickKeeps
<1>6. CASE ShowOffer(a) \/ Unlabel(a) \/ AddLabel(a) \/ Confirm(a)
  BY <1>1, <1>6, ShowOfferKeeps, UnlabelKeeps, AddLabelKeeps, ConfirmKeeps
<1>7. CASE TodoUpdateStep(a) \/ ShowDetail(a) \/ LinkIssue(a) \/ Abandon(a) \/ Fail(a)
  BY <1>1, <1>7, TodoUpdateStepKeeps, ShowDetailKeeps, LinkIssueKeeps, AbandonKeeps, FailKeeps
<1> QED BY <1>2, <1>3, <1>4, <1>5, <1>6, <1>7 DEF TaskStep

LEMMA TasksStutterKeeps == ASSUME TasksInv, UNCHANGED taskVars PROVE TasksInv'
<1>1. UNCHANGED <<created, open, labels, blockers, cur, borrowed, call, budget, orphaned, steady>>
  BY DEF taskVars, issueVars, trackVars
<1>2. TasksTyped' /\ CallsInv'
  BY <1>1 DEF TasksInv, TasksTyped, CallsInv, Known
<1>3. LabelsInv'
  BY <1>1 DEF TasksInv, LabelsInv, Known, Between, At
<1>4. SearchInv'
  BY <1>1 DEF TasksInv, SearchInv, Covers, Takeable, Ready
<1> QED BY <1>2, <1>3, <1>4 DEF TasksInv

LEMMA TasksInvHolds == Spec => []TasksInv
<1>1. Init => TasksInv
  BY TasksInitHolds DEF Init
<1>2. TasksInv /\ [Next]_vars => TasksInv'
  <2> SUFFICES ASSUME TasksInv, [Next]_vars PROVE TasksInv'
    OBVIOUS
  <2>1. TasksNext \/ UNCHANGED taskVars
    BY DEF Next, vars
  <2> QED BY <2>1, TaskStepKeeps, TasksStutterKeeps
<1> QED BY <1>1, <1>2, PTL DEF Spec

(* However the sessions of a group claim, create, close, reopen and link    *)
(* issues, and whichever call of chainlink fails, an issue carries one      *)
(* assignment label, but while a claim is between its two labels or after   *)
(* it has failed there, and a session tracks only what is labelled for it   *)
(* or was activated as it was (_claim_one, maybe_activate_task).            *)
THEOREM TasksAreClaimedOnce == Spec => []TasksAreHeldOnce
<1>1. TasksInv => TasksAreHeldOnce
  <2> SUFFICES ASSUME TasksInv PROVE TasksAreHeldOnce
    OBVIOUS
  <2>1. TasksTypeOK
    <3>1. /\ cur \in [Member -> Issue \cup {NoTask}] /\ orphaned \subseteq Issue
      <4>1. Known \subseteq Issue
        BY Constants DEF TasksInv, TasksTyped, Known, Issue
      <4> QED BY <4>1 DEF TasksInv, TasksTyped
    <3>2. \A a \in Member : call[a].step \in Waiting \cup {"idle", "pick"}
      BY DEF TasksInv, TasksTyped, ToolCall
    <3> QED BY <3>1, <3>2 DEF TasksInv, TasksTyped, TasksTypeOK
  <2>2. OneAssignment
    <3> SUFFICES ASSUME NEW i \in Known
                 PROVE  /\ Cardinality(labels[i]) <= 1
                        /\ labels[i] = {} => i \in orphaned \/ \E a \in Member : At(a, "label") /\ call[a].id = i
                        /\ \A a \in Member : cur[a] = i => labels[i] = {a} \/ a \in borrowed
      BY DEF OneAssignment
    <3>1. labels[i] = {} \/ \E l \in Label : labels[i] = {l}
      BY DEF TasksInv, LabelsInv
    <3>2. Cardinality(labels[i]) \in {0, 1}
      BY <3>1, FS_EmptySet, FS_Singleton
    <3>3. i # NoTask
      BY Constants DEF TasksInv, TasksTyped, Known, Issue
    <3> QED BY <3>2, <3>3 DEF TasksInv, LabelsInv, Between
  <2> QED BY <2>1, <2>2 DEF TasksAreHeldOnce
<1> QED BY <1>1, TasksInvHolds, PTL

(* One step is the step of one session's call.                              *)
LEMMA StepIsOfOne ==
  ASSUME TasksInv, NEW a \in Member, TaskStep(a)
  PROVE  \E r : call' = [call EXCEPT ![a] = r]
<1>1. call \in [Member -> ToolCall]
  BY StandsAt DEF Typed
<1>2. \A step : Goto(a, step) => \E r : call' = [call EXCEPT ![a] = r]
  BY DEF Goto
<1>3. Return(a) => \E r : call' = [call EXCEPT ![a] = r]
  BY DEF Return
<1>4. \A tracked : NextTask(a, tracked) => \E r : call' = [call EXCEPT ![a] = r]
  BY DEF NextTask
<1>5. (\E i : Track(a, i)) => \E r : call' = [call EXCEPT ![a] = r]
  BY <1>3 DEF Track
<1>6. CASE TodoNext(a) \/ ShowCurrent(a) \/ AddLabel(a) \/ Confirm(a) \/ Abandon(a) \/ Fail(a)
  BY <1>2, <1>3, <1>4, <1>5, <1>6 DEF TodoNext, ShowCurrent, AddLabel, Confirm, Abandon, Fail
<1>7. CASE ListIssues(a)
  BY <1>5, <1>7 DEF ListIssues
<1>8. CASE FetchIssue(a)
  BY <1>8 DEF FetchIssue
<1>9. CASE Pick(a)
  BY <1>5, <1>9 DEF Pick
<1>10. CASE ShowOffer(a) \/ Unlabel(a)
  BY <1>2, <1>3, <1>5, <1>10 DEF ShowOffer, Unlabel, Lost
<1>11. CASE TodoUpdateStep(a)
  <2>1. PICK op : Edit(a, op)
    BY <1>11 DEF TodoUpdateStep, EditStep
  <2> QED BY <2>1 DEF Edit
<1>12. CASE ShowDetail(a)
  BY <1>2, <1>3, <1>4, <1>12 DEF ShowDetail
<1>13. CASE LinkIssue(a)
  BY <1>13 DEF LinkIssue
<1>14. CASE \E i \in Known, by \in Known \cup {NoTask}, ops \in budget.edits, act \in {"yes", "no", "auto"} :
              TodoUpdate(a, i, by, ops, act)
  BY <1>14 DEF TodoUpdate
<1>15. CASE \E label \in Label, by, dependent \in Known \cup {NoTask}, act \in {"yes", "no", "auto"} :
              TodoCreate(a, label, by, dependent, act)
  BY <1>15 DEF TodoCreate
<1> QED BY <1>6, <1>7, <1>8, <1>9, <1>10, <1>11, <1>12, <1>13, <1>14, <1>15 DEF TaskStep

(* A TodoNext that ends with no task has not passed over one it could have  *)
(* taken all the time since it took the list: what it lost, another session *)
(* has taken (claim_next_ready_task, _claim_one).                           *)
THEOREM NothingReadyIsPassedOver == Spec => NothingReadyIsMissed
<1>1. TasksInv /\ [Next]_vars =>
        [\A a \in Member :
           /\ call[a].step \in {"pick", "show", "unlabel"} /\ call[a].then = "next"
           /\ call'[a].step = "idle" /\ cur'[a] = NoTask /\ budget' = budget
           => steady[a] = {}]_taskVars
  <2> SUFFICES ASSUME TasksInv, TasksNext, NEW a \in Member,
                      call[a].step \in {"pick", "show", "unlabel"}, call[a].then = "next",
                      call'[a].step = "idle", cur'[a] = NoTask, budget' = budget
               PROVE  steady[a] = {}
    BY DEF Next, vars
  <2>1. PICK b \in Member : TaskStep(b)
    BY DEF TasksNext
  <2>2. /\ call[a] \in ToolCall /\ WellFormed(call[a], created) /\ Covers(a, call[a])
        /\ call \in [Member -> ToolCall] /\ cur \in [Member -> Known \cup {NoTask}]
        /\ budget \in [calls : Nat, fails : Nat, edits : SUBSET SUBSET Change]
    BY StandsAt DEF Typed
  <2>3. b = a
    <3>1. \E r : call' = [call EXCEPT ![b] = r]
      BY <2>1, StepIsOfOne
    <3> QED BY <2>2, <3>1
  <2>4. CASE Pick(a)
    <3>1. call[a].own = {} \/ \E i \in call[a].own : Track(a, i)
      BY <2>4 DEF Pick
    <3>2. \A i \in call[a].own : ~Track(a, i)
      BY <2>2, Constants DEF Track, ToolCall
    <3>3. call[a].own = {} /\ call[a].rest = {} /\ call[a].step = "pick"
      BY <2>2, <2>4, <3>1, <3>2 DEF WellFormed, Pick, At
    <3>4. call[a].offers = {}
      <4> SUFFICES ASSUME call[a].offers # {} PROVE FALSE
        OBVIOUS
      <4>1. PICK i \in call[a].offers :
              call' = [call EXCEPT ![a].step = "show", ![a].id = i, ![a].offers = @ \ {i}]
        BY <2>4, <3>3 DEF Pick
      <4>2. call'[a].step = "show"
        BY <2>2, <4>1 DEF ToolCall
      <4> QED BY <4>2
    <3> QED BY <2>2, <3>3, <3>4 DEF Covers
  <2>5. CASE ShowOffer(a) \/ Unlabel(a)
    <3>1. \E step \in {"unlabel", "label", "pick"} : Goto(a, step)
      BY <2>5 DEF ShowOffer, Unlabel, Lost, AfterLost
    <3>2. call'[a].step \in {"unlabel", "label", "pick"}
      BY <2>2, <3>1 DEF Goto, ToolCall
    <3> QED BY <3>2
  <2>6. CASE Fail(a)
    <3>1. budget'.fails = budget.fails - 1
      BY <2>2, <2>6 DEF Fail
    <3> QED BY <2>2, <3>1
  <2> QED BY <2>1, <2>3, <2>4, <2>5, <2>6
          DEF TaskStep, TodoNext, Begin, ShowCurrent, ListIssues, FetchIssue, AddLabel, Confirm,
              TodoUpdate, TodoUpdateStep, EditStep, Edit, ShowDetail, TodoCreate, LinkIssue, Abandon, At
<1> QED BY <1>1, TasksInvHolds, PTL DEF NothingReadyIsMissed, Spec
=============================================================================
