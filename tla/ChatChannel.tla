----------------------------- MODULE ChatChannel -----------------------------
(***************************************************************************)
(* The chat room of a session tree: Channel (agents/chat.py) with the       *)
(* threads that post to it and read it (tools/chat/, the user's composer),  *)
(* the wake attempts of @mentions (notify_chat_mention), the thread that    *)
(* saves it at the end of a root turn (session/mixins/persistence.py), and  *)
(* a restart that restores the session from what was saved                  *)
(* (session/restore.py).                                                    *)
(*                                                                         *)
(* A message is its sequence number.  A step is one critical section of     *)
(* Channel._lock, one counter operation, or one file replacement.           *)
(***************************************************************************)
EXTENDS Integers, FiniteSets

CONSTANTS
  Agent,           \* ids of the subagents
  Root, User,      \* the root session and CHAT_USER_ID
  MaxHistory,      \* tools.chat.maxHistory
  MaxReadPerCall,  \* tools.chat.maxReadPerCall
  Limit,           \* the limit arguments a model may pass to ReadChat
  Setups,          \* the values of tools.chat.maxMentionWakesPerSession, each with
                   \* a bound on the messages posted
  NoMark           \* a participant without a high-water mark

Participant == Agent \cup {Root, User}

ASSUME ChannelAssumption ==
  /\ Root # User
  /\ Root \notin Agent
  /\ User \notin Agent
  /\ IsFiniteSet(Agent)
  /\ MaxHistory \in Nat \ {0}
  /\ MaxReadPerCall \in Nat
  /\ Limit \subseteq Int
  /\ Setups \subseteq [wakes : Nat, posts : Nat]
  /\ NoMark \notin Int

VARIABLES
  setup,     \* the configuration of this behaviour
  messages,  \* Channel._messages: the retained sequence numbers
  nextSeq,   \* Channel._next_seq: the last number given out
  hwm,       \* Channel._hwm, NoMark where a participant has none
  wakes,     \* Channel._mention_wake_count
  dirty,     \* Channel._dirty
  live,      \* participants this process knows
  pc,        \* each participant's thread inside notify_chat_mention
  saver,     \* the saving thread
  snap,      \* the snapshot that thread holds (Fresh when it holds none)
  disk,      \* chat.json
  joined,    \* history: the mark a participant was registered with
  seen       \* history: what was returned to, or written by, a participant

channelVars == <<messages, nextSeq, hwm, wakes, dirty>>
chatVars == <<setup, channelVars, live, pc, saver, snap, disk, joined, seen>>

MaxMentionWakes == setup.wakes
MaxPosts == setup.posts

Mark(p) == IF hwm[p] = NoMark THEN 0 ELSE hwm[p]
UnreadCount(p) == IF nextSeq >= Mark(p) THEN nextSeq - Mark(p) ELSE 0
Unread(p) == {s \in messages : s > Mark(p)}

Snapshot == [messages |-> messages, nextSeq |-> nextSeq, hwm |-> hwm, wakes |-> wakes]
OnlyRoot(mark) == [p \in Participant |-> IF p = Root THEN mark ELSE NoMark]

(* A new root session: a fresh channel in which it has registered itself,   *)
(* which no chat.json holds yet.                                            *)
Fresh == [messages |-> {}, nextSeq |-> 0, hwm |-> OnlyRoot(0), wakes |-> 0]

ChatInit ==
  /\ setup \in Setups
  /\ messages = {}
  /\ nextSeq = 0
  /\ hwm = OnlyRoot(0)
  /\ wakes = 0
  /\ dirty = TRUE
  /\ live = {Root}
  /\ pc = [p \in Participant |-> "idle"]
  /\ saver = "idle"
  /\ snap = Fresh
  /\ disk = [written |-> FALSE, state |-> Fresh]
  /\ joined = OnlyRoot(0)
  /\ seen = [p \in Participant |-> {}]

-----------------------------------------------------------------------------

(* register_participant: every new session under its fresh id, and the user *)
(* whenever the room is opened; a participant with a mark keeps it.         *)
Register(p) ==
  /\ p \in live => p = User
  /\ p \in Agent => hwm[p] = NoMark
  /\ live' = live \cup {p}
  /\ IF hwm[p] = NoMark
       THEN /\ hwm' = [hwm EXCEPT ![p] = nextSeq]
            /\ joined' = [joined EXCEPT ![p] = nextSeq]
            /\ dirty' = TRUE
       ELSE UNCHANGED <<hwm, joined, dirty>>
  /\ UNCHANGED <<setup, messages, nextSeq, wakes, pc, saver, snap, disk, seen>>

(* post: _messages[-max_history:] keeps the newest MaxHistory messages.     *)
Trimmed(all) == {s \in all : Cardinality({t \in all : t > s}) < MaxHistory}

(* The sender's own mark moves only if it had read everything before.       *)
(* Mutant: it always moves.                                                 *)
AdvancesAlways(p) == TRUE

AdvancesOwnMark(p) == Mark(p) = nextSeq

Post(p, mentions) ==
  LET seq == nextSeq + 1 IN
  /\ p \in live
  /\ pc[p] = "idle"
  /\ nextSeq < MaxPosts
  /\ nextSeq' = seq
  /\ messages' = Trimmed(messages \cup {seq})
  /\ hwm' = IF AdvancesOwnMark(p) THEN [hwm EXCEPT ![p] = seq] ELSE hwm
  /\ dirty' = TRUE
  /\ seen' = [seen EXCEPT ![p] = @ \cup {seq}]
  /\ pc' = [pc EXCEPT ![p] = IF mentions THEN "mention" ELSE "idle"]
  /\ UNCHANGED <<setup, wakes, live, saver, snap, disk, joined>>

(* The Python slice unread[:limit] of a list in ascending order.            *)
Slice(unread, limit) ==
  IF limit >= 0 THEN {s \in unread : Cardinality({t \in unread : t < s}) < limit}
                ELSE {s \in unread : Cardinality({t \in unread : t > s}) >= 0 - limit}

Newest(batch) == CHOOSE s \in batch : \A t \in batch : t <= s

(* ReadChat: read_and_advance with the smaller of the asked and the         *)
(* configured limit.                                                        *)
Capped(limit) == IF limit < MaxReadPerCall THEN limit ELSE MaxReadPerCall

(* Mutant: the mark moves to the number of messages returned.               *)
NewMarkCounted(batch) == Cardinality(batch)

NewMark(batch) == Newest(batch)

Read(p, limit) ==
  LET batch == Slice(Unread(p), Capped(limit)) IN
  /\ p \in live \ {User}
  /\ pc[p] = "idle"
  /\ batch # {}
  /\ hwm' = [hwm EXCEPT ![p] = NewMark(batch)]
  /\ seen' = [seen EXCEPT ![p] = @ \cup batch]
  /\ dirty' = TRUE
  /\ UNCHANGED <<setup, messages, nextSeq, wakes, live, pc, saver, snap, disk, joined>>

-----------------------------------------------------------------------------
(* notify_chat_mention, once per mention of the message: the count is       *)
(* compared with the cap first, and recorded only after the wake.           *)

(* Mutant: the cap is not looked at.                                        *)
WakeAllowedAlways == TRUE

WakeAllowed == wakes < MaxMentionWakes

CheckWakes(p) ==
  /\ pc[p] = "mention"
  /\ WakeAllowed
  /\ pc' = [pc EXCEPT ![p] = "waking"]
  /\ UNCHANGED <<setup, channelVars, live, saver, snap, disk, joined, seen>>

(* The wake happened: count it, and go on to the next mention.  No lock of  *)
(* the channel is taken and the channel is not marked dirty.                *)
RecordMentionWake(p) ==
  /\ pc[p] = "waking"
  /\ wakes' = wakes + 1
  /\ pc' = [pc EXCEPT ![p] = "mention"]
  /\ UNCHANGED <<setup, messages, nextSeq, hwm, dirty, live, saver, snap, disk, joined, seen>>

(* The mentioned session is gone, running or out of room, the cap is        *)
(* reached, or that was the last mention.                                   *)
StopNotifying(p) ==
  /\ pc[p] \in {"mention", "waking"}
  /\ pc' = [pc EXCEPT ![p] = "idle"]
  /\ UNCHANGED <<setup, channelVars, live, saver, snap, disk, joined, seen>>

-----------------------------------------------------------------------------
(* _write_session_state_and_touch                                           *)

SaveCheck ==
  /\ saver = "idle"
  /\ dirty
  /\ saver' = "dirty"
  /\ UNCHANGED <<setup, channelVars, live, pc, snap, disk, joined, seen>>

SaveSnapshot ==
  /\ saver = "dirty"
  /\ snap' = Snapshot
  /\ saver' = "snapped"
  /\ UNCHANGED <<setup, channelVars, live, pc, disk, joined, seen>>

(* write_versioned_json replaces the file as a whole, or fails and raises.  *)
SaveWrite ==
  /\ saver = "snapped"
  /\ \/ /\ disk' = [written |-> TRUE, state |-> snap]
        /\ saver' = "written"
     \/ /\ saver' = "idle"
        /\ UNCHANGED disk
  /\ snap' = Fresh
  /\ UNCHANGED <<setup, channelVars, live, pc, joined, seen>>

MarkPersisted ==
  /\ saver = "written"
  /\ dirty' = FALSE
  /\ saver' = "idle"
  /\ UNCHANGED <<setup, messages, nextSeq, hwm, wakes, live, pc, snap, disk, joined, seen>>

(* The process ends, at any point, and the session is restored: subagents   *)
(* are gone, the channel is what chat.json holds.                           *)
Restart ==
  LET s == disk.state IN
  /\ messages' = s.messages
  /\ nextSeq' = s.nextSeq
  /\ hwm' = s.hwm
  /\ wakes' = s.wakes
  /\ dirty' = ~disk.written
  /\ live' = {Root}
  /\ pc' = [p \in Participant |-> "idle"]
  /\ saver' = "idle"
  /\ joined' = [p \in Participant |-> IF s.hwm[p] = NoMark THEN NoMark ELSE joined[p]]
  /\ seen' = [p \in Participant |-> {t \in seen[p] : t <= s.nextSeq}]
  /\ snap' = Fresh
  /\ UNCHANGED <<setup, disk>>

-----------------------------------------------------------------------------
Save == SaveCheck \/ SaveSnapshot \/ SaveWrite \/ MarkPersisted

Chat(p) ==
  \/ Register(p)
  \/ \E mentions \in BOOLEAN : Post(p, mentions)
  \/ \E limit \in Limit : Read(p, limit)
  \/ CheckWakes(p)
  \/ RecordMentionWake(p)
  \/ StopNotifying(p)

ChatNext == (\E p \in Participant : Chat(p)) \/ Save \/ Restart

-----------------------------------------------------------------------------
SavedState == [messages : SUBSET (1..MaxPosts), nextSeq : 0..MaxPosts,
               hwm : [Participant -> (0..MaxPosts) \cup {NoMark}], wakes : Nat]

(* Every variable keeps its range.                                          *)
ChatTypeOK ==
  /\ setup \in Setups
  /\ messages \in SUBSET (1..MaxPosts)
  /\ nextSeq \in 0..MaxPosts
  /\ hwm \in [Participant -> (0..MaxPosts) \cup {NoMark}]
  /\ wakes \in Nat
  /\ dirty \in BOOLEAN
  /\ live \in SUBSET Participant
  /\ pc \in [Participant -> {"idle", "mention", "waking"}]
  /\ saver \in {"idle", "dirty", "snapped", "written"}
  /\ snap \in SavedState
  /\ disk \in [written : BOOLEAN, state : SavedState]
  /\ joined \in [Participant -> (0..MaxPosts) \cup {NoMark}]
  /\ seen \in [Participant -> SUBSET (1..MaxPosts)]

(* A read position never passes over a retained message: whatever was       *)
(* posted after a participant joined and lies at or below its mark was      *)
(* returned to it or written by it, through posts, limited reads, trims,    *)
(* snapshots and restarts.                                                  *)
NoneSkippedIn(s) ==
  \A p \in Participant : s.hwm[p] # NoMark =>
    \A m \in s.messages : joined[p] < m /\ m <= s.hwm[p] => m \in seen[p]

NothingSkipped == NoneSkippedIn(Snapshot)

(* The ChatUnread reminder and ReadChat agree: a participant is reminded    *)
(* exactly while a read without a limit would return something.             *)
RemindedIffReadable ==
  \A p \in Participant : UnreadCount(p) > 0 <=> Unread(p) # {}

(* The read marks are right in both directions: they pass over nothing and  *)
(* leave nothing behind that a reminder would announce and no read return.  *)
MarksAreSound == ChatTypeOK /\ NothingSkipped /\ RemindedIffReadable

(* A participant's mark never moves back while the process lives, so no     *)
(* message is returned to it a second time.                                 *)
MarksOnlyAdvance ==
  [][~Restart => \A p \in Participant : hwm[p] # NoMark =>
       hwm'[p] # NoMark /\ hwm'[p] >= hwm[p]]_chatVars

(* The cap on mention wakes is exceeded by at most one wake per thread that *)
(* was already past the check.                                              *)
WakeOvershootIsBounded ==
  wakes + Cardinality({p \in Participant : pc[p] = "waking"})
    <= MaxMentionWakes + Cardinality(Participant) - 1

=============================================================================
