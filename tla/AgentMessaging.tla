---------------------------- MODULE AgentMessaging ----------------------------
(***************************************************************************)
(* The scheduler of a session tree's agents (agents/policy.py): creating a  *)
(* subagent, sending it messages through the tree-wide AgentMessageQueue    *)
(* (agents/messaging.py), waking it, addressing it directly, and the        *)
(* end-of-turn decision of its worker thread whether to run on or finish.   *)
(*                                                                         *)
(* <<a, n>> is the worker thread of the n-th turn chain dispatched for      *)
(* agent a; the root's turn thread is RootWorker.  A step is one critical   *)
(* section of a dispatch guard's holder or of the message queue's lock.     *)
(***************************************************************************)
EXTENDS Naturals, Sequences, FiniteSets

CONSTANTS
  Agent,         \* ids of the subagents
  Root,          \* the tree's root session
  Setups,        \* bound: the trees to check
  Message,       \* bound: messages that can be sent
  MaxQueue,      \* AgentMessageQueue._max_size
  MaxPerParent,  \* tools.subagents.maxConcurrentPerParent
  MaxTotal,      \* tools.subagents.maxActiveTotal
  MaxChains,     \* bound: turn chains per agent
  MaxNudges,     \* tools.chat.maxMentionWakesPerSession
  Outside,       \* the outside thread as holder of a guard
  None

Session == Agent \cup {Root}

RootWorker == <<Root, 1>>
Worker == (Agent \X (1..MaxChains)) \cup {RootWorker}

ASSUME MessagingAssumption ==
  /\ IsFiniteSet(Agent)
  /\ Root \notin Agent
  /\ None \notin Session \cup Message \cup Worker
  /\ Outside \notin Worker \cup {None}
  /\ Setups \subseteq [parentOf : [Agent -> Session], existing : SUBSET Agent,
                      messages : SUBSET Message]
  /\ MaxQueue \in Nat \ {0}
  /\ MaxPerParent \in Nat \ {0}
  /\ MaxTotal \in Nat \ {0}
  /\ IsFiniteSet(Message)
  /\ MaxChains \in Nat
  /\ MaxChains > Cardinality(Message) + MaxNudges  \* so that it never bites
  /\ MaxNudges \in Nat

VARIABLES
  setup,    \* the tree of this behaviour, the agents that exist and are dormant
            \* at its start, and the messages that may be sent in it
  chain,    \* chain[a]: turn chains dispatched for a (0: a does not exist)
  state,    \* a's current handle: running, finished after a completed turn, or
            \* stopped (finished by a veto, an abort or a failure)
  queue,    \* AgentMessageQueue._entries: message ids in send order
  to,       \* recipient of each message sent
  local,    \* each agent's own _queued_messages
  guard,    \* holder of each session's dispatch_guard(), or None
  pc,       \* program counter of each worker
  purpose,  \* what a worker's wake attempt is for: "send", "relay" or "exit"
  target,   \* the agent a worker is waking or creating
  human,    \* the outside thread (direct message, chat mention) mid-dispatch
  nudges,   \* Channel._mention_wake_count
  got       \* history: how often each message reached its recipient's turn

agentVars == <<setup, chain, state, queue, to, local, guard, pc, purpose, target, human, nudges, got>>

ParentOf == setup.parentOf
Existing == setup.existing
Sent(m) == to[m] # None
Sendable(m) == m \in setup.messages /\ ~Sent(m)
CurrentWorker(a) == <<a, chain[a]>>
Running(a) == state[a] = "running"
Dormant(a) == state[a] \in {"finished", "stopped"}
Live(s) == IF s = Root THEN TRUE ELSE chain[s] > 0

(* The entries at some places of the queue, in send order: as the k-th, the *)
(* one with k - 1 of them before it.                                        *)
Entries(places) ==
  [k \in 1..Cardinality(places) |->
     queue[CHOOSE i \in places : Cardinality({j \in places : j < i}) = k - 1]]

PlacesOf(s) == {i \in 1..Len(queue) : to[queue[i]] = s}
HasPending(s) == PlacesOf(s) # {}
For(s) == Entries(PlacesOf(s))
Without(s) == Entries((1..Len(queue)) \ PlacesOf(s))

RunningCount(s) == Cardinality({a \in Agent : ParentOf[a] = s /\ Running(a)})
TotalActive == Cardinality({a \in Agent : Running(a)})
LimitsExceeded(s) == RunningCount(s) >= MaxPerParent \/ TotalActive >= MaxTotal

AgentsInit ==
  /\ setup \in Setups
  /\ chain = [a \in Agent |-> IF a \in Existing THEN 1 ELSE 0]
  /\ state = [a \in Agent |-> IF a \in Existing THEN "finished" ELSE "absent"]
  /\ queue = <<>>
  /\ to = [m \in Message |-> None]
  /\ local = [a \in Agent |-> <<>>]
  /\ guard = [s \in Session |-> None]
  /\ pc = [w \in Worker |-> IF w = RootWorker THEN "idle"
                            ELSE IF w[1] \in Existing /\ w[2] = 1 THEN "done" ELSE "none"]
  /\ purpose = [w \in Worker |-> "none"]
  /\ target = [w \in Worker |-> None]
  /\ human = [to |-> None, msg |-> None]
  /\ nudges = 0
  /\ got = [m \in Message |-> 0]

(* The messages in seq become the text of a turn of their recipient.        *)
Hand(seq) == got' = [m \in Message |->
                       IF \E i \in 1..Len(seq) : seq[i] = m THEN got[m] + 1 ELSE got[m]]

(* dispatch_subagent_turn: register the new handle and start its worker.    *)
Started(a) == /\ chain[a] < MaxChains
              /\ chain' = [chain EXCEPT ![a] = @ + 1]
              /\ state' = [state EXCEPT ![a] = "running"]

NewWorker(a) == <<a, chain[a] + 1>>

-----------------------------------------------------------------------------
(* CreateSubagent, in the creator's turn: the limits are checked first, the *)
(* child is constructed and only then registered; no guard is held.         *)

CreateCheck(w, a) ==
  /\ pc[w] = "turn"
  /\ ParentOf[a] = w[1]
  /\ chain[a] = 0
  /\ ~LimitsExceeded(w[1])
  /\ pc' = [pc EXCEPT ![w] = "create"]
  /\ target' = [target EXCEPT ![w] = a]
  /\ UNCHANGED <<setup, chain, state, queue, to, local, guard, purpose, human, nudges, got>>

CreateRegister(w) ==
  /\ pc[w] = "create"
  /\ Started(target[w])
  /\ pc' = [pc EXCEPT ![w] = "turn", ![NewWorker(target[w])] = "turn"]
  /\ target' = [target EXCEPT ![w] = None]
  /\ UNCHANGED <<setup, queue, to, local, guard, purpose, human, nudges, got>>

-----------------------------------------------------------------------------
(* SendMessage (deliver_or_queue_agent_message)                             *)

TryWake(w, why) ==
  /\ pc' = [pc EXCEPT ![w] = "peek"]
  /\ purpose' = [purpose EXCEPT ![w] = why]

(* An idle root with a host is given the message as its next turn.          *)
SendToIdleRoot(w, m) ==
  /\ pc[w] = "turn"
  /\ w # RootWorker
  /\ Sendable(m)
  /\ pc[RootWorker] = "idle"
  /\ to' = [to EXCEPT ![m] = Root]
  /\ pc' = [pc EXCEPT ![RootWorker] = "turn"]
  /\ Hand(<<m>>)
  /\ UNCHANGED <<setup, chain, state, queue, local, guard, purpose, target, human, nudges>>

(* Anyone else's message is queued (a full queue refuses it), then the      *)
(* sender tries to wake someone.                                            *)
Send(w, m, s) ==
  /\ pc[w] = "turn"
  /\ s # w[1]
  /\ Live(s)
  /\ s = Root => pc[RootWorker] # "idle"
  /\ Sendable(m)
  /\ Len(queue) < MaxQueue
  /\ queue' = Append(queue, m)
  /\ to' = [to EXCEPT ![m] = s]
  /\ TryWake(w, "send")
  /\ UNCHANGED <<setup, chain, state, local, guard, target, human, nudges, got>>

(* GetMessages in the recipient's own turn.                                 *)
(* Mutant: shows the messages and leaves them queued.                       *)
GetMessagesPeeking(w) ==
  /\ pc[w] = "turn"
  /\ HasPending(w[1])
  /\ Hand(For(w[1]))
  /\ UNCHANGED <<setup, chain, state, queue, to, local, guard, pc, purpose, target, human, nudges>>

GetMessages(w) ==
  /\ pc[w] = "turn"
  /\ HasPending(w[1])
  /\ Hand(For(w[1]))
  /\ queue' = Without(w[1])
  /\ UNCHANGED <<setup, chain, state, to, local, guard, pc, purpose, target, human, nudges>>

-----------------------------------------------------------------------------
(* try_wake_next_queued_agent, called by a sender, by the relay of an       *)
(* output to a dormant parent, and by a worker about to exit.               *)

(* Where the attempt returns to.                                            *)
WakeReturns(w, newPc) ==
  /\ pc' = [newPc EXCEPT ![w] = CASE purpose[w] = "send" -> "turn"
                                  [] purpose[w] = "relay" -> "peek"
                                  [] purpose[w] = "exit" -> "done"]
  /\ purpose' = [purpose EXCEPT ![w] = IF @ = "relay" THEN "exit" ELSE "none"]
  /\ target' = [target EXCEPT ![w] = None]

(* peek_next_dormant_candidate: the first recipient in send order that is a *)
(* finished subagent.                                                       *)
Candidates == {i \in 1..Len(queue) : to[queue[i]] \in Agent /\ Dormant(to[queue[i]])}
Oldest == CHOOSE i \in Candidates : \A j \in Candidates : i <= j

Candidate == to[queue[Oldest]]

WakePeek(w) ==
  /\ pc[w] = "peek"
  /\ IF Candidates = {}
       THEN WakeReturns(w, pc)
       ELSE /\ pc' = [pc EXCEPT ![w] = "named"]
            /\ target' = [target EXCEPT ![w] = Candidate]
            /\ UNCHANGED purpose
  /\ UNCHANGED <<setup, chain, state, queue, to, local, guard, human, nudges, got>>

(* Under the candidate's parent's dispatch guard: still dormant, and room?  *)
(* Mutant: the limits are not looked at again.                              *)
WakeableUnlimited(a) == Dormant(a)

Wakeable(a) == Dormant(a) /\ ~LimitsExceeded(ParentOf[a])

WakeCheck(w) ==
  LET p == ParentOf[target[w]] IN
  /\ pc[w] = "named"
  /\ guard[p] = None
  /\ IF Wakeable(target[w])
       THEN /\ guard' = [guard EXCEPT ![p] = w]
            /\ pc' = [pc EXCEPT ![w] = "held"]
            /\ UNCHANGED <<setup, purpose, target>>
       ELSE /\ WakeReturns(w, pc)
            /\ UNCHANGED guard
  /\ UNCHANGED <<setup, chain, state, queue, to, local, human, nudges, got>>

(* Pop the recipient's messages; unless somebody else already has, dispatch *)
(* its next turn with them.                                                 *)
WakeDispatch(w) ==
  LET a == target[w] IN
  /\ pc[w] = "held"
  /\ IF HasPending(a)
       THEN /\ Started(a)
            /\ Hand(For(a))
            /\ queue' = Without(a)
            /\ WakeReturns(w, [pc EXCEPT ![NewWorker(a)] = "turn"])
       ELSE /\ WakeReturns(w, pc)
            /\ UNCHANGED <<setup, chain, state, queue, got>>
  /\ guard' = [guard EXCEPT ![ParentOf[a]] = None]
  /\ UNCHANGED <<setup, to, local, human, nudges>>

-----------------------------------------------------------------------------
(* The worker of a subagent's turn chain                                    *)

(* Between tool rounds and between turns the worker drains its own queued   *)
(* messages (deliver_queued_user_message, drain_next_turn_text).            *)
DrainLocal(w) ==
  /\ pc[w] = "turn"
  /\ w # RootWorker
  /\ local[w[1]] # <<>>
  /\ Hand(local[w[1]])
  /\ local' = [local EXCEPT ![w[1]] = <<>>]
  /\ UNCHANGED <<setup, chain, state, queue, to, guard, pc, purpose, target, human, nudges>>

(* A completed turn: under the guard, whatever is queued locally or in the  *)
(* tree becomes one more turn ...                                           *)
EndDrain(w) ==
  LET a == w[1] IN
  /\ w # RootWorker
  /\ pc[w] = "turn"
  /\ guard[ParentOf[a]] = None
  /\ \/ /\ local[a] # <<>>
        /\ Hand(local[a])
        /\ local' = [local EXCEPT ![a] = <<>>]
        /\ UNCHANGED <<setup, guard, pc, queue>>
     \/ /\ local[a] = <<>>
        /\ HasPending(a)
        /\ Hand(For(a))
        /\ queue' = Without(a)
        /\ UNCHANGED <<setup, guard, pc, local>>
     \/ /\ local[a] = <<>>
        /\ ~HasPending(a)
        /\ guard' = [guard EXCEPT ![ParentOf[a]] = w]
        /\ pc' = [pc EXCEPT ![w] = "ending"]
        /\ UNCHANGED <<setup, local, got, queue>>
  /\ UNCHANGED <<setup, chain, state, to, purpose, target, human, nudges>>

(* ... and with both queues empty the chain is marked finished, the guard   *)
(* released, and the freed slot offered on.                                 *)
EndMark(w) ==
  /\ pc[w] = "ending"
  /\ state' = [state EXCEPT ![w[1]] = "finished"]
  /\ guard' = [guard EXCEPT ![ParentOf[w[1]]] = None]
  /\ pc' = [pc EXCEPT ![w] = "relay"]
  /\ UNCHANGED <<setup, chain, queue, to, local, purpose, target, human, nudges, got>>

(* A vetoed, aborted or failed chain is marked finished without the guard   *)
(* and without looking at either queue.                                     *)
EndStopped(w) ==
  /\ w # RootWorker
  /\ pc[w] = "turn"
  /\ state' = [state EXCEPT ![w[1]] = "stopped"]
  /\ pc' = [pc EXCEPT ![w] = "relay"]
  /\ UNCHANGED <<setup, chain, queue, to, local, guard, purpose, target, human, nudges, got>>

(* _relay_completion_to_parent: the output goes to a parent that is itself  *)
(* a subagent without a turn in flight as one more message.  What happens   *)
(* with any other parent is SubagentTracker's subject.                      *)
Relay(w, m) ==
  LET p == ParentOf[w[1]] IN
  /\ pc[w] = "relay"
  /\ p # Root
  /\ ~Running(p)
  /\ Sendable(m)
  /\ Len(queue) < MaxQueue
  /\ queue' = Append(queue, m)
  /\ to' = [to EXCEPT ![m] = p]
  /\ TryWake(w, "relay")
  /\ UNCHANGED <<setup, chain, state, local, guard, target, human, nudges, got>>

(* Nothing to relay: one last wake attempt, then the thread exits.          *)
(* Mutant: it exits at once.                                                *)
NoRelayThenDone(w) ==
  /\ pc[w] = "relay"
  /\ pc' = [pc EXCEPT ![w] = "done"]
  /\ UNCHANGED <<setup, chain, state, queue, to, local, guard, purpose, target, human, nudges, got>>

NoRelay(w) ==
  /\ pc[w] = "relay"
  /\ TryWake(w, "exit")
  /\ UNCHANGED <<setup, chain, state, queue, to, local, guard, target, human, nudges, got>>

-----------------------------------------------------------------------------
(* The outside thread: a human addressing a subagent directly               *)
(* (dispatch_direct_message), an event (_deliver_event_to_subagent), or a   *)
(* chat mention (notify_chat_mention).  A running agent gets the text in    *)
(* its local queue; a dormant one is dispatched, if the limits allow.       *)

(* Mutant: the state is read without the guard.                             *)
DirectToRunningUnguarded(a, m) ==
  /\ human.to = None
  /\ Running(a)
  /\ Sendable(m)
  /\ local' = [local EXCEPT ![a] = Append(@, m)]
  /\ to' = [to EXCEPT ![m] = a]
  /\ UNCHANGED <<setup, chain, state, queue, guard, pc, purpose, target, human, nudges, got>>

DirectToRunning(a, m) ==
  /\ human.to = None
  /\ guard[ParentOf[a]] = None
  /\ Running(a)
  /\ Sendable(m)
  /\ local' = [local EXCEPT ![a] = Append(@, m)]
  /\ to' = [to EXCEPT ![m] = a]
  /\ UNCHANGED <<setup, chain, state, queue, guard, pc, purpose, target, human, nudges, got>>

DirectCheck(a, m) ==
  /\ human.to = None
  /\ guard[ParentOf[a]] = None
  /\ Wakeable(a)
  /\ Sendable(m)
  /\ guard' = [guard EXCEPT ![ParentOf[a]] = Outside]
  /\ human' = [to |-> a, msg |-> m]
  /\ to' = [to EXCEPT ![m] = a]
  /\ UNCHANGED <<setup, chain, state, queue, local, pc, purpose, target, nudges, got>>

NudgeCheck(a) ==
  /\ human.to = None
  /\ nudges < MaxNudges
  /\ guard[ParentOf[a]] = None
  /\ Wakeable(a)
  /\ guard' = [guard EXCEPT ![ParentOf[a]] = Outside]
  /\ human' = [to |-> a, msg |-> None]
  /\ nudges' = nudges + 1
  /\ UNCHANGED <<setup, chain, state, queue, to, local, pc, purpose, target, got>>

OutsideDispatch ==
  /\ human.to # None
  /\ Started(human.to)
  /\ pc' = [pc EXCEPT ![NewWorker(human.to)] = "turn"]
  /\ Hand(IF human.msg = None THEN <<>> ELSE <<human.msg>>)
  /\ guard' = [guard EXCEPT ![ParentOf[human.to]] = None]
  /\ human' = [to |-> None, msg |-> None]
  /\ UNCHANGED <<setup, queue, to, local, purpose, target, nudges>>

(* The root's own turns.                                                    *)
RootStarts ==
  /\ pc[RootWorker] = "idle"
  /\ pc' = [pc EXCEPT ![RootWorker] = "turn"]
  /\ UNCHANGED <<setup, chain, state, queue, to, local, guard, purpose, target, human, nudges, got>>

RootEnds ==
  /\ pc[RootWorker] = "turn"
  /\ pc' = [pc EXCEPT ![RootWorker] = "idle"]
  /\ UNCHANGED <<setup, chain, state, queue, to, local, guard, purpose, target, human, nudges, got>>

-----------------------------------------------------------------------------
WakeStep(w) == WakePeek(w) \/ WakeCheck(w) \/ WakeDispatch(w)
EndStep(w) == EndDrain(w) \/ EndMark(w) \/ NoRelay(w)

AgentsNext ==
  \/ \E w \in Worker :
       \/ \E a \in Agent : CreateCheck(w, a)
       \/ CreateRegister(w)
       \/ \E m \in Message : SendToIdleRoot(w, m) \/ Relay(w, m)
       \/ \E m \in Message, s \in Session : Send(w, m, s)
       \/ GetMessages(w)
       \/ WakeStep(w)
       \/ DrainLocal(w)
       \/ EndStep(w)
       \/ EndStopped(w)
  \/ \E a \in Agent, m \in Message : DirectToRunning(a, m) \/ DirectCheck(a, m)
  \/ \E a \in Agent : NudgeCheck(a)
  \/ OutsideDispatch
  \/ RootStarts
  \/ RootEnds

(* Threads run, guards are released, and a turn that is not sent more work  *)
(* comes to its end.                                                        *)
AgentsFairness ==
  /\ \A w \in Worker : WF_agentVars(WakeStep(w) \/ EndStep(w) \/ CreateRegister(w))
  /\ WF_agentVars(OutsideDispatch)

-----------------------------------------------------------------------------
RunningPC == {"turn", "create", "ending"}

(* Every variable keeps its range.                                          *)
AgentsTypeOK ==
  /\ setup \in Setups
  /\ chain \in [Agent -> 0..MaxChains]
  /\ state \in [Agent -> {"absent", "running", "finished", "stopped"}]
  /\ queue \in Seq(Message)
  /\ to \in [Message -> Session \cup {None}]
  /\ local \in [Agent -> Seq(Message)]
  /\ guard \in [Session -> Worker \cup {Outside, None}]
  /\ pc \in [Worker -> {"none", "idle", "turn", "create", "peek", "named", "held",
                        "ending", "relay", "done"}]
  /\ purpose \in [Worker -> {"none", "send", "relay", "exit"}]
  /\ target \in [Worker -> Agent \cup {None}]
  /\ human \in [to : Agent \cup {None}, msg : Message \cup {None}]
  /\ nudges \in 0..MaxNudges
  /\ got \in [Message -> Nat]

InTurn(w) == pc[w] \in RunningPC \/ (pc[w] \in {"peek", "named", "held"} /\ purpose[w] = "send")

(* No agent's conversation is ever driven by two threads at once, and the   *)
(* tracker says "running" exactly while one drives it.                      *)
OneChainPerAgent ==
  \A a \in Agent :
    /\ \A n \in 1..MaxChains : InTurn(<<a, n>>) => n = chain[a]
    /\ Running(a) <=> chain[a] > 0 /\ InTurn(CurrentWorker(a))

(* A message is queued once, or was handed over once, never both, and is    *)
(* not lost on the way.                                                     *)
Queued(m) == Cardinality({i \in 1..Len(queue) : queue[i] = m})
QueuedLocally(m) == Cardinality({ai \in Agent \X (1..Cardinality(Message)) :
                      ai[2] <= Len(local[ai[1]]) /\ local[ai[1]][ai[2]] = m})
MessageConserved ==
  \A m \in Message : Sent(m) =>
    Queued(m) + QueuedLocally(m) + got[m] + (IF human.msg = m THEN 1 ELSE 0) = 1

(* "the most subagents any single session may have running at once"         *)
(* (docs/specs/subagents.md): wake-ups and direct messages keep the limit,  *)
(* because they re-check it under the parent's guard.  CreateSubagent does  *)
(* not, so this is about the sessions whose subagents all exist beforehand.  *)
PerParentLimit ==
  \A s \in Session :
    (\A a \in Agent : ParentOf[a] = s => a \in Existing) => RunningCount(s) <= MaxPerParent

(* Creation, messages and nudges agree on who runs: every slot is taken by  *)
(* one thread, the tracker names it, and wake-ups keep to the limit.        *)
SlotsAreSound == AgentsTypeOK /\ OneChainPerAgent /\ PerParentLimit

(* A text queued on an agent itself is there while a worker will drain it,  *)
(* unless the agent's last chain was vetoed, aborted or failed.             *)
NothingStrandsLocally ==
  \A a \in Agent : local[a] # <<>> => Running(a) \/ state[a] = "stopped"

(* Every message queued for a subagent eventually reaches one of its turns: *)
(* waking is starvation-free (docs/specs/subagents.md), because whoever     *)
(* frees a slot offers it on before its thread exits.                       *)
MessagesReachAgents ==
  \A m \in Message : (to[m] \in Agent /\ Queued(m) = 1) ~> (got[m] = 1)
=============================================================================
