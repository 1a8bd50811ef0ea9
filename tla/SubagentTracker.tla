--------------------------- MODULE SubagentTracker ---------------------------
(***************************************************************************)
(* One session's SubagentTracker (agents/runtime.py) together with the     *)
(* threads that use it: the worker thread of every dispatched subagent     *)
(* turn (agents/policy.py, dispatch_subagent_turn), the parent session's   *)
(* own turn thread inside WaitForSubagent (tools/subagents/wait.py), and   *)
(* the thread that closes the parent (cascade_close_subagents).            *)
(*                                                                         *)
(* A handle <<c, n>> is the SubagentHandle of the n-th turn chain that was *)
(* dispatched for child c.  The tracker's _handles dict keeps only the     *)
(* newest one; the completion queue may still hold older ones.             *)
(*                                                                         *)
(* A step is one critical section of the tracker's _lock, one operation of *)
(* the completion queue, or one unlocked read another thread can race.     *)
(***************************************************************************)
EXTENDS Naturals, Sequences

CONSTANTS
  Child,       \* ids of the subagents the session has created or may create
  MaxTurns,    \* bound: turn chains dispatched per child
  ParentKind,  \* "host": root with a wake handler; "bare": root without one;
               \* "subagent": the tracker's owner is itself a subagent
  Closing,     \* whether the session may be closed
  NoHandle     \* stands for None

ASSUME TrackerAssumption ==
  /\ MaxTurns \in Nat \ {0}
  /\ ParentKind \in {"host", "bare", "subagent"}
  /\ Closing \in BOOLEAN
  /\ NoHandle \notin Child \X (1..MaxTurns)

Handle == Child \X (1..MaxTurns)

VARIABLES
  gen,         \* gen[c]: turn chains dispatched for c; _handles[c] is <<c, gen[c]>>
  outcome,     \* SubagentHandle.outcome, "none" while running
  delivered,   \* SubagentHandle.delivered
  interested,  \* SubagentHandle.parent_interested
  queue,       \* _completion_queue
  guard,       \* the handle whose worker holds dispatch_guard(), or NoHandle
  pc,          \* program counter of each handle's worker thread
  held,        \* the handle a worker put/claimed and still has in a local variable
  phase,       \* the parent: "idle", "turn" (handlers set), "between" (its own
               \* worker runs but no turn is in flight)
  wait,        \* the parent's thread in WaitForSubagent
  popped,      \* the entry that thread took off the queue and has not yet checked
  mailbox,     \* copies of a completion waiting in the tree's AgentMessageQueue
  closer,      \* the closing thread's progress over each child
  closing,     \* the handle of each child in that thread's snapshot
  received,    \* history: times a handle's output was handed to the parent
  released     \* history: handles whose relay claim was released at least once

trackerVars == <<gen, outcome, delivered, interested, queue>>
threadVars  == <<guard, pc, held>>
parentVars  == <<phase, wait, popped, mailbox>>
historyVars == <<received, released>>
closerVars  == <<closer, closing>>
vars == <<trackerVars, threadVars, parentVars, closerVars, historyVars>>

Current(c) == <<c, gen[c]>>
Finished(h) == outcome[h] # "none"
Dispatched(h) == h[2] <= gen[h[1]]
InQueue(h) == \E i \in 1..Len(queue) : queue[i] = h

Init ==
  /\ gen = [c \in Child |-> 0]
  /\ outcome = [h \in Handle |-> "none"]
  /\ delivered = [h \in Handle |-> FALSE]
  /\ interested = [h \in Handle |-> FALSE]
  /\ queue = <<>>
  /\ guard = NoHandle
  /\ pc = [h \in Handle |-> "none"]
  /\ held = [h \in Handle |-> NoHandle]
  /\ phase = "idle"
  /\ wait = "out"
  /\ popped = NoHandle
  /\ mailbox = [h \in Handle |-> 0]
  /\ closer = [c \in Child |-> "open"]
  /\ closing = [c \in Child |-> NoHandle]
  /\ received = [h \in Handle |-> 0]
  /\ released = {}

-----------------------------------------------------------------------------
(* Dispatching a turn (dispatch_subagent_turn): register the handle, start  *)
(* the worker.                                                              *)

Dispatch(c, byParent) ==
  LET h == <<c, gen[c] + 1>> IN
  /\ gen[c] < MaxTurns
  /\ gen' = [gen EXCEPT ![c] = @ + 1]
  /\ interested' = [interested EXCEPT ![h] = byParent]
  /\ pc' = [pc EXCEPT ![h] = "running"]
  /\ UNCHANGED <<outcome, delivered, queue, guard, held, parentVars, closerVars, historyVars>>

(* CreateSubagent, a tool call of the parent's own turn.                    *)
Create(c) ==
  /\ phase = "turn"
  /\ wait = "out"
  /\ gen[c] = 0
  /\ Dispatch(c, TRUE)

(* Every other dispatch checks the current handle under dispatch_guard():   *)
(* a woken message (interested if the parent sent one), a human's direct    *)
(* message, a chat mention or an event (not interested).                    *)
(* Mutant: the current handle's state is not looked at again.               *)
ResumableUnchecked(c) == gen[c] > 0

Resumable(c) == gen[c] > 0 /\ Finished(Current(c))

Resume(c, byParent) ==
  /\ guard = NoHandle
  /\ Resumable(c)
  /\ Dispatch(c, byParent)

(* A message of the parent reached the running child (GetMessages, or the  *)
(* end-of-turn drain): its completion is now owed to the parent.            *)
MarkParentInterested(c) ==
  /\ gen[c] > 0
  /\ pc[Current(c)] = "running"
  /\ interested' = [interested EXCEPT ![Current(c)] = TRUE]
  /\ UNCHANGED <<gen, outcome, delivered, queue, threadVars, parentVars, closerVars, historyVars>>

(* Only a parent-interested handle is queued for delivery.                  *)
(* Mutant: every finished handle is.                                        *)
QueuedAnyway(k) == TRUE

QueuedForParent(k) == interested[k]

(* mark_finished, its locked section.  The outcome goes to the child's      *)
(* current handle.  A completed chain holds dispatch_guard() until the      *)
(* entry is queued; a vetoed, aborted or failed one never takes it.         *)
MarkFinished(h, result) ==
  LET k == Current(h[1]) IN
  /\ pc[h] = "running"
  /\ result = "completed" => guard = NoHandle
  /\ outcome' = [outcome EXCEPT ![k] = result]
  /\ IF QueuedForParent(k)
       THEN /\ pc' = [pc EXCEPT ![h] = "put"]
            /\ held' = [held EXCEPT ![h] = k]
            /\ guard' = IF result = "completed" THEN h ELSE guard
       ELSE /\ pc' = [pc EXCEPT ![h] = "relay"]
            /\ UNCHANGED <<held, guard>>
  /\ UNCHANGED <<gen, delivered, interested, queue, parentVars, closerVars, historyVars>>

(* mark_finished, after its lock: _completion_queue.put.                    *)
(* Mutant: looks the handle up again instead of keeping it, through a       *)
(* variable nobody set.                                                     *)
PutCompletionUnbound(h) ==
  /\ pc[h] = "put"
  /\ queue' = Append(queue, popped)
  /\ held' = [held EXCEPT ![h] = NoHandle]
  /\ guard' = IF guard = h THEN NoHandle ELSE guard
  /\ pc' = [pc EXCEPT ![h] = "relay"]
  /\ UNCHANGED <<gen, outcome, delivered, interested, parentVars, closerVars, historyVars>>

PutCompletion(h) ==
  /\ pc[h] = "put"
  /\ queue' = Append(queue, held[h])
  /\ held' = [held EXCEPT ![h] = NoHandle]
  /\ guard' = IF guard = h THEN NoHandle ELSE guard
  /\ pc' = [pc EXCEPT ![h] = "relay"]
  /\ UNCHANGED <<gen, outcome, delivered, interested, parentVars, closerVars, historyVars>>

-----------------------------------------------------------------------------
(* _relay_completion_to_parent                                              *)

(* Mutant: a handle already delivered can be claimed again.                 *)
ClaimableTwice(k) == interested[k] /\ Finished(k)

Claimable(k) == interested[k] /\ ~delivered[k] /\ Finished(k)

TryClaimForRelay(h) ==
  LET k == Current(h[1]) IN
  /\ pc[h] = "relay"
  /\ IF Claimable(k)
       THEN /\ delivered' = [delivered EXCEPT ![k] = TRUE]
            /\ held' = [held EXCEPT ![h] = k]
            /\ pc' = [pc EXCEPT ![h] = "claimed"]
       ELSE /\ pc' = [pc EXCEPT ![h] = "done"]
            /\ UNCHANGED <<delivered, held>>
  /\ UNCHANGED <<gen, outcome, interested, queue, guard, parentVars, closerVars, historyVars>>

(* The unlocked read of parent.current_turn_handlers().                     *)
(* Mutant: returns without releasing the claim.                             *)
CheckParentTurnKeepingClaim(h) ==
  /\ pc[h] = "claimed"
  /\ pc' = [pc EXCEPT ![h] = IF phase = "turn" THEN "done" ELSE "deliver"]
  /\ UNCHANGED <<trackerVars, guard, held, parentVars, closerVars, historyVars>>

CheckParentTurn(h) ==
  /\ pc[h] = "claimed"
  /\ pc' = [pc EXCEPT ![h] = IF phase = "turn" THEN "release" ELSE "deliver"]
  /\ UNCHANGED <<trackerVars, guard, held, parentVars, closerVars, historyVars>>

ReleaseRelayClaim(h) ==
  /\ pc[h] = "release"
  /\ delivered' = [delivered EXCEPT ![held[h]] = FALSE]
  /\ released' = released \cup {held[h]}
  /\ held' = [held EXCEPT ![h] = NoHandle]
  /\ pc' = [pc EXCEPT ![h] = "done"]
  /\ UNCHANGED <<gen, outcome, interested, queue, guard, parentVars, closerVars, received>>

(* A root parent: deliver_event_message hands the text to the host, or to   *)
(* the turn in flight; without either it raises and the claim is released.  *)
DeliverToRoot(h) ==
  /\ pc[h] = "deliver"
  /\ ParentKind # "subagent"
  /\ IF ParentKind = "host" \/ phase = "turn"
       THEN /\ received' = [received EXCEPT ![held[h]] = @ + 1]
            /\ held' = [held EXCEPT ![h] = NoHandle]
            /\ pc' = [pc EXCEPT ![h] = "done"]
       ELSE /\ pc' = [pc EXCEPT ![h] = "release"]
            /\ UNCHANGED <<received, held>>
  /\ UNCHANGED <<trackerVars, guard, parentVars, closerVars, released>>

(* A subagent parent: deliver_or_queue_agent_message queues the output      *)
(* tree-wide, or raises because the queue is full ...                       *)
EnqueueForParent(h) ==
  /\ pc[h] = "deliver"
  /\ ParentKind = "subagent"
  /\ \/ /\ mailbox' = [mailbox EXCEPT ![held[h]] = @ + 1]
        /\ pc' = [pc EXCEPT ![h] = "wake"]
     \/ /\ pc' = [pc EXCEPT ![h] = "release"]
        /\ UNCHANGED mailbox
  /\ UNCHANGED <<trackerVars, guard, held, phase, wait, popped, closerVars, historyVars>>

DrainMailbox ==
  /\ received' = [h \in Handle |-> received[h] + mailbox[h]]
  /\ mailbox' = [h \in Handle |-> 0]

MailboxEmpty == \A h \in Handle : mailbox[h] = 0

(* ... tries to wake it (possible only while it is dormant and the          *)
(* concurrency limits leave room) ...                                       *)
WakeParent(h) ==
  /\ pc[h] = "wake"
  /\ pc' = [pc EXCEPT ![h] = "confirm"]
  /\ \/ /\ phase = "idle"
        /\ ~MailboxEmpty
        /\ phase' = "turn"
        /\ DrainMailbox
     \/ UNCHANGED <<phase, mailbox, received>>
  /\ UNCHANGED <<trackerVars, guard, held, wait, popped, closerVars, released>>

(* ... and reports "delivered" only if nothing is left queued for it: the   *)
(* message may still be there, or another agent's may have come since.      *)
ConfirmRelay(h) ==
  /\ pc[h] = "confirm"
  /\ \/ /\ MailboxEmpty
        /\ held' = [held EXCEPT ![h] = NoHandle]
        /\ pc' = [pc EXCEPT ![h] = "done"]
     \/ /\ pc' = [pc EXCEPT ![h] = "release"]
        /\ UNCHANGED held
  /\ UNCHANGED <<trackerVars, guard, parentVars, closerVars, historyVars>>

-----------------------------------------------------------------------------
(* The parent's own turn                                                    *)

(* handlers set: a prompt, an event, or a wake-up begins a turn.            *)
StartParentTurn ==
  /\ phase = "idle"
  /\ phase' = "turn"
  /\ UNCHANGED <<trackerVars, threadVars, wait, popped, mailbox, closerVars, historyVars>>

(* handlers cleared.  A subagent parent's worker then drains its messages   *)
(* into one more turn or goes dormant.                                      *)
EndParentTurn ==
  /\ phase = "turn"
  /\ wait = "out"
  /\ phase' = IF ParentKind = "subagent" THEN "between" ELSE "idle"
  /\ UNCHANGED <<trackerVars, threadVars, wait, popped, mailbox, closerVars, historyVars>>

DrainAtTurnEnd ==
  /\ phase = "between"
  /\ phase' = IF MailboxEmpty THEN "idle" ELSE "turn"
  /\ DrainMailbox
  /\ UNCHANGED <<trackerVars, threadVars, wait, popped, closerVars, released>>

(* A slot freed elsewhere: another thread's try_wake_next_queued_agent      *)
(* resumes the dormant parent with what is queued for it.                   *)
WakeParentLater ==
  /\ phase = "idle"
  /\ ~MailboxEmpty
  /\ phase' = "turn"
  /\ DrainMailbox
  /\ UNCHANGED <<trackerVars, threadVars, wait, popped, closerVars, released>>

(* GetMessages in the parent's turn.                                        *)
GetMessages ==
  /\ phase = "turn"
  /\ wait = "out"
  /\ ~MailboxEmpty
  /\ DrainMailbox
  /\ UNCHANGED <<trackerVars, threadVars, phase, wait, popped, closerVars, released>>

HasUndelivered ==
  \E c \in Child : /\ gen[c] > 0
                   /\ interested[Current(c)]
                   /\ ~delivered[Current(c)]

(* WaitForSubagent refuses to start when nothing is owed.                   *)
BeginWait ==
  /\ phase = "turn"
  /\ wait = "out"
  /\ HasUndelivered
  /\ wait' = "next"
  /\ UNCHANGED <<trackerVars, threadVars, phase, popped, mailbox, closerVars, historyVars>>

(* A timeout, a cancel or a new message ends a wait that has nothing yet.   *)
(* Mutant: it may strike after an entry was taken off the queue.            *)
InterruptWaitAnytime ==
  /\ wait = "next"
  /\ wait' = "out"
  /\ popped' = NoHandle
  /\ UNCHANGED <<trackerVars, threadVars, phase, mailbox, closerVars, historyVars>>

InterruptWait ==
  /\ wait = "next"
  /\ popped = NoHandle
  /\ wait' = "out"
  /\ UNCHANGED <<trackerVars, threadVars, phase, popped, mailbox, closerVars, historyVars>>

(* pop_next_completed ("next") or try_pop_completed ("drain"): the queue    *)
(* entry is taken before the tracker's lock.                                *)
PopEntry ==
  /\ wait \in {"next", "drain"}
  /\ popped = NoHandle
  /\ queue # <<>>
  /\ popped' = Head(queue)
  /\ queue' = Tail(queue)
  /\ UNCHANGED <<gen, outcome, delivered, interested, threadVars, phase, wait, mailbox,
                 closerVars, historyVars>>

(* Under the lock: an entry already marked delivered is skipped.            *)
Skipped(k) == delivered[k]

CheckEntry ==
  /\ popped # NoHandle
  /\ popped' = NoHandle
  /\ IF Skipped(popped)
       THEN UNCHANGED <<delivered, received, wait>>
       ELSE /\ delivered' = [delivered EXCEPT ![popped] = TRUE]
            /\ received' = [received EXCEPT ![popped] = @ + 1]
            /\ wait' = "drain"
  /\ UNCHANGED <<gen, outcome, interested, queue, threadVars, phase, mailbox, closerVars, released>>

(* pop_all_completed found the queue empty: WaitForSubagent returns.        *)
EndWait ==
  /\ wait = "drain"
  /\ popped = NoHandle
  /\ queue = <<>>
  /\ wait' = "out"
  /\ UNCHANGED <<trackerVars, threadVars, phase, popped, mailbox, closerVars, historyVars>>

-----------------------------------------------------------------------------
(* cascade_close_subagents walks a snapshot of the handles, one at a time:  *)
(* join the thread or give up on it, read delivered without a lock, append  *)
(* the note, mark delivered.                                                *)

CloseBegin ==
  /\ Closing
  /\ \A c \in Child : closer[c] = "open"
  /\ \E c \in Child : gen[c] > 0
  /\ closing' = [c \in Child |-> IF gen[c] > 0 THEN Current(c) ELSE NoHandle]
  /\ closer' = [c \in Child |-> IF gen[c] > 0 THEN "join" ELSE "closed"]
  /\ UNCHANGED <<trackerVars, threadVars, parentVars, historyVars>>

CloseInspect(c) ==
  /\ closer[c] = "join"
  /\ \A d \in Child : closer[d] \notin {"note", "mark"}
  /\ closer' = [closer EXCEPT ![c] =
       IF ~delivered[closing[c]] /\ interested[closing[c]] THEN "note" ELSE "closed"]
  /\ UNCHANGED <<trackerVars, threadVars, parentVars, closing, historyVars>>

(* The note carries the output, or says the subagent was terminated.        *)
CloseAppendNote(c) ==
  /\ closer[c] = "note"
  /\ received' = [received EXCEPT ![closing[c]] = @ + 1]
  /\ closer' = [closer EXCEPT ![c] = "mark"]
  /\ UNCHANGED <<trackerVars, threadVars, parentVars, closing, released>>

CloseMarkDelivered(c) ==
  /\ closer[c] = "mark"
  /\ delivered' = [delivered EXCEPT ![closing[c]] = TRUE]
  /\ closer' = [closer EXCEPT ![c] = "closed"]
  /\ UNCHANGED <<gen, outcome, interested, queue, threadVars, parentVars, closing, historyVars>>

-----------------------------------------------------------------------------
Worker(h) ==
  \/ \E result \in {"completed", "stopped"} : MarkFinished(h, result)
  \/ PutCompletion(h)
  \/ TryClaimForRelay(h)
  \/ CheckParentTurn(h)
  \/ ReleaseRelayClaim(h)
  \/ DeliverToRoot(h)
  \/ EnqueueForParent(h)
  \/ WakeParent(h)
  \/ ConfirmRelay(h)

Parent ==
  \/ StartParentTurn
  \/ EndParentTurn
  \/ DrainAtTurnEnd
  \/ WakeParentLater
  \/ GetMessages
  \/ BeginWait
  \/ InterruptWait
  \/ PopEntry
  \/ CheckEntry
  \/ EndWait

Close ==
  \/ CloseBegin
  \/ \E c \in Child : CloseInspect(c) \/ CloseAppendNote(c) \/ CloseMarkDelivered(c)

Next ==
  \/ \E c \in Child : Create(c)
  \/ \E c \in Child : \E byParent \in BOOLEAN : Resume(c, byParent)
  \/ \E c \in Child : MarkParentInterested(c)
  \/ \E h \in Handle : Worker(h)
  \/ Parent
  \/ Close

Spec == Init /\ [][Next]_vars

-----------------------------------------------------------------------------
WorkerPC == {"none", "running", "put", "relay", "claimed", "deliver", "wake",
             "confirm", "release", "done"}
ClaimPC == {"claimed", "deliver", "wake", "confirm", "release"}

(* Every variable keeps its range.                                          *)
TypeOK ==
  /\ gen \in [Child -> 0..MaxTurns]
  /\ outcome \in [Handle -> {"none", "completed", "stopped"}]
  /\ delivered \in [Handle -> BOOLEAN]
  /\ interested \in [Handle -> BOOLEAN]
  /\ queue \in Seq(Handle)
  /\ guard \in Handle \cup {NoHandle}
  /\ pc \in [Handle -> WorkerPC]
  /\ held \in [Handle -> Handle \cup {NoHandle}]
  /\ phase \in {"idle", "turn", "between"}
  /\ wait \in {"out", "next", "drain"}
  /\ popped \in Handle \cup {NoHandle}
  /\ mailbox \in [Handle -> Nat]
  /\ closer \in [Child -> {"open", "join", "note", "mark", "closed"}]
  /\ closing \in [Child -> Handle \cup {NoHandle}]
  /\ received \in [Handle -> Nat]
  /\ released \in SUBSET Handle

(* A subagent's output reaches its creator at most once: the relay, which   *)
(* claims the handle, and WaitForSubagent, which pops it, never both hand   *)
(* it over (docs/specs/subagents.md, "can never also deliver the same       *)
(* completion").                                                            *)
AtMostOnce == \A h \in Handle : received[h] <= 1

(* Only a turn the creator takes part in is handed to it: a chain a human   *)
(* or an event started alone stays out of the parent's context.             *)
OnlyOwedOutputs ==
  \A h \in Handle : received[h] > 0 => interested[h]

(* The delivered flag is never left set for nothing: either the output was  *)
(* handed over, or a relay still holds the claim and will settle it.        *)
DeliveredIsAccountedFor ==
  \A h \in Handle : delivered[h] =>
    \/ received[h] > 0
    \/ \E w \in Handle : pc[w] \in ClaimPC /\ held[w] = h

(* The completion queue holds each ended, owed chain at most once.          *)
QueueIsSound ==
  /\ \A i, j \in 1..Len(queue) : queue[i] = queue[j] => i = j
  /\ \A i \in 1..Len(queue) : Finished(queue[i]) /\ interested[queue[i]]

(* A completion no relay ever gave back is in the queue, in the hands of    *)
(* the wait that popped it, or about to be put there, until it is handed    *)
(* over.                                                                    *)
UnreleasedCompletionIsKept ==
  \A h \in Handle :
    /\ Finished(h) /\ interested[h] /\ ~delivered[h]
    /\ h \notin released
    => InQueue(h) \/ popped = h \/ (pc[h] = "put" /\ held[h] = h)

(* No completion is queued twice, nor lost between the queue, the relays    *)
(* and the waits that all take from it.                                     *)
CompletionsAreKept == QueueIsSound /\ UnreleasedCompletionIsKept

(* The tracker implements the promise made to the creator; a chain's        *)
(* outcome is published once although mark_finished writes it through the   *)
(* dict, where a newer handle may have taken the child's place.             *)
Promise == INSTANCE CompletionDelivery WITH
  state <- [h \in Handle |-> IF ~Dispatched(h) THEN "absent"
                             ELSE IF Finished(h) THEN outcome[h] ELSE "running"],
  owed <- interested

ImplementsPromise == Promise!Spec

-----------------------------------------------------------------------------
(* Statements of the docs and docstrings the code does not keep.            *)

(* release_relay_claim: "so WaitForSubagent/pop_next_completed/             *)
(* try_pop_completed can still return it later".  The entry may have been   *)
(* popped and skipped while the relay held the claim.                       *)
ReleasedCompletionIsReturnable ==
  \A h \in released :
    delivered[h] \/ InQueue(h) \/ popped = h
=============================================================================
