------------------------------- MODULE TurnHost -------------------------------
(***************************************************************************)
(* The ACP host of a root session: KlorbAcpAgent's session/prompt,          *)
(* session/cancel, _klorb/enqueueMessage and wake handler                   *)
(* (server/klorb_agent.py), TurnBridge.run_turn's loop                      *)
(* (server/turn_bridge.py), and the session's turn and queued messages      *)
(* behind them (session/mixins/turns.py, core.py).                          *)
(*                                                                         *)
(* Threads: the asyncio loop, on which a step runs from one await to the    *)
(* next; the worker thread of each send_turn(); and one thread per event    *)
(* (a timer, a file change, a subagent's relayed output).                   *)
(*                                                                         *)
(* run_turn has two callers, "prompt" and "wake"; caller h's coroutine is   *)
(* at awaits[h] and its worker thread at worker[h].                         *)
(***************************************************************************)
EXTENDS Naturals, Sequences, FiniteSets

CONSTANTS
  UserMessage,   \* messages a client sends with _klorb/enqueueMessage
  EventMessage,  \* messages event threads deliver
  Chained,       \* what an onAgentTurnEnd handler chains as the next turn
  MaxChained,    \* max_chained_hook_turns
  MaxPrompts,    \* bound: session/prompt requests
  NoHost

Host == {"prompt", "wake"}
HostMessage == UserMessage \cup EventMessage

ASSUME HostAssumption ==
  /\ UserMessage \cap EventMessage = {}
  /\ Chained \notin HostMessage
  /\ MaxChained \in Nat
  /\ MaxPrompts \in Nat
  /\ NoHost \notin Host

VARIABLES
  inFlight,      \* KlorbAcpAgent._turn_in_flight
  awaits,        \* where each run_turn coroutine awaits
  worker,        \* each send_turn()'s worker thread
  batch,         \* messages a coroutine drained for the turn it starts next
  queued,        \* Session._queued_messages
  wakes,         \* _drain_and_submit_woken_turn coroutines scheduled
  source,        \* each message: "unsent", "enqueued" (an event thread before
                 \* deliver_wake), "sent"
  cancelRequested, \* TurnBridge._cancel_requested
  current,       \* TurnBridge._current_cancel_event: whose turn's event it is
  event,         \* cancel_event of each caller's turn
  chained,       \* Session._chained_hook_turns
  continuation,  \* Session._chain_continuation_pending
  seeded,        \* Session._metadata_seeded: the conversation's first turn is past
  prompts,       \* bound: prompts accepted so far
  taken,         \* history: times each message became part of a turn
  cancelAsked,   \* history: a cancel arrived during the run in flight
  auto,          \* history: turns in a row made of chained messages only
  dropped        \* history: messages lost to a failed announcement, a failed start
                 \* of the turn they were drained for, or a reset

loopVars == <<inFlight, awaits, batch, wakes, cancelRequested, current, event, prompts>>
sessionVars == <<queued, chained, continuation, seeded>>
historyVars == <<taken, cancelAsked, auto, dropped>>
hostVars == <<loopVars, sessionVars, worker, source, historyVars>>

HostInit ==
  /\ inFlight = FALSE
  /\ awaits = [h \in Host |-> "none"]
  /\ worker = [h \in Host |-> "off"]
  /\ batch = [h \in Host |-> <<>>]
  /\ queued = <<>>
  /\ wakes = 0
  /\ source = [m \in HostMessage |-> "unsent"]
  /\ cancelRequested = FALSE
  /\ current = NoHost
  /\ event = [h \in Host |-> FALSE]
  /\ chained = 0
  /\ continuation = FALSE
  /\ seeded = FALSE
  /\ prompts = 0
  /\ taken = [m \in HostMessage |-> 0]
  /\ cancelAsked = FALSE
  /\ auto = 0
  /\ dropped = {}

Elements(seq) == {seq[i] : i \in 1..Len(seq)}
Messages(seq) == Elements(seq) \cap HostMessage
Delivered(seq) == [m \in HostMessage |-> IF m \in Elements(seq) THEN taken[m] + 1 ELSE taken[m]]

(* mark_next_turn_continuation.                                             *)
OnlyChained(seq) == seq # <<>> /\ Elements(seq) = {Chained}

-----------------------------------------------------------------------------
(* run_turn                                                                 *)

(* One iteration up to asyncio.to_thread: a fresh cancel event, set at once *)
(* if the latch is.                                                         *)
Iterate(h, latch) ==
  /\ event' = [event EXCEPT ![h] = latch]
  /\ current' = h
  /\ awaits' = [awaits EXCEPT ![h] = "turn"]
  /\ worker' = [worker EXCEPT ![h] = "starting"]

(* The caller takes the flag and run_turn clears the latch.                 *)
BeginRun(h) ==
  /\ inFlight' = TRUE
  /\ cancelRequested' = FALSE
  /\ cancelAsked' = FALSE
  /\ Iterate(h, FALSE)

(* session/prompt; refused while a turn is in flight.                       *)
Prompt ==
  /\ ~inFlight
  /\ prompts < MaxPrompts
  /\ prompts' = prompts + 1
  /\ batch' = [batch EXCEPT !["prompt"] = <<>>]
  /\ BeginRun("prompt")
  /\ UNCHANGED <<wakes, sessionVars, source, taken, auto, dropped>>

(* _drain_and_submit_woken_turn.                                            *)
(* Mutant: does not look whether a turn is in flight.                       *)
IdleForWakeAlways == TRUE

IdleForWake == ~inFlight

(* Mutant: drains the queue before it looks.                                *)
RunWakeDrainingFirst ==
  /\ wakes > 0
  /\ wakes' = wakes - 1
  /\ queued' = <<>>
  /\ IF IdleForWake /\ queued # <<>>
       THEN /\ batch' = [batch EXCEPT !["wake"] = queued]
            /\ continuation' = OnlyChained(queued)
            /\ BeginRun("wake")
       ELSE UNCHANGED <<batch, continuation, inFlight, awaits, worker,
                        cancelRequested, cancelAsked, current, event>>
  /\ UNCHANGED <<chained, seeded, prompts, source, taken, auto, dropped>>

RunWake ==
  /\ wakes > 0
  /\ wakes' = wakes - 1
  /\ IF IdleForWake /\ queued # <<>>
       THEN /\ batch' = [batch EXCEPT !["wake"] = queued]
            /\ continuation' = OnlyChained(queued)
            /\ queued' = <<>>
            /\ BeginRun("wake")
       ELSE UNCHANGED <<batch, continuation, queued, inFlight, awaits, worker,
                        cancelRequested, cancelAsked, current, event>>
  /\ UNCHANGED <<chained, seeded, prompts, source, taken, auto, dropped>>

(* send_turn returned or raised: stop the pump and wait for it.             *)
StopPump(h) ==
  /\ awaits[h] = "turn"
  /\ worker[h] = "returned"
  /\ worker' = [worker EXCEPT ![h] = "off"]
  /\ awaits' = [awaits EXCEPT ![h] = "pump"]
  /\ UNCHANGED <<inFlight, batch, wakes, cancelRequested, current, event, prompts,
                 sessionVars, source, historyVars>>

(* The pump is done: drain what was queued for one more iteration.          *)
(* Mutant: a cancelled turn's queue is left alone.                          *)
DrainUnlessCancelled(h) ==
  /\ awaits[h] = "pump"
  /\ current' = NoHost
  /\ IF queued = <<>> \/ cancelRequested
       THEN /\ awaits' = [awaits EXCEPT ![h] = "usage"]
            /\ UNCHANGED <<batch, continuation, queued>>
       ELSE /\ awaits' = [awaits EXCEPT ![h] = "notify"]
            /\ batch' = [batch EXCEPT ![h] = queued]
            /\ continuation' = OnlyChained(queued)
            /\ queued' = <<>>
  /\ UNCHANGED <<inFlight, wakes, cancelRequested, event, prompts, chained, seeded, worker,
                 source, historyVars>>

Drain(h) ==
  /\ awaits[h] = "pump"
  /\ current' = NoHost
  /\ IF queued = <<>>
       THEN /\ awaits' = [awaits EXCEPT ![h] = "usage"]
            /\ UNCHANGED <<batch, continuation, queued>>
       ELSE /\ awaits' = [awaits EXCEPT ![h] = "notify"]
            /\ batch' = [batch EXCEPT ![h] = queued]
            /\ continuation' = OnlyChained(queued)
            /\ queued' = <<>>
  /\ UNCHANGED <<inFlight, wakes, cancelRequested, event, prompts, chained, seeded, worker,
                 source, historyVars>>

(* One _klorb/queuedMessageSent per drained message went out: next          *)
(* iteration.                                                               *)
(* Mutant: the latch is cleared for every iteration.                        *)
NextIterationUnlatched(h) ==
  /\ awaits[h] = "notify"
  /\ Iterate(h, FALSE)
  /\ UNCHANGED <<inFlight, batch, wakes, cancelRequested, prompts, sessionVars, source,
                 historyVars>>

NextIteration(h) ==
  /\ awaits[h] = "notify"
  /\ Iterate(h, cancelRequested)
  /\ UNCHANGED <<inFlight, batch, wakes, cancelRequested, prompts, sessionVars, source,
                 historyVars>>

(* run_turn ends, after its last notification or because one raised, and    *)
(* the caller gives the flag back.                                          *)
EndRun(h) ==
  /\ awaits[h] \in {"usage", "notify"}
  /\ awaits' = [awaits EXCEPT ![h] = "none"]
  /\ inFlight' = FALSE
  /\ batch' = [batch EXCEPT ![h] = <<>>]
  /\ dropped' = IF awaits[h] = "notify" THEN dropped \cup Messages(batch[h])
                                    ELSE dropped
  /\ cancelAsked' = FALSE
  /\ UNCHANGED <<wakes, cancelRequested, current, event, prompts, sessionVars, worker,
                 source, taken, auto>>

(* session/cancel                                                           *)
Cancel ==
  /\ inFlight
  /\ cancelRequested' = TRUE
  /\ cancelAsked' = TRUE
  /\ event' = [h \in Host |-> event[h] \/ current = h]
  /\ UNCHANGED <<inFlight, awaits, batch, wakes, current, prompts, sessionVars, worker, source,
                 taken, auto, dropped>>

-----------------------------------------------------------------------------
(* The worker thread: send_turn, _dispatch_turn                             *)

(* Append the user message, settle the chain counter, set the handlers.     *)
TurnStarts(h) ==
  /\ worker[h] = "starting"
  /\ taken' = Delivered(batch[h])
  /\ batch' = [batch EXCEPT ![h] = <<>>]
  /\ chained' = IF continuation THEN chained ELSE 0
  /\ continuation' = FALSE
  /\ seeded' = TRUE
  /\ auto' = IF Elements(batch[h]) = {Chained} THEN auto + 1 ELSE 0
  /\ worker' = [worker EXCEPT ![h] = "round"]
  /\ UNCHANGED <<inFlight, awaits, wakes, cancelRequested, current, event, prompts, queued,
                 source, cancelAsked, dropped>>

(* The conversation's first turn asks git for the branch, which may time    *)
(* out: send_turn raises with the user message not yet appended.            *)
TurnFailsToStart(h) ==
  /\ worker[h] = "starting"
  /\ ~seeded
  /\ seeded' = TRUE
  /\ dropped' = dropped \cup Messages(batch[h])
  /\ batch' = [batch EXCEPT ![h] = <<>>]
  /\ worker' = [worker EXCEPT ![h] = "returned"]
  /\ UNCHANGED <<inFlight, awaits, wakes, cancelRequested, current, event, prompts, queued,
                 chained, continuation, source, taken, cancelAsked, auto>>

(* After a tool-call round (entered before a cancel was seen):              *)
(* deliver_queued_user_message.                                             *)
DeliverMidTurn(h) ==
  /\ worker[h] = "round"
  /\ queued # <<>>
  /\ taken' = Delivered(queued)
  /\ queued' = <<>>
  /\ UNCHANGED <<loopVars, chained, continuation, seeded, worker, source, cancelAsked, auto, dropped>>

(* The reply is complete: handlers cleared, onAgentTurnEnd is next.         *)
TurnCompletes(h) ==
  /\ worker[h] = "round"
  /\ worker' = [worker EXCEPT ![h] = "hook"]
  /\ UNCHANGED <<loopVars, sessionVars, source, historyVars>>

(* Cancelled at a round boundary or mid-stream, or failed: no hook.         *)
TurnStops(h) ==
  /\ worker[h] = "round"
  /\ worker' = [worker EXCEPT ![h] = "returned"]
  /\ UNCHANGED <<loopVars, sessionVars, source, historyVars>>

(* _fire_agent_turn_end_hook                                                *)
ChainAllowed == chained < MaxChained

(* The hook says nothing, or _deliver_chained_hook_message queues what it   *)
(* says unless the cap is reached.                                          *)
Says ==
  /\ \/ UNCHANGED <<chained, queued>>
     \/ /\ ChainAllowed
        /\ chained' = chained + 1
        /\ queued' = Append(queued, Chained)
  /\ UNCHANGED <<continuation, seeded, auto, dropped>>

(* It asks for a reset: reset_session wipes the conversation and its queue, *)
(* and what the hook says is the first turn of the new one.                 *)
Resets ==
  /\ chained' = IF MaxChained > 0 THEN 1 ELSE 0
  /\ queued' = IF MaxChained > 0 THEN <<Chained>> ELSE <<>>
  /\ continuation' = FALSE
  /\ seeded' = FALSE
  /\ auto' = 0
  /\ dropped' = dropped \cup Messages(queued)

AgentTurnEndHook(h) ==
  /\ worker[h] = "hook"
  /\ worker' = [worker EXCEPT ![h] = "returned"]
  /\ Says \/ Resets
  /\ UNCHANGED <<loopVars, source, taken, cancelAsked>>

-----------------------------------------------------------------------------
(* Where messages come from                                                 *)

(* _klorb/enqueueMessage: accepted while a turn is in flight.               *)
EnqueueMessage(m) ==
  /\ m \in UserMessage
  /\ source[m] = "unsent"
  /\ inFlight
  /\ source' = [source EXCEPT ![m] = "sent"]
  /\ queued' = Append(queued, m)
  /\ UNCHANGED <<loopVars, chained, continuation, seeded, worker, historyVars>>

(* deliver_event_message: enqueue, then ping the wake handler.              *)
EventEnqueues(m) ==
  /\ m \in EventMessage
  /\ source[m] = "unsent"
  /\ source' = [source EXCEPT ![m] = "enqueued"]
  /\ queued' = Append(queued, m)
  /\ UNCHANGED <<loopVars, chained, continuation, seeded, worker, historyVars>>

DeliverWake(m) ==
  /\ source[m] = "enqueued"
  /\ source' = [source EXCEPT ![m] = "sent"]
  /\ wakes' = wakes + 1
  /\ UNCHANGED <<inFlight, awaits, batch, cancelRequested, current, event, prompts, sessionVars,
                 worker, historyVars>>

-----------------------------------------------------------------------------
Loop(h) == StopPump(h) \/ Drain(h) \/ NextIteration(h) \/ EndRun(h)

Ends(h) == TurnCompletes(h) \/ TurnStops(h)

Starts(h) == TurnStarts(h) \/ TurnFailsToStart(h)

Work(h) == Starts(h) \/ DeliverMidTurn(h) \/ Ends(h) \/ AgentTurnEndHook(h)

HostNext ==
  \/ Prompt
  \/ RunWake
  \/ Cancel
  \/ \E h \in Host : Loop(h) \/ Work(h)
  \/ \E m \in HostMessage : EnqueueMessage(m) \/ EventEnqueues(m) \/ DeliverWake(m)

(* The loop and the threads run, and a model's turn comes to its end.       *)
HostFairness ==
  /\ \A h \in Host : WF_hostVars(Loop(h)) /\ WF_hostVars(Starts(h) \/ Ends(h) \/ AgentTurnEndHook(h))
  /\ WF_hostVars(RunWake)
  /\ \A m \in HostMessage : WF_hostVars(DeliverWake(m))

-----------------------------------------------------------------------------
(* Every variable keeps its range.                                          *)
HostTypeOK ==
  /\ inFlight \in BOOLEAN
  /\ awaits \in [Host -> {"none", "turn", "pump", "notify", "usage"}]
  /\ worker \in [Host -> {"off", "starting", "round", "hook", "returned"}]
  /\ batch \in [Host -> Seq(HostMessage \cup {Chained})]
  /\ queued \in Seq(HostMessage \cup {Chained})
  /\ wakes \in Nat
  /\ source \in [HostMessage -> {"unsent", "enqueued", "sent"}]
  /\ cancelRequested \in BOOLEAN
  /\ current \in Host \cup {NoHost}
  /\ event \in [Host -> BOOLEAN]
  /\ chained \in 0..MaxChained
  /\ continuation \in BOOLEAN
  /\ seeded \in BOOLEAN
  /\ prompts \in 0..MaxPrompts
  /\ taken \in [HostMessage -> Nat]
  /\ cancelAsked \in BOOLEAN
  /\ auto \in Nat
  /\ dropped \in SUBSET HostMessage

(* A prompt and a wake-up never drive the session's turn at the same time:  *)
(* one coroutine holds the flag from before its first await to its end.     *)
OneRunAtATime ==
  /\ awaits["prompt"] = "none" \/ awaits["wake"] = "none"
  /\ inFlight <=> \E h \in Host : awaits[h] # "none"

(* A message is in the queue, in a drained batch, or part of exactly one    *)
(* turn: never repeated, whichever of the four drains takes it, and lost    *)
(* only in the three ways `dropped` records.                                *)
Occurs(m, seq) == Cardinality({i \in 1..Len(seq) : seq[i] = m})
MessagesConserved ==
  \A m \in HostMessage : source[m] # "unsent" =>
    Occurs(m, queued) + Occurs(m, batch["prompt"]) + Occurs(m, batch["wake"]) + taken[m]
      = IF m \in dropped THEN 0 ELSE 1

(* A cancel reaches the turn in progress and every further turn of the same *)
(* run, and no turn of a later run.                                         *)
CancelIsExact == \A h \in Host : awaits[h] = "turn" => (event[h] <=> cancelAsked)

(* However handlers chain, at most MaxChained turns in a row run on nothing *)
(* but chained messages of one conversation (docs/specs/hooks-and-events.md, *)
(* "Chained turns"); a reset starts another.                                *)
ChainIsBounded == auto <= MaxChained

(* One coroutine at a time holds the session, for a bounded chain of turns. *)
RunsAreSound == HostTypeOK /\ OneRunAtATime /\ ChainIsBounded

(* What is queued while a turn runs becomes part of one, whether that turn  *)
(* completes, fails or is cancelled, or is recorded as lost.                *)
QueuedDuringTurnArrives ==
  \A m \in HostMessage :
    (m \in Elements(queued) /\ \E h \in Host : awaits[h] = "turn") ~> (taken[m] = 1 \/ m \in dropped)
=============================================================================
