-------------------------------- MODULE Turns --------------------------------
(***************************************************************************)
(* What starts, drives and ends the turns of a session tree: messages among *)
(* its agents, the two hosts of its root, and the watchdog of the terminal  *)
(* one.  A root has one host, and nothing that is modelled of one part is   *)
(* read by another, so a behaviour is one of a single part.                 *)
(***************************************************************************)
EXTENDS AgentMessaging, TurnHost, ReplHost, Watchdog

VARIABLE part   \* the part of this behaviour

vars == <<part, agentVars, hostVars, replVars, dogVars>>

Part == {"agents", "server", "terminal", "watchdog"}

Init ==
  /\ part \in Part
  /\ AgentsInit /\ HostInit /\ ReplInit /\ DogInit
  /\ part # "agents" => setup = CHOOSE s \in Setups : TRUE
  /\ part # "terminal" => budget = CHOOSE b \in Budgets : FromStart \notin b.texts
  /\ stopped <=> part # "watchdog"

Next ==
  \/ part = "agents" /\ AgentsNext /\ UNCHANGED <<part, hostVars, replVars, dogVars>>
  \/ part = "server" /\ HostNext /\ UNCHANGED <<part, agentVars, replVars, dogVars>>
  \/ part = "terminal" /\ ReplNext /\ UNCHANGED <<part, agentVars, hostVars, dogVars>>
  \/ part = "watchdog" /\ DogNext /\ UNCHANGED <<part, agentVars, hostVars, replVars>>

Spec == Init /\ [][Next]_vars

(* Nothing that is fair is enabled in the initial state of a part that the  *)
(* behaviour leaves alone.                                                  *)
FairSpec == Spec /\ AgentsFairness /\ HostFairness /\ ReplFairness /\ DogFairness

-----------------------------------------------------------------------------
(* No message is lost or repeated on its way, whichever of the queues it    *)
(* waits in and whatever drains it, and none waits where nothing will look  *)
(* (deliver_or_queue_agent_message, run_turn, _finish_turn).                *)
MessagesAreKept ==
  /\ MessageConserved /\ NothingStrandsLocally
  /\ MessagesConserved
  /\ TextsAreKept /\ IdleMeansEmpty

(* A cancel, an interrupt or a quit stops what runs when it is asked for,   *)
(* and nothing that starts later (KlorbAcpAgent.cancel,                     *)
(* _interrupt_running_activity, _release_workers_for_exit).                 *)
CancelsAreExact == CancelIsExact /\ StopIsExact

(* What the user stops comes to its end, and a loop that hangs is ended.    *)
HangsEnd == []<>(StopIsOver /\ WedgeIsOver)
=============================================================================
