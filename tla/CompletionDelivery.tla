-------------------------- MODULE CompletionDelivery --------------------------
(***************************************************************************)
(* What a session is promised about the subagents it creates: each turn    *)
(* chain of a subagent runs alone, ends once, and, if the session is owed  *)
(* its output, is handed over at most once and only after it has ended.    *)
(* SubagentTracker implements this for a root session that is not closed.  *)
(***************************************************************************)
EXTENDS Naturals

CONSTANTS Child, MaxTurns

Handle == Child \X (1..MaxTurns)

VARIABLES
  state,     \* "absent", "running", or how it ended
  owed,      \* whether the creator is to be given the output
  received   \* times the output was handed over

vars == <<state, owed, received>>

Outcome == {"completed", "stopped"}

Init ==
  /\ state = [h \in Handle |-> "absent"]
  /\ owed = [h \in Handle |-> FALSE]
  /\ received = [h \in Handle |-> 0]

(* A child's next turn chain starts only once the previous one has ended.  *)
Start(h, owe) ==
  /\ state[h] = "absent"
  /\ h[2] > 1 => state[<<h[1], h[2] - 1>>] \in Outcome
  /\ state' = [state EXCEPT ![h] = "running"]
  /\ owed' = [owed EXCEPT ![h] = owe]
  /\ UNCHANGED received

Owe(h) ==
  /\ state[h] = "running"
  /\ owed' = [owed EXCEPT ![h] = TRUE]
  /\ UNCHANGED <<state, received>>

(* How a chain ended is settled once.                                      *)
Finish(h, outcome) ==
  /\ state[h] = "running"
  /\ state' = [state EXCEPT ![h] = outcome]
  /\ UNCHANGED <<owed, received>>

Receive(h) ==
  /\ state[h] \in Outcome
  /\ owed[h]
  /\ received[h] = 0
  /\ received' = [received EXCEPT ![h] = 1]
  /\ UNCHANGED <<state, owed>>

Next == \E h \in Handle :
  \/ \E owe \in BOOLEAN : Start(h, owe)
  \/ Owe(h)
  \/ \E outcome \in Outcome : Finish(h, outcome)
  \/ Receive(h)

Spec == Init /\ [][Next]_vars
=============================================================================
