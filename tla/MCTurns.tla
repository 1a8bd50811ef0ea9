------------------------------- MODULE MCTurns -------------------------------
(***************************************************************************)
(* Instances of the parts of Turns.                                         *)
(*                                                                         *)
(* Agents: two dormant subagents side by side under the root, and one with  *)
(* a subagent of its own, dormant or still to be created.  Terminal: two    *)
(* prompts with a question and a session to replace, a prompt that races    *)
(* the initial message beside a command, a full disk, and events.           *)
(***************************************************************************)
EXTENDS Turns

CONSTANTS a1, a2, m1, m2, t1, t2, e1

Chain == [a \in Agent |-> IF a = a1 THEN Root ELSE a1]

Siblings == [parentOf |-> [a \in Agent |-> Root], existing |-> Agent, messages |-> Message]
Creation == [parentOf |-> Chain, existing |-> {a1}, messages |-> {m1}]
Family == [parentOf |-> Chain, existing |-> Agent, messages |-> {m1}]

Trees == {Siblings, Creation, Family}

Asking == [texts |-> {t1, t2}, commands |-> 0, sessions |-> 2, asks |-> TRUE, fills |-> FALSE]
AtStart == [texts |-> {t1, FromStart}, commands |-> 1, sessions |-> 1, asks |-> FALSE, fills |-> FALSE]
Filling == [texts |-> {t1}, commands |-> 1, sessions |-> 2, asks |-> TRUE, fills |-> TRUE]
Woken == [texts |-> {e1}, commands |-> 1, sessions |-> 2, asks |-> FALSE, fills |-> FALSE]
Queueing == [texts |-> {t1, e1}, commands |-> 0, sessions |-> 2, asks |-> FALSE, fills |-> FALSE]

TerminalUses == {Asking, AtStart, Filling, Woken, Queueing}
=============================================================================
