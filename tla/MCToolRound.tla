---------------------------- MODULE MCToolRound ----------------------------
(***************************************************************************)
(* ToolRound in a workspace "ws" with one subdirectory "sub".  "own" stands *)
(* for a file of klorb's own directory under "sub".  The calls: one for     *)
(* each way the loop can take, a file tool and two commands, one with a     *)
(* part that could not be classified and one with two files whose ask rules *)
(* overlap.                                                                 *)
(***************************************************************************)
EXTENDS ToolRound

MCDir  == {"ws", "sub"}
MCFile == {"top", "leaf", "own"}
MCWithin == [p \in MCDir \cup MCFile |-> IF p \in {"ws", "top"} THEN {"ws"} ELSE {"ws", "sub"}]
MCHome == [f \in MCFile |-> IF f = "top" THEN "ws" ELSE "sub"]

Reads(f)  == [file |-> f, write |-> FALSE]
Writes(f) == [file |-> f, write |-> TRUE]

MCCalls ==
  {[tool |-> "plain", items |-> <<>>],
   [tool |-> "questions", items |-> <<>>],
   [tool |-> "escalate", items |-> <<>>],
   [tool |-> "file", items |-> <<Writes("own")>>],
   [tool |-> "bash", items |-> <<Structural, Writes("leaf")>>],
   [tool |-> "bash", items |-> <<Reads("top"), Reads("leaf")>>]}

AskRead(d) == [NoAccess EXCEPT !.read.ask = {d}]

MCUserFiles == {AskRead("ws")}
MCProjectFiles == {NoAccess, AskRead("sub")}
MCOtherGrant == [paths |-> {"sub"}, write |-> FALSE, action |-> "allow"]
MCLimits == {0, 1}
MCPrivileged == {"own"}
=============================================================================
