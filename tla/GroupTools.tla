------------------------------ MODULE GroupTools ------------------------------
(***************************************************************************)
(* What the agents of a session tree share beside their messages: the chat  *)
(* room, the task list and the files they edit.  These have no state in     *)
(* common, so a behaviour uses one of them.                                 *)
(***************************************************************************)
EXTENDS ChatChannel, TaskList, FileEdits

vars == <<chatVars, taskVars, fileVars>>

Chats == setup.posts > 0
Edits == work.editors # {}

Init ==
  /\ ChatInit /\ TasksInit /\ FilesInit
  /\ ~(Chats /\ Edits)
  /\ budget.calls > 0 <=> ~Chats /\ ~Edits

Next ==
  \/ Chats /\ ChatNext /\ UNCHANGED <<taskVars, fileVars>>
  \/ Edits /\ FilesNext /\ UNCHANGED <<chatVars, taskVars>>
  \/ ~Chats /\ ~Edits /\ TasksNext /\ UNCHANGED <<chatVars, fileVars>>

Spec == Init /\ [][Next]_vars

-----------------------------------------------------------------------------
(* The marks of the chat room are where its readers are, and the cap on the *)
(* wakes of mentions holds but for the threads already past the check       *)
(* (Channel.read_new, unread_count, notify_chat_mention).                   *)
ChatIsSound == MarksAreSound /\ WakeOvershootIsBounded
=============================================================================
