------------------------------- MODULE ReplHost -------------------------------
(***************************************************************************)
(* The terminal host of a root session: prompts, shell commands, wake-ups,  *)
(* interrupts, quitting and the replacement of the session in the Textual   *)
(* app (tui/mixins/prompt_submission.py, key_actions.py, interactions.py,   *)
(* workspace_bootstrap.py).                                                 *)
(*                                                                         *)
(* The app's thread runs one handler at a time to its next await.  Each     *)
(* turn or shell command is an activity with a worker thread of its own,    *)
(* which enters the app's thread with call_from_thread and waits for it.    *)
(* An activity is named by its number, and so are its cancel event and, in  *)
(* the order they are built, the sessions.  Widgets, the selection of       *)
(* subagents, and the force-exit of a second Ctrl+C are left out; so is a   *)
(* close() that raises, which ends the app.                                 *)
(***************************************************************************)
EXTENDS Naturals, FiniteSets, Sequences

CONSTANTS
  Typed,       \* bound: what the user types
  Reported,    \* bound: what event threads deliver
  FromStart,   \* the initial message of the command line
  MaxSessions, \* bound: sessions, one after another
  Budgets      \* bounds: the texts there are, shell commands, sessions, whether tool
               \* calls ask, and whether the disk may fill up

Text == Typed \cup Reported \cup {FromStart}
Number == 1..MaxSessions

ASSUME ReplAssumption ==
  /\ Typed \cap Reported = {}
  /\ FromStart \notin Typed \cup Reported
  /\ MaxSessions \in Nat \ {0}
  /\ Budgets \subseteq [texts : SUBSET Text, commands : 0..1, sessions : Number,
                        asks : BOOLEAN, fills : BOOLEAN]

VARIABLES
  budget,        \* bounds: what this behaviour may do
  live,          \* number of self._session
  turnInFlight,  \* _turn_in_flight
  cancelEvent,   \* the activity whose event _cancel_event is, or 0
  shellEvent,    \* ... _shell_cancel_event
  activities,    \* the worker threads, in the order they were started
  waiting,       \* _queued_messages of each session
  pings,         \* TuiSessionWake messages posted
  pinging,       \* event messages queued, with deliver_wake still to come
  replacing,     \* _pending_session_replacement
  exitRequested, \* _exit_requested
  exited,        \* exit() was called: the app's thread runs no more handlers
  oneShot,       \* _quit_on_success
  starting,      \* the restored history is mounted, FromStart is next
  diskFull,      \* persist_state raises
  home,          \* history: the session each text was meant for
  displaced      \* history: activities that were in flight when a saved session
                 \* was loaded

hostState == <<budget, turnInFlight, cancelEvent, shellEvent, replacing, exitRequested, exited, oneShot>>
replVars == <<hostState, live, activities, waiting, pings, pinging, starting, diskFull, home,
              displaced>>

ReplInit ==
  /\ budget \in Budgets
  /\ live = 1
  /\ turnInFlight = FALSE
  /\ cancelEvent = 0 /\ shellEvent = 0
  /\ activities = <<>>
  /\ waiting = [s \in Number |-> {}]
  /\ pings = 0
  /\ pinging = {}
  /\ replacing = FALSE
  /\ exitRequested = FALSE /\ exited = FALSE
  /\ starting = (FromStart \in budget.texts)
  /\ oneShot \in {FALSE, starting}
  /\ diskFull = FALSE
  /\ home = [m \in Text |-> 0]
  /\ displaced = {}

Activities == 1..Len(activities)
At(a, step) == activities[a].step = step
Unfinished == {a \in Activities : ~activities[a].finished}
Meant(m) == home' = [home EXCEPT ![m] = live]

(* A worker thread: "mount" is its first call_from_thread, before the turn; *)
(* "handler" the call of its terminal handler, "unwinding" that of          *)
(* _ensure_turn_finished.                                                   *)
NewActivity(step, texts, queued) ==
  [step |-> step, texts |-> texts, queued |-> queued, session |-> 0, cancelled |-> FALSE,
   asked |-> FALSE, ok |-> FALSE, stopped |-> FALSE, finished |-> FALSE]

-----------------------------------------------------------------------------
(* Starting an activity                                                     *)

(* _submit_prompt, for the worker threads as they are after this step.      *)
SubmitTo(workers, texts, queued) ==
  /\ turnInFlight' = TRUE
  /\ activities' = Append(workers, NewActivity("mount", texts, queued))
  /\ cancelEvent' = Len(workers) + 1

(* The prompt input is disabled while a command runs or a panel is open.    *)
CanType ==
  /\ ~exited
  /\ shellEvent = 0
  /\ \A a \in Activities : activities[a].step \notin {"panel", "late", "limit"}

Enter(m) ==
  /\ CanType
  /\ m \in Typed \cap budget.texts /\ home[m] = 0
  /\ Meant(m)
  /\ IF turnInFlight
       THEN /\ waiting' = [waiting EXCEPT ![live] = @ \cup {m}]
            /\ UNCHANGED <<turnInFlight, activities, cancelEvent>>
       ELSE SubmitTo(activities, {m}, FALSE) /\ UNCHANGED waiting
  /\ UNCHANGED <<budget, live, shellEvent, pings, pinging, replacing, exitRequested, exited, oneShot,
                 starting, diskFull, displaced>>

EnterCommand ==
  /\ CanType
  /\ ~turnInFlight
  /\ Cardinality({a \in Activities : activities[a].texts = {}}) < budget.commands
  /\ turnInFlight' = TRUE
  /\ activities' = Append(activities, NewActivity("command", {}, FALSE))
  /\ shellEvent' = Len(activities) + 1
  /\ UNCHANGED <<budget, live, cancelEvent, waiting, pings, pinging, replacing, exitRequested, exited,
                 oneShot, starting, diskFull, home, displaced>>

(* The start-up worker has mounted the restored history.                    *)
SubmitInitial ==
  /\ starting /\ ~exited
  /\ starting' = FALSE
  /\ Meant(FromStart)
  /\ IF turnInFlight
       THEN UNCHANGED <<turnInFlight, activities, cancelEvent>>
       ELSE SubmitTo(activities, {FromStart}, FALSE)
  /\ UNCHANGED <<budget, live, shellEvent, waiting, pings, pinging, replacing, exitRequested, exited,
                 oneShot, diskFull, displaced>>

(* deliver_event_message on an event's thread: enqueue, then ping.          *)
Report(m) ==
  /\ m \in Reported \cap budget.texts /\ home[m] = 0
  /\ Meant(m)
  /\ waiting' = [waiting EXCEPT ![live] = @ \cup {m}]
  /\ pinging' = pinging \cup {m}
  /\ UNCHANGED <<hostState, live, activities, pings, starting, diskFull, displaced>>

Ping(m) ==
  /\ m \in pinging
  /\ pinging' = pinging \ {m}
  /\ pings' = pings + 1
  /\ UNCHANGED <<hostState, live, activities, waiting, starting, diskFull, home, displaced>>

(* on_tui_session_wake                                                      *)
Wake ==
  /\ pings > 0 /\ ~exited
  /\ pings' = pings - 1
  /\ IF turnInFlight \/ waiting[live] = {}
       THEN UNCHANGED <<turnInFlight, activities, cancelEvent, waiting>>
       ELSE /\ SubmitTo(activities, waiting[live], TRUE)
            /\ waiting' = [waiting EXCEPT ![live] = {}]
  /\ UNCHANGED <<budget, live, shellEvent, pinging, replacing, exitRequested, exited, oneShot, starting,
                 diskFull, home, displaced>>

-----------------------------------------------------------------------------
(* The worker threads                                                       *)

Step(a, from, to) == At(a, from) /\ activities' = [activities EXCEPT ![a].step = to]

workerUnchanged == <<hostState, live, pings, pinging, starting, diskFull, home, displaced>>

(* _send_prompt has its waiting widget and calls send_turn on the session   *)
(* that is live now.                                                        *)
SendTurn(a) ==
  /\ At(a, "mount") /\ ~exited
  /\ activities' = [activities EXCEPT ![a].step = "turn", ![a].session = live]
  /\ UNCHANGED <<waiting, workerUnchanged>>

(* deliver_queued_user_message after a round of tool calls.                 *)
FoldIn(a) ==
  /\ At(a, "turn")
  /\ LET s == activities[a].session
     IN  /\ waiting[s] # {}
         /\ activities' = [activities EXCEPT ![a].texts = @ \cup waiting[s]]
         /\ waiting' = [waiting EXCEPT ![s] = {}]
  /\ UNCHANGED workerUnchanged

(* A tool call asks the user: a panel, or the screen of the call limit.     *)
Ask(a) ==
  /\ budget.asks /\ ~activities[a].asked
  /\ At(a, "turn") /\ ~exited
  /\ \E to \in {"asking", "limit"} :
       activities' = [activities EXCEPT ![a].step = to, ![a].asked = TRUE]
  /\ UNCHANGED <<waiting, workerUnchanged>>

(* The session is the selected one and the risk is classified: the panel's  *)
(* future is registered, and released from now on.                          *)
OpenPanel(a) ==
  /\ activities[a].session = live /\ ~exited
  /\ Step(a, "asking", IF activities[a].cancelled THEN "late" ELSE "panel")
  /\ UNCHANGED <<waiting, workerUnchanged>>

Answer(a) ==
  /\ ~exited
  /\ \E from \in {"panel", "late", "limit"} : Step(a, from, "turn")
  /\ UNCHANGED <<waiting, workerUnchanged>>

(* The turn or the command is over, in whichever way.                       *)
ActivityEnds(a) ==
  /\ activities[a].step \in {"turn", "command"}
  /\ \E ok \in {FALSE, At(a, "turn")} :
       activities' = [activities EXCEPT ![a].step = "handler", ![a].ok = ok]
  /\ UNCHANGED <<waiting, workerUnchanged>>

-----------------------------------------------------------------------------
(* Ending an activity                                                       *)

(* _finish_turn for activity a, whose worker goes on at step `to`: first a  *)
(* replacement that was put off, or else the queue.                         *)
(* Mutant: _shell_cancel_event is left as it is.                            *)
ShellEventKept == shellEvent

ShellEventCleared == 0

FinishTurn(a, to) ==
  LET workers == [activities EXCEPT ![a].step = to, ![a].finished = TRUE]
      succeeded == activities[a].ok /\ to = "unwinding"
  IN  /\ shellEvent' = ShellEventCleared
      /\ replacing' = FALSE
      /\ IF replacing \/ waiting[live] = {}
           THEN /\ turnInFlight' = FALSE
                /\ cancelEvent' = 0
                /\ activities' = workers
                /\ UNCHANGED waiting
           ELSE /\ SubmitTo(workers, waiting[live], TRUE)
                /\ waiting' = [waiting EXCEPT ![live] = {}]
      /\ live' = IF replacing THEN live + 1 ELSE live
      /\ oneShot' = (oneShot /\ (replacing \/ (succeeded /\ waiting[live] = {})))
      /\ exited' = (exitRequested \/ (oneShot' /\ ~replacing))
      /\ UNCHANGED <<budget, exitRequested, pings, pinging, starting, diskFull, home, displaced>>

(* The terminal handler; it may raise before it has finished the turn.      *)
Handle(a) ==
  /\ At(a, "handler") /\ ~exited
  /\ \/ ~diskFull /\ FinishTurn(a, "unwinding")
     \/ Step(a, "handler", "unwinding") /\ UNCHANGED <<waiting, workerUnchanged>>

(* _ensure_turn_finished                                                    *)
(* Mutant: any turn in flight is finished.                                  *)
IsOwnInFlight(a) == turnInFlight

IsOwn(a) == turnInFlight /\ a \in {cancelEvent, shellEvent}

Backstop(a) ==
  /\ At(a, "unwinding") /\ ~exited
  /\ IF IsOwn(a) /\ ~diskFull
       THEN FinishTurn(a, "over")
       ELSE Step(a, "unwinding", "over") /\ UNCHANGED <<waiting, workerUnchanged>>

-----------------------------------------------------------------------------
(* Interrupting, quitting and replacing                                     *)

(* The activities after their events were set and the panels released.      *)
Signalled(cancelled, released) ==
  [a \in Activities |->
     [activities[a] EXCEPT !.cancelled = @ \/ a \in cancelled,
                           !.stopped = @ \/ a \in Unfinished,
                           !.step = IF @ \in {"panel", "late"} /\ released[a] THEN "turn" ELSE @]]

(* _interrupt_running_activity                                              *)
Interrupt ==
  /\ turnInFlight /\ ~exited
  /\ activities' =
       IF shellEvent # 0
         THEN Signalled({shellEvent}, [a \in Activities |-> FALSE])
         ELSE Signalled({cancelEvent}, [a \in Activities |-> activities[a].session = live])
  /\ UNCHANGED <<waiting, workerUnchanged>>

(* _release_workers_for_exit: the panels of every session.                  *)
(* Mutant: the events only.                                                 *)
NoPanel == [a \in Activities |-> FALSE]

AnyPanel == [a \in Activities |-> TRUE]

ReleaseWorkers == activities' = Signalled({cancelEvent, shellEvent}, AnyPanel)

(* _begin_exit, typed, or after Ctrl+Q has closed the session.              *)
Quit ==
  /\ ~exited
  /\ CanType \/ ~diskFull
  /\ IF turnInFlight
       THEN /\ exitRequested' = TRUE
            /\ ReleaseWorkers
            /\ UNCHANGED exited
       ELSE exited' = TRUE /\ UNCHANGED <<exitRequested, activities>>
  /\ UNCHANGED <<budget, live, turnInFlight, cancelEvent, shellEvent, waiting, pings, pinging, replacing,
                 oneShot, starting, diskFull, home, displaced>>

(* _start_replace_session: at once, or at the end of what is in flight.     *)
(* Mutant: always at once.                                                  *)
DefersNever == FALSE

Defers == turnInFlight

ClearSession ==
  /\ ~exited /\ ~diskFull
  /\ live + Cardinality({replacing} \ {FALSE}) < budget.sessions
  /\ IF Defers
       THEN replacing' = TRUE /\ ReleaseWorkers /\ UNCHANGED live
       ELSE live' = live + 1 /\ UNCHANGED <<replacing, activities>>
  /\ UNCHANGED <<budget, turnInFlight, cancelEvent, shellEvent, waiting, pings, pinging, exitRequested,
                 exited, oneShot, starting, diskFull, home, displaced>>

(* load_recent_session, which does not look whether a turn is in flight.    *)
LoadRecentSession ==
  /\ ~exited /\ ~diskFull
  /\ live + Cardinality({replacing} \ {FALSE}) < budget.sessions
  /\ live' = live + 1
  /\ displaced' = displaced \cup Unfinished
  /\ UNCHANGED <<hostState, activities, waiting, pings, pinging, starting, diskFull, home>>

DiskFills ==
  /\ budget.fills /\ ~diskFull
  /\ diskFull' = TRUE
  /\ UNCHANGED <<hostState, live, activities, waiting, pings, pinging, starting, home, displaced>>

-----------------------------------------------------------------------------
WorkerStep(a) ==
  \/ SendTurn(a) \/ FoldIn(a) \/ Ask(a) \/ OpenPanel(a) \/ Answer(a) \/ ActivityEnds(a)
  \/ Handle(a) \/ Backstop(a)

ReplNext ==
  \/ \E m \in Text : Enter(m) \/ Report(m) \/ Ping(m)
  \/ EnterCommand \/ SubmitInitial \/ Wake
  \/ \E a \in Activities : WorkerStep(a)
  \/ Interrupt \/ Quit \/ ClearSession \/ LoadRecentSession
  \/ DiskFills

ReplSpec == ReplInit /\ [][ReplNext]_replVars

(* The app's thread and the workers run, a model's turn and a command come  *)
(* to an end; nobody has to answer a question.                              *)
MaxActivities == Cardinality(Text) + 1

ReplFairness ==
  \A a \in 1..MaxActivities :
    WF_replVars(a \in Activities /\ (SendTurn(a) \/ OpenPanel(a) \/ ActivityEnds(a) \/ Handle(a) \/ Backstop(a)))

-----------------------------------------------------------------------------
(* Every variable keeps its range.                                          *)
ReplTypeOK ==
  /\ live \in Number
  /\ {cancelEvent, shellEvent} \subseteq {0} \cup Activities
  /\ waiting \in [Number -> SUBSET Text]
  /\ pings \in Nat /\ pinging \subseteq Reported
  /\ turnInFlight \in BOOLEAN /\ replacing \in BOOLEAN /\ oneShot \in BOOLEAN
  /\ exitRequested \in BOOLEAN /\ exited \in BOOLEAN
  /\ starting \in BOOLEAN /\ diskFull \in BOOLEAN
  /\ home \in [Text -> Number \cup {0}]
  /\ displaced \subseteq Activities
  /\ \A a \in Activities :
       /\ activities[a].step \in {"mount", "turn", "command", "asking", "panel", "late", "limit",
                                  "handler", "unwinding", "over"}
       /\ activities[a].texts \subseteq Text

(* The flag and the two events name the one activity that is not finished:  *)
(* no second one starts beside it, and a backstop that comes late does not  *)
(* finish its successor.                                                    *)
OneActivityAtATime ==
  Unfinished = IF turnInFlight THEN {cancelEvent, shellEvent} \ {0} ELSE {}

(* A turn runs on the session it was started for, and a text becomes part   *)
(* of a turn of the session it was typed or reported in, unless a saved     *)
(* session was loaded under the activity.                                   *)
TurnsKeepTheirSession ==
  \A a \in Activities \ displaced :
    activities[a].session # 0 =>
      /\ a \in Unfinished => activities[a].session = live
      /\ \A m \in activities[a].texts : home[m] = activities[a].session

(* A text waits in one queue or belongs to one activity, and only the       *)
(* initial message, which a prompt may have come before, to neither.        *)
TextsAreKept ==
  \A m \in Text : home[m] # 0 =>
    LET places == Cardinality({s \in Number : m \in waiting[s]})
                + Cardinality({a \in Activities : m \in activities[a].texts})
    IN  places = 1 \/ (m = FromStart /\ places = 0)

(* No text is left waiting in the live session with nothing to deliver it.  *)
IdleMeansEmpty ==
  ~turnInFlight /\ pings = 0 /\ pinging = {} /\ ~exited => waiting[live] = {}

(* Escape, Ctrl+C, quitting and replacing the session stop the activity in  *)
(* flight and no later one.                                                 *)
StopIsExact ==
  \A a \in Unfinished : activities[a].cancelled <=> activities[a].stopped

(* Once the app has exited, no worker thread waits for it but the one of    *)
(* the turn that _finish_turn itself has started out of the queue.          *)
ExitLeavesNoWorker ==
  /\ exited => \A a \in Unfinished : At(a, "mount") /\ activities[a].queued
  /\ exitRequested => exited \/ turnInFlight

(* The terminal host drives one activity at a time, on its own session, and *)
(* quits when it is over.                                                   *)
ReplIsSound == ReplTypeOK /\ OneActivityAtATime /\ TurnsKeepTheirSession /\ ExitLeavesNoWorker

(* What is stopped comes to an end, and with it a quit that waited for it,  *)
(* unless nothing releases the question its worker waits for (the limit's   *)
(* screen, a panel opened afterwards, or one of a session that was          *)
(* displaced), or the disk is full.                                         *)
Parked(a) ==
  \/ activities[a].step \in {"limit", "late"}
  \/ activities[a].step \in {"asking", "panel"} /\ a \in displaced

StopIsOver ==
  exited \/ diskFull \/ \A a \in Unfinished : activities[a].stopped => Parked(a)

-----------------------------------------------------------------------------
(* "Exit the app, but never while a worker thread is still running"         *)
(* (_begin_exit).                                                           *)
ExitsWhenIdle == exited => Unfinished = {}
=============================================================================
