---------------------------- MODULE SessionServices ----------------------------
(***************************************************************************)
(* What a root session owns beside its conversation, its event sources and  *)
(* the Bash tool's shell, and how close() and reset_session() tear it down  *)
(* (session/mixins/core.py).  close() runs on the host's thread, also while *)
(* a turn is in flight on its worker (server/klorb_agent.py new_session);   *)
(* an event resets the session on its own timer thread.  A turn is the Bash *)
(* call it makes.                                                           *)
(*                                                                         *)
(* Both walk over _teardown_callbacks.  close() iterates over the dict      *)
(* itself, which raises once the dict has changed its size; a reset         *)
(* iterates over a copy, of the callbacks too, and deletes what it has torn *)
(* down.  The scratchpad, the search index and the naming thread, which     *)
(* have entries too, are left out.                                          *)
(***************************************************************************)
EXTENDS EventTimers, PersistentShell, SequencesExt

CONSTANTS
  Setups,     \* bound: the sources a session may start with, and the calls it makes
  WakeUp,     \* the scheduler of a WakeUpTimer call
  MaxResets   \* bound: resets

ASSUME ServicesAssumption ==
  /\ Walker = {"close", "reset"}
  /\ WakeUp \in Scheduler
  /\ "Bash" \notin Source \cup {None}
  /\ \A setup \in Setups :
       /\ setup.sources \subseteq Source \ {WakeUp}
       /\ setup.calls \in 0..MaxCalls
       /\ setup.wakes \in 0..1
  /\ MaxResets \in Nat

VARIABLES
  wakes,      \* bound: WakeUpTimer calls left
  started,    \* the sources the session has started
  entries,    \* _teardown_callbacks, as the sources and "Bash" in order
  registered, \* the shell whose kill is the "Bash" entry
  phase,      \* of Session.close: "open", "closing", "closed" or "failed"
  walk,       \* what each walker still has before it, the size it began with, and
              \* the shell whose kill a reset has copied
  resetter,   \* the timer thread that resets the session
  resets,     \* bound: resets so far
  disturbed,  \* history: something else was under way while close() ran
  crossed     \* history: a reset and a Bash call overlapped, or a reset raised before
              \* it came to the shell

vars == <<timerVars, shellVars, wakes, started, entries, registered, phase, walk, resetter, resets,
          disturbed, crossed>>

NoWalk == [step |-> "none", todo |-> <<>>, size |-> 0, kill |-> 0]

Init ==
  /\ \E setup \in Setups :
       /\ started = setup.sources
       /\ calls = MaxCalls - setup.calls
       /\ wakes = setup.wakes
  /\ TimersInit(started)
  /\ ShellInit
  /\ entries = SetToSeq(started)
  /\ registered = 0
  /\ phase = "open"
  /\ walk = [w \in Walker |-> NoWalk]
  /\ resetter = None
  /\ resets = 0
  /\ disturbed = FALSE
  /\ crossed = FALSE

(* The key an entry is registered under, and the keys a reset passes over.  *)
Key(x) ==
  CASE x = "Bash" -> <<"Bash">>
    [] x = Watcher -> <<"FileSystemWatcher", x>>
    [] OTHER -> <<"TimerScheduler", x>>

Infrastructure == {<<"FileSystemWatcher">>, <<"TimerScheduler">>, <<"WorkspaceIndexer">>}

-----------------------------------------------------------------------------
(* Steps of the parts                                                       *)

servicesVars == <<wakes, started, entries, registered, phase, walk, resetter, resets, disturbed, crossed>>

Observe(c) ==
  /\ Record(c)
  /\ UNCHANGED <<shellVars, servicesVars>>

TimerThread ==
  /\ TimerStep
  /\ UNCHANGED <<shellVars, servicesVars>>

(* An event has been dispatched, with or without a reset.                   *)
Dispatched(th) ==
  /\ th # resetter
  /\ IF th \in Change THEN Flushed(th) ELSE Fired(th)
  /\ disturbed' = (disturbed \/ (phase = "closing" /\ OneShot \cap timers # OneShot \cap timers'))
  /\ UNCHANGED <<shellVars, wakes, started, entries, registered, phase, walk, resetter, resets, crossed>>

Outside ==
  /\ (\E s \in Shell : ProcessStep(s)) \/ Widen
  /\ UNCHANGED <<timerVars, servicesVars>>

Bash(lifetime) ==
  /\ phase = "open"
  /\ BeginCall(lifetime)
  /\ crossed' = (crossed \/ walk["reset"].step # "none")
  /\ UNCHANGED <<timerVars, wakes, started, entries, registered, phase, walk, resetter, resets,
                 disturbed>>

(* register_teardown of the shell's kill, in place of an earlier one.       *)
LastRegistered == call.shell

Register ==
  /\ RunCommand
  /\ registered' = LastRegistered
  /\ entries' = IF "Bash" \in ToSet(entries) THEN entries ELSE Append(entries, "Bash")
  /\ UNCHANGED <<timerVars, wakes, started, phase, walk, resetter, resets, disturbed, crossed>>

(* The thread of the turn waits for a command and goes on after it.         *)
TurnThread ==
  \/ (RunStep \/ CallStep) /\ UNCHANGED <<timerVars, servicesVars>>
  \/ Register

(* The WakeUpTimer tool.                                                    *)
SetWakeUp ==
  /\ phase = "open"
  /\ call.step = "idle"
  /\ wakes > 0
  /\ wakes' = wakes - 1
  /\ Started(WakeUp)
  /\ started' = started \cup {WakeUp}
  /\ entries' = Append(entries, WakeUp)
  /\ UNCHANGED <<shellVars, registered, phase, walk, resetter, resets, disturbed, crossed>>

-----------------------------------------------------------------------------
(* Session.close                                                            *)

BeginClose ==
  /\ phase = "open"
  /\ phase' = "closing"
  /\ walk' = [walk EXCEPT !["close"] =
                 [NoWalk EXCEPT !.step = "walk", !.todo = entries, !.size = Len(entries)]]
  /\ disturbed' = (call.step # "idle" \/ resetter # None)
  /\ UNCHANGED <<timerVars, shellVars, wakes, started, entries, registered, resetter, resets, crossed>>

(* A walker calls the next teardown.                                        *)
Registered(w) == IF w = "close" THEN registered ELSE walk[w].kill

TearDown(w) ==
  LET x == Head(walk[w].todo) IN
  /\ IF x = "Bash"
       THEN /\ Kill(Registered(w))
            /\ UNCHANGED <<timerVars, countVars, stored, state, call, run>>
       ELSE BeginTeardown(w, x) /\ UNCHANGED shellVars

CloseNext ==
  /\ walk["close"].step = "walk"
  /\ IF Len(entries) # walk["close"].size
       THEN /\ phase' = "failed"
            /\ walk' = [walk EXCEPT !["close"] = NoWalk]
            /\ UNCHANGED <<timerVars, shellVars, entries>>
     ELSE IF walk["close"].todo = <<>>
       THEN /\ phase' = "closed"
            /\ entries' = <<>>
            /\ walk' = [walk EXCEPT !["close"] = NoWalk]
            /\ UNCHANGED <<timerVars, shellVars>>
     ELSE /\ TearDown("close")
          /\ walk' = [walk EXCEPT !["close"].step =
                                     IF Head(walk["close"].todo) = "Bash" THEN "walk" ELSE "call",
                                  !["close"].todo = Tail(@)]
          /\ UNCHANGED <<phase, entries>>
  /\ UNCHANGED <<wakes, started, registered, resetter, resets, disturbed, crossed>>

(* A teardown that raises ends close(): the entries after it are kept.      *)
CloseReturned ==
  LET raised == teardown["close"].step = "raised" IN
  /\ walk["close"].step = "call"
  /\ teardown["close"].step \in {"returned", "raised"}
  /\ teardown' = [teardown EXCEPT !["close"] = NoTeardown]
  /\ walk' = [walk EXCEPT !["close"] = IF raised THEN NoWalk ELSE [@ EXCEPT !.step = "walk"]]
  /\ phase' = IF raised THEN "failed" ELSE phase
  /\ UNCHANGED <<watcherVars, schedulerVars, closing, shellVars, wakes, started, entries, registered,
                 resetter, resets, disturbed, crossed>>

-----------------------------------------------------------------------------
(* _deliver_or_reset_event                                                  *)

(* No turn is in flight: the event may reset the session ...                *)
CheckReset(th) ==
  /\ resetter = None
  /\ resets < MaxResets
  /\ th \in Dispatching
  /\ call.step = "idle"
  /\ resetter' = th
  /\ resets' = resets + 1
  /\ UNCHANGED <<timerVars, shellVars, wakes, started, entries, registered, phase, walk, disturbed, crossed>>

(* ... and does, whether or not one has begun since.                        *)
Wipe ==
  /\ resetter # None
  /\ walk["reset"].step = "none"
  /\ state' = state + 1
  /\ stored' = 0
  /\ walk' = [walk EXCEPT !["reset"] =
                 [NoWalk EXCEPT !.step = "walk", !.todo = entries, !.kill = registered]]
  /\ crossed' = (crossed \/ call.step # "idle")
  /\ disturbed' = (disturbed \/ phase = "closing")
  /\ UNCHANGED <<timerVars, processVars, countVars, alive, call, run, wakes, started,
                 entries, registered, phase, resetter, resets>>

(* A teardown that raises ends the reset.                                   *)
GiveUp ==
  /\ walk' = [walk EXCEPT !["reset"] = NoWalk]
  /\ resetter' = None
  /\ crossed' = (crossed \/ "Bash" \in ToSet(walk["reset"].todo))
  /\ UNCHANGED entries

(* After a teardown its entry is deleted, which raises if it is gone.       *)
Delete(x) ==
  \/ \E i \in 1..Len(entries) :
       /\ entries[i] = x
       /\ entries' = RemoveAt(entries, i)
       /\ walk' = [walk EXCEPT !["reset"].todo = Tail(@), !["reset"].step = "walk"]
       /\ UNCHANGED <<resetter, crossed>>
  \/ x \notin ToSet(entries) /\ GiveUp

ResetEnds ==
  /\ walk' = [walk EXCEPT !["reset"] = NoWalk]
  /\ resetter' = None
  /\ UNCHANGED <<timerVars, shellVars, entries, crossed>>

ResetTearsDown(x) ==
  IF Key(x) \in Infrastructure
    THEN /\ walk' = [walk EXCEPT !["reset"].todo = Tail(@)]
         /\ UNCHANGED <<timerVars, shellVars, entries, resetter, crossed>>
    ELSE /\ TearDown("reset")
         /\ IF x = "Bash"
              THEN Delete("Bash")
              ELSE /\ walk' = [walk EXCEPT !["reset"].step = "call"]
                   /\ UNCHANGED <<entries, resetter, crossed>>

ResetNext ==
  /\ walk["reset"].step = "walk"
  /\ IF walk["reset"].todo = <<>> THEN ResetEnds ELSE ResetTearsDown(Head(walk["reset"].todo))
  /\ disturbed' = (disturbed \/ phase = "closing")
  /\ UNCHANGED <<wakes, started, registered, phase, resets>>

ResetReturned ==
  /\ walk["reset"].step = "call"
  /\ teardown' = [teardown EXCEPT !["reset"] = NoTeardown]
  /\ \/ teardown["reset"].step = "returned" /\ Delete(teardown["reset"].source)
     \/ teardown["reset"].step = "raised" /\ GiveUp
  /\ disturbed' = (disturbed \/ phase = "closing")
  /\ UNCHANGED <<watcherVars, schedulerVars, closing, shellVars, wakes, started, registered, phase,
                 resets>>

SourceTeardown(w) ==
  /\ TeardownStep(w)
  /\ UNCHANGED <<shellVars, servicesVars>>

-----------------------------------------------------------------------------
HostThread == CloseNext \/ CloseReturned \/ SourceTeardown("close")

ResetThread ==
  \/ Wipe
  \/ ResetNext
  \/ ResetReturned
  \/ SourceTeardown("reset")

Next ==
  \/ \E c \in Change : Observe(c)
  \/ TimerThread
  \/ \E th \in Dispatching : Dispatched(th) \/ CheckReset(th)
  \/ Outside
  \/ TurnThread
  \/ \E lifetime \in {"session", "new"} : Bash(lifetime)
  \/ SetWakeUp
  \/ BeginClose
  \/ HostThread
  \/ ResetThread

Spec == Init /\ [][Next]_vars

(* Timers fall due and their threads run, and a turn goes on, its clock     *)
(* included.  No command needs to end, no event, no client to close.        *)
FairSpec ==
  /\ Spec
  /\ WF_vars(TimerThread)
  /\ WF_vars(TurnThread)

-----------------------------------------------------------------------------
ServicesTypeOK ==
  /\ wakes \in 0..1
  /\ started \subseteq Source
  /\ entries \in Seq(Source \cup {"Bash"})
  /\ registered \in 0..MaxCalls
  /\ phase \in {"open", "closing", "closed", "failed"}
  /\ walk \in [Walker -> [step : {"none", "walk", "call"}, todo : Seq(Source \cup {"Bash"}),
                          size : Nat, kill : 0..MaxCalls]]
  /\ resetter \in Change \cup Entry \cup {None}
  /\ resets \in 0..MaxResets
  /\ disturbed \in BOOLEAN
  /\ crossed \in BOOLEAN

(* Every variable keeps its range.                                          *)
TypeOK == TimersTypeOK /\ ShellTypeOK /\ ServicesTypeOK

(* No order of a burst's changes, its timers and the locks strands a        *)
(* change: as long as the watcher is open, some timer will still take what  *)
(* is pending.                                                              *)
NoChangeStranded ==
  pending # {} /\ ~closing[Watcher] => \E c \in Change : debounce[c] \in {"armed", "expired"}

(* The timers of the session's sources agree with what is pending.          *)
SourcesAreSound == TypeOK /\ NoChangeStranded

(* close() fails to reach a teardown only if a call, a reset or a one-shot  *)
(* timer that ends was under way with it.                                   *)
CloseFailsOnlyDisturbed == phase = "failed" => disturbed

(* After a close that ran alone no source is open and no shell runs,        *)
(* however often shells were replaced, rebuilt for new grants, killed by a  *)
(* timeout or ended by themselves.                                          *)
NothingOutlivesClose ==
  phase = "closed" /\ ~disturbed =>
    /\ \A src \in started : closing[src]
    /\ ~crossed => \A s \in Shell : process[s] # "up"

(* A close gets to the end of its list and leaves nothing behind, unless    *)
(* something else was at work on the session with it.                       *)
CloseIsComplete == CloseFailsOnlyDisturbed /\ NothingOutlivesClose

(* Between calls the shell a later call would use is the one that close     *)
(* would kill, and no other shell runs.                                     *)
StoredIsRegistered ==
  phase = "open" /\ walk["reset"].step = "none" /\ ~crossed /\ call.step = "idle" =>
    \A s \in Shell : process[s] = "up" => s = stored /\ s = registered /\ "Bash" \in ToSet(entries)

(* A call of the Bash tool gets the output of its own command, from the one *)
(* shell that the session knows of and will kill.                           *)
ShellsAreSound == OutputIsOwn /\ AliveMeansAnswered /\ StoredIsRegistered

(* What is recorded is dispatched, unless the watcher is closed first.      *)
ChangesAreDispatched ==
  \A c \in Change :
    c \in pending ~> closing[Watcher] \/ \E d \in Change : c \in batch[d]

(* A call of the Bash tool ends, whatever the command and its shell do.     *)
CallsEnd == call.step # "idle" ~> call.step = "idle"

(* "workspace/process-level resources registered once at root-session start *)
(* and torn down only by a real `close()`" (session/mixins/core.py:84): no  *)
(* source is closed while the session is open.                              *)
SourcesCloseWithTheSession ==
  \A src \in Source : closing[src] => phase # "open"
=============================================================================
