------------------------------ MODULE EventTimers ------------------------------
(***************************************************************************)
(* The event sources of one session: a watcher that debounces file-system   *)
(* changes (hooks/fs_events.py) and schedulers with one timer per entry     *)
(* (hooks/timer_events.py).  Every timer is a thread of its own; it may     *)
(* have fired and not have run yet when somebody cancels it.                *)
(*                                                                         *)
(* A Change is a change that falls under an entry's path, of the tree as it *)
(* is observed.  The debounce timer a change arms is named after it.        *)
(*                                                                         *)
(* A Walker is a thread that tears sources down; SessionServices says when. *)
(***************************************************************************)
EXTENDS Naturals, Sequences, FiniteSets

CONSTANTS
  Change,
  Scheduler,
  Entry,
  SchedulerOf,  \* the scheduler of each entry
  OneShot,      \* the entries with one_shot set
  MaxFires,     \* bound: times an entry falls due
  Walker,
  Watcher,
  None

ASSUME TimersAssumption ==
  /\ IsFiniteSet(Scheduler)
  /\ IsFiniteSet(Entry)
  /\ SchedulerOf \in [Entry -> Scheduler]
  /\ OneShot \subseteq Entry
  /\ MaxFires \in Nat
  /\ Watcher \notin Scheduler
  /\ None \notin Change \cup Scheduler \cup {Watcher}

Source == Scheduler \cup {Watcher}

VARIABLES
  observing,  \* whether the watcher's Observer runs
  pending,    \* _pending
  current,    \* _timer: the change that armed it
  debounce,   \* the debounce timer each change armed
  batch,      \* the changes its _flush has taken
  chain,      \* the timer of each entry
  timers,     \* the entries in the dicts _timers
  fires,      \* bound: how often each entry fell due
  closing,    \* _closing_event of each source
  teardown    \* where each walker is within a source's close()

watcherVars == <<observing, pending, current, debounce, batch>>
schedulerVars == <<chain, timers, fires>>
timerVars == <<watcherVars, schedulerVars, closing, teardown>>

EntriesOf(sch) == {e \in Entry : SchedulerOf[e] = sch}
Listed(sch) == timers \cap EntriesOf(sch)
NoTeardown == [source |-> None, step |-> "none", todo |-> {}, size |-> 0]

(* The session has the watcher and the schedulers in started.               *)
TimersInit(started) ==
  /\ observing = (Watcher \in started)
  /\ pending = {}
  /\ current = None
  /\ debounce = [c \in Change |-> "none"]
  /\ batch = [c \in Change |-> {}]
  /\ chain = [e \in Entry |-> IF SchedulerOf[e] \in started THEN "armed" ELSE "none"]
  /\ timers = {e \in Entry : SchedulerOf[e] \in started}
  /\ fires = [e \in Entry |-> 0]
  /\ closing = [src \in Source |-> FALSE]
  /\ teardown = [w \in Walker |-> NoTeardown]

-----------------------------------------------------------------------------
(* The watcher                                                              *)

(* cancel() does nothing to a timer that has fired.                         *)
Cancelled(c) == IF c # None /\ debounce[c] = "armed"
                  THEN [debounce EXCEPT ![c] = "cancelled"] ELSE debounce

(* Mutant: the new timer takes the place of the old one before that one is   *)
(* cancelled.                                                               *)
RearmedTooEarly(c) == [debounce EXCEPT ![c] = "cancelled"]

Rearmed(c) == [Cancelled(current) EXCEPT ![c] = "armed"]

(* _record: the change joins the batch and pushes the end of the burst out. *)
Record(c) ==
  /\ observing
  /\ debounce[c] = "none"
  /\ pending' = pending \cup {c}
  /\ debounce' = Rearmed(c)
  /\ current' = c
  /\ UNCHANGED <<observing, batch, schedulerVars, closing, teardown>>

Expire(c) ==
  /\ debounce[c] = "armed"
  /\ debounce' = [debounce EXCEPT ![c] = "expired"]
  /\ UNCHANGED <<observing, pending, current, batch, schedulerVars, closing, teardown>>

(* _flush takes what is pending, whichever timer it runs for, and forgets   *)
(* the current timer, which may be a later one.                             *)
Flush(c) ==
  /\ debounce[c] = "expired"
  /\ pending' = {}
  /\ current' = None
  /\ IF pending = {} \/ closing[Watcher]
       THEN debounce' = [debounce EXCEPT ![c] = "done"] /\ UNCHANGED batch
       ELSE /\ debounce' = [debounce EXCEPT ![c] = "dispatching"]
            /\ batch' = [batch EXCEPT ![c] = pending]
  /\ UNCHANGED <<observing, schedulerVars, closing, teardown>>

(* The dispatch returns, or raises, which is logged.                        *)
Flushed(c) ==
  /\ debounce[c] = "dispatching"
  /\ debounce' = [debounce EXCEPT ![c] = "done"]
  /\ UNCHANGED <<observing, pending, current, batch, schedulerVars, closing, teardown>>

-----------------------------------------------------------------------------
(* The schedulers                                                           *)

Due(e) ==
  /\ chain[e] = "armed"
  /\ fires[e] < MaxFires
  /\ chain' = [chain EXCEPT ![e] = "expired"]
  /\ fires' = [fires EXCEPT ![e] = @ + 1]
  /\ UNCHANGED <<watcherVars, timers, closing, teardown>>

(* _fire looks whether the scheduler is being closed, once ...              *)
Fire(e) ==
  /\ chain[e] = "expired"
  /\ chain' = [chain EXCEPT ![e] = IF closing[SchedulerOf[e]] THEN "ended" ELSE "dispatching"]
  /\ UNCHANGED <<watcherVars, timers, fires, closing, teardown>>

(* ... dispatches, raises or not, and drops a one-shot entry, or looks      *)
(* again before it schedules the next fire.                                 *)
Dropped(e) == e \in OneShot

Fired(e) ==
  /\ chain[e] = "dispatching"
  /\ IF Dropped(e)
       THEN timers' = timers \ {e} /\ chain' = [chain EXCEPT ![e] = "ended"]
       ELSE /\ UNCHANGED timers
            /\ chain' = [chain EXCEPT ![e] =
                             IF closing[SchedulerOf[e]] THEN "ended" ELSE "checked"]
  /\ UNCHANGED <<watcherVars, fires, closing, teardown>>

Rearm(e) ==
  /\ chain[e] = "checked"
  /\ chain' = [chain EXCEPT ![e] = "armed"]
  /\ timers' = timers \cup {e}
  /\ UNCHANGED <<watcherVars, fires, closing, teardown>>

(* start() of a scheduler made while the session runs.                      *)
Started(sch) ==
  /\ chain' = [e \in Entry |-> IF SchedulerOf[e] = sch THEN "armed" ELSE chain[e]]
  /\ timers' = timers \cup EntriesOf(sch)
  /\ UNCHANGED <<watcherVars, fires, closing, teardown>>

-----------------------------------------------------------------------------
(* close() of a source, by walker w                                         *)

BeginTeardown(w, src) ==
  /\ closing' = [closing EXCEPT ![src] = TRUE]
  /\ teardown' = [teardown EXCEPT ![w] =
        IF src = Watcher
          THEN [NoTeardown EXCEPT !.source = src, !.step = "cancel"]
          ELSE [source |-> src, step |-> "cancel", todo |-> Listed(src),
                size |-> Cardinality(Listed(src))]]
  /\ UNCHANGED <<watcherVars, schedulerVars>>

(* The watcher cancels the current timer, then stops observing: a change    *)
(* recorded in between arms a timer that nobody cancels.                    *)
CancelCurrent(w) ==
  /\ teardown[w].source = Watcher
  /\ teardown[w].step = "cancel"
  /\ debounce' = Cancelled(current)
  /\ current' = None
  /\ teardown' = [teardown EXCEPT ![w].step = "stop"]
  /\ UNCHANGED <<observing, pending, batch, schedulerVars, closing>>

StopObserver(w) ==
  /\ teardown[w].source = Watcher
  /\ teardown[w].step = "stop"
  /\ observing' = FALSE
  /\ teardown' = [teardown EXCEPT ![w].step = "returned"]
  /\ UNCHANGED <<pending, current, debounce, batch, schedulerVars, closing>>

(* A scheduler cancels the timers in its dict one by one: the walk raises   *)
(* when the dict has changed its size, also at its end.                     *)
CancelNext(w) ==
  LET down == teardown[w] IN
  /\ down.source \in Scheduler
  /\ down.step = "cancel"
  /\ IF Cardinality(Listed(down.source)) # down.size
       THEN teardown' = [teardown EXCEPT ![w].step = "raised"] /\ UNCHANGED schedulerVars
     ELSE IF down.todo = {}
       THEN /\ timers' = timers \ EntriesOf(down.source)
            /\ teardown' = [teardown EXCEPT ![w].step = "returned"]
            /\ UNCHANGED <<chain, fires>>
     ELSE \E e \in down.todo :
            /\ chain' = [chain EXCEPT ![e] = IF @ = "armed" THEN "cancelled" ELSE @]
            /\ teardown' = [teardown EXCEPT ![w].todo = @ \ {e}]
            /\ UNCHANGED <<timers, fires>>
  /\ UNCHANGED <<watcherVars, closing>>

TeardownStep(w) == CancelCurrent(w) \/ StopObserver(w) \/ CancelNext(w)

-----------------------------------------------------------------------------
(* The threads that dispatch an event now.                                  *)
Dispatching == {c \in Change : debounce[c] = "dispatching"}
                 \cup {e \in Entry : chain[e] = "dispatching"}

(* A timer thread moves on.  Time passes for those that wait.               *)
TimerStep ==
  \/ \E c \in Change : Expire(c) \/ Flush(c)
  \/ \E e \in Entry : Due(e) \/ Fire(e) \/ Rearm(e)

TimersTypeOK ==
  /\ observing \in BOOLEAN
  /\ pending \subseteq Change
  /\ current \in Change \cup {None}
  /\ debounce \in [Change -> {"none", "armed", "cancelled", "expired", "dispatching", "done"}]
  /\ batch \in [Change -> SUBSET Change]
  /\ chain \in [Entry -> {"none", "armed", "cancelled", "expired", "dispatching", "checked",
                          "ended"}]
  /\ timers \subseteq Entry
  /\ fires \in [Entry -> 0..MaxFires]
  /\ closing \in [Source -> BOOLEAN]
  /\ teardown \in [Walker -> [source : Source \cup {None}, todo : SUBSET Entry,
                              step : {"none", "cancel", "stop", "returned", "raised"},
                              size : 0..Cardinality(Entry)]]
=============================================================================
