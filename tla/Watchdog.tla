------------------------------- MODULE Watchdog -------------------------------
(***************************************************************************)
(* The liveness watchdog of the terminal host (watchdog.py): a thread that  *)
(* ends the process when the app's thread has not snoozed it for Timeout.   *)
(*                                                                         *)
(* The app's thread is in a span: "free" (its snooze timer runs), "closing" *)
(* (a session is closed under suspended()), "resuming" (between the two     *)
(* statements that leave suspended()), "bare" (a session is closed without  *)
(* it, when a saved one is loaded or restored), "wedged" or "over".  Time   *)
(* is counted in periods of the snooze timer, and none passes between the   *)
(* two things the watchdog's thread reads.                                  *)
(***************************************************************************)
EXTENDS Naturals

CONSTANTS Timeout   \* watchdogTimeout, in periods of the snooze timer

ASSUME WatchdogAssumption == Timeout \in Nat \ {0, 1}

VARIABLES
  lapse,   \* periods since _last_snooze, up to Timeout
  paused,  \* _paused
  span,    \* what the app's thread is in
  reader,  \* the watchdog's thread: "sleeps" (a poll interval), "polls", "checks", having
           \* seen ~paused, or "cleans" (run_bounded_cleanup)
  stopped, \* _stop
  process, \* "runs" or "killed"
  firedIn  \* history: the span in which the watchdog fired

dogVars == <<lapse, paused, span, reader, stopped, process, firedIn>>

DogInit ==
  /\ lapse = 0
  /\ paused = FALSE
  /\ stopped \in BOOLEAN   \* from the start: it is disabled
  /\ span = IF stopped THEN "over" ELSE "free"
  /\ reader = "sleeps"
  /\ process = "runs"
  /\ firedIn = "none"

(* A free loop does not let two periods go by without a snooze; within one  *)
(* the watchdog's thread wakes up.                                          *)
Tick ==
  /\ process = "runs" /\ reader # "checks" /\ span # "over"
  /\ span = "free" => lapse = 0
  /\ lapse' = IF lapse < Timeout THEN lapse + 1 ELSE lapse
  /\ reader' = IF reader = "sleeps" THEN "polls" ELSE reader
  /\ UNCHANGED <<paused, span, stopped, process, firedIn>>

Snooze ==
  /\ process = "runs" /\ span = "free"
  /\ lapse' = 0
  /\ UNCHANGED <<paused, span, reader, stopped, process, firedIn>>

-----------------------------------------------------------------------------
(* The app's thread                                                         *)

Into(from, to) == process = "runs" /\ span = from /\ span' = to

Suspend ==
  /\ Into("free", "closing")
  /\ paused' = TRUE
  /\ UNCHANGED <<lapse, reader, stopped, process, firedIn>>

Unpause ==
  /\ Into("closing", "resuming")
  /\ paused' = FALSE
  /\ UNCHANGED <<lapse, reader, stopped, process, firedIn>>

(* Mutant: the clock is left as it is.                                      *)
SnoozedNot == lapse

Snoozed == 0

Resume ==
  /\ Into("resuming", "free")
  /\ lapse' = Snoozed
  /\ UNCHANGED <<paused, reader, stopped, process, firedIn>>

(* The next snooze comes as soon as the loop is free again.                 *)
CloseBare == Into("free", "bare") /\ UNCHANGED <<lapse, paused, reader, stopped, process, firedIn>>
ClosedBare ==
  /\ Into("bare", "free")
  /\ lapse' = 0
  /\ UNCHANGED <<paused, reader, stopped, process, firedIn>>

Wedge == Into("free", "wedged") /\ UNCHANGED <<lapse, paused, reader, stopped, process, firedIn>>

(* on_unmount                                                               *)
Stop ==
  /\ Into("free", "over")
  /\ stopped' = TRUE
  /\ UNCHANGED <<lapse, paused, reader, process, firedIn>>

-----------------------------------------------------------------------------
(* The watchdog's thread                                                    *)

(* Mutant: the pause is not looked at.                                      *)
SeesPauseNever == FALSE

SeesPause == paused

Poll ==
  /\ process = "runs" /\ reader = "polls" /\ ~stopped
  /\ reader' = IF SeesPause THEN "sleeps" ELSE "checks"
  /\ UNCHANGED <<lapse, paused, span, stopped, process, firedIn>>

(* Mutant: off by one, for a clock that does not go further.                *)
LateBeyond == lapse > Timeout

Late == lapse >= Timeout

Check ==
  /\ process = "runs" /\ reader = "checks"
  /\ IF Late
       THEN reader' = "cleans" /\ firedIn' = span
       ELSE reader' = "sleeps" /\ UNCHANGED firedIn
  /\ UNCHANGED <<lapse, paused, span, stopped, process>>

(* force_exit: the cleanup has ended, or its grace has.                     *)
Kill ==
  /\ process = "runs" /\ reader = "cleans"
  /\ process' = "killed"
  /\ UNCHANGED <<lapse, paused, span, reader, stopped, firedIn>>

DogNext ==
  \/ Tick \/ Snooze
  \/ Suspend \/ Unpause \/ Resume
  \/ CloseBare \/ ClosedBare
  \/ Wedge \/ Stop
  \/ Poll \/ Check \/ Kill

(* Time goes on, and the watchdog's thread runs.                            *)
DogFairness == WF_dogVars(Tick) /\ WF_dogVars(Poll) /\ WF_dogVars(Check) /\ WF_dogVars(Kill)

-----------------------------------------------------------------------------
(* Every variable keeps its range.                                          *)
DogTypeOK ==
  /\ lapse \in 0..Timeout
  /\ paused \in BOOLEAN /\ stopped \in BOOLEAN
  /\ span \in {"free", "closing", "resuming", "bare", "wedged", "over"}
  /\ reader \in {"sleeps", "polls", "checks", "cleans"}
  /\ process \in {"runs", "killed"}

(* The process is killed only for an app's thread that does not come back,  *)
(* and not for a close however long ("can't be mistaken for a wedge",       *)
(* suspended), but at two points: right after the pause is taken back, and  *)
(* in the closes that are not suspended.                                    *)
SparesTheLiving ==
  DogTypeOK /\ firedIn \in {"none", "wedged", "bare", "resuming"}

(* A loop that has wedged takes the process with it.                        *)
WedgeIsOver == span # "wedged" \/ process = "killed"
=============================================================================
