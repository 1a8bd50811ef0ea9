---------------------------- MODULE PersistentShell ----------------------------
(***************************************************************************)
(* The shells a session keeps between calls of its Bash tool                *)
(* (tools/bash.py): one process each, a thread per output stream that puts  *)
(* what it reads into one queue, and _run_raw, which waits there for the    *)
(* sentinel that ends a command on both streams, for a deadline, or for a   *)
(* cancel.                                                                  *)
(*                                                                         *)
(* Of the output only the sentinels and the ends of the streams are kept.   *)
(* Sentinels of different commands differ in the code; OutputIsOwn says     *)
(* that none is left to be confused.  Shells are numbered as they are made. *)
(***************************************************************************)
EXTENDS Naturals, Sequences

CONSTANTS
  MaxCalls,   \* bound: calls of the tool, each of which makes one shell at most
  MaxGrants   \* bound: grants that widen the allowed directories

ASSUME ShellAssumption == MaxCalls \in Nat /\ MaxGrants \in Nat

Shell == 1..MaxCalls
Stream == {"stdout", "stderr"}

VARIABLES
  process,   \* of each shell: "none", "up" or "gone"
  jobs,      \* whether a background job of it lives
  script,    \* what the process is doing
  queue,     \* what its reader threads have read, per stream
  alive,     \* PersistentShell.alive
  snapshot,  \* sandbox_snapshot: the grants its sandbox was made with
  made,      \* shells made so far
  grants,    \* bound: grants so far
  calls,     \* bound: calls so far
  stored,    \* the shell in the session's tool_state (0: none)
  state,     \* how often tool_state was replaced by a new one
  call,      \* the call in progress
  run        \* its _run_raw in progress

processVars == <<process, jobs, script, queue>>
countVars == <<snapshot, made, grants, calls>>
shellVars == <<processVars, countVars, alive, stored, state, call, run>>

NoCall == [step |-> "idle", shell |-> 0, old |-> 0, state |-> 0]
NoRun == [step |-> "none", open |-> {}, exit |-> "none", eof |-> FALSE, reason |-> "none"]

(* How many calls are left is for the session to say.                       *)
ShellInit ==
  /\ process = [s \in Shell |-> "none"]
  /\ jobs = [s \in Shell |-> FALSE]
  /\ script = [s \in Shell |-> "none"]
  /\ queue = [s \in Shell |-> [x \in Stream |-> <<>>]]
  /\ alive = [s \in Shell |-> FALSE]
  /\ snapshot = [s \in Shell |-> 0]
  /\ made = 0
  /\ grants = 0
  /\ stored = 0
  /\ state = 0
  /\ call = NoCall
  /\ run = NoRun

-----------------------------------------------------------------------------
(* The processes                                                            *)

Ended(s) == \E x \in Stream : \E i \in 1..Len(queue[s][x]) : queue[s][x][i] = "eof"
WithEof(s) == [x \in Stream |-> Append(queue[s][x], "eof")]

(* A script ends: its sentinel appears on stdout with the exit status, "ok" *)
(* whatever it is, then on stderr.  The command may leave a background job. *)
FinishStdout(s) ==
  /\ script[s] = "running"
  /\ script' = [script EXCEPT ![s] = "half"]
  /\ queue' = [queue EXCEPT ![s]["stdout"] = Append(@, "ok")]
  /\ \E left \in {jobs[s], jobs[s] \/ call.step = "command"} : jobs' = [jobs EXCEPT ![s] = left]
  /\ UNCHANGED process

FinishStderr(s) ==
  /\ script[s] = "half"
  /\ script' = [script EXCEPT ![s] = "none"]
  /\ queue' = [queue EXCEPT ![s]["stderr"] = Append(@, "ok")]
  /\ UNCHANGED <<process, jobs>>

(* The shell exits: by its command, by a SIGINT, by itself.  The streams    *)
(* end with it, unless a background job has them open.                      *)
Exit(s) ==
  /\ process[s] = "up"
  /\ process' = [process EXCEPT ![s] = "gone"]
  /\ script' = [script EXCEPT ![s] = "none"]
  /\ \/ queue' = [queue EXCEPT ![s] = WithEof(s)]
     \/ jobs[s] /\ UNCHANGED queue
  /\ UNCHANGED jobs

JobEnds(s) ==
  /\ jobs[s]
  /\ jobs' = [jobs EXCEPT ![s] = FALSE]
  /\ queue' = [queue EXCEPT ![s] = IF process[s] = "gone" /\ ~Ended(s) THEN WithEof(s) ELSE @]
  /\ UNCHANGED <<process, script>>

(* After the last call nobody looks at a shell any more.                    *)
ProcessStep(s) ==
  /\ calls < MaxCalls \/ call.step # "idle"
  /\ FinishStdout(s) \/ FinishStderr(s) \/ Exit(s) \/ JobEnds(s)
  /\ UNCHANGED <<countVars, alive, stored, state, call, run>>

(* kill(), a no-op for a shell known to be dead: SIGKILL to its group.      *)
Kill(s) ==
  IF s # 0 /\ alive[s]
    THEN /\ process' = [process EXCEPT ![s] = "gone"]
         /\ jobs' = [jobs EXCEPT ![s] = FALSE]
         /\ script' = [script EXCEPT ![s] = "none"]
         /\ queue' = [queue EXCEPT ![s] = IF Ended(s) THEN @ ELSE WithEof(s)]
         /\ alive' = [alive EXCEPT ![s] = FALSE]
    ELSE UNCHANGED <<processVars, alive>>

-----------------------------------------------------------------------------
(* _run_raw, in the shell of the call                                       *)

Looping == [NoRun EXCEPT !.step = "loop", !.open = Stream]
Over == [NoRun EXCEPT !.step = "over"]
TimedOut == run.reason = "timeout" /\ run.exit = "none"
Clean == alive[call.shell] /\ ~TimedOut

(* The script is written to the shell, in vain when that is gone.           *)
StartRun(c) ==
  LET s == c.shell IN
  /\ call' = c
  /\ IF alive[s] /\ process[s] = "up"
       THEN /\ run' = Looping
            /\ script' = [script EXCEPT ![s] = "running"]
            /\ UNCHANGED alive
       ELSE /\ run' = Over
            /\ alive' = [alive EXCEPT ![s] = FALSE]
            /\ UNCHANGED script
  /\ UNCHANGED <<process, jobs, queue>>

(* Only a sentinel on stdout carries the status.                            *)
StatusOf(x, item) == IF x = "stdout" /\ item # "eof" THEN item ELSE run.exit

Take(x) ==
  LET s == call.shell
      item == Head(queue[s][x]) IN
  /\ run.step = "loop"
  /\ run.open # {}
  /\ queue[s][x] # <<>>
  /\ queue' = [queue EXCEPT ![s][x] = Tail(@)]
  /\ run' = [run EXCEPT !.open = @ \ {x},
                        !.exit = StatusOf(x, item),
                        !.eof = @ \/ item = "eof"]
  /\ UNCHANGED <<process, jobs, script, countVars, alive, stored, state, call>>

(* The deadline, or a cancel while a command runs: SIGINT, which the script *)
(* may or may not end of, and a grace period.                               *)
Interrupt(reason) ==
  /\ run.step = "loop"
  /\ run.open # {}
  /\ run.reason = "none"
  /\ reason = "cancel" => call.step = "command"
  /\ run' = [run EXCEPT !.reason = reason]
  /\ UNCHANGED <<processVars, countVars, alive, stored, state, call>>

(* Mutant: after the grace period the tool returns.                         *)
LetLive(s) == UNCHANGED <<processVars, alive>>

AfterGrace(s) == Kill(s)

(* Mutant: a command that was cancelled has all the time it wants.          *)
DeadlinePassed == run.reason = "timeout"

GracePassed == run.reason # "none"

Escalate ==
  /\ run.step = "loop"
  /\ run.open # {}
  /\ GracePassed
  /\ AfterGrace(call.shell)
  /\ run' = [run EXCEPT !.step = "over"]
  /\ UNCHANGED <<countVars, stored, state, call>>

(* Both streams are done: where one ended, the shell is dead.               *)
EndRun ==
  /\ run.step = "loop"
  /\ run.open = {}
  /\ run' = [run EXCEPT !.step = "over"]
  /\ alive' = IF run.eof THEN [alive EXCEPT ![call.shell] = FALSE] ELSE alive
  /\ UNCHANGED <<processVars, countVars, stored, state, call>>

RunStep ==
  \/ \E x \in Stream : Take(x)
  \/ \E reason \in {"timeout", "cancel"} : Interrupt(reason)
  \/ Escalate
  \/ EndRun

-----------------------------------------------------------------------------
(* _execute_persistent                                                      *)

(* The stored shell, if it is alive, is ended ("new"), used as it is, or    *)
(* asked for its jobs because its sandbox no longer covers what is granted. *)
BeginCall(lifetime) ==
  LET s == IF stored # 0 /\ alive[stored] THEN stored ELSE 0 IN
  /\ call.step = "idle"
  /\ calls < MaxCalls
  /\ calls' = calls + 1
  /\ \/ /\ s = 0 \/ lifetime = "new"
        /\ Kill(s)
        /\ call' = [NoCall EXCEPT !.step = "spawn", !.state = state]
        /\ UNCHANGED run
     \/ /\ s # 0 /\ lifetime = "session" /\ snapshot[s] = grants
        /\ call' = [NoCall EXCEPT !.step = "register", !.shell = s, !.state = state]
        /\ UNCHANGED <<processVars, alive, run>>
     \/ /\ s # 0 /\ lifetime = "session" /\ snapshot[s] # grants
        /\ StartRun([NoCall EXCEPT !.step = "jobs", !.shell = s, !.state = state])
  /\ UNCHANGED <<snapshot, made, grants, stored, state>>

(* A shell with jobs is left alone and the call refused; a probe that fails *)
(* counts as no jobs.  Another is to be rebuilt, with its environment.      *)
AfterJobs ==
  /\ call.step = "jobs"
  /\ run.step = "over"
  /\ IF Clean /\ jobs[call.shell]
       THEN /\ call' = [call EXCEPT !.step = "refuse"]
            /\ run' = NoRun
            /\ UNCHANGED <<processVars, alive>>
       ELSE StartRun([call EXCEPT !.step = "export"])
  /\ UNCHANGED <<countVars, stored, state>>

AfterExport ==
  /\ call.step = "export"
  /\ run.step = "over"
  /\ call' = [call EXCEPT !.step = "spawn", !.old = call.shell]
  /\ run' = NoRun
  /\ UNCHANGED <<processVars, countVars, alive, stored, state>>

(* A shell is made and runs its bootstrap scripts, which are one here.      *)
Spawn ==
  LET s == made + 1 IN
  /\ call.step = "spawn"
  /\ made' = s
  /\ snapshot' = [snapshot EXCEPT ![s] = grants]
  /\ process' = [process EXCEPT ![s] = "up"]
  /\ alive' = [alive EXCEPT ![s] = TRUE]
  /\ script' = [script EXCEPT ![s] = "running"]
  /\ run' = Looping
  /\ call' = [call EXCEPT !.step = "bootstrap", !.shell = s]
  /\ UNCHANGED <<jobs, queue, grants, calls, stored, state>>

(* Only now it is stored, in the tool_state the call began with, and the    *)
(* shell it replaces is killed.                                             *)
(* Mutant: the replaced shell is left to itself.                            *)
LeaveOld == UNCHANGED <<processVars, alive>>

RetireOld == Kill(call.old)

AfterBootstrap ==
  /\ call.step = "bootstrap"
  /\ run.step = "over"
  /\ RetireOld
  /\ stored' = IF call.state = state THEN call.shell ELSE stored
  /\ call' = [call EXCEPT !.step = "register", !.old = 0]
  /\ run' = NoRun
  /\ UNCHANGED <<countVars, state>>

(* Once its kill is registered with the session the command runs.           *)
RunCommand ==
  /\ \/ /\ call.step = "register"
        /\ StartRun([call EXCEPT !.step = "command"])
     \/ /\ call.step = "refuse"
        /\ call' = NoCall
        /\ UNCHANGED <<processVars, alive, run>>
  /\ UNCHANGED <<countVars, stored, state>>

(* A dead shell is forgotten.                                               *)
Return ==
  /\ stored' = IF ~alive[call.shell] /\ call.state = state THEN 0 ELSE stored
  /\ call' = NoCall
  /\ run' = NoRun
  /\ UNCHANGED <<processVars, alive>>

(* The working directory is asked for when the shell can still be asked.    *)
AfterCommand ==
  /\ call.step = "command"
  /\ run.step = "over"
  /\ IF Clean /\ run.reason # "cancel"
       THEN StartRun([call EXCEPT !.step = "pwd"]) /\ UNCHANGED stored
       ELSE Return
  /\ UNCHANGED <<countVars, state>>

AfterPwd ==
  /\ call.step = "pwd"
  /\ run.step = "over"
  /\ Return
  /\ UNCHANGED <<countVars, state>>

CallStep == AfterJobs \/ AfterExport \/ Spawn \/ AfterBootstrap \/ AfterCommand \/ AfterPwd

-----------------------------------------------------------------------------
(* The user grants another directory.  Before the first shell is made, and  *)
(* after the last call has begun, it makes no difference.                   *)
Widen ==
  /\ grants < MaxGrants
  /\ made > 0
  /\ calls < MaxCalls
  /\ grants' = grants + 1
  /\ UNCHANGED <<processVars, snapshot, made, calls, alive, stored, state, call, run>>

-----------------------------------------------------------------------------
ShellTypeOK ==
  /\ process \in [Shell -> {"none", "up", "gone"}]
  /\ jobs \in [Shell -> BOOLEAN]
  /\ script \in [Shell -> {"none", "running", "half"}]
  /\ queue \in [Shell -> [Stream -> Seq({"ok", "eof"})]]
  /\ alive \in [Shell -> BOOLEAN]
  /\ snapshot \in [Shell -> 0..MaxGrants]
  /\ made \in 0..MaxCalls
  /\ grants \in 0..MaxGrants
  /\ calls \in 0..MaxCalls
  /\ stored \in 0..MaxCalls
  /\ state \in Nat
  /\ call \in [step : {"idle", "jobs", "export", "spawn", "bootstrap", "register", "refuse",
                       "command", "pwd"},
              shell : 0..MaxCalls, old : 0..MaxCalls, state : Nat]
  /\ run \in [step : {"none", "loop", "over"}, open : SUBSET Stream, exit : {"none", "ok"},
             eof : BOOLEAN, reason : {"none", "timeout", "cancel"}]

(* A command never starts in a shell that has another still running, or     *)
(* whose sentinel nobody has read: what a shell prints while the tool waits *)
(* is the output of the command the tool waits for, or of a background job. *)
OutputIsOwn ==
  \A s \in Shell : alive[s] /\ process[s] = "up" /\ ~(call.shell = s /\ run.step = "loop") =>
    /\ script[s] = "none"
    /\ queue[s] = [x \in Stream |-> <<>>]

(* When a wait ends and the shell is still taken for alive, the exit status *)
(* of the command is known: a command that is reported as timed out, or as  *)
(* cancelled without a status, took the terminal with it.                   *)
AliveMeansAnswered ==
  run.step = "over" /\ alive[call.shell] => run.exit # "none"
=============================================================================
