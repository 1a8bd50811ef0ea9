----------------------------- MODULE ToolRound -----------------------------
(***************************************************************************)
(* One session's turns: _dispatch_turn's loop over rounds of tool calls    *)
(* (session/mixins/turns.py), _run_tool_calls within a round               *)
(* (tool_execution.py), the questions a call raises and the retry after    *)
(* their answers (permissions.py), and the grants the answers leave in the *)
(* session, in the template of its process and in two configuration files, *)
(* one of which another session or process rewrites as well.               *)
(***************************************************************************)
EXTENDS PermissionTables, Integers, Sequences, SequencesExt

CONSTANTS
  Privileged,    \* files under klorb's own directories
  Calls,         \* tool calls the model may make: [tool, items]
  UserFiles,     \* what the user's configuration file may hold at first
  ProjectFiles,  \* what the workspace's file may hold at first
  Limits,        \* values of tools.maxCallsPerTurn
  MaxCalls,      \* bound: calls in one reply
  MaxRounds,     \* MAX_TOOL_CALL_ROUNDS
  MaxTurns,      \* bound: turns begun
  OtherGrant     \* [paths, write, action]: the grant another session records

(* An ask that names no path: StructuralResource.                           *)
Structural == [reason |-> "unclassified"]

Scope    == {"once", "session", "workspace", "homedir"}
Decision == [action : {"allow", "deny"}, scope : Scope]
Grant    == [item : PathItem, action : {"allow", "deny"}, scope : Scope \ {"once"}]

ASSUME RoundAssumption ==
  /\ Privileged \subseteq File
  /\ \A c \in Calls : /\ c.tool \in {"plain", "file", "bash", "escalate", "questions"}
                      /\ c.items \in Seq(PathItem \cup {Structural})
                      /\ c.tool = "file" => Len(c.items) = 1 /\ c.items[1] # Structural
  /\ UserFiles \subseteq Access /\ ProjectFiles \subseteq Access
  /\ Limits \subseteq Nat
  /\ {MaxCalls, MaxRounds, MaxTurns} \subseteq Nat \ {0}
  /\ OtherGrant \in [paths : SUBSET Dir, write : BOOLEAN, action : {"allow", "deny"}]

NoJob == [step |-> "none"]

VARIABLES
  access,      \* SessionConfig.workspace_access: readDirs and writeDirs
  template,    \* ProcessConfig.session's tables
  disk,        \* the tables of the "user" file and of the "project" file
  framework,   \* permission_framework
  approved,    \* SessionConfig.approved_scopes holds the scope asked for
  interactive, \* whether the turn's callbacks can ask a user
  limit,       \* max_tool_calls_per_turn
  raises,      \* history: times the limit was raised in this turn
  phase,       \* what the turn does next or waits for
  cancel,      \* cancel_event
  reply,       \* tool calls of the current tool_use message
  at,          \* index of the call in hand, 0 between rounds
  answered,    \* calls of the round that have their tool_response
  owed,        \* history: some call of the conversation has none
  stopped,     \* history: a turn of the conversation was broken off
  count,       \* _tool_calls_this_turn
  rounds,      \* rounds of this turn
  turns,       \* turns begun
  items,       \* what the call in hand asks about, by its place in the call
  decisions,   \* the answers so far, by the same places
  ran,         \* history: items the last answered call touched
  todo,        \* places of the answers still to be applied as grants
  job,         \* the rewrite of a configuration file in progress
  other,       \* the other session's grant: "ready", "read" or "done"
  snapshot,    \* what the other session read of the project file
  overlapped,  \* history: two rewrites of a file overlapped
  loaded,      \* history: tables and limit the process started with
  consent,     \* history: directories a user was shown and allowed
  promised,    \* history: grants on file
  narrowed     \* history: a grant recorded narrower than it was shown

tableVars   == <<access, template, disk>>
modeVars    == <<framework, approved, interactive>>
limitVars   == <<limit, raises>>
roundVars   == <<reply, at, answered, owed, stopped>>
paceVars    == <<count, rounds, turns>>
askVars     == <<items, decisions>>
grantVars   == <<todo, job>>
otherVars   == <<other, snapshot, overlapped>>
consentVars == <<loaded, consent, promised, narrowed>>
vars == <<tableVars, modeVars, limitVars, phase, cancel, roundVars, paceVars, askVars, ran,
          grantVars, otherVars, consentVars>>

-----------------------------------------------------------------------------
(* The layers a process loads: the workspace's file only if it is trusted.  *)
Load(files) == IF Trusted THEN Concat(files["user"], files["project"]) ELSE files["user"]

Init ==
  /\ \E u \in UserFiles, p \in ProjectFiles :
        disk = [f \in {"user", "project"} |-> IF f = "user" THEN u ELSE p]
  /\ template = Load(disk) /\ access = template
  /\ framework = "ask" /\ approved = FALSE /\ interactive \in BOOLEAN
  /\ limit \in Limits /\ raises = 0
  /\ loaded = [access |-> template, limit |-> limit]
  /\ phase = "idle" /\ cancel = FALSE
  /\ reply = <<>> /\ at = 0 /\ answered = {} /\ owed = FALSE /\ stopped = FALSE
  /\ count = 0 /\ rounds = 0 /\ turns = 0
  /\ items = <<>> /\ decisions = <<>> /\ ran = {}
  /\ todo = {} /\ job = NoJob
  /\ other = "ready" /\ snapshot = NoAccess /\ overlapped = FALSE
  /\ consent = {} /\ promised = {} /\ narrowed = FALSE

Call == reply[at]

(* The verdict on one item of a call: a privileged path is denied first, a  *)
(* one-shot override comes before the tables.                               *)
ItemVerdict(item, override) ==
  IF item = Structural
    THEN IF item \in override THEN "allow" ELSE "ask"
  ELSE IF item.file \in Privileged /\ ~approved THEN "deny"
  ELSE IF \E o \in override \ {Structural} : o.file = item.file THEN "allow"
  ELSE VerdictOf(access, item)

Permitted(override) == \A i \in ToSet(Call.items) : ItemVerdict(i, override) = "allow"

Denied == \E i \in ToSet(Call.items) : ItemVerdict(i, {}) = "deny"

Asked == {k \in DOMAIN Call.items : ItemVerdict(Call.items[k], {}) = "ask"}

AskedItems == [k \in Asked |-> Call.items[k]]

First(places) == CHOOSE k \in places : \A j \in places : k <= j

(* The items whose answer was "once": the PermissionOverride of the retry.  *)
(* Mutant: every allowed item is in it.                                     *)
OverrideAllowed == {items[k] : k \in {j \in DOMAIN decisions : decisions[j].action = "allow"}}

Override == {items[k] : k \in {j \in DOMAIN decisions : decisions[j].scope = "once"}}

(* The call gets its tool_response, and the last one ends the round.        *)
(* Mutant: a call that was refused gets none.                               *)
RecordIfRun(touched) == IF touched = {} /\ Call.items # <<>> THEN answered ELSE answered \cup {at}

Record(touched) == answered \cup {at}

Answer(touched) ==
  /\ ran' = touched
  /\ IF at = Len(reply)
       THEN /\ phase' = "model" /\ at' = 0 /\ answered' = {}
            /\ owed' = (owed \/ Record(touched) # 1..Len(reply))
       ELSE /\ phase' = "calls" /\ at' = at + 1 /\ answered' = Record(touched)
            /\ UNCHANGED owed
  /\ UNCHANGED <<reply, stopped>>

(* ResponseAborted, ToolCallLimitExceeded or the provider's failure breaks  *)
(* the turn off; calls of the round without a response keep none.           *)
Stop ==
  /\ phase' = "idle"
  /\ stopped' = TRUE
  /\ owed' = (owed \/ at # 0)
  /\ at' = 0 /\ answered' = {}
  /\ UNCHANGED reply

-----------------------------------------------------------------------------
StartTurn ==
  /\ phase = "idle"
  /\ turns < MaxTurns
  /\ turns' = turns + 1
  /\ phase' = "model"
  /\ cancel' = FALSE
  /\ count' = 0 /\ rounds' = 0 /\ raises' = 0
  /\ UNCHANGED <<tableVars, modeVars, limit, roundVars, askVars, ran, grantVars, otherVars, consentVars>>

(* The model's last word, or the provider's abort or failure.               *)
FinishTurn ==
  /\ phase = "model"
  /\ \/ phase' = "idle" /\ UNCHANGED roundVars
     \/ Stop
  /\ UNCHANGED <<tableVars, modeVars, limitVars, cancel, paceVars, askVars, ran, grantVars,
                 otherVars, consentVars>>

OutOfRounds == rounds = MaxRounds

(* The model asks for tools.  Its message is in the history before the loop *)
(* looks at the cancel event and at the number of rounds.                   *)
BeginRound(calls) ==
  /\ phase = "model"
  /\ IF cancel \/ OutOfRounds
       THEN /\ phase' = "idle" /\ stopped' = TRUE /\ owed' = TRUE
            /\ UNCHANGED <<reply, at, answered, rounds>>
       ELSE /\ phase' = "calls" /\ reply' = calls /\ at' = 1 /\ rounds' = rounds + 1
            /\ UNCHANGED <<answered, owed, stopped>>
  /\ items' = <<>> /\ decisions' = <<>> /\ ran' = {}
  /\ UNCHANGED <<tableVars, modeVars, limitVars, cancel, count, turns, grantVars, otherVars, consentVars>>

AbortBeforeCall ==
  /\ phase = "calls"
  /\ cancel
  /\ Stop
  /\ UNCHANGED <<tableVars, modeVars, limitVars, cancel, paceVars, askVars, ran, grantVars,
                 otherVars, consentVars>>

AtLimit == count >= limit

(* Ask whether to double the limit; with nobody to ask the turn is over.    *)
ReachLimit ==
  /\ phase = "calls"
  /\ ~cancel
  /\ AtLimit
  /\ IF interactive THEN phase' = "limit" /\ UNCHANGED roundVars ELSE Stop
  /\ UNCHANGED <<tableVars, modeVars, limitVars, cancel, paceVars, askVars, ran, grantVars,
                 otherVars, consentVars>>

(* _confirm_limit_increase.  Neither the limit nor the cancel event is      *)
(* looked at again before the call runs.                                    *)
AnswerLimit(yes) ==
  /\ phase = "limit"
  /\ IF yes
       THEN limit' = 2 * limit /\ raises' = raises + 1 /\ phase' = "run" /\ UNCHANGED roundVars
       ELSE Stop /\ UNCHANGED limitVars
  /\ UNCHANGED <<tableVars, modeVars, cancel, paceVars, askVars, ran, grantVars, otherVars, consentVars>>

-----------------------------------------------------------------------------
(* One call starts: it is counted, then the tool's own checks decide.       *)
StartCall ==
  /\ phase = "run" \/ (phase = "calls" /\ ~cancel /\ ~AtLimit)
  /\ count' = count + 1
  /\ UNCHANGED <<disk, modeVars, limitVars, cancel, rounds, turns, job, otherVars, loaded, promised, narrowed>>

(* No question is needed, or none can be asked: the call runs or fails.     *)
RunUnasked ==
  /\ StartCall
  /\ \/ Call.tool = "plain"
     \/ ~interactive /\ Call.tool \in {"escalate", "questions"}
     \/ /\ Call.tool \in {"file", "bash"}
        /\ \/ Denied \/ Asked = {} \/ framework = "deny"
           \/ framework = "ask" /\ ~interactive
  /\ items' = <<>> /\ decisions' = <<>>
  /\ Answer(IF Permitted({}) THEN ToSet(Call.items) ELSE {})
  /\ UNCHANGED <<access, template, todo, consent>>

(* The paths a permanent grant for these items would name, as shown.        *)
Shown(asked) == UNION {GrantPaths(access, i) : i \in asked \ {Structural}}

AllowSession == [action |-> "allow", scope |-> "session"]

(* permissionFramework=auto: allowed for the session, one item at a time.   *)
AutoApprove ==
  /\ StartCall
  /\ framework = "auto"
  /\ Call.tool \in {"file", "bash"}
  /\ ~Denied /\ Asked # {}
  /\ items' = AskedItems
  /\ decisions' = [k \in Asked |-> AllowSession]
  /\ todo' = Asked
  /\ consent' = consent \cup Shown({Call.items[k] : k \in Asked})
  /\ phase' = "grants"
  /\ ran' = {}
  /\ UNCHANGED <<access, template, roundVars>>

AskUser ==
  /\ StartCall
  /\ interactive
  /\ \/ /\ Call.tool \in {"escalate", "questions"}
        /\ phase' = Call.tool
        /\ items' = <<>>
     \/ /\ Call.tool \in {"file", "bash"}
        /\ framework = "ask"
        /\ ~Denied /\ Asked # {}
        /\ phase' = "ask"
        /\ items' = AskedItems
  /\ decisions' = <<>>
  /\ ran' = {}
  /\ UNCHANGED <<access, template, roundVars, todo, consent>>

(* The questions of AskUserQuestions, answered or declined.                 *)
AnswerQuestions ==
  /\ phase = "questions"
  /\ Answer({})
  /\ UNCHANGED <<tableVars, modeVars, limitVars, cancel, paceVars, askVars, grantVars, otherVars, consentVars>>

AnswerEscalation(yes) ==
  /\ phase = "escalate"
  /\ approved' = (approved \/ yes)
  /\ Answer({})
  /\ UNCHANGED <<tableVars, framework, interactive, limitVars, cancel, paceVars, askVars, grantVars,
                 otherVars, consentVars>>

-----------------------------------------------------------------------------
(* After a denial a call that asked about one resource records it, if it is *)
(* permanent; a command with several items records none of its answers.     *)
(* Mutant: it records those it got.                                         *)
KeepAnswers(kept) == kept # {}

DenialIsKept(kept) == Call.tool = "file" /\ kept # {}

Lasting(d, item) == d.scope # "once" /\ item # Structural

(* on_permission_ask answers one item; the first denial ends the asking.    *)
AnswerAsk(d) ==
  /\ phase = "ask"
  /\ LET open == DOMAIN items \ DOMAIN decisions
         at1  == First(open)
         all  == [k \in DOMAIN decisions \cup {at1} |-> IF k = at1 THEN d ELSE decisions[k]]
         kept == {k \in DOMAIN all : Lasting(all[k], items[k])}
     IN  /\ items[at1] = Structural => d.scope \in {"once", "session"}
         /\ decisions' = all
         /\ IF d.action = "allow" /\ open # {at1}
              THEN UNCHANGED <<phase, roundVars, ran, todo, consent>>
            ELSE IF d.action = "deny"
              THEN IF DenialIsKept(kept)
                     THEN /\ phase' = "grants" /\ todo' = kept
                          /\ UNCHANGED <<roundVars, ran, consent>>
                     ELSE Answer({}) /\ UNCHANGED <<todo, consent>>
              ELSE /\ phase' = "grants" /\ todo' = kept
                   /\ consent' = consent \cup Shown({items[k] : k \in kept})
                   /\ UNCHANGED <<roundVars, ran>>
  /\ UNCHANGED <<tableVars, modeVars, limitVars, cancel, paceVars, items, job, otherVars, loaded,
                 promised, narrowed>>

GrantOf(k) == [item |-> items[k], action |-> decisions[k].action, scope |-> decisions[k].scope]

(* apply_permission_grant for one item: the session's tables, then for a    *)
(* lasting scope the template's, then a read of the file to be rewritten.   *)
(* The paths are computed again from the tables as they are now.            *)
ApplyGrant ==
  /\ phase = "grants"
  /\ job = NoJob
  /\ todo # {}
  /\ todo' = todo \ {First(todo)}
  /\ LET g     == GrantOf(First(todo))
         paths == GrantPaths(access, g.item)
         write == g.item.write
     IN  IF g.item = Structural
           THEN UNCHANGED <<access, template, job, narrowed>>
           ELSE /\ access' = GrantInMemory(access, paths, write, g.action)
                /\ narrowed' = (narrowed \/ ~(consent \cap Within[g.item.file] \subseteq paths))
                /\ IF g.scope = "session"
                     THEN UNCHANGED <<template, job>>
                     ELSE /\ template' = GrantInMemory(template, paths, write, g.action)
                          /\ LET file == IF g.scope = "workspace" THEN "project" ELSE "user"
                             IN  job' = [step |-> "grant", file |-> file, read |-> disk[file],
                                         grant |-> g, paths |-> paths]
  /\ UNCHANGED <<disk, modeVars, limitVars, phase, cancel, roundVars, paceVars, askVars, ran,
                 otherVars, loaded, consent, promised>>

(* The file is replaced by what was read of it with the grant added, even   *)
(* if it has changed since.                                                 *)
RewriteFile ==
  /\ job # NoJob
  /\ job.step = "grant"
  /\ disk' = [disk EXCEPT ![job.file] =
                GrantOnDisk(job.read, job.paths, job.grant.item.write, job.grant.action)]
  /\ overlapped' = (overlapped \/ job.read # disk[job.file])
  /\ IF job.grant.scope = "homedir"
       THEN job' = [job EXCEPT !.step = "clean", !.file = "project", !.read = disk["project"]]
            /\ UNCHANGED promised
       ELSE job' = NoJob /\ promised' = promised \cup {job.grant}
  /\ UNCHANGED <<access, template, modeVars, limitVars, phase, cancel, roundVars, paceVars, askVars,
                 ran, todo, other, snapshot, loaded, consent, narrowed>>

(* A homedir grant also drops the ask rules it makes redundant from the     *)
(* workspace's file, which is left alone when it has none of them.          *)
CleanProjectFile ==
  /\ job # NoJob
  /\ job.step = "clean"
  /\ LET cleaned == CleanAsk(job.read, job.paths)
     IN  IF cleaned = job.read
           THEN UNCHANGED <<disk, overlapped>>
           ELSE /\ disk' = [disk EXCEPT !["project"] = cleaned]
                /\ overlapped' = (overlapped \/ job.read # disk["project"])
  /\ job' = NoJob
  /\ promised' = promised \cup {job.grant}
  /\ UNCHANGED <<access, template, modeVars, limitVars, phase, cancel, roundVars, paceVars, askVars,
                 ran, todo, other, snapshot, loaded, consent, narrowed>>

GrantsDone == phase = "grants" /\ todo = {} /\ job = NoJob

Refused == \E k \in DOMAIN decisions : decisions[k].action = "deny"

(* The call is retried exactly once; a second ask is an ordinary error.     *)
(* Mutant: it is resolved like the first.                                   *)
RetryUntilAllowed ==
  /\ GrantsDone
  /\ IF Refused \/ Permitted(Override)
       THEN Answer(IF Refused THEN {} ELSE ToSet(Call.items)) /\ UNCHANGED <<todo, askVars>>
       ELSE /\ items' = AskedItems /\ decisions' = [k \in Asked |-> AllowSession] /\ todo' = Asked
            /\ UNCHANGED <<phase, roundVars, ran>>
  /\ UNCHANGED <<tableVars, modeVars, limitVars, cancel, paceVars, job, otherVars, consentVars>>

Retry ==
  /\ GrantsDone
  /\ Answer(IF ~Refused /\ Permitted(Override) THEN ToSet(Call.items) ELSE {})
  /\ UNCHANGED <<tableVars, modeVars, limitVars, cancel, paceVars, askVars, grantVars, otherVars, consentVars>>

-----------------------------------------------------------------------------
Cancel ==
  /\ phase # "idle"
  /\ ~cancel
  /\ cancel' = TRUE
  /\ UNCHANGED <<tableVars, modeVars, limitVars, phase, roundVars, paceVars, askVars, ran, grantVars,
                 otherVars, consentVars>>

(* set_permission_framework, in the middle of a turn or not.                *)
SetFramework(value) ==
  /\ framework # value
  /\ framework' = value
  /\ UNCHANGED <<tableVars, approved, interactive, limitVars, phase, cancel, roundVars, paceVars,
                 askVars, ran, grantVars, otherVars, consentVars>>

FreshTurnState ==
  /\ phase' = "idle" /\ cancel' = FALSE
  /\ reply' = <<>> /\ at' = 0 /\ answered' = {} /\ owed' = FALSE /\ stopped' = FALSE
  /\ count' = 0 /\ rounds' = 0 /\ raises' = 0
  /\ items' = <<>> /\ decisions' = <<>> /\ ran' = {}
  /\ todo' = {} /\ job' = NoJob
  /\ framework' = "ask"

(* session/new and the reset in place copy the template shallowly: the set  *)
(* of approved scopes is one object, shared.                                *)
NewSession ==
  /\ phase = "idle"
  /\ turns > 0
  /\ access' = template
  /\ limit' = loaded.limit
  /\ FreshTurnState
  /\ UNCHANGED <<template, disk, approved, interactive, turns, otherVars, consentVars>>

(* The process ends, at any point, and a new one loads the files.           *)
Restart ==
  /\ turns > 0
  /\ template' = Load(disk) /\ access' = template'
  /\ limit' = loaded.limit
  /\ loaded' = [loaded EXCEPT !.access = template']
  /\ approved' = FALSE
  /\ consent' = {}
  /\ FreshTurnState
  /\ UNCHANGED <<disk, interactive, turns, otherVars, promised, narrowed>>

(* Another session, of this process or not, records a grant of its own in   *)
(* the workspace's file.                                                    *)
OtherReads ==
  /\ other = "ready"
  /\ other' = "read"
  /\ snapshot' = disk["project"]
  /\ UNCHANGED <<tableVars, modeVars, limitVars, phase, cancel, roundVars, paceVars, askVars, ran,
                 grantVars, overlapped, consentVars>>

OtherWrites ==
  /\ other = "read"
  /\ other' = "done"
  /\ disk' = [disk EXCEPT !["project"] =
                GrantOnDisk(snapshot, OtherGrant.paths, OtherGrant.write, OtherGrant.action)]
  /\ overlapped' = (overlapped \/ snapshot # disk["project"])
  /\ snapshot' = NoAccess
  /\ UNCHANGED <<access, template, modeVars, limitVars, phase, cancel, roundVars, paceVars, askVars,
                 ran, grantVars, consentVars>>

-----------------------------------------------------------------------------
(* What the turn does without waiting for a user.                           *)
Work ==
  \/ FinishTurn
  \/ \E n \in 1..MaxCalls : \E calls \in [1..n -> Calls] : BeginRound(calls)
  \/ AbortBeforeCall \/ ReachLimit
  \/ RunUnasked \/ AutoApprove \/ AskUser
  \/ ApplyGrant \/ RewriteFile \/ CleanProjectFile \/ Retry

User ==
  \/ \E yes \in BOOLEAN : AnswerLimit(yes) \/ AnswerEscalation(yes)
  \/ AnswerQuestions
  \/ \E d \in Decision : AnswerAsk(d)
  \/ Cancel
  \/ \E v \in {"ask", "auto", "deny"} : SetFramework(v)

Next ==
  \/ StartTurn \/ Work \/ User
  \/ NewSession \/ Restart
  \/ OtherReads \/ OtherWrites

Spec == Init /\ [][Next]_vars /\ WF_vars(Work)

-----------------------------------------------------------------------------
(* Every variable keeps its range.                                          *)
TypeOK ==
  /\ access \in Access /\ template \in Access
  /\ disk \in [{"user", "project"} -> Access]
  /\ framework \in {"ask", "auto", "deny"}
  /\ approved \in BOOLEAN /\ interactive \in BOOLEAN /\ cancel \in BOOLEAN
  /\ limit \in Nat /\ raises \in Nat /\ count \in Nat
  /\ phase \in {"idle", "model", "calls", "run", "limit", "ask", "questions", "escalate", "grants"}
  /\ at \in 0..Len(reply) /\ answered \subseteq 1..Len(reply)
  /\ rounds \in 0..MaxRounds /\ turns \in 0..MaxTurns
  /\ DOMAIN decisions \subseteq DOMAIN items
  /\ ran \subseteq PathItem \cup {Structural}
  /\ other \in {"ready", "read", "done"} /\ snapshot \in Access
  /\ consent \subseteq Dir /\ promised \subseteq Grant

(* _run_tool_calls and the tools' own checks: what a call touched, the      *)
(* tables allow, or its user allowed for this very call (an unclassified    *)
(* part only that way), and nothing of a call that was refused.             *)
OnlyPermittedEffects ==
  ran # {} =>
    /\ ~Refused
    /\ \A i \in ran : \/ i # Structural /\ VerdictOf(access, i) = "allow"
                      \/ \E k \in DOMAIN decisions : /\ decisions[k] = [action |-> "allow", scope |-> "once"]
                                                     /\ i = Structural => items[k] = i
                                                     /\ i # Structural => items[k] # Structural
                                                                          /\ items[k].file = i.file

(* permissions.py and grant.py: whatever the session allows beyond what its *)
(* process loaded lies in a directory somebody was shown and allowed; the   *)
(* answers given before a denial of the same command leave no trace.        *)
GrantsHaveConsent ==
  \A f \in File, w \in BOOLEAN :
    LET i == [file |-> f, write |-> w]
    IN  VerdictOf(access, i) = "allow" /\ VerdictOf(loaded.access, i) # "allow"
          => Within[f] \cap consent # {}

(* The user's own configuration file asks about an item.                    *)
UserAsks(item) ==
  \/ Matching(disk["user"].read.ask, item.file) # {}
  \/ item.write /\ Matching(disk["user"].write.ask, item.file) # {}

(* grant.py: a file whose grant is on disk is not asked about again by the  *)
(* next process, unless the user's own file has an ask rule a workspace     *)
(* grant never removes, two rewrites of a file overlapped, or the grant was *)
(* recorded narrower than it was shown.                                     *)
GrantsSurviveRestart ==
  Trusted /\ ~overlapped /\ ~narrowed =>
    \A g \in promised :
      \/ VerdictOf(Load(disk), g.item) # "ask"
      \/ g.scope = "workspace" /\ g.action = "allow" /\ UserAsks(g.item)

(* tool_execution.py:95 and permissions.py:_confirm_limit_increase: no call *)
(* runs past the limit, but for one per consent when the limit is zero,     *)
(* which doubles to zero.                                                   *)
CallsWithinLimit == count <= limit \/ (limit = 0 /\ count <= raises)

(* turns.py and tool_execution.py: the model is sent a tool call without    *)
(* its response only after a turn was aborted, failed or hit a limit.       *)
OnlyBrokenTurnsOweAnswers == owed => stopped

(* A round keeps to its limit and answers every call the model made, unless *)
(* the turn broke off.                                                      *)
RoundsAreSound == TypeOK /\ CallsWithinLimit /\ OnlyBrokenTurnsOweAnswers

(* permissions.py: a call whose every item was allowed is not refused on    *)
(* its retry, except for an unclassified part that was not allowed "once":  *)
(* no other scope, nor permissionFramework=auto, gets it past the check.    *)
AllowedCallsRun ==
  [][Retry /\ ~Refused /\ (\A k \in DOMAIN items : items[k] = Structural =>
                             k \in DOMAIN decisions /\ decisions[k].scope = "once")
       => ran' # {}]_vars

(* The turn is over, or a user has to answer.                               *)
Waiting == phase \in {"idle", "limit", "ask", "questions", "escalate"}

(* turns.py and tool_execution.py: however the model answers and whatever   *)
(* the framework, a turn comes to its end or to a question for the user.    *)
TurnEndsOrAsks == []<>Waiting
=============================================================================
