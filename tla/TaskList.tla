------------------------------- MODULE TaskList -------------------------------
(***************************************************************************)
(* The task list the agents of a group share (tools/tasks): issues in the   *)
(* SQLite file of the external tracker chainlink, one subprocess for each   *)
(* thing that is read or written, and the tools TodoNext, TodoUpdate and    *)
(* TodoCreate, which each agent runs on the thread of its own turn.         *)
(*                                                                         *)
(* A step is one call of chainlink, which its database makes atomic, and    *)
(* whatever the tool does up to the next one.  A call may fail (the file    *)
(* stays locked through every retry): the tool raises, where it stands.     *)
(* Titles, descriptions and comments are left out, and priorities, which    *)
(* order the issues: any one of several may come first.  TodoList, which    *)
(* only reads, is left out.                                                 *)
(***************************************************************************)
EXTENDS Naturals, FiniteSets, Sequences

CONSTANTS
  Member,    \* ids of the sessions of the group
  Accepts,   \* those whose role has the capability accepts_tasks
  Assigns,   \* ... assigns_tasks
  All,       \* ALL_LABEL
  NoTask,    \* cur_chainlink_task_id of a session that tracks none
  MaxIssues, \* bound: issues created
  Budgets    \* bounds: calls of the tools, calls of chainlink that fail, and the
             \* changes that one TodoUpdate makes, as sets of names

Issue == 1..MaxIssues
Label == Member \cup {All}   \* agent_label(id) is the id

ASSUME TaskAssumption ==
  /\ IsFiniteSet(Member)
  /\ Accepts \subseteq Member /\ Assigns \subseteq Member
  /\ All \notin Member
  /\ NoTask \notin Nat
  /\ MaxIssues \in Nat
  /\ Budgets \subseteq [calls : Nat, fails : Nat,
                        edits : SUBSET SUBSET {"block", "unblock", "close", "reopen"}]

VARIABLES
  created,  \* issues 1..created exist
  open,     \* ids of those that are open
  labels,   \* the assignment labels of each
  blockers, \* the ids that block each, open or not
  cur,      \* Session.cur_chainlink_task_id
  call,     \* the tool call each session is in
  budget,   \* bounds: what is left of them
  orphaned, \* history: issues whose claim failed halfway
  borrowed, \* history: sessions that track an issue activate=true took as it was
  steady    \* history: what a session could take all through its TodoNext

issueVars == <<created, open, labels, blockers>>
trackVars == <<cur, borrowed>>
taskVars == <<issueVars, trackVars, call, budget, orphaned, steady>>

(* The steps in which a call waits for chainlink.                           *)
Waiting == {"current", "list", "fetch", "show", "unlabel", "label", "confirm",
            "edit", "detail", "link", "abandon"}

NoCall == [step |-> "idle", id |-> NoTask, by |-> NoTask, act |-> "no", then |-> "next",
           ops |-> {}, links |-> <<>>, rest |-> {}, own |-> {}, offers |-> {}]

TasksInit ==
  /\ created = 0
  /\ open = {}
  /\ labels = [i \in Issue |-> {}]
  /\ blockers = [i \in Issue |-> {}]
  /\ cur = [a \in Member |-> NoTask]
  /\ call = [a \in Member |-> NoCall]
  /\ budget \in Budgets
  /\ orphaned = {}
  /\ borrowed = {}
  /\ steady = [a \in Member |-> {}]

Known == 1..created
Ready(i) == blockers[i] \cap open = {}
At(a, step) == call[a].step = step
Goto(a, step) == call' = [call EXCEPT ![a].step = step]
Begin(a) ==
  /\ At(a, "idle")
  /\ budget.calls > 0
  /\ budget' = [budget EXCEPT !.calls = @ - 1]
Return(a) == call' = [call EXCEPT ![a] = NoCall]

-----------------------------------------------------------------------------
(* TodoNext                                                                 *)

(* TodoNextTool.apply from its start, called by the model or by the         *)
(* TodoUpdate that has just closed an issue; a role that may hold no task   *)
(* is refused.                                                              *)
NextTask(a, tracked) ==
  call' = [call EXCEPT ![a] =
             IF a \notin Accepts THEN NoCall
             ELSE [NoCall EXCEPT !.step = IF tracked # NoTask THEN "current" ELSE "list"]]

TodoNext(a) ==
  /\ Begin(a)
  /\ a \in Accepts
  /\ NextTask(a, cur[a])
  /\ UNCHANGED <<issueVars, trackVars, orphaned>>

(* _still_open_current_task                                                 *)
ShowCurrent(a) ==
  /\ At(a, "current")
  /\ IF cur[a] \in open THEN Return(a) ELSE Goto(a, "list")
  /\ UNCHANGED <<issueVars, trackVars, budget, orphaned>>

(* set_current_task                                                         *)
Track(a, i) ==
  /\ cur' = [cur EXCEPT ![a] = i]
  /\ borrowed' = borrowed \ {a}
  /\ Return(a)

(* fetch_and_sort_issues: one call lists the open issues ...                *)
ListIssues(a) ==
  /\ At(a, "list")
  /\ IF open = {}
       THEN Track(a, NoTask)
       ELSE /\ call' = [call EXCEPT ![a].step = "fetch", ![a].rest = open]
            /\ UNCHANGED trackVars
  /\ UNCHANGED <<issueVars, budget, orphaned>>

(* ... and one shows each; only those without open blockers are kept.       *)
FetchIssue(a) ==
  /\ At(a, "fetch")
  /\ \E i \in call[a].rest :
       LET eligible(l) == IF Ready(i) /\ l \in labels[i] THEN {i} ELSE {}
       IN  call' = [call EXCEPT
             ![a].step = IF call[a].rest = {i} THEN "pick" ELSE "fetch",
             ![a].rest = @ \ {i},
             ![a].own = @ \cup eligible(a),
             ![a].offers = @ \cup eligible(All)]
  /\ UNCHANGED <<issueVars, trackVars, budget, orphaned>>

(* claim_next_ready_task: an issue of one's own, or the next one on offer.  *)
Pick(a) ==
  /\ At(a, "pick")
  /\ IF call[a].own # {}
       THEN \E i \in call[a].own : Track(a, i)
     ELSE IF call[a].offers # {}
       THEN /\ \E i \in call[a].offers :
                 call' = [call EXCEPT ![a].step = "show", ![a].id = i, ![a].offers = @ \ {i}]
            /\ UNCHANGED trackVars
     ELSE Track(a, NoTask)
  /\ UNCHANGED <<issueVars, budget, orphaned>>

-----------------------------------------------------------------------------
(* _claim_one                                                               *)

(* Lost: the next one on offer, or no activation.                           *)
(* Mutant: the whole search ends.                                           *)
AfterLostOnce(a) == "idle"

AfterLost(a) == IF call[a].then = "next" THEN "pick" ELSE "idle"

Lost(a) == IF AfterLost(a) = "idle"
             THEN IF call[a].then = "next" THEN Track(a, NoTask) ELSE Return(a) /\ UNCHANGED trackVars
             ELSE Goto(a, "pick") /\ UNCHANGED trackVars

ShowOffer(a) ==
  /\ At(a, "show")
  /\ IF All \in labels[call[a].id] THEN Goto(a, "unlabel") /\ UNCHANGED trackVars ELSE Lost(a)
  /\ UNCHANGED <<issueVars, budget, orphaned>>

(* remove_label says whether this call removed it: the compare-and-swap.    *)
(* Mutant: the label that show_issue has returned is taken for granted.     *)
RemovedSeen(a) == TRUE

Removed(a) == All \in labels[call[a].id]

Unlabel(a) ==
  /\ At(a, "unlabel")
  /\ labels' = [labels EXCEPT ![call[a].id] = @ \ {All}]
  /\ IF Removed(a) THEN Goto(a, "label") /\ UNCHANGED trackVars ELSE Lost(a)
  /\ UNCHANGED <<created, open, blockers, budget, orphaned>>

AddLabel(a) ==
  /\ At(a, "label")
  /\ labels' = [labels EXCEPT ![call[a].id] = @ \cup {a}]
  /\ Goto(a, "confirm")
  /\ UNCHANGED <<created, open, blockers, trackVars, budget, orphaned>>

Confirm(a) ==
  /\ At(a, "confirm")
  /\ Track(a, call[a].id)
  /\ UNCHANGED <<issueVars, budget, orphaned>>

-----------------------------------------------------------------------------
(* TodoUpdate                                                               *)

TodoUpdate(a, i, by, ops, act) ==
  /\ Begin(a)
  /\ i \in Known
  /\ "close" \in ops => act # "auto"   \* None is as true there
  /\ by \in (IF ops \cap {"block", "unblock"} = {} THEN {NoTask} ELSE Known \ {i})
  /\ call' = [call EXCEPT ![a] =
                [NoCall EXCEPT !.step = IF ops = {} THEN "detail" ELSE "edit",
                               !.id = i, !.by = by, !.ops = ops, !.act = act,
                               !.then = IF "close" \in ops THEN "next" ELSE "activate"]]
  /\ UNCHANGED <<issueVars, trackVars, orphaned>>

(* Closing the session's own tracked task clears it at once.                *)
Closed(a, i) ==
  /\ cur' = IF cur[a] = i THEN [cur EXCEPT ![a] = NoTask] ELSE cur
  /\ UNCHANGED borrowed

Edit(a, op) ==
  /\ At(a, "edit")
  /\ op \in call[a].ops
  /\ call' = [call EXCEPT ![a].ops = @ \ {op},
                          ![a].step = IF call[a].ops = {op} THEN "detail" ELSE "edit"]

(* dependencies first, then close, then reopen                              *)
EditStep(a) ==
  LET i == call[a].id
      by == call[a].by
      ops == call[a].ops
  IN  \/ /\ Edit(a, "block")
         /\ blockers' = [blockers EXCEPT ![i] = @ \cup {by}]
         /\ UNCHANGED <<open, trackVars>>
      \/ /\ ops \cap {"block"} = {}
         /\ Edit(a, "unblock")
         /\ blockers' = [blockers EXCEPT ![i] = @ \ {by}]
         /\ UNCHANGED <<open, trackVars>>
      \/ /\ ops \cap {"block", "unblock"} = {}
         /\ Edit(a, "close")
         /\ open' = open \ {i}
         /\ Closed(a, i)
         /\ UNCHANGED blockers
      \/ /\ ops = {"reopen"}
         /\ Edit(a, "reopen")
         /\ open' = open \cup {i}
         /\ UNCHANGED <<blockers, trackVars>>

TodoUpdateStep(a) ==
  /\ EditStep(a)
  /\ UNCHANGED <<created, labels, budget, orphaned>>

(* maybe_activate_task, on what show_issue has returned                     *)
Activates(a) ==
  LET i == call[a].id
  IN  /\ call[a].act # "no"
      /\ i \in open
      /\ call[a].act = "auto" => cur[a] = NoTask /\ Ready(i)

(* The detail the tool will return; then TodoNext if it has closed the      *)
(* issue, or the activation.                                                *)
ShowDetail(a) ==
  LET i == call[a].id
  IN  /\ At(a, "detail")
      /\ IF call[a].then = "next"
           THEN /\ IF call[a].act = "no" THEN Return(a) ELSE NextTask(a, cur[a])
                /\ UNCHANGED trackVars
         ELSE IF ~Activates(a)
           THEN Return(a) /\ UNCHANGED trackVars
         ELSE IF All \in labels[i]
           THEN Goto(a, "show") /\ UNCHANGED trackVars
         ELSE /\ cur' = [cur EXCEPT ![a] = i]
              /\ borrowed' = IF a \in labels[i] THEN borrowed \ {a} ELSE borrowed \cup {a}
              /\ Return(a)
      /\ UNCHANGED <<issueVars, budget, orphaned>>

-----------------------------------------------------------------------------
(* TodoCreate                                                               *)

(* _resolve_assignment_label                                                *)
MayAssign(a, label) ==
  \/ label = All
  \/ label = a /\ a \in Accepts
  \/ label \in Accepts \ {a} /\ a \in Assigns

(* links: the issue that blocks the new one, then the one it blocks.        *)
TodoCreate(a, label, by, dependent, act) ==
  LET links == (IF by \in Known THEN <<[new |-> TRUE, other |-> by]>> ELSE <<>>)
            \o (IF dependent \in Known THEN <<[new |-> FALSE, other |-> dependent]>> ELSE <<>>)
  IN  /\ Begin(a)
      /\ created < MaxIssues
      /\ MayAssign(a, label)
      /\ created' = created + 1
      /\ open' = open \cup {created + 1}
      /\ labels' = [labels EXCEPT ![created + 1] = {label}]
      /\ call' = [call EXCEPT ![a] =
                    [NoCall EXCEPT !.step = IF links = <<>> THEN "detail" ELSE "link",
                                   !.id = created + 1, !.act = act, !.then = "activate",
                                   !.links = links]]
      /\ UNCHANGED <<blockers, trackVars, orphaned>>

LinkIssue(a) ==
  LET link == Head(call[a].links)
      i == IF link.new THEN call[a].id ELSE link.other
      j == IF link.new THEN link.other ELSE call[a].id
  IN  /\ At(a, "link")
      /\ blockers' = [blockers EXCEPT ![i] = @ \cup {j}]
      /\ call' = [call EXCEPT ![a].links = Tail(@),
                              ![a].step = IF Len(call[a].links) = 1 THEN "detail" ELSE "link"]
      /\ UNCHANGED <<created, open, labels, trackVars, budget, orphaned>>

(* A link failed: "Created in error, closing".                              *)
Abandon(a) ==
  /\ At(a, "abandon")
  /\ open' = open \ {call[a].id}
  /\ Return(a)
  /\ UNCHANGED <<created, labels, blockers, trackVars, budget, orphaned>>

-----------------------------------------------------------------------------
(* _run gives up: the tool raises, but for two places that go on.           *)
Fail(a) ==
  /\ call[a].step \in Waiting
  /\ budget.fails > 0
  /\ budget' = [budget EXCEPT !.fails = @ - 1]
  /\ CASE At(a, "current") -> Goto(a, "list")
       [] At(a, "link") -> Goto(a, "abandon")
       [] OTHER -> Return(a)
  /\ orphaned' = IF At(a, "label") THEN orphaned \cup {call[a].id} ELSE orphaned
  /\ UNCHANGED <<issueVars, trackVars>>

TaskStep(a) ==
  \/ TodoNext(a) \/ ShowCurrent(a) \/ ListIssues(a) \/ FetchIssue(a) \/ Pick(a)
  \/ ShowOffer(a) \/ Unlabel(a) \/ AddLabel(a) \/ Confirm(a)
  \/ \E i \in Known, by \in Known \cup {NoTask}, ops \in budget.edits, act \in {"yes", "no", "auto"} :
       TodoUpdate(a, i, by, ops, act)
  \/ TodoUpdateStep(a)
  \/ ShowDetail(a)
  \/ \E label \in Label, by, dependent \in Known \cup {NoTask}, act \in {"yes", "no", "auto"} :
       TodoCreate(a, label, by, dependent, act)
  \/ LinkIssue(a) \/ Abandon(a)
  \/ Fail(a)

Takeable(a, i) == i \in open /\ Ready(i) /\ labels[i] \in {{a}, {All}}

(* steady starts with the list and loses what stops to be takeable.         *)
TasksNext ==
  /\ \E a \in Member : TaskStep(a)
  /\ steady' = [a \in Member |->
       LET before == IF At(a, "list") THEN {i \in Known : Takeable(a, i)} ELSE steady[a]
       IN  IF call'[a].step \in {"idle", "list"} THEN {} ELSE {i \in before : Takeable(a, i)'}]

-----------------------------------------------------------------------------
(* Every variable keeps its range.                                          *)
TasksTypeOK ==
  /\ created \in 0..MaxIssues
  /\ open \subseteq Known
  /\ labels \in [Issue -> SUBSET Label]
  /\ blockers \in [Issue -> SUBSET Issue]
  /\ cur \in [Member -> Issue \cup {NoTask}]
  /\ \A a \in Member : call[a].step \in Waiting \cup {"idle", "pick"}
  /\ orphaned \subseteq Issue /\ borrowed \subseteq Member
  /\ budget.calls \in Nat /\ budget.fails \in Nat
  /\ steady \in [Member -> SUBSET Issue]

(* "Every issue in a group carries exactly one assignment label"            *)
(* (docs/specs/chainlink-task-tracking.md), but while it is claimed, and    *)
(* after a claim that failed between the two labels; and what a session     *)
(* tracks is labelled for it, unless activate=true took it as it was.       *)
OneAssignment ==
  \A i \in Known :
    /\ Cardinality(labels[i]) <= 1
    /\ labels[i] = {} => i \in orphaned \/ \E a \in Member : At(a, "label") /\ call[a].id = i
    /\ \A a \in Member : cur[a] = i => labels[i] = {a} \/ a \in borrowed

TasksAreHeldOnce == TasksTypeOK /\ OneAssignment

(* A TodoNext that reports that no task is ready has not passed over one    *)
(* that was there for the session all the time since it took the list,      *)
(* however many claims it has lost on the way.                              *)
NothingReadyIsMissed ==
  [][\A a \in Member :
       /\ call[a].step \in {"pick", "show", "unlabel"} /\ call[a].then = "next"
       /\ call'[a].step = "idle" /\ cur'[a] = NoTask /\ budget' = budget
       => steady[a] = {}]_taskVars

=============================================================================
