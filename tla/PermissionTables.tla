-------------------------- MODULE PermissionTables --------------------------
(***************************************************************************)
(* Directory permissions: klorb/permissions/table.py, directory_access.py, *)
(* workspace.py and grant.py as functions on rule tables.  A path is       *)
(* modelled by the directories that contain it; the rules of a table are   *)
(* directories.  Everything here is a function of its arguments: the       *)
(* tables live in the modules that extend this one.                        *)
(***************************************************************************)
CONSTANTS
  Dir,      \* directories that rules can name
  File,     \* files that tools touch, all of them inside the workspace
  Within,   \* Within[p]: the directories that are p or contain it
  Home,     \* Home[f]: the directory of file f
  Trusted   \* whether the user trusts the workspace

ASSUME PathAssumption ==
  /\ Within \in [Dir \cup File -> SUBSET Dir]
  /\ Home \in [File -> Dir]
  /\ \A d \in Dir : d \in Within[d]
  /\ \A p \in Dir \cup File : \A d \in Within[p] : Within[d] \subseteq Within[p]
  /\ \A f \in File : Within[f] = Within[Home[f]]

ASSUME TrustAssumption == Trusted \in BOOLEAN

(* A file and the direction a tool wants to use it in.                      *)
PathItem == [file : File, write : BOOLEAN]

Rules  == [deny : SUBSET Dir, ask : SUBSET Dir, allow : SUBSET Dir]
Access == [read : Rules, write : Rules]

NoRules  == [deny |-> {}, ask |-> {}, allow |-> {}]
NoAccess == [read |-> NoRules, write |-> NoRules]

Verdict == {"deny", "ask", "allow"}

-----------------------------------------------------------------------------
(* PermissionsTable.evaluate: the category of the first match, deny before  *)
(* ask before allow, however specific the rules are.                        *)
Matching(dirs, f) == dirs \cap Within[f]

Evaluate(rules, f) ==
  IF Matching(rules.deny, f) # {} THEN "deny"
  ELSE IF Matching(rules.ask, f) # {} THEN "ask"
  ELSE IF Matching(rules.allow, f) # {} THEN "allow"
  ELSE "none"

StricterVerdict(a, b) ==
  IF "deny" \in {a, b} THEN "deny" ELSE IF "ask" \in {a, b} THEN "ask" ELSE "allow"

OrElse(verdict, fallback) == IF verdict = "none" THEN fallback ELSE verdict

(* resolve_and_evaluate_read past readFiles, and evaluate_write past the    *)
(* one-shot override.                                                       *)
EvaluateRead(access, f) ==
  OrElse(Evaluate(access.read, f), IF Trusted THEN "ask" ELSE "allow")

EvaluateWrite(access, f) ==
  StricterVerdict(OrElse(Evaluate(access.read, f), "ask"),
                  OrElse(Evaluate(access.write, f), "ask"))

VerdictOf(access, item) ==
  IF item.write THEN EvaluateWrite(access, item.file) ELSE EvaluateRead(access, item.file)

-----------------------------------------------------------------------------
(* compute_grant_paths: every ask rule that matches, or else the directory  *)
(* of the file.  Mutant: the narrowest of them only, the file's directory.  *)
GrantPathsNarrow(access, item) == {Home[item.file]}

GrantPaths(access, item) ==
  LET matched == Matching(access.read.ask, item.file)
                   \cup (IF item.write THEN Matching(access.write.ask, item.file) ELSE {})
  IN  IF matched # {} THEN matched ELSE {Home[item.file]}

(* _apply_decision_to_table.  Mutant: the ask rules stay.                   *)
DecideKeepsAsk(rules, paths, action) ==
  [deny  |-> rules.deny \cup (IF action = "deny" THEN paths ELSE {}),
   ask   |-> rules.ask,
   allow |-> rules.allow \cup (IF action = "allow" THEN paths ELSE {})]

Decide(rules, paths, action) ==
  [deny  |-> rules.deny \cup (IF action = "deny" THEN paths ELSE {}),
   ask   |-> rules.ask \ paths,
   allow |-> rules.allow \cup (IF action = "allow" THEN paths ELSE {})]

(* The part of apply_permission_grant on the tables in memory, the          *)
(* session's and the template's: to allow a write allows the read too, to   *)
(* deny a write leaves the reads alone.                                     *)
GrantInMemory(access, paths, write, action) ==
  [read  |-> IF action = "allow" \/ ~write THEN Decide(access.read, paths, action) ELSE access.read,
   write |-> IF write THEN Decide(access.write, paths, action) ELSE access.write]

(* _apply_grant_to_file writes the read rules whatever the action.          *)
GrantOnDisk(access, paths, write, action) ==
  [read  |-> Decide(access.read, paths, action),
   write |-> IF write THEN Decide(access.write, paths, action) ELSE access.write]

(* _clean_ask_entries_only.                                                 *)
CleanAsk(access, paths) ==
  [read  |-> [access.read  EXCEPT !.ask = @ \ paths],
   write |-> [access.write EXCEPT !.ask = @ \ paths]]

(* load_process_config concatenates the layers, category by category.       *)
ConcatRules(a, b) ==
  [deny |-> a.deny \cup b.deny, ask |-> a.ask \cup b.ask, allow |-> a.allow \cup b.allow]

Concat(a, b) ==
  [read |-> ConcatRules(a.read, b.read), write |-> ConcatRules(a.write, b.write)]
=============================================================================
