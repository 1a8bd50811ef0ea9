SPECIFICATION Spec
CONSTANTS
  Agent = {a1}
  Root = Root
  User = User
  MaxHistory = 2
  MaxReadPerCall = 2
  Limit <- LimitsAsked
  Setups <- NoChat
  NoMark = NoMark
  x = x
  y = y
  Member = {x, y}
  Accepts = {x, y}
  Assigns = {x, y}
  All = All
  NoTask = NoTask
  MaxIssues = 2
  Budgets <- NoTasks
  e1 = e1
  e2 = e2
  Editor = {e1, e2}
  Line <- Lines
  Blank = ""
  Plain <- Normal
  NoFile = NoFile
  Unset = Unset
  Works <- OneEditor
INVARIANT SuggestionsChooseTheirTarget
CHECK_DEADLOCK FALSE
