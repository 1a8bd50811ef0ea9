SPECIFICATION Spec
CONSTANTS
  Agent = {a1}
  Root = Root
  User = User
  MaxHistory = 2
  MaxReadPerCall = 2
  Limit <- LimitsAsked
  Setups <- Uses
  NoMark = NoMark
  x = x
  y = y
  Member = {x, y}
  Accepts = {x, y}
  Assigns = {x, y}
  All = All
  NoTask = NoTask
  MaxIssues = 2
  Budgets <- Calls
  e1 = e1
  e2 = e2
  Editor = {e1, e2}
  Line <- Lines
  Blank = ""
  Plain <- Normal
  NoFile = NoFile
  Unset = Unset
  Works <- EditWorks
INVARIANTS
  ChatIsSound
  TasksAreHeldOnce
  FilesAreSound
PROPERTIES
  MarksOnlyAdvance
  NothingReadyIsMissed
SYMMETRY Members
CHECK_DEADLOCK FALSE
