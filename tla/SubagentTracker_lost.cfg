SPECIFICATION Spec
CONSTANTS
  Child = {c1}
  MaxTurns = 1
  ParentKind = "host"
  Closing = FALSE
  NoHandle = NoHandle
INVARIANTS
  ReleasedCompletionIsReturnable
