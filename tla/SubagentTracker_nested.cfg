SPECIFICATION Spec
CONSTANTS
  Child = {c1, c2}
  MaxTurns = 1
  ParentKind = "subagent"
  Closing = TRUE
  NoHandle = NoHandle
INVARIANTS
  DeliveredIsAccountedFor
  TypeOK
  CompletionsAreKept
SYMMETRY ChildSymmetry
