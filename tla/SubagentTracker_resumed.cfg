SPECIFICATION Spec
CONSTANTS
  Child = {c1}
  MaxTurns = 3
  ParentKind = "host"
  Closing = FALSE
  NoHandle = NoHandle
INVARIANTS
  
  OnlyOwedOutputs
PROPERTIES
  ImplementsPromise
