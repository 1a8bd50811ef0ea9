SPECIFICATION Spec
CONSTANTS
  Process = {p1, p2}
  Dir = {d1, d2}
  MaxRecent = 1
  MaxSessions = 3
  MaxTurns = 2
  MaxNamed = 1
  None = None
INVARIANTS
  OwnersAreSound
  SavedIsListed
PROPERTIES
  SavesOnlyAdvance
  ClosedIsSaved
SYMMETRY StoreSymmetry
CHECK_DEADLOCK FALSE
