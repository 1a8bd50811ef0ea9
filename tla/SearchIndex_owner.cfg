SPECIFICATION FairSpec
CONSTANTS
  File = {file}
  Skill = {skill}
  Text = {a, b}
  Gone = Gone
  Unreadable = Unreadable
  Nobody = Nobody
  NoRecord = NoRecord
  Trees = {{file}, {skill}}
  MaxEdits = 2
  MaxOpens = 2
  MaxCrashes = 1
INVARIANTS
  IndexIsSound
  CatchUpIsComplete
  ClosedLetsGo
PROPERTIES
  
  ChangesAreIndexed
CHECK_DEADLOCK FALSE
