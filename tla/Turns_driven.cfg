SPECIFICATION FairSpec
CONSTANTS
  a1 = a1
  a2 = a2
  m1 = m1
  m2 = m2
  t1 = t1
  t2 = t2
  e1 = e1
  Agent = {a1, a2}
  Root = Root
  Setups <- Trees
  Message = {m1, m2}
  MaxQueue = 2
  MaxPerParent = 1
  MaxTotal = 2
  MaxChains = 4
  MaxNudges = 1
  Outside = Outside
  None = None
  UserMessage = {u1}
  EventMessage = {e1}
  Chained = Chained
  MaxChained = 2
  MaxPrompts = 2
  NoHost = NoHost
  Typed = {t1, t2}
  Reported = {e1}
  FromStart = FromStart
  MaxSessions = 2
  Budgets <- TerminalUses
  Timeout = 3
INVARIANTS
  SlotsAreSound
  RunsAreSound
  ReplIsSound
  
  CancelsAreExact
  SparesTheLiving
PROPERTIES
  MessagesReachAgents
  
  HangsEnd
CHECK_DEADLOCK FALSE
