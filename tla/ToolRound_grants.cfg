SPECIFICATION Spec
CONSTANTS
  Dir <- MCDir
  File <- MCFile
  Within <- MCWithin
  Home <- MCHome
  Trusted = TRUE
  Privileged <- MCPrivileged
  Calls <- MCCalls
  UserFiles <- MCUserFiles
  ProjectFiles <- MCProjectFiles
  Limits <- MCLimits
  MaxCalls = 2
  MaxRounds = 1
  MaxTurns = 1
  OtherGrant <- MCOtherGrant
CHECK_DEADLOCK FALSE
INVARIANTS
  RoundsAreSound
  OnlyPermittedEffects
  GrantsHaveConsent
  GrantsSurviveRestart
PROPERTIES
  AllowedCallsRun
  TurnEndsOrAsks
