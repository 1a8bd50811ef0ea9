SPECIFICATION FairSpec
CONSTANTS
  periodic = periodic
  once = once
  Timers = Timers
  WakeUp = WakeUp
  Watcher = Watcher
  None = None
  Change = {c1, c2}
  Scheduler = {Timers, WakeUp}
  Entry = {periodic, once}
  SchedulerOf <- Schedulers
  OneShot = {once}
  MaxFires = 1
  Walker <- Walkers
  Setups <- Sessions
  MaxCalls = 2
  MaxGrants = 1
  MaxResets = 1
INVARIANTS
  SourcesAreSound
  ShellsAreSound
  CloseIsComplete
PROPERTIES
  ChangesAreDispatched
  CallsEnd
CHECK_DEADLOCK FALSE
