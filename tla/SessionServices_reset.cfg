SPECIFICATION Spec
CONSTANTS
  periodic = periodic
  once = once
  Timers = Timers
  WakeUp = WakeUp
  Watcher = Watcher
  None = None
  Change = {}
  Scheduler = {Timers, WakeUp}
  Entry = {periodic, once}
  SchedulerOf <- Schedulers
  OneShot = {once}
  MaxFires = 1
  Walker <- Walkers
  Setups <- Eventful
  MaxCalls = 0
  MaxGrants = 1
  MaxResets = 1
INVARIANTS
  SourcesCloseWithTheSession
CHECK_DEADLOCK FALSE
