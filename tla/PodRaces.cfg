SPECIFICATION Spec
CONSTANTS
  Main = main
  Timers = {timer}
  Http = {h1}
  Watchdogs = {}
  Guards = {}
  Recyclers = {recycler}
  Locations = {l1}
  Excluded = {}
  Down = down
  MaxAttempts = 1
  RecycleLimit = 0
  BaselineKnown = FALSE
  Outages = TRUE
INVARIANTS TypeOK DrivenUnlessSettled ShutdownDisconnectsOnce BootIsExclusive
