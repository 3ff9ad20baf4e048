SPECIFICATION FairSpec
CONSTANTS
  Main = main
  Timers = {timer}
  Http = {}
  Watchdogs = {wd}
  Guards = {}
  Recyclers = {}
  Locations = {l1}
  Excluded = {}
  Down = down
  MaxAttempts = 1
  RecycleLimit = 0
  BaselineKnown = TRUE
  Outages = TRUE
INVARIANT DrivenUnlessSettled
PROPERTIES AlwaysSettles Recovers
