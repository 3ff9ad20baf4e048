SPECIFICATION Spec
CONSTANTS
  Main = main
  Timers = {timer}
  Http = {}
  Watchdogs = {}
  Guards = {}
  Recyclers = {recycler}
  Locations = {l1}
  Excluded = {}
  Down = down
  MaxAttempts = 1
  RecycleLimit = 0
  BaselineKnown = TRUE
  Outages = FALSE
INVARIANT ExitReleasesSession
