SPECIFICATION Spec
CONSTANTS
  Main = main
  Timers = {timer}
  Http = {}
  Watchdogs = {}
  Guards = {guard}
  Recyclers = {}
  Locations = {l1, l2, l3}
  Excluded = {l3}
  Down = down
  MaxAttempts = 2
  RecycleLimit = 1
  BaselineKnown = TRUE
  Outages = TRUE
INVARIANTS NoRetryOfFailedLocation RotationHidesReady HeaderIsCurrent ReadyExitsAsAdvertised
PROPERTIES TeardownOnlyUnready KeepsContract
