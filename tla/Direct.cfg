SPECIFICATION FairSpec
CONSTANTS
  Driver = driver
  Exiter = exiter
  Daemons = {d1, d2}
  Locations = {l1, l2}
  Down = down
  Fleet <- Covering
  Outages = TRUE
INVARIANTS
  TypeOK
  FailureLeavesNothing
  DisconnectReleases
  SigtermReleases
  StaleLinkCleared
PROPERTIES
  CleanConnectReaches
  Reconnects
