SPECIFICATION Spec
CONSTANTS
  Driver = driver
  Exiter = exiter
  Daemons = {d1, d2}
  Locations = {l1, l2}
  Down = down
  Fleet <- OnlyKilling
  Outages = FALSE
PROPERTIES
  ConnectReaches
