SPECIFICATION FairChainSpec
CONSTANTS
  Conns = {c1, c2}
  Rotations = {r1}
  Watchdogs = {wd}
  Edges = {e1}
  Capacity = 1
  FailThreshold = 2
INVARIANTS ChainTypeOK CountersExact DrainFlagReleased DisconnectedFailsClosed
PROPERTIES DrainCompletes RefusalHealed
