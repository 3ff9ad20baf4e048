SPECIFICATION FetchSpec
CONSTANTS
  Conns = {}
  Rotations = {r1}
  Watchdogs = {wd}
  Edges = {e1, e2}
  Capacity = 1
  FailThreshold = 1
  Requests = {q1}
  Streams = {s1, s2}
PROPERTY FetchFollowsDialer
