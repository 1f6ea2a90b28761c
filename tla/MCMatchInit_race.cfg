SPECIFICATION Spec
CONSTANTS
  c1 = c1
  c2 = c2
  c3 = c3
  cfgA = cfgA
  cfgB = cfgB
  Clients = {c1, c2, c3}
  Configs = {cfgA, cfgB}
  Config <- MCConfig
  Subdirs = 4
  Nil = Nil
  MaxFaults = 2
  MaxCrashes = 1
  MaxMoves = 1
INVARIANTS
  TreeComplete
  ReportsTrue
PROPERTY NeverReset
