SPECIFICATION LiveSpec
CONSTANTS
  Relays = {r1, r2}
  Procs = {p1, p2}
  Nil = Nil
  MaxFaults = 2
  MaxCrashes = 1
  MaxStarts = 1
INVARIANTS
  OneRelayCiv
PROPERTIES
  GuardIsGivenUp
  LaunchSpec
