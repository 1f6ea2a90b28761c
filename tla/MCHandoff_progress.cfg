SPECIFICATION FairSpec
CONSTANTS
  Nil = Nil
  alice = alice
  bob = bob
  a1 = a1
  a2 = a2
  b1 = b1
  Torn = Torn
  Clients = {a1}
  PlayerOrder <- TwoPlayers
  PlayerOf <- InstallationOf
  Hashes = {h1, h2}
  Ops = {o1, o2, o3, o4}
  CarefulRepair = TRUE
  MaxFaults = 2
  MaxCrashes = 1
  MaxRepairs = 0
  MaxSweeps = 1
INVARIANTS
  AcceptedSavesStored
PROPERTIES
  RetryResolves
CHECK_DEADLOCK FALSE
