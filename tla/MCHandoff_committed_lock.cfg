SPECIFICATION Spec
CONSTANTS
  alice = alice
  bob = bob
  a1 = a1
  a2 = a2
  b1 = b1
  Nil = Nil
  Torn = Torn
  Clients = {a1, b1}
  PlayerOrder <- TwoPlayers
  PlayerOf <- InstallationOf
  Hashes = {h1, h2}
  Ops = {o1, o2, o3}
  CarefulRepair = TRUE
  MaxFaults = 1
  MaxCrashes = 0
  MaxRepairs = 0
  MaxSweeps = 0
SYMMETRY Symmetry
INVARIANTS CommittedLockRecoverable
CHECK_DEADLOCK FALSE
