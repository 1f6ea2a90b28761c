SPECIFICATION LiveSpec
CONSTANTS
  Saves = {s1, s2, s3}
  Procs = {p1, p2}
  Nil = Nil
  Modes = {TRUE}
  MaxFaults = 0
  MaxStops = 1
  MaxRequests = 0
  MaxManagedRequests = 0
PROPERTY EntitlementUsed
PROPERTY TurnStartedOrSpent
CHECK_DEADLOCK FALSE
