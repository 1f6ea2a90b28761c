SPECIFICATION Spec
CONSTANTS
  Saves = {s1, s2, s3, s4}
  Procs = {p1, p2}
  Nil = Nil
  Modes = {TRUE}
  MaxFaults = 0
  MaxStops = 0
  MaxRequests = 0
  MaxManagedRequests = 0
SYMMETRY Symmetry
PROPERTY OnlySavesOfTheTurn
CHECK_DEADLOCK FALSE
