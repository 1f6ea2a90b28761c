SPECIFICATION Spec
CONSTANTS
  Saves = {s1, s2, s3}
  Procs = {p1, p2}
  Nil = Nil
  Modes = {FALSE, TRUE}
  MaxFaults = 1
  MaxStops = 1
  MaxRequests = 2
  MaxManagedRequests = 1
SYMMETRY Symmetry
INVARIANT EntitlementSound
INVARIANT CandidateIsNew
INVARIANT ProcessedAccepted
PROPERTY TerminatesOnlyCommitted
PROPERTY OneAutomaticLaunch
PROPERTY StandardActsOnRequest
CHECK_DEADLOCK FALSE
