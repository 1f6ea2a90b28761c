SPECIFICATION ThreadsLiveSpec
CONSTANTS
  Games = {g1, g2}
  Nil = Nil
  MaxAsking = 1
  Watched = {g1}
  MaxChanges = 1
  MaxFaults = 1
INVARIANTS
  ClientOutlivesWorker
  BusyExact
PROPERTIES
  BusyEnds
  WorkerStops
  ChangesSeen
