SPECIFICATION Spec
CONSTANTS
  lock = lock
  temp = temp
  final = final
  Paths = {lock, temp, final}
  Private = {temp}
  Calls <- MCCalls
  Servers <- MCServers
  Nil = Nil
  Dir = Dir
  Full = Full
  Part = Part
  Mine = Mine
  Foreign = Foreign
  MaxOthers = 2
  MaxDrops = 2
  MaxRefusals = 1
INVARIANTS
  CapabilitiesTrue
  ProbeRemoved
PROPERTIES
  PortKept
