SPECIFICATION Spec
CONSTANTS
  Clients = {c1, c2}
  Loader = modprobe
  Pids = {1, 65538}
  FirstPid = 1
  MaxMonitors = 2
  MaxThreads = 3
INVARIANTS
  OrderedCallsAreSafe
  RunTracksThread
  TargetIsMonitored
  ResourcesReturned
PROPERTIES
  CallsEnd
