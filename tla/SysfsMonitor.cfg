SPECIFICATION Spec
CONSTANTS
  Drivers = {"TP_06", "TP_07"}
  Loader = modprobe
  Writers = {w1, w2}
  MaxThreads = 3
INVARIANTS
  SequentialUseIsSafe
  RunTracksThread
  UnloadedIsQuiet
PROPERTIES
  CallsEnd
