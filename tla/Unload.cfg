SPECIFICATION LiveSpec
CONSTANTS
  Samples = {s1}
  Outside = Outside
  Layouts <- Apart
  Sampler = monitor_thread
  SysfsReaders = {r1}
  DebugfsReaders = {}
  Reclaimers = {c1}
  Unloaders = {rmmod}
  head = head
  Poison = Poison
  MaxCreated = 1
  MaxExtraPuts = 1
PROPERTIES
  DroppedIsFreed
  UnloadEnds
