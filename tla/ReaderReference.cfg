SPECIFICATION Spec
CONSTANTS
  Samples = {s1, s2}
  Outside = Outside
  Layouts <- Apart
  Sampler = monitor_thread
  SysfsReaders = {r1}
  DebugfsReaders = {}
  Reclaimers = {c1, c2}
  Unloaders = {}
  head = head
  Poison = Poison
  MaxCreated = 2
  MaxExtraPuts = 1
SYMMETRY Symmetry
INVARIANTS
  HeldSampleIsLive
