SPECIFICATION Spec
CONSTANTS
  Samples = {s1, s2}
  Outside = Outside
  Layouts <- Adjacent
  Sampler = monitor_thread
  SysfsReaders = {}
  DebugfsReaders = {r1}
  Reclaimers = {c1}
  Unloaders = {rmmod}
  head = head
  Poison = Poison
  MaxCreated = 2
  MaxExtraPuts = 1
SYMMETRY Symmetry
INVARIANTS
  ReleasedOnce
  ListWellFormed
  RefAccounting
  LivingNotUnderReported
  FaultNeedsRelease
  CacheEmptyAtDestroy
  HeldMonitorIsLive
  WalkersDrained
PROPERTIES
  Implements
