SPECIFICATION Spec
CONSTANTS
  Drivers = {"monitor", "hanging", "kcpustat", "prdebug", "helloioctl", "hellosysfs"}
  Samples = {s1, s2, s3}
  Batch = 3
  MaxCount = 5
  MaxThreads = 1
INVARIANTS
  OnlySamplesLeftBehind
  FaultIsUnchecked
  SamplesAreListed
  NotCountedTwice
PROPERTIES
  ReportIsIncrease
  ExitEnds
