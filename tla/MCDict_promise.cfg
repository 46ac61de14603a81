CONSTANTS
  Key = {k1, k2, k3}
  Value = {v1}
  Nil = Nil
  TtlSec = {0, 1}
  MaxKeyNumber = 2
  EvictCount = 1
  EvictionPolicy = "allkeys-random"
  SampleSize = 1
  ThresholdPercent = 10
  MsPerSec = 2
  TwoTo63 = 64
  MaxNow = 5
SPECIFICATION Spec
INVARIANTS TypeOK NoOrphanTtl KeyLimit TtlInRange
PROPERTIES  SweepEnds KeepsPromise
