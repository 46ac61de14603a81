CONSTANTS
  Key = {k1, k2}
  Value = {v1}
  Nil = Nil
  TtlSec = {1}
  MaxKeyNumber = 1
  EvictCount = 1
  EvictionPolicy = "allkeys-random"
  SampleSize = 1
  ThresholdPercent = 10
  MsPerSec = 2
  TwoTo63 = 64
  MaxNow = 3
SPECIFICATION Spec
PROPERTIES SetKeepsTtl
