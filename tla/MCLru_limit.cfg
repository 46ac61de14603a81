CONSTANTS
  Key = {k1, k2, k3, k4}
  Nil = Nil
  MaxKeyNumber = 3
  EvictCount = 1
  EpoolMaxSize = 2
  EpoolLRUSampleSize = 3
  MaxClock = 4
SYMMETRY KeySymmetry
SPECIFICATION Spec
INVARIANTS KeyLimit
