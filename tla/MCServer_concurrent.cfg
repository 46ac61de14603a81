CONSTANTS
  k1 = k1
  k2 = k2
  v1 = v1
  Conn = {c1, c2, c3}
  Fd = {f1, f2}
  Key = {k1, k2}
  Value = {v1}
  Cmd <- DataCmds
  Hash <- TwoHashes
  Volatile = {k1}
  Nil = Nil
  NumHandlers = 2
  NumWorkers = 2
  BufferSize = 3
  MaxReq = 1
  MaySignal = FALSE
CHECK_DEADLOCK FALSE
SYMMETRY ConnSymmetry
SPECIFICATION Spec
INVARIANTS ReplyToAsker EveryConnHandled PartitionOwned OneTaskInFlight QueueBounded
PROPERTIES Linearizable
