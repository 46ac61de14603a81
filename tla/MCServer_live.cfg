CONSTANTS
  k1 = k1
  k2 = k2
  v1 = v1
  Conn = {c1, c2}
  Fd = {f1}
  Key = {k1}
  Value = {v1}
  Cmd <- LiveCmds
  Hash <- OneHash
  Volatile = {}
  Nil = Nil
  NumHandlers = 2
  NumWorkers = 2
  BufferSize = 1
  MaxReq = 1
  MaySignal = TRUE
CHECK_DEADLOCK FALSE
SPECIFICATION Spec
INVARIANTS TypeOK
PROPERTIES EveryCommandAnswered EveryConnAccepted ShutdownEnds
