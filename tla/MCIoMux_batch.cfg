CONSTANTS
  Conn = {c1, c2, c3}
  Fd = {f1, f2}
  ServerFd = ServerFd
  Nil = Nil
  MaySignal = TRUE
  MaxReq = 1
CHECK_DEADLOCK FALSE
SPECIFICATION Spec
INVARIANTS TypeOK StatusTellsWork EventsNotStale
PROPERTIES EveryCommandAnswered
