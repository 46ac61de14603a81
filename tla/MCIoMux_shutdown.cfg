CONSTANTS
  Conn = {c1}
  Fd = {f1}
  ServerFd = ServerFd
  Nil = Nil
  MaySignal = TRUE
  MaxReq = 1
CHECK_DEADLOCK FALSE
SPECIFICATION Spec
PROPERTIES ShutdownEnds
