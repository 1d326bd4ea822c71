SPECIFICATION Spec
CONSTANTS
  None = None
  PollIntervalMS = 2000
  SlotMinMS = 1800
  CloseWaitWarn = 2
  CloseWaitCrit = 3
  TimeWaitWarn = 2
  TimeWaitCrit = 3
  Sockets = {"a", "b", "u"}
  UdpSockets = {"u"}
  Scenes <- Failing
INVARIANT BufferDropsAreBlamed
CHECK_DEADLOCK FALSE
