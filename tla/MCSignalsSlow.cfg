\* Polls of --interval 5s.
SPECIFICATION Spec
CONSTANTS
  None = None
  PollIntervalMS = 5000
  SlotMinMS = 1800
  CloseWaitWarn = 2
  CloseWaitCrit = 3
  TimeWaitWarn = 2
  TimeWaitCrit = 3
  Sockets = {"a", "b", "u"}
  UdpSockets = {"u"}
  Scenes <- SlowPolls
INVARIANT LossIsToldAsDocumented
CHECK_DEADLOCK FALSE
