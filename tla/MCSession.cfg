\* Five polls one or three ticks apart of one finding that comes and goes,
\* and of one that a host counter makes; in any of them the counters may be
\* unreadable, and ss may fail, list no socket, or fail with some listed.
SPECIFICATION Spec
CONSTANTS
  None = None
  BufferSize = 3
  Ids = {"leak"}
  HostId = "overflow"
  GraceMisses = 1
  SlotWindow = 5
  SlotMin = 2
  Steps <- ShortOrLong
  Growth = {None, 1}
  MaxPolls = 5
INVARIANTS
  HistoryMatchesBuffer
  SinceIsStartOfEpisode
  LogAgreesWithAges
  WindowReachesBack
  SlotsCoverWindow
CHECK_DEADLOCK FALSE
