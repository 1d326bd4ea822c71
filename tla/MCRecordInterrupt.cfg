\* The context is cancelled by a goroutine of its own, ss dies on its own.
SPECIFICATION Spec
CONSTANTS
  before = before
  after = after
  None = None
  Empty = Empty
  Durations = {0, 2}
  MaxPolls = 3
  Readings = {before, after}
  Compressed = TRUE
  Prompt = FALSE
INVARIANT OwnFailureNotRecorded
CHECK_DEADLOCK FALSE
