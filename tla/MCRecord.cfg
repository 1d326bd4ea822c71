\* Three polls at most, settings that change and change back.  A signal
\* cancels the context before ss can die of it.
SPECIFICATION Spec
CONSTANTS
  before = before
  after = after
  None = None
  Empty = Empty
  Durations = {0, 2}
  MaxPolls = 3
  Readings = {before, after}
  Compressed = TRUE
  Prompt = TRUE
INVARIANTS
  ReplaySeesWhatLiveSaw
  CleanEndIsTrusted
  OwnFailureNotRecorded
PROPERTY Stops
CHECK_DEADLOCK FALSE
