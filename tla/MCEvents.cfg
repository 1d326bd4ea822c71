\* A ring of three over four polls, in windows of two and three rows.  In a
\* content of fewer than six lines PageUp goes down without a limit.
SPECIFICATION Spec
CONSTANTS
  BufferSize = 3
  Snapshots <- SomeSnapshots
  Steps = {1}
  Heights = {7, 8}
  MaxPolls = 4
INVARIANTS
  EventsAreOnsets
  CacheIsCurrent
PROPERTY PagesLeaveNoGap
