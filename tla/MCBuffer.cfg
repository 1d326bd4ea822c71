\* A ring of two that wraps twice in four polls, two sockets with the same
\* addresses, one of them with its inode hidden, and an export that may start
\* at any time and again.
SPECIFICATION Spec
CONSTANTS
  a = a
  b = b
  t = t
  None = None
  BufferSize = 2
  Sockets = {a, b}
  Tuple <- SharedTuple
  ShowsInode = {a}
  Exporters = {e1}
  MaxBytes = 1
  MaxPolls = 4
INVARIANTS
  OffsetIsAge
  DeltaIsLastPollOfSocket
  ExportIsOneInstant
PROPERTY ImplementsHistory
