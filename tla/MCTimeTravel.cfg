\* The live TUI with a recording: two findings, a buffer of two snapshots.
\* The program quits, and the polls stop at MaxPolls.
SPECIFICATION Spec
CONSTANTS
  leak = leak
  loss = loss
  host = host
  None = None
  BufferSize = 2
  Ids = {leak, loss}
  HostId = host
  GraceMisses = 1
  SlotWindow = 4
  SlotMin = 2
  Steps <- OneTick
  Growth = {None}
  MaxPolls = 3
  Answers <- SomeAnswers
  RuleOrder <- Rules
  Modes = {"record", "replay"}
INVARIANTS
  MomentIsShown
  RecordsWhatIsShown
PROPERTIES
  PinnedMoment
  SelectionFollowsFinding
  KeepsPolling
CHECK_DEADLOCK FALSE
