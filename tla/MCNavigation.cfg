\* Pages of one to three rows, by the height of the terminal, the filter bar
\* and the scrub bar.
SPECIFICATION Spec
CONSTANTS
  a = a
  b = b
  c = c
  q = q
  e = e
  x = x
  None = None
  Conns = {a, b, c}
  KeyOf <- TwinKey
  Listening = {c}
  Queries = {q, e}
  Selects <- SomeQueries
  SortModes = 2
  Snapshots <- SomeSnapshots
  Heights = {10, 13}
  TabBar <- SomeTabs
  Rejected = {x}
  Blank = {e}
INVARIANTS
  RowsAreCurrent
  HighlightIsSelection
  CursorStaysVisible
PROPERTIES
  PromptOwnsItsTab
  SelectionFollowsConnection
