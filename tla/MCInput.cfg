\* Every text of up to five tokens; and more addresses on screen than the
\* cache holds.
SPECIFICATION Spec
CONSTANTS
  NoNode = NoNode
  Terms = {"a", "b"}
  Unknown = {"x"}
  MaxTokens = 5
  Ips = {i1, i2, i3}
  Others = {o1, o2}
  MaxCache = 2
INVARIANTS
  OneLookup
  SelectsWhatGrammarSays
PROPERTY ShownIsNamed
CHECK_DEADLOCK FALSE
