SPECIFICATION UiSpec
CONSTANTS
  KindOf <- MCKindOf
  MaxSeq = 3
  PageLen = 1
  BatchLen = 2
  MaxStreams = 1
  MaxAnchors = 2
  Exports <- MCExports
  Policies <- MCPolicies
  Pages = {"table", "session", "verify", "status"}
  Inputs = {"x"}
  Focuses = {1}
  MaxLoads = 3
  MaxLost = 1
INVARIANTS ExportExact ShownAnswersLast FocusLands WalkComplete
PROPERTY SlotsFreed
CHECK_DEADLOCK FALSE
