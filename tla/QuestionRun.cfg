SPECIFICATION Spec
CONSTANTS
  None = None
  Tasks <- McTasks
  Agents = {"x", "y"}
  DefaultAgent = "y"
  Selections <- McSelections
  MaxQuestions = 2
  EventCap = 2
  MaxDrops = 1
  Script <- McScript
INVARIANTS VerdictMatches RanAsSelected NoSendOnClosed ScreenMatchesResults
PROPERTIES RowsSettle RunEnds
CHECK_DEADLOCK FALSE
