SPECIFICATION Spec
CONSTANTS
  Chars <- McChars
  RawCompaction <- McCompaction
  PromptChars = 4
  Context = {"developer", "instructions"}
  Responses <- McResponses
  MaxSteps = 6
  MaxTokens = 16
  MayBeLate = TRUE
  Hooks = 2
  MaxTurns = 2
  MaxDiffs = 1
INVARIANTS ToolsPaired HooksBracket
PROPERTIES CompactionKeeps RequestsWithinLimits TurnEnds
CHECK_DEADLOCK FALSE
