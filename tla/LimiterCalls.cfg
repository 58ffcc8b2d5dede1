SPECIFICATION Spec
CONSTANTS
  Configs <- McConfigs
  Engines = {"memory", "tb"}
  Key = {"slots", "tokens", "requests"}
  Kind <- McKind
  Span <- McSpan
  Capacity <- McCapacity
  Batches <- McBatches
  MaxCalls = 2
  MaxBatch = 2
  MaxRequirements = 3
  MaxFaults = 1
  Adjusted = {"slots"}
  MaxChanges = 1
  MaxExpiries = 1
  Policy <- McPolicy
  MaxInt = 600
  Streaks = {6}
  MaxStreak = 7
INVARIANTS OwnAnswers LeasesMatchAnswers HintBounded
PROPERTIES CallsReturn
CHECK_DEADLOCK FALSE
