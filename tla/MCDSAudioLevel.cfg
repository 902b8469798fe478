SPECIFICATION AlSpec
CONSTANTS
  LevelCallers = {c1, c2}
  MaxLevel = 1
  DefaultLevel = 1
  Boots <- MCBoots
  MaxCalls = 3
  MaxRestarts = 1
INVARIANTS
  CachedLevelIsApplied
PROPERTIES
  DuckingHolds
  LevelIsSaved
  StopReturns
CHECK_DEADLOCK FALSE
