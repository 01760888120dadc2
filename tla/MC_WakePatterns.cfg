SPECIFICATION PatternSpec
CONSTANTS
  Pattern <- MCPattern
  Mask <- MCMask
  MaxSkip = 1
  MAX_PMR_ADDRESS = 8
  BASE_PM_START_ADDRESS = 2
  MAX_ALLOWED_PATTERN = 3
  MAX_BLOCKS = 4
INVARIANTS WordsOwnedOnce PatternsFound WatchesRegistered
