CONSTANTS
  NSources = 1
  StartAtEnd = TRUE
  Noise = {}
  MaxLines = 1
  MaxRestarts = 0
  MaxCrashes = 1
SPECIFICATION Spec
INVARIANT NothingReplayed
