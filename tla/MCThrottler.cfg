SPECIFICATION Spec
CONSTANTS
  Repos = {r1, r2, r3}
  MaxConcurrent = 2
  Requests = 2
  Durations = {0, 1, 3}
  MIN_PAUSE_EXTENSION = 1
  MaxLimits = 2
  MaxTime = 3
  None = None
INVARIANTS LongestPauseWins ParkedWillWake
PROPERTY EveryFetchReturns
