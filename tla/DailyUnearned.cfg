\* No fault at all: cron's runner holds the lock, and then fails.
CONSTANTS
  Cron = TRUE
  Runners = {r1, r2}
  NoRunner = NoRunner
  MaxDays = 1
  MaxFaults = 0
SPECIFICATION Spec
INVARIANT MarkedDaySucceeded
