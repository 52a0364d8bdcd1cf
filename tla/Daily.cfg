\* Scheduler and cron next to each other over a midnight.
CONSTANTS
  Cron = TRUE
  Runners = {r1, r2, r3}
  NoRunner = NoRunner
  MaxDays = 2
  MaxFaults = 2
SPECIFICATION FairSpec
\* The clock stops after MaxDays, and everything then may stop.
CHECK_DEADLOCK FALSE
INVARIANTS
  TypeOK
  OneRunnerAtWork
  StaleLockNeedsKill
  MarkedDayHandled
  SuccessesBounded
PROPERTY FailedAttemptRetried
