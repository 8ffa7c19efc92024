\* One run, in which pg_dump may fail.
SPECIFICATION Spec
CONSTANTS
  Runners = {crond}
  KeepDaily = 7
  KeepWeekly = 4
  TicksInDay = 1
  DaysInWeek = 7
  Stale = 1
  DumpFails = TRUE
  LastTick = 2
  MaxRuns = 2
INVARIANT
  SuccessIsRestorable
CHECK_DEADLOCK FALSE
