\* One tick a day and weeks of two days, so that a retention of one day and two
\* weeks forgets snapshots within a few runs.
SPECIFICATION Spec
CONSTANTS
  Runners = {crond, operator}
  KeepDaily = 1
  KeepWeekly = 2
  TicksInDay = 1
  DaysInWeek = 2
  Stale = 1
  DumpFails = FALSE
  LastTick = 4
  MaxRuns = 3
SYMMETRY Symmetry
INVARIANTS
  SuccessIsUploaded
  SilenceRaisesAlarm
  RetentionKept
CHECK_DEADLOCK FALSE
