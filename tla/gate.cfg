\* The gate on CPython 3.13 and later, where a cancelled waiter passes its
\* notification on.
CONSTANTS
  Requests = {r1, r2, r3, r4, r5, r6}
  MaxActive = 2
  MaxQueued = 3
  NotifyPassedOn = TRUE
SPECIFICATION FairSpec
INVARIANTS
  Bookkeeping
  NoForgottenSlot
PROPERTIES
  PromiseKept
  QueuedIsAnswered
