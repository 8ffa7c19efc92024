\* A notification lost with its cancelled waiter, on the deployed CPython 3.12.
CONSTANTS
  Requests = {r1, r2, r3}
  MaxActive = 1
  MaxQueued = 2
  NotifyPassedOn = FALSE
SPECIFICATION FairSpec
INVARIANTS
  NoForgottenSlot
