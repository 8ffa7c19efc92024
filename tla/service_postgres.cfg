\* PostgreSQL with every fault the environment can produce.
CONSTANTS
  Requests = {r1, r2, r3}
  Conversations = {c1}
  NoConversation = NoConversation
  MaxActive = 2
  MaxQueued = 1
  MaxTurns = 1
  Budget = 1
  MaxTokens = 1
  LastDay = 0
  Durable = TRUE
  Faults = {"model", "store", "ledger", "disconnect", "restart", "expiry"}
SPECIFICATION OneDaySpec
SYMMETRY Interchangeable
INVARIANTS
  BudgetOvershootBounded
  OneOutcome
  LeaseFollowsTurn
  NoUsageResidue
  UsageNeverDuplicated
PROPERTIES
  CompletedIsStoredAndBilled
  LogKept
\* Requests are served once: the system stops when all are done.
CHECK_DEADLOCK FALSE
