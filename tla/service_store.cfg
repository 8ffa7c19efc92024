\* PostgreSQL whose conversation store and models may fail, an intact ledger;
\* routing and the chunks of the answers, across a midnight.
CONSTANTS
  Requests = {1, 2, 3}
  Conversations = {c1}
  NoConversation = NoConversation
  MaxActive = 2
  MaxQueued = 1
  MaxTurns = 1
  Budget = 1
  MaxTokens = 2
  LastDay = 1
  Durable = TRUE
  Faults = {"model", "store"}
  Documents = {d1}
  Classifications = {"evidence_required", "conversation"}
SPECIFICATION FairAnswerSpec
ACTION_CONSTRAINT ArrivalsInOrder
INVARIANTS
  UsageConserved
  BudgetOvershootBounded
  TurnOvershootBounded
  RouteIsSound
PROPERTIES
  FinalUsageCharged
  EveryTurnEnds
\* Requests are served once: the system stops when all are done.
CHECK_DEADLOCK FALSE
