\* Two requests of one conversation side by side, and nothing that fails.
CONSTANTS
  Requests = {r1, r2}
  Conversations = {c1}
  NoConversation = NoConversation
  MaxActive = 2
  MaxQueued = 0
  MaxTurns = 1
  Budget = 3
  MaxTokens = 1
  LastDay = 0
  Durable = FALSE
  Faults = {}
SPECIFICATION Spec
INVARIANTS
  TurnsWithinMaximum
CHECK_DEADLOCK FALSE
