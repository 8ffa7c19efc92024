\* A visitor who waits for answers; the page may be refreshed, and sessions
\* go stale.
CONSTANTS
  Turns = {t1, t2, t3}
  Conversations = {c1, c2}
  None = None
  Hazards = {"expiry", "reload"}
SPECIFICATION FairSpec
INVARIANTS
  TranscriptIsConversation
  SavedIsConversation
  OneRequestAtATime
  PendingIsRunning
PROPERTIES
  ReloadKeepsAnswers
  ComposerUnlocks
