\* New chat is clicked while an answer streams.
CONSTANTS
  Turns = {t1, t2}
  Conversations = {c1, c2}
  None = None
  Hazards = {"reset"}
CHECK_DEADLOCK FALSE
SPECIFICATION Spec
INVARIANTS
  TranscriptIsConversation
