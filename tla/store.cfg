\* Turns of two conversations, statement by statement, with every fault.
SPECIFICATION FairSpec
CONSTANTS
  Conversations = {c1, c2}
  Turns = {t1, t2, t3}
  Nobody = Nobody
  Length <- MCLength
  CurrentLength = 1
  Limits <- MCLimits
INVARIANTS
  NoOrdinalConflict
  ContextIsNewestTurns
  AnsweredIsStored
PROPERTIES
  LogKept
  EveryAppendEnds
