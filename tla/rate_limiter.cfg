\* Two visitors, more than two windows of two seconds, one midnight.
SPECIFICATION MonitorSpec
CONSTANTS
  Keys = {k1, k2}
  Limit = 2
  Window = 2
  Second = 2
  LastTick = 9
  Midnights = {5}
SYMMETRY Symmetry
INVARIANTS
  WindowsRespected
  KeysForgotten
  VisitorsCounted
PROPERTY
  RetryAfterHonest
