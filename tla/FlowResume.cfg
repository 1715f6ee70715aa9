SPECIFICATION Spec
CONSTANTS
  a = a
  b = b
  c = c
  d = d
  e = e
  Service = {a, b, c, d, e}
  Pred <- Diamond
  Denied = {e}
  Outcome = {"ok", "paused", "failed"}
  MaxRuns = 3
  MaxLost = 1
  NoRow = NoRow
CHECK_DEADLOCK FALSE
INVARIANTS
  NeverRunTwice
  JournalConsistent
PROPERTIES
  JournalKept
  Promised
