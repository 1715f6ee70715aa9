SPECIFICATION Spec
CONSTANTS
  Thread = {t1, t2}
  Use = {0, 2}
  MaxAttempts = 2
  Lifetime = 4
  Daily = 2
  DailyCost = 0
  WeeklyCost = 3
  Zones = {0, 1}
  DaysPerWeek = 1
  MaxClock = 2
  NoState = NoState
SYMMETRY Symmetry
INVARIANTS
  TotalConserved
  DayConserved
  OvershootBounded
