SPECIFICATION Spec
CONSTANTS
  Trigger = {cron}
  Task = {f1, f2}
  MaxConcurrent = 1
  MaxPerRun = 1
  MaxTotal = 2
  MaxReload = 0
CHECK_DEADLOCK FALSE
INVARIANT LimitIsPerRun
