SPECIFICATION FairSpec
CONSTANTS
  Trigger = {cron}
  Task = {f1, f2}
  MaxConcurrent = 2
  MaxPerRun = 2
  MaxTotal = 1
  MaxReload = 1
CHECK_DEADLOCK FALSE
INVARIANTS
  LimitsHold
  FollowUpAccounted
  NothingLeftArmed
PROPERTY FollowUpSettles
