SPECIFICATION FairSpec
CONSTANTS
  Original = {t1}
  Replacement = {t2, t3}
  MaxConcurrent = 2
  MaxAttempts = 2
  Threshold = 2
  FailureCap = 2
INVARIANTS
  Counters
  ProbeSlotHeld
  ClosedBelowThreshold
  DrainCoversSignal
PROPERTIES
  ShutdownTerminates
  ProbeSlotFreed
