SPECIFICATION Spec
CONSTANTS
  Key = {ann}
  Serial = {ann}
  Message = {m1, m2}
  MaxConcurrent = 3
  MaxClarify = 1
  MaxStored = 1
  None = none
CHECK_DEADLOCK FALSE
INVARIANT NextMessageIsAnswer
