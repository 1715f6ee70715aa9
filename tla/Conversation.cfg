SPECIFICATION Spec
CONSTANTS
  Key = {ann, bob}
  Serial = {bob}
  Message = {m1, m2, m3, m4}
  MaxConcurrent = 3
  MaxClarify = 2
  MaxStored = 1
  None = none
SYMMETRY Symmetry
CHECK_DEADLOCK FALSE
INVARIANTS
  OpenQuestions
  AnswerIsRead
 
