SPECIFICATION IngestionSpec
CONSTANTS
  File = {notes, upload}
  Url = {page}
  Configured = {notes}
  Text = {t1, t2}
  Blank = blank
  Model = {m1, m2}
  Actor = {a, b}
  Process = {p, q}
  MaxJob = 3
  MaxUpset = 1
  None = none
SYMMETRY Symmetry
CHECK_DEADLOCK FALSE
INVARIANTS
  IngestionTypeOK
  HashTellsContent
  OneModel
  
  RunPurges
