SPECIFICATION IngestionSpec
CONSTANTS
  File = {notes, upload}
  Url = {}
  Configured = {notes}
  Text = {t1}
  Blank = blank
  Model = {m1, m2}
  Actor = {a}
  Process = {p}
  MaxJob = 2
  MaxUpset = 0
  None = none
CHECK_DEADLOCK FALSE
INVARIANT ManifestSurvivesWipe
