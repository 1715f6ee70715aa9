SPECIFICATION Spec
CONSTANTS
  c1 = c1
  c2 = c2
  c3 = c3
  cli = cli
  server = server
  Call = {c1, c2, c3}
  Resumer = {cli, server}
  Server = {server}
  MaxPause = 2
  MaxFault = 1
  NoRow = NoRow
SYMMETRY Symmetry
INVARIANTS
  Honoured
  NothingForgotten
  ShownBeforeExecuted
PROPERTY DecisionStands
CHECK_DEADLOCK FALSE
