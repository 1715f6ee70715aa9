SPECIFICATION Spec
CONSTANTS
  m1 = m1
  m2 = m2
  r1 = r1
  p1 = p1
  p2 = p2
  Manager = {m1, m2}
  Reader = {r1}
  Pid = {p1, p2}
  MaxBirth = 2
  MaxGen = 3
  Nobody = Nobody
  NoState = NoState
  NoProc = NoProc
SYMMETRY Symmetry
INVARIANTS
  DaemonAccounted
  OneDaemon
  TickAlone
  NeverSignalsStranger
  RolePresent
CHECK_DEADLOCK FALSE
