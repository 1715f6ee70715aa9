SPECIFICATION Spec
CONSTANTS
  Logger = {A, B}
  A = A
  B = B
  Thread <- TwoAndOne
  Key = {k1, k2}
  NoKey = NoKey
  NoThread = NoThread
  Interval = 2
  MaxRecords = 3
  Retention = 0
  LegacyRows = 1
  MaxId = 4
  MaxNow = 1
SYMMETRY Symmetry
INVARIANTS
  ChainVerifies
  KeysAgree
  NoFork
  VerifyAgrees
  DamageReported
