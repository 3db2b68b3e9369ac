SPECIFICATION Spec
CONSTANTS
  Terminals = {t1, t2}
  Versions = {v1, v2}
  Pids = {p1, p2, p3}
  None = None
  MaxSignals = 1
  MaxKills = 1
SYMMETRY Symmetry
VIEW Seen
CONSTRAINTS
  FewProcesses
  OneLoss
  LittleMisled
INVARIANTS
  OneOperation
  LockIsReleased
  OneServer
  SwitchIsRecoverable
PROPERTIES
  RecordIsKept
  CommittedIsValidated
