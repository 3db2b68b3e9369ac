SPECIFICATION Spec
CONSTANTS
  Versions = {v1, v2}
  Configs = {c1, c2}
  None = None
  Torn = Torn
  MaxSignals = 2
  MaxKills = 2
SYMMETRY Symmetry
INVARIANTS
  LastGoodIsKept
PROPERTIES
  ServedAsReported
  RollbackRestores
