SPECIFICATION Spec
CONSTANTS
  Configs = {c1, c2}
  Processes = {p1, p2, p3}
  None = None
  MaxKills = 3
SYMMETRY Symmetry
INVARIANTS
  ServesCommitted
PROPERTIES
  SwitchEndsWhole
