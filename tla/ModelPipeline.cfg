SPECIFICATION Spec
CONSTANTS
  Inputs = {weights, source}
  Cases = {c1, c2}
  Versions = {v1, v2}
  MaxExports = 2
  MaxRecords = 2
  MaxFails = 2
SYMMETRY Symmetry
INVARIANTS
  ReportIsCurrent
  GoldenIsTrue
  ReleaseIsTested
