SPECIFICATION Spec
CONSTANTS
  Requests = {r1, r2, r3}
  Slots = 2
  Capacity = 0
  QueueTimeout = 1
  InferenceTimeout = 1
  ClockMayOverflow = FALSE
  EngineResults = {"ok", "error"}
  MaxDrops = 0
SYMMETRY Symmetry
VIEW Seen
PROPERTIES
  NothingStartsAfterClose
