SPECIFICATION CallerSpec
CONSTANTS
  Requests = {r1, r2}
  Slots = 1
  Capacity = 1
  QueueTimeout = 1
  InferenceTimeout = 1
  ClockMayOverflow = FALSE
  EngineResults = {"ok", "error"}
  MaxDrops = 1
INVARIANTS
  FailureReported
  RunStopsRight
PROPERTIES
  EveryCallerAnswered
  ClosedDrains
  WorkIsCollected
