SPECIFICATION FairServerSpec
CONSTANTS
  Requests = {r1, r2}
  Slots = 2
  Capacity = 0
  QueueTimeout = 1
  InferenceTimeout = 1
  ClockMayOverflow = FALSE
  EngineResults = {"ok"}
  MaxDrops = 0
  Grace = 1
  HttpMayFail = TRUE
INVARIANTS
  CleanExit
  StopAfterWork
PROPERTIES
  DrainEnds
  PanicStopsService
CHECK_DEADLOCK FALSE
