SPECIFICATION Spec
CONSTANTS
  Requests = {r1, r2, r3}
  Slots = 1
  Capacity = 2
  QueueTimeout = 1
  InferenceTimeout = 1
  ClockMayOverflow = TRUE
  EngineResults = {"ok", "error"}
  MaxDrops = 0
SYMMETRY Symmetry
VIEW Seen
INVARIANTS
  TypeOK
  PermitsConserved
  GaugesHold
  FairQueue
  SessionReady
  HonestAnswers
PROPERTIES
  OnlyUnavailableAfterClose
  ImplementsAdmission
