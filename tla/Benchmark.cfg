SPECIFICATION FairSpec
CONSTANTS
  Configs = 2
  Groups = 2
  Clients <- OneThenTwo
  MinTime = 1
  MinCompleted = 1
  MaxTime = 2
  MaxAttempts = 2
CHECK_DEADLOCK FALSE
INVARIANTS
  LoadIsBounded
  ExitMeansMet
  FailureIsExact
PROPERTIES
  RunEnds
