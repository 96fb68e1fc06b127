CONSTANTS
  N = 4
  Layouts = {{1}, {2, 3}}
  BatchSize = 2
  Limit = 2
  Sinks = {"a", "b"}
  DeadLetters = {"d"}
  Attempts = 1
  SinkAttempts <- DeadLettersRetry
  Deadline = TRUE
  Skips = {"source", "d"}
  MaxCrashes = 1
SPECIFICATION FairSpec
INVARIANTS
  TypeOK
  CheckpointIsCovered
  SuccessIsComplete
  UndisturbedKeepsRejects
PROPERTIES
  CursorOnlyAdvances
  SourceEnds
CHECK_DEADLOCK FALSE
