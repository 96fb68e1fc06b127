CONSTANTS
  N = 3
  Layouts = {{}, {1}}
  BatchSize = 2
  Limit = 2
  Sinks = {"a"}
  DeadLetters = {"d"}
  Attempts = 1
  SinkAttempts <- NoRetries
  Deadline = FALSE
  Skips = {}
  MaxCrashes = 0
SPECIFICATION Spec
INVARIANTS
  RejectsAreKept
CHECK_DEADLOCK FALSE
