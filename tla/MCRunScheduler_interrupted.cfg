CONSTANTS
  Runs = {1, 2, 3}
  Workflows = {"v", "w"}
  WorkflowOf <- TwoWorkflows
  Overlap <- MixedOverlap
  Instances = {"p1", "p2"}
  Ids = {"p1", "p2"}
  IdOf <- OwnIds
  Role <- ServerAndWorker
  Slots <- OneSlot
  NoOne = NoOne
  Punctual = TRUE
  Cancellable = {1}
  MaxCrashes = 1
  MaxResumes = 1
SPECIFICATION Spec
INVARIANTS
  OneExecutionPerRun
  HeartbeatsMatchExecutions
  SerialAcrossInstances
  ExecutingRowIsProtected
PROPERTIES
  ImplementsLifecycle
  RecoveryTakesOnlyIdleRuns
CONSTRAINT OneInterruption
CHECK_DEADLOCK FALSE
