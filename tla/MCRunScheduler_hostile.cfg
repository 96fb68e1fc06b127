CONSTANTS
  Runs = {1, 2}
  Workflows = {"w"}
  WorkflowOf <- OneWorkflow
  Overlap <- QueueOverlap
  Instances = {"p1", "p2", "p3"}
  Ids = {"local"}
  IdOf <- SharedId
  Role <- AllRoles
  Slots <- TwoSlots
  NoOne = NoOne
  Punctual = FALSE
  Cancellable = {1}
  MaxCrashes = 1
  MaxResumes = 1
SPECIFICATION FairSpec
INVARIANTS
  OneSerialRunPerInstance
  RecoversBeforeExecuting
PROPERTIES
  QueuedRunsStart
  AbandonedRunsRecover
CHECK_DEADLOCK FALSE
