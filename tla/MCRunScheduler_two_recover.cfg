CONSTANTS
  Runs = {1, 2}
  Workflows = {"w"}
  WorkflowOf <- OneWorkflow
  Overlap <- QueueOverlap
  Instances = {"p1", "p2"}
  Ids = {"p1", "p2"}
  IdOf <- OwnIds
  Role <- ServerAndWorker
  Slots <- OneSlot
  NoOne = NoOne
  Punctual = TRUE
  Cancellable = {}
  MaxCrashes = 2
  MaxResumes = 0
SPECIFICATION Spec
INVARIANTS
  OneExecutionPerRun
CHECK_DEADLOCK FALSE
