CONSTANTS
  Runs = {1, 2}
  Workflows = {"w"}
  WorkflowOf <- OneWorkflow
  Overlap <- QueueOverlap
  Instances = {"p1", "p2"}
  Ids = {"p1", "p2"}
  IdOf <- OwnIds
  Role <- ServerAndWorker
  Slots <- OneSlot
  NoOne = NoOne
  Punctual = TRUE
  Cancellable = {1}
  MaxCrashes = 0
  MaxResumes = 0
SPECIFICATION Spec
PROPERTIES
  TerminalIsFinal
CHECK_DEADLOCK FALSE
