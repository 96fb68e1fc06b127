CONSTANTS
  Pipelines = {1, 2, 3}
  Shapes <- OneQuestion
  MaxCrashes = 0
  MaxResumes = 0
SPECIFICATION Spec
INVARIANTS
  SkippedMeansRefused
CHECK_DEADLOCK FALSE
