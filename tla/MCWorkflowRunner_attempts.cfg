CONSTANTS
  Pipelines = {1, 2, 3}
  Shapes <- AllShapes
  MaxCrashes = 1
  MaxResumes = 1
SPECIFICATION FairSpec
INVARIANTS
  WavesProgress
  RanMeansReleased
  UnattendedSkipsAreRefused
  UpstreamIsOver
  FinishedRunsAreSettled
  ParkedRunHasPausedPipeline
PROPERTIES
  SuccessIsKept
  NothingStartsAfterAbort
  AttemptsEnd
CHECK_DEADLOCK FALSE
