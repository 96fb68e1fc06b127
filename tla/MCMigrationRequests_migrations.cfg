SPECIFICATION FairSpec
CONSTANTS
  Requests = {"first", "again", "undo"}
  IdemKeys = {"key"}
  NoKey = "nokey"
  KeyOf <- KeyFor
  NSteps = 2
  NameOf <- TwoObjects
  Inputs <- Mixed
  MaxStale = 1
INVARIANTS
  OneWriter
  KeyRunsOnce
  ReportIsTrue
  PlansAreFresh
PROPERTIES
  DuplicatesAreAnswered
CHECK_DEADLOCK FALSE
