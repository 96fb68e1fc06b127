SPECIFICATION FairSpec
CONSTANTS
  Calls = {c1, c2, c3}
  Callers = {c1, c2}
  Keys = {k1, k2}
  MaxPools = 1
  FailureThreshold = 2
  SuccessThreshold = 1
INVARIANTS
  OneTrialPerPeriod
  PoolsAreCached
  CreationsAreShared
PROPERTIES
  AdmissionsContinue
