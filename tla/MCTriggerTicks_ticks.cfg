CONSTANTS
  Ticks = {c1, c2, p1}
  c1 = c1
  c2 = c2
  KindOf <- Coordinators
  Setups <- OneTrigger
  Items = {i1, i2, i3}
  DueCap = 2
  MaxItems = 2
  SeenLimit = 3
  MaxTime = 3
  MaxEdits = 1
  MaxErrors = 1
  MaxCrashes = 1
SPECIFICATION Spec
SYMMETRY Symmetry
INVARIANTS
  NothingSkipped
  SeenWasOffered
  SecondRunsWereLost
CHECK_DEADLOCK FALSE
