CONSTANTS
  Ticks = {c1, c2, p1}
  c1 = c1
  c2 = c2
  KindOf <- Coordinators
  Setups <- Firing
  Items = {i1, i2, i3}
  DueCap = 2
  MaxItems = 2
  SeenLimit = 3
  MaxTime = 3
  MaxEdits = 0
  MaxErrors = 0
  MaxCrashes = 0
SPECIFICATION Spec
SYMMETRY Symmetry
INVARIANTS
  SeenReachedARun
CHECK_DEADLOCK FALSE
