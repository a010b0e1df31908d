SPECIFICATION Spec
CONSTANTS
  Threads = {t1, t2}
  Ids = {i1, i2}
  SLOTS = 1
  Sealed = TRUE
  MaxLaunches = 2
  MaxSignals = 2
  None = None
SYMMETRY Symmetry
INVARIANTS IdentitiesPinned ChildrenReachable NothingSurvives
