SPECIFICATION Spec
CONSTANTS
  Threads = {t1, t2}
  Ids = {i1, i2}
  SLOTS = 2
  Sealed = FALSE
  MaxLaunches = 1
  MaxSignals = 2
  None = None
PROPERTY InterruptionEnds
