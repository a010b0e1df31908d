CONSTANTS
  Files = {f1, f2, f3}
  Versions = {v1, v2}
  None = None
  Partial = Partial
  Instrumented = Instrumented
SYMMETRY Symmetry
SPECIFICATION SyncSpec
PROPERTY InterruptedTreeIsReplaced
