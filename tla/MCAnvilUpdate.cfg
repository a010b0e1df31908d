SPECIFICATION Spec
CONSTANTS
  p1 = p1
  a = a
  b = b
  Paths = {p1}
  Regions = {a, b}
  Versions = {v1, v2}
  Words = {mine}
  Order <- const_Order
  File = File
  Missing = Missing
  Empty = Empty
  None = None
  MaxEdits = 2
  MaxReleases = 2
INVARIANTS RunTwiceIsRunOnce UpToDate
PROPERTY EditsKept
