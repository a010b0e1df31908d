SPECIFICATION Spec
CONSTANTS
  Workers = {w1, w2, w3}
  t1 = t1
  t2 = t2
  net = net
  disk = disk
  cli = cli
  srv = srv
  Binaries = {cli, srv}
  Tests = {t1, t2}
  Resources = {net, disk}
  OfBinary <- MCOfBinary
  OfTest <- MCOfTest
  Capacity <- MCCapacity
  MaxRuns = 2
  None = None
INVARIANTS SharedWithinCapacity NoWaiterForgotten
PROPERTIES EveryRunEnds
