SPECIFICATION QSpec
CONSTANTS
  w1 = w1
  w2 = w2
  w3 = w3
  f1 = f1
  f2 = f2
  it1 = it1
  it2 = it2
  p1 = p1
  p2 = p2
  cpu = cpu
  net = net
  Workers = {w1, w2}
  Files = {f1, f2}
  Items = {it1, it2}
  Packages = {p1, p2}
  Resources = {}
  NoWork = NoWork
  Free = Free
  Drain = Drain
  Work <- AllFive
  WorkList <- SharedFile
  Pending <- AllFive
  Capacity <- NoCapacity
INVARIANTS
  IndexExact
  PackagesTakeTurns
  WaitsOnlyForResources
