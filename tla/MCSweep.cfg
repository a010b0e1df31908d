SPECIFICATION FairSpec
CONSTANTS
  w1 = w1
  w2 = w2
  m1 = m1
  m2 = m2
  s1 = s1
  b1 = b1
  b2 = b2
  t1 = t1
  None = None
  Workers = {w1, w2}
  Mutants = {m1, m2}
  Sites = {s1}
  Binaries = {b1, b2}
  Tests = {t1}
  Admitted = {t1}
  Budgeted = {b2}
  Deterministic = TRUE
  CaseLimit = 1
  SiteOf <- OneSite
  Reachable <- BothInOrder
  Hint <- FirstHinted
  HomeOf <- HomeOfT
  Suites <- ConsistentSuites
INVARIANTS
  VerdictsJustified
  RequiredRunsMade
  OkMeansComplete
PROPERTIES
  VerdictsFinal ImplementsVerdictLog
  SweepReturns
