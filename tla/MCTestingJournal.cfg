CONSTANTS
  Mutants = {m1, m2}
  Outcomes = {killed, survived}
  Pending = Pending
  MaxCampaigns = 2
  MaxExecutions = 1
  MaxDiagnostics = 1
SYMMETRY Symmetry
SPECIFICATION Spec
INVARIANTS
  MarkedIsReadable
  TestsLatestBuild
  CompletedIsPublished
PROPERTIES CostExact ImplementsVerdictLog
CHECK_DEADLOCK FALSE
