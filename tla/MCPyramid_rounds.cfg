SPECIFICATION Spec
CONSTANTS
  c1 = c1
  c2 = c2
  c3 = c3
  Child <- Three
  Fitness = {1, 2}
  NumGen = 2
  MaxGen = 5
  PruneNum = 1
  PruneDen = 5
  ReapOutcomes = {"continue"}
  MaxCrashes = 0
SYMMETRY Symmetry
INVARIANTS TypeOK OneReportPerBatch FairComparison CommandFindsChildPaused
PROPERTY LockstepSteps
