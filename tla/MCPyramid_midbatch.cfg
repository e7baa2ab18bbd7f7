SPECIFICATION Spec
CONSTANTS
  c1 = c1
  c2 = c2
  c3 = c3
  Child <- Three
  Fitness = {1}
  NumGen = 2
  MaxGen = 3
  PruneNum = 1
  PruneDen = 5
  ReapOutcomes = {"continue"}
  MaxCrashes = 1
SYMMETRY Symmetry
INVARIANT FullBatchBeforePrune
CHECK_DEADLOCK FALSE
