SPECIFICATION FairSpec
CONSTANTS
  c1 = c1
  c2 = c2
  c3 = c3
  Child <- Two
  Fitness = {1}
  NumGen = 1
  MaxGen = 2
  PruneNum = 1
  PruneDen = 5
  ReapOutcomes = {"continue"}
  MaxCrashes = 1
PROPERTY SurvivorCompletes
CHECK_DEADLOCK FALSE
