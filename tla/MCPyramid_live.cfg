SPECIFICATION FairSpec
CONSTANTS
  c1 = c1
  c2 = c2
  c3 = c3
  Child <- Two
  Fitness = {1, 2}
  NumGen = 1
  MaxGen = 2
  PruneNum = 1
  PruneDen = 5
  ReapOutcomes = {"continue", "stop", "crash"}
  MaxCrashes = 1
INVARIANTS SoleSurvivor NobodyForgotten
PROPERTIES Termination RoundsProgress PruneObeyed
CHECK_DEADLOCK FALSE
