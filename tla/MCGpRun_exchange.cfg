SPECIFICATION FairSpec
CONSTANTS
  e1 = e1
  e2 = e2
  PopSize = 2
  BestN = 1
  MaxSaved = 8
  Erc <- One
  NumSubpops = 2
  Fitness = {0, 1}
  Perfect = 3
  Nodes = {1}
  Elitism = 1
  MaxFresh = 1
  MaxGen = 2
  CheckInterval <- Never
  ExchGen = 1
  Exchanges <- Ring
  MaxKills = 0
  MaxRestarts = 0
CHECK_DEADLOCK FALSE
INVARIANTS ErcCountsExact
PROPERTIES RunEnds
