SPECIFICATION FairSpec
CONSTANTS
  e1 = e1
  e2 = e2
  PopSize = 1
  BestN = 1
  MaxSaved = 2
  Erc <- Two
  NumSubpops = 1
  Fitness = {1, 2}
  Perfect = 3
  Nodes = {1}
  Elitism = 0
  MaxFresh = 1
  MaxGen = 2
  CheckInterval = 0
  ExchGen = 9
  Exchanges <- NoExchange
  MaxKills = 0
  MaxRestarts = 1
CHECK_DEADLOCK FALSE
INVARIANTS ResumedRunLeavesCheckpoint
