SPECIFICATION FairSpec
CONSTANTS
  e1 = e1
  e2 = e2
  PopSize = 2
  BestN = 1
  MaxSaved = 4
  Erc <- One
  NumSubpops = 1
  Fitness = {0, 1}
  Perfect = 3
  Nodes = {1}
  Elitism = 0
  MaxFresh = 1
  MaxGen = 2
  CheckInterval = 1
  ExchGen = 9
  Exchanges <- NoExchange
  MaxKills = 1
  MaxRestarts = 2
CHECK_DEADLOCK FALSE
INVARIANTS SavedCountsExact SavedListWhole ErcCountsExact ErcsOfTreesActive
PROPERTIES KeepsTheBest
