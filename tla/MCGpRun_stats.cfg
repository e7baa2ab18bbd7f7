SPECIFICATION FairSpec
CONSTANTS
  e1 = e1
  e2 = e2
  PopSize = 3
  BestN = 2
  MaxSaved = 14
  Erc <- None
  NumSubpops = 2
  Fitness = {0, 1, 3}
  Perfect = 3
  Nodes = {1}
  Elitism = 1
  MaxFresh = 0
  MaxGen = 2
  CheckInterval <- Never
  ExchGen = 9
  Exchanges <- NoExchange
  MaxKills = 0
  MaxRestarts = 0
CHECK_DEADLOCK FALSE
INVARIANTS TypeOK SavedCountsExact SavedListWhole NoCopyLeaks HeaderIsTop NewbestHeadsBothLists EliteNeverLost
PROPERTIES KeepsTheBest
