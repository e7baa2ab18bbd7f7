SPECIFICATION FairSpec
CONSTANTS
  Function <- MCFunction
  Info <- MCInfo
  Code <- MCCode
  PopSize = 2
  TreeMap <- MCTreeMap
  IndNodeLimit = 6
  Attempts = 2
  Phases <- MCPhases
  Options <- MCOptions
  AFitness <- MCAFitness
CHECK_DEADLOCK FALSE
INVARIANTS TypeOK WithinLimits CacheTruthful ParentsHaveFitness
PROPERTIES KeepTrying CrossoverConserves GenerationEnds
