SPECIFICATION FairSpec
CONSTANTS
  Size = 5
  NumThreads = 4
INVARIANTS TypeOK NoSharedIndividual EvaluatedOnce ParamOutlivesThreads
PROPERTY Returns
CHECK_DEADLOCK FALSE
