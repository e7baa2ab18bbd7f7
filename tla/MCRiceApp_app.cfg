SPECIFICATION Spec
CONSTANTS
  Cammeo <- MCCammeo
  Osmancik <- MCOsmancik
  FitnessCases = 3
  Individual <- MCIndividual
  MaxGen = 2
  MaxResumes = 1
CHECK_DEADLOCK FALSE
INVARIANTS EveryRecordOnce PerfectMeansPerfect
PROPERTIES ImplementsSplit
