SPECIFICATION FairSpec
CONSTANTS
  NFiles = 2
  NReduce = 2
  Workers = {w1, w2}
  MaxSlow = 1
  MaxCrashes = 1
CHECK_DEADLOCK FALSE
INVARIANTS QueueHasRoom FinishedMeansOutputs ResultsKept PunctualQueue
PROPERTIES OutputsGrow JobEnds FinalExitEndsAll
