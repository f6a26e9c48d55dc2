SPECIFICATION FairSpec
CONSTANTS
  p1 = p1
  p2 = p2
  old = old
  new = new
  Null = Null
  Partial = Partial
  Proc <- MCTwoProcs
  Retrier <- MCRetrier
  Content <- MCOneContent
  NumSources = 2
  Resident = FALSE
  MaxRows = 2
  MaxBatches = 2
  MaxEdits = 2
  MaxFaults = 1
INVARIANTS ExclusiveWriter
PROPERTIES EveryRowEnds
