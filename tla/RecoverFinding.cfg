SPECIFICATION Spec
CONSTANTS
  p1 = p1
  p2 = p2
  old = old
  new = new
  Null = Null
  Partial = Partial
  Proc <- MCOneProc
  Retrier = {}
  Content <- MCContent
  NumSources = 2
  Resident = TRUE
  MaxRows = 2
  MaxBatches = 1
  MaxEdits = 1
  MaxFaults = 1
SYMMETRY MCContents
PROPERTIES StartRecoversAll
