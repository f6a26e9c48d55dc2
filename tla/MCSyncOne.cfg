SPECIFICATION Spec
CONSTANTS
  p1 = p1
  p2 = p2
  old = old
  new = new
  Null = Null
  Partial = Partial
  Proc <- MCOneProc
  Retrier = {}
  Content <- MCContent
  NumSources = 2
  Resident = TRUE
  MaxRows = 4
  MaxBatches = 3
  MaxEdits = 3
  MaxFaults = 1
SYMMETRY MCContents
INVARIANTS TypeOK HeadWhole InputPresent NoLeftoverCopies QuietMeansConverged RecordedAtRest
PROPERTIES OwnCommitOnly
