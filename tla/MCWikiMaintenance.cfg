SPECIFICATION Spec
CONSTANTS
  a = a
  b = b
  c = c
  s1 = s1
  s2 = s2
  src1 = src1
  src2 = src2
  Slug = {a, b, c}
  Section = {s1, s2}
  Source = {src1, src2}
  Answers <- MCAnswers
  Compiled <- MCCompiled
  Targets <- MCTargets
  Start <- MCStart
  MaxProposals = 3
  MaxCommits = 3
  MaxBatches = 2
  MaxFaults = 1
INVARIANTS
  MTypeOK
  RefsWhole
  UnitsFindPages
  DecidedOnce
  BatchesContiguous
PROPERTIES
  NothingLost
CHECK_DEADLOCK FALSE
