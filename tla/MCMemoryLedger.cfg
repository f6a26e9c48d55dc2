SPECIFICATION FairSpec
CONSTANTS
  Session = {s1, s2}
  Text = {x, y}
  MaxTries = 2
  MaxRecords = 3
  MaxItems = 2
  MaxBatchOps = 2
  MaxDeaths = 1
INVARIANTS
  NothingPassed
PROPERTIES
  EveryRecordHeard
  ExpiredForGood
CHECK_DEADLOCK FALSE
