SPECIFICATION Spec
CONSTANTS
  Owner = owner
  Visitor = {visitor}
  Source = {s1}
  Stage = {fetch, write}
  Page = {p1}
  Correction = {c1}
  NoIssue = NoIssue
  MaxHits = 2
  MaxActs = 7
  MaxFaults = 1
INVARIANTS
  ITypeOK
  FailuresOnBooks
  AcceptLeavesRepair
PROPERTIES
  DecisionStands
  RescanSound
CHECK_DEADLOCK FALSE
