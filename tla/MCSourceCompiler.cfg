SPECIFICATION Spec
CONSTANTS
  s1 = s1
  s2 = s2
  NumPages = 3
  Source <- MCSource
  StartWikis <- MCStartWikis
  LinkSets <- MCLinkSets
  MaxTargets = 2
  MaxRuns = 2
  MaxFaults = 1
INVARIANTS
  PTypeOK
  IndexWhole
PROPERTIES
  NoNewDeadLinks
  SourcesStayNamed
CHECK_DEADLOCK FALSE
