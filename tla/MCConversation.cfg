SPECIFICATION Spec
CONSTANTS
  Session = {s1}
  Replay = 4
  KeepTail = 1
  MaxLoops = 1
  Shapes <- TurnShapes
  MaxTurns = 2
  MaxPart = 3
  MaxFaults = 1
INVARIANTS
  CTypeOK
  DiskMirrors
  CompactionKept
  RequestLegal
CHECK_DEADLOCK FALSE
