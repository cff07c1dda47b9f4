SPECIFICATION FairSpec
CONSTANTS
  Claims = {c1, c2}
  Emitters = {e1, e2}
  MaxSeq = 2
  BatchSize = 2
  MaxConnectAttempts = 1
  FaultKinds = {"gap", "drop", "split"}
  MaxFaults = 3
CHECK_DEADLOCK FALSE
INVARIANTS
  TypeOK
  BoardInOrder
  OnlyOvertakenSkipped
  QuietEndIsTerminal
PROPERTY
  EventsArrive
