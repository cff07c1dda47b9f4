SPECIFICATION FairSpec
CONSTANTS
  Claims = {c1}
  Workers = {w1}
  Callers = {k1}
  NumStages = 2
  HaltStages = {1}
  GateStages = {2}
  MaxAttempts = 1
  FaultKinds = {"crash"}
  MaxFaults = 1
PROPERTY
  EveryRunEnds
