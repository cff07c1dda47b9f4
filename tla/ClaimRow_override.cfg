SPECIFICATION FairSpec
CONSTANTS
  Requests = {r1}
  Workers = {w1}
  Adjusters = {a1, a2}
  NoOne = NoOne
  Operations = {"override"}
  Threshold = 0
  MaxClock = 0
  MaxFaults = 0
CHECK_DEADLOCK FALSE
PROPERTY
  OverrideStands
