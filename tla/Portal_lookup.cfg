SPECIFICATION FairSpec
CONSTANTS
  Stages = 3
  DocumentStage = 2
  HaltStages = {1}
  Lookups = {l1, l2}
  MaxCodes = 3
  MaxFaults = 1
INVARIANTS
  TypeOK
  AnswersAgree
  KnownCodeOpens
PROPERTY
  PageCatchesUp
CHECK_DEADLOCK FALSE
