SPECIFICATION FairCallsSpec
CONSTANTS
  Claims = {c1}
  Workers = {w1, w2}
  Callers = {k1}
  NumStages = 3
  HaltStages = {1}
  GateStages = {3}
  MaxAttempts = 2
  FaultKinds = {"stop", "lose"}
  MaxFaults = 1
  ModelOf <- MCModelOf
  SimilarityStage = 2
  DecisionStage = 3
  SkipStages = {1, 2}
  MaxRetries = 1
  Modes <- MCModes
INVARIANTS
  CallsTypeOK
  StageCostBounded
  OneShotFaultsAreRescued
  TemplateNeverPays
PROPERTY
  EveryRunEnds
