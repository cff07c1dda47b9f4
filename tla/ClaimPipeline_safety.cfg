SPECIFICATION Spec
CONSTANTS
  Claims = {c1}
  Workers = {w1, w2}
  Callers = {k1, k2}
  NumStages = 6
  HaltStages = {1, 2}
  GateStages = {5, 6}
  MaxAttempts = 2
  FaultKinds = {"stop", "crash", "lose"}
  MaxFaults = 2
SYMMETRY Symmetry
INVARIANTS
  ExclusiveExecution
  NoReexecution
  AnnouncedIsCheckpointed
  AutoApprovalEarned
PROPERTY
  ImplementsLifecycle
