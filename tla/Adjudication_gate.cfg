SPECIFICATION Spec
CONSTANTS
  Claims = {c1, c2}
  Incidents = {"theft5", "Theft on 5", "fire9"}
  Readings <- MCReadings
  Types = {"theft", "fire", "theft on"}
  TypeOf <- MCTypeOf
  DateOf <- MCDateOf
  Today = 7
  Policies <- MCPolicies
  NoPolicy = NoPolicy
  Amounts = {2, 10}
  Evidence <- MCEvidence
  Confidences = {85}
  Threshold = 85
  LowTypes = {"theft"}
  LowAmount = 5
  Priors <- MCPriors
  Blank = Blank
  MaxRetries = 1
SYMMETRY MCSymmetry
CHECK_DEADLOCK FALSE
INVARIANTS
  AutoApprovalIsSound
  RoutingIsMonotone
PROPERTY
  DuplicatesAreFlagged
