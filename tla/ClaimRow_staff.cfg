SPECIFICATION FairSpec
CONSTANTS
  Requests = {r1, r2}
  Workers = {w1, w2}
  Adjusters = {a1}
  NoOne = NoOne
  Operations = {"override", "reopen", "settle", "reassign", "bulk_reassign", "flag"}
  Threshold = 1
  MaxClock = 2
  MaxFaults = 1
CHECK_DEADLOCK FALSE
INVARIANTS
  TypeOK
  BlocksExplainStatus
  AuditBacksRow
PROPERTIES
  EscalationSetOnce
  SettlementAudited
