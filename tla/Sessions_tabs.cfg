SPECIFICATION FairSpec
CONSTANTS
  Tabs = {1, 2}
  Requests = {r1, r2}
  TabOf <- InTheFirstTab
  MaxCalls = 7
  MaxEvents = 3
INVARIANTS
  TypeOK
  RefreshSucceeds
  JarHoldsTheSession
PROPERTY
  PageSettles
CHECK_DEADLOCK FALSE
