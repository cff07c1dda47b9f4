SPECIFICATION Spec
CONSTANTS
  Tabs = {1}
  Requests = {r1}
  TabOf <- InTheFirstTab
  MaxCalls = 4
  MaxEvents = 2
INVARIANT
  LogoutRevokes
CHECK_DEADLOCK FALSE
