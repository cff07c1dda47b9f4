SPECIFICATION FairSpec
CONSTANTS
  Requests = {q1}
  Patches = {p1}
  Uploads = {u1, u2}
  NoOne = NoOne
  MaxFaults = 2
CHECK_DEADLOCK FALSE
INVARIANTS
  DocumentBehindReceipt
PROPERTIES
  OneReceipt
  WaivedIsClosed
  ClosingIsAudited
