SPECIFICATION FairSpec
CONSTANTS
  Emissions = {e1, e2}
  Milestones = {decided}
  FromCustomer = {m1}
  FromAdjuster = {m2}
  Readings = {r1}
  Notes = {n1}
  Adjusters = {a1, a2}
  NoOne = NoOne
  MaxFaults = 1
CHECK_DEADLOCK FALSE
INVARIANTS
  TypeOK
  MailedOnce
  ReceiptsAreHonest
PROPERTIES
  RecordedIsMailed
  MessagesRing
