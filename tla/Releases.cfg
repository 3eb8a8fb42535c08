SPECIFICATION FairSpec
CONSTANTS
  Workers = {w1, w2, w3}
  Visitors = {v1}
  Cards = {c1}
  Appts = {a1}
  Known = {v1}
  Workloads <- ReleaseWork
  MaxLocations = 0
  NoVisitor = NoVisitor
  NoCard = NoCard
  NotLoaded = NotLoaded
  NoAppt = NoAppt
INVARIANTS CompletedIsFree ReleaseInv
PROPERTIES EventuallyReleased
CHECK_DEADLOCK FALSE
