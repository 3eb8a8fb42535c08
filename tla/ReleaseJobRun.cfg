SPECIFICATION Spec
CONSTANTS
  Workers = {w1}
  Visitors = {v1}
  Cards = {c1}
  Appts = {a1}
  Known = {v1}
  Workloads <- ReleaseJobWork
  MaxLocations = 0
  NoVisitor = NoVisitor
  NoCard = NoCard
  NotLoaded = NotLoaded
  NoAppt = NoAppt
INVARIANTS CompletedIsFree
CHECK_DEADLOCK FALSE
