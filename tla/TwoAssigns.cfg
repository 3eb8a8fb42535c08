SPECIFICATION Spec
CONSTANTS
  Workers = {w1, w2}
  Visitors = {v1, v2}
  Cards = {c1}
  Appts = {a1, a2}
  Known = {v1, v2}
  Workloads <- CheckInWork
  MaxLocations = 0
  NoVisitor = NoVisitor
  NoCard = NoCard
  NotLoaded = NotLoaded
  NoAppt = NoAppt
PROPERTIES NoDirectTransfer
CHECK_DEADLOCK FALSE
