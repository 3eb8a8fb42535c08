SPECIFICATION FairSpec
CONSTANTS
  Workers = {w1}
  Visitors = {v1, v2}
  Cards = {c1, c2}
  Appts = {a1, a2}
  Known = {v1}
  Workloads <- LendingWork
  MaxLocations = 0
  NoVisitor = NoVisitor
  NoCard = NoCard
  NotLoaded = NotLoaded
  NoAppt = NoAppt
PROPERTIES LendsCards
CHECK_DEADLOCK FALSE
