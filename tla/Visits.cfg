SPECIFICATION Spec
CONSTANTS
  Workers = {w1, w2}
  Visitors = {v1, v2}
  Cards = {c1, c2}
  Appts = {a1, a2}
  Known = {v1}
  Workloads <- VisitWork
  MaxLocations = 1
  NoVisitor = NoVisitor
  NoCard = NoCard
  NotLoaded = NotLoaded
  NoAppt = NoAppt
INVARIANTS TypeOK CardsMatchVisits LentIsVisiting  
PROPERTIES StatusMovesForward
SYMMETRY Symmetry
CHECK_DEADLOCK FALSE
